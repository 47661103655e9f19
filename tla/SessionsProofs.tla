--------------------------- MODULE SessionsProofs ---------------------------
(***************************************************************************)
(* The sessions of a user, for any devices, requests and limit.            *)
(*                                                                         *)
(* The invariant is built in layers, each proved with those below it:      *)
(*   Shape       what a request knows at each of its calls                 *)
(*   OneDevice   a session is of one device                                *)
(*   OneRequest  a device that is not rough has one request                *)
(*   Current     that request works on the session of the device           *)
(*   Matches     the stored hash is of the token it, or the client, has    *)
(*   Room        the devices signed in before a login leave room for it    *)
(*   LoneFlow    a login that is alone finds Redis as it left it           *)
(***************************************************************************)
EXTENDS Sessions, FiniteSetTheorems, TLAPS

\* A set that holds 0 and, with a number, the next one holds them all.
LEMMA Counting ==
  ASSUME NEW S, 0 \in S, \A n \in Nat : n \in S => n + 1 \in S
  PROVE  Nat \subseteq S
  <1> DEFINE T == Nat \ S
             R == OpToRel(<, Nat)
  <1>1. SUFFICES ASSUME T # {} PROVE FALSE
    OBVIOUS
  <1>2. IsWellFoundedOn(R, Nat)
    BY NatLessThanWellFounded
  <1>3. T \subseteq Nat
    OBVIOUS
  <1>4. PICK x \in T : \A y \in T : <<y, x>> \notin R
    <2> HIDE DEF T, R
    <2>1. QED
      BY <1>1, <1>2, <1>3, WFMin
  <1>5. x - 1 \in T
    OBVIOUS
  <1>6. <<x - 1, x>> \in R
    BY <1>5 DEF OpToRel
  <1>7. QED
    BY <1>4, <1>5, <1>6

Keeps(s, gone, kept) ==
    kept = [i \in 0..Len(s) |-> IF i = 0 THEN <<>>
                                ELSE IF s[i] \in gone THEN kept[i - 1]
                                ELSE Append(kept[i - 1], s[i])]

\* The list kept after i elements has those that are not gone, in their order.
LEMMA RemainingKeeps ==
  ASSUME NEW S, NEW s \in Seq(S), NEW gone
  PROVE  \E kept : Keeps(s, gone, kept) /\ Remaining(s, gone) = kept[Len(s)]
  <1> DEFINE upto(n, k) == k = [i \in 0..n |-> IF i = 0 THEN <<>>
                                      ELSE IF s[i] \in gone THEN k[i - 1]
                                      ELSE Append(k[i - 1], s[i])]
             Made == {n \in Nat : \E k : upto(n, k)}
  <1>1. 0 \in Made
    <2>1. upto(0, [i \in 0..0 |-> <<>>])
      OBVIOUS
    <2>2. QED
      BY <2>1
  <1>2. ASSUME NEW n \in Nat, n \in Made PROVE n + 1 \in Made
    <2>1. PICK k : upto(n, k)
      BY <1>2
    <2> DEFINE last == IF s[n + 1] \in gone THEN k[n] ELSE Append(k[n], s[n + 1])
               g == [i \in 0..(n + 1) |-> IF i = n + 1 THEN last ELSE k[i]]
    <2>2. \A i \in 0..n : g[i] = k[i]
      OBVIOUS
    <2>3. ASSUME NEW i \in 0..(n + 1)
          PROVE  g[i] = IF i = 0 THEN <<>> ELSE IF s[i] \in gone THEN g[i - 1]
                        ELSE Append(g[i - 1], s[i])
      <3>1. CASE i = n + 1
        BY <3>1, <2>2
      <3>2. CASE i \in 0..n
        <4>1. k[i] = IF i = 0 THEN <<>> ELSE IF s[i] \in gone THEN k[i - 1]
                     ELSE Append(k[i - 1], s[i])
          BY <2>1, <3>2
        <4>2. i # 0 => i - 1 \in 0..n
          BY <3>2
        <4>3. QED
          BY <4>1, <4>2, <2>2, <3>2
      <3>3. QED
        BY <3>1, <3>2
    <2>4. upto(n + 1, g)
      BY <2>3
    <2> HIDE DEF g, last, upto
    <2>5. QED
      BY <2>4
  <1>3. Nat \subseteq Made
    <2> HIDE DEF Made
    <2>1. QED
      BY <1>1, <1>2, Counting
  <1> DEFINE kept[i \in 0..Len(s)] == IF i = 0 THEN <<>>
                                      ELSE IF s[i] \in gone THEN kept[i - 1]
                                      ELSE Append(kept[i - 1], s[i])
  <1>4. \E k : Keeps(s, gone, k)
    <2>1. \E k : upto(Len(s), k)
      <3> HIDE DEF upto
      <3>1. Len(s) \in Nat
        OBVIOUS
      <3>2. QED
        BY <3>1, <1>3
    <2>2. QED
      BY <2>1 DEF Keeps
  <1>5. Keeps(s, gone, kept)
    BY <1>4 DEF Keeps
  <1>6. Remaining(s, gone) = kept[Len(s)]
    BY DEF Remaining
  <1>7. QED
    BY <1>5, <1>6

\* In a list: a stands before b.
Ahead(s, a, b) == \E i, m \in DOMAIN s : i < m /\ s[i] = a /\ s[m] = b

\* ZREM takes out what it is given, and leaves the others in their order.
LEMMA RemainingOf ==
  ASSUME NEW S, NEW s \in Seq(S), NEW gone
  PROVE  LET r == Remaining(s, gone)
         IN  /\ r \in Seq(S)
             /\ Range(r) = Range(s) \ gone
             /\ \A a, b : Ahead(r, a, b) => Ahead(s, a, b)
             /\ IsInjective(s) => IsInjective(r)
  <1>1. PICK kept : Keeps(s, gone, kept) /\ Remaining(s, gone) = kept[Len(s)]
    BY RemainingKeeps
  <1> DEFINE Of(n, r) == /\ r \in Seq(S)
                         /\ \A k \in 1..Len(r) : \E i \in 1..n : r[k] = s[i] /\ s[i] \notin gone
                         /\ \A i \in 1..n : s[i] \notin gone => \E k \in 1..Len(r) : r[k] = s[i]
                         /\ \A k, l \in 1..Len(r) : k < l =>
                               \E i, m \in 1..n : i < m /\ r[k] = s[i] /\ r[l] = s[m]
             Good == {n \in Nat : n <= Len(s) => Of(n, kept[n])}
  <1>2. kept[0] = <<>> /\ \A n \in 1..Len(s) : kept[n] = IF s[n] \in gone THEN kept[n - 1]
                                                     ELSE Append(kept[n - 1], s[n])
    <2> DEFINE Step(k, i) == IF i = 0 THEN <<>> ELSE IF s[i] \in gone THEN k[i - 1]
                             ELSE Append(k[i - 1], s[i])
    <2>1. kept = [i \in 0..Len(s) |-> Step(kept, i)]
      BY <1>1 DEF Keeps
    <2>2. \A i \in 0..Len(s) : kept[i] = Step(kept, i)
      <3> HIDE DEF Step
      <3>1. QED
        BY <2>1
    <2>3. Len(s) \in Nat
      OBVIOUS
    <2>4. QED
      BY <2>2, <2>3
  <1>3. 0 \in Good
    <2>1. Of(0, <<>>)
      OBVIOUS
    <2> HIDE DEF Of
    <2>2. QED
      BY <1>2, <2>1
  <1>4. ASSUME NEW n \in Nat, n \in Good PROVE n + 1 \in Good
    <2>1. SUFFICES ASSUME n + 1 <= Len(s) PROVE Of(n + 1, kept[n + 1])
      OBVIOUS
    <2>2. Of(n, kept[n])
      <3> HIDE DEF Of
      <3>1. n <= Len(s)
        BY <2>1
      <3>2. QED
        BY <1>4, <3>1
    <2>3. n + 1 \in 1..Len(s) /\ s[n + 1] \in S
      BY <2>1
    <2>4. CASE s[n + 1] \in gone
      <3>1. kept[n + 1] = kept[n]
        BY <1>2, <2>3, <2>4, (n + 1) - 1 = n
      <3>2. PICK q : q = kept[n]
        OBVIOUS
      <3>3. Of(n, q)
        BY <2>2, <3>2
      <3>4. \A k \in 1..Len(q) : \E i \in 1..(n + 1) : q[k] = s[i] /\ s[i] \notin gone
        <4>1. \A i \in 1..n : i \in 1..(n + 1)
          OBVIOUS
        <4>2. \A k \in 1..Len(q) : \E i \in 1..n : q[k] = s[i] /\ s[i] \notin gone
          BY <3>3
        <4> HIDE DEF Of, Good
        <4>3. QED
          BY ONLY <4>1, <4>2
      <3>5. \A i \in 1..(n + 1) : s[i] \notin gone => \E k \in 1..Len(q) : q[k] = s[i]
        <4>1. \A i \in 1..(n + 1) : i = n + 1 \/ i \in 1..n
          OBVIOUS
        <4>2. \A i \in 1..n : s[i] \notin gone => \E k \in 1..Len(q) : q[k] = s[i]
          BY <3>3
        <4>3. QED
          BY <2>4, <4>1, <4>2
      <3>6. \A k, l \in 1..Len(q) : k < l =>
               \E i, m \in 1..(n + 1) : i < m /\ q[k] = s[i] /\ q[l] = s[m]
        <4>1. \A i \in 1..n : i \in 1..(n + 1)
          OBVIOUS
        <4>2. \A k, l \in 1..Len(q) : k < l =>
                 \E i, m \in 1..n : i < m /\ q[k] = s[i] /\ q[l] = s[m]
          BY <3>3
        <4> HIDE DEF Of, Good
        <4>3. QED
          BY ONLY <4>1, <4>2
      <3>7. Of(n + 1, q)
        BY <3>3, <3>4, <3>5, <3>6
      <3>8. QED
        BY <3>1, <3>2, <3>7
    <2>5. CASE s[n + 1] \notin gone
      <3>1. kept[n + 1] = Append(kept[n], s[n + 1])
        BY <1>2, <2>3, <2>5, (n + 1) - 1 = n
      <3>2. PICK q : q = kept[n]
        OBVIOUS
      <3>3. Of(n, q)
        BY <2>2, <3>2
      <3>4. /\ Append(q, s[n + 1]) \in Seq(S)
            /\ Len(Append(q, s[n + 1])) = Len(q) + 1
            /\ Len(q) \in Nat
            /\ \A k \in 1..Len(q) : Append(q, s[n + 1])[k] = q[k]
            /\ Append(q, s[n + 1])[Len(q) + 1] = s[n + 1]
        BY <3>3, <2>3
      <3>5. PICK r : r = Append(q, s[n + 1])
        OBVIOUS
      <3>6. \A k \in 1..Len(r) : \E i \in 1..(n + 1) : r[k] = s[i] /\ s[i] \notin gone
        <4> SUFFICES ASSUME NEW k \in 1..Len(r)
                     PROVE  \E i \in 1..(n + 1) : r[k] = s[i] /\ s[i] \notin gone
          OBVIOUS
        <4>1. CASE k = Len(q) + 1
          BY <4>1, <3>4, <3>5, <2>5
        <4>2. CASE k \in 1..Len(q)
          BY <4>2, <3>3, <3>4, <3>5
        <4>3. QED
          BY <4>1, <4>2, <3>4, <3>5
      <3>7. \A i \in 1..(n + 1) : s[i] \notin gone => \E k \in 1..Len(r) : r[k] = s[i]
        <4> SUFFICES ASSUME NEW i \in 1..(n + 1), s[i] \notin gone
                     PROVE  \E k \in 1..Len(r) : r[k] = s[i]
          OBVIOUS
        <4>1. CASE i = n + 1
          BY <4>1, <3>4, <3>5
        <4>2. CASE i \in 1..n
          BY <4>2, <3>3, <3>4, <3>5
        <4>3. QED
          BY <4>1, <4>2
      <3>8. \A k, l \in 1..Len(r) : k < l =>
               \E i, m \in 1..(n + 1) : i < m /\ r[k] = s[i] /\ r[l] = s[m]
        <4> SUFFICES ASSUME NEW k \in 1..Len(r), NEW l \in 1..Len(r), k < l
                     PROVE  \E i, m \in 1..(n + 1) : i < m /\ r[k] = s[i] /\ r[l] = s[m]
          OBVIOUS
        <4>0. k \in 1..Len(q) /\ r[k] = q[k]
          BY <3>4, <3>5
        <4>1. CASE l = Len(q) + 1
          <5>1. PICK i \in 1..n : q[k] = s[i]
            BY <4>0, <3>3
          <5>2. r[l] = s[n + 1]
            BY <4>1, <3>4, <3>5
          <5>3. QED
            BY <4>0, <5>1, <5>2
        <4>2. CASE l \in 1..Len(q)
          <5>1. r[l] = q[l]
            BY <4>2, <3>4, <3>5
          <5>2. PICK i \in 1..n, m \in 1..n : i < m /\ q[k] = s[i] /\ q[l] = s[m]
            BY <4>0, <4>2, <3>3
          <5>3. QED
            BY <4>0, <5>1, <5>2
        <4>3. QED
          BY <4>1, <4>2, <3>4, <3>5
      <3>9. Of(n + 1, r)
        BY <3>4, <3>5, <3>6, <3>7, <3>8
      <3> HIDE DEF Of
      <3>10. QED
        BY <3>1, <3>2, <3>5, <3>9
    <2>6. QED
      BY <2>4, <2>5
  <1>5. Nat \subseteq Good
    <2> HIDE DEF Good
    <2>1. QED
      BY <1>3, <1>4, Counting
  <1> DEFINE r == Remaining(s, gone)
  <1>6. Of(Len(s), r)
    <2> HIDE DEF Of
    <2>1. Len(s) \in Nat
      OBVIOUS
    <2>2. QED
      BY <1>1, <1>5, <2>1
  <1> HIDE DEF r
  <1>7. DOMAIN s = 1..Len(s) /\ DOMAIN r = 1..Len(r) /\ Len(r) \in Nat /\ Len(s) \in Nat
    BY <1>6
  <1>8. Range(r) = Range(s) \ gone
    <2>1. \A x : x \in Range(r) <=> \E k \in 1..Len(r) : x = r[k]
      BY <1>7 DEF Range
    <2>2. \A x : x \in Range(s) <=> \E i \in 1..Len(s) : x = s[i]
      BY <1>7 DEF Range
    <2>3. /\ \A k \in 1..Len(r) : \E i \in 1..Len(s) : r[k] = s[i] /\ s[i] \notin gone
          /\ \A i \in 1..Len(s) : s[i] \notin gone => \E k \in 1..Len(r) : r[k] = s[i]
      BY <1>6
    <2>4. ASSUME NEW x PROVE x \in Range(r) <=> x \in Range(s) /\ x \notin gone
      <3>1. ASSUME x \in Range(r) PROVE x \in Range(s) /\ x \notin gone
        <4>1. PICK k \in 1..Len(r) : x = r[k]
          BY <2>1, <3>1
        <4>2. PICK i \in 1..Len(s) : r[k] = s[i] /\ s[i] \notin gone
          BY <2>3
        <4>3. QED
          BY <2>2, <4>1, <4>2
      <3>2. ASSUME x \in Range(s), x \notin gone PROVE x \in Range(r)
        <4>1. PICK i \in 1..Len(s) : x = s[i]
          BY <2>2, <3>2
        <4>2. PICK k \in 1..Len(r) : r[k] = s[i]
          BY <2>3, <3>2, <4>1
        <4>3. QED
          BY <2>1, <4>1, <4>2
      <3>3. QED
        BY <3>1, <3>2
    <2>5. QED
      BY <2>4
  <1>9. \A a, b : Ahead(r, a, b) => Ahead(s, a, b)
    <2>1. \A k, l \in 1..Len(r) : k < l =>
             \E i, m \in 1..Len(s) : i < m /\ r[k] = s[i] /\ r[l] = s[m]
      BY <1>6
    <2>2. SUFFICES ASSUME NEW a, NEW b, Ahead(r, a, b) PROVE Ahead(s, a, b)
      OBVIOUS
    <2>3. PICK k, l \in 1..Len(r) : k < l /\ r[k] = a /\ r[l] = b
      BY <1>7, <2>2 DEF Ahead
    <2>4. PICK i, m \in 1..Len(s) : i < m /\ r[k] = s[i] /\ r[l] = s[m]
      BY <2>1, <2>3
    <2>5. QED
      BY <1>7, <2>3, <2>4 DEF Ahead
  <1>10. IsInjective(s) => IsInjective(r)
    <2> SUFFICES ASSUME IsInjective(s), NEW k \in DOMAIN r, NEW l \in DOMAIN r, r[k] = r[l]
                 PROVE  k = l
      BY DEF IsInjective
    <2>1. \A i, m \in DOMAIN s : i < m => s[i] # s[m]
      BY <1>7 DEF IsInjective
    <2>2. ~(k < l) /\ ~(l < k)
      <3>1. \A h, m \in 1..Len(r) : h < m =>
               \E i, n \in 1..Len(s) : i < n /\ r[h] = s[i] /\ r[m] = s[n]
        BY <1>6
      <3>2. k \in 1..Len(r) /\ l \in 1..Len(r)
        BY <1>7
      <3>3. CASE k < l
        <4>1. PICK i \in 1..Len(s), n \in 1..Len(s) : i < n /\ r[k] = s[i] /\ r[l] = s[n]
          BY <3>1, <3>2, <3>3
        <4>2. QED
          BY <1>7, <2>1, <4>1
      <3>4. CASE l < k
        <4>1. PICK i \in 1..Len(s), n \in 1..Len(s) : i < n /\ r[l] = s[i] /\ r[k] = s[n]
          BY <3>1, <3>2, <3>4
        <4>2. QED
          BY <1>7, <2>1, <4>1
      <3>5. QED
        BY <3>3, <3>4
    <2>3. QED
      BY <1>7, <2>2
  <1>11. QED
    BY <1>6, <1>8, <1>9, <1>10 DEF r

\* The same for the device that is put at the end.
LEMMA NewestOf ==
  ASSUME userDevices \in Seq(Device), NEW d \in Device
  PROVE  /\ Newest(d) \in Seq(Device)
         /\ Range(Newest(d)) = Range(userDevices) \cup {d}
         /\ \A a, b : Ahead(Newest(d), a, b) => Ahead(userDevices, a, b) \/ b = d
         /\ IsInjective(userDevices) => IsInjective(Newest(d))
         /\ Len(Newest(d)) \in Nat \ {0} /\ Newest(d)[Len(Newest(d))] = d
  <1>1. PICK q : q = Remaining(userDevices, {d})
    OBVIOUS
  <1>2. /\ q \in Seq(Device) /\ Range(q) = Range(userDevices) \ {d}
        /\ \A a, b : Ahead(q, a, b) => Ahead(userDevices, a, b)
        /\ IsInjective(userDevices) => IsInjective(q)
    BY <1>1, RemainingOf
  <1>3. PICK r : r = Append(q, d)
    OBVIOUS
  <1>4. /\ r \in Seq(Device) /\ Len(q) \in Nat /\ Len(r) = Len(q) + 1
        /\ DOMAIN q = 1..Len(q) /\ DOMAIN r = 1..Len(r)
        /\ \A k \in 1..Len(q) : r[k] = q[k]
        /\ r[Len(q) + 1] = d
    BY <1>2, <1>3
  <1>5. Range(r) = Range(userDevices) \cup {d}
    <2>1. Range(r) = Range(q) \cup {d}
      BY <1>4 DEF Range
    <2>2. QED
      BY <1>2, <2>1
  <1>6. \A a, b : Ahead(r, a, b) => Ahead(q, a, b) \/ b = d
    BY <1>4 DEF Ahead
  <1>7. IsInjective(userDevices) => IsInjective(r)
    <2>1. \A k \in 1..Len(q) : q[k] # d
      BY <1>2, <1>4 DEF Range
    <2>2. QED
      BY <1>2, <1>4, <2>1 DEF IsInjective
  <1>8. Newest(d) = r
    BY <1>1, <1>3 DEF Newest, Without
  <1>9. QED
    BY <1>2, <1>4, <1>5, <1>6, <1>7, <1>8

-----------------------------------------------------------------------------
(* The invariant, in layers.                                               *)

\* A login that has not evicted yet; the requests that carry a token.
Flow == {"count", "range", "old", "evict"}
Carry == Flow \cup {"answer", "session", "delete", "store", "extend", "undo", "list"}

\* What a request knows at each of its calls; and a request that is alone, is so.
Sound(x) ==
    /\ x.pc = "idle" <=> x = Idle
    /\ x.pc # "idle" <=> x.device \in Device
    /\ x.pc \in Carry => x.token \in Token
    /\ x.pc \in {"range", "old", "evict"} => x.n > MaxDevices
    /\ x.pc \in {"old", "evict"} => x.list # <<>>
    /\ x.pc = "del token" => x.old \in SessionId
    /\ x.pc \in {"count", "session", "delete", "store", "extend", "list"} => x.n = 0
    /\ x.pc \in {"count", "range"} => x.sent = {}

Shape == \A j \in Job : Sound(job[j])
AloneIsAlone == \A j \in Job : job[j].alone => \A i \in Job \ {j} : job[i] = Idle

\* d refers to the session s.
Holds(d, s) ==
    \/ deviceSession[d] = s
    \/ cookie[d] # None /\ cookie[d][1] = s
    \/ \E j \in Job : job[j].device = d /\ job[j].token # None /\ job[j].token[1] = s

\* A session is of one device, for ever.
OneDevice ==
    \A d \in Device, s \in SessionId :
        Holds(d, s) => s <= issued /\ \A e \in Device : Holds(e, s) => e = d

OneRequest ==
    \A j, k \in Job : job[j].device = job[k].device /\ job[j].device \in Device \ rough => j = k

\* Where the request of a device is, against its session.
InStep(j, s) ==
    /\ job[j].pc \in Flow \cup {"answer", "delete", "store", "extend", "list"} => job[j].token[1] = s
    /\ job[j].pc = "del token" => job[j].old = s
    /\ job[j].pc \notin {"undo", "leave"}
Current ==
    \A d \in Device \ rough :
        deviceSession[d] # None =>
            /\ d \in Range(userDevices)
            /\ \A j \in Job : job[j].device = d => InStep(j, deviceSession[d])

\* Who has the token whose hash is stored.
Stored(d) == refreshToken[deviceSession[d]]
HasToken(j, t) ==
    /\ job[j].pc \in Flow \cup {"answer", "extend", "list"} => job[j].token = t
    /\ job[j].pc \in {"session", "delete", "asked", "del token"} => cookie[job[j].device] = t
    /\ job[j].pc \notin {"store", "del session"}
Matches ==
    \A d \in Device \ rough :
        deviceSession[d] # None /\ Stored(d) # None =>
            /\ (\A j \in Job : job[j].device # d) => cookie[d] = Stored(d)
            /\ \A j \in Job : job[j].device = d => HasToken(j, Stored(d))

\* The devices that are signed in, those since no later than the session s, and
\* those that stand before e.
Signed == {d \in Device \ rough : deviceSession[d] # None}
Older(s) == {d \in Signed : deviceSession[d] <= s}
Before(e) == {d \in Device : Ahead(userDevices, d, e)}
InFlow(d) == \E j \in Job : job[j].device = d /\ job[j].pc \in Flow

HasRoom(j, d) ==
    /\ job[j].pc = "range" =>
          Cardinality(Older(deviceSession[d]) \cup Before(d)) <= job[j].n
    /\ job[j].pc \in {"old", "evict"} =>
          Cardinality(Older(deviceSession[d]) \ Range(job[j].list)) <= MaxDevices
Room ==
    \A d \in Signed :
        /\ InFlow(d) \/ Cardinality(Older(deviceSession[d])) <= MaxDevices
        /\ \A j \in Job : job[j].device = d => HasRoom(j, d)

\* Logins that are under way keep their order.
InOrder ==
    \A d, e \in Signed :
        InFlow(d) /\ InFlow(e) /\ deviceSession[e] < deviceSession[d] =>
            ~Ahead(userDevices, d, e)

Lone(j) ==
    /\ job[j].alone
    /\ job[j].pc \in Flow \cup {"answer"}
    /\ job[j].pc = "answer" => job[j].n > 0
Newer(j) ==
    /\ deviceSession[job[j].device] = job[j].token[1]
    /\ refreshToken[job[j].token[1]] # None
    /\ userDevices # <<>> /\ userDevices[Len(userDevices)] = job[j].device
    /\ job[j].pc = "range" => job[j].n = Len(userDevices)
    /\ job[j].pc \in {"old", "evict"} =>
          /\ Len(userDevices) = Len(job[j].list) + MaxDevices
          /\ \A i \in 1..Len(job[j].list) : job[j].list[i] = userDevices[i]
          /\ \A x \in job[j].sent : x[1] \notin Range(userDevices) /\ x[2] # job[j].token[1]
    /\ job[j].pc = "evict" => job[j].old # job[j].token[1]
    /\ job[j].pc = "answer" =>
          Len(userDevices) = IF job[j].n > MaxDevices THEN MaxDevices ELSE job[j].n
LoneFlow == \A j \in Job : Lone(j) => Newer(j)

Lists == Seq(Device)
Sents == SUBSET (Device \X (SessionId \cup {None}))
JobState == [pc : Pc, device : Device \cup {None}, token : Token \cup {None},
             n : Nat, list : Lists, old : SessionId \cup {None},
             sent : Sents, alone : BOOLEAN]

-----------------------------------------------------------------------------
(* Types, and what a request knows at each of its calls.                   *)

LEMMA IdleTyped == Idle \in JobState
  BY DEF Idle, JobState, Pc, Lists, Sents

LEMMA InitTypeOK == Init => TypeOK
  <1> SUFFICES ASSUME Init PROVE TypeOK
    OBVIOUS
  <1>1. job \in [Job -> JobState]
    BY IdleTyped DEF Init
  <1>2. IsInjective(userDevices) /\ userDevices \in Seq(Device)
    BY DEF Init, IsInjective
  <1>3. QED
    BY <1>1, <1>2, SessionsAssumption DEF Init, TypeOK, JobState, Lists, Sents

\* A request that starts is as it is asked for, and keeps no other alone.
LEMMA StartsTyped ==
  ASSUME job \in [Job -> JobState], NEW j \in Job, NEW r \in JobState, Starts(j, r)
  PROVE  /\ job' \in [Job -> JobState]
         /\ job'[j] = [r EXCEPT !.alone = Quiet]
         /\ \A i \in Job \ {j} : job'[i] = [job[i] EXCEPT !.alone = FALSE]
  <1>1. Quiet \in BOOLEAN
    BY DEF Quiet
  <1>2. /\ [r EXCEPT !.alone = Quiet] \in JobState
        /\ \A i \in Job : [job[i] EXCEPT !.alone = FALSE] \in JobState
    BY <1>1 DEF JobState
  <1>3. QED
    BY <1>2 DEF Starts

\* The types follow from what a request is at each call.
LEMMA NextTypeOK == TypeOK /\ Shape /\ [Next]_vars => TypeOK'
  <1> SUFFICES ASSUME TypeOK, Shape, [Next]_vars PROVE TypeOK'
    OBVIOUS
  <1>j. job \in [Job -> JobState]
    BY DEF TypeOK, JobState, Lists, Sents
  <1>p. /\ "range" \in Pc /\ "old" \in Pc /\ "evict" \in Pc /\ "answer" \in Pc
        /\ "store" \in Pc /\ "del token" \in Pc /\ "del session" \in Pc
    BY DEF Pc
  <1>a. Sessions \in Nat /\ MaxDevices \in Nat \ {0} /\ MaxClock \in Nat
    BY SessionsAssumption
  <1>0. /\ job \in [Job -> JobState]
        /\ userDevices \in Seq(Device) /\ IsInjective(userDevices)
        /\ refreshToken \in [SessionId -> Token \cup {None}]
        /\ deviceSession \in [Device -> SessionId \cup {None}]
        /\ cookie \in [Device -> Token \cup {None}]
        /\ clock \in 0..MaxClock /\ issued \in 0..Sessions /\ rough \subseteq Device
    BY DEF TypeOK, JobState, Lists, Sents
  <1>q. ASSUME job' \in [Job -> JobState],
               userDevices' \in Seq(Device), IsInjective(userDevices'),
               refreshToken' \in [SessionId -> Token \cup {None}],
               deviceSession' \in [Device -> SessionId \cup {None}],
               cookie' \in [Device -> Token \cup {None}],
               clock' \in 0..MaxClock, issued' \in 0..Sessions, rough' \subseteq Device
        PROVE  TypeOK'
    BY <1>q DEF TypeOK, JobState, Lists, Sents
  <1>i. Idle \in JobState
    BY IdleTyped
  <1>n. ASSUME NEW d \in Device
        PROVE  Newest(d) \in Seq(Device) /\ IsInjective(Newest(d))
    BY <1>0, NewestOf
  <1>r. ASSUME NEW gone
        PROVE  Remaining(userDevices, gone) \in Seq(Device) /\ IsInjective(Remaining(userDevices, gone))
    BY <1>0, RemainingOf
  <1>e. ASSUME NEW j \in Job, Ends(j) PROVE job' \in [Job -> JobState]
    BY <1>0, <1>i, <1>e DEF Ends
  <1>g. ASSUME NEW j \in Job, NEW pc \in Pc, Goto(j, pc) PROVE job' \in [Job -> JobState]
    BY <1>j, <1>g DEF Goto, JobState
  <1>1. ASSUME NEW j \in Job, NEW d \in Device, Login(j, d) PROVE TypeOK'
    <2>0. issued + 1 \in SessionId /\ <<issued + 1, clock>> \in Token
      BY <1>0, <1>a, <1>1 DEF Login, SessionId, Token
    <2>1. PICK s \in SessionId, t \in Token :
             /\ s = issued + 1 /\ t = <<s, clock>>
             /\ Starts(j, [Idle EXCEPT !.pc = "count", !.device = d, !.token = t])
             /\ refreshToken' = [refreshToken EXCEPT ![s] = t]
             /\ deviceSession' = [deviceSession EXCEPT ![d] = s]
             /\ issued' = s
      BY <2>0, <1>1 DEF Login
    <2>2. [Idle EXCEPT !.pc = "count", !.device = d, !.token = t] \in JobState
      BY <1>i DEF JobState, Pc
    <2>3. job' \in [Job -> JobState]
      BY <1>0, <2>1, <2>2, StartsTyped
    <2>4. userDevices' = Newest(d) /\ cookie' = cookie /\ clock' = clock /\ rough' \subseteq Device
      BY <1>0, <1>1 DEF Login
    <2>5. issued' \in 0..Sessions
      BY <2>1 DEF SessionId
    <2>6. /\ refreshToken' \in [SessionId -> Token \cup {None}]
          /\ deviceSession' \in [Device -> SessionId \cup {None}]
      BY <1>0, <2>1
    <2>7. QED
      BY <1>0, <1>q, <1>n, <2>3, <2>4, <2>5, <2>6
  <1>2. ASSUME NEW j \in Job, NEW d \in Device, Refresh(j, d) PROVE TypeOK'
    <2>1. PICK r \in JobState : Starts(j, r)
      <3>1. cookie[d] \in Token \cup {None}
        BY <1>0
      <3>2. [Idle EXCEPT !.pc = "session", !.device = d, !.token = cookie[d]] \in JobState
        BY <1>i, <3>1 DEF JobState, Pc
      <3>3. QED
        BY <1>2, <3>2 DEF Refresh
    <2>2. job' \in [Job -> JobState]
      BY <1>0, <2>1, StartsTyped
    <2>3. QED
      BY <1>0, <1>q, <1>2, <2>2 DEF Refresh, Overlaps, redis, rest
  <1>3. ASSUME NEW j \in Job, NEW d \in Device, Logout(j, d) PROVE TypeOK'
    <2>1. PICK r \in JobState : Starts(j, r)
      <3>1. [Idle EXCEPT !.pc = "asked", !.device = d] \in JobState
        BY <1>i DEF JobState, Pc
      <3>2. QED
        BY <1>3, <3>1 DEF Logout
    <2>2. job' \in [Job -> JobState]
      BY <1>0, <2>1, StartsTyped
    <2>3. QED
      BY <1>0, <1>q, <1>3, <2>2 DEF Logout, Overlaps, redis, rest
  <1>4. ASSUME NEW j \in Job, LoginCounts(j) PROVE TypeOK'
    <2>1. job' \in [Job -> JobState]
      <3>1. Len(userDevices) \in Nat
        BY <1>0
      <3>2. PICK pc \in Pc : job' = [job EXCEPT ![j].n = Len(userDevices), ![j].pc = pc]
        BY <1>p, <1>4 DEF LoginCounts
      <3>3. QED
        BY ZenonT(60), <1>j, <3>1, <3>2 DEF JobState
    <2>2. QED
      BY <1>0, <1>q, <1>4, <2>1 DEF LoginCounts, redis, rest
  <1>5. ASSUME NEW j \in Job, LoginRanges(j) PROVE TypeOK'
    <2>1. job' \in [Job -> JobState]
      <3>1. PICK oldest : oldest = SubSeq(userDevices, 1, Min({TooMany(job[j].n), Len(userDevices)}))
        OBVIOUS
      <3>2. oldest \in Lists
        <4>1. TooMany(job[j].n) \in Int /\ Len(userDevices) \in Nat
          BY <1>0, <1>a DEF TooMany, JobState
        <4>2. Min({TooMany(job[j].n), Len(userDevices)}) \in Int
          BY <4>1 DEF Min
        <4>3. Min({TooMany(job[j].n), Len(userDevices)}) <= Len(userDevices)
          BY <4>1 DEF Min
        <4>4. ASSUME NEW m \in Int, m <= Len(userDevices) PROVE SubSeq(userDevices, 1, m) \in Seq(Device)
          BY <1>0, <4>4
        <4>5. QED
          BY <3>1, <4>2, <4>3, <4>4 DEF Lists
      <3>3. job' = [job EXCEPT ![j].list = oldest,
                               ![j].pc = IF oldest = <<>> THEN "answer" ELSE "old"]
        BY <1>5, <3>1 DEF LoginRanges
      <3>4. QED
        BY ZenonT(60), <1>j, <1>p, <3>2, <3>3 DEF JobState
    <2>2. QED
      BY <1>0, <1>q, <1>5, <2>1 DEF LoginRanges, redis, rest
  <1>6. ASSUME NEW j \in Job, LoginReadsOld(j) PROVE TypeOK'
    <2>1. job[j].list # <<>> /\ job[j].list \in Seq(Device)
      BY <1>0, <1>6 DEF LoginReadsOld, At, Shape, Sound, JobState, Lists
    <2>2. Head(job[j].list) \in Device
      BY <2>1
    <2>3. deviceSession[Head(job[j].list)] \in SessionId \cup {None}
      BY <1>0, <2>2
    <2>4. job' \in [Job -> JobState]
      BY ZenonT(60), <1>j, <1>p, <1>6, <2>3 DEF LoginReadsOld, JobState
    <2>5. QED
      BY <1>0, <1>q, <1>6, <2>4 DEF LoginReadsOld, redis, rest
  <1>7. ASSUME NEW j \in Job, LoginEvicts(j) PROVE TypeOK'
    <2>1. job[j].list # <<>> /\ job[j].list \in Seq(Device)
      BY <1>0, <1>7 DEF LoginEvicts, At, Shape, Sound, JobState, Lists
    <2>2. Head(job[j].list) \in Device /\ Tail(job[j].list) \in Seq(Device)
      BY <2>1
    <2> DEFINE out == job[j].sent \cup {<<Head(job[j].list), job[j].old>>}
               more == Tail(job[j].list)
               gone == {x[1] : x \in out}
    <2>3. /\ refreshToken' = [s \in SessionId |-> IF \E x \in out : x[2] = s THEN None
                                                  ELSE refreshToken[s]]
          /\ deviceSession' = [d \in Device |-> IF d \in gone THEN None ELSE deviceSession[d]]
          /\ userDevices' = Remaining(userDevices, gone)
          /\ job' = [job EXCEPT ![j].list = more, ![j].old = None,
                                ![j].sent = IF more = <<>> THEN {} ELSE out,
                                ![j].pc = IF more = <<>> THEN "answer" ELSE "old"]
          /\ cookie' = cookie /\ rough' = rough /\ clock' = clock /\ issued' = issued
      BY <1>7 DEF LoginEvicts, rest
    <2>4. out \in Sents /\ {} \in Sents
      <3>1. job[j].sent \in Sents /\ job[j].old \in SessionId \cup {None}
        BY <1>0 DEF JobState
      <3>2. QED
        BY <2>2, <3>1 DEF Sents
    <2> HIDE DEF out, gone
    <2>5. job' \in [Job -> JobState]
      <3>1. more \in Lists
        BY <2>2 DEF Lists
      <3> HIDE DEF more
      <3>2. PICK pc \in Pc, sent \in Sents, list \in Lists, old \in SessionId \cup {None} :
               job' = [job EXCEPT ![j].list = list, ![j].old = old, ![j].sent = sent, ![j].pc = pc]
        BY <1>p, <2>3, <2>4, <3>1
      <3>3. [job[j] EXCEPT !.list = list, !.old = old, !.sent = sent, !.pc = pc] \in JobState
        BY <1>j DEF JobState
      <3>4. QED
        BY <1>j, <3>2, <3>3
    <2>6. /\ refreshToken' \in [SessionId -> Token \cup {None}]
          /\ deviceSession' \in [Device -> SessionId \cup {None}]
      BY <1>0, <2>3
    <2>7. QED
      BY <1>0, <1>q, <1>r, <2>3, <2>5, <2>6
  <1>8. ASSUME NEW j \in Job, Answer(j) PROVE TypeOK'
    <2>1. job[j].device \in Device /\ job[j].token \in Token
      BY <1>8 DEF Answer, At, Shape, Sound, Carry, Flow
    <2>2. QED
      BY <1>0, <1>q, <1>e, <1>8, <2>1 DEF Answer, redis, rest
  <1>9. ASSUME NEW j \in Job, RefreshChecksSession(j) PROVE TypeOK'
    BY <1>0, <1>q, <1>e, <1>g, <1>9 DEF RefreshChecksSession, Pc, redis, rest
  <1>10. ASSUME NEW j \in Job, RefreshDeletes(j) PROVE TypeOK'
    <2>1. job[j].token \in Token
      BY <1>10 DEF RefreshDeletes, At, Shape, Sound, Carry, Flow
    <2>2. <<job[j].token[1], clock>> \in Token
      BY <1>0, <2>1 DEF Token
    <2>3. job' \in [Job -> JobState]
      BY ZenonT(60), <1>j, <1>p, <1>10, <2>2 DEF RefreshDeletes, JobState
    <2>4. refreshToken' \in [SessionId -> Token \cup {None}]
      BY <1>0, <1>10 DEF RefreshDeletes
    <2>5. QED
      BY <1>0, <1>q, <1>10, <2>3, <2>4 DEF RefreshDeletes, rest
  <1>11. ASSUME NEW j \in Job, RefreshStores(j) PROVE TypeOK'
    <2>1. job[j].token \in Token
      BY <1>11 DEF RefreshStores, At, Shape, Sound, Carry, Flow
    <2>2. refreshToken' \in [SessionId -> Token \cup {None}]
      BY <1>0, <1>11, <2>1 DEF RefreshStores
    <2>3. QED
      BY <1>0, <1>q, <1>g, <1>11, <2>2 DEF RefreshStores, rest, Pc
  <1>12. ASSUME NEW j \in Job, RefreshExtends(j) PROVE TypeOK'
    <2>1. job[j].token \in Token /\ job[j].token[1] \in SessionId
      BY <1>12 DEF RefreshExtends, At, Shape, Sound, Carry, Flow, Token
    <2>2. deviceSession' \in [Device -> SessionId \cup {None}]
      BY <1>0, <1>12, <2>1 DEF RefreshExtends
    <2>3. QED
      BY <1>0, <1>q, <1>g, <1>12, <2>2 DEF RefreshExtends, rest, Pc
  <1>13. ASSUME NEW j \in Job, RefreshUndoes(j) PROVE TypeOK'
    BY <1>0, <1>q, <1>e, <1>13 DEF RefreshUndoes, rest
  <1>14. ASSUME NEW j \in Job, RefreshLists(j) PROVE TypeOK'
    <2>1. job[j].device \in Device
      BY <1>14 DEF RefreshLists, At, Shape, Sound
    <2>2. QED
      BY <1>0, <1>q, <1>g, <1>n, <1>14, <2>1 DEF RefreshLists, rest, Pc
  <1>15. ASSUME NEW j \in Job, LogoutReads(j) PROVE TypeOK'
    <2>1. job[j].device \in Device
      BY <1>15 DEF LogoutReads, At, Shape, Sound
    <2>2. deviceSession[job[j].device] \in SessionId \cup {None}
      BY <1>0, <2>1
    <2>3. job' \in [Job -> JobState]
      <3>1. CASE Ends(j)
        BY <1>e, <3>1
      <3>2. CASE job' = [job EXCEPT ![j].old = deviceSession[job[j].device], ![j].pc = "del token"]
        BY ZenonT(60), <1>j, <1>p, <2>2, <3>2 DEF JobState
      <3>3. QED
        BY <1>15, <3>1, <3>2 DEF LogoutReads
    <2>4. QED
      BY <1>0, <1>q, <1>15, <2>3 DEF LogoutReads, redis, rest
  <1>16. ASSUME NEW j \in Job, LogoutDeletesToken(j) PROVE TypeOK'
    <2>1. job' \in [Job -> JobState]
      BY ZenonT(60), <1>j, <1>p, <1>16 DEF LogoutDeletesToken, JobState
    <2>2. QED
      BY <1>0, <1>q, <1>16, <2>1 DEF LogoutDeletesToken, rest
  <1>17. ASSUME NEW j \in Job, LogoutDeletesSession(j) PROVE TypeOK'
    BY <1>0, <1>q, <1>g, <1>17 DEF LogoutDeletesSession, rest, Pc
  <1>18. ASSUME NEW j \in Job, LogoutLeaves(j) PROVE TypeOK'
    <2>1. job[j].device \in Device
      BY <1>18 DEF LogoutLeaves, At, Shape, Sound
    <2>2. Without(job[j].device) = Remaining(userDevices, {job[j].device})
      BY DEF Without
    <2>3. /\ cookie' \in [Device -> Token \cup {None}] /\ rough' \subseteq Device
          /\ refreshToken' = refreshToken /\ deviceSession' = deviceSession
          /\ clock' = clock /\ issued' = issued
          /\ userDevices' = Without(job[j].device) /\ Ends(j)
      BY <1>0, <1>18, <2>1 DEF LogoutLeaves, rest
    <2>4. QED
      BY <1>0, <1>q, <1>e, <1>r, <1>18, <2>1, <2>2, <2>3 DEF LogoutLeaves, rest
  <1>19. CASE Tick
    BY <1>0, <1>a, <1>q, <1>19 DEF Tick, redis
  <1>20. CASE Crash
    BY <1>0, <1>q, <1>i, <1>20 DEF Crash, redis, rest
  <1>21. ASSUME NEW d \in Device, Lapse(d) PROVE TypeOK'
    <2>1. userDevices' \in Seq(Device) /\ IsInjective(userDevices')
      BY <1>0, <1>21 DEF Lapse, IsInjective
    <2>2. QED
      BY <1>0, <1>q, <1>21, <2>1 DEF Lapse, rest
  <1>22. CASE UNCHANGED vars
    BY <1>0, <1>q, <1>22 DEF vars
  <1>23. QED
    BY <1>1, <1>2, <1>3, <1>4, <1>5, <1>6, <1>7, <1>8, <1>9, <1>10, <1>11, <1>12,
       <1>13, <1>14, <1>15, <1>16, <1>17, <1>18, <1>19, <1>20, <1>21, <1>22 DEF Next, Proceed

\* Nobody asks for anything yet.
LEMMA InitShape == Init => Shape /\ AloneIsAlone
  <1> SUFFICES ASSUME Init PROVE Shape /\ AloneIsAlone
    OBVIOUS
  <1>1. \A j \in Job : job[j] = Idle
    BY DEF Init
  <1>2. Sound(Idle)
    <2>1. Idle.pc = "idle" /\ Idle.device = None /\ None \notin Device
      BY SessionsAssumption DEF Idle
    <2>2. QED
      BY <2>1 DEF Sound, Carry, Flow
  <1>3. QED
    BY <1>1, <1>2 DEF Shape, AloneIsAlone

\* One request goes on, and the others stay as they are.
LEMMA OneMoves ==
  ASSUME Shape, AloneIsAlone, NEW j \in Job, job[j].pc # "idle",
         NEW x, Sound(x), x.alone => job[j].alone,
         job \in [Job -> JobState], job' = [job EXCEPT ![j] = x]
  PROVE  Shape' /\ AloneIsAlone'
  <1>1. job'[j] = x /\ \A i \in Job \ {j} : job'[i] = job[i]
    OBVIOUS
  <1>2. \A i \in Job : Sound(job'[i])
    BY <1>1 DEF Shape
  <1>3. job[j] # Idle
    BY DEF Idle
  <1>4. \A i \in Job \ {j} : ~job[i].alone
    BY <1>3 DEF AloneIsAlone
  <1>5. ASSUME NEW i \in Job, job'[i].alone PROVE \A h \in Job \ {i} : job'[h] = Idle
    <2>1. i = j
      BY <1>1, <1>4, <1>5
    <2>2. job[j].alone
      BY <1>1, <1>5, <2>1
    <2>3. QED
      BY <1>1, <2>1, <2>2 DEF AloneIsAlone
  <1>6. QED
    BY <1>2, <1>5 DEF Shape, AloneIsAlone

\* A request that starts is sound, and takes from the others only that they are
\* alone.
LEMMA StartsShape ==
  ASSUME Shape, job \in [Job -> JobState], NEW j \in Job, NEW r \in JobState,
         Starts(j, r), Sound([r EXCEPT !.alone = Quiet])
  PROVE  Shape' /\ AloneIsAlone'
  <1>1. /\ job'[j] = [r EXCEPT !.alone = Quiet]
        /\ \A i \in Job \ {j} : job'[i] = [job[i] EXCEPT !.alone = FALSE]
    BY StartsTyped
  <1>2. \A i \in Job \ {j} : Sound(job'[i]) /\ job'[i].alone = FALSE /\ (job[i] = Idle => job'[i] = Idle)
    <2> SUFFICES ASSUME NEW i \in Job \ {j}
                 PROVE  Sound(job'[i]) /\ job'[i].alone = FALSE /\ (job[i] = Idle => job'[i] = Idle)
      OBVIOUS
    <2>1. PICK x \in JobState : x = job[i]
      OBVIOUS
    <2>2. Sound(x)
      BY <2>1 DEF Shape
    <2>3. Idle = [Idle EXCEPT !.alone = FALSE] /\ Idle.pc = "idle"
      <3>1. Idle.alone = FALSE /\ Idle.pc = "idle"
        BY DEF Idle
      <3>2. ASSUME NEW y \in JobState, y.alone = FALSE PROVE y = [y EXCEPT !.alone = FALSE]
        BY <3>2 DEF JobState
      <3>3. QED
        BY <3>1, <3>2, IdleTyped
    <2>4. [x EXCEPT !.alone = FALSE].pc = "idle" => [x EXCEPT !.alone = FALSE] = Idle
      BY <2>2, <2>3 DEF JobState, Sound
    <2>5. Sound([x EXCEPT !.alone = FALSE])
      BY <2>2, <2>3, <2>4 DEF JobState, Sound
    <2>6. [x EXCEPT !.alone = FALSE].alone = FALSE
      BY DEF JobState
    <2>7. QED
      BY <1>1, <2>1, <2>3, <2>5, <2>6
  <1>3. job'[j].alone = Quiet
    BY <1>1 DEF JobState
  <1>4. Quiet => \A i \in Job \ {j} : job'[i] = Idle
    BY <1>2 DEF Quiet
  <1>5. Shape'
    BY <1>1, <1>2 DEF Shape
  <1>6. AloneIsAlone'
    BY <1>2, <1>3, <1>4 DEF AloneIsAlone
  <1>7. QED
    BY <1>5, <1>6

\* Each call hands on what the next one needs.
LEMMA NextShape ==
  TypeOK /\ TypeOK' /\ Shape /\ AloneIsAlone /\ [Next]_vars => Shape' /\ AloneIsAlone'
  <1> SUFFICES ASSUME TypeOK, TypeOK', Shape, AloneIsAlone, [Next]_vars
               PROVE  Shape' /\ AloneIsAlone'
    OBVIOUS
  <1>j. job \in [Job -> JobState]
    BY DEF TypeOK, JobState, Lists, Sents
  <1>a. MaxDevices \in Nat \ {0} /\ None \notin Device /\ None \notin SessionId
    BY SessionsAssumption DEF SessionId
  <1>i. Sound(Idle) /\ Idle.pc = "idle" /\ Idle.alone = FALSE
    <2>1. Idle.pc = "idle" /\ Idle.device = None /\ Idle.alone = FALSE
      BY DEF Idle
    <2>2. QED
      BY <1>a, <2>1 DEF Sound, Carry, Flow
  <1>m. ASSUME NEW j \in Job, job[j].pc # "idle", NEW x, Sound(x), x.alone => job[j].alone,
               job' = [job EXCEPT ![j] = x]
        PROVE  Shape' /\ AloneIsAlone'
    BY <1>j, <1>m, OneMoves
  <1>e. ASSUME NEW j \in Job, job[j].pc # "idle", Ends(j) PROVE Shape' /\ AloneIsAlone'
    BY <1>i, <1>e, <1>m DEF Ends
  <1>s. ASSUME NEW j \in Job, job[j].pc # "idle"
        PROVE  /\ Sound(job[j]) /\ job[j].device \in Device /\ job[j] \in JobState
               /\ job[j].pc \in Carry => job[j].token \in Token
    BY <1>j, <1>s DEF Shape, Sound
  <1>g. ASSUME NEW j \in Job, job[j].pc # "idle", NEW pc \in Pc, pc # "idle", Goto(j, pc),
               pc \in Carry => job[j].pc \in Carry,
               pc \notin {"count", "range", "old", "evict", "del token"},
               pc \in {"session", "delete", "store", "extend", "list"} => job[j].n = 0
        PROVE  Shape' /\ AloneIsAlone'
    <2>1. PICK x \in JobState : x = job[j]
      BY <1>j
    <2>2. /\ x.device \in Device
          /\ x.pc \in Carry => x.token \in Token
          /\ Idle.pc = "idle"
      BY <1>g, <1>s, <1>i, <2>1
    <2>3. Sound([x EXCEPT !.pc = pc])
      <3>1. PICK y : y = [x EXCEPT !.pc = pc]
        OBVIOUS
      <3>2. y.pc = pc /\ y.device = x.device /\ y.token = x.token /\ y.n = x.n
        BY <3>1 DEF JobState
      <3>3. y # Idle /\ y.device \in Device /\ (y.pc \in Carry => y.token \in Token)
        BY <1>g, <2>1, <2>2, <3>2
      <3>4. Sound(y)
        BY <1>g, <2>1, <3>2, <3>3 DEF Sound
      <3>5. QED
        BY <3>1, <3>4
    <2>4. job' = [job EXCEPT ![j] = [x EXCEPT !.pc = pc]]
      BY <1>g, <2>1 DEF Goto
    <2>5. [x EXCEPT !.pc = pc].alone = job[j].alone
      BY <2>1 DEF JobState
    <2>6. QED
      BY <1>g, <1>m, <2>3, <2>4, <2>5
  <1>1. ASSUME NEW j \in Job, NEW d \in Device, Login(j, d) PROVE Shape' /\ AloneIsAlone'
    <2>1. PICK t : t = <<issued + 1, clock>>
      OBVIOUS
    <2>2. t \in Token
      BY <1>1, <2>1, SessionsAssumption DEF Login, Token, SessionId, TypeOK
    <2>3. PICK r : r = [Idle EXCEPT !.pc = "count", !.device = d, !.token = t]
      OBVIOUS
    <2>4. /\ r.pc = "count" /\ r.device = d /\ r.token = t /\ r.n = 0 /\ r.sent = {}
          /\ r \in JobState
      BY <2>2, <2>3, IdleTyped DEF Idle, JobState, Pc
    <2>5. Starts(j, r)
      BY <1>1, <2>1, <2>3 DEF Login
    <2>6. Sound([r EXCEPT !.alone = Quiet])
      BY <1>i, <1>a, <2>2, <2>4 DEF Sound, JobState, Carry, Flow
    <2>7. QED
      BY <1>j, <2>4, <2>5, <2>6, StartsShape
  <1>2. ASSUME NEW j \in Job, NEW d \in Device, Refresh(j, d) PROVE Shape' /\ AloneIsAlone'
    <2>2. cookie[d] \in Token
      BY <1>2 DEF Refresh, TypeOK
    <2>3. PICK r : r = [Idle EXCEPT !.pc = "session", !.device = d, !.token = cookie[d]]
      OBVIOUS
    <2>4. /\ r.pc = "session" /\ r.device = d /\ r.token \in Token /\ r.n = 0 /\ r.sent = {}
          /\ r \in JobState
      BY <2>2, <2>3, IdleTyped DEF Idle, JobState, Pc
    <2>5. Starts(j, r)
      BY <1>2, <2>3 DEF Refresh
    <2>6. Sound([r EXCEPT !.alone = Quiet])
      BY <1>i, <1>a, <2>2, <2>4 DEF Sound, JobState, Carry, Flow
    <2>7. QED
      BY <1>j, <2>4, <2>5, <2>6, StartsShape
  <1>3. ASSUME NEW j \in Job, NEW d \in Device, Logout(j, d) PROVE Shape' /\ AloneIsAlone'
    <2>3. PICK r : r = [Idle EXCEPT !.pc = "asked", !.device = d]
      OBVIOUS
    <2>4. r.pc = "asked" /\ r.device = d /\ r \in JobState
      BY <2>3, IdleTyped DEF Idle, JobState, Pc
    <2>5. Starts(j, r)
      BY <1>3, <2>3 DEF Logout
    <2>6. Sound([r EXCEPT !.alone = Quiet])
      BY <1>i, <1>a, <2>4 DEF Sound, JobState, Carry, Flow
    <2>7. QED
      BY <1>j, <2>4, <2>5, <2>6, StartsShape
  <1>4. ASSUME NEW j \in Job, LoginCounts(j) PROVE Shape' /\ AloneIsAlone'
    <2>1. PICK x \in JobState : x = job[j]
      BY <1>j
    <2>2. x.pc = "count" /\ Sound(x)
      BY <1>4, <2>1 DEF LoginCounts, At, Shape
    <2>3. PICK n, pc : /\ n = Len(userDevices) /\ n \in Nat
                       /\ pc = IF n > MaxDevices THEN "range" ELSE "answer"
      <3>1. userDevices \in Seq(Device)
        BY DEF TypeOK
      <3>2. QED
        BY <3>1
    <2>4. Sound([x EXCEPT !.n = n, !.pc = pc])
      BY <1>a, <1>i, <2>2, <2>3 DEF Sound, JobState, Carry, Flow
    <2>5. job' = [job EXCEPT ![j] = [x EXCEPT !.n = n, !.pc = pc]]
      BY <1>4, <2>1, <2>3 DEF LoginCounts
    <2>6. [x EXCEPT !.n = n, !.pc = pc].alone = job[j].alone
      BY <2>1 DEF JobState
    <2>7. QED
      BY <1>m, <2>1, <2>2, <2>4, <2>5, <2>6
  <1>5. ASSUME NEW j \in Job, LoginRanges(j) PROVE Shape' /\ AloneIsAlone'
    <2>1. PICK x \in JobState : x = job[j]
      BY <1>j
    <2>2. x.pc = "range" /\ Sound(x)
      BY <1>5, <2>1 DEF LoginRanges, At, Shape
    <2>3. PICK list, pc : /\ list = SubSeq(userDevices, 1, Min({TooMany(x.n), Len(userDevices)}))
                          /\ pc = IF list = <<>> THEN "answer" ELSE "old"
      OBVIOUS
    <2>4. Sound([x EXCEPT !.list = list, !.pc = pc])
      BY <1>a, <1>i, <2>2, <2>3 DEF Sound, JobState, Carry, Flow
    <2>5. job' = [job EXCEPT ![j] = [x EXCEPT !.list = list, !.pc = pc]]
      BY <1>5, <2>1, <2>3 DEF LoginRanges
    <2>6. [x EXCEPT !.list = list, !.pc = pc].alone = job[j].alone
      BY <2>1 DEF JobState
    <2>7. QED
      BY <1>m, <2>1, <2>2, <2>4, <2>5, <2>6
  <1>6. ASSUME NEW j \in Job, LoginReadsOld(j) PROVE Shape' /\ AloneIsAlone'
    <2>1. PICK x \in JobState : x = job[j]
      BY <1>j
    <2>2. x.pc = "old" /\ Sound(x)
      BY <1>6, <2>1 DEF LoginReadsOld, At, Shape
    <2>3. PICK old : old = deviceSession[Head(x.list)]
      OBVIOUS
    <2>4. Sound([x EXCEPT !.old = old, !.pc = "evict"])
      BY <1>a, <1>i, <2>2 DEF Sound, JobState, Carry, Flow
    <2>5. job' = [job EXCEPT ![j] = [x EXCEPT !.old = old, !.pc = "evict"]]
      BY <1>6, <2>1, <2>3 DEF LoginReadsOld
    <2>6. [x EXCEPT !.old = old, !.pc = "evict"].alone = job[j].alone
      BY <2>1 DEF JobState
    <2>7. QED
      BY <1>m, <2>1, <2>2, <2>4, <2>5, <2>6
  <1>7. ASSUME NEW j \in Job, LoginEvicts(j) PROVE Shape' /\ AloneIsAlone'
    <2>1. PICK x \in JobState : x = job[j]
      BY <1>j
    <2>2. x.pc = "evict" /\ Sound(x)
      BY <1>7, <2>1 DEF LoginEvicts, At, Shape
    <2>3. PICK list, sent, pc :
             /\ pc = IF list = <<>> THEN "answer" ELSE "old"
             /\ job' = [job EXCEPT ![j] = [x EXCEPT !.list = list, !.old = None, !.sent = sent, !.pc = pc]]
      <3> DEFINE list == Tail(x.list)
                 sent == IF list = <<>> THEN {} ELSE x.sent \cup {<<Head(x.list), x.old>>}
                 pc == IF list = <<>> THEN "answer" ELSE "old"
      <3>1. job' = [job EXCEPT ![j] = [x EXCEPT !.list = list, !.old = None, !.sent = sent, !.pc = pc]]
        BY <1>7, <2>1 DEF LoginEvicts
      <3>2. QED
        BY <3>1
    <2>4. Sound([x EXCEPT !.list = list, !.old = None, !.sent = sent, !.pc = pc])
      BY <1>a, <1>i, <2>2, <2>3 DEF Sound, JobState, Carry, Flow
    <2>6. [x EXCEPT !.list = list, !.old = None, !.sent = sent, !.pc = pc].alone = job[j].alone
      BY <2>1 DEF JobState
    <2>7. QED
      BY <1>m, <2>1, <2>2, <2>3, <2>4, <2>6
  <1>8. ASSUME NEW j \in Job, Answer(j) \/ RefreshUndoes(j) \/ LogoutLeaves(j)
        PROVE  Shape' /\ AloneIsAlone'
    BY <1>e, <1>8 DEF Answer, RefreshUndoes, LogoutLeaves, At
  <1>9. ASSUME NEW j \in Job, RefreshChecksSession(j) PROVE Shape' /\ AloneIsAlone'
    <2>1. job[j].pc = "session" /\ job[j].n = 0
      BY <1>9 DEF RefreshChecksSession, At, Shape, Sound
    <2>2. QED
      BY <1>e, <1>g, <1>9, <2>1 DEF RefreshChecksSession, Carry, Flow, Pc
  <1>10. ASSUME NEW j \in Job, RefreshDeletes(j) PROVE Shape' /\ AloneIsAlone'
    <2>1. PICK x \in JobState : x = job[j]
      BY <1>j
    <2>2. x.pc = "delete" /\ Sound(x)
      BY <1>10, <2>1 DEF RefreshDeletes, At, Shape
    <2>3. PICK t \in Token : t = <<x.token[1], clock>>
      BY <2>2 DEF TypeOK, Sound, Carry, Flow, Token
    <2>4. Sound([x EXCEPT !.token = t, !.pc = "store"])
      BY <1>a, <1>i, <2>2 DEF Sound, JobState, Carry, Flow
    <2>5. job' = [job EXCEPT ![j] = [x EXCEPT !.token = t, !.pc = "store"]]
      BY <1>10, <2>1, <2>3 DEF RefreshDeletes
    <2>6. [x EXCEPT !.token = t, !.pc = "store"].alone = job[j].alone
      BY <2>1 DEF JobState
    <2>7. QED
      BY <1>m, <2>1, <2>2, <2>4, <2>5, <2>6
  <1>11. ASSUME NEW j \in Job, RefreshStores(j) \/ RefreshExtends(j) \/ RefreshLists(j)
         PROVE  Shape' /\ AloneIsAlone'
    <2>1. job[j].pc \in {"store", "extend", "list"} /\ job[j].n = 0
      BY <1>11 DEF RefreshStores, RefreshExtends, RefreshLists, At, Shape, Sound
    <2>2. QED
      BY <1>g, <1>11, <2>1 DEF RefreshStores, RefreshExtends, RefreshLists, Carry, Flow, Pc
  <1>12. ASSUME NEW j \in Job, LogoutReads(j) PROVE Shape' /\ AloneIsAlone'
    <2>1. PICK x \in JobState : x = job[j]
      BY <1>j
    <2>2. x.pc = "asked" /\ Sound(x) /\ x.device \in Device
      BY <1>12, <2>1 DEF LogoutReads, At, Shape, Sound
    <2>3. CASE Ends(j)
      BY <1>e, <2>1, <2>2, <2>3
    <2>4. CASE ~Ends(j)
      <3>1. PICK old \in SessionId :
               job' = [job EXCEPT ![j] = [x EXCEPT !.old = old, !.pc = "del token"]]
        BY <1>12, <2>1, <2>2, <2>4 DEF LogoutReads, TypeOK
      <3>2. Sound([x EXCEPT !.old = old, !.pc = "del token"])
        BY <1>a, <1>i, <2>2 DEF Sound, JobState, Carry, Flow
      <3>3. [x EXCEPT !.old = old, !.pc = "del token"].alone = job[j].alone
        BY <2>1 DEF JobState
      <3>4. QED
        BY <1>m, <2>1, <2>2, <3>1, <3>2, <3>3
    <2>5. QED
      BY <2>3, <2>4
  <1>13. ASSUME NEW j \in Job, LogoutDeletesToken(j) PROVE Shape' /\ AloneIsAlone'
    <2>1. PICK x \in JobState : x = job[j]
      BY <1>j
    <2>2. x.pc = "del token" /\ Sound(x)
      BY <1>13, <2>1 DEF LogoutDeletesToken, At, Shape
    <2>4. Sound([x EXCEPT !.old = None, !.pc = "del session"])
      BY <1>a, <1>i, <2>2 DEF Sound, JobState, Carry, Flow
    <2>5. job' = [job EXCEPT ![j] = [x EXCEPT !.old = None, !.pc = "del session"]]
      BY <1>13, <2>1 DEF LogoutDeletesToken
    <2>6. [x EXCEPT !.old = None, !.pc = "del session"].alone = job[j].alone
      BY <2>1 DEF JobState
    <2>7. QED
      BY <1>m, <2>1, <2>2, <2>4, <2>5, <2>6
  <1>14. ASSUME NEW j \in Job, LogoutDeletesSession(j) PROVE Shape' /\ AloneIsAlone'
    BY <1>g, <1>14 DEF LogoutDeletesSession, At, Carry, Flow, Pc
  <1>15. CASE Crash
    <2>1. \A j \in Job : job'[j] = Idle
      BY <1>15 DEF Crash
    <2>2. QED
      BY <1>i, <2>1 DEF Shape, AloneIsAlone
  <1>16. CASE job' = job
    BY <1>16 DEF Shape, AloneIsAlone, Sound
  <1>17. QED
    BY <1>1, <1>2, <1>3, <1>4, <1>5, <1>6, <1>7, <1>8, <1>9, <1>10, <1>11, <1>12, <1>13,
       <1>14, <1>15, <1>16 DEF Next, Proceed, Tick, Lapse, vars

-----------------------------------------------------------------------------
(* The actions, one by one.                                                *)

\* The steps, field by field: a request that is not the one that moves keeps
\* all but being alone.
Same(i) ==
    /\ job'[i].pc = job[i].pc /\ job'[i].device = job[i].device /\ job'[i].token = job[i].token
    /\ job'[i].n = job[i].n /\ job'[i].list = job[i].list /\ job'[i].old = job[i].old
    /\ job'[i].sent = job[i].sent
    /\ job'[i].alone => job[i].alone

Becomes(j, pc, token, n, list, old, sent) ==
    /\ \A i \in Job \ {j} : Same(i)
    /\ job[j].device \in Device /\ job'[j].device = job[j].device
    /\ job'[j].alone => job[j].alone
    /\ job'[j].pc = pc /\ job'[j].token = token /\ job'[j].n = n /\ job'[j].list = list
    /\ job'[j].old = old /\ job'[j].sent = sent

Gone(j) ==
    /\ \A i \in Job \ {j} : Same(i)
    /\ job[j].device \in Device
    /\ job'[j].pc = "idle" /\ job'[j].device = None /\ job'[j].token = None /\ job'[j].alone = FALSE

Begins(j, pc, d, token) ==
    /\ \A i \in Job \ {j} : Same(i) /\ job'[i].alone = FALSE
    /\ job[j].pc = "idle" /\ job[j].device = None /\ job[j].token = None
    /\ job'[j].pc = pc /\ job'[j].device = d /\ job'[j].token = token /\ job'[j].n = 0
    /\ job'[j].sent = {} /\ job'[j].alone = Quiet

LEMMA JobTyped == TypeOK => job \in [Job -> JobState]
  BY DEF TypeOK, JobState, Lists, Sents

LEMMA IdleIs == /\ Idle.pc = "idle" /\ Idle.device = None /\ Idle.token = None
                /\ Idle.n = 0 /\ Idle.sent = {} /\ Idle.alone = FALSE
                /\ None \notin Device
  BY SessionsAssumption DEF Idle

LEMMA StartsBegins ==
  ASSUME TypeOK, NEW j \in Job, NEW pc \in Pc, NEW d \in Device, NEW t \in Token \cup {None},
         Starts(j, [Idle EXCEPT !.pc = pc, !.device = d, !.token = t])
  PROVE  Begins(j, pc, d, t)
  <1>1. PICK r : r = [Idle EXCEPT !.pc = pc, !.device = d, !.token = t]
    OBVIOUS
  <1>2. /\ r.pc = pc /\ r.device = d /\ r.token = t /\ r.n = 0 /\ r.sent = {}
        /\ r \in JobState
    BY <1>1, IdleTyped, IdleIs DEF JobState
  <1>3. job \in [Job -> JobState] /\ Starts(j, r) /\ job[j] = Idle
    BY <1>1, JobTyped DEF Starts
  <1>4. /\ job'[j] = [r EXCEPT !.alone = Quiet]
        /\ \A i \in Job \ {j} : job'[i] = [job[i] EXCEPT !.alone = FALSE]
    BY <1>2, <1>3, StartsTyped
  <1>5. /\ job'[j].pc = pc /\ job'[j].device = d /\ job'[j].token = t
        /\ job'[j].n = 0 /\ job'[j].sent = {} /\ job'[j].alone = Quiet
    BY <1>2, <1>4 DEF JobState
  <1>6. ASSUME NEW i \in Job \ {j} PROVE Same(i) /\ job'[i].alone = FALSE
    <2>1. PICK x \in JobState : x = job[i]
      BY <1>3
    <2>2. job'[i] = [x EXCEPT !.alone = FALSE]
      BY <1>4, <2>1
    <2>3. QED
      BY <2>1, <2>2 DEF JobState, Same
  <1>7. QED
    BY <1>3, <1>5, <1>6, IdleIs DEF Begins

LEMMA EndsGone ==
  ASSUME TypeOK, Shape, NEW j \in Job, job[j].pc # "idle", Ends(j) PROVE Gone(j)
  BY JobTyped, IdleIs DEF Ends, Gone, Same, Shape, Sound

LEMMA Moves ==
  ASSUME TypeOK, Shape, NEW j \in Job, job[j].pc # "idle",
         NEW x \in JobState, x = job[j], NEW pc, NEW token, NEW n, NEW list, NEW old, NEW sent,
         job' = [job EXCEPT ![j] = [x EXCEPT !.pc = pc, !.token = token, !.n = n, !.list = list,
                                             !.old = old, !.sent = sent]]
  PROVE  Becomes(j, pc, token, n, list, old, sent)
  <1>1. job'[j] = [x EXCEPT !.pc = pc, !.token = token, !.n = n, !.list = list,
                            !.old = old, !.sent = sent]
    BY JobTyped
  <1>2. \A i \in Job \ {j} : Same(i)
    BY JobTyped DEF Same
  <1>3. job[j].device \in Device
    BY DEF Shape, Sound
  <1>4. /\ job'[j].device = x.device /\ job'[j].alone = x.alone
        /\ job'[j].pc = pc /\ job'[j].token = token /\ job'[j].n = n /\ job'[j].list = list
        /\ job'[j].old = old /\ job'[j].sent = sent
    <2>1. PICK y : y = [x EXCEPT !.pc = pc, !.token = token, !.n = n, !.list = list,
                                 !.old = old, !.sent = sent]
      OBVIOUS
    <2>2. /\ y.device = x.device /\ y.alone = x.alone
          /\ y.pc = pc /\ y.token = token /\ y.n = n /\ y.list = list
          /\ y.old = old /\ y.sent = sent
      BY <2>1 DEF JobState
    <2>3. job'[j] = y
      BY <1>1, <2>1
    <2>4. QED
      BY <2>2, <2>3
  <1>5. QED
    BY <1>2, <1>3, <1>4 DEF Becomes

LEMMA GotoMoves ==
  ASSUME TypeOK, Shape, NEW j \in Job, job[j].pc # "idle", NEW pc, Goto(j, pc)
  PROVE  Becomes(j, pc, job[j].token, job[j].n, job[j].list, job[j].old, job[j].sent)
  <1>1. PICK x \in JobState : x = job[j]
    BY JobTyped
  <1>2. job' = [job EXCEPT ![j] = [x EXCEPT !.pc = pc]]
    BY <1>1 DEF Goto
  <1>3. [x EXCEPT !.pc = pc] = [x EXCEPT !.pc = pc, !.token = x.token, !.n = x.n, !.list = x.list,
                                         !.old = x.old, !.sent = x.sent]
    BY DEF JobState
  <1>4. job' = [job EXCEPT ![j] = [x EXCEPT !.pc = pc, !.token = x.token, !.n = x.n,
                                            !.list = x.list, !.old = x.old, !.sent = x.sent]]
    BY <1>2, <1>3
  <1>5. QED
    BY <1>1, <1>4, Moves

\* What each call of a request does. Only the requests move:
Still == UNCHANGED <<refreshToken, deviceSession, userDevices, cookie, rough, clock, issued>>

LEMMA CountsMoves ==
  ASSUME TypeOK, Shape, NEW j \in Job, LoginCounts(j)
  PROVE  /\ job[j].pc = "count"
         /\ Becomes(j, IF Len(userDevices) > MaxDevices THEN "range" ELSE "answer",
                        job[j].token,
                        Len(userDevices),
                        job[j].list,
                        job[j].old,
                        job[j].sent)
         /\ Still
  <1>1. PICK x \in JobState : x = job[j]
    BY JobTyped
  <1>2. PICK vn, vpc : vn = (Len(userDevices)) /\ vpc = (IF Len(userDevices) > MaxDevices THEN "range" ELSE "answer")
    OBVIOUS
  <1>3. job[j].pc = "count" /\ job' = [job EXCEPT ![j] = [x EXCEPT !.n = vn, !.pc = vpc]]
    BY <1>1, <1>2, LoginCounts(j) DEF LoginCounts, At
  <1>4. [x EXCEPT !.n = vn, !.pc = vpc] =
           [x EXCEPT !.pc = vpc, !.token = x.token, !.n = vn, !.list = x.list, !.old = x.old, !.sent = x.sent]
    BY DEF JobState
  <1>5. Becomes(j, vpc, x.token, vn, x.list, x.old, x.sent)
    BY <1>1, <1>3, <1>4, Moves
  <1>6. QED
    BY <1>1, <1>2, <1>3, <1>5 DEF LoginCounts, Still, redis, rest

LEMMA RangesMoves ==
  ASSUME TypeOK, Shape, NEW j \in Job, LoginRanges(j)
  PROVE  /\ job[j].pc = "range"
         /\ Becomes(j, IF SubSeq(userDevices, 1, Min({TooMany(job[j].n), Len(userDevices)})) = <<>> THEN "answer" ELSE "old",
                        job[j].token,
                        job[j].n,
                        SubSeq(userDevices, 1, Min({TooMany(job[j].n), Len(userDevices)})),
                        job[j].old,
                        job[j].sent)
         /\ Still
  <1>1. PICK x \in JobState : x = job[j]
    BY JobTyped
  <1>2. PICK vlist, vpc : vlist = (SubSeq(userDevices, 1, Min({TooMany(x.n), Len(userDevices)}))) /\ vpc = (IF SubSeq(userDevices, 1, Min({TooMany(x.n), Len(userDevices)})) = <<>> THEN "answer" ELSE "old")
    OBVIOUS
  <1>3. job[j].pc = "range" /\ job' = [job EXCEPT ![j] = [x EXCEPT !.list = vlist, !.pc = vpc]]
    BY <1>1, <1>2, LoginRanges(j) DEF LoginRanges, At
  <1>4. [x EXCEPT !.list = vlist, !.pc = vpc] =
           [x EXCEPT !.pc = vpc, !.token = x.token, !.n = x.n, !.list = vlist, !.old = x.old, !.sent = x.sent]
    BY DEF JobState
  <1>5. Becomes(j, vpc, x.token, x.n, vlist, x.old, x.sent)
    BY <1>1, <1>3, <1>4, Moves
  <1>6. QED
    BY <1>1, <1>2, <1>3, <1>5 DEF LoginRanges, Still, redis, rest

LEMMA ReadsOldMoves ==
  ASSUME TypeOK, Shape, NEW j \in Job, LoginReadsOld(j)
  PROVE  /\ job[j].pc = "old"
         /\ Becomes(j, "evict",
                        job[j].token,
                        job[j].n,
                        job[j].list,
                        deviceSession[Head(job[j].list)],
                        job[j].sent)
         /\ Still
  <1>1. PICK x \in JobState : x = job[j]
    BY JobTyped
  <1>2. PICK vold, vpc : vold = (deviceSession[Head(x.list)]) /\ vpc = ("evict")
    OBVIOUS
  <1>3. job[j].pc = "old" /\ job' = [job EXCEPT ![j] = [x EXCEPT !.old = vold, !.pc = vpc]]
    BY <1>1, <1>2, LoginReadsOld(j) DEF LoginReadsOld, At
  <1>4. [x EXCEPT !.old = vold, !.pc = vpc] =
           [x EXCEPT !.pc = vpc, !.token = x.token, !.n = x.n, !.list = x.list, !.old = vold, !.sent = x.sent]
    BY DEF JobState
  <1>5. Becomes(j, vpc, x.token, x.n, x.list, vold, x.sent)
    BY <1>1, <1>3, <1>4, Moves
  <1>6. QED
    BY <1>1, <1>2, <1>3, <1>5 DEF LoginReadsOld, Still, redis, rest

LEMMA DeletesMoves ==
  ASSUME TypeOK, Shape, NEW j \in Job, RefreshDeletes(j)
  PROVE  /\ job[j].pc = "delete"
         /\ Becomes(j, "store",
                        <<job[j].token[1], clock>>,
                        job[j].n,
                        job[j].list,
                        job[j].old,
                        job[j].sent)
         /\ refreshToken' = [refreshToken EXCEPT ![job[j].token[1]] = None]
         /\ UNCHANGED <<deviceSession, userDevices, cookie, rough, clock, issued>>
  <1>1. PICK x \in JobState : x = job[j]
    BY JobTyped
  <1>2. PICK vtoken, vpc : vtoken = (<<x.token[1], clock>>) /\ vpc = ("store")
    OBVIOUS
  <1>3. job[j].pc = "delete" /\ job' = [job EXCEPT ![j] = [x EXCEPT !.token = vtoken, !.pc = vpc]]
    BY <1>1, <1>2, RefreshDeletes(j) DEF RefreshDeletes, At
  <1>4. [x EXCEPT !.token = vtoken, !.pc = vpc] =
           [x EXCEPT !.pc = vpc, !.token = vtoken, !.n = x.n, !.list = x.list, !.old = x.old, !.sent = x.sent]
    BY DEF JobState
  <1>5. Becomes(j, vpc, vtoken, x.n, x.list, x.old, x.sent)
    BY <1>1, <1>3, <1>4, Moves
  <1>6. QED
    BY <1>1, <1>2, <1>3, <1>5 DEF RefreshDeletes, rest

LEMMA DeletesTokenMoves ==
  ASSUME TypeOK, Shape, NEW j \in Job, LogoutDeletesToken(j)
  PROVE  /\ job[j].pc = "del token"
         /\ Becomes(j, "del session",
                        job[j].token,
                        job[j].n,
                        job[j].list,
                        None,
                        job[j].sent)
         /\ refreshToken' = [refreshToken EXCEPT ![job[j].old] = None]
         /\ UNCHANGED <<deviceSession, userDevices, cookie, rough, clock, issued>>
  <1>1. PICK x \in JobState : x = job[j]
    BY JobTyped
  <1>2. PICK vold, vpc : vold = (None) /\ vpc = ("del session")
    OBVIOUS
  <1>3. job[j].pc = "del token" /\ job' = [job EXCEPT ![j] = [x EXCEPT !.old = vold, !.pc = vpc]]
    BY <1>1, <1>2, LogoutDeletesToken(j) DEF LogoutDeletesToken, At
  <1>4. [x EXCEPT !.old = vold, !.pc = vpc] =
           [x EXCEPT !.pc = vpc, !.token = x.token, !.n = x.n, !.list = x.list, !.old = vold, !.sent = x.sent]
    BY DEF JobState
  <1>5. Becomes(j, vpc, x.token, x.n, x.list, vold, x.sent)
    BY <1>1, <1>3, <1>4, Moves
  <1>6. QED
    BY <1>1, <1>2, <1>3, <1>5 DEF LogoutDeletesToken, rest

\* The devices that have been sent for eviction, with the head of the list.
Out(j) == job[j].sent \cup {<<Head(job[j].list), job[j].old>>}
Evicted(j) == {x[1] : x \in Out(j)}

LEMMA EvictsMoves ==
  ASSUME TypeOK, Shape, NEW j \in Job, LoginEvicts(j)
  PROVE  /\ job[j].pc = "evict"
         /\ Becomes(j, IF Tail(job[j].list) = <<>> THEN "answer" ELSE "old",
                        job[j].token,
                        job[j].n,
                        Tail(job[j].list),
                        None,
                        IF Tail(job[j].list) = <<>> THEN {} ELSE (job[j].sent \cup {<<Head(job[j].list), job[j].old>>}))
         /\ refreshToken' = [s \in SessionId |-> IF \E x \in Out(j) : x[2] = s THEN None ELSE refreshToken[s]]
         /\ deviceSession' = [d \in Device |-> IF d \in Evicted(j) THEN None ELSE deviceSession[d]]
         /\ userDevices' = Remaining(userDevices, Evicted(j))
         /\ UNCHANGED <<cookie, rough, clock, issued>>
  <1>1. PICK x \in JobState : x = job[j]
    BY JobTyped
  <1>2. PICK vlist, vold, vsent, vpc : vlist = (Tail(x.list)) /\ vold = (None) /\ vsent = (IF Tail(x.list) = <<>> THEN {} ELSE (x.sent \cup {<<Head(x.list), x.old>>})) /\ vpc = (IF Tail(x.list) = <<>> THEN "answer" ELSE "old")
    OBVIOUS
  <1>3. job[j].pc = "evict" /\ job' = [job EXCEPT ![j] = [x EXCEPT !.list = vlist, !.old = vold, !.sent = vsent, !.pc = vpc]]
    <2>1. At(j, "evict") /\ job' = [job EXCEPT ![j].list = vlist, ![j].old = vold,
                                              ![j].sent = vsent, ![j].pc = vpc]
      BY <1>1, <1>2, LoginEvicts(j) DEF LoginEvicts
    <2>2. job \in [Job -> JobState]
      BY JobTyped
    <2>3. QED
      BY <1>1, <2>1, <2>2 DEF At
  <1>4. [x EXCEPT !.list = vlist, !.old = vold, !.sent = vsent, !.pc = vpc] =
           [x EXCEPT !.pc = vpc, !.token = x.token, !.n = x.n, !.list = vlist, !.old = vold, !.sent = vsent]
    BY DEF JobState
  <1>5. Becomes(j, vpc, x.token, x.n, vlist, vold, vsent)
    BY <1>1, <1>3, <1>4, Moves
  <1>6. QED
    BY <1>1, <1>2, <1>3, <1>5 DEF LoginEvicts, Out, Evicted, rest

LEMMA LogoutReadsMoves ==
  ASSUME TypeOK, Shape, NEW j \in Job, LogoutReads(j)
  PROVE  /\ job[j].pc = "asked" /\ Still
         /\ \/ RawHeader /\ Gone(j)
            \/ deviceSession[job[j].device] = None /\ Gone(j)
            \/ /\ deviceSession[job[j].device] # None
               /\ Becomes(j, "del token", job[j].token, job[j].n, job[j].list,
                          deviceSession[job[j].device], job[j].sent)
  <1>1. PICK x \in JobState : x = job[j]
    BY JobTyped
  <1>2. job[j].pc = "asked" /\ Still
    BY LogoutReads(j) DEF LogoutReads, At, Still, redis, rest
  <1>3. CASE Ends(j) /\ (RawHeader \/ deviceSession[job[j].device] = None)
    BY <1>2, <1>3, EndsGone
  <1>4. CASE /\ deviceSession[job[j].device] # None
             /\ job' = [job EXCEPT ![j].old = deviceSession[job[j].device], ![j].pc = "del token"]
    <2>1. PICK vold : vold = deviceSession[job[j].device]
      OBVIOUS
    <2>2. job' = [job EXCEPT ![j] = [x EXCEPT !.old = vold, !.pc = "del token"]]
      BY <1>1, <1>4, <2>1
    <2>3. [x EXCEPT !.old = vold, !.pc = "del token"] =
             [x EXCEPT !.pc = "del token", !.token = x.token, !.n = x.n, !.list = x.list,
                       !.old = vold, !.sent = x.sent]
      BY DEF JobState
    <2>4. Becomes(j, "del token", x.token, x.n, x.list, vold, x.sent)
      BY <1>1, <1>2, <2>2, <2>3, Moves
    <2>5. QED
      BY <1>1, <1>2, <1>4, <2>1, <2>4
  <1>5. QED
    BY <1>3, <1>4, LogoutReads(j) DEF LogoutReads

KeepsPlace(i) ==
    \/ /\ job'[i].device = job[i].device
       /\ job'[i].token # None => job[i].token # None /\ job'[i].token[1] = job[i].token[1]
    \/ job'[i].pc = "idle" /\ job'[i].device = None /\ job'[i].token = None

\* A request that goes on keeps its device and its session.
LEMMA ProceedKeeps ==
  ASSUME TypeOK, Shape, NEW j \in Job, Proceed(j)
  PROVE  /\ \A i \in Job : KeepsPlace(i)
         /\ rough \subseteq rough' /\ issued' = issued
  <1>d. job[j].pc # "idle"
    BY DEF Proceed, LoginCounts, LoginRanges, LoginReadsOld, LoginEvicts, RefreshChecksSession,
           RefreshDeletes, RefreshStores, RefreshExtends, RefreshUndoes, RefreshLists, LogoutReads,
           LogoutDeletesToken, LogoutDeletesSession, LogoutLeaves, Answer, At
  <1>e. ASSUME Gone(j) PROVE \A i \in Job : KeepsPlace(i)
    BY <1>e DEF Gone, Same, KeepsPlace
  <1>b. ASSUME NEW pc, NEW n, NEW list, NEW old, NEW sent,
               Becomes(j, pc, job[j].token, n, list, old, sent)
        PROVE  \A i \in Job : KeepsPlace(i)
    BY <1>b DEF Becomes, Same, KeepsPlace
  <1>1. CASE LoginCounts(j)
    <2>1. Still
      BY <1>1, CountsMoves
    <2>2. QED
      BY <1>1, <1>b, <2>1, CountsMoves DEF Still
  <1>2. CASE LoginRanges(j)
    BY <1>2, <1>b, RangesMoves DEF Still
  <1>3. CASE LoginReadsOld(j)
    BY <1>3, <1>b, ReadsOldMoves DEF Still
  <1>4. CASE LoginEvicts(j)
    BY <1>4, <1>b, EvictsMoves
  <1>5. CASE RefreshDeletes(j)
    <2>1. /\ job[j].pc = "delete"
          /\ Becomes(j, "store", <<job[j].token[1], clock>>, job[j].n, job[j].list, job[j].old, job[j].sent)
          /\ rough' = rough /\ issued' = issued
      BY <1>5, DeletesMoves
    <2>2. job[j].token # None
      BY <2>1, SessionsAssumption DEF Shape, Sound, Carry, Flow, Token, SessionId
    <2>3. QED
      BY <2>1, <2>2 DEF Becomes, Same, KeepsPlace
  <1>6. CASE LogoutReads(j)
    BY <1>6, <1>b, <1>e, LogoutReadsMoves DEF Still
  <1>7. CASE LogoutDeletesToken(j)
    BY <1>7, <1>b, DeletesTokenMoves
  <1>8. CASE Ends(j) /\ rough \subseteq rough' /\ issued' = issued
    BY <1>8, <1>d, <1>e, EndsGone
  <1>9. CASE (\E pc : Goto(j, pc)) /\ rough' = rough /\ issued' = issued
    BY <1>9, <1>d, <1>b, GotoMoves
  <1>10. QED
    BY <1>1, <1>2, <1>3, <1>4, <1>5, <1>6, <1>7, <1>8, <1>9
       DEF Proceed, RefreshChecksSession, RefreshStores, RefreshExtends, RefreshUndoes,
           RefreshLists, LogoutDeletesSession, LogoutLeaves, Answer, rest

LEMMA CrashKeeps ==
  ASSUME TypeOK, Shape, Crash
  PROVE  /\ \A j \in Job : /\ job'[j].pc = "idle" /\ job'[j].device = None /\ job'[j].token = None
                           /\ job[j].device \in Device => job[j].device \in rough'
         /\ rough \subseteq rough'
         /\ UNCHANGED <<refreshToken, deviceSession, userDevices, cookie, clock, issued>>
  BY IdleIs DEF Crash, JobsOf, redis, rest

LEMMA LoginBegins ==
  ASSUME TypeOK, NEW j \in Job, NEW d \in Device, Login(j, d)
  PROVE  /\ issued' = issued + 1 /\ issued + 1 \in SessionId
         /\ <<issued + 1, clock>> \in Token
         /\ Begins(j, "count", d, <<issued + 1, clock>>)
         /\ refreshToken' = [refreshToken EXCEPT ![issued + 1] = <<issued + 1, clock>>]
         /\ deviceSession' = [deviceSession EXCEPT ![d] = issued + 1]
         /\ userDevices' = Newest(d) /\ cookie' = cookie
         /\ d \in rough' => rough' = rough \cup {d}
         /\ d \notin rough' => rough' = rough \ {d} /\ \A i \in Job : job[i].device # d
  <1>1. issued + 1 \in SessionId /\ <<issued + 1, clock>> \in Token
    BY SessionsAssumption, Login(j, d) DEF Login, SessionId, Token, TypeOK
  <1>2. Starts(j, [Idle EXCEPT !.pc = "count", !.device = d, !.token = <<issued + 1, clock>>])
    BY Login(j, d) DEF Login
  <1>3. Begins(j, "count", d, <<issued + 1, clock>>)
    <2>1. "count" \in Pc
      BY DEF Pc
    <2>2. PICK t \in Token \cup {None} : t = <<issued + 1, clock>>
      BY <1>1
    <2>3. QED
      BY <1>2, <2>1, <2>2, StartsBegins
  <1>4. QED
    BY <1>1, <1>3, Login(j, d) DEF Login, JobsOf

LEMMA RefreshBegins ==
  ASSUME TypeOK, NEW j \in Job, NEW d \in Device, Refresh(j, d)
  PROVE  /\ cookie[d] \in Token
         /\ Begins(j, "session", d, cookie[d])
         /\ refreshToken[cookie[d][1]] = cookie[d]
         /\ d \notin rough' => \A i \in Job : job[i].device # d
         /\ rough \subseteq rough' /\ rough' \subseteq rough \cup {d}
         /\ UNCHANGED <<refreshToken, deviceSession, userDevices, cookie, clock, issued>>
  <1>1. cookie[d] \in Token
    BY Refresh(j, d) DEF Refresh, TypeOK
  <1>2. Starts(j, [Idle EXCEPT !.pc = "session", !.device = d, !.token = cookie[d]])
    BY Refresh(j, d) DEF Refresh
  <1>3. Begins(j, "session", d, cookie[d])
    <2>1. "session" \in Pc
      BY DEF Pc
    <2>3. QED
      BY <1>1, <1>2, <2>1, StartsBegins
  <1>4. QED
    BY <1>1, <1>3, Refresh(j, d) DEF Refresh, JobsOf, Overlaps, redis, rest

LEMMA LogoutBegins ==
  ASSUME TypeOK, NEW j \in Job, NEW d \in Device, Logout(j, d)
  PROVE  /\ Begins(j, "asked", d, None)
         /\ d \notin rough' => \A i \in Job : job[i].device # d
         /\ rough \subseteq rough' /\ rough' \subseteq rough \cup {d}
         /\ UNCHANGED <<refreshToken, deviceSession, userDevices, cookie, clock, issued>>
  <1>1. [Idle EXCEPT !.pc = "asked", !.device = d] =
           [Idle EXCEPT !.pc = "asked", !.device = d, !.token = None]
    <2>1. PICK x \in JobState : x = Idle
      BY IdleTyped
    <2>2. [x EXCEPT !.pc = "asked", !.device = d] =
             [x EXCEPT !.pc = "asked", !.device = d, !.token = x.token]
      BY DEF JobState
    <2>3. QED
      BY <2>1, <2>2, IdleIs
  <1>2. Starts(j, [Idle EXCEPT !.pc = "asked", !.device = d, !.token = None])
    BY <1>1, Logout(j, d) DEF Logout
  <1>3. Begins(j, "asked", d, None)
    <2>1. "asked" \in Pc
      BY DEF Pc
    <2>3. QED
      BY <1>2, <2>1, StartsBegins
  <1>4. QED
    BY <1>3, Logout(j, d) DEF Logout, JobsOf, Overlaps, redis, rest

-----------------------------------------------------------------------------
(* Requests and sessions of a device.                                      *)

\* The second request of a device makes it rough.
LEMMA NextOneRequest ==
  TypeOK /\ Shape /\ OneRequest /\ [Next]_vars => OneRequest'
  <1> SUFFICES ASSUME TypeOK, Shape, OneRequest, [Next]_vars PROVE OneRequest'
    OBVIOUS
  <1>a. None \notin Device
    BY IdleIs
  <1>1. ASSUME rough \subseteq rough', \A i \in Job : job'[i].device \in {job[i].device, None}
        PROVE  OneRequest'
    BY <1>a, <1>1 DEF OneRequest
  <1>2. ASSUME NEW j \in Job, NEW d \in Device, NEW pc, NEW t, Begins(j, pc, d, t),
               d \notin rough' => \A i \in Job : job[i].device # d,
               \A e \in Device \ {d} : e \in rough => e \in rough'
        PROVE  OneRequest'
    <2>1. /\ job'[j].device = d
          /\ \A i \in Job \ {j} : job'[i].device = job[i].device
      BY <1>2 DEF Begins, Same
    <2>2. SUFFICES ASSUME NEW i \in Job, NEW k \in Job, job'[i].device = job'[k].device,
                          job'[i].device \in Device \ rough'
                   PROVE  i = k
      BY DEF OneRequest
    <2>3. CASE job'[i].device = d
      BY <1>2, <2>1, <2>2, <2>3
    <2>4. CASE job'[i].device # d
      BY <1>2, <2>1, <2>2, <2>4 DEF OneRequest
    <2>5. QED
      BY <2>3, <2>4
  <1>3. ASSUME NEW j \in Job, NEW d \in Device, Login(j, d) PROVE OneRequest'
    BY <1>2, <1>3, LoginBegins
  <1>4. ASSUME NEW j \in Job, NEW d \in Device, Refresh(j, d) PROVE OneRequest'
    BY <1>2, <1>4, RefreshBegins
  <1>5. ASSUME NEW j \in Job, NEW d \in Device, Logout(j, d) PROVE OneRequest'
    BY <1>2, <1>5, LogoutBegins
  <1>6. ASSUME NEW j \in Job, Proceed(j) PROVE OneRequest'
    BY <1>1, <1>6, ProceedKeeps DEF KeepsPlace
  <1>7. CASE Crash
    BY <1>1, <1>7, CrashKeeps
  <1>8. CASE job' = job /\ rough' = rough
    BY <1>8 DEF OneRequest
  <1>9. QED
    BY <1>3, <1>4, <1>5, <1>6, <1>7, <1>8 DEF Next, Tick, Lapse, vars

\* What the call of a request may do to the three tables.
LEMMA ProceedTables ==
  ASSUME TypeOK, Shape, NEW j \in Job, Proceed(j)
  PROVE  /\ job[j].device \in Device
         /\ \A e \in Device :
               \/ deviceSession'[e] \in {deviceSession[e], None}
               \/ /\ e = job[j].device /\ job[j].pc = "extend" /\ deviceSession[e] # None
                  /\ job[j].token \in Token /\ deviceSession'[e] = job[j].token[1]
         /\ \A e \in Device :
               \/ cookie'[e] \in {cookie[e], None}
               \/ /\ e = job[j].device /\ job[j].pc = "answer" /\ job[j].token \in Token
                  /\ cookie'[e] = job[j].token
         /\ \A s \in SessionId :
               \/ refreshToken'[s] \in {refreshToken[s], None}
               \/ /\ s = job[j].token[1] /\ job[j].pc = "store" /\ job[j].token \in Token
                  /\ refreshToken'[s] = job[j].token
  <1>t. /\ refreshToken \in [SessionId -> Token \cup {None}]
        /\ deviceSession \in [Device -> SessionId \cup {None}]
        /\ cookie \in [Device -> Token \cup {None}]
    BY DEF TypeOK
  <1>s. /\ job[j].pc # "idle" => job[j].device \in Device
        /\ job[j].pc \in {"extend", "store", "answer"} => job[j].token \in Token
    BY DEF Shape, Sound, Carry, Flow
  <1>d. job[j].pc # "idle"
    BY DEF Proceed, LoginCounts, LoginRanges, LoginReadsOld, LoginEvicts, RefreshChecksSession,
           RefreshDeletes, RefreshStores, RefreshExtends, RefreshUndoes, RefreshLists, LogoutReads,
           LogoutDeletesToken, LogoutDeletesSession, LogoutLeaves, Answer, At
  <1>1. CASE LoginEvicts(j)
    BY <1>1, <1>d, <1>s, <1>t, EvictsMoves
  <1>2. CASE refreshToken' = refreshToken /\ deviceSession' = deviceSession /\ cookie' = cookie
    BY <1>2, <1>d, <1>s
  <1>3. CASE RefreshDeletes(j) \/ RefreshStores(j) \/ RefreshUndoes(j) \/ LogoutDeletesToken(j)
    BY <1>3, <1>d, <1>s, <1>t
       DEF RefreshDeletes, RefreshStores, RefreshUndoes, LogoutDeletesToken, At
  <1>4. CASE RefreshExtends(j) \/ LogoutDeletesSession(j)
    BY <1>4, <1>d, <1>s, <1>t DEF RefreshExtends, LogoutDeletesSession, At
  <1>5. CASE Answer(j) \/ LogoutLeaves(j)
    BY <1>5, <1>d, <1>s, <1>t DEF Answer, LogoutLeaves, At, redis
  <1>6. QED
    BY <1>1, <1>2, <1>3, <1>4, <1>5
       DEF Proceed, LoginCounts, LoginRanges, LoginReadsOld, RefreshChecksSession,
           RefreshLists, LogoutReads, redis

LEMMA LapseClears ==
  ASSUME TypeOK, NEW d \in Device, Lapse(d)
  PROVE  /\ \A e \in Device : deviceSession'[e] \in {deviceSession[e], None}
         /\ \A e \in Device : cookie'[e] \in {cookie[e], None}
         /\ \A e \in Device \ {d} : cookie'[e] = cookie[e] /\ deviceSession'[e] = deviceSession[e]
         /\ \A s \in SessionId : refreshToken'[s] \in {refreshToken[s], None}
         /\ deviceSession'[d] = None
         /\ \A j \in Job : job[j] = Idle
         /\ job' = job /\ rough' = rough /\ issued' = issued /\ clock' = clock
  BY Lapse(d) DEF Lapse, TypeOK, Quiet, rest

\* A step takes up no session but the one it hands out, or the device's own.
LEMMA NextHolds ==
  ASSUME TypeOK, Shape, [Next]_vars
  PROVE  \/ /\ issued' = issued
            /\ \A e \in Device, s \in SessionId : Holds(e, s)' => Holds(e, s)
         \/ \E d \in Device :
            /\ issued' = issued + 1
            /\ \A e \in Device, s \in SessionId :
                  Holds(e, s)' => Holds(e, s) \/ (e = d /\ s = issued + 1)
  <1>n. /\ None \notin Device /\ None \notin SessionId
        /\ \A t \in Token : t # None
    BY SessionsAssumption DEF SessionId, Token
  <1>1. ASSUME NEW j \in Job, NEW d \in Device, Login(j, d)
        PROVE  /\ issued' = issued + 1
               /\ \A e \in Device, s \in SessionId :
                     Holds(e, s)' => Holds(e, s) \/ (e = d /\ s = issued + 1)
    <2>1. /\ issued' = issued + 1 /\ cookie' = cookie
          /\ Begins(j, "count", d, <<issued + 1, clock>>)
          /\ deviceSession' = [deviceSession EXCEPT ![d] = issued + 1]
      BY <1>1, LoginBegins
    <2>2. deviceSession \in [Device -> SessionId \cup {None}]
      BY DEF TypeOK
    <2>3. \A e \in Device : deviceSession'[e] = IF e = d THEN issued + 1 ELSE deviceSession[e]
      BY <2>1, <2>2
    <2>4. /\ job'[j].device = d /\ job'[j].token[1] = issued + 1
          /\ \A i \in Job \ {j} : job'[i].device = job[i].device /\ job'[i].token = job[i].token
      BY <2>1 DEF Begins, Same
    <2>5. QED
      BY <2>1, <2>3, <2>4 DEF Holds
  <1>2. ASSUME NEW j \in Job, NEW d \in Device, NEW pc, NEW t, Begins(j, pc, d, t),
               t # None => t = cookie[d],
               UNCHANGED <<deviceSession, cookie, issued>>,
               NEW e \in Device, NEW s \in SessionId, Holds(e, s)'
        PROVE  Holds(e, s)
    <2>4. /\ job'[j].device = d /\ job'[j].token = t
          /\ \A i \in Job \ {j} : job'[i].device = job[i].device /\ job'[i].token = job[i].token
      BY <1>2 DEF Begins, Same
    <2>5. QED
      BY <1>2, <2>4 DEF Holds
  <1>3. ASSUME NEW j \in Job, NEW d \in Device, Refresh(j, d) \/ Logout(j, d)
        PROVE  issued' = issued /\ \A e \in Device, s \in SessionId : Holds(e, s)' => Holds(e, s)
    BY <1>2, <1>3, RefreshBegins, LogoutBegins
  <1>4. ASSUME NEW j \in Job, Proceed(j)
        PROVE  issued' = issued /\ \A e \in Device, s \in SessionId : Holds(e, s)' => Holds(e, s)
    <2>1. issued' = issued
      BY <1>4, ProceedKeeps
    <2>2. SUFFICES ASSUME NEW e \in Device, NEW s \in SessionId, Holds(e, s)' PROVE Holds(e, s)
      BY <2>1
    <2>3. CASE deviceSession'[e] = s
      <3>1. deviceSession[e] = s \/ (e = job[j].device /\ job[j].token \in Token /\ job[j].token[1] = s)
        BY <1>4, <1>n, <2>3, ProceedTables
      <3>2. QED
        BY <1>n, <3>1 DEF Holds
    <2>4. CASE cookie'[e] # None /\ cookie'[e][1] = s
      <3>1. cookie[e] = cookie'[e] \/ (e = job[j].device /\ job[j].token \in Token /\ cookie'[e] = job[j].token)
        BY <1>4, <2>4, ProceedTables
      <3>2. QED
        BY <1>n, <2>4, <3>1 DEF Holds
    <2>5. CASE \E i \in Job : job'[i].device = e /\ job'[i].token # None /\ job'[i].token[1] = s
      BY <1>4, <2>5, ProceedKeeps DEF KeepsPlace, Holds
    <2>6. QED
      BY <2>2, <2>3, <2>4, <2>5 DEF Holds
  <1>5. CASE Crash
    BY <1>5, CrashKeeps DEF Holds
  <1>6. ASSUME NEW d \in Device, Lapse(d)
        PROVE  issued' = issued /\ \A e \in Device, s \in SessionId : Holds(e, s)' => Holds(e, s)
    BY <1>6, <1>n, LapseClears DEF Holds
  <1>7. CASE UNCHANGED <<deviceSession, cookie, job, issued>>
    BY <1>7 DEF Holds
  <1>8. QED
    BY <1>1, <1>3, <1>4, <1>5, <1>6, <1>7 DEF Next, Tick, redis, vars

\* A new session is of the device that logs in, and of no other.
LEMMA NextOneDevice ==
  TypeOK /\ Shape /\ OneDevice /\ [Next]_vars => OneDevice'
  <1> SUFFICES ASSUME TypeOK, Shape, OneDevice, [Next]_vars PROVE OneDevice'
    OBVIOUS
  <1>1. issued \in Nat
    BY SessionsAssumption DEF TypeOK
  <1>2. /\ \A s \in SessionId : s \in Nat
        /\ \A d \in Device, s \in SessionId :
              Holds(d, s) => s <= issued /\ \A e \in Device : Holds(e, s) => e = d
    BY SessionsAssumption DEF OneDevice, SessionId
  <1>3. SUFFICES ASSUME NEW d \in Device, NEW s \in SessionId, Holds(d, s)'
                 PROVE  s <= issued' /\ \A e \in Device : Holds(e, s)' => e = d
    BY DEF OneDevice
  <1>4. CASE /\ issued' = issued
             /\ \A e \in Device, q \in SessionId : Holds(e, q)' => Holds(e, q)
    BY <1>2, <1>3, <1>4
  <1>5. CASE \E c \in Device :
             /\ issued' = issued + 1
             /\ \A e \in Device, q \in SessionId :
                   Holds(e, q)' => Holds(e, q) \/ (e = c /\ q = issued + 1)
    BY <1>1, <1>2, <1>3, <1>5
  <1>6. QED
    BY <1>4, <1>5, NextHolds

\* A device that is listed stays so, unless it loses its session.
LEMMA ProceedLists ==
  ASSUME TypeOK, Shape, Current, NEW j \in Job, Proceed(j),
         NEW e \in Device \ rough, e \in Range(userDevices), deviceSession'[e] # None
  PROVE  e \in Range(userDevices')
  <1>t. userDevices \in Seq(Device) /\ deviceSession \in [Device -> SessionId \cup {None}]
    BY DEF TypeOK
  <1>1. CASE userDevices' = userDevices
    BY <1>1
  <1>2. CASE LoginEvicts(j)
    <2>1. /\ userDevices' = Remaining(userDevices, Evicted(j))
          /\ deviceSession' = [d \in Device |-> IF d \in Evicted(j) THEN None ELSE deviceSession[d]]
      BY <1>2, EvictsMoves
    <2>2. e \notin Evicted(j)
      BY <2>1
    <2>3. Range(userDevices') = Range(userDevices) \ Evicted(j)
      BY <1>t, <2>1, RemainingOf
    <2>4. QED
      BY <2>2, <2>3
  <1>3. CASE RefreshLists(j)
    <2>1. userDevices' = Newest(job[j].device) /\ job[j].device \in Device
      BY <1>3 DEF RefreshLists, At, Shape, Sound
    <2>2. QED
      BY <1>t, <2>1, NewestOf
  <1>4. CASE LogoutLeaves(j)
    <2>1. /\ job[j].pc = "leave" /\ deviceSession' = deviceSession
          /\ userDevices' = Remaining(userDevices, {job[j].device})
      BY <1>4 DEF LogoutLeaves, At, Without
    <2>2. e # job[j].device
      BY <2>1 DEF Current, InStep
    <2>3. Range(userDevices') = Range(userDevices) \ {job[j].device}
      BY <1>t, <2>1, RemainingOf
    <2>4. QED
      BY <2>2, <2>3
  <1>5. QED
    BY <1>1, <1>2, <1>3, <1>4
       DEF Proceed, LoginCounts, LoginRanges, LoginReadsOld, RefreshChecksSession,
           RefreshDeletes, RefreshStores, RefreshExtends, RefreshUndoes, LogoutReads,
           LogoutDeletesToken, LogoutDeletesSession, Answer, redis

\* The others are as they were; the device of the request keeps its session or
\* loses it.
LEMMA ProceedSessions ==
  ASSUME TypeOK, Shape, Current, NEW j \in Job, Proceed(j),
         NEW e \in Device \ rough', deviceSession'[e] # None
  PROVE  e \notin rough /\ deviceSession'[e] = deviceSession[e]
  <1>1. e \notin rough
    BY ProceedKeeps
  <1>2. \/ deviceSession'[e] = deviceSession[e]
        \/ /\ e = job[j].device /\ job[j].pc = "extend" /\ deviceSession[e] # None
           /\ deviceSession'[e] = job[j].token[1]
    BY ProceedTables
  <1>3. QED
    BY <1>1, <1>2 DEF Current, InStep

\* A request moves itself and no other.
LEMMA ProceedOthers ==
  ASSUME TypeOK, Shape, NEW j \in Job, Proceed(j)
  PROVE  \A i \in Job \ {j} : Same(i)
  <1>1. CASE \E pc, token, n, list, old, sent : Becomes(j, pc, token, n, list, old, sent)
    BY <1>1 DEF Becomes
  <1>2. CASE Gone(j)
    BY <1>2 DEF Gone
  <1>3. CASE Ends(j)
    BY <1>3, JobTyped DEF Ends, Same
  <1>4. ASSUME NEW pc, Goto(j, pc) PROVE \A i \in Job \ {j} : Same(i)
    BY <1>4, JobTyped DEF Goto, Same
  <1>5. QED
    BY <1>1, <1>2, <1>3, <1>4, CountsMoves, RangesMoves, ReadsOldMoves, EvictsMoves,
       DeletesMoves, LogoutReadsMoves, DeletesTokenMoves
       DEF Proceed, RefreshChecksSession, RefreshStores, RefreshExtends, RefreshUndoes,
           RefreshLists, LogoutDeletesSession, LogoutLeaves, Answer

\* The call of a request leaves it in step with the session of its device.
LEMMA ProceedInStep ==
  ASSUME TypeOK, Shape, Current, NEW j \in Job, Proceed(j), NEW d, d = job[j].device,
         d \notin rough', deviceSession'[d] # None, job'[j].device = d
  PROVE  InStep(j, deviceSession[d])'
  <1>d. d \in Device
    BY ProceedTables
  <1>s. deviceSession'[d] = deviceSession[d] /\ d \notin rough /\ deviceSession[d] # None
    BY <1>d, ProceedSessions
  <1>i. InStep(j, deviceSession[d])
    BY <1>d, <1>s DEF Current
  <1>g. ASSUME NEW pc, Goto(j, pc), job[j].pc # "idle"
        PROVE  job'[j].pc = pc /\ job'[j].token = job[j].token /\ job'[j].old = job[j].old
    BY <1>g, GotoMoves DEF Becomes
  <1>e. ~Gone(j)
    BY <1>d, IdleIs DEF Gone
  <1>1. CASE LoginCounts(j)
    <2>1. /\ job[j].pc = "count" /\ job'[j].pc \in {"range", "answer"}
          /\ job'[j].token = job[j].token
      BY <1>1, CountsMoves DEF Becomes
    <2>2. QED
      BY <1>i, <1>s, <2>1 DEF InStep, Flow
  <1>2. CASE LoginRanges(j)
    <2>1. /\ job[j].pc = "range" /\ job'[j].pc \in {"old", "answer"}
          /\ job'[j].token = job[j].token
      BY <1>2, RangesMoves DEF Becomes
    <2>2. QED
      BY <1>i, <1>s, <2>1 DEF InStep, Flow
  <1>3. CASE LoginReadsOld(j)
    <2>1. job[j].pc = "old" /\ job'[j].pc = "evict" /\ job'[j].token = job[j].token
      BY <1>3, ReadsOldMoves DEF Becomes
    <2>2. QED
      BY <1>i, <1>s, <2>1 DEF InStep, Flow
  <1>4. CASE LoginEvicts(j)
    <2>1. /\ job[j].pc = "evict" /\ job'[j].pc \in {"old", "answer"}
          /\ job'[j].token = job[j].token
      BY <1>4, EvictsMoves DEF Becomes
    <2>2. QED
      BY <1>i, <1>s, <2>1 DEF InStep, Flow
  <1>5. CASE RefreshChecksSession(j)
    <2>1. CASE Ends(j)
      BY <1>5, <1>e, <2>1, EndsGone DEF RefreshChecksSession, At
    <2>2. CASE Goto(j, "delete") /\ deviceSession[d] = job[j].token[1] /\ job[j].pc = "session"
      <3>1. job'[j].pc = "delete" /\ job'[j].token = job[j].token
        BY <1>g, <2>2
      <3>2. QED
        BY <1>s, <2>2, <3>1 DEF InStep, Flow
    <2>3. QED
      BY <1>5, <2>1, <2>2 DEF RefreshChecksSession, At
  <1>6. CASE RefreshDeletes(j)
    <2>1. job[j].pc = "delete" /\ job'[j].pc = "store" /\ job'[j].token = <<job[j].token[1], clock>>
      BY <1>6, DeletesMoves DEF Becomes
    <2>2. QED
      BY <1>i, <1>s, <2>1 DEF InStep, Flow
  <1>7. CASE RefreshStores(j) \/ RefreshLists(j)
    <2>1. /\ job[j].pc \in {"store", "list"} /\ job'[j].pc \in {"extend", "answer"}
          /\ job'[j].token = job[j].token
      BY <1>7, <1>g DEF RefreshStores, RefreshLists, At
    <2>2. QED
      BY <1>i, <1>s, <2>1 DEF InStep, Flow
  <1>8. CASE RefreshExtends(j)
    <2>1. job[j].pc = "extend" /\ job'[j].pc = "list" /\ job'[j].token = job[j].token
      BY <1>8, <1>g, <1>s DEF RefreshExtends, At
    <2>2. QED
      BY <1>i, <1>s, <2>1 DEF InStep, Flow
  <1>9. CASE Ends(j) /\ job[j].pc # "idle"
    BY <1>9, <1>e, EndsGone
  <1>10. CASE LogoutReads(j)
    <2>1. /\ job[j].pc = "asked" /\ job'[j].pc = "del token"
          /\ job'[j].old = deviceSession[d]
      BY <1>10, <1>e, LogoutReadsMoves DEF Becomes
    <2>2. QED
      BY <1>s, <2>1 DEF InStep, Flow
  <1>11. CASE LogoutDeletesToken(j)
    <2>1. job'[j].pc = "del session"
      BY <1>11, DeletesTokenMoves DEF Becomes
    <2>2. QED
      BY <2>1 DEF InStep, Flow
  <1>12. CASE LogoutDeletesSession(j)
    <2>1. deviceSession'[d] = None
      BY <1>12, <1>d DEF LogoutDeletesSession, TypeOK
    <2>2. QED
      BY <2>1
  <1>13. QED
    BY <1>1, <1>2, <1>3, <1>4, <1>5, <1>6, <1>7, <1>8, <1>9, <1>10, <1>11, <1>12
       DEF Proceed, RefreshUndoes, LogoutLeaves, Answer, At

\* The request of a device that is not rough stays in step with its session.
LEMMA NextCurrent ==
  TypeOK /\ TypeOK' /\ Shape /\ Current /\ [Next]_vars => Current'
  <1> SUFFICES ASSUME TypeOK, TypeOK', Shape, Current, [Next]_vars PROVE Current'
    OBVIOUS
  <1>t. userDevices \in Seq(Device) /\ deviceSession \in [Device -> SessionId \cup {None}]
    BY DEF TypeOK
  <1>k. ASSUME NEW d \in Device \ rough', d \notin rough, deviceSession'[d] = deviceSession[d],
               deviceSession[d] # None, d \in Range(userDevices'),
               \A i \in Job : job'[i].device = d => Same(i) \/ InStep(i, deviceSession[d])'
        PROVE  /\ d \in Range(userDevices')
               /\ \A i \in Job : job'[i].device = d => InStep(i, deviceSession[d])'
    <2>1. ASSUME NEW i \in Job, job'[i].device = d, Same(i) PROVE InStep(i, deviceSession[d])'
      <3>1. InStep(i, deviceSession[d])
        BY <1>k, <2>1 DEF Current, Same
      <3>2. QED
        BY <1>k, <2>1, <3>1 DEF InStep, Same
    <2>2. QED
      BY <1>k, <2>1
  <1>1. ASSUME NEW j \in Job, NEW d \in Device, Login(j, d) PROVE Current'
    <2>1. /\ Begins(j, "count", d, <<issued + 1, clock>>)
          /\ deviceSession' = [deviceSession EXCEPT ![d] = issued + 1]
          /\ userDevices' = Newest(d)
          /\ d \in rough' => rough' = rough \cup {d}
          /\ d \notin rough' => rough' = rough \ {d} /\ \A i \in Job : job[i].device # d
      BY <1>1, LoginBegins
    <2>2. Range(userDevices') = Range(userDevices) \cup {d}
      BY <1>t, <2>1, NewestOf
    <2>3. /\ job'[j].pc = "count" /\ job'[j].device = d /\ job'[j].token[1] = issued + 1
          /\ \A i \in Job \ {j} : Same(i)
      BY <2>1 DEF Begins
    <2>4. SUFFICES ASSUME NEW e \in Device \ rough', deviceSession'[e] # None
                   PROVE  /\ e \in Range(userDevices')
                          /\ \A i \in Job : job'[i].device = e => InStep(i, deviceSession[e])'
      BY DEF Current
    <2>5. CASE e = d
      <3>1. \A i \in Job : job'[i].device = d => i = j
        BY <2>1, <2>3, <2>4, <2>5 DEF Same
      <3>2. deviceSession'[d] = issued + 1
        BY <1>t, <2>1
      <3>3. InStep(j, deviceSession[d])'
        BY <2>3, <3>2 DEF InStep, Flow
      <3>4. QED
        BY <2>2, <2>5, <3>1, <3>3
    <2>6. CASE e # d
      <3>1. e \notin rough /\ deviceSession'[e] = deviceSession[e]
        BY <1>t, <2>1, <2>4, <2>6
      <3>2. e \in Range(userDevices')
        BY <2>2, <2>4, <3>1 DEF Current
      <3>3. \A i \in Job : job'[i].device = e => Same(i)
        BY <2>3, <2>6
      <3>4. QED
        BY <1>k, <2>4, <3>1, <3>2, <3>3
    <2>7. QED
      BY <2>5, <2>6
  <1>2. ASSUME NEW j \in Job, NEW d \in Device, NEW pc \in {"session", "asked"}, NEW t,
               Begins(j, pc, d, t), rough \subseteq rough',
               UNCHANGED <<deviceSession, userDevices>>
        PROVE  Current'
    <2>1. job'[j].pc = pc /\ \A i \in Job \ {j} : Same(i)
      BY <1>2 DEF Begins
    <2>2. InStep(j, deviceSession[d])'
      BY <2>1 DEF InStep, Flow
    <2>3. SUFFICES ASSUME NEW e \in Device \ rough', deviceSession'[e] # None
                   PROVE  /\ e \in Range(userDevices')
                          /\ \A i \in Job : job'[i].device = e => InStep(i, deviceSession[e])'
      BY DEF Current
    <2>4. \A i \in Job : job'[i].device = e => Same(i) \/ InStep(i, deviceSession[e])'
      BY <2>1 DEF InStep, Flow
    <2>5. QED
      BY <1>k, <1>2, <2>3, <2>4 DEF Current
  <1>3. ASSUME NEW j \in Job, NEW d \in Device, Refresh(j, d) \/ Logout(j, d) PROVE Current'
    BY <1>2, <1>3, RefreshBegins, LogoutBegins
  <1>4. ASSUME NEW j \in Job, Proceed(j) PROVE Current'
    <2>1. SUFFICES ASSUME NEW e \in Device \ rough', deviceSession'[e] # None
                   PROVE  /\ e \in Range(userDevices')
                          /\ \A i \in Job : job'[i].device = e => InStep(i, deviceSession[e])'
      BY DEF Current
    <2>2. e \notin rough /\ deviceSession'[e] = deviceSession[e]
      BY <1>4, <2>1, ProceedSessions
    <2>3. e \in Range(userDevices')
      BY <1>4, <2>1, <2>2, ProceedLists DEF Current
    <2>4. \A i \in Job : job'[i].device = e => Same(i) \/ InStep(i, deviceSession[e])'
      <3>1. \A i \in Job \ {j} : Same(i)
        BY <1>4, ProceedOthers
      <3>2. job'[j].device = e => job[j].device = e
        BY <1>4, <2>1, IdleIs, ProceedKeeps DEF KeepsPlace
      <3>3. job'[j].device = e => InStep(j, deviceSession[e])'
        BY <1>4, <2>1, <3>2, ProceedInStep
      <3>4. QED
        BY <3>1, <3>3
    <2>5. QED
      BY <1>k, <2>1, <2>2, <2>3, <2>4
  <1>5. CASE Crash
    <2>1. /\ \A i \in Job : job'[i].device = None
          /\ rough \subseteq rough' /\ UNCHANGED <<deviceSession, userDevices>>
      BY <1>5, CrashKeeps
    <2>2. QED
      BY <2>1, IdleIs DEF Current
  <1>6. ASSUME NEW d \in Device, Lapse(d) PROVE Current'
    <2>1. /\ \A e \in Device \ {d} : deviceSession'[e] = deviceSession[e]
          /\ deviceSession'[d] = None /\ \A j \in Job : job[j] = Idle
          /\ job' = job /\ rough' = rough
      BY <1>6, LapseClears
    <2>2. ASSUME NEW e \in Device \ rough, deviceSession'[e] # None PROVE e \in Range(userDevices')
      <3>1. e # d /\ deviceSession[e] # None /\ e \in Range(userDevices)
        BY <2>1, <2>2 DEF Current
      <3>2. CASE userDevices' = userDevices
        BY <3>1, <3>2
      <3>3. CASE userDevices # <<>> /\ Last(userDevices) = d
        <4>1. PICK i \in DOMAIN userDevices : userDevices[i] = e
          BY <3>1 DEF Range
        <4>2. /\ i \in 1..Len(userDevices) /\ userDevices[Len(userDevices)] = d
              /\ Len(userDevices) \in DOMAIN userDevices
          BY <1>t, <3>3, <4>1 DEF Last
        <4>3. i < Len(userDevices)
          BY <1>t, <3>1, <4>1, <4>2
        <4>4. deviceSession[userDevices[i]] = None
          BY <1>6, <4>2, <4>3, <4>1 DEF Lapse
        <4>5. QED
          BY <3>1, <4>1, <4>4
      <3>4. QED
        BY <1>6, <3>2, <3>3 DEF Lapse
    <2>3. \A j \in Job : job'[j].device = None
      BY <2>1, IdleIs
    <2>4. QED
      BY <2>1, <2>2, <2>3, IdleIs DEF Current
  <1>7. CASE UNCHANGED <<deviceSession, userDevices, job, rough>>
    BY <1>7 DEF Current, InStep
  <1>8. QED
    BY <1>1, <1>3, <1>4, <1>5, <1>6, <1>7 DEF Next, Tick, redis, vars

-----------------------------------------------------------------------------
(* Tokens.                                                                 *)

\* Only an answer touches a cookie, and only that of its device.
LEMMA ProceedCookies ==
  ASSUME TypeOK, Shape, NEW j \in Job, Proceed(j)
  PROVE  /\ \A e \in Device : e # job[j].device => cookie'[e] = cookie[e]
         /\ job[j].pc \notin {"answer", "leave"} => cookie' = cookie
         /\ job[j].pc # "idle"
  <1>t. cookie \in [Device -> Token \cup {None}]
    BY DEF TypeOK
  <1>1. CASE Answer(j) \/ LogoutLeaves(j)
    BY <1>1, <1>t DEF Answer, LogoutLeaves, At
  <1>2. CASE cookie' = cookie /\ job[j].pc # "idle"
    BY <1>2
  <1>3. QED
    BY <1>1, <1>2, EvictsMoves
       DEF Proceed, LoginCounts, LoginRanges, LoginReadsOld, LoginEvicts, RefreshChecksSession,
           RefreshDeletes, RefreshStores, RefreshExtends, RefreshUndoes, RefreshLists,
           LogoutReads, LogoutDeletesToken, LogoutDeletesSession, At

\* The call of a request leaves the stored hash with it, or with its client.
LEMMA ProceedHas ==
  ASSUME TypeOK, Shape, Current, Matches, NEW j \in Job, Proceed(j), NEW d, d = job[j].device,
         d \notin rough', deviceSession'[d] # None, refreshToken'[deviceSession'[d]] # None
  PROVE  IF job'[j].device = d THEN HasToken(j, Stored(d))' ELSE cookie'[d] = Stored(d)'
  <1>d. d \in Device
    BY ProceedTables
  <1>t. /\ refreshToken \in [SessionId -> Token \cup {None}]
        /\ deviceSession \in [Device -> SessionId \cup {None}]
    BY DEF TypeOK
  <1>s. /\ deviceSession'[d] = deviceSession[d] /\ d \notin rough /\ deviceSession[d] # None
        /\ deviceSession[d] \in SessionId
    BY <1>d, <1>t, ProceedSessions
  <1>r. job[j].pc # "store" => Stored(d)' = Stored(d) /\ Stored(d) # None
    BY <1>s, ProceedTables DEF Stored
  <1>h. job[j].pc # "store" => HasToken(j, Stored(d))
    BY <1>d, <1>s, <1>r DEF Matches
  <1>i. InStep(j, deviceSession[d])
    BY <1>d, <1>s DEF Current
  <1>c. job[j].pc \notin {"answer", "leave"} => cookie'[d] = cookie[d]
    BY ProceedCookies
  <1>g. ASSUME NEW pc, Goto(j, pc), job[j].pc # "idle"
        PROVE  job'[j].pc = pc /\ job'[j].token = job[j].token /\ job'[j].device = d
    BY <1>g, GotoMoves DEF Becomes
  <1>e. ASSUME Ends(j), job[j].pc # "idle" PROVE job'[j].device # d
    BY <1>d, <1>e, IdleIs, EndsGone DEF Gone
  <1>1. CASE \/ LoginCounts(j) \/ LoginRanges(j) \/ LoginReadsOld(j) \/ LoginEvicts(j)
    <2>1. /\ job[j].pc \in Flow /\ job'[j].pc \in Flow \cup {"answer"}
          /\ job'[j].token = job[j].token /\ job'[j].device = d
      <3>1. CASE LoginCounts(j)
        <4>1. /\ job[j].pc = "count" /\ job'[j].pc \in {"range", "answer"}
              /\ job'[j].token = job[j].token /\ job'[j].device = d
          BY <3>1, CountsMoves DEF Becomes
        <4>2. QED
          BY <4>1 DEF Flow
      <3>2. CASE LoginRanges(j)
        <4>1. /\ job[j].pc = "range" /\ job'[j].pc \in {"old", "answer"}
              /\ job'[j].token = job[j].token /\ job'[j].device = d
          BY <3>2, RangesMoves DEF Becomes
        <4>2. QED
          BY <4>1 DEF Flow
      <3>3. CASE LoginReadsOld(j)
        <4>1. /\ job[j].pc = "old" /\ job'[j].pc = "evict"
              /\ job'[j].token = job[j].token /\ job'[j].device = d
          BY <3>3, ReadsOldMoves DEF Becomes
        <4>2. QED
          BY <4>1 DEF Flow
      <3>4. CASE LoginEvicts(j)
        <4>1. /\ job[j].pc = "evict" /\ job'[j].pc \in {"old", "answer"}
              /\ job'[j].token = job[j].token /\ job'[j].device = d
          BY <3>4, EvictsMoves DEF Becomes
        <4>2. QED
          BY <4>1 DEF Flow
      <3>5. QED
        BY <1>1, <3>1, <3>2, <3>3, <3>4
    <2>2. job[j].token = Stored(d) /\ Stored(d)' = Stored(d)
      BY <1>h, <1>r, <2>1 DEF HasToken, Flow
    <2>3. job'[j].token = Stored(d)' /\ job'[j].pc \notin {"session", "delete", "asked", "del token", "store", "del session"}
      BY <2>1, <2>2 DEF Flow
    <2>4. QED
      BY <2>1, <2>3 DEF HasToken
  <1>2. CASE Answer(j)
    <2>1. job[j].pc = "answer" /\ Ends(j) /\ cookie'[d] = job[j].token
      BY <1>2, <1>d DEF Answer, At, TypeOK
    <2>2. job[j].token = Stored(d)
      BY <1>h, <2>1 DEF HasToken
    <2>3. QED
      BY <1>e, <1>r, <2>1, <2>2
  <1>3. CASE RefreshChecksSession(j)
    <2>1. job[j].pc = "session" /\ (Goto(j, "delete") \/ Ends(j))
      BY <1>3 DEF RefreshChecksSession, At
    <2>2. cookie'[d] = Stored(d)'
      BY <1>c, <1>h, <1>r, <2>1 DEF HasToken
    <2>3. CASE Goto(j, "delete")
      <3>1. job'[j].pc = "delete" /\ job'[j].device = d
        BY <1>g, <2>1, <2>3
      <3>2. QED
        BY <2>2, <3>1 DEF HasToken, Flow
    <2>4. CASE Ends(j)
      BY <1>e, <2>1, <2>2, <2>4
    <2>5. QED
      BY <2>1, <2>3, <2>4
  <1>4. CASE RefreshDeletes(j)
    <2>1. /\ job[j].pc = "delete"
          /\ refreshToken' = [refreshToken EXCEPT ![job[j].token[1]] = None]
      BY <1>4, DeletesMoves
    <2>2. job[j].token[1] = deviceSession[d]
      BY <1>i, <2>1 DEF InStep
    <2>3. refreshToken'[deviceSession[d]] = None
      BY <1>s, <1>t, <2>1, <2>2
    <2>4. QED
      BY <1>s, <2>3
  <1>5. CASE RefreshStores(j)
    <2>1. /\ job[j].pc = "store" /\ Goto(j, "extend")
          /\ refreshToken' = [refreshToken EXCEPT ![job[j].token[1]] = job[j].token]
      BY <1>5 DEF RefreshStores, At
    <2>2. job[j].token[1] = deviceSession[d]
      BY <1>i, <2>1 DEF InStep
    <2>3. Stored(d)' = job[j].token
      BY <1>s, <1>t, <2>1, <2>2 DEF Stored
    <2>4. job'[j].pc = "extend" /\ job'[j].token = job[j].token /\ job'[j].device = d
      BY <1>g, <2>1
    <2>5. QED
      BY <2>3, <2>4 DEF HasToken, Flow
  <1>6. CASE RefreshExtends(j) \/ RefreshLists(j)
    <2>1. /\ job[j].pc \in {"extend", "list"} /\ job'[j].pc \in {"list", "answer"}
          /\ job'[j].token = job[j].token /\ job'[j].device = d
      BY <1>6, <1>g, <1>s DEF RefreshExtends, RefreshLists, At
    <2>2. job[j].token = Stored(d) /\ Stored(d)' = Stored(d)
      BY <1>h, <1>r, <2>1 DEF HasToken
    <2>3. QED
      BY <2>1, <2>2 DEF HasToken, Flow
  <1>7. CASE RefreshUndoes(j) \/ LogoutLeaves(j)
    BY <1>7, <1>i DEF RefreshUndoes, LogoutLeaves, At, InStep
  <1>8. CASE LogoutReads(j)
    <2>1. job[j].pc = "asked"
      BY <1>8, LogoutReadsMoves
    <2>2. cookie'[d] = Stored(d)'
      BY <1>c, <1>h, <1>r, <2>1 DEF HasToken
    <2>3. CASE Gone(j)
      BY <1>d, <2>2, <2>3, IdleIs DEF Gone
    <2>4. CASE ~Gone(j)
      <3>1. job'[j].pc = "del token" /\ job'[j].device = d
        BY <1>8, <2>4, LogoutReadsMoves DEF Becomes
      <3>2. QED
        BY <2>2, <3>1 DEF HasToken, Flow
    <2>5. QED
      BY <2>3, <2>4
  <1>9. CASE LogoutDeletesToken(j)
    <2>1. /\ job[j].pc = "del token"
          /\ refreshToken' = [refreshToken EXCEPT ![job[j].old] = None]
      BY <1>9, DeletesTokenMoves
    <2>2. job[j].old = deviceSession[d]
      BY <1>i, <2>1 DEF InStep
    <2>3. refreshToken'[deviceSession[d]] = None
      BY <1>s, <1>t, <2>1, <2>2
    <2>4. QED
      BY <1>s, <2>3
  <1>10. CASE LogoutDeletesSession(j)
    <2>1. deviceSession'[d] = None
      BY <1>10, <1>d, <1>t DEF LogoutDeletesSession
    <2>2. QED
      BY <2>1
  <1>11. QED
    BY <1>1, <1>2, <1>3, <1>4, <1>5, <1>6, <1>7, <1>8, <1>9, <1>10 DEF Proceed

\* The hash stored for a device is of the token that its request or its client has.
LEMMA NextMatches ==
  TypeOK /\ Shape /\ Current /\ OneDevice /\ OneRequest /\ Matches /\ [Next]_vars => Matches'
  <1> SUFFICES ASSUME TypeOK, Shape, Current, OneDevice, OneRequest, Matches, [Next]_vars
               PROVE Matches'
    OBVIOUS
  <1>t. /\ refreshToken \in [SessionId -> Token \cup {None}]
        /\ deviceSession \in [Device -> SessionId \cup {None}]
        /\ cookie \in [Device -> Token \cup {None}]
        /\ issued \in Nat
        /\ \A s \in SessionId : s \in Nat
    BY SessionsAssumption DEF TypeOK, SessionId
  <1> DEFINE Good(e) == /\ (\A j \in Job : job'[j].device # e) => cookie'[e] = Stored(e)'
                        /\ \A j \in Job : job'[j].device = e => HasToken(j, Stored(e))'
  <1>m. ASSUME NEW e \in Device \ rough, deviceSession[e] # None, Stored(e) # None
        PROVE  /\ (\A j \in Job : job[j].device # e) => cookie[e] = Stored(e)
               /\ \A j \in Job : job[j].device = e => HasToken(j, Stored(e))
    BY <1>m DEF Matches
  <1>h. ASSUME NEW i \in Job, NEW e \in Device, Same(i), HasToken(i, Stored(e)),
               job[i].device = e, cookie'[e] = cookie[e], Stored(e)' = Stored(e)
        PROVE  HasToken(i, Stored(e))'
    BY <1>h DEF HasToken, Same
  <1>q. SUFFICES ASSUME NEW e \in Device \ rough', deviceSession'[e] # None, Stored(e)' # None
                 PROVE  Good(e)
    BY DEF Matches
  <1>1. ASSUME NEW j \in Job, NEW d \in Device, NEW pc, NEW t, Begins(j, pc, d, t), e # d,
               e \notin rough, deviceSession[e] # None,
               cookie' = cookie, Stored(e)' = Stored(e)
        PROVE  Good(e)
    <2>1. /\ job'[j].device = d /\ job[j].device = None
          /\ \A i \in Job \ {j} : Same(i) /\ job'[i].device = job[i].device
      BY <1>1 DEF Begins, Same
    <2>2. Stored(e) # None /\ e # None
      BY <1>1, <1>q, IdleIs
    <2>3. /\ (\A i \in Job : job[i].device # e) => cookie[e] = Stored(e)
          /\ \A i \in Job : job[i].device = e => HasToken(i, Stored(e))
      BY <1>1, <1>m, <2>2
    <2>4. ASSUME NEW i \in Job, job'[i].device = e PROVE HasToken(i, Stored(e))'
      <3>1. i # j /\ Same(i) /\ job[i].device = e
        BY <1>1, <2>1, <2>4
      <3>2. QED
        BY <1>1, <1>h, <2>3, <3>1
    <2>5. (\A i \in Job : job'[i].device # e) => cookie'[e] = Stored(e)'
      BY <1>1, <2>1, <2>2, <2>3
    <2>6. QED
      BY <2>4, <2>5
  <1>2. ASSUME NEW j \in Job, NEW d \in Device, Login(j, d) PROVE Good(e)
    <2>1. /\ Begins(j, "count", d, <<issued + 1, clock>>)
          /\ issued + 1 \in SessionId
          /\ refreshToken' = [refreshToken EXCEPT ![issued + 1] = <<issued + 1, clock>>]
          /\ deviceSession' = [deviceSession EXCEPT ![d] = issued + 1]
          /\ cookie' = cookie
          /\ d \in rough' => rough' = rough \cup {d}
          /\ d \notin rough' => rough' = rough \ {d} /\ \A i \in Job : job[i].device # d
      BY <1>2, LoginBegins
    <2>2. CASE e = d
      <3>1. Stored(d)' = <<issued + 1, clock>>
        BY <1>t, <2>1 DEF Stored
      <3>2. \A i \in Job : job'[i].device = d => i = j
        BY <1>q, <2>1, <2>2 DEF Begins, Same
      <3>3. job'[j].device = d /\ job'[j].pc = "count" /\ job'[j].token = <<issued + 1, clock>>
        BY <2>1 DEF Begins
      <3>4. HasToken(j, Stored(d))'
        BY <3>1, <3>3 DEF HasToken, Flow
      <3>5. QED
        BY <2>2, <3>2, <3>3, <3>4
    <2>3. CASE e # d
      <3>1. e \notin rough /\ deviceSession'[e] = deviceSession[e] /\ deviceSession[e] \in SessionId
        BY <1>q, <1>t, <2>1, <2>3
      <3>2. deviceSession[e] <= issued
        BY <3>1 DEF OneDevice, Holds
      <3>3. Stored(e)' = Stored(e)
        BY <1>t, <2>1, <3>1, <3>2 DEF Stored
      <3>4. QED
        BY <1>1, <1>q, <2>1, <2>3, <3>1, <3>3
    <2>4. QED
      BY <2>2, <2>3
  <1>3. ASSUME NEW j \in Job, NEW d \in Device, NEW pc \in {"session", "asked"}, NEW t,
               Begins(j, pc, d, t), rough \subseteq rough',
               d \notin rough' => \A i \in Job : job[i].device # d,
               UNCHANGED <<refreshToken, deviceSession, cookie>>
        PROVE  Good(e)
    <2>1. Stored(e)' = Stored(e) /\ e \notin rough /\ deviceSession[e] # None
      BY <1>3, <1>q DEF Stored
    <2>2. CASE e = d
      <3>1. cookie[d] = Stored(d) /\ \A i \in Job : job'[i].device = d => i = j
        BY <1>3, <1>m, <1>q, <2>1, <2>2 DEF Begins, Same
      <3>2. job'[j].device = d /\ job'[j].pc = pc
        BY <1>3 DEF Begins
      <3>3. HasToken(j, Stored(d))'
        BY <1>3, <2>1, <2>2, <3>1, <3>2 DEF HasToken, Flow
      <3>4. QED
        BY <2>2, <3>1, <3>2, <3>3
    <2>3. CASE e # d
      BY <1>1, <1>3, <2>1, <2>3
    <2>4. QED
      BY <2>2, <2>3
  <1>4. ASSUME NEW j \in Job, NEW d \in Device, Refresh(j, d) \/ Logout(j, d) PROVE Good(e)
    <2>1. CASE Refresh(j, d)
      <3> HIDE DEF Good
      <3>1. QED
        BY <1>3, <2>1, RefreshBegins
    <2>2. CASE Logout(j, d)
      <3> HIDE DEF Good
      <3>1. QED
        BY <1>3, <2>2, LogoutBegins
    <2>3. QED
      BY <1>4, <2>1, <2>2
  <1>5. ASSUME NEW j \in Job, Proceed(j) PROVE Good(e)
    <2>1. /\ e \notin rough /\ deviceSession'[e] = deviceSession[e] /\ deviceSession[e] \in SessionId
          /\ job[j].device \in Device
          /\ \A i \in Job \ {j} : Same(i)
      BY <1>5, <1>q, <1>t, ProceedSessions, ProceedOthers, ProceedTables
    <2>2. CASE e = job[j].device
      <3>1. IF job'[j].device = e THEN HasToken(j, Stored(e))' ELSE cookie'[e] = Stored(e)'
        BY <1>5, <1>q, <2>2, ProceedHas DEF Stored
      <3>2. \A i \in Job : job'[i].device = e => i = j
        BY <2>1, <2>2 DEF OneRequest, Same
      <3>3. QED
        BY <3>1, <3>2
    <2>3. CASE e # job[j].device
      <3>1. job'[j].device # e
        BY <1>5, <2>3, ProceedKeeps, IdleIs DEF KeepsPlace
      <3>2. cookie'[e] = cookie[e]
        BY <1>5, <2>3, ProceedCookies
      <3>3. Stored(e)' = Stored(e) /\ Stored(e) # None
        <4>1. \/ refreshToken'[deviceSession[e]] \in {refreshToken[deviceSession[e]], None}
              \/ deviceSession[e] = job[j].token[1] /\ job[j].token \in Token
          BY <1>5, <2>1, ProceedTables
        <4>2. ~(deviceSession[e] = job[j].token[1] /\ job[j].token \in Token)
          <5>1. job[j].token \in Token => job[j].token # None
            BY SessionsAssumption DEF Token, SessionId
          <5>2. Holds(e, deviceSession[e])
            BY DEF Holds
          <5>3. deviceSession[e] = job[j].token[1] /\ job[j].token # None =>
                   Holds(job[j].device, deviceSession[e])
            BY DEF Holds
          <5>4. QED
            BY <2>1, <2>3, <5>1, <5>2, <5>3 DEF OneDevice
        <4>3. QED
          BY <1>q, <2>1, <4>1, <4>2 DEF Stored
      <3>4. /\ (\A i \in Job : job[i].device # e) => cookie[e] = Stored(e)
            /\ \A i \in Job : job[i].device = e => HasToken(i, Stored(e))
        BY <1>m, <1>q, <2>1, <3>3
      <3>5. ASSUME NEW i \in Job, job'[i].device = e PROVE HasToken(i, Stored(e))'
        <4>1. i # j /\ Same(i) /\ job[i].device = e
          BY <2>1, <3>1, <3>5 DEF Same
        <4>2. QED
          BY <1>h, <3>2, <3>3, <3>4, <4>1
      <3>6. (\A i \in Job : job'[i].device # e) => cookie'[e] = Stored(e)'
        BY <2>1, <2>3, <3>2, <3>3, <3>4 DEF Same
      <3>7. QED
        BY <3>5, <3>6
    <2>4. QED
      BY <2>2, <2>3
  <1>6. CASE Crash
    <2>1. /\ \A i \in Job : /\ job'[i].device = None
                            /\ job[i].device \in Device => job[i].device \in rough'
          /\ rough \subseteq rough'
          /\ UNCHANGED <<refreshToken, deviceSession, cookie>>
      BY <1>6, CrashKeeps
    <2>2. \A i \in Job : job[i].device # e
      BY <1>q, <2>1
    <2>3. Stored(e)' = Stored(e) /\ cookie[e] = Stored(e)
      BY <1>m, <1>q, <2>1, <2>2 DEF Stored
    <2>4. QED
      BY <2>1, <2>3, IdleIs
  <1>7. ASSUME NEW d \in Device, Lapse(d) PROVE Good(e)
    <2>1. /\ \A i \in Device \ {d} : cookie'[i] = cookie[i] /\ deviceSession'[i] = deviceSession[i]
          /\ \A s \in SessionId : refreshToken'[s] \in {refreshToken[s], None}
          /\ deviceSession'[d] = None /\ \A j \in Job : job[j] = Idle
          /\ job' = job /\ rough' = rough
      BY <1>7, LapseClears
    <2>2. e # d /\ e \notin rough /\ cookie'[e] = cookie[e] /\ deviceSession'[e] = deviceSession[e]
          /\ deviceSession[e] \in SessionId
      BY <1>q, <1>t, <2>1
    <2>3. Stored(e)' = Stored(e) /\ Stored(e) # None
      BY <1>q, <2>1, <2>2 DEF Stored
    <2>4. \A j \in Job : job[j].device # e /\ job'[j].device # e
      BY <2>1, IdleIs
    <2>5. cookie[e] = Stored(e)
      BY <1>m, <1>q, <2>2, <2>3, <2>4
    <2>6. QED
      BY <2>2, <2>3, <2>4, <2>5
  <1>8. CASE UNCHANGED <<refreshToken, deviceSession, cookie, job, rough>>
    <2>1. Stored(e)' = Stored(e) /\ e \notin rough /\ deviceSession[e] # None /\ Stored(e) # None
      BY <1>8, <1>q DEF Stored
    <2>2. /\ (\A j \in Job : job[j].device # e) => cookie[e] = Stored(e)
          /\ \A j \in Job : job[j].device = e => HasToken(j, Stored(e))
      BY <1>m, <2>1
    <2>3. ASSUME NEW i \in Job, job'[i].device = e PROVE HasToken(i, Stored(e))'
      BY <1>8, <2>1, <2>2, <2>3 DEF HasToken
    <2>4. QED
      BY <1>8, <2>1, <2>2, <2>3
  <1>9. QED
    <2> HIDE DEF Good
    <2>1. QED
      BY <1>2, <1>4, <1>5, <1>6, <1>7, <1>8 DEF Next, Tick, redis, vars

LEMMA MatchesCookie == Matches => CookieMatches
  BY DEF Matches, CookieMatches, Stored, Usable, JobsOf

-----------------------------------------------------------------------------
(* The limit.                                                              *)

\* A set of sessions that is not empty has a last one.
LEMMA LastSession ==
  ASSUME NEW S \in SUBSET Nat, NEW n \in Nat, \A x \in S : x <= n, S # {}
  PROVE  \E m \in S : \A x \in S : x <= m
  <1> DEFINE Top(k) == \A T \in SUBSET Nat :
                          T # {} /\ (\A x \in T : x <= k) => \E m \in T : \A x \in T : x <= m
             Good == {k \in Nat : Top(k)}
  <1>1. 0 \in Good
    <2>1. SUFFICES ASSUME NEW T \in SUBSET Nat, T # {}, \A x \in T : x <= 0
                   PROVE  \E m \in T : \A x \in T : x <= m
      OBVIOUS
    <2>2. PICK m : m \in T
      BY <2>1
    <2>3. \A x \in T : x <= m
      BY <2>1, <2>2
    <2>4. QED
      BY <2>2, <2>3
  <1>2. ASSUME NEW k \in Nat, k \in Good PROVE k + 1 \in Good
    <2>1. SUFFICES ASSUME NEW T \in SUBSET Nat, T # {}, \A x \in T : x <= k + 1
                   PROVE  \E m \in T : \A x \in T : x <= m
      OBVIOUS
    <2>2. CASE k + 1 \in T
      BY <2>1, <2>2
    <2>3. CASE k + 1 \notin T
      <3>1. \A x \in T : x <= k
        BY <2>1, <2>3
      <3>2. QED
        BY <1>2, <2>1, <3>1
    <2>4. QED
      BY <2>2, <2>3
  <1>3. Nat \subseteq Good
    <2> HIDE DEF Good
    <2>1. QED
      BY <1>1, <1>2, Counting
  <1>4. QED
    BY <1>3

\* The first m of the listed devices are m devices.
LEMMA FirstAre ==
  ASSUME NEW S, NEW s \in Seq(S), IsInjective(s), NEW m \in 0..Len(s)
  PROVE  LET F == {s[i] : i \in 1..m} IN IsFiniteSet(F) /\ Cardinality(F) = m
  <1>1. PICK F : F = {s[i] : i \in 1..m}
    OBVIOUS
  <1>2. PICK f : f = [i \in 1..m |-> s[i]]
    OBVIOUS
  <1>3. f \in [1..m -> F] /\ \A t \in F : \E i \in 1..m : f[i] = t
    BY <1>1, <1>2
  <1>4. \A a, b \in 1..m : f[a] = f[b] => a = b
    <2>1. 1..m \subseteq DOMAIN s /\ m \in Nat
      OBVIOUS
    <2>2. QED
      BY <1>2, <2>1 DEF IsInjective
  <1>5. ExistsBijection(1..m, F) /\ m \in Nat
    <2>1. f \in Bijection(1..m, F)
      BY <1>3, <1>4 DEF Bijection, Injection, Surjection, IsInjective
    <2>2. QED
      BY <2>1 DEF ExistsBijection
  <1>6. QED
    BY <1>1, <1>5, FS_CountingElements, FS_NatBijection

LEMMA OlderFinite ==
  ASSUME TypeOK, NEW s
  PROVE  /\ Older(s) \subseteq Signed /\ Signed \subseteq Device /\ IsFiniteSet(Device)
         /\ IsFiniteSet(Older(s)) /\ Cardinality(Older(s)) \in Nat
         /\ \A e : IsFiniteSet(Older(s) \cup Before(e))
  <1>1. Older(s) \subseteq Signed /\ Signed \subseteq Device
    BY DEF Older, Signed
  <1>2. IsFiniteSet(Device)
    BY SessionsAssumption
  <1>3. IsFiniteSet(Older(s))
    <2>1. Older(s) \in SUBSET Device
      BY <1>1
    <2>2. QED
      BY <1>2, <2>1, FS_Subset
  <1>4. ASSUME NEW e PROVE IsFiniteSet(Older(s) \cup Before(e))
    <2>1. Older(s) \cup Before(e) \in SUBSET Device
      BY <1>1 DEF Before
    <2>2. QED
      BY <1>2, <2>1, FS_Subset
  <1>5. QED
    BY <1>1, <1>2, <1>3, <1>4, FS_CardinalityType

LEMMA Smaller ==
  ASSUME NEW A, NEW B, IsFiniteSet(B), A \subseteq B, NEW n \in Int, Cardinality(B) <= n
  PROVE  Cardinality(A) <= n
  <1>1. IsFiniteSet(A) /\ Cardinality(A) <= Cardinality(B)
    <2>1. A \in SUBSET B
      OBVIOUS
    <2>2. QED
      BY <2>1, FS_Subset
  <1>2. Cardinality(A) \in Nat /\ Cardinality(B) \in Nat
    BY <1>1, FS_CardinalityType
  <1>3. QED
    BY <1>1, <1>2

\* A device that is signed in was so before, or logs in now.
LEMMA NextSigned ==
  ASSUME TypeOK, Shape, Current, [Next]_vars, NEW e \in Signed'
  PROVE  \/ e \in Signed /\ deviceSession'[e] = deviceSession[e]
         \/ deviceSession'[e] = issued + 1
  <1>t. deviceSession \in [Device -> SessionId \cup {None}]
    BY DEF TypeOK
  <1>e. e \in Device \ rough' /\ deviceSession'[e] # None
    BY DEF Signed
  <1>1. ASSUME NEW j \in Job, NEW d \in Device, Login(j, d)
        PROVE  \/ e \in Signed /\ deviceSession'[e] = deviceSession[e]
               \/ deviceSession'[e] = issued + 1
    <2>1. /\ deviceSession' = [deviceSession EXCEPT ![d] = issued + 1]
          /\ e # d => e \notin rough
      BY <1>1, <1>e, LoginBegins
    <2>2. QED
      BY <1>e, <1>t, <2>1 DEF Signed
  <1>2. CASE rough \subseteq rough' /\ deviceSession'[e] = deviceSession[e]
    BY <1>e, <1>2 DEF Signed
  <1>3. ASSUME NEW j \in Job, Proceed(j) PROVE e \in Signed /\ deviceSession'[e] = deviceSession[e]
    BY <1>e, <1>3, ProceedSessions DEF Signed
  <1>4. ASSUME NEW d \in Device, Lapse(d) PROVE e \in Signed /\ deviceSession'[e] = deviceSession[e]
    BY <1>e, <1>4, LapseClears DEF Signed
  <1>5. ASSUME NEW j \in Job, NEW d \in Device, Refresh(j, d) \/ Logout(j, d)
        PROVE  rough \subseteq rough' /\ deviceSession'[e] = deviceSession[e]
    BY <1>5, RefreshBegins, LogoutBegins
  <1>6. QED
    BY <1>1, <1>2, <1>3, <1>4, <1>5, CrashKeeps DEF Next, Tick, redis, vars

\* No device gets an older session.
LEMMA NextOlder ==
  ASSUME TypeOK, Shape, Current, [Next]_vars, NEW s \in SessionId, s <= issued
  PROVE  Older(s)' \subseteq Older(s)
  <1>1. SUFFICES ASSUME NEW e \in Signed', deviceSession'[e] <= s PROVE e \in Older(s)
    BY DEF Older
  <1>2. issued \in Nat /\ s \in Nat
    BY SessionsAssumption DEF TypeOK, SessionId
  <1>3. deviceSession'[e] # issued + 1
    BY <1>1, <1>2
  <1>4. QED
    BY <1>1, <1>3, NextSigned DEF Older

\* A device moves back in the list only by its own refresh.
LEMMA ProceedAhead ==
  ASSUME TypeOK, Shape, NEW j \in Job, Proceed(j)
  PROVE  \A a, b : Ahead(userDevices', a, b) =>
                      Ahead(userDevices, a, b) \/ (b = job[j].device /\ job[j].pc = "list")
  <1>t. userDevices \in Seq(Device)
    BY DEF TypeOK
  <1>1. CASE userDevices' = userDevices
    BY <1>1
  <1>2. CASE LoginEvicts(j)
    BY <1>2, <1>t, EvictsMoves, RemainingOf
  <1>3. CASE RefreshLists(j)
    <2>1. userDevices' = Newest(job[j].device) /\ job[j].device \in Device /\ job[j].pc = "list"
      BY <1>3 DEF RefreshLists, At, Shape, Sound
    <2>2. QED
      BY <1>t, <2>1, NewestOf
  <1>4. CASE LogoutLeaves(j)
    <2>1. userDevices' = Remaining(userDevices, {job[j].device})
      BY <1>4 DEF LogoutLeaves, Without
    <2>2. QED
      BY <1>t, <2>1, RemainingOf
  <1>5. QED
    BY <1>1, <1>2, <1>3, <1>4
       DEF Proceed, LoginCounts, LoginRanges, LoginReadsOld, RefreshChecksSession,
           RefreshDeletes, RefreshStores, RefreshExtends, RefreshUndoes, LogoutReads,
           LogoutDeletesToken, LogoutDeletesSession, Answer, redis

\* Only a login begins one.
LEMMA ProceedFlow ==
  ASSUME TypeOK, Shape, NEW j \in Job, Proceed(j)
  PROVE  /\ job[j].pc \in Flow => LoginCounts(j) \/ LoginRanges(j) \/ LoginReadsOld(j) \/ LoginEvicts(j)
         /\ job[j].pc \notin Flow => job'[j].pc \notin Flow
         /\ job[j].pc = "list" => job'[j].pc \notin Flow
  <1>1. CASE LoginCounts(j) \/ LoginRanges(j) \/ LoginReadsOld(j) \/ LoginEvicts(j)
    <2>1. job[j].pc \in {"count", "range", "old", "evict"}
      BY <1>1 DEF LoginCounts, LoginRanges, LoginReadsOld, LoginEvicts, At
    <2>2. QED
      BY <1>1, <2>1 DEF Flow
  <1>2. CASE /\ job[j].pc \notin Flow
             /\ \E pc \in {"delete", "store", "extend", "list", "undo", "answer", "leave"} : Goto(j, pc)
    <2>1. CASE job[j].pc = "idle"
      BY <2>1 DEF Proceed, LoginCounts, LoginRanges, LoginReadsOld, LoginEvicts, RefreshChecksSession,
           RefreshDeletes, RefreshStores, RefreshExtends, RefreshUndoes, RefreshLists, LogoutReads,
           LogoutDeletesToken, LogoutDeletesSession, LogoutLeaves, Answer, At
    <2>2. CASE job[j].pc # "idle"
      <3>1. job'[j].pc \in {"delete", "store", "extend", "list", "undo", "answer", "leave"}
        BY <1>2, <2>2, GotoMoves DEF Becomes
      <3>2. QED
        BY <1>2, <3>1 DEF Flow
    <2>3. QED
      BY <2>1, <2>2
  <1>3. CASE job[j].pc \notin Flow \cup {"idle"} /\ Ends(j)
    <2>1. job'[j].pc = "idle"
      BY <1>3, EndsGone DEF Gone
    <2>2. QED
      BY <1>3, <2>1 DEF Flow
  <1>4. CASE RefreshDeletes(j) \/ LogoutReads(j) \/ LogoutDeletesToken(j)
    <2>1. /\ job[j].pc \in {"delete", "asked", "del token"}
          /\ job'[j].pc \in {"store", "idle", "del token", "del session"}
      BY <1>4, DeletesMoves, LogoutReadsMoves, DeletesTokenMoves DEF Becomes, Gone
    <2>2. QED
      BY <2>1 DEF Flow
  <1>5. QED
    BY <1>1, <1>2, <1>3, <1>4
       DEF Proceed, RefreshChecksSession, RefreshStores, RefreshExtends, RefreshUndoes,
           RefreshLists, LogoutDeletesSession, LogoutLeaves, Answer, At, Flow

\* The device of a login that reads the oldest devices has room: either it
\* stands behind them, or those that are left logged in before it and are done.
LEMMA RangesRoom ==
  ASSUME TypeOK, Shape, OneDevice, Current, Room, InOrder, NEW j \in Job, LoginRanges(j),
         NEW d \in Signed, job[j].device = d
  PROVE  /\ job'[j].pc = "old"
         /\ Cardinality(Older(deviceSession[d]) \ Range(job'[j].list)) <= MaxDevices
  <1>t. /\ userDevices \in Seq(Device) /\ IsInjective(userDevices)
        /\ DOMAIN userDevices = 1..Len(userDevices) /\ Len(userDevices) \in Nat
        /\ deviceSession \in [Device -> SessionId \cup {None}]
        /\ MaxDevices \in Nat
    BY SessionsAssumption DEF TypeOK
  <1> DEFINE n == job[j].n
             X == Older(deviceSession[d])
  <1>1. /\ job[j].pc = "range" /\ n > MaxDevices /\ n \in Nat
        /\ d \in Device /\ d \notin rough /\ deviceSession[d] # None
    <2>1. job[j].pc = "range"
      BY RangesMoves
    <2>2. n > MaxDevices /\ n \in Nat
      BY <2>1, JobTyped DEF Shape, Sound, JobState
    <2>3. QED
      BY <2>1, <2>2 DEF Signed
  <1>2. PICK p \in 1..Len(userDevices) : userDevices[p] = d
    BY <1>t, <1>1 DEF Current, Range
  <1>3. \A e \in Signed : \E i \in 1..Len(userDevices) : userDevices[i] = e
    BY <1>t DEF Current, Range, Signed
  <1>4. PICK m \in 1..Len(userDevices) :
           /\ m = Min({TooMany(n), Len(userDevices)})
           /\ m = n - MaxDevices \/ (m = Len(userDevices) /\ m <= n - MaxDevices)
    <2>1. n - MaxDevices \in Nat \ {0} /\ Len(userDevices) \in Nat \ {0}
      BY <1>t, <1>1, <1>2
    <2> HIDE DEF n
    <2>2. PICK m : m = Min({n - MaxDevices, Len(userDevices)})
      OBVIOUS
    <2>3. /\ m \in {n - MaxDevices, Len(userDevices)}
          /\ m <= n - MaxDevices /\ m <= Len(userDevices)
      BY <2>1, <2>2 DEF Min
    <2>4. QED
      BY <2>1, <2>2, <2>3 DEF TooMany
  <1>5. PICK list : list = SubSeq(userDevices, 1, m)
    OBVIOUS
  <1>6. /\ list \in Seq(Device) /\ Len(list) = m /\ DOMAIN list = 1..m
        /\ \A i \in 1..m : list[i] = userDevices[i]
    <2>1. m \in Int /\ 1 <= m /\ m <= Len(userDevices)
      BY <1>t, <1>4
    <2>2. QED
      BY <1>t, <1>5, <2>1
  <1>7. list # <<>> /\ Range(list) = {userDevices[i] : i \in 1..m}
    <2>1. Len(list) # 0
      BY <1>4, <1>6
    <2>2. QED
      BY <1>6, <2>1 DEF Range
  <1>8. job'[j].list = list /\ job'[j].pc = "old"
    BY <1>4, <1>5, <1>7, RangesMoves DEF Becomes
  <1>9. /\ IsFiniteSet(X \cup Before(d))
        /\ Cardinality(X \cup Before(d)) \in Nat
    BY OlderFinite, FS_CardinalityType
  <1>10. CASE m < p
    <2>1. m = n - MaxDevices
      BY <1>2, <1>4, <1>10, <1>t
    <2>2. Range(list) \subseteq Before(d)
      <3>1. \A i \in 1..m : userDevices[i] \in Device /\ Ahead(userDevices, userDevices[i], d)
        BY <1>t, <1>2, <1>4, <1>10 DEF Ahead
      <3>2. QED
        BY <1>7, <3>1 DEF Before
    <2>3. Cardinality(X \cup Before(d)) <= n
      BY <1>1 DEF Room, HasRoom
    <2>4. IsFiniteSet(Range(list)) /\ Cardinality(Range(list)) = m
      <3>1. m \in 0..Len(userDevices)
        BY <1>4
      <3>2. QED
        <4>1. PICK F : F = {userDevices[i] : i \in 1..m}
          OBVIOUS
        <4>2. IsFiniteSet(F) /\ Cardinality(F) = m
          BY ZenonT(60), <1>t, <3>1, <4>1, FirstAre
        <4>3. QED
          BY <1>7, <4>1, <4>2
    <2>5. /\ Cardinality((X \cup Before(d)) \ Range(list)) =
                Cardinality(X \cup Before(d)) - Cardinality((X \cup Before(d)) \cap Range(list))
          /\ IsFiniteSet((X \cup Before(d)) \ Range(list))
      BY <1>9, FS_Difference
    <2>6. (X \cup Before(d)) \cap Range(list) = Range(list)
      BY <2>2
    <2>7. Cardinality((X \cup Before(d)) \ Range(list)) <= MaxDevices
      <3>1. Cardinality((X \cup Before(d)) \ Range(list)) = Cardinality(X \cup Before(d)) - m
        BY <2>4, <2>5, <2>6
      <3>2. n \in Nat /\ m \in Nat
        BY <1>1, <1>4
      <3> HIDE DEF X, n
      <3>3. QED
        BY <1>9, <1>t, <2>1, <2>3, <3>1, <3>2
    <2>8. X \ Range(list) \subseteq (X \cup Before(d)) \ Range(list)
      OBVIOUS
    <2>9. Cardinality(X \ Range(list)) <= MaxDevices
      <3> HIDE DEF X
      <3>1. MaxDevices \in Int
        BY <1>t
      <3>2. QED
        BY <2>5, <2>7, <2>8, <3>1, Smaller
    <2>10. QED
      BY <1>8, <2>9
  <1>11. CASE p <= m
    <2> DEFINE Y == X \ Range(list)
    <2>1. CASE Y = {}
      <3>1. Cardinality(Y) = 0
        BY <2>1, FS_EmptySet
      <3>2. QED
        BY <1>8, <1>t, <3>1
    <2>2. CASE Y # {}
      <3>1. Y \subseteq Signed
        BY DEF Older
      <3>2. PICK e \in Y : \A x \in Y : deviceSession[x] <= deviceSession[e]
        <4>1. PICK Z : Z = {deviceSession[x] : x \in Y}
          OBVIOUS
        <4>2. \A x \in Y : deviceSession[x] \in SessionId
          BY <1>t, <3>1 DEF Signed
        <4>3. Z \in SUBSET Nat /\ (\A x \in Z : x <= Sessions) /\ Z # {} /\ Sessions \in Nat
          BY <2>2, <4>1, <4>2, SessionsAssumption DEF SessionId
        <4>4. PICK s \in Z : \A x \in Z : x <= s
          BY <4>3, LastSession
        <4>5. QED
          BY <4>1, <4>4
      <3>3. e \in Signed /\ e \in X /\ e \notin Range(list)
        BY <3>1, <3>2
      <3>4. PICK i \in 1..Len(userDevices) : userDevices[i] = e
        BY <1>3, <3>3
      <3>5. i > m
        <4>1. \A k \in 1..m : userDevices[k] \in Range(list)
          BY <1>7
        <4>2. i \notin 1..m
          BY <3>3, <3>4, <4>1
        <4>3. QED
          BY <1>t, <1>4, <4>2
      <3>6. Ahead(userDevices, d, e)
        BY <1>2, <1>4, <1>11, <1>t, <3>4, <3>5 DEF Ahead
      <3>7. e # d
        <4>1. \A k \in 1..m : userDevices[k] \in Range(list)
          BY <1>7
        <4>2. p \in 1..m
          BY <1>t, <1>11
        <4>3. QED
          BY <1>2, <3>3, <4>1, <4>2
      <3>8. deviceSession[e] < deviceSession[d]
        <4>1. deviceSession[e] <= deviceSession[d]
          BY <3>3 DEF Older
        <4>2. deviceSession[e] \in SessionId /\ deviceSession[d] \in SessionId
          BY <1>t, <1>1, <3>3 DEF Signed
        <4>3. deviceSession[e] # deviceSession[d]
          BY <1>1, <3>3, <3>7, <4>2 DEF OneDevice, Holds, Signed
        <4>4. QED
          BY <4>1, <4>2, <4>3 DEF SessionId
      <3>9. InFlow(d)
        BY <1>1 DEF InFlow, Flow
      <3>10. ~InFlow(e)
        BY <3>3, <3>6, <3>8, <3>9 DEF InOrder
      <3>11. Cardinality(Older(deviceSession[e])) <= MaxDevices
        BY <3>3, <3>10 DEF Room
      <3>12. Y \subseteq Older(deviceSession[e])
        BY <3>1, <3>2 DEF Older
      <3>13. Cardinality(Y) <= MaxDevices
        <4> HIDE DEF Y
        <4>1. IsFiniteSet(Older(deviceSession[e])) /\ MaxDevices \in Int
          BY <1>t, OlderFinite
        <4>2. QED
          BY <3>11, <3>12, <4>1, Smaller
      <3>14. QED
        BY <1>8, <3>13
    <2>3. QED
      BY <2>1, <2>2
  <1>12. QED
    BY <1>2, <1>4, <1>10, <1>11

\* A login that counts.
LEMMA CountsRoom ==
  ASSUME TypeOK, Shape, Current, NEW j \in Job, LoginCounts(j),
         NEW d \in Signed, job[j].device = d
  PROVE  /\ job'[j].n = Len(userDevices)
         /\ \/ /\ job'[j].pc = "range"
               /\ Cardinality(Older(deviceSession[d]) \cup Before(d)) <= Len(userDevices)
            \/ job'[j].pc = "answer" /\ Cardinality(Older(deviceSession[d])) <= MaxDevices
  <1>t. /\ userDevices \in Seq(Device) /\ IsInjective(userDevices)
        /\ DOMAIN userDevices = 1..Len(userDevices) /\ Len(userDevices) \in Nat
        /\ MaxDevices \in Nat
    BY SessionsAssumption DEF TypeOK
  <1>1. /\ job'[j].n = Len(userDevices)
        /\ job'[j].pc = IF Len(userDevices) > MaxDevices THEN "range" ELSE "answer"
    BY CountsMoves DEF Becomes
  <1>2. PICK F : F = {userDevices[i] : i \in 1..Len(userDevices)}
    OBVIOUS
  <1>3. IsFiniteSet(F) /\ Cardinality(F) = Len(userDevices)
    <2>1. Len(userDevices) \in 0..Len(userDevices)
      BY <1>t
    <2>2. QED
      BY <1>2, <1>t, <2>1, FirstAre
  <1>4. Older(deviceSession[d]) \cup Before(d) \subseteq F
    <2>1. Older(deviceSession[d]) \subseteq F
      BY <1>t, <1>2 DEF Older, Signed, Current, Range
    <2>2. Before(d) \subseteq F
      BY <1>t, <1>2 DEF Before, Ahead
    <2>3. QED
      BY <2>1, <2>2
  <1>5. Cardinality(Older(deviceSession[d]) \cup Before(d)) <= Len(userDevices)
    <2>1. Len(userDevices) \in Int /\ Cardinality(F) <= Len(userDevices)
      BY <1>3, <1>t
    <2>2. QED
      BY <1>3, <1>4, <2>1, Smaller
  <1>6. Cardinality(Older(deviceSession[d])) <= Len(userDevices)
    <2>1. Len(userDevices) \in Int /\ Cardinality(F) <= Len(userDevices)
          /\ Older(deviceSession[d]) \subseteq F
      BY <1>3, <1>4, <1>t
    <2>2. QED
      BY <1>3, <2>1, Smaller
  <1>7. CASE Len(userDevices) > MaxDevices
    BY <1>1, <1>5, <1>7
  <1>8. CASE ~(Len(userDevices) > MaxDevices)
    <2>1. Cardinality(Older(deviceSession[d])) \in Nat
      BY OlderFinite
    <2>2. QED
      BY <1>1, <1>6, <1>8, <1>t, <2>1
  <1>9. QED
    BY <1>7, <1>8

\* One device less.
LEMMA EvictsRoom ==
  ASSUME TypeOK, Shape, Current, OneDevice, Room, NEW j \in Job, LoginEvicts(j),
         NEW d \in Signed, job[j].device = d, NEW s \in SessionId, s = deviceSession[d]
  PROVE  /\ job'[j].pc \in {"old", "answer"}
         /\ job'[j].pc = "old" =>
               Cardinality(Older(s)' \ Range(job'[j].list)) <= MaxDevices
         /\ job'[j].pc = "answer" => Cardinality(Older(s)') <= MaxDevices
  <1>1. /\ job[j].pc = "evict"
        /\ Becomes(j, IF Tail(job[j].list) = <<>> THEN "answer" ELSE "old", job[j].token, job[j].n,
                   Tail(job[j].list), None,
                   IF Tail(job[j].list) = <<>> THEN {} ELSE job[j].sent \cup {<<Head(job[j].list), job[j].old>>})
        /\ deviceSession' = [e \in Device |-> IF e \in Evicted(j) THEN None ELSE deviceSession[e]]
        /\ rough' = rough
    BY EvictsMoves
  <1>2. PICK list \in Seq(Device) : list = job[j].list
    BY JobTyped DEF JobState, Lists
  <1>3. list # <<>>
    BY <1>1, <1>2 DEF Shape, Sound
  <1>4. /\ Range(list) = {Head(list)} \cup Range(Tail(list))
        /\ Head(list) \in Device
    <2>1. /\ DOMAIN list = 1..Len(list) /\ Len(list) \in Nat \ {0}
          /\ DOMAIN Tail(list) = 1..(Len(list) - 1)
          /\ \A i \in 1..(Len(list) - 1) : Tail(list)[i] = list[i + 1]
          /\ Head(list) = list[1] /\ Head(list) \in Device
      BY <1>3
    <2>2. \A i \in 2..Len(list) : list[i] = Tail(list)[i - 1] /\ i - 1 \in 1..(Len(list) - 1)
      BY <2>1
    <2>3. \A x : x \in Range(list) <=> \E i \in 1..Len(list) : list[i] = x
      BY <2>1 DEF Range
    <2>4. \A x : x \in Range(Tail(list)) <=> \E i \in 1..(Len(list) - 1) : Tail(list)[i] = x
      BY <2>1 DEF Range
    <2>5. ASSUME NEW x PROVE x \in Range(list) <=> x = Head(list) \/ x \in Range(Tail(list))
      <3>1. ASSUME x \in Range(list) PROVE x = Head(list) \/ x \in Range(Tail(list))
        <4>1. PICK i \in 1..Len(list) : list[i] = x
          BY <2>3, <3>1
        <4>2. i = 1 \/ i \in 2..Len(list)
          BY <2>1
        <4>3. QED
          BY <2>1, <2>2, <2>4, <4>1, <4>2
      <3>2. ASSUME x \in Range(Tail(list)) PROVE x \in Range(list)
        <4>1. PICK i \in 1..(Len(list) - 1) : Tail(list)[i] = x
          BY <2>4, <3>2
        <4>2. i + 1 \in 1..Len(list) /\ list[i + 1] = x
          BY <2>1, <4>1
        <4>3. QED
          BY <2>3, <4>2
      <3>3. ASSUME x = Head(list) PROVE x \in Range(list)
        BY <2>1, <2>3, <3>3
      <3>4. QED
        BY <3>1, <3>2, <3>3
    <2>6. QED
      BY <2>1, <2>5
  <1>5. Head(list) \in Evicted(j)
    <2>1. <<Head(list), job[j].old>> \in Out(j)
      BY <1>2 DEF Out
    <2>2. QED
      BY <2>1 DEF Evicted
  <1>6. Head(list) \notin Signed'
    BY <1>1, <1>4, <1>5 DEF Signed
  <1>7. Older(s)' \subseteq Older(s) \ {Head(list)}
    <2>1. \A e \in Signed' : e \in Signed /\ deviceSession'[e] = deviceSession[e]
      BY <1>1 DEF Signed
    <2>2. QED
      BY <1>6, <2>1 DEF Older
  <1>8. Cardinality(Older(s) \ Range(list)) <= MaxDevices
    BY <1>1, <1>2 DEF Room, HasRoom
  <1>9. IsFiniteSet(Older(s) \ Range(list)) /\ MaxDevices \in Int
    <2>1. IsFiniteSet(Older(s)) /\ MaxDevices \in Int
      BY OlderFinite, SessionsAssumption
    <2>2. QED
      BY <2>1, FS_Difference
  <1>10. CASE Tail(list) = <<>>
    <2>1. Range(Tail(list)) = {}
      BY <1>10 DEF Range
    <2>2. Older(s)' \subseteq Older(s) \ Range(list)
      BY <1>4, <1>7, <2>1
    <2>3. Cardinality(Older(s)') <= MaxDevices
      BY <1>8, <1>9, <2>2, Smaller
    <2>4. job'[j].pc = "answer"
      BY <1>1, <1>2, <1>10 DEF Becomes
    <2>5. QED
      BY <2>3, <2>4
  <1>11. CASE Tail(list) # <<>>
    <2>1. Older(s)' \ Range(Tail(list)) \subseteq Older(s) \ Range(list)
      BY <1>4, <1>7
    <2>2. Cardinality(Older(s)' \ Range(Tail(list))) <= MaxDevices
      BY <1>8, <1>9, <2>1, Smaller
    <2>3. job'[j].pc = "old" /\ job'[j].list = Tail(list)
      BY <1>1, <1>2, <1>11 DEF Becomes
    <2>4. QED
      BY <2>2, <2>3
  <1>12. QED
    BY <1>10, <1>11

\* A login leaves room for its device, and no later step takes it.
LEMMA NextRoom ==
  TypeOK /\ TypeOK' /\ Shape /\ OneDevice /\ OneRequest /\ Current /\ Room /\ InOrder /\ [Next]_vars
    => Room'
  <1> SUFFICES ASSUME TypeOK, TypeOK', Shape, OneDevice, OneRequest, Current, Room, InOrder,
                      [Next]_vars
               PROVE  Room'
    OBVIOUS
  <1>t. /\ deviceSession \in [Device -> SessionId \cup {None}]
        /\ deviceSession' \in [Device -> SessionId \cup {None}]
        /\ userDevices \in Seq(Device)
        /\ MaxDevices \in Int /\ issued \in Nat
        /\ \A s \in SessionId : s \in Nat
    BY SessionsAssumption DEF TypeOK, SessionId
  <1> DEFINE Good(e) == /\ InFlow(e)' \/ Cardinality(Older(deviceSession[e])') <= MaxDevices
                        /\ \A i \in Job : job'[i].device = e => HasRoom(i, e)'
  <1>q. SUFFICES ASSUME NEW e \in Signed' PROVE Good(e)
    BY DEF Room
  <1>e. e \in Device \ rough' /\ deviceSession'[e] \in SessionId /\ deviceSession'[e] # None
    BY <1>q, <1>t DEF Signed
  \* What does not grow.
  <1>o. ASSUME e \in Signed, deviceSession'[e] = deviceSession[e]
        PROVE  /\ Older(deviceSession[e])' \subseteq Older(deviceSession[e])
               /\ e \notin rough /\ deviceSession[e] \in SessionId
    <2>1. PICK s \in SessionId : s = deviceSession[e]
      BY <1>e, <1>o
    <2>2. s <= issued
      BY <1>e, <2>1 DEF OneDevice, Holds
    <2>3. Older(s)' \subseteq Older(s)
      BY <2>2, NextOlder
    <2>4. Older(deviceSession[e])' = Older(s)'
      BY <1>o, <2>1 DEF Older
    <2>5. QED
      BY <1>e, <1>o, <2>1, <2>3, <2>4 DEF Signed
  \* Another request moves.
  <1>a. ASSUME e \in Signed, deviceSession'[e] = deviceSession[e], Before(e)' \subseteq Before(e),
               \A i \in Job : job'[i].device = e \/ job[i].device = e => Same(i)
        PROVE  Good(e)
    <2>1. PICK s \in SessionId : s = deviceSession[e]
      BY <1>e, <1>a
    <2>2. /\ Older(deviceSession[e])' \subseteq Older(s)
          /\ IsFiniteSet(Older(s)) /\ IsFiniteSet(Older(s) \cup Before(e))
      BY <1>a, <1>o, <2>1, OlderFinite
    <2>3. PICK O, B : O = Older(deviceSession[e])' /\ B = Before(e)'
      OBVIOUS
    <2>4. O \subseteq Older(s) /\ B \subseteq Before(e)
      BY <1>a, <2>2, <2>3
    <2>5. Cardinality(Older(s)) <= MaxDevices => Cardinality(O) <= MaxDevices
      BY <1>t, <2>2, <2>4, Smaller
    <2>6. InFlow(e) => InFlow(e)'
      BY <1>a DEF InFlow, Same
    <2>7. InFlow(e)' \/ Cardinality(O) <= MaxDevices
      BY <1>a, <2>1, <2>5, <2>6 DEF Room
    <2>8. ASSUME NEW i \in Job, job'[i].device = e PROVE HasRoom(i, e)'
      <3>1. Same(i) /\ job[i].device = e /\ HasRoom(i, e)
        BY <1>a, <2>8 DEF Room, Same
      <3>2. ASSUME job'[i].pc = "range" PROVE Cardinality(O \cup B) <= job'[i].n
        <4>1. Cardinality(Older(s) \cup Before(e)) <= job[i].n
          BY <2>1, <3>1, <3>2 DEF HasRoom, Same
        <4>2. job[i].n \in Int /\ job'[i].n = job[i].n
          BY <3>1, JobTyped DEF JobState, Same
        <4>3. O \cup B \subseteq Older(s) \cup Before(e)
          BY <2>4
        <4>4. QED
          BY <2>2, <4>1, <4>2, <4>3, Smaller
      <3>3. ASSUME job'[i].pc \in {"old", "evict"}
            PROVE  Cardinality(O \ Range(job'[i].list)) <= MaxDevices
        <4>1. Cardinality(Older(s) \ Range(job[i].list)) <= MaxDevices
          BY <2>1, <3>1, <3>3 DEF HasRoom, Same
        <4>2. O \ Range(job'[i].list) \subseteq Older(s) \ Range(job[i].list)
          BY <2>4, <3>1 DEF Same
        <4>3. IsFiniteSet(Older(s) \ Range(job[i].list))
          BY <2>2, FS_Difference
        <4>4. QED
          BY <1>t, <4>1, <4>2, <4>3, Smaller
      <3>4. QED
        BY <2>3, <3>2, <3>3 DEF HasRoom
    <2>9. QED
      BY <2>3, <2>7, <2>8
  \* No login of the device is under way, before and after.
  <1>b. ASSUME e \in Signed, deviceSession'[e] = deviceSession[e], ~InFlow(e),
               \A i \in Job : job'[i].device = e => job'[i].pc \notin Flow
        PROVE  Good(e)
    <2>1. PICK O : O = Older(deviceSession[e])'
      OBVIOUS
    <2>2. O \subseteq Older(deviceSession[e]) /\ IsFiniteSet(Older(deviceSession[e]))
      BY <1>b, <1>o, <2>1, OlderFinite
    <2>3. Cardinality(Older(deviceSession[e])) <= MaxDevices
      BY <1>b DEF Room
    <2>4. Cardinality(O) <= MaxDevices
      BY <1>t, <2>2, <2>3, Smaller
    <2>5. \A i \in Job : job'[i].device = e => HasRoom(i, e)'
      BY <1>b DEF HasRoom, Flow
    <2>6. QED
      BY <2>1, <2>4, <2>5
  <1>1. ASSUME NEW j \in Job, NEW d \in Device, Login(j, d) PROVE Good(e)
    <2>1. /\ Begins(j, "count", d, <<issued + 1, clock>>)
          /\ deviceSession' = [deviceSession EXCEPT ![d] = issued + 1]
          /\ userDevices' = Newest(d)
          /\ d \in rough' => rough' = rough \cup {d}
          /\ d \notin rough' => rough' = rough \ {d} /\ \A i \in Job : job[i].device # d
      BY <1>1, LoginBegins
    <2>2. /\ job'[j].device = d /\ job'[j].pc = "count" /\ job[j].device = None
          /\ \A i \in Job \ {j} : Same(i)
      BY <2>1 DEF Begins
    <2>3. CASE e = d
      <3>1. \A i \in Job : job'[i].device = d => i = j
        BY <1>e, <2>1, <2>2, <2>3 DEF Same
      <3>2. InFlow(d)'
        BY <2>2 DEF InFlow, Flow
      <3>3. HasRoom(j, d)'
        BY <2>2 DEF HasRoom
      <3>4. QED
        BY <2>3, <3>1, <3>2, <3>3
    <2>4. CASE e # d
      <3>1. e \in Signed /\ deviceSession'[e] = deviceSession[e]
        BY <1>e, <1>t, <2>1, <2>4 DEF Signed
      <3>2. Before(e)' \subseteq Before(e)
        BY <1>t, <2>1, <2>4, NewestOf DEF Before
      <3>3. \A i \in Job : job'[i].device = e \/ job[i].device = e => Same(i)
        BY <1>e, <2>2, <2>4, IdleIs
      <3> HIDE DEF Good
      <3>4. QED
        BY <1>a, <3>1, <3>2, <3>3
    <2>5. QED
      BY <2>3, <2>4
  <1>2. ASSUME NEW j \in Job, NEW d \in Device, NEW pc \in {"session", "asked"}, NEW t,
               Begins(j, pc, d, t), rough \subseteq rough',
               d \notin rough' => \A i \in Job : job[i].device # d,
               UNCHANGED <<deviceSession, userDevices>>
        PROVE  Good(e)
    <2>1. e \in Signed /\ deviceSession'[e] = deviceSession[e] /\ Before(e)' \subseteq Before(e)
      BY <1>2, <1>e DEF Signed, Before
    <2>2. /\ job'[j].device = d /\ job'[j].pc = pc /\ job[j].device = None
          /\ \A i \in Job \ {j} : Same(i)
      BY <1>2 DEF Begins
    <2>3. CASE e = d
      <3>1. ~InFlow(e)
        BY <1>2, <1>e, <2>3 DEF InFlow
      <3>2. \A i \in Job : job'[i].device = e => job'[i].pc \notin Flow
        BY <1>2, <1>e, <2>2, <2>3 DEF Same, Flow
      <3> HIDE DEF Good
      <3>3. QED
        BY <1>b, <2>1, <3>1, <3>2
    <2>4. CASE e # d
      <3>1. \A i \in Job : job'[i].device = e \/ job[i].device = e => Same(i)
        BY <1>e, <2>2, <2>4, IdleIs
      <3> HIDE DEF Good
      <3>2. QED
        BY <1>a, <2>1, <3>1
    <2>5. QED
      BY <2>3, <2>4
  <1>3. ASSUME NEW j \in Job, NEW d \in Device, Refresh(j, d) \/ Logout(j, d) PROVE Good(e)
    <2> HIDE DEF Good
    <2>1. CASE Refresh(j, d)
      BY <1>2, <2>1, RefreshBegins
    <2>2. CASE Logout(j, d)
      BY <1>2, <2>2, LogoutBegins
    <2>3. QED
      BY <1>3, <2>1, <2>2
  <1>4. ASSUME NEW j \in Job, Proceed(j) PROVE Good(e)
    <2>1. /\ e \in Signed /\ deviceSession'[e] = deviceSession[e] /\ job[j].device \in Device
          /\ \A i \in Job \ {j} : Same(i)
          /\ e \notin rough /\ deviceSession[e] \in SessionId
      BY <1>4, <1>e, ProceedSessions, ProceedOthers, ProceedTables DEF Signed
    <2>2. CASE e # job[j].device
      <3>1. Before(e)' \subseteq Before(e)
        BY <1>4, <2>2, ProceedAhead DEF Before
      <3>2. job'[j].device # e
        BY <1>4, <1>e, <2>2, ProceedKeeps, IdleIs DEF KeepsPlace
      <3>3. \A i \in Job : job'[i].device = e \/ job[i].device = e => Same(i)
        BY <2>1, <2>2, <3>2
      <3> HIDE DEF Good
      <3>4. QED
        BY <1>a, <2>1, <3>1, <3>3
    <2>3. CASE e = job[j].device
      <3>0. /\ \A i \in Job : job[i].device = e => i = j
            /\ \A i \in Job : job'[i].device = e => i = j
        BY <2>1, <2>3 DEF OneRequest, Same
      <3>1. CASE job[j].pc \notin Flow
        <4>1. ~InFlow(e)
          BY <3>0, <3>1 DEF InFlow
        <4>2. job'[j].pc \notin Flow
          BY <1>4, <3>1, ProceedFlow
        <4> HIDE DEF Good
        <4>3. QED
          BY <1>b, <2>1, <3>0, <4>1, <4>2
      <3>2. CASE LoginCounts(j)
        <4>1. /\ userDevices' = userDevices /\ deviceSession' = deviceSession /\ rough' = rough
              /\ job'[j].device = e
          BY <3>2, <2>3, CountsMoves DEF Still, Becomes
        <4>2. PICK s \in SessionId : s = deviceSession[e]
          BY <2>1
        <4>3. Older(deviceSession[e])' = Older(s) /\ Before(e)' = Before(e)
          BY <4>1, <4>2 DEF Older, Signed, Before
        <4>4. /\ job'[j].n = Len(userDevices)
              /\ \/ /\ job'[j].pc = "range"
                    /\ Cardinality(Older(s) \cup Before(e)) <= Len(userDevices)
                 \/ job'[j].pc = "answer" /\ Cardinality(Older(s)) <= MaxDevices
          BY <2>1, <2>3, <3>2, <4>2, CountsRoom
        <4>5. HasRoom(j, e)'
          BY <4>3, <4>4 DEF HasRoom
        <4>6. InFlow(e)' \/ Cardinality(Older(deviceSession[e])') <= MaxDevices
          <5>1. CASE job'[j].pc = "range"
            BY <4>1, <5>1 DEF InFlow, Flow
          <5>2. CASE job'[j].pc # "range"
            BY <4>3, <4>4, <5>2
          <5>3. QED
            BY <5>1, <5>2
        <4>7. QED
          BY <3>0, <4>5, <4>6
      <3>3. CASE LoginRanges(j)
        <4>1. /\ userDevices' = userDevices /\ deviceSession' = deviceSession /\ rough' = rough
              /\ job'[j].device = e
          BY <3>3, <2>3, RangesMoves DEF Still, Becomes
        <4>2. PICK s \in SessionId : s = deviceSession[e]
          BY <2>1
        <4>3. Older(deviceSession[e])' = Older(s)
          BY <4>1, <4>2 DEF Older, Signed
        <4>4. job'[j].pc = "old" /\ Cardinality(Older(s) \ Range(job'[j].list)) <= MaxDevices
          BY <2>1, <2>3, <3>3, <4>2, RangesRoom
        <4>5. HasRoom(j, e)'
          BY <4>3, <4>4 DEF HasRoom
        <4>6. InFlow(e)'
          BY <4>1, <4>4 DEF InFlow, Flow
        <4>7. QED
          BY <3>0, <4>5, <4>6
      <3>4. CASE LoginReadsOld(j)
        <4>1. /\ userDevices' = userDevices /\ deviceSession' = deviceSession /\ rough' = rough
              /\ job'[j].device = e /\ job[j].pc = "old" /\ job'[j].pc = "evict"
              /\ job'[j].list = job[j].list
          BY <3>4, <2>3, ReadsOldMoves DEF Still, Becomes
        <4>2. PICK s \in SessionId : s = deviceSession[e]
          BY <2>1
        <4>3. Older(deviceSession[e])' = Older(s)
          BY <4>1, <4>2 DEF Older, Signed
        <4>4. Cardinality(Older(s) \ Range(job[j].list)) <= MaxDevices
          BY <2>1, <2>3, <4>1, <4>2 DEF Room, HasRoom
        <4>5. HasRoom(j, e)'
          BY <4>1, <4>3, <4>4 DEF HasRoom
        <4>6. InFlow(e)'
          BY <4>1 DEF InFlow, Flow
        <4>7. QED
          BY <3>0, <4>5, <4>6
      <3>5. CASE LoginEvicts(j)
        <4>1. job'[j].device = e
          BY <3>5, <2>3, EvictsMoves DEF Becomes
        <4>2. PICK s \in SessionId : s = deviceSession[e]
          BY <2>1
        <4>3. Older(deviceSession[e])' = Older(s)'
          BY <2>1, <4>2 DEF Older
        <4>4. /\ job'[j].pc \in {"old", "answer"}
              /\ job'[j].pc = "old" => Cardinality(Older(s)' \ Range(job'[j].list)) <= MaxDevices
              /\ job'[j].pc = "answer" => Cardinality(Older(s)') <= MaxDevices
          BY <2>1, <2>3, <3>5, <4>2, EvictsRoom
        <4>5. HasRoom(j, e)'
          BY <4>3, <4>4 DEF HasRoom
        <4>6. InFlow(e)' \/ Cardinality(Older(deviceSession[e])') <= MaxDevices
          <5>1. CASE job'[j].pc = "old"
            BY <4>1, <5>1 DEF InFlow, Flow
          <5>2. CASE job'[j].pc # "old"
            BY <4>3, <4>4, <5>2
          <5>3. QED
            BY <5>1, <5>2
        <4>7. QED
          BY <3>0, <4>5, <4>6
      <3> HIDE DEF Good
      <3>6. QED
        BY <1>4, <3>1, <3>2, <3>3, <3>4, <3>5, ProceedFlow
    <2> HIDE DEF Good
    <2>4. QED
      BY <2>2, <2>3
  <1>5. CASE Crash
    <2>1. /\ \A i \in Job : /\ job'[i].device = None
                            /\ job[i].device \in Device => job[i].device \in rough'
          /\ rough \subseteq rough' /\ deviceSession' = deviceSession
      BY <1>5, CrashKeeps
    <2>2. e \in Signed /\ deviceSession'[e] = deviceSession[e]
      BY <1>e, <2>1 DEF Signed
    <2>3. ~InFlow(e)
      BY <1>e, <2>1 DEF InFlow
    <2>4. \A i \in Job : job'[i].device # e
      BY <1>e, <2>1, IdleIs
    <2> HIDE DEF Good
    <2>5. QED
      BY <1>b, <2>2, <2>3, <2>4
  <1>6. ASSUME NEW d \in Device, Lapse(d) PROVE Good(e)
    <2>1. /\ \A i \in Device \ {d} : deviceSession'[i] = deviceSession[i]
          /\ deviceSession'[d] = None /\ \A j \in Job : job[j] = Idle
          /\ job' = job /\ rough' = rough
      BY <1>6, LapseClears
    <2>2. e \in Signed /\ deviceSession'[e] = deviceSession[e]
      BY <1>e, <2>1 DEF Signed
    <2>3. \A i \in Job : job[i].device # e /\ job'[i].device # e
      BY <1>e, <2>1, IdleIs
    <2>4. ~InFlow(e)
      BY <2>3 DEF InFlow
    <2> HIDE DEF Good
    <2>5. QED
      BY <1>b, <2>2, <2>3, <2>4
  <1>7. CASE UNCHANGED <<deviceSession, userDevices, job, rough>>
    <2>1. e \in Signed /\ deviceSession'[e] = deviceSession[e] /\ Before(e)' = Before(e)
      BY <1>e, <1>7 DEF Signed, Before
    <2>2. \A i \in Job : Same(i)
      BY <1>7 DEF Same
    <2> HIDE DEF Good
    <2>3. QED
      BY <1>a, <2>1, <2>2
  <1>8. QED
    <2> HIDE DEF Good
    <2>1. QED
      BY <1>1, <1>3, <1>4, <1>5, <1>6, <1>7 DEF Next, Tick, redis, vars

\* Logins enter the list in the order of their sessions.
LEMMA NextInOrder ==
  TypeOK /\ TypeOK' /\ Shape /\ OneDevice /\ OneRequest /\ Current /\ InOrder /\ [Next]_vars
    => InOrder'
  <1> SUFFICES ASSUME TypeOK, TypeOK', Shape, OneDevice, OneRequest, Current, InOrder, [Next]_vars,
                      NEW d \in Signed', NEW e \in Signed', InFlow(d)', InFlow(e)',
                      deviceSession'[e] < deviceSession'[d], Ahead(userDevices', d, e)
               PROVE  FALSE
    BY DEF InOrder
  <1>t. /\ deviceSession \in [Device -> SessionId \cup {None}]
        /\ deviceSession' \in [Device -> SessionId \cup {None}]
        /\ userDevices \in Seq(Device) /\ IsInjective(userDevices)
        /\ issued \in Nat
        /\ \A s \in SessionId : s \in Nat
    BY SessionsAssumption DEF TypeOK, SessionId
  <1>s. /\ d \in Device \ rough' /\ deviceSession'[d] \in SessionId
        /\ e \in Device \ rough' /\ deviceSession'[e] \in SessionId
        /\ deviceSession'[d] # None /\ deviceSession'[e] # None
    BY <1>t DEF Signed
  <1>k. ASSUME deviceSession'[d] = deviceSession[d], deviceSession'[e] = deviceSession[e],
               d \in Signed, e \in Signed, InFlow(d), InFlow(e), Ahead(userDevices, d, e)
        PROVE  FALSE
    BY <1>k DEF InOrder
  <1>1. ASSUME NEW j \in Job, NEW c \in Device, Login(j, c) PROVE FALSE
    <2>1. /\ Begins(j, "count", c, <<issued + 1, clock>>)
          /\ deviceSession' = [deviceSession EXCEPT ![c] = issued + 1]
          /\ userDevices' = Newest(c)
          /\ c \in rough' => rough' = rough \cup {c}
          /\ c \notin rough' => rough' = rough \ {c} /\ \A i \in Job : job[i].device # c
      BY <1>1, LoginBegins
    <2>2. ASSUME NEW x \in {d, e}, x # c
          PROVE  /\ deviceSession'[x] = deviceSession[x] /\ x \in Signed /\ InFlow(x)
                 /\ deviceSession[x] <= issued
      <3>1. deviceSession'[x] = deviceSession[x] /\ x \in Signed /\ deviceSession[x] \in SessionId
        BY <1>s, <1>t, <2>1, <2>2 DEF Signed
      <3>2. PICK i \in Job : job'[i].device = x /\ job'[i].pc \in Flow
        BY <2>2 DEF InFlow
      <3>3. i # j
        BY <2>1, <2>2, <3>2 DEF Begins
      <3>4. InFlow(x)
        BY <2>1, <3>2, <3>3 DEF Begins, Same, InFlow
      <3>5. deviceSession[x] <= issued
        BY <1>s, <2>2, <3>1 DEF OneDevice, Holds
      <3>6. QED
        BY <3>1, <3>4, <3>5
    <2>3. CASE e = c
      <3>1. d # c /\ deviceSession'[e] = issued + 1
        BY <1>t, <2>1, <2>3, <1>s
      <3>2. QED
        BY <1>t, <1>s, <2>2, <3>1
    <2>4. CASE e # c /\ d = c
      <3>1. PICK r : r = Newest(c)
        OBVIOUS
      <3>2. /\ r \in Seq(Device) /\ IsInjective(r) /\ r[Len(r)] = c
            /\ Len(r) \in Nat \ {0} /\ DOMAIN r = 1..Len(r)
        <4>1. /\ Newest(c) \in Seq(Device) /\ IsInjective(Newest(c))
              /\ Newest(c)[Len(Newest(c))] = c /\ Len(Newest(c)) \in Nat \ {0}
          BY <1>t, NewestOf
        <4>2. QED
          BY <3>1, <4>1
      <3>3. PICK i \in DOMAIN r, m \in DOMAIN r : i < m /\ r[i] = c /\ r[m] = e
        BY <2>1, <2>4, <3>1 DEF Ahead
      <3>4. i = Len(r)
        BY <3>2, <3>3 DEF IsInjective
      <3>5. QED
        BY <3>2, <3>3, <3>4
    <2>5. CASE e # c /\ d # c
      <3>1. Ahead(userDevices, d, e)
        BY <1>t, <2>1, <2>5, NewestOf
      <3>2. QED
        BY <1>k, <2>2, <2>5, <3>1
    <2>6. QED
      BY <2>3, <2>4, <2>5
  <1>2. ASSUME NEW j \in Job, NEW c \in Device, NEW pc \in {"session", "asked"}, NEW t,
               Begins(j, pc, c, t), rough \subseteq rough',
               UNCHANGED <<deviceSession, userDevices>>
        PROVE  FALSE
    <2>1. /\ job'[j].pc \notin Flow
          /\ \A i \in Job \ {j} : Same(i)
      BY <1>2 DEF Begins, Flow
    <2>2. InFlow(d) /\ InFlow(e)
      BY <2>1 DEF InFlow, Same
    <2>3. d \in Signed /\ e \in Signed
      BY <1>2, <1>s DEF Signed
    <2>4. QED
      BY <1>2, <1>k, <2>2, <2>3
  <1>3. ASSUME NEW j \in Job, NEW c \in Device, Refresh(j, c) \/ Logout(j, c) PROVE FALSE
    BY <1>2, <1>3, RefreshBegins, LogoutBegins
  <1>4. ASSUME NEW j \in Job, Proceed(j) PROVE FALSE
    <2>1. /\ deviceSession'[d] = deviceSession[d] /\ d \in Signed
          /\ deviceSession'[e] = deviceSession[e] /\ e \in Signed /\ e \notin rough
          /\ \A i \in Job \ {j} : Same(i)
      BY <1>4, <1>s, ProceedSessions, ProceedOthers DEF Signed
    <2>2. ASSUME NEW x \in {d, e} PROVE InFlow(x)
      <3>1. PICK i \in Job : job'[i].device = x /\ job'[i].pc \in Flow
        BY <2>2 DEF InFlow
      <3>2. CASE i # j
        BY <2>1, <3>1, <3>2 DEF Same, InFlow
      <3>3. CASE i = j
        <4>1. job[j].pc \in Flow
          BY <1>4, <3>1, <3>3, ProceedFlow
        <4>2. job[j].device = x
          BY <1>4, <1>s, <3>1, <3>3, ProceedKeeps, IdleIs DEF KeepsPlace
        <4>3. QED
          BY <4>1, <4>2 DEF InFlow
      <3>4. QED
        BY <3>2, <3>3
    <2>3. CASE Ahead(userDevices, d, e)
      BY <1>k, <2>1, <2>2, <2>3
    <2>4. CASE e = job[j].device /\ job[j].pc = "list"
      <3>1. PICK i \in Job : job'[i].device = e /\ job'[i].pc \in Flow
        BY DEF InFlow
      <3>2. i # j
        BY <1>4, <2>4, <3>1, ProceedFlow
      <3>3. job[i].device = e
        BY <2>1, <3>1, <3>2 DEF Same
      <3>4. QED
        BY <1>s, <2>1, <2>4, <3>2, <3>3 DEF OneRequest
    <2>5. QED
      BY <1>4, <2>3, <2>4, ProceedAhead
  <1>5. CASE Crash
    <2>1. \A i \in Job : job'[i].device = None
      BY <1>5, CrashKeeps
    <2>2. QED
      BY <1>s, <2>1, IdleIs DEF InFlow
  <1>6. ASSUME NEW c \in Device, Lapse(c) PROVE FALSE
    <2>1. \A i \in Job : job'[i].device = None
      BY <1>6, LapseClears, IdleIs
    <2>2. QED
      BY <1>s, <2>1, IdleIs DEF InFlow
  <1>7. CASE UNCHANGED <<deviceSession, userDevices, job, rough>>
    BY <1>7, <1>k DEF Signed, InFlow
  <1>8. QED
    BY <1>1, <1>3, <1>4, <1>5, <1>6, <1>7 DEF Next, Tick, redis, vars

\* With nobody under way, the newest device that is signed in counts them all.
LEMMA RoomLimits == TypeOK /\ Room => DeviceLimit
  <1> SUFFICES ASSUME TypeOK, Room, Quiet
               PROVE  Cardinality({d \in Device \ rough : Usable(d)}) <= MaxDevices
    BY DEF DeviceLimit
  <1>t. /\ deviceSession \in [Device -> SessionId \cup {None}]
        /\ MaxDevices \in Nat /\ Sessions \in Nat /\ \A s \in SessionId : s \in Nat /\ s <= Sessions
    BY SessionsAssumption DEF TypeOK, SessionId
  <1>1. PICK U : U = {d \in Device \ rough : Usable(d)}
    OBVIOUS
  <1>2. U \subseteq Signed
    BY <1>1 DEF Signed, Usable
  <1>3. CASE U = {}
    BY <1>1, <1>3, <1>t, FS_EmptySet
  <1>4. CASE U # {}
    <2>1. PICK Z : Z = {deviceSession[x] : x \in Signed}
      OBVIOUS
    <2>2. Z \in SUBSET Nat /\ (\A x \in Z : x <= Sessions) /\ Z # {}
      BY <1>2, <1>4, <1>t, <2>1 DEF Signed
    <2>3. PICK s \in Z : \A x \in Z : x <= s
      BY <1>t, <2>2, LastSession
    <2>4. PICK d \in Signed : deviceSession[d] = s
      BY <2>1, <2>3
    <2>5. U \subseteq Older(deviceSession[d])
      BY <1>2, <2>1, <2>3, <2>4 DEF Older
    <2>6. ~InFlow(d)
      BY IdleIs DEF InFlow, Quiet, Flow
    <2>7. Cardinality(Older(deviceSession[d])) <= MaxDevices
      BY <2>6 DEF Room
    <2>8. IsFiniteSet(Older(deviceSession[d])) /\ MaxDevices \in Int
      BY <1>t, OlderFinite
    <2>9. QED
      BY <1>1, <2>5, <2>7, <2>8, Smaller
  <1>5. QED
    BY <1>3, <1>4

-----------------------------------------------------------------------------
(* A login that is alone.                                                  *)

\* When only the first is gone, the others move up.
LEMMA RemainingTail ==
  ASSUME NEW S, NEW s \in Seq(S), Len(s) > 0, NEW gone, s[1] \in gone,
         \A i \in 2..Len(s) : s[i] \notin gone
  PROVE  LET r == Remaining(s, gone)
         IN  /\ r \in Seq(S) /\ Len(r) = Len(s) - 1
             /\ \A k \in 1..(Len(s) - 1) : r[k] = s[k + 1]
  <1>1. PICK kept : Keeps(s, gone, kept) /\ Remaining(s, gone) = kept[Len(s)]
    BY RemainingKeeps
  <1>2. kept[0] = <<>> /\ \A n \in 1..Len(s) : kept[n] = IF s[n] \in gone THEN kept[n - 1]
                                                     ELSE Append(kept[n - 1], s[n])
    <2> DEFINE Step(k, i) == IF i = 0 THEN <<>> ELSE IF s[i] \in gone THEN k[i - 1]
                             ELSE Append(k[i - 1], s[i])
    <2>1. kept = [i \in 0..Len(s) |-> Step(kept, i)]
      BY <1>1 DEF Keeps
    <2>2. \A i \in 0..Len(s) : kept[i] = Step(kept, i)
      <3> HIDE DEF Step
      <3>1. QED
        BY <2>1
    <2>3. Len(s) \in Nat
      OBVIOUS
    <2>4. QED
      BY <2>2, <2>3
  <1> DEFINE Of(n, r) == /\ r \in Seq(S) /\ Len(r) = n
                         /\ \A k \in 1..n : r[k] = s[k + 1]
             Good == {n \in Nat : n + 1 <= Len(s) => Of(n, kept[n + 1])}
  <1>3. 0 \in Good
    <2>1. Of(0, <<>>)
      OBVIOUS
    <2>2. kept[0 + 1] = <<>>
      BY <1>2
    <2> HIDE DEF Of
    <2>3. QED
      BY <2>1, <2>2
  <1>4. ASSUME NEW n \in Nat, n \in Good PROVE n + 1 \in Good
    <2>1. SUFFICES ASSUME (n + 1) + 1 <= Len(s) PROVE Of(n + 1, kept[(n + 1) + 1])
      OBVIOUS
    <2>2. PICK q : q = kept[n + 1]
      OBVIOUS
    <2>3. Of(n, q)
      <3> HIDE DEF Of
      <3>1. n + 1 <= Len(s)
        BY <2>1
      <3>2. QED
        BY <1>4, <2>2, <3>1
    <2>4. PICK m \in 2..Len(s) : m = (n + 1) + 1 /\ m - 1 = n + 1
      BY <2>1
    <2>5. kept[m] = Append(q, s[m]) /\ s[m] \in S
      <3>1. m \in 1..Len(s) /\ s[m] \notin gone /\ s[m] \in S
        BY <2>4
      <3>2. kept[m] = Append(kept[m - 1], s[m])
        BY <1>2, <3>1
      <3>3. QED
        BY <2>2, <2>4, <3>1, <3>2
    <2>6. Of(n + 1, Append(q, s[m]))
      BY <2>3, <2>4, <2>5
    <2> HIDE DEF Of
    <2>7. QED
      BY <2>4, <2>5, <2>6
  <1>5. Nat \subseteq Good
    <2> HIDE DEF Good
    <2>1. QED
      BY <1>3, <1>4, Counting
  <1>6. Len(s) - 1 \in Good /\ (Len(s) - 1) + 1 = Len(s)
    <2> HIDE DEF Good
    <2>1. Len(s) - 1 \in Nat
      OBVIOUS
    <2>2. QED
      BY <1>5, <2>1
  <1>7. Of(Len(s) - 1, kept[Len(s)])
    <2> HIDE DEF Of
    <2>1. Len(s) <= Len(s)
      OBVIOUS
    <2>2. QED
      BY <1>6, <2>1
  <1>8. QED
    BY <1>1, <1>7

\* A login that is alone, call by call.
LEMMA CountsLone ==
  ASSUME TypeOK, Shape, NEW j \in Job, LoginCounts(j), Newer(j) PROVE Newer(j)'
  <1>1. /\ Becomes(j, IF Len(userDevices) > MaxDevices THEN "range" ELSE "answer",
                   job[j].token, Len(userDevices), job[j].list, job[j].old, job[j].sent)
        /\ Still
    BY CountsMoves
  <1>2. /\ job'[j].device = job[j].device /\ job'[j].token = job[j].token
        /\ job'[j].n = Len(userDevices)
        /\ job'[j].pc = IF Len(userDevices) > MaxDevices THEN "range" ELSE "answer"
        /\ UNCHANGED <<deviceSession, refreshToken, userDevices>>
    BY <1>1 DEF Becomes, Still
  <1>3. QED
    BY <1>2 DEF Newer

\* The devices it asks for are the first of the list.
LEMMA RangesLone ==
  ASSUME TypeOK, Shape, NEW j \in Job, LoginRanges(j), Newer(j) PROVE Newer(j)'
  <1>t. /\ userDevices \in Seq(Device) /\ Len(userDevices) \in Nat /\ MaxDevices \in Nat
    BY SessionsAssumption DEF TypeOK
  <1>1. job[j].pc = "range" /\ Still
    BY RangesMoves
  <1>2. /\ job[j].n > MaxDevices /\ job[j].n = Len(userDevices) /\ job[j].sent = {}
    BY <1>1 DEF Shape, Sound, Newer
  <1>3. PICK m : m = Len(userDevices) - MaxDevices
    OBVIOUS
  <1>4. m \in Nat \ {0} /\ m <= Len(userDevices)
    BY <1>t, <1>2, <1>3
  <1>5. Min({TooMany(job[j].n), Len(userDevices)}) = m
    BY <1>t, <1>2, <1>3, <1>4 DEF Min, TooMany
  <1>6. PICK list : list = SubSeq(userDevices, 1, m)
    OBVIOUS
  <1>7. /\ Len(list) = m /\ list # <<>>
        /\ \A i \in 1..m : list[i] = userDevices[i]
    BY <1>t, <1>4, <1>6
  <1>8. /\ job'[j].device = job[j].device /\ job'[j].token = job[j].token
        /\ job'[j].list = list /\ job'[j].sent = {} /\ job'[j].pc = "old"
        /\ UNCHANGED <<deviceSession, refreshToken, userDevices>>
    BY <1>1, <1>2, <1>5, <1>6, <1>7, RangesMoves DEF Becomes, Still
  <1>9. Len(userDevices) = Len(list) + MaxDevices
    BY <1>t, <1>3, <1>7
  <1>10. QED
    BY <1>7, <1>8, <1>9 DEF Newer

\* The head of the list is the first device, and not the one of the login.
LEMMA HeadOfLone ==
  ASSUME TypeOK, Shape, NEW j \in Job, job[j].pc \in {"old", "evict"}, Newer(j)
  PROVE  /\ job[j].list \in Seq(Device) /\ Len(job[j].list) \in Nat \ {0}
         /\ Head(job[j].list) = userDevices[1] /\ Len(userDevices) \in Nat /\ Len(userDevices) >= 2
         /\ Len(userDevices) = Len(job[j].list) + MaxDevices
         /\ userDevices[1] \in Device /\ userDevices[1] # job[j].device
         /\ \A i \in 2..Len(userDevices) : userDevices[i] # userDevices[1]
  <1>1. job[j].list \in Seq(Device) /\ job[j].list # <<>>
    BY JobTyped DEF JobState, Lists, Shape, Sound
  <1>2. /\ userDevices \in Seq(Device) /\ IsInjective(userDevices)
        /\ MaxDevices \in Nat \ {0}
        /\ userDevices[Len(userDevices)] = job[j].device
        /\ Len(userDevices) = Len(job[j].list) + MaxDevices
        /\ \A i \in 1..Len(job[j].list) : job[j].list[i] = userDevices[i]
    BY SessionsAssumption DEF TypeOK, Newer
  <1>3. PICK l : l = job[j].list
    OBVIOUS
  <1>4. Len(l) \in Nat \ {0} /\ Head(l) = l[1]
    BY <1>1, <1>3
  <1>5. /\ Head(l) = userDevices[1] /\ Len(userDevices) \in Nat /\ Len(userDevices) >= 2
        /\ userDevices[1] \in Device
    BY <1>2, <1>3, <1>4
  <1>6. \A i \in 2..Len(userDevices) : userDevices[i] # userDevices[1]
    BY <1>2, <1>5 DEF IsInjective
  <1>7. userDevices[1] # job[j].device
    BY <1>2, <1>5, <1>6
  <1>8. Len(job[j].list) \in Nat \ {0} /\ Head(job[j].list) = userDevices[1]
    BY <1>3, <1>4, <1>5
  <1>9. QED
    BY <1>1, <1>2, <1>5, <1>6, <1>7, <1>8

LEMMA ReadsOldLone ==
  ASSUME TypeOK, Shape, OneDevice, NEW j \in Job, LoginReadsOld(j), Newer(j) PROVE Newer(j)'
  <1>1. job[j].pc = "old" /\ Still
    BY ReadsOldMoves
  <1>2. /\ job'[j].device = job[j].device /\ job'[j].token = job[j].token
        /\ job'[j].list = job[j].list /\ job'[j].sent = job[j].sent /\ job'[j].pc = "evict"
        /\ job'[j].old = deviceSession[Head(job[j].list)]
        /\ UNCHANGED <<deviceSession, refreshToken, userDevices>>
    BY <1>1, ReadsOldMoves DEF Becomes, Still
  <1>3. Head(job[j].list) \in Device /\ Head(job[j].list) # job[j].device
    BY <1>1, HeadOfLone
  <1>4. job[j].device \in Device /\ job[j].token[1] \in SessionId
    BY <1>1 DEF Shape, Sound, Carry, Flow, Token
  <1>5. deviceSession[Head(job[j].list)] # job[j].token[1]
    <2>1. deviceSession[job[j].device] = job[j].token[1]
      BY DEF Newer
    <2>2. QED
      BY <1>3, <1>4, <2>1 DEF OneDevice, Holds
  <1>6. QED
    BY <1>1, <1>2, <1>5 DEF Newer

\* What it evicts is the head of the list, and nothing of its own.
LEMMA EvictsLone ==
  ASSUME TypeOK, Shape, NEW j \in Job, LoginEvicts(j), Newer(j) PROVE Newer(j)'
  <1>1. /\ job[j].pc = "evict"
        /\ refreshToken' = [s \in SessionId |-> IF \E x \in Out(j) : x[2] = s THEN None ELSE refreshToken[s]]
        /\ deviceSession' = [d \in Device |-> IF d \in Evicted(j) THEN None ELSE deviceSession[d]]
        /\ userDevices' = Remaining(userDevices, Evicted(j))
    BY EvictsMoves
  <1>2. PICK l : l = job[j].list
    OBVIOUS
  <1>3. /\ l \in Seq(Device) /\ Len(l) \in Nat \ {0}
        /\ Head(l) = userDevices[1] /\ Len(userDevices) \in Nat /\ Len(userDevices) >= 2
        /\ Len(userDevices) = Len(l) + MaxDevices
        /\ userDevices[1] \in Device /\ userDevices[1] # job[j].device
        /\ \A i \in 2..Len(userDevices) : userDevices[i] # userDevices[1]
    BY <1>1, <1>2, HeadOfLone
  <1>4. /\ job'[j].device = job[j].device /\ job'[j].token = job[j].token /\ job'[j].n = job[j].n
        /\ job'[j].list = Tail(l)
        /\ job'[j].sent = IF Tail(l) = <<>> THEN {} ELSE Out(j)
        /\ job'[j].pc = IF Tail(l) = <<>> THEN "answer" ELSE "old"
    BY <1>2, EvictsMoves DEF Becomes, Out
  <1>5. /\ job[j].device \in Device /\ job[j].token[1] \in SessionId
        /\ MaxDevices \in Nat \ {0} /\ job[j].n > MaxDevices
        /\ userDevices \in Seq(Device)
    BY <1>1, SessionsAssumption DEF Shape, Sound, Carry, Flow, Token, TypeOK
  <1>6. /\ deviceSession[job[j].device] = job[j].token[1]
        /\ refreshToken[job[j].token[1]] # None
        /\ userDevices[Len(userDevices)] = job[j].device
        /\ \A i \in 1..Len(l) : l[i] = userDevices[i]
        /\ \A x \in job[j].sent : x[1] \notin Range(userDevices) /\ x[2] # job[j].token[1]
        /\ job[j].old # job[j].token[1]
    BY <1>1, <1>2 DEF Newer
  <1>7. /\ \A x \in Out(j) : x[2] # job[j].token[1]
        /\ \A x \in Out(j) : x[1] = userDevices[1] \/ x[1] \notin Range(userDevices)
        /\ userDevices[1] \in Evicted(j)
    <2>1. Out(j) = job[j].sent \cup {<<userDevices[1], job[j].old>>}
      BY <1>2, <1>3 DEF Out
    <2>2. userDevices[1] \in Evicted(j)
      <3>1. <<userDevices[1], job[j].old>> \in Out(j)
        BY <2>1
      <3>2. QED
        BY <3>1 DEF Evicted
    <2>3. QED
      BY <1>6, <2>1, <2>2
  <1>8. \A d \in Range(userDevices) : d \in Evicted(j) => d = userDevices[1]
    BY <1>7 DEF Evicted
  <1>9. \A i \in 2..Len(userDevices) : userDevices[i] \in Range(userDevices) /\ userDevices[i] \notin Evicted(j)
    <2>1. \A i \in 2..Len(userDevices) : userDevices[i] \in Range(userDevices)
      BY <1>5 DEF Range
    <2>2. QED
      BY <1>3, <1>8, <2>1
  <1>10. PICK r : r = Remaining(userDevices, Evicted(j))
    OBVIOUS
  <1>11. /\ r \in Seq(Device) /\ Len(r) = Len(userDevices) - 1
         /\ \A k \in 1..(Len(userDevices) - 1) : r[k] = userDevices[k + 1]
    <2>1. Len(userDevices) > 0
      BY <1>3
    <2>2. QED
      BY <1>5, <1>7, <1>9, <1>10, <2>1, RemainingTail
  <1>12. /\ Len(r) = (Len(l) - 1) + MaxDevices /\ r # <<>> /\ Len(r) \in Nat \ {0}
         /\ r[Len(r)] = job[j].device
    <2>1. Len(r) \in Nat \ {0} /\ Len(r) = (Len(l) - 1) + MaxDevices
      BY <1>3, <1>5, <1>11
    <2>2. Len(userDevices) - 1 \in 1..(Len(userDevices) - 1) /\ (Len(userDevices) - 1) + 1 = Len(userDevices)
      BY <1>3
    <2>3. r[Len(r)] = userDevices[Len(userDevices)]
      BY <1>11, <2>2
    <2>4. QED
      BY <1>6, <1>11, <2>1, <2>3
  <1>13. deviceSession'[job[j].device] = job[j].token[1]
    <2>1. job[j].device \in Range(userDevices)
      <3>1. Len(userDevices) \in DOMAIN userDevices
        BY <1>3, <1>5
      <3>2. QED
        BY <1>6, <3>1 DEF Range
    <2>2. job[j].device \notin Evicted(j)
      BY <1>3, <1>8, <2>1
    <2>3. QED
      BY <1>1, <1>5, <1>6, <2>2
  <1>14. refreshToken'[job[j].token[1]] # None
    BY <1>1, <1>5, <1>6, <1>7
  <1>15. /\ Len(Tail(l)) = Len(l) - 1
         /\ \A i \in 1..(Len(l) - 1) : Tail(l)[i] = l[i + 1]
         /\ Tail(l) = <<>> => Len(l) = 1
    <2>1. l \in Seq(Device) /\ Len(l) \in Nat \ {0} /\ l # <<>>
      BY <1>3
    <2>2. /\ Len(Tail(l)) = Len(l) - 1
          /\ \A i \in 1..(Len(l) - 1) : Tail(l)[i] = l[i + 1]
      BY <2>1
    <2>3. Tail(l) = <<>> => Len(Tail(l)) = 0
      <3>1. PICK q : q = Tail(l)
        OBVIOUS
      <3>2. q = <<>> => Len(q) = 0
        OBVIOUS
      <3>3. QED
        BY <3>1, <3>2
    <2>4. QED
      BY <2>1, <2>2, <2>3
  <1>16. \A i \in 1..Len(Tail(l)) : Tail(l)[i] = r[i]
    <2>1. SUFFICES ASSUME NEW i \in 1..(Len(l) - 1) PROVE l[i + 1] = r[i]
      BY <1>15
    <2>2. i + 1 \in 1..Len(l) /\ i \in 1..(Len(userDevices) - 1)
      BY <1>3, <1>5
    <2>3. QED
      BY <1>6, <1>11, <2>2
  <1>17. \A x \in Out(j) : x[1] \notin Range(r)
    <2>1. Range(r) = Range(userDevices) \ Evicted(j)
      BY <1>5, <1>10, RemainingOf
    <2>2. QED
      BY <2>1 DEF Evicted
  <1>18. CASE Tail(l) = <<>>
    <2>1. job'[j].pc = "answer" /\ job'[j].n > MaxDevices
      BY <1>4, <1>5, <1>18
    <2>2. Len(r) = MaxDevices
      <3>1. Len(l) = 1
        BY <1>15, <1>18
      <3>2. QED
        BY <1>5, <1>12, <3>1
    <2>3. userDevices' = r
      BY <1>1, <1>10
    <2>4. QED
      BY <1>4, <1>12, <1>13, <1>14, <2>1, <2>2, <2>3 DEF Newer
  <1>19. CASE Tail(l) # <<>>
    <2>1. job'[j].pc = "old" /\ job'[j].sent = Out(j) /\ job'[j].list = Tail(l)
      BY <1>4, <1>19
    <2>2. userDevices' = r
      BY <1>1, <1>10
    <2>3. Len(r) = Len(Tail(l)) + MaxDevices
      BY <1>12, <1>15
    <2>4. QED
      BY <1>4, <1>7, <1>12, <1>13, <1>14, <1>16, <1>17, <2>1, <2>2, <2>3 DEF Newer
  <1>20. QED
    BY <1>18, <1>19

\* Only a login answers with a count.
LEMMA ProceedAnswers ==
  ASSUME TypeOK, Shape, NEW j \in Job, Proceed(j), job[j].pc \notin Flow, job'[j].pc = "answer"
  PROVE  job'[j].n = 0
  <1>1. ASSUME NEW pc, Goto(j, pc), job[j].pc # "idle"
        PROVE  job'[j].pc = pc /\ job'[j].n = job[j].n
    BY <1>1, GotoMoves DEF Becomes
  <1>2. CASE RefreshLists(j)
    BY <1>1, <1>2 DEF RefreshLists, At, Shape, Sound
  <1>3. CASE Ends(j)
    BY <1>3, JobTyped, IdleIs DEF Ends
  <1>4. CASE RefreshDeletes(j) \/ LogoutReads(j) \/ LogoutDeletesToken(j)
    <2>1. job'[j].pc \in {"store", "idle", "del token", "del session"}
      BY <1>4, DeletesMoves, LogoutReadsMoves, DeletesTokenMoves DEF Becomes, Gone
    <2>2. QED
      BY <2>1
  <1>6. CASE RefreshChecksSession(j) \/ RefreshStores(j) \/ RefreshExtends(j) \/ LogoutDeletesSession(j)
    <2>1. job[j].pc # "idle"
      BY <1>6 DEF RefreshChecksSession, RefreshStores, RefreshExtends, LogoutDeletesSession, At
    <2>2. \/ Ends(j) \/ Goto(j, "delete") \/ Goto(j, "extend") \/ Goto(j, "list")
          \/ Goto(j, "undo") \/ Goto(j, "leave")
      BY <1>6 DEF RefreshChecksSession, RefreshStores, RefreshExtends, LogoutDeletesSession
    <2>3. QED
      BY <1>1, <1>3, <2>1, <2>2
  <1>7. CASE RefreshUndoes(j) \/ LogoutLeaves(j) \/ Answer(j)
    BY <1>3, <1>7 DEF RefreshUndoes, LogoutLeaves, Answer
  <1>8. CASE LoginCounts(j) \/ LoginRanges(j) \/ LoginReadsOld(j) \/ LoginEvicts(j)
    BY <1>8 DEF LoginCounts, LoginRanges, LoginReadsOld, LoginEvicts, At, Flow
  <1>9. QED
    BY <1>2, <1>4, <1>6, <1>7, <1>8 DEF Proceed

\* Alone, a login finds Redis as it left it.
LEMMA NextLoneFlow ==
  TypeOK /\ TypeOK' /\ Shape /\ Shape' /\ AloneIsAlone /\ OneDevice /\ LoneFlow /\ [Next]_vars
    => LoneFlow'
  <1> SUFFICES ASSUME TypeOK, TypeOK', Shape, Shape', AloneIsAlone, OneDevice, LoneFlow,
                      [Next]_vars, NEW j \in Job, Lone(j)'
               PROVE  Newer(j)'
    BY DEF LoneFlow
  <1>l. /\ job'[j].alone
        /\ job'[j].pc \in Flow \cup {"answer"}
        /\ job'[j].pc = "answer" => job'[j].n > 0
    BY DEF Lone
  <1>1. ASSUME NEW i \in Job, NEW d \in Device, Login(i, d) PROVE Newer(j)'
    <2>1. /\ issued + 1 \in SessionId
          /\ <<issued + 1, clock>> \in Token
          /\ Begins(i, "count", d, <<issued + 1, clock>>)
          /\ refreshToken' = [refreshToken EXCEPT ![issued + 1] = <<issued + 1, clock>>]
          /\ deviceSession' = [deviceSession EXCEPT ![d] = issued + 1]
          /\ userDevices' = Newest(d)
      BY <1>1, LoginBegins
    <2>2. i = j
      BY <1>l, <2>1 DEF Begins
    <2>3. job'[j].pc = "count" /\ job'[j].device = d /\ job'[j].token = <<issued + 1, clock>>
      BY <2>1, <2>2 DEF Begins
    <2>4. job'[j].token # None
      BY <2>1, <2>3, SessionsAssumption DEF Token, SessionId
    <2>5. /\ deviceSession'[d] = issued + 1 /\ refreshToken'[issued + 1] = job'[j].token
          /\ job'[j].token[1] = issued + 1
      BY <2>1, <2>3 DEF TypeOK
    <2>6. userDevices' # <<>> /\ userDevices'[Len(userDevices')] = d
      <3>1. PICK r : r = Newest(d)
        OBVIOUS
      <3>2. /\ Newest(d)[Len(Newest(d))] = d /\ Len(Newest(d)) \in Nat \ {0}
        BY NewestOf DEF TypeOK
      <3>3. r # <<>>
        BY <3>1, <3>2
      <3>4. QED
        BY <2>1, <3>1, <3>2, <3>3
    <2>7. QED
      BY <2>3, <2>4, <2>5, <2>6 DEF Newer
  <1>2. ASSUME NEW i \in Job, NEW d, NEW pc \in {"session", "asked"}, NEW t, Begins(i, pc, d, t)
        PROVE  FALSE
    BY <1>l, <1>2 DEF Begins, Flow
  <1>3. ASSUME NEW i \in Job, NEW d \in Device, Refresh(i, d) \/ Logout(i, d) PROVE FALSE
    BY <1>2, <1>3, RefreshBegins, LogoutBegins
  <1>4. ASSUME NEW i \in Job, i # j, Proceed(i) PROVE FALSE
    <2>1. Same(j) /\ job[i].pc # "idle"
      BY <1>4, ProceedOthers, ProceedCookies
    <2>2. job[i] = Idle
      BY <1>4, <1>l, <2>1 DEF AloneIsAlone, Same
    <2>3. QED
      BY <2>1, <2>2, IdleIs
  <1>5. ASSUME Proceed(j) PROVE Newer(j)'
    <2>1. CASE job[j].pc \notin Flow
      BY <1>l, <1>5, <2>1, ProceedFlow, ProceedAnswers
    <2>2. CASE job[j].pc \in Flow
      <3>1. LoginCounts(j) \/ LoginRanges(j) \/ LoginReadsOld(j) \/ LoginEvicts(j)
        BY <1>5, <2>2, ProceedFlow
      <3>2. job[j].alone
        BY <1>l, <3>1, CountsMoves, RangesMoves, ReadsOldMoves, EvictsMoves DEF Becomes
      <3>3. job[j].pc # "answer"
        BY <2>2 DEF Flow
      <3>4. Newer(j)
        BY <2>2, <3>2, <3>3 DEF LoneFlow, Lone
      <3>5. QED
        BY <3>1, <3>4, CountsLone, RangesLone, ReadsOldLone, EvictsLone
    <2>3. QED
      BY <2>1, <2>2
  <1>6. CASE Crash
    BY <1>6, <1>l, CrashKeeps DEF Flow
  <1>7. ASSUME NEW d \in Device, Lapse(d) PROVE FALSE
    <2>1. job'[j] = Idle
      BY <1>7, LapseClears
    <2>2. QED
      BY <1>l, <2>1, IdleIs
  <1>8. CASE UNCHANGED <<refreshToken, deviceSession, userDevices, job>>
    BY <1>8, <1>l DEF LoneFlow, Lone, Newer
  <1>9. QED
    BY <1>1, <1>3, <1>4, <1>5, <1>6, <1>7, <1>8 DEF Next, Tick, redis, vars

LEMMA LoneKeeps == TypeOK /\ Shape /\ LoneFlow => LoneLoginKeepsTheNewest
  <1> SUFFICES ASSUME TypeOK, Shape, LoneFlow, NEW j \in Job, At(j, "answer"), job[j].alone, job[j].n > 0
               PROVE  /\ Usable(job[j].device)
                      /\ Last(userDevices) = job[j].device
                      /\ Len(userDevices) = IF job[j].n > MaxDevices THEN MaxDevices ELSE job[j].n
    BY DEF LoneLoginKeepsTheNewest
  <1>1. job[j].pc = "answer" /\ Newer(j)
    BY DEF LoneFlow, Lone, At
  <1>2. job[j].token[1] \in SessionId
    BY <1>1 DEF Shape, Sound, Carry, Token
  <1>3. job[j].token[1] # None
    BY <1>2, SessionsAssumption DEF SessionId
  <1>4. QED
    BY <1>1, <1>3 DEF Newer, Usable, Last

-----------------------------------------------------------------------------
(* Sessions that are over.                                                 *)

\* A session that is over stays over.
LEMMA StepEndedStaysEnded ==
  TypeOK /\ Shape /\ [Next]_vars => \A s \in SessionId : Ended(s) => Ended(s)'
  <1> SUFFICES ASSUME TypeOK, Shape, [Next]_vars, NEW s \in SessionId, Ended(s) PROVE Ended(s)'
    OBVIOUS
  <1>t. /\ deviceSession \in [Device -> SessionId \cup {None}]
        /\ issued \in Nat /\ s \in Nat /\ s # None
    BY SessionsAssumption DEF TypeOK, SessionId
  <1> DEFINE Past == {"delete", "store", "extend"}
  <1>e. /\ s <= issued
        /\ \A d \in Device : deviceSession[d] # s
        /\ \A i \in Job : job[i].pc \in Past => job[i].token[1] # s
    BY DEF Ended
  <1>g. ASSUME s <= issued', \A d \in Device : deviceSession'[d] # s,
               \A i \in Job : job'[i].pc \in Past => job'[i].token[1] # s
        PROVE  Ended(s)'
    BY <1>g DEF Ended
  <1>1. ASSUME NEW j \in Job, NEW d \in Device, Login(j, d) PROVE Ended(s)'
    <2>1. /\ issued' = issued + 1
          /\ Begins(j, "count", d, <<issued + 1, clock>>)
          /\ deviceSession' = [deviceSession EXCEPT ![d] = issued + 1]
      BY <1>1, LoginBegins
    <2>2. s <= issued' /\ \A c \in Device : deviceSession'[c] # s
      BY <1>e, <1>t, <2>1
    <2>3. \A i \in Job : job'[i].pc \in Past => job'[i].token[1] # s
      BY <1>e, <2>1 DEF Begins, Same
    <2>4. QED
      BY <1>g, <2>2, <2>3
  <1>2. ASSUME NEW j \in Job, NEW d \in Device, Refresh(j, d) \/ Logout(j, d) PROVE Ended(s)'
    <2>1. PICK pc, t : /\ pc \in {"session", "asked"} /\ Begins(j, pc, d, t)
                       /\ UNCHANGED <<deviceSession, issued>>
      BY <1>2, RefreshBegins, LogoutBegins
    <2>2. \A i \in Job : job'[i].pc \in Past => job'[i].token[1] # s
      BY <1>e, <2>1 DEF Begins, Same
    <2>3. QED
      BY <1>e, <1>g, <2>1, <2>2
  <1>3. ASSUME NEW j \in Job, Proceed(j) PROVE Ended(s)'
    <2>1. issued' = issued /\ \A i \in Job \ {j} : Same(i)
      BY <1>3, ProceedKeeps, ProceedOthers
    <2>2. \A d \in Device : deviceSession'[d] # s
      BY <1>3, <1>e, <1>t, ProceedTables
    <2>3. \A i \in Job \ {j} : job'[i].pc \in Past => job'[i].token[1] # s
      BY <1>e, <2>1 DEF Same
    <2>4. job'[j].pc \in Past => job'[j].token[1] # s
      <3>1. CASE RefreshChecksSession(j)
        <4>1. CASE Ends(j)
          BY <4>1, JobTyped, IdleIs DEF Ends
        <4>2. CASE ~Ends(j)
          <5>1. deviceSession[job[j].device] = job[j].token[1] /\ job[j].pc = "session" /\ Goto(j, "delete")
            BY <3>1, <4>2 DEF RefreshChecksSession, At
          <5>2. job[j].device \in Device /\ job'[j].token = job[j].token
            BY <5>1, GotoMoves DEF Becomes
          <5>3. QED
            BY <1>e, <5>1, <5>2
        <4>3. QED
          BY <4>1, <4>2
      <3>2. CASE job[j].pc \in Past
        <4>1. job'[j].token[1] = job[j].token[1] \/ job'[j].pc = "idle"
          <5>1. CASE RefreshDeletes(j)
            <6>1. job'[j].token = <<job[j].token[1], clock>>
              BY <5>1, DeletesMoves DEF Becomes
            <6>2. QED
              BY <6>1
          <5>2. CASE \E pc : Goto(j, pc)
            <6>1. job'[j].token = job[j].token
              BY <3>2, <5>2, GotoMoves DEF Becomes
            <6>2. QED
              BY <6>1
          <5>3. QED
            BY <1>3, <3>2, <5>1, <5>2
               DEF Proceed, LoginCounts, LoginRanges, LoginReadsOld, LoginEvicts, RefreshChecksSession,
                   RefreshDeletes, RefreshStores, RefreshExtends, RefreshUndoes, RefreshLists, LogoutReads,
                   LogoutDeletesToken, LogoutDeletesSession, LogoutLeaves, Answer, At
        <4>2. QED
          BY <1>e, <3>2, <4>1
      <3>3. CASE job[j].pc \notin Past /\ ~RefreshChecksSession(j)
        <4>1. job'[j].pc \notin Past
          <5>1. CASE Ends(j)
            BY <5>1, JobTyped, IdleIs DEF Ends
          <5>2. CASE \/ LoginCounts(j) \/ LoginRanges(j) \/ LoginReadsOld(j) \/ LoginEvicts(j)
                     \/ LogoutReads(j) \/ LogoutDeletesToken(j)
            <6>1. job'[j].pc \in {"range", "answer", "old", "evict", "del token", "idle", "del session"}
              BY <5>2, CountsMoves, RangesMoves, ReadsOldMoves, EvictsMoves, LogoutReadsMoves,
                 DeletesTokenMoves DEF Becomes, Gone
            <6>2. QED
              BY <6>1
          <5>3. CASE RefreshLists(j) \/ LogoutDeletesSession(j)
            <6>1. job[j].pc # "idle" /\ \E pc \in {"answer", "leave"} : Goto(j, pc)
              BY <5>3 DEF RefreshLists, LogoutDeletesSession, At
            <6>2. job'[j].pc \in {"answer", "leave"}
              BY <6>1, GotoMoves DEF Becomes
            <6>3. QED
              BY <6>2
          <5>4. QED
            BY <1>3, <3>3, <5>1, <5>2, <5>3
               DEF Proceed, RefreshDeletes, RefreshStores, RefreshExtends, RefreshUndoes,
                   LogoutLeaves, Answer, At
        <4>2. QED
          BY <4>1
      <3>4. QED
        BY <3>1, <3>2, <3>3
    <2>5. QED
      BY <1>e, <1>g, <2>1, <2>2, <2>3, <2>4
  <1>4. CASE Crash
    <2>1. issued' = issued /\ deviceSession' = deviceSession /\ \A i \in Job : job'[i].pc = "idle"
      BY <1>4, CrashKeeps
    <2>2. QED
      BY <1>e, <1>g, <2>1
  <1>5. ASSUME NEW d \in Device, Lapse(d) PROVE Ended(s)'
    <2>1. issued' = issued /\ job' = job /\ \A c \in Device : deviceSession'[c] \in {deviceSession[c], None}
      BY <1>5, LapseClears
    <2>2. QED
      BY <1>e, <1>g, <1>t, <2>1
  <1>6. CASE UNCHANGED <<deviceSession, job, issued>>
    BY <1>6, <1>e, <1>g
  <1>7. QED
    BY <1>1, <1>2, <1>3, <1>4, <1>5, <1>6 DEF Next, Tick, redis, vars

\* A logout that is answered has nothing left of the session.
LEMMA StepLogoutEnds ==
  ASSUME ~RawHeader, TypeOK, TypeOK', Shape, Current, [Next]_vars, NEW j \in Job,
         job[j].pc \in {"asked", "leave"}, job'[j] = Idle,
         job[j].device \notin rough \cup rough'
  PROVE  deviceSession'[job[j].device] = None
  <1>d. job[j].device \in Device
    BY DEF Shape, Sound
  <1>i. job'[j].pc = "idle"
    BY IdleIs
  <1>c. job[j].pc = "leave" => deviceSession[job[j].device] = None
    BY <1>d DEF Current, InStep
  <1>1. CASE Proceed(j)
    <2>1. CASE LogoutReads(j)
      <3>1. Still /\ deviceSession[job[j].device] = None
        BY <1>i, <2>1, LogoutReadsMoves DEF Becomes
      <3>2. QED
        BY <3>1 DEF Still
    <2>2. CASE LogoutLeaves(j)
      BY <1>c, <2>2 DEF LogoutLeaves, At
    <2>3. QED
      BY <1>1, <2>1, <2>2
         DEF Proceed, LoginCounts, LoginRanges, LoginReadsOld, LoginEvicts, RefreshChecksSession,
             RefreshDeletes, RefreshStores, RefreshExtends, RefreshUndoes, RefreshLists,
             LogoutDeletesToken, LogoutDeletesSession, Answer, At
  <1>2. ASSUME NEW i \in Job, i # j, Proceed(i) PROVE FALSE
    BY <1>i, <1>2, ProceedOthers DEF Same
  <1>3. ASSUME NEW i \in Job, NEW d, NEW pc, NEW t, Begins(i, pc, d, t) PROVE FALSE
    <2>1. i # j
      BY <1>3 DEF Begins
    <2>2. QED
      BY <1>i, <1>3, <2>1 DEF Begins, Same
  <1>4. ASSUME NEW i \in Job, NEW d \in Device, Login(i, d) \/ Refresh(i, d) \/ Logout(i, d)
        PROVE  FALSE
    BY <1>3, <1>4, LoginBegins, RefreshBegins, LogoutBegins
  <1>5. CASE Crash
    BY <1>5, <1>d, CrashKeeps
  <1>6. CASE job' = job
    BY <1>6, <1>i
  <1>7. QED
    BY <1>1, <1>2, <1>4, <1>5, <1>6, LapseClears DEF Next, Tick, vars

-----------------------------------------------------------------------------
(* The specification.                                                      *)

\* Before the first login there is nothing to relate.
LEMMA InitRest ==
  Init => OneDevice /\ OneRequest /\ Current /\ Matches /\ Room /\ InOrder /\ LoneFlow
  <1> SUFFICES ASSUME Init
               PROVE  OneDevice /\ OneRequest /\ Current /\ Matches /\ Room /\ InOrder /\ LoneFlow
    OBVIOUS
  <1>1. /\ \A d \in Device : deviceSession[d] = None /\ cookie[d] = None
        /\ \A j \in Job : job[j] = Idle
        /\ \A s \in SessionId : s # None
    BY SessionsAssumption DEF Init, SessionId
  <1>2. \A j \in Job : job[j].pc = "idle" /\ job[j].device \notin Device /\ job[j].token = None
                       /\ job[j].alone = FALSE
    BY <1>1, IdleIs
  <1>3. OneDevice
    BY <1>1, <1>2 DEF OneDevice, Holds
  <1>4. OneRequest
    BY <1>2 DEF OneRequest
  <1>5. Current /\ Matches
    BY <1>1 DEF Current, Matches
  <1>6. Room /\ InOrder
    BY <1>1 DEF Room, InOrder, Signed
  <1>7. LoneFlow
    BY <1>2 DEF LoneFlow, Lone
  <1>8. QED
    BY <1>3, <1>4, <1>5, <1>6, <1>7

\* What every request knows holds without the rest of the invariant.
LEMMA ShapeHolds == Spec => []TypeOK /\ [](Shape /\ AloneIsAlone)
  <1> DEFINE Basis == TypeOK /\ Shape /\ AloneIsAlone
  <1>1. Init => Basis
    BY InitTypeOK, InitShape
  <1>2. Basis /\ [Next]_vars => Basis'
    BY NextTypeOK, NextShape
  <1>3. QED
    BY <1>1, <1>2, PTL DEF Spec

\* So do the relations between requests and sessions.
LEMMA CurrentHolds == Spec => [](OneDevice /\ OneRequest /\ Current)
  <1> DEFINE Basis == TypeOK /\ Shape
             Place == OneDevice /\ OneRequest /\ Current
  <1>1. Init => Place
    BY InitRest
  <1>2. Basis /\ Basis' /\ Place /\ [Next]_vars => Place'
    BY NextOneDevice, NextOneRequest, NextCurrent
  <1>3. Spec => []Basis
    BY ShapeHolds, PTL
  <1>4. QED
    BY <1>1, <1>2, <1>3, PTL DEF Spec

\* In every state the variables are typed: what a request carries to its next
\* call is what that call needs, and no device is listed twice in userDevices
\* (auth.service.ts, login, refreshToken, logout).
THEOREM SessionsTyped == Spec => []TypeOK
  BY ShapeHolds, PTL

\* login keeps at most MaxDevices devices signed in, whatever the requests of the
\* other devices do between its calls (auth.service.ts, the eviction of login).
THEOREM DevicesWithinLimit == Spec => []DeviceLimit
  <1> DEFINE Basis == TypeOK /\ Shape
             Place == OneDevice /\ OneRequest /\ Current
             Limit == Room /\ InOrder
  <1>1. Init => Limit
    BY InitRest
  <1>2. Basis /\ Basis' /\ Place /\ Limit /\ [Next]_vars => Limit'
    BY NextRoom, NextInOrder
  <1>3. Basis /\ Limit => DeviceLimit
    BY RoomLimits
  <1>4. Spec => []Basis
    BY ShapeHolds, PTL
  <1>5. QED
    BY <1>1, <1>2, <1>3, <1>4, CurrentHolds, PTL DEF Spec

\* A device that is signed in holds the token whose hash is stored, so that it
\* can refresh (auth.service.ts, refreshToken).
THEOREM ClientsHoldTheStoredToken == Spec => []CookieMatches
  <1> DEFINE Basis == TypeOK /\ Shape
             Place == OneDevice /\ OneRequest /\ Current
  <1>1. Init => Matches
    BY InitRest
  <1>2. Basis /\ Place /\ Matches /\ [Next]_vars => Matches'
    BY NextMatches
  <1>3. Matches => CookieMatches
    BY MatchesCookie
  <1>4. Spec => []Basis
    BY ShapeHolds, PTL
  <1>5. QED
    BY <1>1, <1>2, <1>3, <1>4, CurrentHolds, PTL DEF Spec

\* A login no other request overlaps answers a device that is signed in and the
\* newest, and evicts no more than the limit asks for (auth.service.ts, login).
THEOREM LoneLoginKept == Spec => []LoneLoginKeepsTheNewest
  <1> DEFINE Basis == TypeOK /\ Shape
             Place == OneDevice /\ OneRequest /\ Current
  <1>1. Init => LoneFlow
    BY InitRest
  <1>2. Basis /\ Basis' /\ AloneIsAlone /\ Place /\ LoneFlow /\ [Next]_vars => LoneFlow'
    BY NextLoneFlow
  <1>3. Basis /\ LoneFlow => LoneLoginKeepsTheNewest
    BY LoneKeeps
  <1>4. Spec => []Basis /\ []AloneIsAlone
    BY ShapeHolds, PTL
  <1>5. QED
    BY <1>1, <1>2, <1>3, <1>4, CurrentHolds, PTL DEF Spec

\* A session that is over is never taken up again, whatever cookie a client still
\* presents (auth.service.ts, the checks of refreshToken).
THEOREM SessionsStayEnded == Spec => EndedStaysEnded
  <1> DEFINE Basis == TypeOK /\ Shape
             Stays == \A s \in SessionId : Ended(s) => Ended(s)'
  <1>1. Basis /\ [Next]_vars => Stays
    BY StepEndedStaysEnded
  <1>2. Spec => []Basis
    BY ShapeHolds, PTL
  <1>3. Spec => [][Stays]_vars
    <2> HIDE DEF Basis, Stays
    <2>1. QED
      BY <1>1, <1>2, PTL DEF Spec
  <1>4. QED
    BY <1>3 DEF EndedStaysEnded

\* Were logout given the token alone, and not the whole Authorization header, an
\* answered logout would leave no session of its device (auth.service.ts, logout).
THEOREM LogoutsEnd == ASSUME ~RawHeader PROVE Spec => LogoutEnds
  <1> DEFINE Basis == TypeOK /\ Shape
             Place == OneDevice /\ OneRequest /\ Current
             Over == \A j \in Job :
                        LET d == job[j].device
                        IN  job[j].pc \in {"asked", "leave"} /\ job'[j] = Idle
                            /\ d \notin rough \cup rough' => deviceSession'[d] = None
  <1>1. Basis /\ Basis' /\ Place /\ [Next]_vars => Over
    BY StepLogoutEnds
  <1>2. Spec => []Basis
    BY ShapeHolds, PTL
  <1>3. Spec => [][Over]_vars
    <2> HIDE DEF Basis, Place, Over
    <2>1. Spec => []Place
      BY CurrentHolds DEF Place
    <2>2. QED
      BY <1>1, <1>2, <2>1, PTL DEF Spec
  <1>4. QED
    BY <1>3 DEF LogoutEnds
=============================================================================
