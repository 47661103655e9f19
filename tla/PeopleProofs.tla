---------------------------- MODULE PeopleProofs ----------------------------
(* The permission cache of a role, the addresses of a user and the push     *)
(* tokens of phones, for any permissions, checks, assignments, rows, users  *)
(* and sends.                                                               *)
EXTENDS MCPeople, AccountsProofs, TLAPS

-----------------------------------------------------------------------------
(* Access.                                                                  *)

\* The history variable, as a formula.
LEMMA TaintMeans ==
  ASSUME NEW t \in BOOLEAN, Taint(t)
  PROVE  tainted' \in BOOLEAN /\ (tainted' <=> t /\ (cached' # {} \/ Filling(check')))
  BY DEF Taint

LEMMA InitAccessTyped == AccessInit => AccessTypeOK
  <1> SUFFICES ASSUME AccessInit PROVE AccessTypeOK
    OBVIOUS
  <1>1. NoCheck \in CheckType
    <2>1. (CHOOSE p \in Permission : TRUE) \in Permission
      BY AccessAssumption
    <2>2. QED
      BY <2>1 DEF NoCheck, CheckType
  <1>2. QED
    BY <1>1 DEF AccessInit, AccessTypeOK, NoAssign

\* Filling tells every check between its two questions.
Told == [d \in Check |-> IF check[d].pc = "exists"
                         THEN [check[d] EXCEPT !.filled = TRUE] ELSE check[d]]

LEMMA ToldTyped == check \in [Check -> CheckType] => Told \in [Check -> CheckType]
  BY DEF Told, CheckType

LEMMA ChecksTyped ==
  ASSUME check \in [Check -> CheckType], granted \in SUBSET Permission,
         [AccessNext]_accessVars
  PROVE  check' \in [Check -> CheckType]
  <1>1. ASSUME NEW c \in Check, NEW p \in Permission, Ask(c, p)
        PROVE  check' \in [Check -> CheckType]
    BY <1>1 DEF Ask, CheckType
  <1>2. ASSUME NEW c \in Check, IsMember(c) PROVE check' \in [Check -> CheckType]
    <2>1. CASE check' = Goes(check, c, "done", {}, TRUE)
      BY <2>1 DEF Goes, CheckType
    <2>2. CASE check' = Goes(check, c, "exists", {}, FALSE)
      BY <2>2 DEF Goes, CheckType
    <2>3. QED
      BY <1>2, <2>1, <2>2 DEF IsMember, Answers, Moves
  <1>3. ASSUME NEW c \in Check, Exists(c) PROVE check' \in [Check -> CheckType]
    <2>1. CASE check' = Goes(check, c, "smembers", {}, FALSE)
      BY <2>1 DEF Goes, CheckType
    <2>2. CASE check' = Goes(check, c, "done", {}, FALSE)
      BY <2>2 DEF Goes, CheckType
    <2>3. QED
      BY <1>3, <2>1, <2>2 DEF Exists, Answers, Moves
  <1>4. ASSUME NEW c \in Check, Members(c) PROVE check' \in [Check -> CheckType]
    <2>1. CASE check' = Goes(check, c, "db", {}, FALSE)
      BY <2>1 DEF Goes, CheckType
    <2>2. CASE check' = Goes(check, c, "done", {}, check[c].perm \in cached)
      BY <2>2 DEF Goes, CheckType
    <2>3. QED
      BY <1>4, <2>1, <2>2 DEF Members, Answers, Moves
  <1>5. ASSUME NEW c \in Check, ReadRows(c) PROVE check' \in [Check -> CheckType]
    <2>1. CASE check' = Goes(check, c, "fill", granted, FALSE)
      BY <2>1 DEF Goes, CheckType
    <2>2. CASE check' = Goes(check, c, "done", {}, FALSE)
      BY <2>2 DEF Goes, CheckType
    <2>3. QED
      BY <1>5, <2>1, <2>2 DEF ReadRows, Answers
  <1>6. ASSUME NEW c \in Check, Fill(c) PROVE check' \in [Check -> CheckType]
    <2>1. CASE check' = Goes(Told, c, "done", {}, check[c].perm \in check[c].perms)
      BY <2>1, ToldTyped DEF Goes, CheckType
    <2>2. CASE check' = Goes(Told, c, "fallback", {}, FALSE)
      BY <2>2, ToldTyped DEF Goes, CheckType
    <2>3. QED
      BY <1>6, <2>1, <2>2 DEF Fill, Told
  <1>7. ASSUME NEW c \in Check, RedisFails(c) PROVE check' \in [Check -> CheckType]
    <2>1. CASE check' = Goes(check, c, "fallback", {}, FALSE)
      BY <2>1 DEF Goes, CheckType
    <2>2. QED
      BY <1>7, <2>1 DEF RedisFails, Moves
  <1>8. ASSUME NEW c \in Check, Fallback(c) PROVE check' \in [Check -> CheckType]
    <2>1. CASE check' = Goes(check, c, "done", {}, check[c].perm \in granted)
      BY <2>1 DEF Goes, CheckType
    <2>2. QED
      BY <1>8, <2>1 DEF Fallback, Answers
  <1>9. ASSUME check' = Overlapped PROVE check' \in [Check -> CheckType]
    BY <1>9 DEF Overlapped, CheckType
  <1>10. ASSUME NEW a \in Assigner, SaveRows(a) PROVE check' \in [Check -> CheckType]
    BY <1>9, <1>10 DEF SaveRows
  <1>11. CASE DeleteRole
    BY <1>9, <1>11 DEF DeleteRole
  <1>12. ASSUME NEW a \in Assigner, NEW S \in SUBSET Permission,
                Assign(a, S) \/ ClearCache(a) \/ ClearFails(a)
         PROVE  check' = check
    BY <1>12 DEF Assign, ClearCache, ClearFails
  <1>13. CASE CacheExpires \/ UNCHANGED accessVars
    BY <1>13 DEF CacheExpires, accessVars
  <1>14. QED
    BY <1>1, <1>2, <1>3, <1>4, <1>5, <1>6, <1>7, <1>8, <1>10, <1>11, <1>12, <1>13
    DEF AccessNext

LEMMA NextAccessTyped == AccessTypeOK /\ [AccessNext]_accessVars => AccessTypeOK'
  <1> SUFFICES ASSUME AccessTypeOK, [AccessNext]_accessVars PROVE AccessTypeOK'
    OBVIOUS
  <1> USE DEF AccessTypeOK, CacheSame
  <1>0. check' \in [Check -> CheckType]
    BY ChecksTyped
  <1>1. ASSUME NEW c \in Check, NEW p \in Permission, Ask(c, p) PROVE AccessTypeOK'
    BY <1>0, <1>1, TaintMeans DEF Ask
  <1>2. ASSUME NEW c \in Check, IsMember(c) PROVE AccessTypeOK'
    BY <1>0, <1>2, TaintMeans DEF IsMember
  <1>3. ASSUME NEW c \in Check, Exists(c) PROVE AccessTypeOK'
    BY <1>0, <1>3, TaintMeans DEF Exists
  <1>4. ASSUME NEW c \in Check, Members(c) PROVE AccessTypeOK'
    BY <1>0, <1>4, TaintMeans DEF Members
  <1>5. ASSUME NEW c \in Check, ReadRows(c) PROVE AccessTypeOK'
    BY <1>0, <1>5, TaintMeans DEF ReadRows
  <1>6. ASSUME NEW c \in Check, Fill(c) PROVE AccessTypeOK'
    <2>1. cached' \subseteq Permission
      BY <1>6 DEF Fill, CheckType
    <2>2. QED
      BY <1>0, <1>6, <2>1, TaintMeans DEF Fill
  <1>7. ASSUME NEW c \in Check, RedisFails(c) PROVE AccessTypeOK'
    BY <1>0, <1>7, TaintMeans DEF RedisFails
  <1>8. ASSUME NEW c \in Check, Fallback(c) PROVE AccessTypeOK'
    BY <1>0, <1>8, TaintMeans DEF Fallback
  <1>9. CASE CacheExpires
    BY <1>0, <1>9, TaintMeans DEF CacheExpires
  <1>10. ASSUME NEW a \in Assigner, NEW S \in SUBSET Permission, Assign(a, S)
         PROVE  AccessTypeOK'
    BY <1>0, <1>10, TaintMeans DEF Assign
  <1>11. ASSUME NEW a \in Assigner, SaveRows(a) PROVE AccessTypeOK'
    <2>1. (tainted \/ Filling(check)) \in BOOLEAN
      OBVIOUS
    <2>2. tainted' \in BOOLEAN
      BY <1>11, <2>1, TaintMeans DEF SaveRows
    <2>3. QED
      BY <1>0, <1>11, <2>2 DEF SaveRows, NoAssign
  <1>12. ASSUME NEW a \in Assigner, ClearCache(a) \/ ClearFails(a) PROVE AccessTypeOK'
    <2>1. tainted' \in BOOLEAN
      BY <1>12, TaintMeans DEF ClearCache, ClearFails
    <2>2. assigner' = [assigner EXCEPT ![a] = NoAssign] /\ role' = role /\ granted' = granted
      BY <1>12 DEF ClearCache, ClearFails
    <2>3. cached' \in {{}, cached}
      BY <1>12 DEF ClearCache, ClearFails
    <2>4. QED
      BY <1>0, <2>1, <2>2, <2>3 DEF NoAssign
  <1>13. CASE DeleteRole
    BY <1>0, <1>13, TaintMeans DEF DeleteRole
  <1>14. CASE UNCHANGED accessVars
    BY <1>0, <1>14, TaintMeans DEF accessVars
  <1>15. QED
    BY <1>1, <1>2, <1>3, <1>4, <1>5, <1>6, <1>7, <1>8, <1>9, <1>10, <1>11, <1>12,
       <1>13, <1>14 DEF AccessNext

-----------------------------------------------------------------------------
Clearing == \E a \in Assigner : Assigns(a, "clear")

\* Unless someone may have put old rows there, what is about to be filled in is
\* what is granted.
FillsAreCurrent ==
    ~tainted => \A c \in Check : Asks(c, "fill") => check[c].perms = granted

\* A clean check has seen one set of rows and a current cache since it began.
CleanIsQuiet == \A c \in Check : check[c].clean => ~tainted /\ ~Clearing

\* Between its two questions a clean check that should pass sees an empty cache,
\* or has been told that someone filled it.
EmptyUntilFilled ==
    \A c \in Check :
        /\ Asks(c, "exists") /\ check[c].clean /\ ~check[c].filled
        /\ check[c].perm \in granted
        => cached = {}

AccessInv ==
    /\ AccessTypeOK
    /\ CacheIsCurrent
    /\ ChecksRight
    /\ FillsAreCurrent
    /\ CleanIsQuiet
    /\ EmptyUntilFilled

USE DEF Asks, Assigns

LEMMA InitAccessInv == AccessInit => AccessInv
  BY InitAccessTyped DEF AccessInit, AccessInv, CacheIsCurrent, ChecksRight, FillsAreCurrent,
     CleanIsQuiet, EmptyUntilFilled, NoCheck

\* What a check that has gone on to pc looks like.
LEMMA GoesMeans ==
  ASSUME NEW chk \in [Check -> CheckType], NEW c \in Check, NEW pc, NEW rows, NEW yes,
         check' = Goes(chk, c, pc, rows, yes)
  PROVE  /\ \A d \in Check \ {c} : check'[d] = chk[d]
         /\ check'[c].pc = pc
         /\ check'[c].perms = rows
         /\ check'[c].answer = yes
         /\ check'[c].perm = chk[c].perm
         /\ check'[c].clean = chk[c].clean
         /\ check'[c].filled = chk[c].filled
  BY DEF Goes, CheckType

\* A step of one check keeps the invariant when the check itself is right after it.
LEMMA OneCheckSteps ==
  ASSUME AccessInv, check' \in [Check -> CheckType], NEW c \in Check,
         \A d \in Check \ {c} : check'[d] = check[d],
         UNCHANGED <<granted, assigner>>, CacheSame,
         check'[c].clean => ~tainted /\ ~Clearing,
         check'[c].pc = "fill" => check'[c].perms = granted,
         check'[c].pc = "done" /\ check'[c].clean =>
            /\ check'[c].answer => check'[c].perm \in granted
            /\ check'[c].perm \in granted /\ ~check'[c].filled => check'[c].answer,
         check'[c].pc = "exists" /\ check'[c].clean /\ ~check'[c].filled
            /\ check'[c].perm \in granted => cached = {}
  PROVE  /\ CacheIsCurrent' /\ ChecksRight' /\ FillsAreCurrent' /\ CleanIsQuiet'
         /\ EmptyUntilFilled'
  <1>1. tainted \in BOOLEAN /\ check \in [Check -> CheckType]
    BY DEF AccessInv, AccessTypeOK
  <1>2. tainted' <=> tainted /\ (cached' # {} \/ Filling(check'))
    BY <1>1, TaintMeans DEF CacheSame
  <1>3. CacheIsCurrent'
    BY <1>2 DEF AccessInv, CacheIsCurrent, CacheSame
  <1>4. ChecksRight'
    BY DEF AccessInv, ChecksRight
  <1>5. FillsAreCurrent'
    BY <1>2 DEF AccessInv, FillsAreCurrent, Filling
  <1>6. CleanIsQuiet'
    BY <1>2 DEF AccessInv, CleanIsQuiet, Clearing
  <1>7. EmptyUntilFilled'
    BY DEF AccessInv, EmptyUntilFilled, CacheSame
  <1>8. QED
    BY <1>3, <1>4, <1>5, <1>6, <1>7

\* A step of an assignment that neither saves nor clears keeps the invariant.
LEMMA SameChecks ==
  ASSUME AccessInv, UNCHANGED <<granted, check, cached>>, Clearing' <=> Clearing,
         tainted' <=> tainted /\ (cached' # {} \/ Filling(check'))
  PROVE  /\ CacheIsCurrent' /\ ChecksRight' /\ FillsAreCurrent' /\ CleanIsQuiet'
         /\ EmptyUntilFilled'
  <1>1. CacheIsCurrent'
    BY DEF AccessInv, CacheIsCurrent, Clearing
  <1>2. ChecksRight' /\ EmptyUntilFilled'
    BY DEF AccessInv, ChecksRight, EmptyUntilFilled
  <1>3. FillsAreCurrent'
    BY DEF AccessInv, FillsAreCurrent, Filling
  <1>4. CleanIsQuiet'
    BY DEF AccessInv, CleanIsQuiet
  <1>5. QED
    BY <1>1, <1>2, <1>3, <1>4

LEMMA NextAccessInv == AccessInv /\ [AccessNext]_accessVars => AccessInv'
  <1> SUFFICES ASSUME AccessInv, [AccessNext]_accessVars PROVE AccessInv'
    OBVIOUS
  <1> DEFINE Rest == CacheIsCurrent /\ ChecksRight /\ FillsAreCurrent /\ CleanIsQuiet
                     /\ EmptyUntilFilled
  <1>0. /\ AccessTypeOK /\ AccessTypeOK'
        /\ check \in [Check -> CheckType] /\ check' \in [Check -> CheckType]
        /\ tainted \in BOOLEAN
    BY NextAccessTyped DEF AccessInv, AccessTypeOK
  <1>1. ASSUME NEW c \in Check, NEW p \in Permission, Ask(c, p) PROVE Rest'
    <2>1. PICK first \in {"sismember", "smembers"} :
             check' = [check EXCEPT ![c] =
                         [pc |-> first, perm |-> p, perms |-> {}, answer |-> FALSE,
                          clean |-> ~tainted /\ \A a \in Assigner : ~Assigns(a, "clear"),
                          filled |-> FALSE]]
      BY <1>1 DEF Ask
    <2>2. \A d \in Check \ {c} : check'[d] = check[d]
      BY <1>0, <2>1
    <2>3. check'[c].pc \in {"sismember", "smembers"}
      BY <1>0, <2>1
    <2>4. check'[c].clean => ~tainted /\ ~Clearing
      BY <1>0, <2>1 DEF Clearing
    <2>5. QED
      BY <1>0, <1>1, <2>2, <2>3, <2>4, OneCheckSteps DEF Ask
  <1>2. ASSUME NEW c \in Check, IsMember(c) PROVE Rest'
    <2>0. UNCHANGED <<granted, assigner>> /\ CacheSame
      BY <1>2 DEF IsMember
    <2>1. check[c].clean => ~tainted /\ ~Clearing /\ cached \in {{}, granted}
      BY DEF AccessInv, CleanIsQuiet, CacheIsCurrent, Clearing
    <2>2. CASE check[c].perm \in cached
      <3>1. check' = Goes(check, c, "done", {}, TRUE)
        BY <1>2, <2>2 DEF IsMember, Answers, Moves
      <3>2. /\ \A d \in Check \ {c} : check'[d] = check[d]
            /\ check'[c].perm = check[c].perm /\ check'[c].clean = check[c].clean
            /\ check'[c].filled = check[c].filled
        BY ZenonT(30), <1>0, <3>1, GoesMeans
      <3>3. check'[c].pc = "done" /\ check'[c].perms = {} /\ (check'[c].answer <=> TRUE)
        BY <1>0, <3>1 DEF Goes, CheckType
      <3>4. /\ check'[c].pc = "done" /\ check'[c].clean =>
                /\ check'[c].answer => check'[c].perm \in granted
                /\ check'[c].perm \in granted /\ ~check'[c].filled => check'[c].answer
            /\ check'[c].pc = "exists" /\ check'[c].clean /\ ~check'[c].filled
                  /\ check'[c].perm \in granted => cached = {}
        BY <2>2, <2>1, <3>2, <3>3
      <3>5. QED
        BY <1>0, <2>0, <2>1, <3>2, <3>3, <3>4, OneCheckSteps
    <2>3. CASE check[c].perm \notin cached
      <3>1. check' = Goes(check, c, "exists", {}, FALSE)
        BY <1>2, <2>3 DEF IsMember, Answers, Moves
      <3>2. /\ \A d \in Check \ {c} : check'[d] = check[d]
            /\ check'[c].perm = check[c].perm /\ check'[c].clean = check[c].clean
            /\ check'[c].filled = check[c].filled
        BY ZenonT(30), <1>0, <3>1, GoesMeans
      <3>3. check'[c].pc = "exists" /\ check'[c].perms = {} /\ (check'[c].answer <=> FALSE)
        BY <1>0, <3>1 DEF Goes, CheckType
      <3>4. /\ check'[c].pc = "done" /\ check'[c].clean =>
                /\ check'[c].answer => check'[c].perm \in granted
                /\ check'[c].perm \in granted /\ ~check'[c].filled => check'[c].answer
            /\ check'[c].pc = "exists" /\ check'[c].clean /\ ~check'[c].filled
                  /\ check'[c].perm \in granted => cached = {}
        BY <2>3, <2>1, <3>2, <3>3
      <3>5. QED
        BY <1>0, <2>0, <2>1, <3>2, <3>3, <3>4, OneCheckSteps
    <2>4. QED
      BY <2>2, <2>3
  <1>3. ASSUME NEW c \in Check, Exists(c) PROVE Rest'
    <2>0. UNCHANGED <<granted, assigner>> /\ CacheSame
      BY <1>3 DEF Exists
    <2>1. check[c].clean => ~tainted /\ ~Clearing /\ cached \in {{}, granted}
      BY DEF AccessInv, CleanIsQuiet, CacheIsCurrent, Clearing
    <2>2. /\ check[c].clean /\ ~check[c].filled /\ check[c].perm \in granted => cached = {}
      BY <1>3 DEF Exists, AccessInv, EmptyUntilFilled
    <2>3. CASE cached = {}
      <3>1. check' = Goes(check, c, "smembers", {}, FALSE)
        BY <1>3, <2>3 DEF Exists, Answers, Moves
      <3>2. /\ \A d \in Check \ {c} : check'[d] = check[d]
            /\ check'[c].perm = check[c].perm /\ check'[c].clean = check[c].clean
            /\ check'[c].filled = check[c].filled
        BY ZenonT(30), <1>0, <3>1, GoesMeans
      <3>3. check'[c].pc = "smembers" /\ check'[c].perms = {} /\ (check'[c].answer <=> FALSE)
        BY <1>0, <3>1 DEF Goes, CheckType
      <3>4. /\ check'[c].pc = "done" /\ check'[c].clean =>
                /\ check'[c].answer => check'[c].perm \in granted
                /\ check'[c].perm \in granted /\ ~check'[c].filled => check'[c].answer
            /\ check'[c].pc = "exists" /\ check'[c].clean /\ ~check'[c].filled
                  /\ check'[c].perm \in granted => cached = {}
        BY <2>3, <2>1, <2>2, <3>2, <3>3
      <3>5. QED
        BY <1>0, <2>0, <2>1, <3>2, <3>3, <3>4, OneCheckSteps
    <2>4. CASE cached # {}
      <3>1. check' = Goes(check, c, "done", {}, FALSE)
        BY <1>3, <2>4 DEF Exists, Answers, Moves
      <3>2. /\ \A d \in Check \ {c} : check'[d] = check[d]
            /\ check'[c].perm = check[c].perm /\ check'[c].clean = check[c].clean
            /\ check'[c].filled = check[c].filled
        BY ZenonT(30), <1>0, <3>1, GoesMeans
      <3>3. check'[c].pc = "done" /\ check'[c].perms = {} /\ (check'[c].answer <=> FALSE)
        BY <1>0, <3>1 DEF Goes, CheckType
      <3>4. /\ check'[c].pc = "done" /\ check'[c].clean =>
                /\ check'[c].answer => check'[c].perm \in granted
                /\ check'[c].perm \in granted /\ ~check'[c].filled => check'[c].answer
            /\ check'[c].pc = "exists" /\ check'[c].clean /\ ~check'[c].filled
                  /\ check'[c].perm \in granted => cached = {}
        BY <2>4, <2>1, <2>2, <3>2, <3>3
      <3>5. QED
        BY <1>0, <2>0, <2>1, <3>2, <3>3, <3>4, OneCheckSteps
    <2>5. QED
      BY <2>3, <2>4
  <1>4. ASSUME NEW c \in Check, Members(c) PROVE Rest'
    <2>0. UNCHANGED <<granted, assigner>> /\ CacheSame
      BY <1>4 DEF Members
    <2>1. check[c].clean => ~tainted /\ ~Clearing /\ cached \in {{}, granted}
      BY DEF AccessInv, CleanIsQuiet, CacheIsCurrent, Clearing
    <2>2. CASE cached = {}
      <3>1. check' = Goes(check, c, "db", {}, FALSE)
        BY <1>4, <2>2 DEF Members, Answers, Moves
      <3>2. /\ \A d \in Check \ {c} : check'[d] = check[d]
            /\ check'[c].perm = check[c].perm /\ check'[c].clean = check[c].clean
            /\ check'[c].filled = check[c].filled
        BY ZenonT(30), <1>0, <3>1, GoesMeans
      <3>3. check'[c].pc = "db" /\ check'[c].perms = {} /\ (check'[c].answer <=> FALSE)
        BY <1>0, <3>1 DEF Goes, CheckType
      <3>4. /\ check'[c].pc = "done" /\ check'[c].clean =>
                /\ check'[c].answer => check'[c].perm \in granted
                /\ check'[c].perm \in granted /\ ~check'[c].filled => check'[c].answer
            /\ check'[c].pc = "exists" /\ check'[c].clean /\ ~check'[c].filled
                  /\ check'[c].perm \in granted => cached = {}
        BY <2>2, <2>1, <3>2, <3>3
      <3>5. QED
        BY <1>0, <2>0, <2>1, <3>2, <3>3, <3>4, OneCheckSteps
    <2>3. CASE cached # {}
      <3>1. check' = Goes(check, c, "done", {}, check[c].perm \in cached)
        BY <1>4, <2>3 DEF Members, Answers, Moves
      <3>2. /\ \A d \in Check \ {c} : check'[d] = check[d]
            /\ check'[c].perm = check[c].perm /\ check'[c].clean = check[c].clean
            /\ check'[c].filled = check[c].filled
        BY <1>0, <3>1, GoesMeans
      <3>3. /\ check'[c].pc = "done" /\ check'[c].perms = {}
            /\ (check'[c].answer <=> check[c].perm \in cached)
        BY <1>0, <3>1 DEF Goes, CheckType
      <3>4. /\ check'[c].pc = "done" /\ check'[c].clean =>
                /\ check'[c].answer => check'[c].perm \in granted
                /\ check'[c].perm \in granted /\ ~check'[c].filled => check'[c].answer
            /\ check'[c].pc = "exists" /\ check'[c].clean /\ ~check'[c].filled
                  /\ check'[c].perm \in granted => cached = {}
        BY <2>3, <2>1, <3>2, <3>3
      <3>5. QED
        BY <1>0, <2>0, <2>1, <3>2, <3>3, <3>4, OneCheckSteps
    <2>4. QED
      BY <2>2, <2>3
  <1>5. ASSUME NEW c \in Check, ReadRows(c) PROVE Rest'
    <2>0. UNCHANGED <<granted, assigner>> /\ CacheSame
      BY <1>5 DEF ReadRows
    <2>1. check[c].clean => ~tainted /\ ~Clearing /\ cached \in {{}, granted}
      BY DEF AccessInv, CleanIsQuiet, CacheIsCurrent, Clearing
    <2>2. CASE granted # {}
      <3>1. check' = Goes(check, c, "fill", granted, FALSE)
        BY <1>5, <2>2 DEF ReadRows, Answers
      <3>2. /\ \A d \in Check \ {c} : check'[d] = check[d]
            /\ check'[c].perm = check[c].perm /\ check'[c].clean = check[c].clean
            /\ check'[c].filled = check[c].filled
        BY ZenonT(30), <1>0, <3>1, GoesMeans
      <3>3. check'[c].pc = "fill" /\ check'[c].perms = granted /\ (check'[c].answer <=> FALSE)
        BY <1>0, <3>1 DEF Goes, CheckType
      <3>4. /\ check'[c].pc = "done" /\ check'[c].clean =>
                /\ check'[c].answer => check'[c].perm \in granted
                /\ check'[c].perm \in granted /\ ~check'[c].filled => check'[c].answer
            /\ check'[c].pc = "exists" /\ check'[c].clean /\ ~check'[c].filled
                  /\ check'[c].perm \in granted => cached = {}
        BY <2>2, <2>1, <3>2, <3>3
      <3>5. QED
        BY <1>0, <2>0, <2>1, <3>2, <3>3, <3>4, OneCheckSteps
    <2>3. CASE granted = {}
      <3>1. check' = Goes(check, c, "done", {}, FALSE)
        BY <1>5, <2>3 DEF ReadRows, Answers
      <3>2. /\ \A d \in Check \ {c} : check'[d] = check[d]
            /\ check'[c].perm = check[c].perm /\ check'[c].clean = check[c].clean
            /\ check'[c].filled = check[c].filled
        BY ZenonT(30), <1>0, <3>1, GoesMeans
      <3>3. check'[c].pc = "done" /\ check'[c].perms = {} /\ (check'[c].answer <=> FALSE)
        BY <1>0, <3>1 DEF Goes, CheckType
      <3>4. /\ check'[c].pc = "done" /\ check'[c].clean =>
                /\ check'[c].answer => check'[c].perm \in granted
                /\ check'[c].perm \in granted /\ ~check'[c].filled => check'[c].answer
            /\ check'[c].pc = "exists" /\ check'[c].clean /\ ~check'[c].filled
                  /\ check'[c].perm \in granted => cached = {}
        BY <2>3, <2>1, <3>2, <3>3
      <3>5. QED
        BY <1>0, <2>0, <2>1, <3>2, <3>3, <3>4, OneCheckSteps
    <2>4. QED
      BY <2>2, <2>3
  <1>6. ASSUME NEW c \in Check, Fill(c) PROVE Rest'
    <2>0. granted' = granted /\ assigner' = assigner /\ cached' = cached \cup check[c].perms
      BY <1>6 DEF Fill
    <2>1. check[c].clean => ~tainted /\ ~Clearing
      BY DEF AccessInv, CleanIsQuiet
    <2>2. check[c].pc = "fill"
      BY <1>6 DEF Fill
    <2>3. ~tainted => check[c].perms = granted
      BY <2>2 DEF AccessInv, FillsAreCurrent
    <2>4. tainted' <=> tainted /\ (cached' # {} \/ Filling(check'))
      BY <1>0, <1>6, TaintMeans DEF Fill
    <2>5. /\ \A d \in Check \ {c} :
                /\ check'[d].pc = check[d].pc /\ check'[d].perms = check[d].perms
                /\ check'[d].answer = check[d].answer /\ check'[d].perm = check[d].perm
                /\ check'[d].clean = check[d].clean
                /\ check[d].pc = "exists" => check'[d].filled
                /\ check[d].pc # "exists" => check'[d].filled = check[d].filled
          /\ check'[c].perm = check[c].perm /\ check'[c].clean = check[c].clean
          /\ \/ check'[c].pc = "done" /\ (check'[c].answer <=> check[c].perm \in check[c].perms)
             \/ check'[c].pc = "fallback"
      <3>1. /\ Told \in [Check -> CheckType] /\ Told[c] = check[c]
            /\ \A d \in Check :
                /\ Told[d].pc = check[d].pc /\ Told[d].perms = check[d].perms
                /\ Told[d].answer = check[d].answer /\ Told[d].perm = check[d].perm
                /\ Told[d].clean = check[d].clean
                /\ check[d].pc = "exists" => Told[d].filled
                /\ check[d].pc # "exists" => Told[d].filled = check[d].filled
        BY <1>0, <2>2, ToldTyped DEF Told, CheckType
      <3>2. CASE check' = Goes(Told, c, "done", {}, check[c].perm \in check[c].perms)
        <4>1. /\ \A d \in Check \ {c} : check'[d] = Told[d]
              /\ check'[c].perm = Told[c].perm /\ check'[c].clean = Told[c].clean
              /\ check'[c].pc = "done"
          BY <3>1, <3>2 DEF Goes, CheckType
        <4>2. check'[c].answer <=> check[c].perm \in check[c].perms
          BY <3>1, <3>2 DEF Goes, CheckType
        <4>3. QED
          BY <3>1, <4>1, <4>2
      <3>3. CASE check' = Goes(Told, c, "fallback", {}, FALSE)
        <4>1. /\ \A d \in Check \ {c} : check'[d] = Told[d]
              /\ check'[c].perm = Told[c].perm /\ check'[c].clean = Told[c].clean
              /\ check'[c].pc = "fallback"
          BY <3>1, <3>3 DEF Goes, CheckType
        <4>2. QED
          BY <3>1, <4>1
      <3>4. QED
        BY <1>6, <3>2, <3>3 DEF Fill, Told
    <2>6. CacheIsCurrent'
      BY <2>0, <2>3, <2>4 DEF AccessInv, CacheIsCurrent
    <2>7. ChecksRight'
      BY <2>0, <2>1, <2>3, <2>5 DEF AccessInv, ChecksRight
    <2>8. FillsAreCurrent'
      BY <2>0, <2>4, <2>5 DEF AccessInv, FillsAreCurrent, Filling
    <2>9. CleanIsQuiet'
      BY <2>0, <2>4, <2>5 DEF AccessInv, CleanIsQuiet, Clearing
    <2>10. EmptyUntilFilled'
      BY <2>5 DEF AccessInv, EmptyUntilFilled
    <2>11. QED
      BY <2>6, <2>7, <2>8, <2>9, <2>10
  <1>7. ASSUME NEW c \in Check, RedisFails(c) PROVE Rest'
    <2>0. UNCHANGED <<granted, assigner>> /\ CacheSame
      BY <1>7 DEF RedisFails
    <2>1. check[c].clean => ~tainted /\ ~Clearing /\ cached \in {{}, granted}
      BY DEF AccessInv, CleanIsQuiet, CacheIsCurrent, Clearing
    <2>2. check' = Goes(check, c, "fallback", {}, FALSE)
      BY <1>7 DEF RedisFails, Moves
    <2>3. /\ \A d \in Check \ {c} : check'[d] = check[d]
          /\ check'[c].perm = check[c].perm /\ check'[c].clean = check[c].clean
          /\ check'[c].filled = check[c].filled
      BY ZenonT(30), <1>0, <2>2, GoesMeans
    <2>4. check'[c].pc = "fallback" /\ check'[c].perms = {} /\ (check'[c].answer <=> FALSE)
      BY <1>0, <2>2 DEF Goes, CheckType
    <2>5. /\ check'[c].pc = "done" /\ check'[c].clean =>
              /\ check'[c].answer => check'[c].perm \in granted
              /\ check'[c].perm \in granted /\ ~check'[c].filled => check'[c].answer
          /\ check'[c].pc = "exists" /\ check'[c].clean /\ ~check'[c].filled
                /\ check'[c].perm \in granted => cached = {}
      BY <2>1, <2>3, <2>4
    <2>6. QED
      BY <1>0, <2>0, <2>1, <2>3, <2>4, <2>5, OneCheckSteps
  <1>8. ASSUME NEW c \in Check, Fallback(c) PROVE Rest'
    <2>0. UNCHANGED <<granted, assigner>> /\ CacheSame
      BY <1>8 DEF Fallback
    <2>1. check[c].clean => ~tainted /\ ~Clearing /\ cached \in {{}, granted}
      BY DEF AccessInv, CleanIsQuiet, CacheIsCurrent, Clearing
    <2>2. check' = Goes(check, c, "done", {}, check[c].perm \in granted)
      BY <1>8 DEF Fallback, Answers
    <2>3. /\ \A d \in Check \ {c} : check'[d] = check[d]
          /\ check'[c].perm = check[c].perm /\ check'[c].clean = check[c].clean
          /\ check'[c].filled = check[c].filled
      BY <1>0, <2>2, GoesMeans
    <2>4. /\ check'[c].pc = "done" /\ check'[c].perms = {}
          /\ (check'[c].answer <=> check[c].perm \in granted)
      BY <1>0, <2>2 DEF Goes, CheckType
    <2>5. /\ check'[c].pc = "done" /\ check'[c].clean =>
              /\ check'[c].answer => check'[c].perm \in granted
              /\ check'[c].perm \in granted /\ ~check'[c].filled => check'[c].answer
          /\ check'[c].pc = "exists" /\ check'[c].clean /\ ~check'[c].filled
                /\ check'[c].perm \in granted => cached = {}
      BY <2>1, <2>3, <2>4
    <2>6. QED
      BY <1>0, <2>0, <2>1, <2>3, <2>4, <2>5, OneCheckSteps
  <1>9. ASSUME CacheExpires PROVE Rest'
    <2>1. tainted' <=> tainted /\ (cached' # {} \/ Filling(check'))
      BY <1>0, <1>9, TaintMeans DEF CacheExpires
    <2>2. check' = check /\ granted' = granted /\ assigner' = assigner /\ cached' = {}
      BY <1>9 DEF CacheExpires
    <2>3. CacheIsCurrent' /\ ChecksRight' /\ EmptyUntilFilled'
      BY <2>2 DEF AccessInv, CacheIsCurrent, ChecksRight, EmptyUntilFilled
    <2>4. FillsAreCurrent' /\ CleanIsQuiet'
      BY <2>1, <2>2 DEF AccessInv, FillsAreCurrent, CleanIsQuiet, Clearing, Filling
    <2>5. QED
      BY <2>3, <2>4
  <1>10. ASSUME NEW a \in Assigner, NEW S \in SUBSET Permission, Assign(a, S) PROVE Rest'
    <2>1. tainted' <=> tainted /\ (cached' # {} \/ Filling(check'))
      BY <1>0, <1>10, TaintMeans DEF Assign, CacheSame
    <2>2. Clearing' = Clearing
      BY <1>0, <1>10 DEF Assign, AccessTypeOK, Clearing
    <2>3. QED
      BY <1>10, <2>1, <2>2, SameChecks DEF Assign, CacheSame
  <1>11. ASSUME NEW a \in Assigner, SaveRows(a) PROVE Rest'
    <2>1. CASE role \/ assigner[a].perms = {}
      <3>1. /\ assigner' = [assigner EXCEPT ![a] = [pc |-> "clear", perms |-> {}]]
            /\ check' = Overlapped /\ cached' = cached
            /\ Taint(tainted \/ Filling(check))
        BY <1>11, <2>1 DEF SaveRows
      <3>2. Clearing'
        BY <1>0, <3>1 DEF AccessTypeOK, Clearing
      <3>3. \A c \in Check : ~check'[c].clean /\ check'[c].pc = check[c].pc
        BY <1>0, <3>1 DEF Overlapped, CheckType
      <3>4. (tainted \/ Filling(check)) \in BOOLEAN
        OBVIOUS
      <3>5. ~tainted' => ~Filling(check')
        BY <3>1, <3>3, <3>4, TaintMeans DEF Filling
      <3>6. CacheIsCurrent'
        BY <3>2 DEF CacheIsCurrent, Clearing
      <3>7. ChecksRight' /\ CleanIsQuiet' /\ EmptyUntilFilled'
        BY <3>3 DEF ChecksRight, CleanIsQuiet, EmptyUntilFilled
      <3>8. FillsAreCurrent'
        BY <3>5 DEF FillsAreCurrent, Filling
      <3>9. QED
        BY <3>6, <3>7, <3>8
    <2>2. CASE ~(role \/ assigner[a].perms = {})
      <3>1. /\ assigner' = [assigner EXCEPT ![a] = NoAssign] /\ assigner[a].pc = "save"
            /\ UNCHANGED <<granted, check>> /\ CacheSame
        BY <1>11, <2>2 DEF SaveRows
      <3>2. Clearing' <=> Clearing
        BY <1>0, <3>1 DEF AccessTypeOK, Clearing, NoAssign
      <3>3. tainted' <=> tainted /\ (cached' # {} \/ Filling(check'))
        BY <1>0, <3>1, TaintMeans DEF CacheSame
      <3>4. QED
        BY <3>1, <3>2, <3>3, SameChecks DEF CacheSame
    <2>3. QED
      BY <2>1, <2>2
  <1>12. ASSUME NEW a \in Assigner, ClearCache(a) PROVE Rest'
    <2>1. /\ cached' = {} /\ UNCHANGED <<granted, check>>
          /\ assigner' = [assigner EXCEPT ![a] = NoAssign] /\ Clearing
      BY <1>12 DEF ClearCache, Clearing
    <2>2. tainted' <=> tainted /\ (cached' # {} \/ Filling(check'))
      BY <1>0, <1>12, TaintMeans DEF ClearCache
    <2>3. \A c \in Check : ~check'[c].clean
      BY <2>1 DEF AccessInv, CleanIsQuiet
    <2>4. QED
      BY <2>1, <2>2, <2>3 DEF AccessInv, CacheIsCurrent, ChecksRight, FillsAreCurrent,
         CleanIsQuiet, EmptyUntilFilled, Filling
  <1>13. ASSUME NEW a \in Assigner, ClearFails(a) PROVE Rest'
    <2>1. /\ cached' = cached /\ UNCHANGED <<granted, check>> /\ Clearing
      BY <1>13 DEF ClearFails, Clearing
    <2>2. tainted' <=> (cached' # {} \/ Filling(check'))
      BY <1>13, TaintMeans DEF ClearFails
    <2>3. \A c \in Check : ~check'[c].clean
      BY <2>1 DEF AccessInv, CleanIsQuiet
    <2>4. QED
      BY <2>1, <2>2, <2>3 DEF CacheIsCurrent, ChecksRight, FillsAreCurrent,
         CleanIsQuiet, EmptyUntilFilled, Filling
  <1>14. ASSUME DeleteRole PROVE Rest'
    <2>1. check' = Overlapped /\ cached' = cached
      BY <1>14 DEF DeleteRole
    <2>2. tainted' <=> (cached' # {} \/ Filling(check'))
      BY <1>14, TaintMeans DEF DeleteRole
    <2>3. \A c \in Check : ~check'[c].clean
      BY <1>0, <2>1 DEF Overlapped, CheckType
    <2>4. QED
      BY <2>1, <2>2, <2>3 DEF CacheIsCurrent, ChecksRight, FillsAreCurrent,
         CleanIsQuiet, EmptyUntilFilled, Filling
  <1>15. ASSUME UNCHANGED accessVars PROVE Rest'
    BY <1>15 DEF accessVars, AccessInv, CacheIsCurrent, ChecksRight, FillsAreCurrent,
       CleanIsQuiet, EmptyUntilFilled, Clearing
  <1>16. Rest'
    BY <1>1, <1>2, <1>3, <1>4, <1>5, <1>6, <1>7, <1>8, <1>9, <1>10, <1>11, <1>12, <1>13,
       <1>14, <1>15 DEF AccessNext
  <1>17. QED
    BY <1>0, <1>16 DEF AccessInv

LEMMA AccessInvariant == AccessSpec => []AccessInv
  BY InitAccessInv, NextAccessInv, PTL DEF AccessSpec

\* What is cached is what was granted, but for the races and failures that
\* CacheIsCurrent names (getPermissionsByRoleId, assignPermissions,
\* deleteRoleById).
THEOREM CacheCurrent == AccessSpec => []CacheIsCurrent
  <1>1. AccessInv => CacheIsCurrent
    BY DEF AccessInv
  <1>2. QED
    BY <1>1, AccessInvariant, PTL

\* A check that no assignment overlaps and that starts from a current cache is
\* answered by the rows, however many others read, fill and let expire
\* (hasPermission).
THEOREM ChecksAnsweredByRows == AccessSpec => []ChecksRight
  <1>1. AccessInv => ChecksRight
    BY DEF AccessInv
  <1>2. QED
    BY <1>1, AccessInvariant, PTL

-----------------------------------------------------------------------------
(* Addresses.                                                               *)

\* What a request carries from its check to its write is a place GHN knows; the
\* row may be another one by then, and nothing more is needed of it.
CarriedResolve ==
    /\ DOMAIN address = AddressId /\ DOMAIN edit = Edit
    /\ \A e \in Edit : Editing(e, "write") \/ Editing(e, "order") => Resolves(edit[e].place)

AddressesInv == AddressesResolve /\ CarriedResolve

LEMMA InitResolves == AddressesInit => AddressesInv
  BY DEF AddressesInit, AddressesInv, AddressesResolve, CarriedResolve, Shown, There, Editing, NoEdit

LEMMA NextResolves == AddressesInv /\ [AddressesNext]_addressVars => AddressesInv'
  <1> SUFFICES ASSUME AddressesInv, [AddressesNext]_addressVars PROVE AddressesInv'
    OBVIOUS
  <1> USE DEF AddressesInv, AddressesResolve, CarriedResolve, Shown, There, Editing, NoEdit, Finish
  <1>1. ASSUME NEW a \in AddressId, NEW p \in Place, CreateAddress(a, p) PROVE AddressesInv'
    BY <1>1 DEF CreateAddress, Inserted, Resolves
  <1>2. ASSUME NEW a \in AddressId, RemoveAddress(a) PROVE AddressesInv'
    BY <1>2 DEF RemoveAddress, Resolves
  <1>3. ASSUME NEW e \in Edit, NEW a \in AddressId, NEW sent, UpdateAddress(e, a, sent)
        PROVE  AddressesInv'
    <2>1. PICK next : /\ Resolves(next)
                      /\ edit' = [edit EXCEPT ![e] = [pc |-> "write", id |-> a,
                                                      sent |-> sent, place |-> next]]
                      /\ address' = address /\ shipTo' = shipTo
      BY <1>3 DEF UpdateAddress
    <2>2. QED
      BY <2>1 DEF Resolves
  <1>4. ASSUME NEW e \in Edit, NEW a \in AddressId, ReadForOrder(e, a) PROVE AddressesInv'
    BY <1>4 DEF ReadForOrder, Resolves
  <1>5. ASSUME NEW e \in Edit, WriteAddress(e) PROVE AddressesInv'
    BY <1>5 DEF WriteAddress, Resolves
  <1>6. ASSUME NEW e \in Edit, RecordOrder(e) PROVE AddressesInv'
    BY <1>6 DEF RecordOrder, Resolves
  <1>7. ASSUME NEW e \in Edit, EditFails(e) PROVE AddressesInv'
    BY <1>7 DEF EditFails, Resolves
  <1>8. CASE UNCHANGED addressVars
    BY <1>8 DEF addressVars, Resolves
  <1>9. QED
    BY <1>1, <1>2, <1>3, <1>4, <1>5, <1>6, <1>7, <1>8 DEF AddressesNext

\* Every address stays one that GHN can deliver to, and no order is sent
\* elsewhere, however many partial updates of a row overlap (updateForUser,
\* AddressRepository.update): a write installs the three columns of one place
\* that was checked as a whole.
THEOREM AddressesSafe == AddressesSpec => []AddressesResolve
  <1>1. AddressesInv => AddressesResolve
    BY DEF AddressesInv
  <1>2. QED
    BY <1>1, InitResolves, NextResolves, PTL DEF AddressesSpec

\* Types of the rows, of what requests carry, and of the places of orders.
CarriedTyped ==
    /\ DOMAIN edit = Edit
    /\ \A e \in Edit : Editing(e, "write") => edit[e].id \in AddressId
    /\ \A e \in Edit : Editing(e, "write") \/ Editing(e, "order") => edit[e].place \in Place

AddressesTyped == AddressesTypeOK /\ CarriedTyped

LEMMA InitAddressesTyped == AddressesInit => AddressesTyped
  BY DEF AddressesInit, AddressesTyped, AddressesTypeOK, CarriedTyped, Editing, NoEdit

\* A row with some of its columns replaced by those of another place.
LEMMA MergedTyped ==
  ASSUME NEW old \in Place, NEW fields \in SUBSET {"province", "district", "ward"},
         NEW p \in Place
  PROVE  Merged(old, [f \in fields |-> p[f]]) \in Place
  <1>1. DOMAIN old = {"province", "district", "ward"}
    BY DEF Place
  <1>2. Merged(old, [f \in fields |-> p[f]]) =
           [f \in {"province", "district", "ward"} |-> IF f \in fields THEN p[f] ELSE old[f]]
    BY <1>1 DEF Merged
  <1>3. Merged(old, [f \in fields |-> p[f]]) =
           [province |-> IF "province" \in fields THEN p.province ELSE old.province,
            district |-> IF "district" \in fields THEN p.district ELSE old.district,
            ward     |-> IF "ward" \in fields THEN p.ward ELSE old.ward]
    BY <1>2
  <1>4. QED
    BY <1>3 DEF Place

LEMMA NextAddressesTyped == AddressesTyped /\ [AddressesNext]_addressVars => AddressesTyped'
  <1> SUFFICES ASSUME AddressesTyped, [AddressesNext]_addressVars PROVE AddressesTyped'
    OBVIOUS
  <1> USE DEF AddressesTyped, AddressesTypeOK, CarriedTyped, Editing, There, NoEdit, Finish
  <1>1. ASSUME NEW a \in AddressId, NEW p \in Place, CreateAddress(a, p) PROVE AddressesTyped'
    BY <1>1 DEF CreateAddress, Inserted
  <1>2. ASSUME NEW a \in AddressId, RemoveAddress(a) PROVE AddressesTyped'
    BY <1>2 DEF RemoveAddress
  <1>3. ASSUME NEW e \in Edit, NEW a \in AddressId,
               NEW fields \in SUBSET {"province", "district", "ward"}, NEW p \in Place,
               UpdateAddress(e, a, [f \in fields |-> p[f]])
        PROVE  AddressesTyped'
    <2>1. address[a] \in Place
      BY <1>3 DEF UpdateAddress
    <2>2. PICK next \in Place :
             /\ edit' = [edit EXCEPT ![e] = [pc |-> "write", id |-> a,
                                             sent |-> [f \in fields |-> p[f]],
                                             place |-> next]]
             /\ address' = address /\ shipTo' = shipTo
      <3>1. Merged(address[a], [f \in fields |-> p[f]]) \in Place
        BY <2>1, MergedTyped
      <3>2. QED
        BY <1>3, <3>1 DEF UpdateAddress
    <2>3. QED
      BY <2>2
  <1>4. ASSUME NEW e \in Edit, NEW a \in AddressId, ReadForOrder(e, a) PROVE AddressesTyped'
    <2>1. address[a] \in Place
      BY <1>4 DEF ReadForOrder
    <2>2. QED
      BY <1>4, <2>1 DEF ReadForOrder
  <1>5. ASSUME NEW e \in Edit, WriteAddress(e) PROVE AddressesTyped'
    BY <1>5 DEF WriteAddress
  <1>6. ASSUME NEW e \in Edit, RecordOrder(e) PROVE AddressesTyped'
    BY <1>6 DEF RecordOrder
  <1>7. ASSUME NEW e \in Edit, EditFails(e) PROVE AddressesTyped'
    BY <1>7 DEF EditFails
  <1>8. CASE UNCHANGED addressVars
    BY <1>8 DEF addressVars
  <1>9. ASSUME NEW a \in AddressId, NEW e \in Edit,
               NEW fields \in SUBSET {"province", "district", "ward"},
               NEW sent \in {[f \in fields |-> p[f]] : p \in Place}, UpdateAddress(e, a, sent)
        PROVE  AddressesTyped'
    <2>1. PICK p \in Place : sent = [f \in fields |-> p[f]]
      OBVIOUS
    <2> HIDE DEF AddressesTyped
    <2>2. UpdateAddress(e, a, [f \in fields |-> p[f]])
      BY <1>9, <2>1
    <2>3. QED
      BY <1>3, <2>2
  <1> HIDE DEF AddressesTyped
  <1>10. QED
    BY <1>1, <1>2, <1>4, <1>5, <1>6, <1>7, <1>8, <1>9 DEF AddressesNext

-----------------------------------------------------------------------------
(* Push.                                                                    *)

USE DEF Sends

LEMMA InitPushTyped == PushInit => PushTypeOK
  BY PushAssumption DEF PushInit, PushTypeOK, NoLogin, NoSend, LoginType, SendType

LEMMA NextPushTyped == PushTypeOK /\ [PushNext]_pushVars => PushTypeOK'
  <1> SUFFICES ASSUME PushTypeOK, [PushNext]_pushVars PROVE PushTypeOK'
    OBVIOUS
  <1> USE PushAssumption DEF PushTypeOK
  <1>1. ASSUME NEW p \in Phone, NEW u \in User, SignIn(p, u)
         PROVE  PushTypeOK'
    BY <1>1 DEF SignIn, LoginType, SendType
  <1>2. ASSUME NEW p \in Phone, SaveFinds(p)
         PROVE  PushTypeOK'
    BY <1>2 DEF SaveFinds, LoginType, SendType
  <1>3. ASSUME NEW p \in Phone, SaveWrites(p)
         PROVE  PushTypeOK'
    BY <1>3 DEF SaveWrites, LoginType, SendType
  <1>4. ASSUME NEW p \in Phone, Subscribe(p)
         PROVE  PushTypeOK'
    BY <1>4 DEF Subscribe, LoginType, SendType
  <1>5. ASSUME NEW p \in Phone, SignedIn(p)
         PROVE  PushTypeOK'
    BY <1>5 DEF SignedIn, NoLogin, LoginType, SendType
  <1>6. ASSUME NEW p \in Phone, SignInFails(p)
         PROVE  PushTypeOK'
    BY <1>6 DEF SignInFails, NoLogin, LoginType, SendType
  <1>7. ASSUME NEW p \in Phone, Logout(p)
         PROVE  PushTypeOK'
    BY <1>7 DEF Logout, LoginType, SendType
  <1>8. ASSUME NEW p \in Phone, RemoveToken(p)
         PROVE  PushTypeOK'
    BY <1>8 DEF RemoveToken, LoginType, SendType
  <1>9. ASSUME NEW S \in SUBSET User, SendToUsers(S)
         PROVE  PushTypeOK'
    BY <1>9 DEF SendToUsers, phones, LoginType, SendType
  <1>10. ASSUME NEW s \in Send, NEW u, ReadTokens(s, u),
                queue' \in {queue} \cup {queue \ {v} : v \in queue}
         PROVE  PushTypeOK'
    BY <1>10 DEF ReadTokens, phones, LoginType, SendType
  <1>11. ASSUME NEW s \in Send, NEW failed \in SUBSET Phone, Deliver(s, failed)
         PROVE  PushTypeOK'
    BY <1>11 DEF Deliver, EndsSend, NoSend, phones, LoginType, SendType
  <1>12. ASSUME NEW s \in Send, DropFailed(s)
         PROVE  PushTypeOK'
    BY <1>12 DEF DropFailed, Invalid, EndsSend, NoSend, LoginType, SendType
  <1>13. ASSUME NEW s \in Send, SendFails(s)
         PROVE  PushTypeOK'
    BY <1>13 DEF SendFails, EndsSend, NoSend, phones, LoginType, SendType
  <1>14. CASE PushCrash
    BY <1>14 DEF PushCrash, NoLogin, NoSend, LoginType, SendType
  <1>15. CASE UNCHANGED pushVars
    BY <1>15 DEF pushVars, phones, LoginType, SendType
  <1>16. QED
    BY <1>1, <1>2, <1>3, <1>4, <1>5, <1>6, <1>7, <1>8, <1>9, <1>10, <1>11, <1>12, <1>13,
       <1>14, <1>15 DEF PushNext, OrderEvent, Process

-----------------------------------------------------------------------------
Active(p) == login[p].pc # "idle" \/ holder[p] # Nobody

\* Nothing is under way that would remove the row of a calm phone in use, and a
\* login of a calm phone is of one that nobody is signed in on.
NothingRemoves ==
    \A p \in calm :
        /\ Active(p) => leaving[p] = 0 /\ \A s \in Send : p \notin send[s].failed
        /\ login[p].pc # "idle" => holder[p] = Nobody

\* From its write on, the login of a calm phone finds its row as it wrote it.
LoginKeepsItsRow ==
    \A p \in calm :
        /\ login[p].pc \in {"subscribe", "answer"} => row[p] = login[p].user
        /\ login[p].pc = "answer" => p \in subscribed

PushInv == PushTypeOK /\ SignedInIsReached /\ NothingRemoves /\ LoginKeepsItsRow

LEMMA InitPushInv == PushInit => PushInv
  BY InitPushTyped DEF PushInit, PushInv, SignedInIsReached, NothingRemoves, LoginKeepsItsRow

LEMMA NextPushInv == PushInv /\ [PushNext]_pushVars => PushInv'
  <1> SUFFICES ASSUME PushInv, [PushNext]_pushVars PROVE PushInv'
    OBVIOUS
  <1>0. PushTypeOK /\ PushTypeOK'
    BY NextPushTyped DEF PushInv
  <1> USE <1>0 DEF PushInv, SignedInIsReached, NothingRemoves, LoginKeepsItsRow, Active
  <1>1. ASSUME NEW p \in Phone, NEW u \in User, SignIn(p, u)
         PROVE  PushInv'
    BY <1>1 DEF PushTypeOK, SignIn, LoginType, SendType
  <1>2. ASSUME NEW p \in Phone, SaveFinds(p)
         PROVE  PushInv'
    BY <1>2 DEF PushTypeOK, SaveFinds, LoginType, SendType
  <1>3. ASSUME NEW p \in Phone, SaveWrites(p)
         PROVE  PushInv'
    BY <1>3 DEF PushTypeOK, SaveWrites, LoginType, SendType
  <1>4. ASSUME NEW p \in Phone, Subscribe(p)
         PROVE  PushInv'
    BY <1>4 DEF PushTypeOK, Subscribe, LoginType, SendType
  <1>5. ASSUME NEW p \in Phone, SignedIn(p)
         PROVE  PushInv'
    BY <1>5 DEF PushTypeOK, SignedIn, NoLogin, LoginType, SendType
  <1>6. ASSUME NEW p \in Phone, SignInFails(p)
         PROVE  PushInv'
    BY <1>6 DEF PushTypeOK, SignInFails, NoLogin, LoginType, SendType
  <1>7. ASSUME NEW p \in Phone, Logout(p)
         PROVE  PushInv'
    BY <1>7 DEF PushTypeOK, Logout, LoginType, SendType
  <1>8. ASSUME NEW p \in Phone, RemoveToken(p)
         PROVE  PushInv'
    BY <1>8 DEF PushTypeOK, RemoveToken, LoginType, SendType
  <1>9. ASSUME NEW S \in SUBSET User, SendToUsers(S)
         PROVE  PushInv'
    BY <1>9 DEF PushTypeOK, SendToUsers, phones, LoginType, SendType
  <1>10. ASSUME NEW s \in Send, NEW u, ReadTokens(s, u),
                queue' \in {queue} \cup {queue \ {v} : v \in queue}
         PROVE  PushInv'
    BY <1>10 DEF PushTypeOK, ReadTokens, phones, LoginType, SendType
  <1>11. ASSUME NEW s \in Send, NEW failed \in SUBSET Phone, Deliver(s, failed)
         PROVE  PushInv'
    BY SMTT(30), <1>11 DEF PushTypeOK, Deliver, EndsSend, NoSend, phones, LoginType, SendType
  <1>12. ASSUME NEW s \in Send, DropFailed(s)
         PROVE  PushInv'
    BY <1>12 DEF PushTypeOK, DropFailed, Invalid, EndsSend, NoSend, LoginType, SendType
  <1>13. ASSUME NEW s \in Send, SendFails(s)
         PROVE  PushInv'
    BY <1>13 DEF PushTypeOK, SendFails, EndsSend, NoSend, phones, LoginType, SendType
  <1>14. CASE PushCrash
    BY <1>14 DEF PushTypeOK, PushCrash, NoLogin, NoSend, LoginType, SendType
  <1>15. CASE UNCHANGED pushVars
    BY <1>15 DEF PushTypeOK, pushVars, phones, LoginType, SendType
  <1>16. QED
    BY <1>1, <1>2, <1>3, <1>4, <1>5, <1>6, <1>7, <1>8, <1>9, <1>10, <1>11, <1>12, <1>13,
       <1>14, <1>15 DEF PushNext, OrderEvent, Process

\* Whoever signed in on a phone is reached there, until a send to it fails or a
\* removal meets its login (login, logout, sendNotificationToUser).
THEOREM CalmPhonesAreReached == PushSpec => []SignedInIsReached
  <1>1. PushInv => SignedInIsReached
    BY DEF PushInv
  <1>2. QED
    BY <1>1, InitPushInv, NextPushInv, PTL DEF PushSpec
-----------------------------------------------------------------------------
(* The modules side by side, the accounts among them. The module in focus   *)
(* moves and the others stand still, so a behaviour of all is a behaviour   *)
(* of each.                                                                 *)

LEMMA EachStarts == MCInit => AccessInit /\ AccountsInit /\ AddressesInit /\ PushInit
  BY DEF MCInit

LEMMA EachSteps ==
  ASSUME [MCNext]_<<focus, accessVars, accountVars, addressVars, pushVars>>
  PROVE  /\ [AccessNext]_accessVars
         /\ [AccountsNext]_accountVars
         /\ [AddressesNext]_addressVars
         /\ [PushNext]_pushVars
  <1>1. CASE MCNext
    BY <1>1 DEF MCNext
  <1>2. CASE UNCHANGED <<focus, accessVars, accountVars, addressVars, pushVars>>
    BY <1>2
  <1>3. QED
    BY <1>1, <1>2

\* Permissions, accounts, addresses and push run together as each runs alone.
THEOREM PeopleAreTheirParts ==
  MCSpec => AccessSpec /\ AccountsSpec /\ AddressesSpec /\ PushSpec
  BY EachStarts, EachSteps, PTL
  DEF MCSpec, AccessSpec, AccountsSpec, AddressesSpec, PushSpec

\* Types of all four modules: a role that is deleted has no rows left, and an
\* address that exists names a province, a district and a ward.
THEOREM PeopleTyped == MCSpec => []TypeOK
  <1>1. AccessTypeOK /\ AccountsTypeOK /\ AddressesTypeOK /\ PushTypeOK => TypeOK
    BY DEF TypeOK
  <1>2. AccessInv => AccessTypeOK
    BY DEF AccessInv
  <1>3. AddressesTyped => AddressesTypeOK
    BY DEF AddressesTyped
  <1>4. AddressesSpec => []AddressesTyped
    BY InitAddressesTyped, NextAddressesTyped, PTL DEF AddressesSpec
  <1>5. PushSpec => []PushTypeOK
    BY InitPushTyped, NextPushTyped, PTL DEF PushSpec
  <1>6. QED
    BY <1>1, <1>2, <1>3, <1>4, <1>5, PeopleAreTheirParts, AccessInvariant, AccountsTyped, PTL
=============================================================================
