--------------------------- MODULE VouchersProofs ---------------------------
(* The usage counter, for any vouchers, checkouts, limits and admin.        *)
EXTENDS Vouchers, FiniteSetTheorems, TLAPS

LEMMA InitTypeOK == Init => TypeOK
  BY DEF Init, TypeOK, UseState

LEMMA NextTypeOK == TypeOK /\ [Next]_vars => TypeOK'
  <1> SUFFICES ASSUME TypeOK, [Next]_vars PROVE TypeOK'
    OBVIOUS
  <1> USE VouchersAssumption DEF TypeOK, UseState, admin
  <1>1. ASSUME NEW c \in Uses, Checkouts(c) PROVE TypeOK'
    <2>1. ASSUME Check(c) \/ Refuse(c) \/ IncrementFails(c) \/ ReleaseFails(c)
          PROVE  TypeOK'
      BY <2>1 DEF Check, Refuse, IncrementFails, ReleaseFails
    <2>2. ASSUME Increment(c) PROVE TypeOK'
      BY <2>2 DEF Increment
    <2>3. ASSUME Release(c) PROVE TypeOK'
      BY <2>3 DEF Release
    <2>4. QED
      BY <1>1, <2>1, <2>2, <2>3 DEF Checkouts
  <1>2. ASSUME NEW v \in Vouchers, Create(v) \/ Delete(v) PROVE TypeOK'
    BY <1>2 DEF Create, Delete
  <1>3. ASSUME NEW v \in Vouchers, EditRead(v) PROVE TypeOK'
    BY <1>3 DEF EditRead
  <1>4. ASSUME NEW v \in Vouchers, OpenOrClose(v) PROVE TypeOK'
    BY <1>4 DEF OpenOrClose
  <1>5. ASSUME NEW e \in edits, EditWrite(e) PROVE TypeOK'
    BY <1>5 DEF EditWrite
  <1>6. CASE UNCHANGED vars
    BY <1>6 DEF vars
  <1>7. QED
    BY <1>1, <1>2, <1>3, <1>4, <1>5, <1>6 DEF Next

\* Every variable keeps its type.
THEOREM VouchersTyped == Spec => []TypeOK
  BY InitTypeOK, NextTypeOK, PTL DEF Spec

-----------------------------------------------------------------------------
LEMMA HoldersFinite ==
  ASSUME NEW v \in Vouchers
  PROVE  IsFiniteSet(Holders(v)) /\ Cardinality(Holders(v)) \in Nat
  <1>1. Holders(v) \subseteq Uses
    BY DEF Holders
  <1>2. QED
    BY <1>1, VouchersAssumption, FS_Subset, FS_CardinalityType

\* A checkout that takes a use becomes a holder, and nobody else does.
LEMMA HoldersGrow ==
  ASSUME TypeOK, NEW c \in Uses, NEW v \in Vouchers, use[c] = "checked",
         NEW s \in {"held", "lost"}, use' = [use EXCEPT ![c] = s]
  PROVE  Cardinality(Holders(v)') =
            Cardinality(Holders(v)) + (IF VoucherOf[c] = v THEN 1 ELSE 0)
  <1>1. Holders(v)' = IF VoucherOf[c] = v THEN Holders(v) \cup {c} ELSE Holders(v)
    BY DEF Holders, TypeOK
  <1>2. c \notin Holders(v)
    BY DEF Holders
  <1>3. Cardinality(Holders(v) \cup {c}) = Cardinality(Holders(v)) + 1
    BY <1>2, HoldersFinite, FS_AddElement
  <1>4. QED
    BY <1>1, <1>3, HoldersFinite

LEMMA HoldersShrink ==
  ASSUME TypeOK, NEW c \in Uses, NEW v \in Vouchers, use[c] = "held",
         use' = [use EXCEPT ![c] = "released"]
  PROVE  Cardinality(Holders(v)') =
            Cardinality(Holders(v)) - (IF VoucherOf[c] = v THEN 1 ELSE 0)
  <1>1. Holders(v)' = IF VoucherOf[c] = v THEN Holders(v) \ {c} ELSE Holders(v)
    BY DEF Holders, TypeOK
  <1>2. VoucherOf[c] = v => c \in Holders(v)
    BY DEF Holders
  <1>3. VoucherOf[c] = v =>
           Cardinality(Holders(v) \ {c}) = Cardinality(Holders(v)) - 1
    BY <1>2, HoldersFinite, FS_RemoveElement
  <1>4. QED
    BY <1>1, <1>3, HoldersFinite

LEMMA HoldersStay ==
  ASSUME TypeOK, NEW c \in Uses, NEW v \in Vouchers,
         \/ use[c] = "none" /\ use' = [use EXCEPT ![c] = "checked"]
         \/ use[c] \in {"none", "checked"} /\ use' = [use EXCEPT ![c] = "refused"]
         \/ use[c] = "held" /\ use' = [use EXCEPT ![c] = "kept"]
  PROVE  Holders(v)' = Holders(v)
  BY DEF Holders, TypeOK

LEMMA InitUsed == Init => UsedIsHolders
  <1> SUFFICES ASSUME Init, NEW v \in Vouchers PROVE used[v] = Cardinality(Holders(v))
    BY DEF UsedIsHolders
  <1>1. Holders(v) = {} /\ used[v] = 0
    BY DEF Holders, Init
  <1>2. QED
    BY <1>1, FS_EmptySet

LEMMA NextUsed == TypeOK /\ UsedIsHolders /\ [Next]_vars => UsedIsHolders'
  <1> SUFFICES ASSUME TypeOK, UsedIsHolders, [Next]_vars, NEW v \in Vouchers
               PROVE  used'[v] = Cardinality(Holders(v)')
    BY DEF UsedIsHolders
  <1>1. used[v] = Cardinality(Holders(v)) /\ used \in [Vouchers -> Int]
    BY DEF UsedIsHolders, TypeOK
  <1>2. ASSUME NEW c \in Uses, Increment(c) PROVE used'[v] = Cardinality(Holders(v)')
    <2>1. PICK s \in {"held", "lost"} : use' = [use EXCEPT ![c] = s]
      BY <1>2 DEF Increment
    <2>2. used'[v] = used[v] + (IF VoucherOf[c] = v THEN 1 ELSE 0)
      BY <1>1, <1>2, VouchersAssumption DEF Increment
    <2>3. Cardinality(Holders(v)') =
             Cardinality(Holders(v)) + (IF VoucherOf[c] = v THEN 1 ELSE 0)
      BY <1>2, <2>1, HoldersGrow DEF Increment
    <2>4. QED
      BY <1>1, <2>2, <2>3
  <1>3. ASSUME NEW c \in Uses, Release(c) PROVE used'[v] = Cardinality(Holders(v)')
    <2>1. used'[v] = used[v] - (IF VoucherOf[c] = v THEN 1 ELSE 0)
      BY <1>1, <1>3, VouchersAssumption DEF Release
    <2>2. Cardinality(Holders(v)') =
             Cardinality(Holders(v)) - (IF VoucherOf[c] = v THEN 1 ELSE 0)
      BY <1>3, HoldersShrink DEF Release
    <2>3. QED
      BY <1>1, <2>1, <2>2
  <1>4. ASSUME NEW c \in Uses,
               Check(c) \/ Refuse(c) \/ IncrementFails(c) \/ ReleaseFails(c)
        PROVE  used'[v] = Cardinality(Holders(v)')
    BY <1>1, <1>4, HoldersStay DEF Check, Refuse, IncrementFails, ReleaseFails
  <1>5. CASE UNCHANGED <<used, use>>
    BY <1>1, <1>5 DEF Holders
  <1>6. QED
    BY <1>2, <1>3, <1>4, <1>5
    DEF Next, Checkouts, Create, EditRead, EditWrite, OpenOrClose, Delete, vars

\* However checkouts and admin interleave, usedCount is the number of checkouts
\* that took a use and did not give it back.
THEOREM CountExact == Spec => []UsedIsHolders
  BY InitTypeOK, NextTypeOK, InitUsed, NextUsed, PTL DEF Spec

-----------------------------------------------------------------------------
LEMMA CountersInt ==
  ASSUME TypeOK, NEW v \in Vouchers PROVE used[v] \in Int /\ limit[v] \in Int
  <1>1. limit[v] \in Limits
    BY DEF TypeOK
  <1>2. limit[v] \in Nat
    BY <1>1, VouchersAssumption
  <1>3. QED
    BY <1>2 DEF TypeOK

LEMMA StepExhausted ==
  ASSUME TypeOK, [Next]_vars, NEW v \in Vouchers, Exhausted(v)
  PROVE  Exhausted(v)' \/ used'[v] < limit'[v]
  <1> USE VouchersAssumption
  <1>0. /\ used[v] \in Int /\ limit[v] \in Int /\ used[v] >= limit[v]
        /\ \A c \in Uses : VoucherOf[c] = v => use[c] # "checked"
    BY CountersInt DEF Exhausted
  <1>t. TypeOK'
    BY NextTypeOK
  <1>1. ASSUME NEW c \in Uses, Checkouts(c)
        PROVE  Exhausted(v)' \/ used'[v] < limit'[v]
    <2>1. VoucherOf[c] # v => used'[v] = used[v]
      BY <1>1 DEF Checkouts, Check, Refuse, Increment, IncrementFails, Release,
                  ReleaseFails, TypeOK
    <2>2. limit' = limit
      BY <1>1 DEF Checkouts, Check, Refuse, Increment, IncrementFails, Release,
                  ReleaseFails, admin
    <2>3. CASE VoucherOf[c] # v
      <3>1. \A d \in Uses : VoucherOf[d] = v => use'[d] = use[d]
        BY <1>1, <2>3 DEF Checkouts, Check, Refuse, Increment, IncrementFails, Release,
                          ReleaseFails, TypeOK
      <3>2. QED
        BY <1>0, <2>1, <2>2, <2>3, <3>1 DEF Exhausted
    <2>4. CASE VoucherOf[c] = v
      <3>1. ~Check(c) /\ ~Increment(c)
        BY <1>0, <2>4 DEF Check, Accepted, Increment
      <3>2. \A d \in Uses : VoucherOf[d] = v => use'[d] # "checked"
        BY <1>0, <1>1, <3>1 DEF Checkouts, Refuse, IncrementFails, Release,
                                ReleaseFails, TypeOK
      <3>3. CASE used'[v] = used[v]
        BY <1>0, <2>2, <3>2, <3>3 DEF Exhausted
      <3>4. CASE used'[v] # used[v]
        <4>1. used'[v] \in Int
          BY <1>t DEF TypeOK
        <4>2. QED
          BY <1>0, <2>2, <3>2, <4>1 DEF Exhausted
      <3>5. QED
        BY <3>3, <3>4
    <2>5. QED
      BY <2>3, <2>4
  <1>2. CASE UNCHANGED use /\ UNCHANGED used
    <2>1. limit'[v] \in Int
      <3>1. limit'[v] \in Limits
        BY <1>t DEF TypeOK
      <3>2. limit'[v] \in Nat
        BY <3>1
      <3>3. QED
        BY <3>2
    <2>2. QED
      BY <1>0, <1>2, <2>1 DEF Exhausted
  <1>3. QED
    BY <1>1, <1>2 DEF Next, Create, EditRead, EditWrite, OpenOrClose, Delete, vars

\* A voucher whose last checks are through stays exhausted until a use is
\* given back or the limit is raised.
THEOREM ExhaustedIsFinal == Spec => ExhaustedStays
  <1>1. TypeOK /\ [Next]_vars =>
           [\A v \in Vouchers : Exhausted(v) => Exhausted(v)' \/ used'[v] < limit'[v]]_vars
    BY StepExhausted
  <1>2. QED
    BY <1>1, VouchersTyped, PTL DEF Spec, ExhaustedStays

-----------------------------------------------------------------------------
(* Why a limit is exceeded. WithinLimit fails in the run voucher_limit; the *)
(* check and the increment being two statements is the only reason.         *)

Checked(v) == {c \in Uses : VoucherOf[c] = v /\ use[c] = "checked"}

\* Of one voucher: the check of a checkout and its increment, with nothing else
\* in between, neither another checkout nor an update that was validated before.
OneAtATime ==
    \A v \in Vouchers : \A c \in Checked(v) :
        Checked(v) = {c} /\ \A e \in edits : e.voucher # v

\* A use that was granted fits in, and so does what an update has validated.
Fits ==
    \A v \in Vouchers :
        /\ used[v] <= limit[v]
        /\ \A c \in Uses : VoucherOf[c] = v /\ use[c] = "checked" => used[v] < limit[v]
        /\ \A e \in edits : e.voucher = v => used[v] <= e.limit
        /\ row[v] = "none" => used[v] = 0

LEMMA LimitsInt == ASSUME NEW n \in Limits PROVE n \in Int /\ 0 < n
  BY VouchersAssumption

LEMMA InitFits == Init => Fits
  <1> SUFFICES ASSUME Init, NEW v \in Vouchers
               PROVE  /\ used[v] <= limit[v] /\ used[v] = 0
                      /\ \A c \in Uses : use[c] = "none"
                      /\ edits = {}
    BY DEF Fits, Init
  <1>1. limit[v] \in Limits
    BY DEF Init
  <1>2. QED
    BY <1>1, LimitsInt DEF Init

LEMMA NextFits == TypeOK /\ OneAtATime /\ Fits /\ [Next]_vars => Fits'
  <1> SUFFICES ASSUME TypeOK, OneAtATime, Fits, [Next]_vars, NEW v \in Vouchers
               PROVE  /\ used'[v] <= limit'[v]
                      /\ \A c \in Uses : VoucherOf[c] = v /\ use'[c] = "checked"
                                            => used'[v] < limit'[v]
                      /\ \A e \in edits' : e.voucher = v => used'[v] <= e.limit
                      /\ row'[v] = "none" => used'[v] = 0
    BY DEF Fits
  <1> DEFINE Goal == /\ used'[v] <= limit'[v]
                     /\ \A c \in Uses : VoucherOf[c] = v /\ use'[c] = "checked"
                                           => used'[v] < limit'[v]
                     /\ \A e \in edits' : e.voucher = v => used'[v] <= e.limit
                     /\ row'[v] = "none" => used'[v] = 0
  <1>0. /\ used[v] \in Int /\ limit[v] \in Int
        /\ used[v] <= limit[v]
        /\ \A c \in Uses : VoucherOf[c] = v /\ use[c] = "checked" => used[v] < limit[v]
        /\ \A e \in edits : e.voucher = v => used[v] <= e.limit
        /\ row[v] = "none" => used[v] = 0
    BY CountersInt DEF Fits
  <1>e. \A e \in edits : e.limit \in Int
    BY LimitsInt DEF TypeOK
  <1> USE DEF TypeOK
  <1>1. ASSUME NEW c \in Uses, Check(c) PROVE Goal
    BY <1>0, <1>1, VouchersAssumption DEF Check, Accepted, admin
  <1>2. ASSUME NEW c \in Uses, Refuse(c) \/ IncrementFails(c) \/ ReleaseFails(c) PROVE Goal
    BY <1>0, <1>2 DEF Refuse, IncrementFails, ReleaseFails, admin
  <1>3. ASSUME NEW c \in Uses, Increment(c) PROVE Goal
    <2>1. PICK s \in {"held", "lost"} : use' = [use EXCEPT ![c] = s]
      BY <1>3 DEF Increment
    <2>2. row' = row /\ limit' = limit /\ edits' = edits /\ use[c] = "checked"
          /\ row[VoucherOf[c]] = "present"
      BY <1>3 DEF Increment, admin, Present
    <2>3. CASE VoucherOf[c] = v
      <3>1. used'[v] = used[v] + 1
        BY <1>3, <2>3 DEF Increment
      <3>2. used[v] < limit[v]
        BY <1>0, <2>2, <2>3
      <3>3. Checked(v) = {c} /\ \A e \in edits : e.voucher # v
        BY <2>2, <2>3 DEF OneAtATime, Checked
      <3>4. \A d \in Uses : VoucherOf[d] = v => use'[d] # "checked"
        BY <2>1, <3>3 DEF Checked
      <3>5. used'[v] <= limit'[v]
        BY <1>0, <2>2, <3>1, <3>2
      <3>6. QED
        BY <2>2, <2>3, <3>3, <3>4, <3>5
    <2>4. CASE VoucherOf[c] # v
      <3>1. used'[v] = used[v]
        BY <1>3, <2>4 DEF Increment
      <3>2. \A d \in Uses : use'[d] = "checked" => use[d] = "checked"
        BY <2>1
      <3>3. QED
        BY <1>0, <2>2, <3>1, <3>2
    <2>5. QED
      BY <2>3, <2>4
  <1>4. ASSUME NEW c \in Uses, Release(c) PROVE Goal
    <2>1. row' = row /\ limit' = limit /\ edits' = edits /\ row[VoucherOf[c]] = "present"
      BY <1>4 DEF Release, admin, Present
    <2>2. used'[v] = used[v] \/ used'[v] = used[v] - 1
      BY <1>4, VouchersAssumption DEF Release
    <2>3. VoucherOf[c] # v => used'[v] = used[v]
      BY <1>4 DEF Release
    <2>4. \A d \in Uses : use'[d] = "checked" => use[d] = "checked"
      BY <1>4 DEF Release
    <2>5. used'[v] \in Int /\ used'[v] <= used[v]
      BY <1>0, <2>2
    <2>6. QED
      BY <1>0, <1>e, <2>1, <2>3, <2>4, <2>5
  <1>5. ASSUME NEW w \in Vouchers, Create(w) PROVE Goal
    <2>1. PICK n \in Limits : limit' = [limit EXCEPT ![w] = n]
      BY <1>5 DEF Create
    <2>2. QED
      BY <1>0, <1>5, <2>1, LimitsInt DEF Create
  <1>6. ASSUME NEW w \in Vouchers, EditRead(w) PROVE Goal
    <2>1. PICK n \in Limits : n >= used[w] /\ edits' = edits \cup {[voucher |-> w, limit |-> n]}
      BY <1>6 DEF EditRead
    <2>2. n \in Int
      BY LimitsInt
    <2>3. \A e \in edits' : e.voucher = v => used[v] <= e.limit
      BY <1>0, <2>1, <2>2
    <2>4. QED
      BY <1>0, <1>6, <2>3 DEF EditRead
  <1>7. ASSUME NEW e \in edits, EditWrite(e) PROVE Goal
    <2>1. \/ limit'[v] = limit[v]
          \/ limit'[v] = e.limit /\ e.voucher = v
      BY <1>7 DEF EditWrite
    <2>2. e.voucher = v => \A c \in Uses : VoucherOf[c] = v => use[c] # "checked"
      BY DEF OneAtATime, Checked
    <2>3. row' = row /\ used' = used /\ use' = use /\ edits' \subseteq edits
      BY <1>7 DEF EditWrite
    <2>4. QED
      BY <1>0, <2>1, <2>2, <2>3
  <1>8. ASSUME NEW w \in Vouchers, OpenOrClose(w) \/ Delete(w) PROVE Goal
    BY <1>0, <1>8 DEF OpenOrClose, Delete
  <1>9. CASE UNCHANGED vars
    BY <1>0, <1>9 DEF vars
  <1>10. QED
    BY <1>1, <1>2, <1>3, <1>4, <1>5, <1>6, <1>7, <1>8, <1>9 DEF Next, Checkouts

\* No voucher is used beyond its limit in a behaviour in which nothing comes
\* between the check of a checkout and its increment: neither of the two races,
\* checkout against checkout and checkout against the administrator, leaves a
\* third way past validateVoucherForOrder.
THEOREM LimitHeldOneAtATime == Spec /\ []OneAtATime => []WithinLimit
  <1>1. Fits => WithinLimit
    BY DEF Fits, WithinLimit
  <1>2. QED
    BY <1>1, InitFits, NextFits, VouchersTyped, PTL DEF Spec
=============================================================================
