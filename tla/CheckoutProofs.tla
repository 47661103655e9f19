---------------------------- MODULE CheckoutProofs ----------------------------
(***************************************************************************)
(* The checkout saga implements the atomic checkout, for any number of     *)
(* buyers, books, vouchers and lines.                                      *)
(*                                                                         *)
(* What is proved of the inventory and of the vouchers on their own holds  *)
(* in the saga because each of its steps is one of theirs, or leaves their *)
(* variables alone. What is added here is where a request that met no fault *)
(* can be, and what it has left behind by then.                            *)
(***************************************************************************)
EXTENDS Checkout, FiniteSetTheorems, TLAPS

IP == INSTANCE InventoryProofs WITH Jobs <- {JobOf(t) : t \in Tx}
VP == INSTANCE VouchersProofs WITH Uses <- Buyers

-----------------------------------------------------------------------------
(* The stock transactions of the requests are runs of the inventory.       *)

LEMMA ItemsTyped ==
  ASSUME NEW r \in Buyers
  PROVE  /\ DOMAIN Items[r] = 1 .. Len(Items[r]) /\ Len(Items[r]) \in Nat
         /\ \A i \in DOMAIN Items[r] : Items[r][i].book \in Books /\ Items[r][i].qty \in Nat
  <1> DEFINE item == [book : Books, qty : Nat]
  <1>1. Items[r] \in Seq(item)
    BY CheckoutAssumption
  <1>2. \A i \in item : i.book \in Books /\ i.qty \in Nat
    OBVIOUS
  <1> HIDE DEF item
  <1>3. QED
    BY <1>1, <1>2

LEMMA JobsTyped == {JobOf(t) : t \in Tx} \subseteq IP!Job
  <1> SUFFICES ASSUME NEW t \in Tx PROVE JobOf(t) \in IP!Job
    OBVIOUS
  <1> DEFINE r == t[1]
  <1>1. r \in Buyers
    BY DEF Tx
  <1> DEFINE f == [i \in DOMAIN Items[r] |->
                      [book |-> Items[r][i].book,
                       change |-> IF t[2] = "reserve" THEN -Items[r][i].qty
                                                      ELSE Items[r][i].qty]]
  <1>2. \A i \in DOMAIN Items[r] : f[i] \in IP!Line
    <2> SUFFICES ASSUME NEW i \in DOMAIN Items[r] PROVE f[i] \in IP!Line
      OBVIOUS
    <2>1. Items[r][i].book \in Books /\ Items[r][i].qty \in Nat
      BY <1>1, ItemsTyped
    <2>2. QED
      BY <2>1 DEF IP!Line
  <1>3. f = [i \in DOMAIN Items[r] |-> f[i]]
    OBVIOUS
  <1>4. JobOf(t) = [lines |-> f, skipMissing |-> t[2] = "release"]
    BY DEF JobOf
  <1> HIDE DEF f
  <1>5. f \in [1 .. Len(Items[r]) -> IP!Line]
    BY <1>1, <1>2, <1>3, ItemsTyped
  <1>6. f \in Seq(IP!Line)
    <2> DEFINE n == Len(Items[r])
    <2>1. n \in Nat /\ f \in [1 .. n -> IP!Line]
      BY <1>1, <1>5, ItemsTyped
    <2> HIDE DEF n
    <2>2. QED
      BY <2>1
  <1>7. QED
    BY <1>4, <1>6 DEF IP!Job

LEMMA InventoryHolds == IP!InventoryAssumption
  BY JobsTyped, CheckoutAssumption DEF IP!Job, IP!Line

LEMMA VouchersHold == VP!VouchersAssumption
  BY CheckoutAssumption DEF IsFiniteSet, VP!IsFiniteSet

LEMMA InitStock == Init => IP!Init
  BY DEF Init, IP!Init, I!InitTables, IP!InitTables, I!InitTx, IP!InitTx, I!FirstLog, IP!FirstLog,
         I!NoSnapshot, IP!NoSnapshot, I!NoEntry, IP!NoEntry

LEMMA InitVouchers == Init => VP!Init
  BY DEF Init, V!Init, VP!Init

\* One step of a stock transaction.
LEMMA StockStepIs ==
  ASSUME NEW t \in Tx, I!Begin(t) \/ I!Step(t) \/ I!Abort(t) \/ I!DeadlockVictim(t)
  PROVE  IP!Begin(t) \/ IP!Step(t) \/ IP!Abort(t) \/ IP!DeadlockVictim(t)
  <1> USE DEF I!tableVars, IP!tableVars, I!Current, IP!Current, I!HasLine, IP!HasLine,
              I!View, IP!View, I!Committed, IP!Committed, I!LetGo, IP!LetGo,
              I!NoEntry, IP!NoEntry, I!NoSnapshot, IP!NoSnapshot, I!RollBack, IP!RollBack,
              I!SameRow, IP!SameRow
  <1>1. I!Begin(t) => IP!Begin(t)
    BY DEF I!Begin, IP!Begin
  <1>2. I!ReadLine(t) => IP!ReadLine(t)
    BY DEF I!ReadLine, IP!ReadLine
  <1>3. I!SkipLine(t) => IP!SkipLine(t)
    BY DEF I!SkipLine, IP!SkipLine
  <1>4. I!RejectLine(t) => IP!RejectLine(t)
    BY DEF I!RejectLine, IP!RejectLine
  <1>5. I!WriteLine(t) => IP!WriteLine(t)
    BY DEF I!WriteLine, IP!WriteLine
  <1>6. I!WriteGone(t) => IP!WriteGone(t)
    BY DEF I!WriteGone, IP!WriteGone
  <1>7. I!Commit(t) => IP!Commit(t)
    BY DEF I!Commit, IP!Commit
  <1>8. I!Abort(t) => IP!Abort(t)
    BY DEF I!Abort, IP!Abort, I!Active, IP!Active
  <1>9. I!DeadlockVictim(t) => IP!DeadlockVictim(t)
    BY DEF I!DeadlockVictim, IP!DeadlockVictim, I!InDeadlock, IP!InDeadlock, I!Waits, IP!Waits
  <1>10. QED
    BY <1>1, <1>2, <1>3, <1>4, <1>5, <1>6, <1>7, <1>8, <1>9 DEF I!Step, IP!Step

LEMMA VoucherStepIs ==
  ASSUME NEW r \in Buyers, \/ V!Check(r) \/ V!Refuse(r) \/ V!Increment(r) \/ V!IncrementFails(r)
                           \/ V!Release(r) \/ V!ReleaseFails(r)
  PROVE  VP!Checkouts(r)
  BY DEF V!Check, VP!Check, V!Refuse, VP!Refuse, V!Increment, VP!Increment, V!IncrementFails,
         VP!IncrementFails, V!Release, VP!Release, V!ReleaseFails, VP!ReleaseFails,
         VP!Checkouts, V!Accepted, VP!Accepted, V!Present, VP!Present, V!admin, VP!admin

\* What a step of the saga is to the inventory and to the vouchers.
LEMMA StepIs ==
  ASSUME [Next]_vars
  PROVE  /\ \/ UNCHANGED stockVars
            \/ /\ \E r \in Buyers, k \in {"reserve", "release"} :
                     \/ IP!Begin(<<r, k>>) \/ IP!Step(<<r, k>>)
                     \/ IP!Abort(<<r, k>>) \/ IP!DeadlockVictim(<<r, k>>)
               /\ UNCHANGED voucherVars
         /\ \/ UNCHANGED voucherVars
            \/ \E r \in Buyers : VP!Checkouts(r)
            \/ \E v \in Vouchers : VP!Delete(v)
  <1>1. ASSUME NEW r \in Buyers, StockStep(r) \/ StockAborted(r)
        PROVE  /\ \E k \in {"reserve", "release"} :
                     \/ IP!Begin(<<r, k>>) \/ IP!Step(<<r, k>>)
                     \/ IP!Abort(<<r, k>>) \/ IP!DeadlockVictim(<<r, k>>)
               /\ UNCHANGED voucherVars
    <2>1. \A k \in {"reserve", "release"} : <<r, k>> \in Tx
      BY DEF Tx
    <2>2. PICK k \in {"reserve", "release"} :
             \/ I!Begin(<<r, k>>) \/ I!Step(<<r, k>>)
             \/ I!Abort(<<r, k>>) \/ I!DeadlockVictim(<<r, k>>)
      BY <1>1 DEF StockStep, StockAborted
    <2>3. UNCHANGED voucherVars
      BY <1>1 DEF StockStep, StockAborted
    <2>4. QED
      BY <2>1, <2>2, <2>3, StockStepIs
  <1>2. ASSUME NEW r \in Buyers, ApplyVoucher(r)
        PROVE  UNCHANGED stockVars /\ VP!Checkouts(r)
    BY <1>2, VoucherStepIs DEF ApplyVoucher
  <1>3. ASSUME NEW r \in Buyers, GiveVoucherBack(r)
        PROVE  UNCHANGED stockVars /\ (VP!Checkouts(r) \/ UNCHANGED voucherVars)
    BY <1>3, VoucherStepIs DEF GiveVoucherBack
  <1>4. ASSUME NEW r \in Buyers,
               \/ Precheck(r) \/ Reserved(r) \/ CreateOrderRecord(r) \/ CreateOrderFails(r)
               \/ Restocked(r) \/ Crash(r)
        PROVE  UNCHANGED stockVars /\ UNCHANGED voucherVars
    BY <1>4 DEF Precheck, Reserved, CreateOrderRecord, CreateOrderFails, Restocked, Crash
  <1>5. ASSUME VoucherDeleted
        PROVE  UNCHANGED stockVars /\ \E v \in Vouchers : VP!Delete(v)
    BY <1>5 DEF VoucherDeleted, V!Delete, VP!Delete, V!Present, VP!Present
  <1>6. ASSUME UNCHANGED vars
        PROVE  UNCHANGED stockVars /\ UNCHANGED voucherVars
    BY <1>6 DEF vars
  <1>7. QED
    BY <1>1, <1>2, <1>3, <1>4, <1>5, <1>6 DEF Next, Progress

LEMMA SpecParts == Spec => IP!Spec /\ VP!Spec
  <1>1. [Next]_vars => [IP!Next]_(IP!vars)
    <2> SUFFICES ASSUME [Next]_vars PROVE [IP!Next]_(IP!vars)
      OBVIOUS
    <2>1. CASE UNCHANGED stockVars
      BY <2>1 DEF stockVars, IP!vars, IP!tableVars, IP!txVars
    <2>2. CASE \E r \in Buyers, k \in {"reserve", "release"} :
                  \/ IP!Begin(<<r, k>>) \/ IP!Step(<<r, k>>)
                  \/ IP!Abort(<<r, k>>) \/ IP!DeadlockVictim(<<r, k>>)
      BY <2>2 DEF IP!Next, Tx
    <2>3. QED
      BY <2>1, <2>2, StepIs
  <1>2. [Next]_vars => [VP!Next]_(VP!vars)
    BY StepIs DEF VP!Next, voucherVars, VP!vars
  <1>3. QED
    BY <1>1, <1>2, InitStock, InitVouchers, PTL DEF Spec, IP!Spec, VP!Spec

LEMMA SpecStock == Spec => [](IP!IInv /\ IP!Kept)
  <1>1. IP!Spec => []IP!IInv
    BY InventoryHolds, IP!SpecIInv
  <1>2. IP!Spec => []IP!Kept
    BY InventoryHolds, IP!SpecKept
  <1>3. QED
    BY <1>1, <1>2, SpecParts, PTL

LEMMA SpecVouchers == Spec => [](VP!TypeOK /\ VP!UsedIsHolders)
  <1>1. VP!Spec => []VP!TypeOK
    BY VouchersHold, VP!VouchersTyped
  <1>2. VP!Spec => []VP!UsedIsHolders
    BY VouchersHold, VP!CountExact
  <1>3. QED
    BY <1>1, <1>2, SpecParts, PTL

-----------------------------------------------------------------------------
(* Where the requests are.                                                 *)

Place == {"idle", "reading", "writing", "committed", "failed"}

\* Nobody creates or deletes a stock row during a checkout, so a snapshot shows
\* the rows there are; the jobs are those of the requests.
SameTables ==
    /\ job = [t \in Tx |-> JobOf(t)]
    /\ \A t \in Tx : snap[t].seen = -1 \/ (snap[t].rows = rows /\ snap[t].epoch = epoch)

\* What a request that met no fault has done by the stage it is at: the order of
\* the saga's steps and of its compensations.
Course(r) ==
    LET taken == pc[<<r, "reserve">>]
        given == pc[<<r, "release">>]
    IN  /\ r \in orders <=> stage[r] = "done"
        /\ stage[r] # "crashed"
        /\ stage[r] \in {"idle", "voucher"} => taken = "idle"
        /\ stage[r] \in {"record", "undoStock", "done"} => taken = "committed"
        /\ stage[r] \in {"idle", "voucher", "reserve", "record", "done"} => given = "idle"
        /\ stage[r] \in {"undoVoucher", "failed"} =>
              \/ taken = "committed" /\ given = "committed"
              \/ taken \in {"idle", "failed"} /\ given = "idle"
        /\ stage[r] = "idle" => use[r] = "none"
        /\ stage[r] = "voucher" => use[r] \in {"none", "checked"}
        /\ stage[r] \in {"reserve", "record", "undoStock", "undoVoucher", "done"} =>
              use[r] \in {"none", "held"}
        /\ stage[r] = "failed" => use[r] \in {"none", "refused", "released"}

OnCourse == \A r \in Buyers : r \notin faulty => Course(r)

SagaTypes ==
    /\ stage \in [Buyers -> Stage]
    /\ orders \subseteq Buyers
    /\ faulty \subseteq Buyers

SagaInv == SagaTypes /\ SameTables /\ OnCourse

\* What the steps of the other requests leave of a request.
Left(r) ==
    /\ stage'[r] = stage[r]
    /\ pc'[<<r, "reserve">>] = pc[<<r, "reserve">>]
    /\ pc'[<<r, "release">>] = pc[<<r, "release">>]
    /\ use'[r] = use[r]
    /\ r \in orders' <=> r \in orders

LEMMA LeftCourse == ASSUME NEW r \in Buyers, Course(r), Left(r) PROVE Course(r)'
  BY DEF Course, Left

LEMMA TxOf ==
  /\ \A r \in Buyers : <<r, "reserve">> \in Tx /\ <<r, "release">> \in Tx
  /\ \A t \in Tx : \E r \in Buyers : t = <<r, "reserve">> \/ t = <<r, "release">>
  /\ \A r, q \in Buyers : r # q => /\ <<r, "reserve">> # <<q, "reserve">>
                                   /\ <<r, "reserve">> # <<q, "release">>
                                   /\ <<r, "release">> # <<q, "reserve">>
                                   /\ <<r, "release">> # <<q, "release">>
  /\ \A r \in Buyers : <<r, "reserve">> # <<r, "release">>
  BY DEF Tx

LEMMA InitSaga == Init => SagaInv
  <1> SUFFICES ASSUME Init PROVE SagaInv
    OBVIOUS
  <1>1. /\ stage = [r \in Buyers |-> "idle"] /\ orders = {} /\ faulty = {}
        /\ job = [t \in Tx |-> JobOf(t)]
        /\ use = [r \in Buyers |-> "none"]
        /\ pc = [t \in Tx |-> "idle"]
        /\ snap = [t \in Tx |-> I!NoSnapshot]
    BY DEF Init, V!Init, I!InitTx
  <1>2. SagaTypes
    BY <1>1 DEF SagaTypes, Stage
  <1>3. I!NoSnapshot.seen = -1
    BY DEF I!NoSnapshot
  <1>4. SameTables
    BY <1>1, <1>3 DEF SameTables
  <1>5. OnCourse
    BY <1>1, TxOf DEF OnCourse, Course
  <1>6. QED
    BY <1>2, <1>4, <1>5 DEF SagaInv

\* A step of a stock transaction moves that transaction only, and leaves the rows.
LEMMA StockMoves ==
  ASSUME IP!TypeOK, NEW t \in Tx,
         IP!Begin(t) \/ IP!Step(t) \/ IP!Abort(t) \/ IP!DeadlockVictim(t)
  PROVE  /\ UNCHANGED <<rows, epoch, job>>
         /\ \A u \in Tx \ {t} : pc'[u] = pc[u] /\ snap'[u] = snap[u]
         /\ \/ snap'[t] = snap[t]
            \/ snap'[t] = IP!View(t)
            \/ snap'[t] = IP!NoSnapshot
         /\ pc[t] \in {"idle", "reading", "writing"}
         /\ pc' \in [Tx -> Place]
  <1> USE DEF IP!TypeOK, IP!tableVars, Place
  <1>1. CASE IP!Begin(t)
    BY <1>1 DEF IP!Begin
  <1>2. CASE IP!ReadLine(t)
    BY <1>2 DEF IP!ReadLine
  <1>3. CASE IP!SkipLine(t)
    BY <1>3 DEF IP!SkipLine
  <1>4. CASE IP!WriteLine(t)
    BY <1>4 DEF IP!WriteLine
  <1>5. CASE IP!Commit(t)
    BY <1>5 DEF IP!Commit
  <1>6. CASE pc[t] \in {"reading", "writing"} /\ IP!RollBack(t)
    BY <1>6 DEF IP!RollBack
  <1>7. ASSUME IP!RejectLine(t) \/ IP!WriteGone(t) \/ IP!Abort(t) \/ IP!DeadlockVictim(t)
        PROVE  pc[t] \in {"reading", "writing"} /\ IP!RollBack(t)
    BY <1>7 DEF IP!RejectLine, IP!WriteGone, IP!Abort, IP!DeadlockVictim, IP!InDeadlock, IP!Active
  <1>8. QED
    BY <1>1, <1>2, <1>3, <1>4, <1>5, <1>6, <1>7 DEF IP!Step

\* The same of a request's use of its voucher.
LEMMA UseMoves ==
  ASSUME VP!TypeOK, NEW r \in Buyers, VP!Checkouts(r)
  PROVE  /\ \A q \in Buyers \ {r} : use'[q] = use[q]
         /\ \/ use[r] = "none" /\ use'[r] \in {"checked", "refused"}
            \/ use[r] = "checked" /\ use'[r] \in {"held", "lost", "refused"}
            \/ use[r] = "held" /\ use'[r] \in {"released", "kept"}
  BY DEF VP!TypeOK, VP!Checkouts, VP!Check, VP!Refuse, VP!Increment, VP!IncrementFails,
         VP!Release, VP!ReleaseFails

LEMMA TablesKept ==
  ASSUME IP!TypeOK, SameTables, [Next]_vars
  PROVE  SameTables'
  <1>1. CASE UNCHANGED stockVars
    BY <1>1 DEF SameTables, stockVars
  <1>2. ASSUME NEW r \in Buyers, NEW k \in {"reserve", "release"},
               \/ IP!Begin(<<r, k>>) \/ IP!Step(<<r, k>>)
               \/ IP!Abort(<<r, k>>) \/ IP!DeadlockVictim(<<r, k>>)
        PROVE  SameTables'
    <2> DEFINE t == <<r, k>>
    <2>1. t \in Tx
      BY DEF Tx
    <2> HIDE DEF t
    <2>2. IP!Begin(t) \/ IP!Step(t) \/ IP!Abort(t) \/ IP!DeadlockVictim(t)
      BY <1>2 DEF t
    <2>3. /\ UNCHANGED <<rows, epoch, job>>
          /\ \A u \in Tx \ {t} : snap'[u] = snap[u]
          /\ \/ snap'[t] = snap[t]
             \/ snap'[t] = IP!View(t)
             \/ snap'[t] = IP!NoSnapshot
      BY <2>1, <2>2, StockMoves
    <2>4. \/ snap'[t].seen = -1
          \/ snap'[t].rows = rows /\ snap'[t].epoch = epoch
      BY <2>1, <2>3 DEF SameTables, IP!View, IP!Committed, IP!NoSnapshot
    <2>5. QED
      BY <2>1, <2>3, <2>4 DEF SameTables
  <1>3. QED
    BY <1>1, <1>2, StepIs

\* A request changes its own stage.
LEMMA GoIs ==
  ASSUME SagaTypes, NEW r \in Buyers, NEW s \in Stage, Go(r, s)
  PROVE  /\ stage' \in [Buyers -> Stage] /\ stage'[r] = s
         /\ \A q \in Buyers \ {r} : stage'[q] = stage[q]
  BY DEF SagaTypes, Go

\* The steps that are of one request only, and touch neither stock nor voucher.
LEMMA PlainLeft ==
  ASSUME SagaTypes, NEW r \in Buyers, NEW s \in Stage, Go(r, s), Fault(r) \/ NoFault,
         UNCHANGED <<stockVars, voucherVars>>,
         orders' \in {orders, orders \cup {r}}
  PROVE  /\ \A q \in Buyers \ {r} : Left(q)
         /\ faulty' \in {faulty, faulty \cup {r}}
         /\ SagaTypes'
         /\ stage'[r] = s
         /\ UNCHANGED <<pc, use>>
  BY GoIs DEF SagaTypes, Left, Fault, NoFault, stockVars, voucherVars

LEMMA PlainCourse ==
  ASSUME SagaInv, NEW r \in Buyers,
         \/ Precheck(r) \/ Reserved(r) \/ CreateOrderRecord(r) \/ CreateOrderFails(r)
         \/ Restocked(r) \/ Crash(r)
  PROVE  /\ \A q \in Buyers \ {r} : Left(q)
         /\ faulty' \in {faulty, faulty \cup {r}}
         /\ SagaTypes'
         /\ r \notin faulty' => Course(r)'
  <1> DEFINE Goal == /\ \A q \in Buyers \ {r} : Left(q)
                     /\ faulty' \in {faulty, faulty \cup {r}}
                     /\ SagaTypes'
                     /\ r \notin faulty' => Course(r)'
  <1>1. SagaTypes /\ (r \notin faulty => Course(r)) /\ stage[r] \in Stage
    BY DEF SagaInv, OnCourse, SagaTypes
  <1>2. CASE Precheck(r)
    <2>1. PICK s \in {"voucher", "reserve", "failed"} : Go(r, s)
      BY <1>2 DEF Precheck
    <2>2. /\ stage[r] = "idle" /\ s \in Stage /\ NoFault
          /\ UNCHANGED <<stockVars, voucherVars>> /\ orders' = orders
      BY <1>2, <2>1 DEF Precheck, Stage, Ended
    <2>3. /\ \A q \in Buyers \ {r} : Left(q)
          /\ faulty' \in {faulty, faulty \cup {r}}
          /\ SagaTypes'
          /\ stage'[r] = s /\ UNCHANGED <<pc, use>>
      BY <1>1, <2>1, <2>2, PlainLeft
    <2>4. faulty' = faulty
      BY <2>2 DEF NoFault
    <2>5. r \notin faulty' => Course(r)'
      BY <1>1, <2>2, <2>3, <2>4 DEF Course
    <2>6. QED
      BY <2>3, <2>5
  <1>3. CASE Reserved(r)
    <2>1. PICK s \in {"record", "undoVoucher"} :
             /\ Go(r, s) /\ (Fault(r) \/ NoFault)
             /\ s = "record" => pc[<<r, "reserve">>] = "committed"
             /\ s = "undoVoucher" => Fault(r) \/ pc[<<r, "reserve">>] = "failed"
      BY <1>3 DEF Reserved
    <2>2. /\ stage[r] = "reserve" /\ s \in Stage
          /\ UNCHANGED <<stockVars, voucherVars>> /\ orders' = orders
      BY <1>3, <2>1 DEF Reserved, Stage, Ended
    <2>3. /\ \A q \in Buyers \ {r} : Left(q)
          /\ faulty' \in {faulty, faulty \cup {r}}
          /\ SagaTypes'
          /\ stage'[r] = s /\ UNCHANGED <<pc, use>>
      BY <1>1, <2>1, <2>2, PlainLeft
    <2>4. r \notin faulty' => r \notin faulty /\ ~Fault(r)
      BY <2>3 DEF Fault
    <2>5. r \notin faulty' => Course(r)'
      BY <1>1, <2>1, <2>2, <2>3, <2>4 DEF Course
    <2>6. QED
      BY <2>3, <2>5
  <1>4. CASE CreateOrderRecord(r)
    <2>1. PICK s \in {"done", "undoStock"} :
             /\ Go(r, s) /\ (Fault(r) \/ NoFault)
             /\ s = "undoStock" => Fault(r)
      BY <1>4 DEF CreateOrderRecord
    <2>2. /\ stage[r] = "record" /\ s \in Stage
          /\ UNCHANGED <<stockVars, voucherVars>> /\ orders' = orders \cup {r}
      BY <1>4, <2>1 DEF CreateOrderRecord, Stage, Ended
    <2>3. /\ \A q \in Buyers \ {r} : Left(q)
          /\ faulty' \in {faulty, faulty \cup {r}}
          /\ SagaTypes'
          /\ stage'[r] = s /\ UNCHANGED <<pc, use>>
      BY <1>1, <2>1, <2>2, PlainLeft
    <2>4. r \notin faulty' => r \notin faulty /\ ~Fault(r)
      BY <2>3 DEF Fault
    <2>5. r \notin faulty' => Course(r)'
      BY <1>1, <2>1, <2>2, <2>3, <2>4 DEF Course
    <2>6. QED
      BY <2>3, <2>5
  <1>5. CASE CreateOrderFails(r)
    <2>1. /\ stage[r] = "record" /\ Go(r, "undoStock") /\ "undoStock" \in Stage /\ NoFault
          /\ UNCHANGED <<stockVars, voucherVars>> /\ orders' = orders
      BY <1>5 DEF CreateOrderFails, Stage
    <2>2. /\ \A q \in Buyers \ {r} : Left(q)
          /\ faulty' \in {faulty, faulty \cup {r}}
          /\ SagaTypes'
          /\ stage'[r] = "undoStock" /\ UNCHANGED <<pc, use>>
      BY <1>1, <2>1, PlainLeft
    <2>3. faulty' = faulty
      BY <2>1 DEF NoFault
    <2>4. r \notin faulty' => Course(r)'
      BY <1>1, <2>1, <2>2, <2>3 DEF Course
    <2>5. QED
      BY <2>2, <2>4
  <1>6. CASE Restocked(r)
    <2>1. /\ stage[r] = "undoStock" /\ Go(r, "undoVoucher") /\ "undoVoucher" \in Stage
          /\ pc[<<r, "release">>] = "committed" \/ Fault(r)
          /\ Fault(r) \/ NoFault
          /\ UNCHANGED <<stockVars, voucherVars>> /\ orders' = orders
      BY <1>6 DEF Restocked, Stage
    <2>2. /\ \A q \in Buyers \ {r} : Left(q)
          /\ faulty' \in {faulty, faulty \cup {r}}
          /\ SagaTypes'
          /\ stage'[r] = "undoVoucher" /\ UNCHANGED <<pc, use>>
      BY <1>1, <2>1, PlainLeft
    <2>3. r \notin faulty' => r \notin faulty /\ ~Fault(r)
      BY <2>2 DEF Fault
    <2>4. r \notin faulty' => Course(r)'
      BY <1>1, <2>1, <2>2, <2>3 DEF Course
    <2>5. QED
      BY <2>2, <2>4
  <1>7. CASE Crash(r)
    <2>1. /\ Go(r, "crashed") /\ "crashed" \in Stage /\ Fault(r)
          /\ UNCHANGED <<stockVars, voucherVars>> /\ orders' = orders
      BY <1>7 DEF Crash, Stage, Ended
    <2>2. /\ \A q \in Buyers \ {r} : Left(q)
          /\ faulty' \in {faulty, faulty \cup {r}}
          /\ SagaTypes'
      BY <1>1, <2>1, PlainLeft
    <2>3. r \in faulty'
      BY <2>1 DEF Fault
    <2>4. QED
      BY <2>2, <2>3
  <1>8. QED
    BY <1>2, <1>3, <1>4, <1>5, <1>6, <1>7

\* The steps that take a use of the voucher and give it back.
LEMMA VoucherCourse ==
  ASSUME VP!TypeOK, SagaInv, NEW r \in Buyers, ApplyVoucher(r) \/ GiveVoucherBack(r)
  PROVE  /\ \A q \in Buyers \ {r} : Left(q)
         /\ faulty' \in {faulty, faulty \cup {r}}
         /\ SagaTypes'
         /\ r \notin faulty' => Course(r)'
  <1>1. SagaTypes /\ (r \notin faulty => Course(r))
    BY DEF SagaInv, OnCourse
  <1>2. UNCHANGED stockVars /\ orders' = orders /\ UNCHANGED pc
    BY DEF ApplyVoucher, GiveVoucherBack, stockVars
  <1>3. CASE ApplyVoucher(r)
    <2>1. VP!Checkouts(r)
      BY <1>3, VoucherStepIs DEF ApplyVoucher
    <2>2. \A q \in Buyers \ {r} : use'[q] = use[q]
      BY <2>1, UseMoves
    <2>3. /\ use[r] \in {"none", "checked"}
          /\ use'[r] \in {"checked", "held", "refused", "lost"}
      BY <1>3 DEF ApplyVoucher, V!Check, V!Refuse, V!Increment, V!IncrementFails, VP!TypeOK
    <2>4. PICK s \in {"voucher", "reserve", "failed"} :
             /\ Go(r, s)
             /\ s = "voucher" => use'[r] = "checked"
             /\ s = "reserve" => use'[r] = "held"
             /\ s = "failed" => use'[r] \in {"refused", "lost"}
      BY <1>3, <2>3 DEF ApplyVoucher
    <2>5. s \in Stage
      BY <2>4 DEF Stage, Ended
    <2>6. /\ faulty' \in {faulty, faulty \cup {r}}
          /\ use'[r] = "lost" => r \in faulty'
      BY <1>3 DEF ApplyVoucher, Fault, NoFault
    <2>7. /\ stage' \in [Buyers -> Stage] /\ stage'[r] = s
          /\ \A q \in Buyers \ {r} : stage'[q] = stage[q]
      BY <1>1, <2>4, <2>5, GoIs
    <2>8. \A q \in Buyers \ {r} : Left(q)
      BY <1>2, <2>2, <2>7 DEF Left
    <2>9. SagaTypes'
      BY <1>1, <1>2, <2>6, <2>7 DEF SagaTypes
    <2>10. ASSUME r \notin faulty' PROVE Course(r)'
      <3>1. Course(r) /\ use'[r] # "lost" /\ stage[r] = "voucher"
        BY <1>1, <1>3, <2>6, <2>10 DEF ApplyVoucher
      <3>2. QED
        BY <1>2, <2>4, <2>7, <3>1 DEF Course
    <2>11. QED
      BY <2>6, <2>8, <2>9, <2>10
  <1>4. CASE GiveVoucherBack(r)
    <2>1. Go(r, "failed") /\ "failed" \in Stage /\ stage[r] = "undoVoucher"
      BY <1>4 DEF GiveVoucherBack, Stage, Ended
    <2>2. \/ WithVoucher(r) /\ V!Release(r) /\ NoFault
          \/ WithVoucher(r) /\ V!ReleaseFails(r) /\ Fault(r)
          \/ ~WithVoucher(r) /\ UNCHANGED voucherVars /\ NoFault
      BY <1>4 DEF GiveVoucherBack
    <2>3. V!Release(r) \/ V!ReleaseFails(r) => VP!Checkouts(r)
      BY VoucherStepIs
    <2>4. \A q \in Buyers \ {r} : use'[q] = use[q]
      BY <2>2, <2>3, UseMoves DEF voucherVars
    <2>5. faulty' \in {faulty, faulty \cup {r}}
      BY <2>2 DEF Fault, NoFault
    <2>6. r \notin faulty' => use'[r] \in {"none", "released"}
      <3>1. CASE V!Release(r)
        BY <3>1 DEF V!Release, VP!TypeOK
      <3>2. CASE Fault(r)
        BY <3>2 DEF Fault
      <3>3. CASE ~WithVoucher(r) /\ UNCHANGED voucherVars
        BY <3>3 DEF WithVoucher, voucherVars
      <3>4. QED
        BY <2>2, <3>1, <3>2, <3>3
    <2>7. /\ stage' \in [Buyers -> Stage] /\ stage'[r] = "failed"
          /\ \A q \in Buyers \ {r} : stage'[q] = stage[q]
      BY <1>1, <2>1, GoIs
    <2>8. \A q \in Buyers \ {r} : Left(q)
      BY <1>2, <2>4, <2>7 DEF Left
    <2>9. SagaTypes'
      BY <1>1, <1>2, <2>5, <2>7 DEF SagaTypes
    <2>10. ASSUME r \notin faulty' PROVE Course(r)'
      <3>1. Course(r)
        BY <1>1, <2>5, <2>10
      <3>2. QED
        BY <1>2, <2>1, <2>6, <2>7, <2>10, <3>1 DEF Course
    <2>11. QED
      BY <2>5, <2>8, <2>9, <2>10
  <1>5. QED
    BY <1>3, <1>4

\* The steps of a request's stock transactions.
LEMMA StockCourse ==
  ASSUME IP!TypeOK, SagaInv, NEW r \in Buyers, StockStep(r) \/ StockAborted(r)
  PROVE  /\ \A q \in Buyers \ {r} : Left(q)
         /\ faulty' \in {faulty, faulty \cup {r}}
         /\ SagaTypes'
         /\ r \notin faulty' => Course(r)'
  <1>1. SagaTypes /\ (r \notin faulty => Course(r))
    BY DEF SagaInv, OnCourse
  <1>2. UNCHANGED <<use, stage, orders, faulty>>
    BY DEF StockStep, StockAborted, voucherVars
  <1>3. PICK k \in {"reserve", "release"} :
           \/ /\ I!Begin(<<r, k>>) \/ I!Step(<<r, k>>)
              /\ \/ k = "reserve" /\ stage[r] = "reserve"
                 \/ k = "release" /\ stage[r] = "undoStock"
           \/ I!DeadlockVictim(<<r, k>>) \/ I!Abort(<<r, k>>)
    BY DEF StockStep, StockAborted
  <1> DEFINE t == <<r, k>>
  <1>4. t \in Tx
    BY DEF Tx
  <1>5. /\ \A u \in Tx \ {t} : pc'[u] = pc[u]
        /\ pc[t] \in {"idle", "reading", "writing"}
    BY <1>3, <1>4, StockStepIs, StockMoves
  <1>6. \/ k = "reserve" /\ stage[r] = "reserve"
        \/ k = "release" /\ stage[r] = "undoStock"
        \/ pc[t] \in {"reading", "writing"}
    BY <1>3 DEF I!DeadlockVictim, I!InDeadlock, I!Abort, I!Active
  <1>7. \A q \in Buyers \ {r} : Left(q)
    BY <1>2, <1>5, TxOf DEF Left
  <1>8. SagaTypes'
    BY <1>1, <1>2 DEF SagaTypes
  <1>9. ASSUME r \notin faulty' PROVE Course(r)'
    <2>1. Course(r) /\ stage[r] \in Stage
      BY <1>1, <1>2, <1>9 DEF SagaTypes
    <2>2. CASE k = "reserve"
      <3>1. pc'[<<r, "release">>] = pc[<<r, "release">>]
        BY <1>5, <2>2, TxOf
      <3>2. stage[r] = "reserve"
        BY <1>5, <1>6, <2>1, <2>2 DEF Course, Stage, Ended
      <3>3. QED
        BY <1>2, <2>1, <3>1, <3>2 DEF Course
    <2>3. CASE k = "release"
      <3>1. pc'[<<r, "reserve">>] = pc[<<r, "reserve">>]
        BY <1>5, <2>3, TxOf
      <3>2. stage[r] = "undoStock"
        BY <1>5, <1>6, <2>1, <2>3 DEF Course, Stage, Ended
      <3>3. QED
        BY <1>2, <2>1, <3>1, <3>2 DEF Course
    <2>4. QED
      BY <2>2, <2>3
  <1>10. QED
    BY <1>2, <1>7, <1>8, <1>9

\* A step of the saga is one of one request, or changes nothing that a request
\* has left behind.
LEMMA NextMoves ==
  ASSUME IP!TypeOK, VP!TypeOK, SagaInv, [Next]_vars
  PROVE  \/ \E r \in Buyers :
               /\ Precheck(r) \/ Progress(r) \/ StockAborted(r) \/ Crash(r)
               /\ \A q \in Buyers \ {r} : Left(q)
               /\ faulty' \in {faulty, faulty \cup {r}}
               /\ SagaTypes'
               /\ r \notin faulty' => Course(r)'
         \/ /\ UNCHANGED <<stage, pc, use, orders, faulty>>
  <1>1. ASSUME NEW r \in Buyers, Precheck(r) \/ Progress(r) \/ StockAborted(r) \/ Crash(r)
        PROVE  /\ \A q \in Buyers \ {r} : Left(q)
               /\ faulty' \in {faulty, faulty \cup {r}}
               /\ SagaTypes'
               /\ r \notin faulty' => Course(r)'
    BY <1>1, PlainCourse, VoucherCourse, StockCourse DEF Progress
  <1>2. ASSUME VoucherDeleted \/ UNCHANGED vars
        PROVE  UNCHANGED <<stage, pc, use, orders, faulty>>
    BY <1>2 DEF VoucherDeleted, V!Delete, vars, stockVars, voucherVars
  <1>3. QED
    BY <1>1, <1>2 DEF Next

LEMMA NextSaga ==
  ASSUME IP!TypeOK, VP!TypeOK, SagaInv, [Next]_vars
  PROVE  SagaInv'
  <1>1. SameTables'
    BY TablesKept DEF SagaInv
  <1>2. CASE UNCHANGED <<stage, pc, use, orders, faulty>>
    BY <1>1, <1>2 DEF SagaInv, SagaTypes, OnCourse, Course
  <1>3. ASSUME NEW r \in Buyers, \A q \in Buyers \ {r} : Left(q),
               faulty' \in {faulty, faulty \cup {r}}, SagaTypes',
               r \notin faulty' => Course(r)'
        PROVE  SagaInv'
    <2>1. ASSUME NEW q \in Buyers, q \notin faulty' PROVE Course(q)'
      <3>1. CASE q = r
        BY <1>3, <2>1, <3>1
      <3>2. CASE q # r
        <4>1. Course(q) /\ Left(q)
          BY <1>3, <2>1, <3>2 DEF SagaInv, OnCourse
        <4>2. QED
          BY <4>1, LeftCourse
      <3>3. QED
        BY <3>1, <3>2
    <2>2. QED
      BY <1>1, <1>3, <2>1 DEF SagaInv, OnCourse
  <1>4. QED
    BY <1>2, <1>3, NextMoves

LEMMA SpecSaga == Spec => []SagaInv
  <1>1. IP!IInv => IP!TypeOK
    BY DEF IP!IInv
  <1>2. QED
    BY <1>1, InitSaga, NextSaga, SpecStock, SpecVouchers, PTL DEF Spec

-----------------------------------------------------------------------------
(* What the requests leave in the stock log.                               *)

\* The log tells how far a stock transaction came: nothing before it commits,
\* every book of the request that has a row afterwards.
LogIsPlace ==
    \A r \in Buyers : \A k \in {"reserve", "release"} :
        LET t == <<r, k>>
        IN  /\ Logged(t) = IF pc[t] = "committed" THEN BooksOf(r) \cap rows ELSE {}
            /\ k = "reserve" /\ pc[t] = "committed" => BooksOf(r) \subseteq rows

LEMMA LogIs ==
  ASSUME IP!IInv, IP!Kept, SameTables
  PROVE  LogIsPlace
  <1> SUFFICES ASSUME NEW r \in Buyers, NEW k \in {"reserve", "release"}
               PROVE  /\ Logged(<<r, k>>) = IF pc[<<r, k>>] = "committed"
                                              THEN BooksOf(r) \cap rows ELSE {}
                      /\ k = "reserve" /\ pc[<<r, k>>] = "committed" => BooksOf(r) \subseteq rows
    BY DEF LogIsPlace
  <1> DEFINE t == <<r, k>>
  <1>1. t \in Tx
    BY DEF Tx
  <1>2. IP!LinesOf(t) = BooksOf(r) /\ job[t].skipMissing = (k = "release")
    <2>1. job[t] = JobOf(t)
      BY <1>1 DEF SameTables
    <2>2. DOMAIN JobOf(t).lines = DOMAIN Items[r]
      BY DEF JobOf
    <2>3. \A i \in DOMAIN Items[r] : JobOf(t).lines[i].book = Items[r][i].book
      BY DEF JobOf
    <2>4. JobOf(t).skipMissing = (k = "release")
      BY DEF JobOf
    <2>5. QED
      BY <2>1, <2>2, <2>3, <2>4 DEF IP!LinesOf, BooksOf
  <1>3. /\ Logged(t) = IP!LoggedBy(t)
        /\ Logged(t) \subseteq rows
    <2>1. Logged(t) = IP!LoggedBy(t)
      BY DEF Logged, IP!LoggedBy
    <2>2. \A b \in Books \ rows : DOMAIN logs[b] = {}
      BY DEF IP!IInv, IP!NoRowNoTrace
    <2>3. QED
      BY <2>1, <2>2 DEF Logged
  <1> HIDE DEF t
  <1>4. /\ pc[t] # "committed" => Logged(t) = {}
        /\ Logged(t) \subseteq BooksOf(r)
        /\ pc[t] = "committed" =>
              \A b \in BooksOf(r) :
                  /\ snap[t].seen >= 0
                  /\ k = "release" \/ b \in snap[t].rows
                  /\ b \in Logged(t) \/ b \notin snap[t].rows \/ ~IP!SameRow(t, b)
    BY <1>1, <1>2, <1>3 DEF IP!Kept, IP!Traces
  <1>5. ASSUME pc[t] = "committed", NEW b \in BooksOf(r)
        PROVE  /\ k = "release" \/ b \in rows
               /\ b \in Logged(t) \/ b \notin rows
    <2>1. snap[t].seen >= 0
      BY <1>4, <1>5
    <2>2. snap[t].rows = rows /\ snap[t].epoch = epoch
      BY <1>1, <2>1 DEF SameTables
    <2>3. b \in rows => IP!SameRow(t, b)
      BY <2>2 DEF IP!SameRow
    <2>4. QED
      BY <1>4, <1>5, <2>2, <2>3
  <1>6. QED
    BY <1>3, <1>4, <1>5 DEF t

\* The outcome of a request depends on nothing but what it has left.
LEMMA SameOutcome ==
  ASSUME LogIsPlace, LogIsPlace', UNCHANGED rows, NEW r \in Buyers, Left(r)
  PROVE  outcome'[r] = outcome[r]
  <1>1. /\ Logged(<<r, "reserve">>)' = Logged(<<r, "reserve">>)
        /\ Logged(<<r, "release">>)' = Logged(<<r, "release">>)
    BY DEF LogIsPlace, Left, BooksOf
  <1>2. \A k \in {"reserve", "release"} : I!Active(<<r, k>>)' <=> I!Active(<<r, k>>)
    BY DEF Left, I!Active
  <1>3. HoldsUse(r)' <=> HoldsUse(r)
    BY DEF Left, HoldsUse
  <1>4. BooksOf(r)' = BooksOf(r)
    BY DEF BooksOf
  <1>5. QED
    BY <1>1, <1>2, <1>3, <1>4 DEF outcome, Left

\* All or nothing: the heart of the refinement.
Whole == \A r \in Buyers : r \notin faulty => outcome[r] # "part"

LEMMA WholeUnlessFaulty == SagaInv /\ LogIsPlace => Whole
  <1> SUFFICES ASSUME SagaInv, LogIsPlace, NEW r \in Buyers, r \notin faulty,
                      stage[r] \in Ended,
                      \A k \in {"reserve", "release"} : ~I!Active(<<r, k>>),
                      outcome[r] = "part"
               PROVE  FALSE
    BY DEF outcome, Whole
  <1>1. Course(r)
    BY DEF SagaInv, OnCourse
  <1>2. stage[r] = "done" \/ stage[r] = "failed"
    BY <1>1 DEF Course, Ended
  <1>3. /\ Logged(<<r, "reserve">>) =
              IF pc[<<r, "reserve">>] = "committed" THEN BooksOf(r) \cap rows ELSE {}
        /\ Logged(<<r, "release">>) =
              IF pc[<<r, "release">>] = "committed" THEN BooksOf(r) \cap rows ELSE {}
        /\ pc[<<r, "reserve">>] = "committed" => BooksOf(r) \subseteq rows
    BY DEF LogIsPlace
  <1>4. CASE stage[r] = "done"
    <2>1. /\ r \in orders /\ use[r] \in {"none", "held"}
          /\ pc[<<r, "reserve">>] = "committed" /\ pc[<<r, "release">>] = "idle"
      BY <1>1, <1>4 DEF Course
    <2>2. Logged(<<r, "reserve">>) = BooksOf(r) /\ Logged(<<r, "release">>) = {}
      BY <1>3, <2>1
    <2>3. QED
      BY <2>1, <2>2 DEF outcome
  <1>5. CASE stage[r] = "failed"
    <2>1. /\ r \notin orders /\ use[r] \in {"none", "refused", "released"}
          /\ \/ pc[<<r, "reserve">>] = "committed" /\ pc[<<r, "release">>] = "committed"
             \/ pc[<<r, "reserve">>] \in {"idle", "failed"} /\ pc[<<r, "release">>] = "idle"
      BY <1>1, <1>5 DEF Course
    <2>2. Logged(<<r, "reserve">>) = Logged(<<r, "release">>)
      BY <1>3, <2>1
    <2>3. ~HoldsUse(r)
      BY <2>1 DEF HoldsUse
    <2>4. QED
      BY <2>1, <2>2, <2>3 DEF outcome
  <1>6. QED
    BY <1>2, <1>4, <1>5

\* A request takes a step only while its checkout is open.
LEMMA MovesWhileOpen ==
  ASSUME NEW r \in Buyers, Precheck(r) \/ Progress(r) \/ StockAborted(r) \/ Crash(r)
  PROVE  outcome[r] = "open"
  <1>1. \/ stage[r] \notin Ended
        \/ \E k \in {"reserve", "release"} : I!Active(<<r, k>>)
    <2>1. CASE StockAborted(r)
      BY <2>1 DEF StockAborted, I!DeadlockVictim, I!InDeadlock, I!Abort, I!Active
    <2>2. CASE Precheck(r) \/ Progress(r) \/ Crash(r)
      BY <2>2
         DEF Precheck, Progress, ApplyVoucher, StockStep, Reserved, CreateOrderRecord,
             CreateOrderFails, Restocked, GiveVoucherBack, Crash, Ended
    <2>3. QED
      BY <2>1, <2>2
  <1>2. QED
    BY <1>1 DEF outcome

LEMMA RowsStay == ASSUME IP!TypeOK, [Next]_vars PROVE UNCHANGED rows
  <1>1. CASE UNCHANGED stockVars
    BY <1>1 DEF stockVars
  <1>2. ASSUME NEW t \in Tx,
               IP!Begin(t) \/ IP!Step(t) \/ IP!Abort(t) \/ IP!DeadlockVictim(t)
        PROVE  UNCHANGED rows
    BY <1>2, StockMoves
  <1>3. \A r \in Buyers, k \in {"reserve", "release"} : <<r, k>> \in Tx
    BY DEF Tx
  <1>4. QED
    BY <1>1, <1>2, <1>3, StepIs

\* What the refinement rests on.
SagaPast == IP!IInv /\ VP!TypeOK /\ SagaInv /\ LogIsPlace /\ Whole

LEMMA SpecPast == Spec => []SagaPast
  <1>1. IP!IInv /\ IP!Kept /\ VP!TypeOK /\ SagaInv => SagaPast
    BY LogIs, WholeUnlessFaulty DEF SagaPast, SagaInv
  <1>2. QED
    BY <1>1, SpecStock, SpecVouchers, SpecSaga, PTL

LEMMA StepRefines ==
  ASSUME SagaPast, SagaPast', [Next]_vars
  PROVE  [A!Next]_(A!vars)
  <1>1. IP!TypeOK /\ VP!TypeOK /\ SagaInv
    BY DEF SagaPast, IP!IInv
  <1>2. UNCHANGED rows
    BY <1>1, RowsStay
  <1>3. LogIsPlace /\ LogIsPlace'
    BY DEF SagaPast
  <1>4. ASSUME NEW r \in Buyers,
               Precheck(r) \/ Progress(r) \/ StockAborted(r) \/ Crash(r),
               \A q \in Buyers \ {r} : Left(q),
               faulty' \in {faulty, faulty \cup {r}}
        PROVE  A!Next
    <2>1. outcome[r] = "open"
      BY <1>4, MovesWhileOpen
    <2>2. \A q \in Buyers \ {r} : outcome'[q] = outcome[q]
      BY <1>2, <1>3, <1>4, SameOutcome
    <2>3. outcome'[r] = "part" => r \in faulty'
      BY DEF SagaPast, Whole
    <2>4. outcome'[r] \in {"open", "placed", "nothing", "part"}
      BY DEF outcome
    <2>5. outcome' = [outcome EXCEPT ![r] = outcome'[r]]
      <3>1. outcome' = [q \in Buyers |-> outcome'[q]]
        BY DEF outcome
      <3>2. outcome = [q \in Buyers |-> outcome[q]]
        BY DEF outcome
      <3>3. QED
        BY <2>2, <3>1, <3>2
    <2>6. A!Step(r)
      BY <1>4, <2>1, <2>3, <2>4, <2>5 DEF A!Step
    <2>7. QED
      BY <2>6 DEF A!Next
  <1>5. ASSUME UNCHANGED <<stage, pc, use, orders, faulty>>
        PROVE  UNCHANGED A!vars
    <2>1. \A r \in Buyers : Left(r)
      BY <1>5 DEF Left
    <2>2. \A r \in Buyers : outcome'[r] = outcome[r]
      BY <1>2, <1>3, <2>1, SameOutcome
    <2>3. outcome' = outcome
      <3>1. outcome' = [q \in Buyers |-> outcome'[q]]
        BY DEF outcome
      <3>2. outcome = [q \in Buyers |-> outcome[q]]
        BY DEF outcome
      <3>3. QED
        BY <2>2, <3>1, <3>2
    <2>4. QED
      BY <1>5, <2>3 DEF A!vars
  <1>6. QED
    BY <1>1, <1>4, <1>5, NextMoves

LEMMA InitRefines == Init => A!Init
  <1> SUFFICES ASSUME Init PROVE A!Init
    OBVIOUS
  <1>1. faulty = {} /\ stage = [r \in Buyers |-> "idle"]
    BY DEF Init
  <1>2. \A r \in Buyers : outcome[r] = "open"
    BY <1>1 DEF outcome, Ended
  <1>3. outcome = [r \in Buyers |-> "open"]
    BY <1>2 DEF outcome
  <1>4. QED
    BY <1>1, <1>3 DEF A!Init

-----------------------------------------------------------------------------
\* The variables of the saga, of its stock transactions and of its vouchers keep
\* their types.
THEOREM CheckoutTyped == Spec => []TypeOK
  <1>1. IP!IInv /\ VP!TypeOK /\ SagaInv => TypeOK
    <2> SUFFICES ASSUME IP!IInv, VP!TypeOK, SagaInv PROVE TypeOK
      OBVIOUS
    <2>1. I!TypeOK
      BY DEF IP!IInv, IP!TypeOK, I!TypeOK, I!LogEntry, IP!LogEntry, I!Snapshot, IP!Snapshot,
             I!Job, IP!Job, I!Line, IP!Line
    <2>2. V!TypeOK
      BY DEF VP!TypeOK, V!TypeOK, V!UseState, VP!UseState
    <2>3. QED
      BY <2>1, <2>2 DEF TypeOK, SagaInv, SagaTypes
  <1>2. QED
    BY <1>1, SpecStock, SpecVouchers, SpecSaga, PTL

\* A checkout leaves an order with its stock and its use of the voucher, or none
\* of the three, unless it met a fault; and nothing changes what it has left.
\* The saga's steps, its compensations and the steps of the database are steps
\* of the atomic checkout, or invisible to it.
THEOREM SagaIsAtomic == Spec => ImplementsAtomicCheckout
  <1>1. SagaPast /\ SagaPast' /\ [Next]_vars => [A!Next]_(A!vars)
    BY StepRefines
  <1>2. QED
    BY <1>1, InitRefines, SpecPast, PTL
       DEF Spec, ImplementsAtomicCheckout, A!Spec

\* Every discounted order of a request that met no fault is behind a use counted
\* for its voucher.
THEOREM OrdersAreCounted == Spec => []UsesCoverOrders
  <1>1. VP!UsedIsHolders /\ SagaInv => UsesCoverOrders
    <2> SUFFICES ASSUME VP!UsedIsHolders, SagaInv, NEW v \in Vouchers
                 PROVE  Cardinality({o \in orders : /\ WithVoucher(o)
                                                    /\ VoucherOf[o] = v
                                                    /\ o \notin faulty}) <= used[v]
      BY DEF UsesCoverOrders
    <2> DEFINE covered == {o \in orders : WithVoucher(o) /\ VoucherOf[o] = v /\ o \notin faulty}
    <2>1. covered \subseteq VP!Holders(v)
      BY DEF SagaInv, SagaTypes, OnCourse, Course, WithVoucher, VP!Holders
    <2>2. IsFiniteSet(VP!Holders(v))
      <3>1. VP!Holders(v) \subseteq Buyers
        BY DEF VP!Holders
      <3>2. QED
        BY <3>1, CheckoutAssumption, FS_Subset
    <2>3. Cardinality(covered) <= Cardinality(VP!Holders(v))
      BY <2>1, <2>2, FS_Subset
    <2>4. used[v] = VP!Cardinality(VP!Holders(v))
      BY DEF VP!UsedIsHolders
    <2>5. VP!Cardinality(VP!Holders(v)) = Cardinality(VP!Holders(v))
      BY DEF Cardinality, VP!Cardinality
    <2>6. QED
      BY <2>3, <2>4, <2>5
  <1>2. QED
    BY <1>1, SpecVouchers, SpecSaga, PTL

-----------------------------------------------------------------------------
(* The two races of the saga, and that there is no third.                  *)

\* No more discounted orders than the limit of their voucher.
DiscountsWithinLimit ==
    \A v \in Vouchers : VP!Present(v) =>
        Cardinality({o \in orders : /\ WithVoucher(o)
                                   /\ VoucherOf[o] = v
                                   /\ o \notin faulty}) <= limit[v]

\* While nothing comes between a request's check of its voucher and the increment,
\* no limit is exceeded, neither by the count nor by the orders: the double-click
\* race of validateVoucherForOrder and incrementUsedCount is the only way to have
\* more discounted orders than the voucher allows, compensations included.
THEOREM DiscountsWithinLimitOneAtATime ==
  Spec /\ []VP!OneAtATime => [](VP!WithinLimit /\ DiscountsWithinLimit)
  <1>1. VP!Spec /\ []VP!OneAtATime => []VP!WithinLimit
    BY VouchersHold, VP!LimitHeldOneAtATime
  <1>2. SagaInv /\ VP!TypeOK /\ VP!WithinLimit /\ UsesCoverOrders => DiscountsWithinLimit
    <2> SUFFICES ASSUME SagaInv, VP!TypeOK, VP!WithinLimit, UsesCoverOrders,
                        NEW v \in Vouchers, VP!Present(v)
                 PROVE  Cardinality({o \in orders : /\ WithVoucher(o)
                                                   /\ VoucherOf[o] = v
                                                   /\ o \notin faulty}) <= limit[v]
      BY DEF DiscountsWithinLimit
    <2> DEFINE covered == {o \in orders : WithVoucher(o) /\ VoucherOf[o] = v /\ o \notin faulty}
    <2>1. Cardinality(covered) <= used[v]
      BY DEF UsesCoverOrders
    <2>2. used[v] <= limit[v]
      BY DEF VP!WithinLimit
    <2>3. IsFiniteSet(covered)
      <3>1. covered \subseteq Buyers
        BY DEF SagaInv, SagaTypes
      <3>2. QED
        BY <3>1, CheckoutAssumption, FS_Subset
    <2>4. Cardinality(covered) \in Nat
      BY <2>3, FS_CardinalityType
    <2>5. used[v] \in Int /\ limit[v] \in Int
      <3>1. limit[v] \in Limits /\ used[v] \in Int
        BY DEF VP!TypeOK
      <3>2. QED
        BY <3>1, VouchersHold, VP!LimitsInt
    <2> HIDE DEF covered
    <2>6. Cardinality(covered) <= limit[v]
      BY <2>1, <2>2, <2>4, <2>5
    <2>7. QED
      BY <2>6 DEF covered
  <1>3. QED
    BY <1>1, <1>2, SpecParts, SpecVouchers, SpecSaga, OrdersAreCounted, PTL

\* A book whose stock transactions never overlapped has as many copies as came in
\* less those the requests reserved and did not release: checkouts, their
\* compensations and database deadlocks miscount by overlapping or not at all.
THEOREM SagaCountsCopies ==
  Spec => [](\A b \in Books : IP!OverlapFree(b) => IP!Moved(b) = stock[b])
  <1>1. IP!Spec => [](/\ \A b \in Books : IP!OverlapFree(b) => IP!Moved(b) = stock[b]
                      /\ (\A b \in Books : IP!OverlapFree(b)) => IP!NothingSoldTwice)
    BY InventoryHolds, IP!CopiesCountedWithoutOverlap
  <1>2. QED
    BY <1>1, SpecParts, PTL
=============================================================================
