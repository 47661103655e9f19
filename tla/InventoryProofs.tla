--------------------------- MODULE InventoryProofs ---------------------------
(* What the inventory guarantees for any set of books, of transactions and  *)
(* of jobs.                                                                  *)
EXTENDS Inventory, NaturalsInduction, WellFoundedInduction, TLAPS

\* A row that a transaction has written: nobody else can write, delete or
\* re-create it before the transaction ends, and its log row adds up.
Pending(t, b) ==
    /\ Active(t)
    /\ lock[b] = t
    /\ SameRow(t, b)
    /\ b \in snap[t].rows
    /\ snap[t].seen >= 0
    /\ entry[t][b].after = entry[t][b].before + entry[t][b].change
    /\ entry[t][b].after >= 0
    /\ entry[t][b].before = snap[t].stock[b]
    /\ entry[t][b].seen = snap[t].seen
    /\ entry[t][b].by = t

PendingWrites == \A t \in Tx : \A b \in written[t] : Pending(t, b)

\* A transaction about to write has read the row, and may write the result.
ReadyToWrite ==
    \A t \in Tx : pc[t] = "writing" =>
        /\ HasLine(t)
        /\ snap[t].seen >= 0
        /\ Current(t).book \in snap[t].rows
        /\ snap[t].stock[Current(t).book] + Current(t).change >= 0

\* A lock is held by a transaction that has written the row.
LocksAreWrites ==
    \A b \in Books : lock[b] # NoTx => b \in written[lock[b]]

NoRowNoTrace == \A b \in Books \ rows : stock[b] = 0 /\ logs[b] = <<>>

\* Commits are numbered in order, a snapshot is one of them.
Ordered ==
    /\ \A t \in Tx : -1 <= snap[t].seen /\ snap[t].seen <= clock
    /\ \A t \in Tx, b \in Books : snap[t].epoch[b] <= epoch[b]
    /\ \A b \in Books : \A i \in DOMAIN logs[b] : logs[b][i].pos <= clock

\* The commit that last wrote the row.
LastPos(b) == IF logs[b] = <<>> THEN 0 ELSE logs[b][Len(logs[b])].pos

\* While no commit on a row is younger than a transaction's snapshot, the
\* snapshot still shows the row's quantity.
SnapshotFresh ==
    \A t \in Tx, b \in Books :
        (/\ snap[t].seen >= 0
         /\ SameRow(t, b)
         /\ LastPos(b) <= snap[t].seen) => snap[t].stock[b] = stock[b]

IInv ==
    /\ TypeOK
    /\ PendingWrites
    /\ ReadyToWrite
    /\ LocksAreWrites
    /\ NoRowNoTrace
    /\ Ordered
    /\ SnapshotFresh
    /\ StockNeverNegative
    /\ LogTellsTheStock
    /\ LostUpdateNeedsOverlap
-----------------------------------------------------------------------------
LEMMA BlankTyped == NoEntry \in LogEntry /\ NoSnapshot \in Snapshot
  BY DEF NoEntry, LogEntry, NoSnapshot, Snapshot

LEMMA FirstLogTyped == ASSUME NEW q \in Nat PROVE FirstLog(q) \in Seq(LogEntry)
  <1> DEFINE e == [change |-> q, before |-> 0, after |-> q, by |-> NoTx,
                   seen |-> 0, pos |-> 0]
  <1>1. e \in LogEntry
    BY DEF LogEntry
  <1> HIDE DEF e
  <1>2. <<>> \in Seq(LogEntry) /\ <<e>> \in Seq(LogEntry)
    BY <1>1
  <1>3. FirstLog(q) = IF q = 0 THEN <<>> ELSE <<e>>
    BY DEF FirstLog, e
  <1>4. QED
    BY <1>2, <1>3

\* The log of a fresh row is empty, or one row that adds up.
LEMMA FirstLogIs ==
  ASSUME NEW q \in Nat
  PROVE  \/ FirstLog(q) = <<>> /\ q = 0
         \/ /\ Len(FirstLog(q)) = 1
            /\ FirstLog(q)[1].before = 0 /\ FirstLog(q)[1].change = q
            /\ FirstLog(q)[1].after = q /\ FirstLog(q)[1].pos = 0
  <1> DEFINE e == [change |-> q, before |-> 0, after |-> q, by |-> NoTx,
                   seen |-> 0, pos |-> 0]
  <1>1. e.before = 0 /\ e.change = q /\ e.after = q /\ e.pos = 0
    OBVIOUS
  <1>2. FirstLog(q) = IF q = 0 THEN <<>> ELSE <<e>>
    BY DEF FirstLog
  <1> HIDE DEF e
  <1>3. Len(<<e>>) = 1 /\ <<e>>[1] = e
    OBVIOUS
  <1>4. QED
    BY <1>1, <1>2, <1>3

LEMMA InitTypeOK == Init => TypeOK
  <1> SUFFICES ASSUME Init PROVE TypeOK
    OBVIOUS
  <1> USE InventoryAssumption DEF Init, InitTables, InitTx
  <1>1. PICK q \in [Books -> InitQty] :
           stock = [b \in Books |-> IF b \in rows THEN q[b] ELSE 0]
    OBVIOUS
  <1>2. \A b \in Books : stock[b] \in Nat
    BY <1>1
  <1>3. logs \in [Books -> Seq(LogEntry)]
    BY <1>2, FirstLogTyped
  <1>4. QED
    BY <1>1, <1>2, <1>3, BlankTyped DEF TypeOK

\* Line numbers in range name a line of the job.
LEMMA CurrentTyped ==
  ASSUME TypeOK, NEW t \in Tx, HasLine(t)
  PROVE  Current(t) \in Line
  BY DEF TypeOK, HasLine, Current, Job

LEMMA ViewTyped == ASSUME TypeOK, NEW t \in Tx PROVE View(t) \in Snapshot
  BY DEF TypeOK, View, Committed, Snapshot

LEMMA RollBackTypeOK ==
  ASSUME TypeOK, NEW t \in Tx, RollBack(t) PROVE TypeOK'
  BY BlankTyped, InventoryAssumption DEF TypeOK, RollBack, LetGo, tableVars

LEMMA CommitTypeOK ==
  ASSUME TypeOK, NEW t \in Tx, Commit(t) PROVE TypeOK'
  <1> USE DEF Commit, LetGo, TypeOK
  <1>1. clock' \in Nat
    OBVIOUS
  <1>2. stock' \in [Books -> Int]
    BY DEF LogEntry
  <1>3. ASSUME NEW b \in Books
        PROVE  [entry[t][b] EXCEPT !.pos = clock + 1] \in LogEntry
    <2>1. entry[t][b] \in LogEntry /\ clock + 1 \in Int
      OBVIOUS
    <2>2. QED
      BY <2>1 DEF LogEntry
  <1>4. logs' \in [Books -> Seq(LogEntry)]
    BY <1>3
  <1>5. QED
    BY <1>1, <1>2, <1>4, BlankTyped, InventoryAssumption

LEMMA WriteLineTypeOK ==
  ASSUME TypeOK, ReadyToWrite, NEW t \in Tx, WriteLine(t) PROVE TypeOK'
  <1> DEFINE b == Current(t).book
  <1> DEFINE e == [change |-> Current(t).change, before |-> snap[t].stock[b],
                   after |-> snap[t].stock[b] + Current(t).change,
                   by |-> t, seen |-> snap[t].seen, pos |-> 0]
  <1>1. Current(t) \in Line
    BY CurrentTyped DEF WriteLine, ReadyToWrite
  <1>2. b \in Books /\ Current(t).change \in Int
    BY <1>1 DEF Line
  <1>3. snap[t].stock[b] \in Int /\ snap[t].seen \in Int
    BY <1>2 DEF TypeOK, Snapshot
  <1>4. e \in LogEntry
    BY <1>2, <1>3 DEF LogEntry
  <1> HIDE DEF e, b
  <1>5. entry' = [entry EXCEPT ![t][b] = e]
    BY DEF WriteLine, e, b
  <1>6. entry' \in [Tx -> [Books -> LogEntry]]
    BY <1>2, <1>4, <1>5 DEF TypeOK
  <1>7. lock' \in [Books -> Tx \cup {NoTx}] /\ written' \in [Tx -> SUBSET Books]
    BY <1>2 DEF TypeOK, WriteLine, b
  <1>8. QED
    BY <1>6, <1>7 DEF TypeOK, WriteLine, tableVars

\* The types are kept by every step.
LEMMA NextTypeOK == TypeOK /\ ReadyToWrite /\ [Next]_vars => TypeOK'
  <1> SUFFICES ASSUME TypeOK, ReadyToWrite, [Next]_vars PROVE TypeOK'
    OBVIOUS
  <1>1. ASSUME NEW t \in Tx, Begin(t) PROVE TypeOK'
    BY <1>1 DEF TypeOK, Begin, tableVars
  <1>2. ASSUME NEW t \in Tx, ReadLine(t) PROVE TypeOK'
    BY <1>2, ViewTyped DEF TypeOK, ReadLine, tableVars
  <1>3. ASSUME NEW t \in Tx, SkipLine(t) PROVE TypeOK'
    BY <1>3, ViewTyped DEF TypeOK, SkipLine, tableVars
  <1>4. ASSUME NEW t \in Tx, RollBack(t) PROVE TypeOK'
    BY <1>4, RollBackTypeOK
  <1>5. ASSUME NEW t \in Tx, WriteLine(t) PROVE TypeOK'
    BY <1>5, WriteLineTypeOK
  <1>6. ASSUME NEW t \in Tx, Commit(t) PROVE TypeOK'
    BY <1>6, CommitTypeOK
  <1>7. ASSUME NEW b \in Books, CreateRow(b) PROVE TypeOK'
    BY <1>7 DEF TypeOK, CreateRow, txVars
  <1>8. ASSUME NEW b \in Books, DeleteRow(b) PROVE TypeOK'
    BY <1>8 DEF TypeOK, DeleteRow, txVars
  <1>9. CASE UNCHANGED vars
    BY <1>9 DEF TypeOK, vars, tableVars, txVars
  <1>10. QED
    BY <1>1, <1>2, <1>3, <1>4, <1>5, <1>6, <1>7, <1>8, <1>9
    DEF Next, Step, RejectLine, WriteGone, Abort, DeadlockVictim

-----------------------------------------------------------------------------
\* What only the tables can change.
TableInv == NoRowNoTrace /\ StockNeverNegative /\ LogTellsTheStock /\ LostUpdateNeedsOverlap

LEMMA TableInvStutters == TableInv /\ UNCHANGED tableVars => TableInv'
  BY DEF TableInv, tableVars, NoRowNoTrace, StockNeverNegative, LogTellsTheStock,
         LostUpdateNeedsOverlap

LEMMA InitIInv == Init => IInv
  <1> SUFFICES ASSUME Init PROVE IInv
    OBVIOUS
  <1>1. TypeOK
    BY InitTypeOK
  <1>2. PICK q \in [Books -> InitQty] :
           stock = [b \in Books |-> IF b \in rows THEN q[b] ELSE 0]
    BY DEF Init, InitTables
  <1>3. \A b \in Books : stock[b] \in Nat /\ (b \notin rows => stock[b] = 0)
    BY <1>2, InventoryAssumption
  <1>4. \A b \in Books : logs[b] = FirstLog(stock[b])
    BY DEF Init, InitTables
  <1>a. ASSUME NEW b \in Books
        PROVE  /\ logs[b] \in Seq(LogEntry)
               /\ \/ logs[b] = <<>> /\ stock[b] = 0
                  \/ /\ Len(logs[b]) = 1
                     /\ logs[b][1].before = 0 /\ logs[b][1].change = stock[b]
                     /\ logs[b][1].after = stock[b] /\ logs[b][1].pos = 0
    BY <1>3, <1>4, FirstLogIs, FirstLogTyped
  <1>b. NoRowNoTrace /\ StockNeverNegative
    <2>1. \A b \in Books \ rows : stock[b] = 0 /\ logs[b] = <<>>
      BY <1>3, <1>4 DEF FirstLog
    <2>2. \A b \in Books : stock[b] >= 0
      BY <1>3
    <2>3. QED
      BY <2>1, <2>2 DEF NoRowNoTrace, StockNeverNegative
  <1>c. LogTellsTheStock
    <2> SUFFICES ASSUME NEW b \in rows
                 PROVE  /\ stock[b] = IF logs[b] = <<>> THEN 0
                                                      ELSE logs[b][Len(logs[b])].after
                        /\ \A i \in DOMAIN logs[b] :
                              logs[b][i].after = logs[b][i].before + logs[b][i].change
      BY DEF LogTellsTheStock
    <2>1. b \in Books /\ stock[b] \in Nat
      BY <1>1, <1>3 DEF TypeOK
    <2>2. CASE logs[b] = <<>>
      BY <1>a, <2>1, <2>2
    <2>3. CASE logs[b] # <<>>
      <3>1. \A i \in DOMAIN logs[b] : i = 1
        BY <1>a, <2>1, <2>3
      <3>2. QED
        BY <1>a, <2>1, <2>3, <3>1
    <2>4. QED
      BY <2>2, <2>3
  <1>d. LostUpdateNeedsOverlap
    <2> SUFFICES ASSUME NEW b \in Books, NEW i \in 1 .. Len(logs[b]) - 1
                 PROVE  FALSE
      BY DEF LostUpdateNeedsOverlap
    <2>1. Len(logs[b]) \in Nat
      BY <1>a
    <2>2. CASE logs[b] = <<>>
      BY <2>2
    <2>3. CASE Len(logs[b]) = 1
      BY <2>3
    <2>4. QED
      BY <1>a, <2>2, <2>3
  <1>5. TableInv
    BY <1>b, <1>c, <1>d DEF TableInv
  <1>6. PendingWrites /\ ReadyToWrite /\ LocksAreWrites /\ SnapshotFresh
    BY DEF Init, InitTx, PendingWrites, ReadyToWrite, LocksAreWrites, SnapshotFresh,
           LastPos, NoSnapshot
  <1>e. \A b \in Books : \A i \in DOMAIN logs[b] : logs[b][i].pos <= clock
    <2> SUFFICES ASSUME NEW b \in Books, NEW i \in DOMAIN logs[b]
                 PROVE  logs[b][i].pos <= clock
      OBVIOUS
    <2>1. i = 1 /\ Len(logs[b]) = 1
      BY <1>a
    <2>2. QED
      BY <1>a, <2>1 DEF Init, InitTables
  <1>f. \A t \in Tx : -1 <= snap[t].seen /\ snap[t].seen <= clock
    BY DEF Init, InitTables, InitTx, NoSnapshot
  <1>g. \A t \in Tx, b \in Books : snap[t].epoch[b] <= epoch[b]
    BY DEF Init, InitTables, InitTx, NoSnapshot
  <1>7. Ordered
    BY <1>e, <1>f, <1>g DEF Ordered
  <1>8. QED
    BY <1>1, <1>5, <1>6, <1>7 DEF IInv, TableInv

LEMMA BeginInv == ASSUME IInv, NEW t \in Tx, Begin(t), TypeOK' PROVE IInv'
  <1> USE DEF IInv, Begin
  <1>1. TableInv'
    BY TableInvStutters DEF TableInv
  <1>2. PendingWrites'
    BY DEF TypeOK, PendingWrites, Pending, Active, SameRow, tableVars
  <1>3. ReadyToWrite'
    BY DEF TypeOK, ReadyToWrite, HasLine, Current
  <1>4. LocksAreWrites'
    BY DEF LocksAreWrites
  <1>5. Ordered' /\ SnapshotFresh'
    BY DEF Ordered, SnapshotFresh, LastPos, SameRow, tableVars
  <1>6. QED
    BY <1>1, <1>2, <1>3, <1>4, <1>5 DEF TableInv

\* What one transaction drops disturbs no other transaction's writes.
LEMMA LetGoInv ==
  ASSUME IInv, NEW t \in Tx, LetGo(t), TypeOK',
         pc'[t] \in {"committed", "failed"},
         \A u \in Tx \ {t} : pc'[u] = pc[u] /\ snap'[u] = snap[u],
         UNCHANGED <<rows, epoch, job>>
  PROVE  PendingWrites' /\ ReadyToWrite' /\ LocksAreWrites'
  <1> USE DEF IInv, LetGo
  <1>1. PendingWrites'
    <2> SUFFICES ASSUME NEW u \in Tx, NEW b \in written'[u]
                 PROVE  Pending(u, b)'
      BY DEF PendingWrites
    <2>1. /\ u # t /\ b \in Books /\ b \in written[u]
          /\ snap'[u] = snap[u] /\ entry'[u] = entry[u] /\ pc'[u] = pc[u]
      BY DEF TypeOK
    <2>2. Pending(u, b)
      BY <2>1 DEF PendingWrites
    <2>3. QED
      BY <2>1, <2>2 DEF TypeOK, Pending, Active, SameRow
  <1>2. ReadyToWrite'
    <2> SUFFICES ASSUME NEW u \in Tx, pc'[u] = "writing"
                 PROVE  /\ HasLine(u)'
                        /\ snap'[u].seen >= 0
                        /\ Current(u)'.book \in snap'[u].rows
                        /\ snap'[u].stock[Current(u)'.book] + Current(u)'.change >= 0
      BY DEF ReadyToWrite
    <2>1. u # t /\ pc[u] = "writing"
      BY DEF TypeOK
    <2>2. snap'[u] = snap[u] /\ HasLine(u)' = HasLine(u) /\ Current(u)' = Current(u)
      BY <2>1 DEF TypeOK, HasLine, Current
    <2>3. QED
      BY <2>1, <2>2 DEF ReadyToWrite
  <1>3. LocksAreWrites'
    BY InventoryAssumption DEF TypeOK, LocksAreWrites
  <1>4. QED
    BY <1>1, <1>2, <1>3

LEMMA RollBackInv == ASSUME IInv, NEW t \in Tx, RollBack(t), TypeOK' PROVE IInv'
  <1> USE DEF RollBack
  <1>1. TableInv'
    BY TableInvStutters DEF TableInv, IInv
  <1>2. pc'[t] = "failed" /\ \A u \in Tx \ {t} : pc'[u] = pc[u] /\ snap'[u] = snap[u]
    BY DEF IInv, TypeOK
  <1>3. PendingWrites' /\ ReadyToWrite' /\ LocksAreWrites'
    BY <1>2, LetGoInv DEF tableVars
  <1>4. Ordered' /\ SnapshotFresh'
    BY DEF IInv, TypeOK, Ordered, SnapshotFresh, LastPos, SameRow, tableVars, NoSnapshot
  <1>5. QED
    BY <1>1, <1>3, <1>4 DEF IInv, TableInv

\* A first read sees the committed tables, a later one the old snapshot.
LEMMA ReadInv ==
  ASSUME IInv, NEW t \in Tx, snap' = [snap EXCEPT ![t] = View(t)],
         UNCHANGED <<tableVars, lock, job, written, entry>>,
         pc[t] = "reading", pc'[t] \in {"reading", "writing"},
         \A u \in Tx \ {t} : pc'[u] = pc[u] /\ line'[u] = line[u],
         TypeOK', ReadyToWrite'
  PROVE  IInv'
  <1> USE DEF IInv
  <1>1. TableInv'
    BY TableInvStutters DEF TableInv
  <1>2. \A u \in Tx : snap[u].seen >= 0 => snap'[u] = snap[u]
    BY DEF TypeOK, View
  <1>3. snap'[t] = snap[t] \/ snap'[t] = Committed
    BY DEF TypeOK, View
  <1>4. \A u \in Tx, b \in Books : b \in written[u] => snap'[u] = snap[u]
    <2> SUFFICES ASSUME written[t] # {}, snap[t].seen = -1 PROVE FALSE
      BY <1>2 DEF TypeOK, Ordered, View
    <2>1. PICK b \in Books : b \in written[t]
      BY DEF TypeOK
    <2> QED
      BY <2>1 DEF PendingWrites, Pending
  <1>5. PendingWrites'
    BY <1>4 DEF TypeOK, PendingWrites, Pending, Active, SameRow, tableVars
  <1>6. LocksAreWrites'
    BY DEF LocksAreWrites
  <1>7. Ordered'
    BY <1>3 DEF TypeOK, Ordered, Committed, tableVars
  <1>8. SnapshotFresh'
    BY <1>3 DEF TypeOK, SnapshotFresh, LastPos, SameRow, Committed, tableVars
  <1>9. QED
    BY <1>1, <1>5, <1>6, <1>7, <1>8 DEF TableInv

LEMMA WriteLineInv == ASSUME IInv, NEW t \in Tx, WriteLine(t), TypeOK' PROVE IInv'
  <1> DEFINE b == Current(t).book
  <1>1. Current(t) \in Line /\ b \in Books /\ Current(t).change \in Int
    BY CurrentTyped DEF IInv, ReadyToWrite, WriteLine, Line
  <1>2. /\ snap[t].seen >= 0 /\ b \in snap[t].rows /\ SameRow(t, b)
        /\ snap[t].stock[b] + Current(t).change >= 0
        /\ lock[b] \in {NoTx, t}
    BY DEF IInv, ReadyToWrite, WriteLine
  <1> DEFINE e == [change |-> Current(t).change, before |-> snap[t].stock[b],
                   after |-> snap[t].stock[b] + Current(t).change,
                   by |-> t, seen |-> snap[t].seen, pos |-> 0]
  <1>3. /\ e.after = e.before + e.change /\ e.after >= 0 /\ e.by = t
        /\ e.before = snap[t].stock[b] /\ e.seen = snap[t].seen
    BY <1>2
  <1> HIDE DEF e, b
  <1>4. /\ lock' = [lock EXCEPT ![b] = t]
        /\ written' = [written EXCEPT ![t] = @ \cup {b}]
        /\ entry' = [entry EXCEPT ![t][b] = e]
        /\ pc' = [pc EXCEPT ![t] = "reading"]
        /\ line' = [line EXCEPT ![t] = @ + 1]
        /\ UNCHANGED <<tableVars, job, snap>>
    BY DEF WriteLine, e, b
  <1>5. TableInv'
    BY <1>4, TableInvStutters DEF TableInv, IInv
  <1>6. PendingWrites'
    <2> SUFFICES ASSUME NEW u \in Tx, NEW c \in written'[u]
                 PROVE  Pending(u, c)'
      BY DEF PendingWrites
    <2>1. c \in Books
      BY DEF TypeOK
    <2>2. SameRow(u, c)' = SameRow(u, c)
      BY <1>4 DEF SameRow, tableVars
    <2>3. CASE u = t /\ c = b
      <3>1. entry'[t][b] = e /\ lock'[b] = t /\ pc'[t] = "reading"
        BY <1>1, <1>4 DEF IInv, TypeOK
      <3>2. QED
        BY <1>2, <1>3, <1>4, <2>2, <2>3, <3>1 DEF Pending, Active
    <2>4. CASE u = t /\ c # b
      <3>1. c \in written[t] /\ entry'[t][c] = entry[t][c] /\ lock'[c] = lock[c]
            /\ pc'[t] = "reading"
        BY <1>1, <1>4, <2>1, <2>4 DEF IInv, TypeOK
      <3>2. Pending(t, c)
        BY <3>1 DEF IInv, PendingWrites
      <3>3. QED
        BY <1>4, <2>2, <2>4, <3>1, <3>2 DEF Pending, Active
    <2>5. CASE u # t
      <3>1. c \in written[u] /\ entry'[u] = entry[u] /\ pc'[u] = pc[u]
        BY <1>4, <2>5 DEF IInv, TypeOK
      <3>2. Pending(u, c)
        BY <3>1 DEF IInv, PendingWrites
      <3>3. c # b
        BY <1>2, <2>5, <3>2, InventoryAssumption DEF Pending
      <3>4. lock'[c] = lock[c]
        BY <1>4, <2>1, <3>3 DEF IInv, TypeOK
      <3>5. QED
        BY <1>4, <2>2, <3>1, <3>2, <3>4 DEF Pending, Active
    <2>6. QED
      BY <2>3, <2>4, <2>5
  <1>7. ReadyToWrite'
    BY <1>4 DEF IInv, TypeOK, ReadyToWrite, HasLine, Current
  <1>8. LocksAreWrites'
    BY <1>1, <1>4 DEF IInv, TypeOK, LocksAreWrites
  <1>9. Ordered' /\ SnapshotFresh'
    BY <1>4 DEF IInv, Ordered, SnapshotFresh, LastPos, SameRow, tableVars
  <1>10. QED
    BY <1>5, <1>6, <1>7, <1>8, <1>9 DEF IInv, TableInv

\* A committed line continues from the row's last quantity whenever its
\* snapshot is not older than the row's last commit.
LEMMA CommitInv == ASSUME IInv, NEW t \in Tx, Commit(t), TypeOK' PROVE IInv'
  <1> DEFINE E(b) == [entry[t][b] EXCEPT !.pos = clock + 1]
  <1>1. ASSUME NEW b \in Books, b \in written[t]
        PROVE  /\ b \in rows
               /\ E(b) \in LogEntry
               /\ E(b).after = E(b).before + E(b).change
               /\ E(b).after = entry[t][b].after /\ E(b).after >= 0
               /\ E(b).pos = clock + 1
               /\ E(b).seen = snap[t].seen
               /\ E(b).before = snap[t].stock[b]
    <2>1. Pending(t, b)
      BY <1>1 DEF IInv, PendingWrites
    <2>2. entry[t][b] \in LogEntry /\ clock + 1 \in Int
      BY DEF IInv, TypeOK
    <2>3. QED
      BY <2>1, <2>2 DEF Pending, SameRow, LogEntry
  <1>2. /\ stock' = [b \in Books |-> IF b \in written[t] THEN entry[t][b].after ELSE stock[b]]
        /\ logs' = [b \in Books |-> IF b \in written[t] THEN Append(logs[b], E(b)) ELSE logs[b]]
        /\ clock' = clock + 1
        /\ UNCHANGED <<rows, epoch, job, snap>>
    BY DEF Commit
  <1> HIDE DEF E
  <1>3. \A b \in Books : logs[b] \in Seq(LogEntry) /\ stock[b] \in Int
    BY DEF IInv, TypeOK
  <1>4. PendingWrites' /\ ReadyToWrite' /\ LocksAreWrites'
    <2>1. pc'[t] = "committed" /\ \A u \in Tx \ {t} : pc'[u] = pc[u] /\ snap'[u] = snap[u]
      BY DEF IInv, TypeOK, Commit
    <2>2. QED
      BY <2>1, LetGoInv DEF Commit
  <1>5. NoRowNoTrace' /\ StockNeverNegative'
    BY <1>1, <1>2 DEF IInv, NoRowNoTrace, StockNeverNegative
  <1>6. ASSUME NEW b \in Books, b \in written[t]
        PROVE  /\ logs'[b] = Append(logs[b], E(b)) /\ logs'[b] # <<>>
               /\ Len(logs'[b]) = Len(logs[b]) + 1
               /\ logs'[b][Len(logs[b]) + 1] = E(b)
               /\ \A i \in 1 .. Len(logs[b]) : logs'[b][i] = logs[b][i]
               /\ DOMAIN logs'[b] = 1 .. Len(logs[b]) + 1
               /\ Len(logs[b]) \in Nat
    BY <1>1, <1>2, <1>3, <1>6
  <1>7. LogTellsTheStock'
    <2> SUFFICES ASSUME NEW b \in rows
                 PROVE  /\ stock'[b] = IF logs'[b] = <<>> THEN 0
                                       ELSE logs'[b][Len(logs'[b])].after
                        /\ \A i \in DOMAIN logs'[b] :
                              logs'[b][i].after = logs'[b][i].before + logs'[b][i].change
      BY <1>2 DEF LogTellsTheStock
    <2>1. b \in Books
      BY DEF IInv, TypeOK
    <2>2. CASE b \in written[t]
      <3>1. stock'[b] = E(b).after
        BY <1>1, <1>2, <2>1, <2>2
      <3>2. \A i \in 1 .. Len(logs[b]) :
               logs[b][i].after = logs[b][i].before + logs[b][i].change
        BY <1>3, <2>1 DEF IInv, LogTellsTheStock
      <3>3. \A i \in DOMAIN logs'[b] : i \in 1 .. Len(logs[b]) \/ i = Len(logs[b]) + 1
        BY <1>6, <2>1, <2>2
      <3>4. QED
        BY SMTT(30), <1>1, <1>6, <2>1, <2>2, <3>1, <3>2, <3>3
    <2>3. CASE b \notin written[t]
      BY <1>2, <2>1, <2>3 DEF IInv, LogTellsTheStock
    <2>4. QED
      BY <2>2, <2>3
  <1>8. LostUpdateNeedsOverlap'
    <2> SUFFICES ASSUME NEW b \in Books, NEW i \in 1 .. Len(logs'[b]) - 1,
                        logs'[b][i + 1].seen >= logs'[b][i].pos
                 PROVE  logs'[b][i + 1].before = logs'[b][i].after
      BY DEF LostUpdateNeedsOverlap
    <2>1. CASE b \notin written[t]
      BY <1>2, <2>1 DEF IInv, LostUpdateNeedsOverlap
    <2>2. CASE b \in written[t] /\ i + 1 <= Len(logs[b])
      <3>1. i \in 1 .. Len(logs[b]) - 1 /\ i \in 1 .. Len(logs[b]) /\ i + 1 \in 1 .. Len(logs[b])
        BY <1>3, <1>6, <2>2
      <3>2. logs'[b][i] = logs[b][i] /\ logs'[b][i + 1] = logs[b][i + 1]
        BY <1>6, <2>2, <3>1
      <3>3. QED
        BY <3>1, <3>2 DEF IInv, LostUpdateNeedsOverlap
    <2>3. CASE b \in written[t] /\ i + 1 > Len(logs[b])
      <3>1. i = Len(logs[b]) /\ i \in 1 .. Len(logs[b]) /\ logs[b] # <<>>
        BY <1>3, <1>6, <2>3
      <3>2. logs'[b][i] = logs[b][i] /\ logs'[b][i + 1] = E(b)
        BY <1>6, <2>3, <3>1
      <3>3. LastPos(b) <= snap[t].seen /\ snap[t].seen >= 0 /\ SameRow(t, b)
        BY <1>1, <2>3, <3>1, <3>2 DEF LastPos, IInv, PendingWrites, Pending
      <3>4. E(b).before = stock[b]
        BY <1>1, <2>3, <3>3 DEF IInv, SnapshotFresh
      <3>5. stock[b] = logs[b][i].after
        BY <1>1, <2>3, <3>1 DEF IInv, LogTellsTheStock
      <3>6. QED
        BY <3>2, <3>4, <3>5
    <2>4. QED
      BY <1>3, <1>6, <2>1, <2>2, <2>3
  <1>9. Ordered'
    <2>1. ASSUME NEW b \in Books, NEW i \in DOMAIN logs'[b]
          PROVE  logs'[b][i].pos <= clock + 1
      <3>0. \A k \in DOMAIN logs[b] :
               /\ logs[b][k].pos <= clock /\ logs[b][k].pos \in Int
               /\ clock \in Int /\ logs[b][k].pos <= clock + 1
        <4> SUFFICES ASSUME NEW k \in DOMAIN logs[b]
                     PROVE  /\ logs[b][k].pos <= clock /\ logs[b][k].pos \in Int
                            /\ clock \in Int /\ logs[b][k].pos <= clock + 1
          OBVIOUS
        <4>1. logs[b][k].pos <= clock
          BY DEF IInv, Ordered
        <4>2. logs[b][k] \in LogEntry /\ clock \in Int
          BY <1>3 DEF IInv, TypeOK
        <4>3. logs[b][k].pos \in Int
          BY <4>2 DEF LogEntry
        <4>4. QED
          BY <4>1, <4>2, <4>3
      <3>1. CASE b \notin written[t]
        BY <1>2, <3>0, <3>1 DEF IInv, TypeOK
      <3>2. CASE b \in written[t]
        <4>1. i \in 1 .. Len(logs[b]) \/ i = Len(logs[b]) + 1
          BY <1>6, <3>2
        <4>2. CASE i \in 1 .. Len(logs[b])
          <5>1. i \in DOMAIN logs[b] /\ logs'[b][i] = logs[b][i]
            BY <1>3, <1>6, <3>2, <4>2
          <5>2. QED
            BY <3>0, <5>1
        <4>3. CASE i = Len(logs[b]) + 1
          BY <1>1, <1>6, <3>2, <4>3 DEF IInv, TypeOK
        <4>4. QED
          BY <4>1, <4>2, <4>3
      <3>3. QED
        BY <3>1, <3>2
    <2>2. \A b \in Books : \A i \in DOMAIN logs'[b] : logs'[b][i].pos <= clock'
      BY <1>2, <2>1
    <2>3. \A u \in Tx : -1 <= snap'[u].seen /\ snap'[u].seen <= clock'
      BY <1>2 DEF IInv, TypeOK, Ordered, Snapshot
    <2>4. \A u \in Tx, b \in Books : snap'[u].epoch[b] <= epoch'[b]
      BY <1>2 DEF IInv, Ordered
    <2>5. QED
      BY <2>2, <2>3, <2>4 DEF Ordered
  <1>10. SnapshotFresh'
    <2> SUFFICES ASSUME NEW u \in Tx, NEW b \in Books, snap'[u].seen >= 0,
                        SameRow(u, b)', LastPos(b)' <= snap'[u].seen
                 PROVE  snap'[u].stock[b] = stock'[b]
      BY DEF SnapshotFresh
    <2>1. CASE b \in written[t]
      <3>1. LastPos(b)' = clock + 1
        BY <1>1, <1>6, <2>1 DEF LastPos
      <3>2. snap'[u].seen <= clock /\ snap'[u].seen \in Int /\ clock \in Int
        BY <1>2 DEF IInv, Ordered, TypeOK, Snapshot
      <3>3. QED
        BY <3>1, <3>2
    <2>2. CASE b \notin written[t]
      <3>1. LastPos(b)' = LastPos(b) /\ stock'[b] = stock[b]
        BY <1>2, <2>2 DEF LastPos
      <3>2. QED
        BY <1>2, <3>1 DEF IInv, SnapshotFresh, SameRow
    <2>3. QED
      BY <2>1, <2>2
  <1>11. QED
    BY <1>4, <1>5, <1>7, <1>8, <1>9, <1>10 DEF IInv

\* A new row is another row: no snapshot taken before it shows it.
LEMMA CreateRowInv == ASSUME IInv, NEW b \in Books, CreateRow(b), TypeOK' PROVE IInv'
  <1> USE DEF CreateRow
  <1>0. /\ snap' = snap /\ clock' = clock /\ logs' = logs
        /\ epoch' = [epoch EXCEPT ![b] = @ + 1] /\ epoch \in [Books -> Nat]
        /\ b \notin rows /\ rows' = rows \cup {b}
    BY DEF IInv, TypeOK, txVars
  <1>1. ASSUME NEW u \in Tx, NEW c \in Books, SameRow(u, c)
        PROVE  c # b /\ SameRow(u, c)'
    BY <1>0, <1>1 DEF SameRow
  <1>2. ASSUME NEW u \in Tx, NEW c \in Books, SameRow(u, c)'
        PROVE  c # b /\ SameRow(u, c)
    <2>1. c # b
      <3>1. snap[u].epoch[b] <= epoch[b] /\ epoch[b] \in Nat
        BY <1>0 DEF IInv, Ordered
      <3>2. c = b => snap[u].epoch[b] = epoch[b] + 1
        BY <1>0, <1>2 DEF SameRow
      <3>3. QED
        BY <3>1, <3>2
    <2>2. QED
      BY <1>0, <1>2, <2>1 DEF SameRow
  <1>3. PendingWrites'
    <2> SUFFICES ASSUME NEW u \in Tx, NEW c \in written[u] PROVE Pending(u, c)'
      BY DEF PendingWrites, txVars
    <2>1. Pending(u, c) /\ c \in Books
      BY DEF IInv, TypeOK, PendingWrites
    <2>2. SameRow(u, c)'
      BY <1>1, <2>1 DEF Pending
    <2>3. QED
      BY <2>1, <2>2 DEF Pending, Active, txVars
  <1>4. ReadyToWrite' /\ LocksAreWrites'
    BY DEF IInv, ReadyToWrite, LocksAreWrites, HasLine, Current, txVars
  <1>5. NoRowNoTrace' /\ StockNeverNegative' /\ LostUpdateNeedsOverlap'
    BY DEF IInv, NoRowNoTrace, StockNeverNegative, LostUpdateNeedsOverlap
  <1>6. LogTellsTheStock'
    BY DEF IInv, NoRowNoTrace, LogTellsTheStock
  <1>7. Ordered'
    <2>1. \A u \in Tx, c \in Books : snap[u].epoch[c] \in Nat
      BY DEF IInv, TypeOK, Snapshot
    <2>2. \A u \in Tx, c \in Books : snap'[u].epoch[c] <= epoch'[c]
      BY <1>0, <2>1 DEF IInv, Ordered
    <2>3. QED
      BY <1>0, <2>2 DEF IInv, Ordered
  <1>8. SnapshotFresh'
    BY <1>2 DEF IInv, SnapshotFresh, LastPos, txVars
  <1>9. QED
    BY <1>3, <1>4, <1>5, <1>6, <1>7, <1>8 DEF IInv

LEMMA DeleteRowInv == ASSUME IInv, NEW b \in Books, DeleteRow(b), TypeOK' PROVE IInv'
  <1> USE DEF DeleteRow
  <1>1. ASSUME NEW u \in Tx, NEW c \in Books, SameRow(u, c)'
        PROVE  c # b /\ SameRow(u, c)
    BY <1>1 DEF IInv, TypeOK, SameRow, txVars
  <1>2. PendingWrites'
    <2> SUFFICES ASSUME NEW u \in Tx, NEW c \in written[u] PROVE Pending(u, c)'
      BY DEF PendingWrites, txVars
    <2>1. Pending(u, c) /\ c \in Books
      BY DEF IInv, TypeOK, PendingWrites
    <2>2. c # b
      BY <2>1, InventoryAssumption DEF Pending
    <2>3. QED
      BY <2>1, <2>2 DEF IInv, TypeOK, Pending, Active, SameRow, txVars
  <1>3. ReadyToWrite' /\ LocksAreWrites'
    BY DEF IInv, ReadyToWrite, LocksAreWrites, HasLine, Current, txVars
  <1>4. NoRowNoTrace' /\ StockNeverNegative' /\ LostUpdateNeedsOverlap'
    BY DEF IInv, TypeOK, NoRowNoTrace, StockNeverNegative, LostUpdateNeedsOverlap
  <1>5. LogTellsTheStock'
    BY DEF IInv, TypeOK, LogTellsTheStock
  <1>6. Ordered'
    <2>1. \A c \in Books : \A i \in DOMAIN logs'[c] : logs'[c][i].pos <= clock
      BY DEF IInv, TypeOK, Ordered
    <2>2. QED
      BY <2>1 DEF IInv, Ordered, txVars
  <1>7. SnapshotFresh'
    <2> SUFFICES ASSUME NEW u \in Tx, NEW c \in Books, snap'[u].seen >= 0,
                        SameRow(u, c)', LastPos(c)' <= snap'[u].seen
                 PROVE  snap'[u].stock[c] = stock'[c]
      BY DEF SnapshotFresh
    <2>1. c # b /\ SameRow(u, c) /\ logs'[c] = logs[c] /\ stock'[c] = stock[c]
      BY <1>1 DEF IInv, TypeOK
    <2>2. QED
      BY <2>1 DEF IInv, SnapshotFresh, LastPos, txVars
  <1>8. QED
    BY <1>2, <1>3, <1>4, <1>5, <1>6, <1>7 DEF IInv
-----------------------------------------------------------------------------
LEMMA NextIInv == IInv /\ [Next]_vars => IInv'
  <1> SUFFICES ASSUME IInv, [Next]_vars PROVE IInv'
    OBVIOUS
  <1>0. TypeOK'
    BY NextTypeOK DEF IInv
  <1>1. ASSUME NEW t \in Tx, ReadLine(t) PROVE IInv'
    <2>1. ReadyToWrite'
      <3> SUFFICES ASSUME NEW u \in Tx, pc'[u] = "writing"
                   PROVE  /\ HasLine(u)'
                          /\ snap'[u].seen >= 0
                          /\ Current(u)'.book \in snap'[u].rows
                          /\ snap'[u].stock[Current(u)'.book] + Current(u)'.change >= 0
        BY DEF ReadyToWrite
      <3>1. HasLine(u)' = HasLine(u) /\ Current(u)' = Current(u)
        BY <1>1 DEF ReadLine, HasLine, Current
      <3>2. CASE u = t
        <4>1. View(t).seen >= 0
          BY DEF IInv, TypeOK, Ordered, Snapshot, View, Committed
        <4>2. snap'[t] = View(t)
          BY <1>1 DEF IInv, TypeOK, ReadLine
        <4>3. QED
          BY <1>1, <3>1, <3>2, <4>1, <4>2 DEF ReadLine
      <3>3. CASE u # t
        <4>1. pc[u] = "writing" /\ snap'[u] = snap[u]
          BY <1>1, <3>3 DEF IInv, TypeOK, ReadLine
        <4>2. QED
          BY <3>1, <4>1 DEF IInv, ReadyToWrite
      <3>4. QED
        BY <3>2, <3>3
    <2>2. \A u \in Tx \ {t} : pc'[u] = pc[u] /\ line'[u] = line[u]
      BY <1>1 DEF ReadLine, IInv, TypeOK
    <2>3. pc'[t] = "writing"
      BY <1>1 DEF ReadLine, IInv, TypeOK
    <2>4. QED
      BY <1>0, <1>1, <2>1, <2>2, <2>3, ReadInv DEF ReadLine
  <1>2. ASSUME NEW t \in Tx, SkipLine(t) PROVE IInv'
    <2>1. ReadyToWrite'
      BY <1>2 DEF IInv, TypeOK, SkipLine, ReadyToWrite, HasLine, Current
    <2>2. \A u \in Tx \ {t} : pc'[u] = pc[u] /\ line'[u] = line[u]
      BY <1>2 DEF SkipLine, IInv, TypeOK
    <2>3. QED
      BY <1>0, <1>2, <2>1, <2>2, ReadInv DEF SkipLine
  <1>3. CASE UNCHANGED vars
    <2> USE <1>3 DEF vars, tableVars, txVars
    <2>1. TypeOK' /\ StockNeverNegative' /\ NoRowNoTrace'
      BY DEF IInv, TypeOK, StockNeverNegative, NoRowNoTrace
    <2>2. PendingWrites' /\ LocksAreWrites'
      BY DEF IInv, PendingWrites, Pending, LocksAreWrites, SameRow, Active, HasLine, Current
    <2>3. ReadyToWrite' /\ SnapshotFresh'
      BY DEF IInv, ReadyToWrite, SnapshotFresh, LastPos, SameRow, Active, HasLine, Current
    <2>4. Ordered' /\ LogTellsTheStock' /\ LostUpdateNeedsOverlap'
      BY DEF IInv, Ordered, LogTellsTheStock, LostUpdateNeedsOverlap, LastPos
    <2>5. QED
      BY <2>1, <2>2, <2>3, <2>4 DEF IInv
  <1>4. QED
    BY <1>0, <1>1, <1>2, <1>3, BeginInv, RollBackInv, WriteLineInv, CommitInv,
       CreateRowInv, DeleteRowInv
    DEF Next, Step, RejectLine, WriteGone, Abort, DeadlockVictim

LEMMA SpecIInv == Spec => []IInv
  BY InitIInv, NextIInv, PTL DEF Spec

\* Every variable keeps its type, whatever books, transactions and jobs there are.
THEOREM TypeCorrect == Spec => []TypeOK
  <1>1. IInv => TypeOK
    BY DEF IInv
  <1>2. QED
    BY <1>1, SpecIInv, PTL

\* No interleaving of reservations, releases, restocks and admin entries, row
\* deletions included, ever commits a negative quantity.
THEOREM StockSafe == Spec => []StockNeverNegative
  <1>1. IInv => StockNeverNegative
    BY DEF IInv
  <1>2. QED
    BY <1>1, SpecIInv, PTL

\* The newest log row of a book always states the quantity of its stock row,
\* and every log row adds up.
THEOREM LogSound == Spec => []LogTellsTheStock
  <1>1. IInv => LogTellsTheStock
    BY DEF IInv
  <1>2. QED
    BY <1>1, SpecIInv, PTL

\* An update is lost only to a transaction that read before the commit it
\* overwrites: transactions that do not overlap never lose one.
THEOREM NoLossWithoutOverlap == Spec => []LostUpdateNeedsOverlap
  <1>1. IInv => LostUpdateNeedsOverlap
    BY DEF IInv
  <1>2. QED
    BY <1>1, SpecIInv, PTL

-----------------------------------------------------------------------------
(* All lines of a job or none.                                             *)

LoggedBy(t) == {b \in Books : \E i \in DOMAIN logs[b] : logs[b][i].by = t}
LinesOf(t)  == {job[t].lines[i].book : i \in DOMAIN job[t].lines}

\* Only a commit leaves log rows, one for every line whose row it has seen and
\* that is still there.
Traces ==
    \A t \in Tx :
        /\ pc[t] # "committed" => LoggedBy(t) = {}
        /\ LoggedBy(t) \subseteq LinesOf(t)
        /\ pc[t] = "committed" =>
              \A b \in LinesOf(t) :
                  /\ snap[t].seen >= 0
                  /\ job[t].skipMissing \/ b \in snap[t].rows
                  /\ b \in LoggedBy(t) \/ b \notin snap[t].rows \/ ~SameRow(t, b)

\* Every line a transaction is past has been written, or was skipped for want
\* of a row.
PastLines ==
    \A t \in Tx :
        /\ pc[t] = "idle" => line[t] = 1
        /\ snap[t].seen = -1 => line[t] = 1
        /\ written[t] \subseteq LinesOf(t)
        /\ Active(t) =>
              \A i \in DOMAIN job[t].lines :
                  i < line[t] =>
                      \/ job[t].lines[i].book \in written[t]
                      \/ job[t].skipMissing /\ job[t].lines[i].book \notin snap[t].rows

Kept == Traces /\ PastLines

LEMMA LinesNumbered ==
  ASSUME TypeOK, NEW t \in Tx
  PROVE  /\ DOMAIN job[t].lines = 1 .. Len(job[t].lines) /\ Len(job[t].lines) \in Nat
         /\ line[t] \in Nat \ {0}
         /\ HasLine(t) => /\ line[t] \in DOMAIN job[t].lines
                          /\ Current(t).book \in LinesOf(t)
  <1>1. job[t].lines \in Seq(Line) /\ line[t] \in Nat \ {0}
    BY DEF TypeOK, Job
  <1>2. DOMAIN job[t].lines = 1 .. Len(job[t].lines) /\ Len(job[t].lines) \in Nat
    BY <1>1
  <1>3. HasLine(t) => line[t] \in DOMAIN job[t].lines
    BY <1>1, <1>2 DEF HasLine
  <1>4. QED
    BY <1>1, <1>2, <1>3 DEF Current, LinesOf

LEMMA InitKept == Init => Kept
  <1> SUFFICES ASSUME Init PROVE Kept
    OBVIOUS
  <1>1. TypeOK
    BY InitTypeOK
  <1>2. /\ pc = [t \in Tx |-> "idle"] /\ line = [t \in Tx |-> 1]
        /\ written = [t \in Tx |-> {}]
        /\ logs = [b \in Books |-> FirstLog(stock[b])]
    BY DEF Init, InitTables, InitTx
  <1>3. \A b \in Books : stock[b] \in Nat
    <2>1. PICK q \in [Books -> InitQty] :
             stock = [b \in Books |-> IF b \in rows THEN q[b] ELSE 0]
      BY DEF Init, InitTables
    <2>2. QED
      BY <2>1, InventoryAssumption
  <1>4. ASSUME NEW b \in Books, NEW i \in DOMAIN logs[b]
        PROVE  logs[b][i].by = NoTx
    <2> DEFINE q == stock[b]
    <2> DEFINE e == [change |-> q, before |-> 0, after |-> q, by |-> NoTx,
                     seen |-> 0, pos |-> 0]
    <2>1. e.by = NoTx
      OBVIOUS
    <2>2. logs[b] = IF q = 0 THEN <<>> ELSE <<e>>
      BY <1>2 DEF FirstLog
    <2> HIDE DEF e, q
    <2>3. logs[b][i] = e
      BY <1>4, <2>2
    <2>4. QED
      BY <2>1, <2>3
  <1>5. \A t \in Tx : LoggedBy(t) = {}
    BY <1>4, InventoryAssumption DEF LoggedBy
  <1>6. Traces
    BY <1>2, <1>5 DEF Traces
  <1>7. \A t \in Tx : \A i \in DOMAIN job[t].lines : ~(i < 1)
    BY <1>1, LinesNumbered
  <1>8. PastLines
    BY <1>2, <1>7 DEF PastLines
  <1>9. QED
    BY <1>6, <1>8 DEF Kept

\* A step of one transaction that commits nothing leaves the log as it was.
LEMMA TracesStay ==
  ASSUME Kept, NEW u \in Tx, pc[u] # "committed", pc'[u] # "committed",
         UNCHANGED <<rows, epoch, logs, job>>,
         \A t \in Tx \ {u} : pc'[t] = pc[t] /\ snap'[t] = snap[t]
  PROVE  Traces'
  <1>1. Traces
    BY DEF Kept
  <1>2. \A t \in Tx : LoggedBy(t)' = LoggedBy(t) /\ LinesOf(t)' = LinesOf(t)
    BY DEF LoggedBy, LinesOf
  <1>3. LoggedBy(u) = {}
    BY <1>1 DEF Traces
  <1>4. QED
    BY <1>1, <1>2, <1>3 DEF Traces, SameRow

\* The other transactions do not move.
LEMMA PastLinesOthers ==
  ASSUME PastLines, NEW u \in Tx, UNCHANGED job,
         \A t \in Tx \ {u} : /\ pc'[t] = pc[t] /\ snap'[t] = snap[t] /\ line'[t] = line[t]
                             /\ written'[t] = written[t],
         /\ pc'[u] # "idle"
         /\ snap'[u].seen = -1 => line'[u] = 1
         /\ written'[u] \subseteq LinesOf(u)
         /\ pc'[u] \in {"reading", "writing"} =>
               \A i \in DOMAIN job[u].lines :
                   i < line'[u] =>
                       \/ job[u].lines[i].book \in written'[u]
                       \/ job[u].skipMissing /\ job[u].lines[i].book \notin snap'[u].rows
  PROVE  PastLines'
  <1>1. \A t \in Tx : LinesOf(t)' = LinesOf(t)
    BY DEF LinesOf
  <1>2. QED
    BY <1>1 DEF PastLines, Active

\* What a read leaves of the lines that are done: it changes the snapshot of a
\* transaction only at its first line.
LEMMA ReadKeepsLines ==
  ASSUME IInv, Kept, NEW u \in Tx, pc[u] = "reading",
         NEW i \in DOMAIN job[u].lines, i < line[u]
  PROVE  /\ View(u) = snap[u]
         /\ \/ job[u].lines[i].book \in written[u]
            \/ job[u].skipMissing /\ job[u].lines[i].book \notin snap[u].rows
  <1>1. TypeOK /\ PastLines
    BY DEF IInv, Kept
  <1>2. line[u] # 1
    BY <1>1, LinesNumbered
  <1>3. QED
    BY <1>1, <1>2 DEF PastLines, View, Active

LEMMA ViewSeen == ASSUME IInv, NEW u \in Tx PROVE View(u).seen >= 0
  BY DEF IInv, TypeOK, Ordered, Snapshot, View, Committed

LEMMA BeginKept == ASSUME IInv, Kept, NEW u \in Tx, Begin(u) PROVE Kept'
  <1>1. TypeOK /\ PastLines
    BY DEF IInv, Kept
  <1>2. /\ pc[u] = "idle" /\ pc'[u] = "reading"
        /\ \A t \in Tx \ {u} : pc'[t] = pc[t]
        /\ UNCHANGED <<rows, epoch, logs, job, line, snap, written>>
    BY <1>1 DEF Begin, TypeOK, tableVars
  <1>3. Traces'
    BY <1>2, TracesStay
  <1>4. \A i \in DOMAIN job[u].lines : ~(i < line[u])
    BY <1>1, <1>2, LinesNumbered DEF PastLines
  <1>5. written[u] \subseteq LinesOf(u) /\ (snap[u].seen = -1 => line[u] = 1)
    BY <1>1 DEF PastLines
  <1>6. PastLines'
    BY <1>1, <1>2, <1>4, <1>5, PastLinesOthers
  <1>7. QED
    BY <1>3, <1>6 DEF Kept

LEMMA ReadLineKept == ASSUME IInv, Kept, NEW u \in Tx, ReadLine(u) PROVE Kept'
  <1>1. TypeOK /\ PastLines
    BY DEF IInv, Kept
  <1>2. /\ pc[u] = "reading" /\ pc'[u] = "writing" /\ snap'[u] = View(u)
        /\ \A t \in Tx \ {u} : pc'[t] = pc[t] /\ snap'[t] = snap[t]
        /\ UNCHANGED <<rows, epoch, logs, job, line, written>>
    BY <1>1 DEF ReadLine, TypeOK, tableVars
  <1>3. Traces'
    BY <1>2, TracesStay
  <1>4. \A i \in DOMAIN job[u].lines :
           i < line[u] => \/ job[u].lines[i].book \in written[u]
                          \/ job[u].skipMissing /\ job[u].lines[i].book \notin snap'[u].rows
    BY <1>2, ReadKeepsLines
  <1>5. written[u] \subseteq LinesOf(u)
    BY <1>1 DEF PastLines
  <1>6. snap'[u].seen # -1
    BY <1>2, ViewSeen
  <1>7. PastLines'
    BY <1>1, <1>2, <1>4, <1>5, <1>6, PastLinesOthers
  <1>8. QED
    BY <1>3, <1>7 DEF Kept

LEMMA SkipLineKept == ASSUME IInv, Kept, NEW u \in Tx, SkipLine(u) PROVE Kept'
  <1>1. TypeOK /\ PastLines
    BY DEF IInv, Kept
  <1>2. /\ pc[u] = "reading" /\ snap'[u] = View(u) /\ line'[u] = line[u] + 1
        /\ \A t \in Tx \ {u} : snap'[t] = snap[t] /\ line'[t] = line[t]
        /\ UNCHANGED <<rows, epoch, logs, job, pc, written>>
        /\ HasLine(u) /\ Current(u).book \notin View(u).rows /\ job[u].skipMissing
    BY <1>1 DEF SkipLine, TypeOK, tableVars
  <1>3. Traces'
    BY <1>2, TracesStay
  <1>4. ASSUME NEW i \in DOMAIN job[u].lines, i < line'[u]
        PROVE  \/ job[u].lines[i].book \in written[u]
               \/ job[u].skipMissing /\ job[u].lines[i].book \notin snap'[u].rows
    <2>1. i < line[u] \/ i = line[u]
      BY <1>1, <1>2, <1>4, LinesNumbered
    <2>2. CASE i < line[u]
      BY <1>2, <2>2, ReadKeepsLines
    <2>3. CASE i = line[u]
      BY <1>2, <2>3 DEF Current
    <2>4. QED
      BY <2>1, <2>2, <2>3
  <1>5. written[u] \subseteq LinesOf(u)
    BY <1>1 DEF PastLines
  <1>6. snap'[u].seen # -1
    BY <1>2, ViewSeen
  <1>7. PastLines'
    BY <1>1, <1>2, <1>4, <1>5, <1>6, PastLinesOthers
  <1>8. QED
    BY <1>3, <1>7 DEF Kept

LEMMA WriteLineKept == ASSUME IInv, Kept, NEW u \in Tx, WriteLine(u) PROVE Kept'
  <1>1. TypeOK /\ PastLines /\ ReadyToWrite
    BY DEF IInv, Kept
  <1>2. /\ pc[u] = "writing" /\ pc'[u] = "reading" /\ line'[u] = line[u] + 1
        /\ written'[u] = written[u] \cup {Current(u).book}
        /\ \A t \in Tx \ {u} : pc'[t] = pc[t] /\ line'[t] = line[t] /\ written'[t] = written[t]
        /\ UNCHANGED <<rows, epoch, logs, job, snap>>
    BY <1>1 DEF WriteLine, TypeOK, tableVars
  <1>3. HasLine(u) /\ snap[u].seen >= 0
    BY <1>1, <1>2 DEF ReadyToWrite
  <1>4. Traces'
    BY <1>2, TracesStay
  <1>5. ASSUME NEW i \in DOMAIN job[u].lines, i < line'[u]
        PROVE  \/ job[u].lines[i].book \in written'[u]
               \/ job[u].skipMissing /\ job[u].lines[i].book \notin snap[u].rows
    <2>1. i < line[u] \/ i = line[u]
      BY <1>1, <1>2, <1>5, LinesNumbered
    <2>2. CASE i < line[u]
      BY <1>1, <1>2, <2>2 DEF PastLines, Active
    <2>3. CASE i = line[u]
      BY <1>2, <2>3 DEF Current
    <2>4. QED
      BY <2>1, <2>2, <2>3
  <1>6. written'[u] \subseteq LinesOf(u)
    BY <1>1, <1>2, <1>3, LinesNumbered DEF PastLines
  <1>7. snap'[u].seen # -1
    BY <1>2, <1>3
  <1>8. PastLines'
    BY <1>1, <1>2, <1>5, <1>6, <1>7, PastLinesOthers
  <1>9. QED
    BY <1>4, <1>8 DEF Kept

LEMMA RollBackKept == ASSUME IInv, Kept, NEW u \in Tx, Active(u), RollBack(u) PROVE Kept'
  <1>1. TypeOK /\ PastLines
    BY DEF IInv, Kept
  <1>2. /\ pc[u] # "committed" /\ pc'[u] = "failed" /\ line'[u] = 1 /\ written'[u] = {}
        /\ \A t \in Tx \ {u} : /\ pc'[t] = pc[t] /\ snap'[t] = snap[t] /\ line'[t] = line[t]
                               /\ written'[t] = written[t]
        /\ UNCHANGED <<rows, epoch, logs, job>>
    BY <1>1 DEF RollBack, LetGo, Active, TypeOK, tableVars
  <1>3. Traces'
    BY <1>2, TracesStay
  <1>4. PastLines'
    BY <1>1, <1>2, PastLinesOthers
  <1>5. QED
    BY <1>3, <1>4 DEF Kept

\* What a commit adds to the log.
LEMMA CommitLogs ==
  ASSUME IInv, NEW u \in Tx, Commit(u), NEW t \in Tx
  PROVE  LoggedBy(t)' = IF t = u THEN LoggedBy(t) \cup written[u] ELSE LoggedBy(t)
  <1> DEFINE E(b) == [entry[u][b] EXCEPT !.pos = clock + 1]
  <1>1. logs' = [b \in Books |-> IF b \in written[u] THEN Append(logs[b], E(b)) ELSE logs[b]]
    BY DEF Commit
  <1>2. \A b \in written[u] : E(b) \in LogEntry /\ E(b).by = u
    <2> SUFFICES ASSUME NEW b \in written[u] PROVE E(b) \in LogEntry /\ E(b).by = u
      OBVIOUS
    <2>1. Pending(u, b)
      BY DEF IInv, PendingWrites
    <2>2. entry[u][b] \in LogEntry /\ clock + 1 \in Int
      BY DEF IInv, TypeOK
    <2>3. QED
      BY <2>1, <2>2 DEF Pending, LogEntry
  <1> HIDE DEF E
  <1>3. \A b \in Books : logs[b] \in Seq(LogEntry)
    BY DEF IInv, TypeOK
  <1>4. ASSUME NEW b \in Books, b \in written[u]
        PROVE  (\E i \in DOMAIN logs'[b] : logs'[b][i].by = t)
                  <=> (\E i \in DOMAIN logs[b] : logs[b][i].by = t) \/ t = u
    <2>1. /\ \A i \in 1 .. Len(logs[b]) : logs'[b][i] = logs[b][i]
          /\ logs'[b][Len(logs[b]) + 1] = E(b)
          /\ DOMAIN logs'[b] = 1 .. Len(logs[b]) + 1
          /\ DOMAIN logs[b] = 1 .. Len(logs[b])
          /\ Len(logs[b]) \in Nat
      BY <1>1, <1>2, <1>3, <1>4
    <2>2. \A i \in DOMAIN logs'[b] : i \in DOMAIN logs[b] \/ i = Len(logs[b]) + 1
      BY <2>1
    <2>3. E(b).by = u
      BY <1>2, <1>4
    <2>4. Len(logs[b]) + 1 \in DOMAIN logs'[b] /\ DOMAIN logs[b] \subseteq DOMAIN logs'[b]
      BY <2>1
    <2>5. QED
      BY <2>1, <2>2, <2>3, <2>4
  <1>5. \A b \in Books \ written[u] : logs'[b] = logs[b]
    BY <1>1
  <1>6. written[u] \subseteq Books
    BY DEF IInv, TypeOK
  <1>7. QED
    BY <1>4, <1>5, <1>6 DEF LoggedBy

LEMMA CommitKept == ASSUME IInv, Kept, NEW u \in Tx, Commit(u) PROVE Kept'
  <1>1. TypeOK /\ PastLines /\ Traces /\ Ordered
    BY DEF IInv, Kept
  <1>2. /\ pc[u] = "reading" /\ ~HasLine(u)
        /\ pc'[u] = "committed" /\ line'[u] = 1 /\ written'[u] = {}
        /\ \A t \in Tx \ {u} : /\ pc'[t] = pc[t] /\ line'[t] = line[t]
                               /\ written'[t] = written[t]
        /\ UNCHANGED <<rows, epoch, job, snap>>
    BY <1>1 DEF Commit, LetGo, TypeOK
  <1>3. \A t \in Tx : LinesOf(t)' = LinesOf(t) /\ \A b : SameRow(t, b)' = SameRow(t, b)
    BY <1>2 DEF LinesOf, SameRow
  <1>4. LoggedBy(u)' = written[u] /\ written[u] \subseteq LinesOf(u)
    <2>1. LoggedBy(u)' = LoggedBy(u) \cup written[u]
      BY CommitLogs
    <2>2. LoggedBy(u) = {}
      BY <1>1, <1>2 DEF Traces
    <2>3. written[u] \subseteq LinesOf(u)
      BY <1>1 DEF PastLines
    <2>4. QED
      BY <2>1, <2>2, <2>3
  <1>5. ASSUME NEW b \in LinesOf(u)
        PROVE  /\ snap[u].seen >= 0
               /\ job[u].skipMissing \/ b \in snap[u].rows
               /\ b \in written[u] \/ b \notin snap[u].rows
    <2>1. PICK i \in DOMAIN job[u].lines : b = job[u].lines[i].book
      BY DEF LinesOf
    <2>2. i < line[u] /\ line[u] # 1
      BY <1>1, <1>2, LinesNumbered DEF HasLine
    <2>3. snap[u].seen # -1 /\ snap[u].seen \in Int /\ -1 <= snap[u].seen
      BY <1>1, <2>2 DEF PastLines, Ordered, TypeOK, Snapshot
    <2>4. \/ b \in written[u]
          \/ job[u].skipMissing /\ b \notin snap[u].rows
      BY <1>1, <1>2, <2>1, <2>2 DEF PastLines, Active
    <2>5. b \in written[u] => b \in snap[u].rows
      BY DEF IInv, PendingWrites, Pending
    <2>6. snap[u].seen >= 0
      BY <2>3
    <2>7. QED
      BY <2>4, <2>5, <2>6
  <1>6. ASSUME NEW t \in Tx
        PROVE  /\ pc'[t] # "committed" => LoggedBy(t)' = {}
               /\ LoggedBy(t)' \subseteq LinesOf(t)'
               /\ pc'[t] = "committed" =>
                     \A b \in LinesOf(t)' :
                        /\ snap'[t].seen >= 0
                        /\ job'[t].skipMissing \/ b \in snap'[t].rows
                        /\ b \in LoggedBy(t)' \/ b \notin snap'[t].rows \/ ~SameRow(t, b)'
    <2>1. CASE t = u
      BY <1>2, <1>3, <1>4, <1>5, <2>1
    <2>2. CASE t # u
      <3>1. LoggedBy(t)' = LoggedBy(t) /\ pc'[t] = pc[t]
        BY <1>2, <2>2, CommitLogs
      <3>2. QED
        BY <1>1, <1>2, <1>3, <3>1 DEF Traces
    <2>3. QED
      BY <2>1, <2>2
  <1>7. Traces'
    BY <1>6 DEF Traces
  <1>8. PastLines'
    BY <1>1, <1>2, PastLinesOthers
  <1>9. QED
    BY <1>7, <1>8 DEF Kept

\* A row created anew is not the row that anybody has seen.
LEMMA CreateRowKept == ASSUME IInv, Kept, NEW b \in Books, CreateRow(b) PROVE Kept'
  <1>1. TypeOK /\ Traces /\ PastLines /\ Ordered
    BY DEF IInv, Kept
  <1>2. /\ rows' = rows \cup {b} /\ epoch' = [epoch EXCEPT ![b] = @ + 1] /\ b \notin rows
        /\ UNCHANGED <<logs, job, pc, line, snap, written>>
    BY DEF CreateRow, txVars
  <1>3. \A t \in Tx : LoggedBy(t)' = LoggedBy(t) /\ LinesOf(t)' = LinesOf(t)
    BY <1>2 DEF LoggedBy, LinesOf
  <1>4. ASSUME NEW t \in Tx, NEW c \in LinesOf(t), ~SameRow(t, c)
        PROVE  ~SameRow(t, c)'
    <2>1. CASE c = b
      <3>1. /\ snap[t].epoch[b] <= epoch[b] /\ snap[t].epoch[b] \in Int /\ epoch[b] \in Int
            /\ epoch'[b] = epoch[b] + 1
        BY <1>1, <1>2 DEF Ordered, TypeOK, Snapshot
      <3>2. epoch'[b] # snap[t].epoch[b]
        BY <3>1
      <3>3. QED
        BY <1>2, <2>1, <3>2 DEF SameRow
    <2>2. CASE c # b
      BY <1>1, <1>2, <1>4, <2>2 DEF SameRow, TypeOK
    <2>3. QED
      BY <2>1, <2>2
  <1>5. Traces'
    BY <1>1, <1>2, <1>3, <1>4 DEF Traces
  <1>6. PastLines'
    BY <1>1, <1>2, <1>3 DEF PastLines, Active
  <1>7. QED
    BY <1>5, <1>6 DEF Kept

LEMMA DeleteRowKept == ASSUME IInv, Kept, NEW b \in Books, DeleteRow(b) PROVE Kept'
  <1>1. TypeOK /\ Traces /\ PastLines
    BY DEF IInv, Kept
  <1>2. /\ rows' = rows \ {b} /\ logs' = [logs EXCEPT ![b] = <<>>]
        /\ UNCHANGED <<epoch, job, pc, line, snap, written>>
    BY DEF DeleteRow, txVars
  <1>3. \A t \in Tx : LoggedBy(t)' = LoggedBy(t) \ {b} /\ LinesOf(t)' = LinesOf(t)
    BY <1>1, <1>2 DEF LoggedBy, LinesOf, TypeOK
  <1>4. \A t \in Tx : \A c : SameRow(t, c)' => SameRow(t, c) /\ c # b
    BY <1>2 DEF SameRow
  <1>5. Traces'
    BY <1>1, <1>2, <1>3, <1>4 DEF Traces
  <1>6. PastLines'
    BY <1>1, <1>2, <1>3 DEF PastLines, Active
  <1>7. QED
    BY <1>5, <1>6 DEF Kept

LEMMA NextKept == IInv /\ Kept /\ [Next]_vars => Kept'
  <1> SUFFICES ASSUME IInv, Kept, [Next]_vars PROVE Kept'
    OBVIOUS
  <1>1. ASSUME NEW t \in Tx, Begin(t) \/ Step(t) \/ Abort(t) \/ DeadlockVictim(t)
        PROVE  Kept'
    <2>1. ASSUME RejectLine(t) \/ WriteGone(t) \/ Abort(t) \/ DeadlockVictim(t)
          PROVE  Active(t) /\ RollBack(t)
      BY <2>1 DEF RejectLine, WriteGone, Abort, DeadlockVictim, InDeadlock, Active
    <2>2. QED
      BY <1>1, <2>1, BeginKept, ReadLineKept, SkipLineKept, WriteLineKept, RollBackKept,
         CommitKept
      DEF Step
  <1>2. ASSUME NEW b \in Books, CreateRow(b) \/ DeleteRow(b)
        PROVE  Kept'
    BY <1>2, CreateRowKept, DeleteRowKept
  <1>3. CASE UNCHANGED vars
    BY SMTT(30), <1>3 DEF Kept, Traces, PastLines, LoggedBy, LinesOf, SameRow, Active, vars, tableVars,
                txVars
  <1>4. QED
    BY <1>1, <1>2, <1>3 DEF Next

LEMMA SpecKept == Spec => []Kept
  BY InitKept, NextKept, SpecIInv, PTL DEF Spec

\* An order reserves, cancels or returns all of its books or none: whatever
\* transactions do meanwhile, a commit leaves a log row for every line.
THEOREM WholeJobs == Spec => []AllLinesOrNone
  <1>1. Kept => AllLinesOrNone
    BY DEF Kept, Traces, LoggedBy, LinesOf, AllLinesOrNone
  <1>2. QED
    BY <1>1, SpecKept, PTL

-----------------------------------------------------------------------------
(* Why copies are sold twice. NothingSoldTwice fails in the run oversell;   *)
(* transactions that overlap on a row are the only reason.                  *)

\* Each change in the log was computed by a transaction that began to read after
\* the change before it was committed.
OverlapFree(b) ==
    \A i \in 1 .. Len(logs[b]) - 1 : logs[b][i + 1].seen >= logs[b][i].pos

\* A row begins empty, so its log begins at 0.
FromNothing == \A b \in Books : logs[b] # <<>> => logs[b][1].before = 0

LEMMA InitFromNothing == Init => FromNothing
  <1> SUFFICES ASSUME Init, NEW b \in Books, logs[b] # <<>> PROVE logs[b][1].before = 0
    BY DEF FromNothing
  <1>1. PICK q \in [Books -> InitQty] :
           stock = [a \in Books |-> IF a \in rows THEN q[a] ELSE 0]
    BY DEF Init, InitTables
  <1>2. stock[b] \in Nat
    BY <1>1, InventoryAssumption
  <1>3. logs[b] = FirstLog(stock[b])
    BY DEF Init, InitTables
  <1>4. QED
    BY <1>2, <1>3, FirstLogIs

LEMMA CommitFromNothing ==
  ASSUME IInv, FromNothing, NEW t \in Tx, Commit(t) PROVE FromNothing'
  <1> SUFFICES ASSUME NEW b \in Books, logs'[b] # <<>> PROVE logs'[b][1].before = 0
    BY DEF FromNothing
  <1>1. TypeOK /\ PendingWrites /\ SnapshotFresh /\ LogTellsTheStock
    BY DEF IInv
  <1>2. logs[b] \in Seq(LogEntry)
    BY <1>1 DEF TypeOK
  <1>3. CASE b \notin written[t]
    BY <1>3 DEF Commit, FromNothing
  <1>4. CASE b \in written[t]
    <2>1. PICK e : e = [entry[t][b] EXCEPT !.pos = clock + 1]
      OBVIOUS
    <2>2. logs'[b] = Append(logs[b], e)
      BY <1>4, <2>1 DEF Commit
    <2>3. Pending(t, b)
      BY <1>1, <1>4 DEF PendingWrites
    <2>4. e.before = snap[t].stock[b] /\ e \in LogEntry
      <3>1. entry[t][b] \in LogEntry /\ clock + 1 \in Int
        BY <1>1 DEF TypeOK
      <3>2. QED
        BY <2>1, <2>3, <3>1 DEF Pending, LogEntry
    <2>5. CASE logs[b] # <<>>
      <3>1. logs'[b][1] = logs[b][1]
        BY <1>2, <2>2, <2>4, <2>5
      <3>2. QED
        BY <2>5, <3>1 DEF FromNothing
    <2>6. CASE logs[b] = <<>>
      <3>1. logs'[b][1] = e
        BY <2>2, <2>6
      <3>2. snap[t].seen >= 0 /\ SameRow(t, b) /\ LastPos(b) = 0
        BY <2>3, <2>6 DEF Pending, LastPos
      <3>3. snap[t].seen \in Int
        BY <1>1 DEF TypeOK, Snapshot
      <3>4. snap[t].stock[b] = stock[b]
        BY <1>1, <3>2, <3>3 DEF SnapshotFresh
      <3>5. stock[b] = 0
        BY <1>1, <2>6, <3>2 DEF LogTellsTheStock, SameRow
      <3>6. QED
        BY <2>4, <3>1, <3>4, <3>5
    <2>7. QED
      BY <2>5, <2>6
  <1>5. QED
    BY <1>3, <1>4

LEMMA NextFromNothing == IInv /\ FromNothing /\ [Next]_vars => FromNothing'
  <1> SUFFICES ASSUME IInv, FromNothing, [Next]_vars PROVE FromNothing'
    OBVIOUS
  <1>1. ASSUME NEW t \in Tx, Commit(t) PROVE FromNothing'
    BY <1>1, CommitFromNothing
  <1>2. ASSUME NEW b \in Books, DeleteRow(b) PROVE FromNothing'
    BY <1>2 DEF DeleteRow, FromNothing, IInv, TypeOK
  <1>3. CASE UNCHANGED logs
    BY <1>3 DEF FromNothing
  <1>4. QED
    BY <1>1, <1>2, <1>3
    DEF Next, Step, Begin, ReadLine, SkipLine, RejectLine, WriteLine, WriteGone, Abort,
        DeadlockVictim, CreateRow, RollBack, tableVars, vars

\* A set that holds 0 and, with a number, the next one holds them all.
LEMMA CountingUp ==
  ASSUME NEW S, 0 \in S, \A n \in Nat : n \in S => n + 1 \in S
  PROVE  Nat \subseteq S
  <1> DEFINE T == Nat \ S
             R == OpToRel(<, Nat)
  <1>1. SUFFICES ASSUME T # {} PROVE FALSE
    OBVIOUS
  <1>2. IsWellFoundedOn(R, Nat)
    BY NatLessThanWellFounded
  <1>3. T \subseteq Nat
    OBVIOUS
  <1>4. PICK x \in T : \A y \in T : <<y, x>> \notin R
    <2> HIDE DEF T, R
    <2>1. QED
      BY <1>1, <1>2, <1>3, WFMin
  <1>5. x - 1 \in T
    OBVIOUS
  <1>6. <<x - 1, x>> \in R
    BY <1>5 DEF OpToRel
  <1>7. QED
    BY <1>4, <1>5, <1>6

\* A log that adds up, from 0 and from each row to the next, tells its sum.
LEMMA ChainSums ==
  ASSUME NEW b, NEW s \in Seq(LogEntry), s = logs[b],
         s # <<>> => s[1].before = 0,
         \A i \in DOMAIN s : s[i].after = s[i].before + s[i].change,
         \A i \in 1 .. Len(s) - 1 : s[i + 1].before = s[i].after
  PROVE  Moved(b) = IF s = <<>> THEN 0 ELSE s[Len(s)].after
  <1> DEFINE Eq(f) == f = [i \in 0 .. Len(s) |-> IF i = 0 THEN 0 ELSE f[i - 1] + s[i].change]
             g == [i \in 0 .. Len(s) |-> IF i = 0 THEN 0 ELSE s[i].after]
  <1>1. /\ Len(s) \in Nat /\ DOMAIN s = 1 .. Len(s)
        /\ \A i \in DOMAIN s : s[i].change \in Int /\ s[i].after \in Int /\ s[i].before \in Int
        /\ (s = <<>>) <=> (Len(s) = 0)
    <2>1. Len(s) \in Nat /\ DOMAIN s = 1 .. Len(s)
      OBVIOUS
    <2>2. \A i \in DOMAIN s : s[i] \in LogEntry
      OBVIOUS
    <2>3. \A e \in LogEntry : e.change \in Int /\ e.after \in Int /\ e.before \in Int
      BY DEF LogEntry
    <2>4. (s = <<>>) <=> (Len(s) = 0)
      <3>1. s = <<>> => Len(s) = 0
        OBVIOUS
      <3>2. Len(s) = 0 => s = <<>>
        OBVIOUS
      <3>3. QED
        BY <3>1, <3>2
    <2>5. QED
      BY <2>1, <2>2, <2>3, <2>4
  <1>2. PICK n : n = Len(s) /\ n \in Nat
    BY <1>1
  <1>3. ASSUME NEW i \in 0 .. n, i # 0 PROVE g[i] = g[i - 1] + s[i].change
    <2>1. i \in 1 .. n /\ i - 1 \in 0 .. n /\ i \in DOMAIN s
      BY <1>1, <1>2, <1>3
    <2>2. s[i].after = s[i].before + s[i].change
      BY <2>1
    <2>3. g[i] = s[i].after /\ g[i - 1] = IF i - 1 = 0 THEN 0 ELSE s[i - 1].after
      BY <1>2, <1>3, <2>1
    <2>4. s[i].before = IF i - 1 = 0 THEN 0 ELSE s[i - 1].after
      <3>1. CASE i = 1
        BY <1>1, <1>2, <2>1, <3>1
      <3>2. CASE i # 1
        <4>1. i - 1 \in 1 .. Len(s) - 1 /\ (i - 1) + 1 = i
          BY <1>2, <2>1, <3>2
        <4>2. s[(i - 1) + 1].before = s[i - 1].after
          BY <4>1
        <4>3. QED
          BY <2>1, <3>2, <4>1, <4>2
      <3>3. QED
        BY <3>1, <3>2
    <2>5. QED
      BY <2>2, <2>3, <2>4
  <1>4. g[0] = 0
    BY <1>2
  <1>5. Eq(g)
    <2>1. g = [i \in 0 .. n |-> g[i]]
      BY <1>2
    <2> HIDE DEF g
    <2>2. QED
      BY <1>2, <1>3, <1>4, <2>1
  <1>6. PICK f : f = (CHOOSE h : Eq(h)) /\ Eq(f)
    BY <1>5
  <1>7. Moved(b) = f[n]
    BY <1>2, <1>6 DEF Moved
  <1>14. \A i \in 0 .. n : f[i] = IF i = 0 THEN 0 ELSE f[i - 1] + s[i].change
    <2>1. f = [i \in 0 .. n |-> IF i = 0 THEN 0 ELSE f[i - 1] + s[i].change]
      BY <1>2, <1>6
    <2>2. QED
      BY <2>1
  <1> DEFINE S == {i \in Nat : i <= n => f[i] = g[i]}
  <1> HIDE DEF g
  <1>8. 0 \in S
    BY <1>2, <1>4, <1>14
  <1>9. ASSUME NEW i \in Nat, i \in S PROVE i + 1 \in S
    <2>1. CASE i + 1 <= n
      <3>1. i \in 0 .. n /\ i + 1 \in 0 .. n /\ i + 1 # 0 /\ (i + 1) - 1 = i
        BY <1>2, <2>1
      <3>2. f[i] = g[i]
        BY <1>9, <3>1
      <3>3. f[i + 1] = f[(i + 1) - 1] + s[i + 1].change
        BY <1>14, <3>1
      <3>4. g[i + 1] = g[(i + 1) - 1] + s[i + 1].change
        BY <1>3, <3>1
      <3>5. QED
        BY <3>1, <3>2, <3>3, <3>4
    <2>2. CASE ~(i + 1 <= n)
      BY <2>2
    <2>3. QED
      BY <2>1, <2>2
  <1>10. n \in S
    <2> HIDE DEF S
    <2>1. QED
      BY <1>2, <1>8, <1>9, CountingUp
  <1>11. f[n] = g[n]
    BY <1>2, <1>10
  <1>12. g[n] = IF s = <<>> THEN 0 ELSE s[Len(s)].after
    BY <1>1, <1>2 DEF g
  <1>13. QED
    BY <1>7, <1>11, <1>12

LEMMA OverlapFreeCounts ==
  ASSUME IInv, FromNothing, NEW b \in Books, OverlapFree(b)
  PROVE  Moved(b) = stock[b]
  <1>1. PICK s \in Seq(LogEntry) : s = logs[b]
    BY DEF IInv, TypeOK
  <1>2. s # <<>> => s[1].before = 0
    BY <1>1 DEF FromNothing
  <1>3. \A i \in 1 .. Len(s) - 1 : s[i + 1].before = s[i].after
    BY <1>1 DEF IInv, LostUpdateNeedsOverlap, OverlapFree
  <1>4. CASE b \in rows
    <2>1. /\ stock[b] = IF s = <<>> THEN 0 ELSE s[Len(s)].after
          /\ \A i \in DOMAIN s : s[i].after = s[i].before + s[i].change
      BY <1>1, <1>4 DEF IInv, LogTellsTheStock
    <2>2. QED
      BY <1>1, <1>2, <1>3, <2>1, ChainSums
  <1>5. CASE b \notin rows
    <2>1. stock[b] = 0 /\ s = <<>>
      BY <1>1, <1>5 DEF IInv, NoRowNoTrace
    <2>2. \A i \in DOMAIN s : s[i].after = s[i].before + s[i].change
      BY <2>1
    <2>3. QED
      BY <1>1, <1>2, <1>3, <2>1, <2>2, ChainSums
  <1>6. QED
    BY <1>4, <1>5

\* A row on which no two transactions have overlapped holds what has come in less
\* what has left, so no copy of it is sold twice: reserveStock and the other
\* writers go wrong by overlapping and in no other way.
THEOREM CopiesCountedWithoutOverlap ==
  Spec => []/\ \A b \in Books : OverlapFree(b) => Moved(b) = stock[b]
            /\ (\A b \in Books : OverlapFree(b)) => NothingSoldTwice
  <1>1. ASSUME IInv, FromNothing
        PROVE  /\ \A b \in Books : OverlapFree(b) => Moved(b) = stock[b]
               /\ (\A b \in Books : OverlapFree(b)) => NothingSoldTwice
    <2>1. \A b \in Books : OverlapFree(b) => Moved(b) = stock[b]
      BY <1>1, OverlapFreeCounts
    <2>2. \A b \in Books : stock[b] >= 0
      BY <1>1 DEF IInv, StockNeverNegative
    <2>3. QED
      BY <2>1, <2>2 DEF NothingSoldTwice
  <1>2. Spec => []FromNothing
    BY InitFromNothing, NextFromNothing, SpecIInv, PTL DEF Spec
  <1>3. QED
    BY <1>1, <1>2, SpecIInv, PTL
=============================================================================
