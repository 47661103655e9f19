------------------------------ MODULE Inventory ------------------------------
(***************************************************************************)
(* The stock rows and the stock log of the inventory module.               *)
(*                                                                         *)
(* Every stock change of the system is a database transaction that, line   *)
(* by line, READS the row of a book (findUnique, a non-locking read), and   *)
(* then writes the ABSOLUTE quantity it computed together with a log row.   *)
(* The six operations differ only in the lines they carry and in what they  *)
(* do when a row is missing, so a transaction runs a "job": a sequence of   *)
(* [book, change] lines and a flag.                                         *)
(*                                                                         *)
(* The database is MySQL 8 at its default isolation level (REPEATABLE       *)
(* READ): all reads of a transaction see the snapshot taken by the first    *)
(* one, an UPDATE waits for the row's exclusive lock and keeps it until the *)
(* end, nothing is visible before COMMIT.                                   *)
(***************************************************************************)
EXTENDS Integers, Sequences, FiniteSets

CONSTANTS
    Books,      \* the books that may have a stock row
    Tx,         \* transactions; each one runs at most one job
    NoTx,       \* "nobody": a free lock, the origin of the first log row
    Jobs,       \* the jobs the standalone specification gives to transactions
    InitQty,    \* the quantities a row may start with
    MaxEpoch    \* bound: how often a stock row may be created anew

\* A cart and an order have one line for each book: no job names a book twice.
Line == [book : Books, change : Int]
Job  == [lines : Seq(Line), skipMissing : BOOLEAN]

ASSUME InventoryAssumption ==
    /\ NoTx \notin Tx
    /\ Jobs \subseteq Job
    /\ InitQty \subseteq Nat
    /\ MaxEpoch \in Nat

VARIABLES
    rows,       \* the books that have a stock row
    stock,      \* committed quantity of each row (0 when there is no row)
    epoch,      \* identity of the current row: a re-created row is another row
    logs,       \* committed log of each row, in commit order
    lock,       \* which transaction holds the row's exclusive lock
    clock,      \* number of commits so far (history, read by properties only)
    job,        \* what each transaction does
    pc,         \* where it is
    line,       \* the line it is at
    snap,       \* its snapshot; seen = -1 while it has read nothing
    written,    \* the rows it has written and not yet committed
    entry       \* the log row it will commit for each of them

tableVars == <<rows, stock, epoch, logs, clock>>
txVars    == <<job, pc, line, snap, written, entry>>
vars      == <<tableVars, lock, txVars>>

LogEntry == [change : Int, before : Int, after : Int,
             by : Tx \cup {NoTx}, seen : Int, pos : Int]
Snapshot == [rows : SUBSET Books, stock : [Books -> Int],
             epoch : [Books -> Nat], seen : Int]

-----------------------------------------------------------------------------
(* The operations of the module, as jobs.                                  *)

\* Reserving for an order: a row that is missing or too low makes
\* decrementStockAndLogByTx return 0, and reserveStock then throws.
Reserve(items) ==
    [lines |-> [i \in DOMAIN items |->
                   [book |-> items[i].book, change |-> -items[i].qty]],
     skipMissing |-> FALSE]

\* Giving a reservation back: the count returned for each line is ignored.
Release(items) ==
    [lines |-> [i \in DOMAIN items |->
                   [book |-> items[i].book, change |-> items[i].qty]],
     skipMissing |-> TRUE]

\* Restocking a cancelled or a returned order: a missing row aborts.
Restock(items) == [Release(items) EXCEPT !.skipMissing = FALSE]

\* The admin's log entries. The service refuses IN and OUT unless n > 0 and
\* ADJUST when n = 0; OUT and ADJUST throw when the result is negative.
StockIn(b, n)  == [lines |-> <<[book |-> b, change |-> n]>>, skipMissing |-> FALSE]
StockOut(b, n) == [lines |-> <<[book |-> b, change |-> -n]>>, skipMissing |-> FALSE]
Adjust(b, n)   == [lines |-> <<[book |-> b, change |-> n]>>, skipMissing |-> FALSE]

-----------------------------------------------------------------------------
NoSnapshot == [rows |-> {}, stock |-> [b \in Books |-> 0],
               epoch |-> [b \in Books |-> 0], seen |-> -1]
NoEntry    == [change |-> 0, before |-> 0, after |-> 0,
               by |-> NoTx, seen |-> 0, pos |-> 0]

\* A row in use has been created empty and then filled by one IN.
FirstLog(q) ==
    IF q = 0 THEN <<>>
    ELSE <<[change |-> q, before |-> 0, after |-> q, by |-> NoTx, seen |-> 0, pos |-> 0]>>

InitTables ==
    /\ rows \in SUBSET Books
    /\ \E q \in [Books -> InitQty] :
          stock = [b \in Books |-> IF b \in rows THEN q[b] ELSE 0]
    /\ epoch = [b \in Books |-> IF b \in rows THEN 1 ELSE 0]
    /\ logs = [b \in Books |-> FirstLog(stock[b])]
    /\ clock = 0

InitTx ==
    /\ lock = [b \in Books |-> NoTx]
    /\ pc = [t \in Tx |-> "idle"]
    /\ line = [t \in Tx |-> 1]
    /\ snap = [t \in Tx |-> NoSnapshot]
    /\ written = [t \in Tx |-> {}]
    /\ entry = [t \in Tx |-> [b \in Books |-> NoEntry]]

Init == InitTables /\ InitTx /\ job \in [Tx -> Jobs]

-----------------------------------------------------------------------------
Current(t)  == job[t].lines[line[t]]
HasLine(t)  == line[t] <= Len(job[t].lines)
Active(t)   == pc[t] \in {"reading", "writing"}
Committed   == [rows |-> rows, stock |-> stock, epoch |-> epoch, seen |-> clock]

\* What t's plain reads see: its snapshot, taken by its first read.
View(t) == IF snap[t].seen = -1 THEN Committed ELSE snap[t]

\* What a transaction that ends drops: its unwritten rows and its locks.
LetGo(t) ==
    /\ written' = [written EXCEPT ![t] = {}]
    /\ entry' = [entry EXCEPT ![t] = [b \in Books |-> NoEntry]]
    /\ line' = [line EXCEPT ![t] = 1]
    /\ lock' = [b \in Books |-> IF lock[b] = t THEN NoTx ELSE lock[b]]

\* The end of a transaction that leaves no trace.
RollBack(t) ==
    /\ pc' = [pc EXCEPT ![t] = "failed"]
    /\ snap' = [snap EXCEPT ![t] = NoSnapshot]
    /\ LetGo(t)
    /\ UNCHANGED <<tableVars, job>>

Begin(t) ==
    /\ pc[t] = "idle"
    /\ pc' = [pc EXCEPT ![t] = "reading"]
    /\ UNCHANGED <<tableVars, lock, job, line, snap, written, entry>>

\* Mutant: the quantity read is not compared with the quantity asked for.
ReadLine_Unchecked(t) ==
    /\ pc[t] = "reading"
    /\ HasLine(t)
    /\ snap' = [snap EXCEPT ![t] = View(t)]
    /\ Current(t).book \in View(t).rows
    /\ pc' = [pc EXCEPT ![t] = "writing"]
    /\ UNCHANGED <<tableVars, lock, job, line, written, entry>>

\* The quantity is there and the new one is not negative: go on to write it.
ReadLine(t) ==
    /\ pc[t] = "reading"
    /\ HasLine(t)
    /\ snap' = [snap EXCEPT ![t] = View(t)]
    /\ Current(t).book \in View(t).rows
    /\ View(t).stock[Current(t).book] + Current(t).change >= 0
    /\ pc' = [pc EXCEPT ![t] = "writing"]
    /\ UNCHANGED <<tableVars, lock, job, line, written, entry>>

\* No row for this book, and the caller ignores the count.
SkipLine(t) ==
    /\ pc[t] = "reading"
    /\ HasLine(t)
    /\ snap' = [snap EXCEPT ![t] = View(t)]
    /\ Current(t).book \notin View(t).rows
    /\ job[t].skipMissing
    /\ line' = [line EXCEPT ![t] = @ + 1]
    /\ UNCHANGED <<tableVars, lock, job, pc, written, entry>>

\* Mutant: the caller ignores every count of 0, as it does for a release.
RejectLine_GoesOn(t) ==
    /\ pc[t] = "reading"
    /\ HasLine(t)
    /\ snap' = [snap EXCEPT ![t] = View(t)]
    /\ IF Current(t).book \in View(t).rows
         THEN View(t).stock[Current(t).book] + Current(t).change < 0
         ELSE ~job[t].skipMissing
    /\ line' = [line EXCEPT ![t] = @ + 1]
    /\ UNCHANGED <<tableVars, lock, job, pc, written, entry>>

\* No row and the caller cares, or not enough stock: the transaction throws.
RejectLine(t) ==
    /\ pc[t] = "reading"
    /\ HasLine(t)
    /\ IF Current(t).book \in View(t).rows
         THEN View(t).stock[Current(t).book] + Current(t).change < 0
         ELSE ~job[t].skipMissing
    /\ RollBack(t)

\* The row read is still the row in the table.
SameRow(t, b) == b \in rows /\ epoch[b] = snap[t].epoch[b]

\* UPDATE with the quantity computed from the snapshot, then INSERT of the
\* log row. Both stay private to t until it commits, so they are one step.
WriteLine(t) ==
    LET b == Current(t).book
        before == snap[t].stock[b]
    IN  /\ pc[t] = "writing"
        /\ lock[b] \in {NoTx, t}
        /\ SameRow(t, b)
        /\ lock' = [lock EXCEPT ![b] = t]
        /\ written' = [written EXCEPT ![t] = @ \cup {b}]
        /\ entry' = [entry EXCEPT ![t][b] =
                        [change |-> Current(t).change, before |-> before,
                         after |-> before + Current(t).change,
                         by |-> t, seen |-> snap[t].seen, pos |-> 0]]
        /\ line' = [line EXCEPT ![t] = @ + 1]
        /\ pc' = [pc EXCEPT ![t] = "reading"]
        /\ UNCHANGED <<tableVars, job, snap>>

\* Mutant: the error is caught and the line tried again, on the old snapshot.
WriteGone_Retries(t) ==
    LET b == Current(t).book
    IN  /\ pc[t] = "writing"
        /\ lock[b] \in {NoTx, t}
        /\ ~SameRow(t, b)
        /\ pc' = [pc EXCEPT ![t] = "reading"]
        /\ UNCHANGED <<tableVars, lock, job, line, snap, written, entry>>

\* The row has been deleted, or deleted and created again, since the read:
\* the UPDATE or the log row's foreign key fails.
WriteGone(t) ==
    LET b == Current(t).book
    IN  /\ pc[t] = "writing"
        /\ lock[b] \in {NoTx, t}
        /\ ~SameRow(t, b)
        /\ RollBack(t)

\* Mutant: UPDATE stock = stock + change, with the log row still computed from
\* the quantity read.
Commit_Relative(t) ==
    /\ pc[t] = "reading"
    /\ ~HasLine(t)
    /\ clock' = clock + 1
    /\ stock' = [b \in Books |->
                    IF b \in written[t] THEN stock[b] + entry[t][b].change ELSE stock[b]]
    /\ logs' = [b \in Books |->
                    IF b \in written[t]
                      THEN Append(logs[b], [entry[t][b] EXCEPT !.pos = clock + 1])
                      ELSE logs[b]]
    /\ pc' = [pc EXCEPT ![t] = "committed"]
    /\ LetGo(t)
    /\ UNCHANGED <<rows, epoch, job, snap>>

Commit(t) ==
    /\ pc[t] = "reading"
    /\ ~HasLine(t)
    /\ clock' = clock + 1
    /\ stock' = [b \in Books |->
                    IF b \in written[t] THEN entry[t][b].after ELSE stock[b]]
    /\ logs' = [b \in Books |->
                    IF b \in written[t]
                      THEN Append(logs[b], [entry[t][b] EXCEPT !.pos = clock + 1])
                      ELSE logs[b]]
    /\ pc' = [pc EXCEPT ![t] = "committed"]
    /\ LetGo(t)
    /\ UNCHANGED <<rows, epoch, job, snap>>

\* Transaction time-out, lost connection, any error of the database.
Abort(t) == Active(t) /\ RollBack(t)

Waits(t, u) ==
    /\ pc[t] = "writing"
    /\ t # u
    /\ lock[Current(t).book] = u

\* t is on a cycle of transactions that wait for each other's row.
InDeadlock(t) ==
    \E S \in SUBSET {u \in Tx : pc[u] = "writing"} :
        /\ t \in S
        /\ \A u \in S : (\E w \in S : Waits(u, w)) /\ (\E w \in S : Waits(w, u))

\* InnoDB's deadlock detector rolls one of them back.
DeadlockVictim(t) == InDeadlock(t) /\ RollBack(t)

\* Mutant: the row is created without a quantity.
CreateRow_NoQuantity(b) ==
    /\ b \notin rows
    /\ epoch[b] < MaxEpoch
    /\ rows' = rows \cup {b}
    /\ epoch' = [epoch EXCEPT ![b] = @ + 1]
    /\ stock' = [stock EXCEPT ![b] = NoTx]
    /\ UNCHANGED <<logs, clock, lock, txVars>>

\* The row of a book starts at 0; its bookId is unique.
CreateRow(b) ==
    /\ b \notin rows
    /\ epoch[b] < MaxEpoch
    /\ rows' = rows \cup {b}
    /\ epoch' = [epoch EXCEPT ![b] = @ + 1]
    /\ UNCHANGED <<stock, logs, clock, lock, txVars>>

\* Mutant: the row goes and its logs stay.
DeleteRow_KeepsLogs(b) ==
    /\ b \in rows
    /\ lock[b] = NoTx
    /\ rows' = rows \ {b}
    /\ stock' = [stock EXCEPT ![b] = 0]
    /\ UNCHANGED <<logs, epoch, clock, lock, txVars>>

\* Deletes the logs and then the row; waits for whoever holds the row.
DeleteRow(b) ==
    /\ b \in rows
    /\ lock[b] = NoTx
    /\ rows' = rows \ {b}
    /\ stock' = [stock EXCEPT ![b] = 0]
    /\ logs' = [logs EXCEPT ![b] = <<>>]
    /\ UNCHANGED <<epoch, clock, lock, txVars>>

\* What the server does for a transaction when nothing goes wrong.
Step(t) ==
    \/ ReadLine(t)
    \/ SkipLine(t)
    \/ RejectLine(t)
    \/ WriteLine(t)
    \/ WriteGone(t)
    \/ Commit(t)

Next ==
    \/ \E t \in Tx : Begin(t) \/ Step(t) \/ Abort(t) \/ DeadlockVictim(t)
    \/ \E b \in Books : CreateRow(b) \/ DeleteRow(b)

\* A request that has begun keeps going, and the detector never sleeps.
\* Nobody has to start a transaction, to abort one or to touch the rows.
Fairness == \A t \in Tx : WF_vars(Step(t)) /\ WF_vars(DeadlockVictim(t))

Spec == Init /\ [][Next]_vars
FairSpec == Spec /\ Fairness

-----------------------------------------------------------------------------
TypeOK ==
    /\ rows \subseteq Books
    /\ stock \in [Books -> Int]
    /\ epoch \in [Books -> Nat]
    /\ logs \in [Books -> Seq(LogEntry)]
    /\ lock \in [Books -> Tx \cup {NoTx}]
    /\ clock \in Nat
    /\ job \in [Tx -> Job]
    /\ pc \in [Tx -> {"idle", "reading", "writing", "committed", "failed"}]
    /\ line \in [Tx -> Nat \ {0}]
    /\ snap \in [Tx -> Snapshot]
    /\ written \in [Tx -> SUBSET Books]
    /\ entry \in [Tx -> [Books -> LogEntry]]

\* However the transactions of reservations, cancellations, webhooks and the
\* admin interleave, no committed quantity is ever below zero: each of them
\* refuses a negative result, although it decides on a value that may be old.
StockNeverNegative == \A b \in Books : stock[b] >= 0

\* The quantity of a row is the one its newest log row says it became, and
\* every log row adds up: a reader of the log is never told a wrong figure,
\* even when updates have been lost.
LogTellsTheStock ==
    \A b \in rows :
        /\ stock[b] = IF logs[b] = <<>> THEN 0 ELSE logs[b][Len(logs[b])].after
        /\ \A i \in DOMAIN logs[b] :
              logs[b][i].after = logs[b][i].before + logs[b][i].change

\* The read-then-write of an absolute quantity can overwrite another
\* transaction's change. It happens only to a transaction whose snapshot is
\* older than the change it overwrites: whoever reads after the previous
\* commit on a row continues from the quantity that commit left.
LostUpdateNeedsOverlap ==
    \A b \in Books : \A i \in 1 .. Len(logs[b]) - 1 :
        logs[b][i + 1].seen >= logs[b][i].pos
            => logs[b][i + 1].before = logs[b][i].after

\* A job that does not skip missing rows leaves a log row for every line when
\* it commits, or none at all: no order reserves, cancels or returns some of
\* its books only. (The log of a row deleted since is gone with the row.)
AllLinesOrNone ==
    \A t \in Tx :
        LET logged == {b \in Books : \E i \in DOMAIN logs[b] : logs[b][i].by = t}
            lines  == {job[t].lines[i].book : i \in DOMAIN job[t].lines}
        IN  /\ pc[t] # "committed" => logged = {}
            /\ (pc[t] = "committed" /\ ~job[t].skipMissing) =>
                  \A b \in lines :
                      /\ b \in snap[t].rows
                      /\ b \in logged \/ ~SameRow(t, b)

\* Two orders may lock the same books in opposite orders, the code sorts
\* nothing; every transaction that has begun still ends.
EveryTxEnds ==
    \A t \in Tx : (pc[t] = "reading") ~> (pc[t] \in {"committed", "failed"})

\* What has come in less what has left, over the whole log of a row.
Moved(b) ==
    LET sum[i \in 0 .. Len(logs[b])] == IF i = 0 THEN 0 ELSE sum[i - 1] + logs[b][i].change
    IN  sum[Len(logs[b])]

\* A reservation is refused with "out of stock" unless the copies are there:
\* no more copies leave than have come in.
NothingSoldTwice == \A b \in Books : Moved(b) >= 0
=============================================================================
