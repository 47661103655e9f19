------------------------------ MODULE Vouchers ------------------------------
(***************************************************************************)
(* The usage counter of a voucher.                                         *)
(*                                                                         *)
(* A checkout reads the voucher and validates it, then increments usedCount *)
(* in a statement of its own that repeats none of the conditions; when the  *)
(* checkout fails later on it decrements the counter again. The admin reads  *)
(* a voucher, validates the new limit against it, and then writes. Nothing  *)
(* here is a transaction: each read and each write is a step.               *)
(*                                                                         *)
(* A code names one voucher for the whole behaviour, and a deleted voucher   *)
(* is not created again.                                                    *)
(***************************************************************************)
EXTENDS Integers, FiniteSets

CONSTANTS
    Vouchers,
    Uses,           \* the checkouts that give a voucher code
    VoucherOf,      \* the voucher each of them asks for
    Qualifying,     \* those whose amount reaches minOrderValue
    Limits          \* the usage limits the admin may choose

ASSUME VouchersAssumption ==
    /\ IsFiniteSet(Uses)
    /\ VoucherOf \in [Uses -> Vouchers]
    /\ Qualifying \subseteq Uses
    /\ Limits \subseteq Nat \ {0}

VARIABLES
    row,        \* does the voucher have a row
    used,       \* usedCount
    limit,      \* usageLimit
    open,       \* the vouchers that are active and inside their dates
    use,        \* how far each checkout is with its voucher
    edits       \* updates the admin has validated and not yet written

vars == <<row, used, limit, open, use, edits>>
admin == <<row, limit, open, edits>>

\* none -> checked -> held, and back to released when the checkout fails.
\* refused: no use was counted. lost: counted, but the caller got an error.
\* kept: the decrement failed, and the error was only logged.
UseState == {"none", "checked", "held", "refused", "lost", "released", "kept"}

Init ==
    /\ row \in [Vouchers -> {"none", "present"}]
    /\ used = [v \in Vouchers |-> 0]
    /\ limit \in [Vouchers -> Limits]
    /\ open \in SUBSET Vouchers
    /\ use = [c \in Uses |-> "none"]
    /\ edits = {}

Present(v) == row[v] = "present"

-----------------------------------------------------------------------------
(* What a checkout does.                                                   *)

Accepted(c) ==
    LET v == VoucherOf[c]
    IN  /\ Present(v)
        /\ v \in open
        /\ used[v] < limit[v]
        /\ c \in Qualifying

\* Mutant: the last use is granted once too often.
Check_OffByOne(c) ==
    /\ use[c] = "none"
    /\ used[VoucherOf[c]] <= limit[VoucherOf[c]]
    /\ Present(VoucherOf[c]) /\ VoucherOf[c] \in open /\ c \in Qualifying
    /\ use' = [use EXCEPT ![c] = "checked"]
    /\ UNCHANGED <<used, admin>>

Check(c) ==
    /\ use[c] = "none"
    /\ Accepted(c)
    /\ use' = [use EXCEPT ![c] = "checked"]
    /\ UNCHANGED <<used, admin>>

Refuse(c) ==
    /\ use[c] = "none"
    /\ ~Accepted(c)
    /\ use' = [use EXCEPT ![c] = "refused"]
    /\ UNCHANGED <<used, admin>>

\* UPDATE usedCount = usedCount + 1 WHERE id: whatever the limit is by now.
\* The statement may commit and its answer be lost; the saga then counts the
\* step as not executed, and will not compensate it.
Increment(c) ==
    /\ use[c] = "checked"
    /\ Present(VoucherOf[c])
    /\ used' = [used EXCEPT ![VoucherOf[c]] = @ + 1]
    /\ \E answer \in {"held", "lost"} : use' = [use EXCEPT ![c] = answer]
    /\ UNCHANGED admin

\* The voucher is gone, or the database reports an error.
IncrementFails(c) ==
    /\ use[c] = "checked"
    /\ use' = [use EXCEPT ![c] = "refused"]
    /\ UNCHANGED <<used, admin>>

\* Mutant: a use already given back is given back again.
Release_Twice(c) ==
    /\ use[c] \in {"held", "released"}
    /\ Present(VoucherOf[c])
    /\ used' = [used EXCEPT ![VoucherOf[c]] = @ - 1]
    /\ use' = [use EXCEPT ![c] = "released"]
    /\ UNCHANGED admin

Release(c) ==
    /\ use[c] = "held"
    /\ Present(VoucherOf[c])
    /\ used' = [used EXCEPT ![VoucherOf[c]] = @ - 1]
    /\ use' = [use EXCEPT ![c] = "released"]
    /\ UNCHANGED admin

ReleaseFails(c) ==
    /\ use[c] = "held"
    /\ use' = [use EXCEPT ![c] = "kept"]
    /\ UNCHANGED <<used, admin>>

-----------------------------------------------------------------------------
(* What the admin and the calendar do.                                     *)

Create(v) ==
    /\ row[v] = "none"
    /\ row' = [row EXCEPT ![v] = "present"]
    /\ \E n \in Limits : limit' = [limit EXCEPT ![v] = n]
    /\ UNCHANGED <<used, open, use, edits>>

\* Mutant: the DTO's minimum of 1 is not enforced.
EditRead_AnyLimit(v) ==
    /\ Present(v)
    /\ \E n \in Limits \cup {0} :
          /\ n >= used[v]
          /\ edits' = edits \cup {[voucher |-> v, limit |-> n]}
    /\ UNCHANGED <<row, used, limit, open, use>>

\* The new limit is compared with the usedCount of this read.
EditRead(v) ==
    /\ Present(v)
    /\ \E n \in Limits :
          /\ n >= used[v]
          /\ edits' = edits \cup {[voucher |-> v, limit |-> n]}
    /\ UNCHANGED <<row, used, limit, open, use>>

EditWrite(e) ==
    /\ e \in edits
    /\ edits' = edits \ {e}
    /\ limit' = IF Present(e.voucher) THEN [limit EXCEPT ![e.voucher] = e.limit] ELSE limit
    /\ UNCHANGED <<row, used, open, use>>

\* isActive is switched, the dates are moved, or time passes one of them.
OpenOrClose(v) ==
    /\ Present(v)
    /\ open' = IF v \in open THEN open \ {v} ELSE open \cup {v}
    /\ UNCHANGED <<row, used, limit, use, edits>>

\* Orders keep existing, without their voucher (onDelete: SetNull).
Delete(v) ==
    /\ Present(v)
    /\ row' = [row EXCEPT ![v] = "deleted"]
    /\ UNCHANGED <<used, limit, open, use, edits>>

Checkouts(c) ==
    \/ Check(c) \/ Refuse(c)
    \/ Increment(c) \/ IncrementFails(c)
    \/ Release(c) \/ ReleaseFails(c)

Next ==
    \/ \E c \in Uses : Checkouts(c)
    \/ \E v \in Vouchers : Create(v) \/ EditRead(v) \/ OpenOrClose(v) \/ Delete(v)
    \/ \E e \in edits : EditWrite(e)

Spec == Init /\ [][Next]_vars

-----------------------------------------------------------------------------
TypeOK ==
    /\ row \in [Vouchers -> {"none", "present", "deleted"}]
    /\ used \in [Vouchers -> Int]
    /\ limit \in [Vouchers -> Limits]
    /\ open \subseteq Vouchers
    /\ use \in [Uses -> UseState]
    /\ edits \subseteq [voucher : Vouchers, limit : Limits]

Holders(v) == {c \in Uses : VoucherOf[c] = v /\ use[c] \in {"held", "lost", "kept"}}

\* usedCount is exactly the number of checkouts that took a use and have not
\* given it back, those whose answer was lost or whose decrement failed
\* included: concurrent increments, decrements and edits lose no count.
UsedIsHolders == \A v \in Vouchers : used[v] = Cardinality(Holders(v))

\* Full, and no checkout is between its check and its increment.
Exhausted(v) == used[v] >= limit[v] /\ \A c \in Uses : VoucherOf[c] = v => use[c] # "checked"

\* The check and the increment are two statements, so a voucher can be used
\* beyond its limit; but only by checkouts that read it before it was full.
\* Once those are through, it stays exhausted until a use is given back or the
\* limit is raised.
ExhaustedStays ==
    [][\A v \in Vouchers :
          Exhausted(v) => Exhausted(v)' \/ used'[v] < limit'[v]]_vars

\* The limit the documentation gives usageLimit: the total number of uses.
WithinLimit == \A v \in Vouchers : Present(v) => used[v] <= limit[v]
=============================================================================
