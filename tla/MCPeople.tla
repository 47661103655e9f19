------------------------------ MODULE MCPeople ------------------------------
(* Four modules that share no state, so a behaviour moves one of them, the *)
(* focus: the states are those of each module and not their product.       *)
(*                                                                         *)
(* The accounts are looked at three times: up to three mails and no OTP    *)
(* used ("mailing"); one token, and all guesses and password changes       *)
(* ("guessing"); two registrations confirmed by the right OTP              *)
(* ("confirming").                                                         *)
EXTENDS Access, Accounts, Addresses, Push, TLC

CONSTANTS p1, p2, c1, c2, a1, a2, r1, r2, e1, e2, f1, f2, u1, u2, s1

VARIABLE focus

MCPermission == {p1, p2}
MCCheck == {c1, c2}
MCAssigner == {a1, a2}
MCRequest == {r1, r2}
MCEdit == {e1, e2}
MCPhone == {f1, f2}
MCUser == {u1, u2}
MCSend == {s1}
MCAddressId == {"home"}

\* Two provinces of a district each; one of the districts has two wards.
MCWard == {"w1", "w2", "w3"}
MCDistrictOf == ("w1" :> "d1") @@ ("w2" :> "d1") @@ ("w3" :> "d2")
MCProvinceOf == ("d1" :> "north") @@ ("d2" :> "south")

\* Only one focus moves, and the rest is as it began: pairs of different modules
\* may as well change places together.
Swap(x, y) == (x :> y) @@ (y :> x)
Keep(x, y) == (x :> x) @@ (y :> y)
Symmetry ==
    {f @@ g : f \in {Keep(c1, c2) @@ Keep(r1, r2) @@ Keep(e1, e2) @@ Keep(f1, f2),
                     Swap(c1, c2) @@ Swap(r1, r2) @@ Swap(e1, e2) @@ Swap(f1, f2)},
              g \in {Keep(a1, a2) @@ Keep(u1, u2), Swap(a1, a2) @@ Swap(u1, u2)}}

Foci == {"access", "mailing", "guessing", "confirming", "addresses", "push"}
AccountFoci == {"mailing", "guessing", "confirming"}

MCInit ==
    /\ focus \in Foci
    /\ AccessInit
    /\ AccountsInit
    /\ AddressesInit
    /\ PushInit
    /\ focus # "access" => granted = {}
    /\ focus \notin AccountFoci => account = NoAccount

\* Bounds of the foci on Accounts. Outside "mailing" a mail is asked for by one
\* request at a time, and once per window.
MailAlone ==
    LET asking == {r \in Request : request'[r].what \in {"register", "reset"}}
    IN  /\ \A r \in asking : \A i \in Request \ {r} : request'[i] = NoRequest
        /\ \A c \in {RegisterCounter, ResetCounter} :
              counter'[c].n <= 1 /\ (counter'[c].left = Forever => asking # {})

AccountsBounds ==
    CASE focus = "mailing" -> \A r \in Request : request'[r].what \notin {"confirm", "verify"}
      [] focus = "guessing" -> MailAlone /\ purpose'[2] = "none"
      [] OTHER -> /\ MailAlone /\ purpose'[3] = "none"
                  /\ \A r \in Request :
                        \/ request'[r].what \in {"none", "register"}
                        \/ request'[r].what = "confirm" /\ request'[r].right

\* One job in the queue, and one login at a time: those of two phones write
\* different rows.
PushBounds ==
    /\ Cardinality(queue') <= 1
    /\ Cardinality({p \in Phone : login'[p].pc # "idle"}) <= 1

MCNext ==
    /\ UNCHANGED focus
    /\ \/ focus = "access" /\ AccessNext
          /\ UNCHANGED <<accountVars, addressVars, pushVars>>
       \/ focus \in AccountFoci /\ AccountsNext /\ AccountsBounds
          /\ UNCHANGED <<accessVars, addressVars, pushVars>>
       \/ focus = "addresses" /\ AddressesNext
          /\ UNCHANGED <<accessVars, accountVars, pushVars>>
       \/ focus = "push" /\ PushNext /\ PushBounds
          /\ UNCHANGED <<accessVars, accountVars, addressVars>>

MCSpec == MCInit /\ [][MCNext]_<<focus, accessVars, accountVars, addressVars, pushVars>>

\* The type of the module in focus; a role that is deleted has no rows left.
TypeOK ==
    /\ focus = "access" => AccessTypeOK
    /\ focus \in AccountFoci => AccountsTypeOK
    /\ focus = "addresses" => AddressesTypeOK
    /\ focus = "push" => PushTypeOK
=============================================================================
