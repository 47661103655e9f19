-------------------------------- MODULE Push --------------------------------
(***************************************************************************)
(* Push notifications. A phone that signs in gives its FCM token; the      *)
(* table of tokens says whose phone it is, and a notification to a user    *)
(* goes to the phones that are theirs when it is sent. The row of a token  *)
(* is written by a login, and removed by a logout, which does not wait for *)
(* it, and by a send that failed for that phone, whatever the reason.      *)
(*                                                                         *)
(* Prisma's upsert is two statements on MySQL: a SELECT, and the UPDATE of *)
(* the row found or an INSERT. Texts, and the order a notification is      *)
(* about, are left out; so are sends to the topic, which change no state.  *)
(***************************************************************************)
EXTENDS Integers, FiniteSets

CONSTANTS
    Phone,
    User,
    Send,           \* sends in progress at a time
    MaxRemovals     \* bound on the removals of one token under way

ASSUME PushAssumption == MaxRemovals \in Nat

VARIABLES
    holder,         \* per phone: the user who is signed in there
    row,            \* per token: whose phone it is, in the table
    login,          \* per phone: its login in progress
    leaving,        \* per token: removals under way, of earlier logouts
    subscribed,     \* the tokens subscribed to the topic "sales" (Firebase)
    queue,          \* the users of the jobs in the queue
    send,
    calm            \* the phones whose last login met no removal under way and
                    \* no failed send, and no send failed since (history)

pushVars == <<holder, row, login, leaving, subscribed, queue, send, calm>>
phones == <<holder, row, login, leaving, subscribed>>

Nobody == "nobody"
NoLogin == [pc |-> "idle", user |-> Nobody]
NoSend == [pc |-> "idle", tokens |-> {}, failed |-> {}]

PushInit ==
    /\ holder = [p \in Phone |-> Nobody]
    /\ row = [p \in Phone |-> Nobody]
    /\ login = [p \in Phone |-> NoLogin]
    /\ leaving = [p \in Phone |-> 0]
    /\ subscribed = {}
    /\ queue = {}
    /\ send = [s \in Send |-> NoSend]
    /\ calm = {}

Sends(s, pc) == send[s].pc = pc
EndsSend(s) == send' = [send EXCEPT ![s] = NoSend]

-----------------------------------------------------------------------------
(* login, from its device token on.                                        *)

SignIn(p, u) ==
    /\ login[p].pc = "idle"
    /\ login' = [login EXCEPT ![p] = [pc |-> "find", user |-> u]]
    /\ calm' = IF holder[p] = Nobody /\ leaving[p] = 0 /\ \A s \in Send : p \notin send[s].failed
               THEN calm \cup {p} ELSE calm \ {p}
    /\ UNCHANGED <<holder, row, leaving, subscribed, queue, send>>

SaveFinds(p) ==
    /\ login[p].pc = "find"
    /\ login' = [login EXCEPT ![p].pc = IF row[p] = Nobody THEN "insert" ELSE "update"]
    /\ UNCHANGED <<holder, row, leaving, subscribed, queue, send, calm>>

\* A row that has come or gone since is an error, and the login fails.
SaveWrites(p) ==
    /\ \/ login[p].pc = "insert" /\ row[p] = Nobody
       \/ login[p].pc = "update" /\ row[p] # Nobody
    /\ row' = [row EXCEPT ![p] = login[p].user]
    /\ login' = [login EXCEPT ![p].pc = "subscribe"]
    /\ UNCHANGED <<holder, leaving, subscribed, queue, send, calm>>

Subscribe(p) ==
    /\ login[p].pc = "subscribe"
    /\ subscribed' = subscribed \cup {p}
    /\ login' = [login EXCEPT ![p].pc = "answer"]
    /\ UNCHANGED <<holder, row, leaving, queue, send, calm>>

SignedIn(p) ==
    /\ login[p].pc = "answer"
    /\ holder' = [holder EXCEPT ![p] = login[p].user]
    /\ login' = [login EXCEPT ![p] = NoLogin]
    /\ UNCHANGED <<row, leaving, subscribed, queue, send, calm>>

SignInFails(p) ==
    /\ login[p].pc # "idle"
    /\ login' = [login EXCEPT ![p] = NoLogin]
    /\ UNCHANGED <<holder, row, leaving, subscribed, queue, send, calm>>

-----------------------------------------------------------------------------
(* logout. The app forgets its user whatever the answer; a logout that is  *)
(* refused, or without fcmToken, removes nothing.                          *)

Logout(p) ==
    /\ holder[p] # Nobody
    /\ holder' = [holder EXCEPT ![p] = Nobody]
    /\ \/ leaving' = leaving
       \/ leaving[p] < MaxRemovals /\ leaving' = [leaving EXCEPT ![p] = @ + 1]
    /\ UNCHANGED <<row, login, subscribed, queue, send, calm>>

\* By the token alone, whoever it belongs to by now.
RemoveToken(p) ==
    /\ leaving[p] > 0
    /\ leaving' = [leaving EXCEPT ![p] = @ - 1]
    /\ row' \in {row, [row EXCEPT ![p] = Nobody]}
    /\ UNCHANGED <<holder, login, subscribed, queue, send, calm>>

-----------------------------------------------------------------------------
(* sendNotificationToUser, which the listeners of order events call, the   *)
(* job that closes expired returns, and the worker of the queue.           *)

\* An administrator's notification to many: a job for each.
SendToUsers(S) ==
    /\ queue' = queue \cup S
    /\ UNCHANGED <<phones, send, calm>>

\* A user without phones ends the send.
ReadTokens(s, u) ==
    /\ Sends(s, "idle")
    /\ LET tokens == {p \in Phone : row[p] = u}
       IN  /\ tokens # {}
           /\ send' = [send EXCEPT ![s] = [pc |-> "deliver", tokens |-> tokens, failed |-> {}]]
    /\ UNCHANGED <<phones, calm>>

OrderEvent(s, u) == ReadTokens(s, u) /\ UNCHANGED queue

\* A job is run again when its worker died.
Process(s) ==
    \E u \in queue : /\ ReadTokens(s, u)
                     /\ queue' \in {queue, queue \ {u}}

Deliver(s, failed) ==
    /\ Sends(s, "deliver")
    /\ failed \subseteq send[s].tokens
    /\ IF failed = {} THEN EndsSend(s)
       ELSE send' = [send EXCEPT ![s] = [pc |-> "drop", tokens |-> @.tokens, failed |-> failed]]
    /\ calm' = calm \ failed
    /\ UNCHANGED <<phones, queue>>

\* Mutant: all tokens of the send go when some have failed.
Invalid_All(s) == send[s].tokens
Invalid(s) == send[s].failed

DropFailed(s) ==
    /\ Sends(s, "drop")
    /\ row' = [p \in Phone |-> IF p \in Invalid(s) THEN Nobody ELSE row[p]]
    /\ EndsSend(s)
    /\ UNCHANGED <<holder, login, leaving, subscribed, queue, calm>>

\* Firebase or the database does not answer: the error is logged.
SendFails(s) ==
    /\ ~Sends(s, "idle")
    /\ EndsSend(s)
    /\ UNCHANGED <<phones, queue, calm>>

PushCrash ==
    /\ login' = [p \in Phone |-> NoLogin]
    /\ leaving' = [p \in Phone |-> 0]
    /\ send' = [s \in Send |-> NoSend]
    /\ UNCHANGED <<holder, row, subscribed, queue, calm>>

PushNext ==
    \/ \E p \in Phone :
          \/ \E u \in User : SignIn(p, u)
          \/ SaveFinds(p) \/ SaveWrites(p) \/ Subscribe(p) \/ SignedIn(p) \/ SignInFails(p)
          \/ Logout(p) \/ RemoveToken(p)
    \/ \E S \in SUBSET User : SendToUsers(S)
    \/ \E s \in Send :
          \/ \E u \in User : OrderEvent(s, u)
          \/ \E failed \in SUBSET Phone : Deliver(s, failed)
          \/ Process(s) \/ DropFailed(s) \/ SendFails(s)
    \/ PushCrash

PushSpec == PushInit /\ [][PushNext]_pushVars

-----------------------------------------------------------------------------
LoginType == [pc : {"idle", "find", "insert", "update", "subscribe", "answer"},
              user : User \cup {Nobody}]
SendType == [pc : {"idle", "deliver", "drop"}, tokens : SUBSET Phone, failed : SUBSET Phone]

PushTypeOK ==
    /\ holder \in [Phone -> User \cup {Nobody}]
    /\ row \in [Phone -> User \cup {Nobody}]
    /\ login \in [Phone -> LoginType]
    /\ leaving \in [Phone -> 0..MaxRemovals]
    /\ subscribed \cup calm \subseteq Phone
    /\ queue \subseteq User
    /\ send \in [Send -> SendType]

\* Whoever signed in on a phone gets their notifications there, and the sales:
\* its token is theirs in the table, whatever sends, logouts and logins of other
\* phones there are, as long as no send to this phone has failed since, and its
\* login met no removal of an earlier logout, no failed send and no other user
\* (sendNotificationToUser, logout, login). Each of these may delete the row the
\* login has just written, and only another login brings it back.
SignedInIsReached ==
    \A p \in calm : holder[p] # Nobody /\ login[p].pc = "idle" =>
        row[p] = holder[p] /\ p \in subscribed
=============================================================================
