------------------------------ MODULE Accounts ------------------------------
(***************************************************************************)
(* Registration by e-mail, and the two ways to a new password.             *)
(*                                                                         *)
(* A registration or a reset puts a one-time password (OTP) into Redis     *)
(* under a fresh token, and mails it; a registration waits in Redis, under *)
(* the same token, until the OTP comes back. Counters limit the requests   *)
(* per e-mail and the guesses per token: INCR, and EXPIRE in a call of its *)
(* own. Every call is a step; requests interleave, and any of them may     *)
(* fail or die with the process.                                           *)
(*                                                                         *)
(* One e-mail: no key and no row is shared between two. The hash of a      *)
(* password is as good as the password; a password is the token of the     *)
(* registration that brought it, or New. Keys carry the ticks they have    *)
(* left; Forever is a key whose EXPIRE never came.                         *)
(***************************************************************************)
EXTENDS Integers, FiniteSets

CONSTANTS
    Request,        \* requests in progress at a time
    Tokens,         \* bound on the registrations and resets that are mailed
    MaxRequests,    \* 5 in the code, for registrations and for resets
    MaxGuesses,     \* 5
    OtpLife,        \* 300 s: OTP, pending registration, counter of guesses, and
                    \* counter of registrations
    ResetLife       \* 3600 s: counter of resets

ASSUME AccountsAssumption ==
    /\ IsFiniteSet(Request)
    /\ Tokens \in Nat /\ MaxRequests \in Nat \ {0} /\ MaxGuesses \in Nat \ {0}
    /\ OtpLife \in Nat \ {0} /\ ResetLife \in Nat /\ OtpLife <= ResetLife

TokenId == 1..Tokens
NoAccount == 0
New == Tokens + 1

VARIABLES
    account,        \* the password of the account, or NoAccount
    otp, pending,   \* per token: ticks its keys have left, 0 for none
    purpose,        \* per token: register, reset, or none when not used yet
    mail,           \* per token: none, queued, delivered
    counter,        \* per counter: how many, and ticks left
    guesses,        \* per token: guesses compared with a live OTP (history)
    age,            \* per token: ticks since its request was counted (history)
    ticket,         \* does the client hold a reset token
    request

accountVars == <<account, otp, pending, purpose, mail, counter, guesses, age, ticket,
                 request>>
keys == <<otp, pending, purpose, guesses, age>>

Forever == -1
RegisterCounter == 0
ResetCounter == -1
Counter == {RegisterCounter, ResetCounter} \cup TokenId
Zero == [n |-> 0, left |-> 0]
Req(pc, what, token, right, ticks) ==
    [pc |-> pc, what |-> what, token |-> token, right |-> right, age |-> ticks]
NoRequest == Req("idle", "none", 0, FALSE, 0)

AccountsInit ==
    /\ account \in {NoAccount, New}
    /\ otp = [k \in TokenId |-> 0]
    /\ pending = [k \in TokenId |-> 0]
    /\ purpose = [k \in TokenId |-> "none"]
    /\ mail = [k \in TokenId |-> "none"]
    /\ counter = [c \in Counter |-> Zero]
    /\ guesses = [k \in TokenId |-> 0]
    /\ age = [k \in TokenId |-> 0]
    /\ ticket = FALSE
    /\ request = [r \in Request |-> NoRequest]

In(r, pc) == request[r].pc = pc
Becomes(r, x) == request' = [request EXCEPT ![r] = x]
To(r, pc) ==
    LET q == request[r] IN Becomes(r, Req(pc, q.what, q.token, q.right, q.age))
Over(r) == Becomes(r, NoRequest)
Begin(r, pc, what, k, right) == In(r, "idle") /\ Becomes(r, Req(pc, what, k, right, 0))

-----------------------------------------------------------------------------
(* Counters.                                                               *)

AsksForMail(r) == request[r].what \in {"register", "reset"}
Of(r) == CASE request[r].what = "register" -> RegisterCounter
           [] request[r].what = "reset" -> ResetCounter
           [] OTHER -> request[r].token
LimitOf(r) == IF AsksForMail(r) THEN MaxRequests ELSE MaxGuesses
Life(what) == IF what = "reset" THEN ResetLife ELSE OtpLife
Counted(r) == IF AsksForMail(r) THEN "store" ELSE "compare"

\* Mutant: the count is compared before it grows.
Passes_OffByOne(n, limit) == n <= limit + 1
Passes(n, limit) == n <= limit

\* INCR; a key that INCR creates has no expiry. Above the limit it makes no
\* difference how many there were.
Incr(r) ==
    /\ In(r, "incr")
    /\ LET c == Of(r)
           n == IF counter[c].n > LimitOf(r) THEN counter[c].n ELSE counter[c].n + 1
       IN  /\ counter' = [counter EXCEPT ![c] = [n |-> n, left |-> IF n = 1 THEN Forever
                                                                  ELSE counter[c].left]]
           /\ IF n = 1 THEN To(r, "expire")
              ELSE IF Passes(n, LimitOf(r)) THEN To(r, Counted(r)) ELSE Over(r)
    /\ UNCHANGED <<account, keys, mail, ticket>>

\* Mutant: a SET with expiry instead, which makes a key that was gone.
Expire_Creates(r) ==
    /\ In(r, "expire")
    /\ counter' = [counter EXCEPT ![Of(r)].left = Life(request[r].what)]
    /\ To(r, Counted(r))
    /\ UNCHANGED <<account, keys, mail, ticket>>

\* The key may be gone by now: EXPIRE then does nothing.
Expire(r) ==
    /\ In(r, "expire")
    /\ counter' = IF counter[Of(r)].n = 0 THEN counter
                  ELSE [counter EXCEPT ![Of(r)] = [n |-> @.n, left |-> Life(request[r].what)]]
    /\ To(r, Counted(r))
    /\ UNCHANGED <<account, keys, mail, ticket>>

-----------------------------------------------------------------------------
(* register and resetPassword.                                             *)

Register(r) ==
    /\ account = NoAccount
    /\ Begin(r, "incr", "register", 0, FALSE)
    /\ UNCHANGED <<account, keys, mail, counter, ticket>>

Reset(r) ==
    /\ account # NoAccount
    /\ Begin(r, "incr", "reset", 0, FALSE)
    /\ UNCHANGED <<account, keys, mail, counter, ticket>>

StoreOtp(r) ==
    /\ In(r, "store")
    /\ \E k \in TokenId :
          /\ \A i \in TokenId : purpose[i] = "none" <=> i >= k
          /\ otp' = [otp EXCEPT ![k] = OtpLife]
          /\ purpose' = [purpose EXCEPT ![k] = request[r].what]
          /\ age' = [age EXCEPT ![k] = request[r].age]
          /\ LET next == IF request[r].what = "register" THEN "pend" ELSE "mail"
             IN  Becomes(r, Req(next, request[r].what, k, FALSE, 0))
    /\ UNCHANGED <<account, pending, mail, counter, guesses, ticket>>

StorePending(r) ==
    /\ In(r, "pend")
    /\ pending' = [pending EXCEPT ![request[r].token] = OtpLife]
    /\ To(r, "mail")
    /\ UNCHANGED <<account, otp, purpose, mail, counter, guesses, age, ticket>>

\* The job is in the queue, and the token goes to the client.
QueueMail(r) ==
    /\ In(r, "mail")
    /\ mail' = [mail EXCEPT ![request[r].token] = "queued"]
    /\ Over(r)
    /\ UNCHANGED <<account, keys, counter, ticket>>

\* The worker tries three times; a job that is dropped then stays queued here.
SendMail(k) ==
    /\ mail[k] = "queued"
    /\ mail' = [mail EXCEPT ![k] = "delivered"]
    /\ UNCHANGED <<account, keys, counter, ticket, request>>

-----------------------------------------------------------------------------
(* confirmEmailRegistration and verifyResetPasswordToken: both begin with  *)
(* validateOTP, and either may be called with either kind of token.        *)

Validate(r, k, what, right) ==
    /\ mail[k] # "none"
    /\ right => mail[k] = "delivered"
    /\ Begin(r, "incr", what, k, right)
    /\ UNCHANGED <<account, keys, mail, counter, ticket>>

Compare(r) ==
    /\ In(r, "compare")
    /\ LET k == request[r].token
       IN  /\ guesses' = IF otp[k] > 0 THEN [guesses EXCEPT ![k] = @ + 1] ELSE guesses
           /\ IF otp[k] > 0 /\ request[r].right THEN To(r, "del otp") ELSE Over(r)
    /\ UNCHANGED <<account, otp, pending, purpose, mail, counter, age, ticket>>

\* Mutant: the counter goes, the OTP stays.
DelOtp_Keeps(r) ==
    /\ In(r, "del otp")
    /\ To(r, "del count")
    /\ UNCHANGED <<account, keys, mail, counter, ticket>>

DelOtp(r) ==
    /\ In(r, "del otp")
    /\ otp' = [otp EXCEPT ![request[r].token] = 0]
    /\ To(r, "del count")
    /\ UNCHANGED <<account, pending, purpose, mail, counter, guesses, age, ticket>>

\* verifyResetPasswordToken then signs a token, which lasts 15 minutes.
DelCount(r) ==
    /\ In(r, "del count")
    /\ counter' = [counter EXCEPT ![request[r].token] = Zero]
    /\ IF request[r].what = "verify" THEN ticket' = TRUE /\ Over(r)
       ELSE ticket' = ticket /\ To(r, "read pending")
    /\ UNCHANGED <<account, keys, mail>>

\* Mutant: the pending registration is looked up by e-mail, and the last one wins.
ReadPending_Latest(r) ==
    /\ In(r, "read pending")
    /\ IF \E k \in TokenId : pending[k] > 0
       THEN LET last == CHOOSE k \in TokenId :
                           pending[k] > 0 /\ \A i \in TokenId : pending[i] > 0 => i <= k
            IN  Becomes(r, Req("create and del", "confirm", last, TRUE, 0))
       ELSE Over(r)
    /\ UNCHANGED <<account, keys, mail, counter, ticket>>

ReadPending(r) ==
    /\ In(r, "read pending")
    /\ IF pending[request[r].token] > 0 THEN To(r, "create and del") ELSE Over(r)
    /\ UNCHANGED <<account, keys, mail, counter, ticket>>

\* Mutant: an upsert.
Insert_Upserts(k) == k

\* The e-mail is unique: the row is the first one's.
Insert(k) == IF account = NoAccount THEN k ELSE account

\* createUser is not awaited before the DEL. When it fails while the DEL is under
\* way nobody handles the rejection, and Node ends the process with all requests.
CreateUser(r) ==
    /\ request[r].pc \in {"create and del", "create"}
    /\ account' = Insert(request[r].token)
    /\ IF account = NoAccount
       THEN IF In(r, "create") THEN Over(r) ELSE To(r, "del")
       ELSE IF In(r, "create") THEN Over(r)
            ELSE request' = [i \in Request |-> NoRequest]
    /\ UNCHANGED <<keys, mail, counter, ticket>>

DelPending(r) ==
    /\ request[r].pc \in {"create and del", "del"}
    /\ pending' = [pending EXCEPT ![request[r].token] = 0]
    /\ IF In(r, "del") THEN Over(r) ELSE To(r, "create")
    /\ UNCHANGED <<account, otp, purpose, mail, counter, guesses, age, ticket>>

-----------------------------------------------------------------------------
(* Two ways to a new password: the account is read, with the old password  *)
(* in the first case, then the new one is hashed and written.              *)

ChangePassword(r) ==
    /\ account # NoAccount
    /\ Begin(r, "write", "change", 0, FALSE)
    /\ UNCHANGED <<account, keys, mail, counter, ticket>>

\* resetPasswordWithToken. The reset token is good until it expires, any number
\* of times.
ConfirmReset(r) ==
    /\ account # NoAccount
    /\ ticket
    /\ Begin(r, "write", "confirm reset", 0, FALSE)
    /\ UNCHANGED <<account, keys, mail, counter, ticket>>

WritePassword(r) ==
    /\ In(r, "write")
    /\ account' = New
    /\ Over(r)
    /\ UNCHANGED <<keys, mail, counter, ticket>>

-----------------------------------------------------------------------------
\* An error of Redis, the database or the queue, or the process dies.
RequestFails(r) ==
    /\ ~In(r, "idle")
    /\ Over(r)
    /\ UNCHANGED <<account, keys, mail, counter, ticket>>

Less(left) == IF left > 0 THEN left - 1 ELSE left
Older(t, what) == IF t < Life(what) THEN t + 1 ELSE t

\* A tick: keys whose time is up are gone.
AccountsTick ==
    /\ otp' = [k \in TokenId |-> Less(otp[k])]
    /\ pending' = [k \in TokenId |-> Less(pending[k])]
    /\ counter' = [c \in Counter |-> IF counter[c].left = 1 THEN Zero
                                     ELSE [n |-> counter[c].n, left |-> Less(counter[c].left)]]
    /\ age' = [k \in TokenId |-> IF purpose[k] = "none" THEN 0 ELSE Older(age[k], purpose[k])]
    /\ request' = [r \in Request |-> IF request[r].pc \in {"expire", "store"} /\ AsksForMail(r)
                                     THEN [request[r] EXCEPT !.age = Older(@, request[r].what)]
                                     ELSE request[r]]
    /\ ticket' \in {FALSE, ticket}
    /\ UNCHANGED <<account, purpose, mail, guesses>>

AccountsNext ==
    \/ \E r \in Request :
          \/ Register(r) \/ Reset(r) \/ Incr(r) \/ Expire(r) \/ StoreOtp(r)
          \/ StorePending(r) \/ QueueMail(r) \/ Compare(r) \/ DelOtp(r) \/ DelCount(r)
          \/ ReadPending(r) \/ CreateUser(r) \/ DelPending(r)
          \/ ChangePassword(r) \/ ConfirmReset(r) \/ WritePassword(r) \/ RequestFails(r)
          \/ \E k \in TokenId, what \in {"confirm", "verify"}, right \in BOOLEAN :
                Validate(r, k, what, right)
    \/ \E k \in TokenId : SendMail(k)
    \/ AccountsTick

AccountsSpec == AccountsInit /\ [][AccountsNext]_accountVars

-----------------------------------------------------------------------------
Pc == {"idle", "incr", "expire", "store", "pend", "mail", "compare", "del otp", "del count",
       "read pending", "create and del", "create", "del", "write"}
Kind == {"none", "register", "reset", "confirm", "verify", "change", "confirm reset"}
RequestType ==
    [pc : Pc, what : Kind, token : 0..Tokens, right : BOOLEAN, age : 0..ResetLife]

AccountsTypeOK ==
    /\ account \in {NoAccount, New} \cup TokenId
    /\ otp \in [TokenId -> 0..OtpLife]
    /\ pending \in [TokenId -> 0..OtpLife]
    /\ purpose \in [TokenId -> {"none", "register", "reset"}]
    /\ mail \in [TokenId -> {"none", "queued", "delivered"}]
    /\ counter \in [Counter -> [n : Nat, left : Forever..ResetLife]]
    /\ \A c \in Counter : counter[c].n = 0 <=> counter[c].left = 0
    /\ guesses \in [TokenId -> Nat]
    /\ age \in [TokenId -> 0..ResetLife]
    /\ ticket \in BOOLEAN
    /\ request \in [Request -> RequestType]

\* 'One OTP may be verified only 5 times' (auth.controller.ts): no more guesses
\* than that ever reach a live OTP, however requests overlap, die between INCR
\* and EXPIRE, succeed and reset the counter, or come when a counter expires.
GuessLimit == \A k \in TokenId : guesses[k] <= MaxGuesses

\* Of the requests counted in a time as long as a window, at most twice the limit
\* are let through to a mail: the end of one window and the start of the next.
\* A counter that lost its EXPIRE only makes it fewer.
MailLimit ==
    \A w \in {"register", "reset"} :
        Cardinality({k \in TokenId : purpose[k] = w /\ age[k] < Life(w)}) <= 2 * MaxRequests

\* An account begins with the password of a registration whose OTP came by mail,
\* and that was not the OTP of another registration or of a reset: of several
\* registrations of one e-mail, each is confirmed by its own OTP.
OwnRegistration ==
    account \in TokenId => /\ purpose[account] = "register"
                           /\ mail[account] = "delivered"
                           /\ guesses[account] > 0 /\ otp[account] = 0

\* A second confirmation, of the same or of another registration of the e-mail,
\* never touches the account the first one made: a password is only replaced by
\* a change or a reset.
LateConfirmChangesNothing ==
    [][account # NoAccount => account' \in {account, New}]_account
=============================================================================
