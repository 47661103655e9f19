--------------------------- MODULE AccountsProofs ---------------------------
(***************************************************************************)
(* The limits of guesses at an OTP and of mails, and whose password an     *)
(* account begins with, for any number of requests and tokens.             *)
(*                                                                         *)
(* GuessLimit is not inductive: a guess is counted in one step and reaches *)
(* the OTP in a later one, and the counter expires. What is: the guesses   *)
(* made and those on their way are within the counter, and the counter     *)
(* outlives the OTP. The requests on their way are a set that each step    *)
(* changes by one; the rest is arithmetic on its cardinality.              *)
(*                                                                         *)
(* OwnRegistration speaks of the one step that makes the account; what     *)
(* makes it true was seen by the steps before it. Trail says what the      *)
(* place of a request in its handler tells of its token.                   *)
(*                                                                         *)
(* MailLimit looks back over one window, in which the counter may have     *)
(* begun anew once: the mails before that are as old as the counter.       *)
(***************************************************************************)
EXTENDS Accounts, FiniteSetTheorems, TLAPS

Guess == {"confirm", "verify"}
WithToken == {"pend", "mail", "compare", "del otp", "del count", "read pending",
              "create and del", "create", "del"}

\* A guess that was counted and not yet compared.
Waits(x, k) == x.token = k /\ x.what \in Guess /\ x.pc \in {"expire", "compare"}
Waiting(k) == {r \in Request : Waits(request[r], k)}
OnTheirWay(k) == Cardinality(Waiting(k))

\* What the steps of a request say of its kind and its token.
Shape(x) ==
    /\ x.pc \in WithToken \/ x.what \in Guess => x.token \in TokenId
    /\ x.pc \in {"compare", "del otp", "del count"} => x.what \in Guess
    /\ x.pc \in {"incr", "expire"} => x.what \in {"register", "reset"} \cup Guess
    /\ x.pc = "store" => x.what \in {"register", "reset"}

Rows(x) ==
    /\ x.token \in TokenId => purpose[x.token] # "none"
    /\ x.pc = "del count" => otp[x.token] = 0

Requests == \A r \in Request : Shape(request[r]) /\ Rows(request[r])

Budget(k) ==
    /\ OnTheirWay(k) + guesses[k] <= counter[k].n
    /\ OnTheirWay(k) + guesses[k] <= MaxGuesses
    /\ counter[k].n > 0 => counter[k].left = Forever \/ counter[k].left >= otp[k]

TokenOK(k) ==
    /\ mail[k] # "none" => purpose[k] # "none"
    /\ purpose[k] = "none" => otp[k] = 0 /\ guesses[k] = 0 /\ counter[k].n = 0
    /\ guesses[k] <= MaxGuesses
    /\ otp[k] > 0 => Budget(k)

IInv ==
    /\ AccountsTypeOK
    /\ Requests
    /\ \A k \in TokenId : TokenOK(k)

-----------------------------------------------------------------------------
(* What a step of one request changes.                                     *)

LEMMA BecomesAll ==
  ASSUME request \in [Request -> RequestType], NEW r \in Request, NEW x \in RequestType,
         Becomes(r, x)
  PROVE  /\ request' \in [Request -> RequestType]
         /\ \A i \in Request : request'[i] = IF i = r THEN x ELSE request[i]
  BY DEF Becomes

LEMMA WaitingFinite ==
  ASSUME NEW k
  PROVE  IsFiniteSet(Waiting(k)) /\ OnTheirWay(k) \in Nat
  <1>1. Waiting(k) \subseteq Request
    BY DEF Waiting
  <1>2. IsFiniteSet(Waiting(k))
    BY <1>1, FS_Subset, AccountsAssumption
  <1>3. QED
    BY <1>2, FS_CardinalityType DEF OnTheirWay

LEMMA WaitingFiniteNext ==
  ASSUME NEW k
  PROVE  OnTheirWay(k)' \in Nat
  <1>1. Waiting(k)' \subseteq Request
    BY DEF Waiting
  <1>2. IsFiniteSet(Waiting(k)')
    BY <1>1, FS_Subset, AccountsAssumption
  <1>3. QED
    BY <1>2, FS_CardinalityType DEF OnTheirWay

LEMMA WaitingMoves ==
  ASSUME request \in [Request -> RequestType], NEW r \in Request, NEW x \in RequestType,
         Becomes(r, x), NEW k
  PROVE  /\ Waits(x, k) => OnTheirWay(k)' \in {OnTheirWay(k), OnTheirWay(k) + 1}
         /\ ~Waits(x, k) => OnTheirWay(k)' \in {OnTheirWay(k), OnTheirWay(k) - 1}
         /\ ~Waits(x, k) /\ Waits(request[r], k) => OnTheirWay(k)' = OnTheirWay(k) - 1
         /\ Waits(x, k) /\ Waits(request[r], k) => OnTheirWay(k)' = OnTheirWay(k)
  <1>1. \A i \in Request : request'[i] = IF i = r THEN x ELSE request[i]
    BY BecomesAll
  <1>2. r \in Waiting(k) <=> Waits(request[r], k)
    BY DEF Waiting
  <1>3. ASSUME Waits(x, k)
        PROVE  Waiting(k)' = Waiting(k) \cup {r}
    BY <1>1, <1>3 DEF Waiting, Waits
  <1>4. ASSUME ~Waits(x, k)
        PROVE  Waiting(k)' = Waiting(k) \ {r}
    BY <1>1, <1>4 DEF Waiting, Waits
  <1>5. /\ Cardinality(Waiting(k) \cup {r}) = IF r \in Waiting(k) THEN Cardinality(Waiting(k))
                                             ELSE Cardinality(Waiting(k)) + 1
        /\ Cardinality(Waiting(k) \ {r}) = IF r \in Waiting(k) THEN Cardinality(Waiting(k)) - 1
                                          ELSE Cardinality(Waiting(k))
    BY WaitingFinite, FS_AddElement, FS_RemoveElement
  <1>6. ASSUME Waits(x, k)
        PROVE  OnTheirWay(k)' = IF Waits(request[r], k) THEN OnTheirWay(k) ELSE OnTheirWay(k) + 1
    BY <1>2, <1>3, <1>5, <1>6 DEF OnTheirWay
  <1>7. ASSUME ~Waits(x, k)
        PROVE  OnTheirWay(k)' = IF Waits(request[r], k) THEN OnTheirWay(k) - 1 ELSE OnTheirWay(k)
    BY <1>2, <1>4, <1>5, <1>7 DEF OnTheirWay
  <1>8. QED
    BY <1>6, <1>7

\* A token that a step leaves alone, with no more guesses on their way than before.
LEMMA TokenKept ==
  ASSUME IInv, NEW k \in TokenId, otp'[k] = otp[k], purpose'[k] = purpose[k],
         counter'[k] = counter[k], guesses'[k] = guesses[k],
         mail'[k] # "none" => purpose[k] # "none",
         OnTheirWay(k)' \in Int, OnTheirWay(k)' <= OnTheirWay(k)
  PROVE  TokenOK(k)'
  <1>1. TokenOK(k) /\ guesses[k] \in Nat /\ counter[k].n \in Nat
    BY DEF IInv, AccountsTypeOK, Counter
  <1>2. OnTheirWay(k) \in Nat
    BY WaitingFinite
  <1>3. Budget(k) => Budget(k)'
    BY <1>1, <1>2, AccountsAssumption DEF Budget
  <1>4. QED
    BY <1>1, <1>3 DEF TokenOK

\* Most steps of a request only move it on: its token's OTP, its guesses and its
\* counter are left alone, and no guess sets out.
LEMMA Moved ==
  ASSUME IInv, NEW r \in Request, NEW x \in RequestType, Becomes(r, x), Shape(x), Rows(x),
         \A k \in TokenId : Waits(x, k) => Waits(request[r], k),
         UNCHANGED <<otp, purpose, counter, guesses>>,
         \A k \in TokenId : mail'[k] # "none" => purpose[k] # "none"
  PROVE  Requests' /\ \A k \in TokenId : TokenOK(k)'
  <1>1. request \in [Request -> RequestType]
    BY DEF IInv, AccountsTypeOK
  <1>2. Requests'
    <2>1. \A i \in Request : request'[i] = IF i = r THEN x ELSE request[i]
      BY <1>1, BecomesAll
    <2>2. ASSUME NEW i \in Request
          PROVE  Shape(request'[i]) /\ Rows(request'[i])
      BY <2>1 DEF IInv, Requests
    <2>3. ASSUME NEW i \in Request
          PROVE  Shape(request[i])' /\ Rows(request[i])'
      BY <2>2 DEF Shape, Rows
    <2>4. QED
      BY <2>3 DEF Requests
  <1>3. ASSUME NEW k \in TokenId
        PROVE  TokenOK(k)'
    <2>1. OnTheirWay(k)' <= OnTheirWay(k) /\ OnTheirWay(k)' \in Int
      BY <1>1, WaitingMoves, WaitingFinite
    <2>2. QED
      BY <2>1, TokenKept
  <1>4. QED
    BY <1>2, <1>3

\* The three ways a request moves on, as records.
Others == UNCHANGED <<otp, purpose, counter, guesses>>

LEMMA AnyRequest ==
  ASSUME IInv, NEW r \in Request
  PROVE  /\ request \in [Request -> RequestType]
         /\ request[r] \in RequestType /\ Shape(request[r]) /\ Rows(request[r])
  BY DEF IInv, AccountsTypeOK, Requests

LEMMA RequestOver ==
  ASSUME IInv, NEW r \in Request, Over(r), Others,
         \A k \in TokenId : mail'[k] # "none" => purpose[k] # "none"
  PROVE  request' \in [Request -> RequestType] /\ Requests' /\ \A k \in TokenId : TokenOK(k)'
  <1>1. NoRequest \in RequestType /\ NoRequest.pc = "idle" /\ NoRequest.what = "none"
        /\ NoRequest.token = 0
    BY AccountsAssumption DEF NoRequest, Req, RequestType, Pc, Kind
  <1>2. Shape(NoRequest) /\ Rows(NoRequest) /\ \A k \in TokenId : ~Waits(NoRequest, k)
    BY <1>1, AccountsAssumption DEF Shape, Rows, Waits, Guess, WithToken, TokenId
  <1>3. QED
    BY <1>1, <1>2, AnyRequest, BecomesAll, Moved DEF Over, Others

LEMMA Start ==
  ASSUME IInv, NEW r \in Request, NEW pc \in Pc, NEW what \in Kind, NEW k \in 0..Tokens,
         NEW right \in BOOLEAN, Begin(r, pc, what, k, right), Others,
         \/ pc = "incr" /\ what \in {"register", "reset"} \cup Guess
         \/ pc = "write",
         what \in Guess => k \in TokenId, k \in TokenId => purpose[k] # "none",
         \A i \in TokenId : mail'[i] # "none" => purpose[i] # "none"
  PROVE  request' \in [Request -> RequestType] /\ Requests' /\ \A i \in TokenId : TokenOK(i)'
  <1> DEFINE x == Req(pc, what, k, right, 0)
  <1>1. x \in RequestType /\ x.pc = pc /\ x.what = what /\ x.token = k
    <2>1. 0 \in 0..ResetLife
      BY AccountsAssumption
    <2>2. x \in RequestType
      BY <2>1 DEF Req, RequestType
    <2>3. QED
      BY <2>2 DEF Req
  <1>2. Shape(x) /\ Rows(x) /\ \A i \in TokenId : ~Waits(x, i)
    <2> HIDE DEF x
    <2>1. Shape(x)
      BY <1>1 DEF Shape, WithToken
    <2>2. Rows(x)
      BY <1>1 DEF Rows
    <2>3. QED
      BY <1>1, <2>1, <2>2 DEF Waits
  <1>3. Becomes(r, x)
    BY DEF Begin
  <1> HIDE DEF x
  <1>4. QED
    BY <1>1, <1>2, <1>3, AnyRequest, BecomesAll, Moved DEF Others

\* A request that moves on keeps its kind and its token.
LEMMA Fields ==
  ASSUME IInv, NEW r \in Request, NEW pc \in Pc, To(r, pc)
  PROVE  \E x \in RequestType :
             /\ Becomes(r, x)
             /\ x.pc = pc /\ x.what = request[r].what /\ x.token = request[r].token
             /\ x.right = request[r].right
  <1>1. request[r] \in RequestType
    BY AnyRequest
  <1> DEFINE x == Req(pc, request[r].what, request[r].token, request[r].right, request[r].age)
  <1>2. x \in RequestType /\ x.pc = pc /\ x.what = request[r].what
        /\ x.token = request[r].token /\ x.right = request[r].right
    BY <1>1 DEF Req, RequestType
  <1>3. Becomes(r, x)
    BY DEF To
  <1> HIDE DEF x
  <1>4. QED
    BY <1>2, <1>3

LEMMA Advance ==
  ASSUME IInv, NEW r \in Request, NEW pc \in Pc,
         pc \in {"mail", "del otp", "read pending", "create and del", "create", "del"},
         To(r, pc), request[r].pc \in WithToken, request[r].pc = "compare" \/ pc # "del otp",
         Others, \A k \in TokenId : mail'[k] # "none" => purpose[k] # "none"
  PROVE  request' \in [Request -> RequestType] /\ Requests' /\ \A k \in TokenId : TokenOK(k)'
  <1>1. PICK x \in RequestType :
            /\ Becomes(r, x)
            /\ x.pc = pc /\ x.what = request[r].what /\ x.token = request[r].token
    BY Fields
  <1>2. Shape(request[r]) /\ Rows(request[r])
    BY AnyRequest
  <1>3. Shape(x) /\ Rows(x) /\ \A k \in TokenId : ~Waits(x, k)
    <2>1. Shape(x)
      BY <1>1, <1>2 DEF Shape, WithToken
    <2>2. Rows(x)
      BY <1>1, <1>2 DEF Rows
    <2>3. QED
      BY <1>1, <2>1, <2>2 DEF Waits
  <1>4. QED
    BY <1>1, <1>3, AnyRequest, BecomesAll, Moved DEF Others

LEMMA TypeKept ==
  ASSUME AccountsTypeOK, request' \in [Request -> RequestType],
         UNCHANGED <<otp, purpose, counter, guesses, age>>,
         account' \in {NoAccount, New} \cup TokenId, pending' \in [TokenId -> 0..OtpLife],
         mail' \in [TokenId -> {"none", "queued", "delivered"}], ticket' \in BOOLEAN
  PROVE  AccountsTypeOK'
  BY DEF AccountsTypeOK

-----------------------------------------------------------------------------
(* The steps that leave OTPs, counters and guesses alone.                  *)

LEMMA Beginning ==
  ASSUME IInv, NEW r \in Request,
         \/ Register(r) \/ Reset(r) \/ ChangePassword(r) \/ ConfirmReset(r)
         \/ \E k \in TokenId, what \in {"confirm", "verify"}, right \in BOOLEAN :
               Validate(r, k, what, right)
  PROVE  IInv'
  <1> USE DEF keys
  <1>1. /\ AccountsTypeOK
        /\ \A k \in TokenId : mail[k] # "none" => purpose[k] # "none"
    BY DEF IInv, TokenOK
  <1>2. /\ "incr" \in Pc /\ "write" \in Pc /\ FALSE \in BOOLEAN /\ 0 \in 0..Tokens
        /\ 0 \notin TokenId /\ TokenId \subseteq 0..Tokens
        /\ {"register", "reset", "change", "confirm reset", "confirm", "verify"} \subseteq Kind
    BY AccountsAssumption DEF Pc, Kind, TokenId
  <1>3. UNCHANGED <<account, otp, pending, purpose, guesses, age, mail, counter, ticket>>
    BY DEF Register, Reset, ChangePassword, ConfirmReset, Validate
  <1>4. Others
    BY <1>3 DEF Others
  <1> DEFINE Rest == request' \in [Request -> RequestType] /\ Requests'
                     /\ \A k \in TokenId : TokenOK(k)'
  <1>5. ASSUME NEW pc \in {"incr", "write"},
               NEW what \in {"register", "reset", "change", "confirm reset"},
               pc = "incr" => what \in {"register", "reset"}, Begin(r, pc, what, 0, FALSE)
        PROVE  Rest
    <2>1. pc \in Pc /\ what \in Kind /\ what \notin Guess
      BY <1>2 DEF Guess
    <2>2. \/ pc = "incr" /\ what \in {"register", "reset"} \cup Guess
          \/ pc = "write"
      BY <1>5
    <2>3. QED
      BY <2>1, <2>2, <1>5, <1>1, <1>2, <1>3, <1>4, Start
  <1>6. ASSUME NEW k \in TokenId, NEW what \in Guess, NEW right \in BOOLEAN,
               Validate(r, k, what, right)
        PROVE  Rest
    <2>1. k \in 0..Tokens /\ what \in Kind
      BY <1>2 DEF Guess
    <2>2. purpose[k] # "none" /\ Begin(r, "incr", what, k, right)
      BY <1>1, <1>6 DEF Validate
    <2>3. QED
      BY <2>1, <2>2, <1>1, <1>2, <1>3, <1>4, Start
  <1>7. Rest
    BY <1>5, <1>6 DEF Register, Reset, ChangePassword, ConfirmReset, Guess
  <1>8. AccountsTypeOK'
    BY <1>1, <1>3, <1>7, TypeKept DEF AccountsTypeOK
  <1>9. QED
    BY <1>7, <1>8 DEF IInv

LEMMA Ending ==
  ASSUME IInv, NEW r \in Request, \/ QueueMail(r) \/ WritePassword(r) \/ RequestFails(r)
  PROVE  IInv'
  <1> USE DEF keys
  <1>1. /\ AccountsTypeOK
        /\ \A k \in TokenId : mail[k] # "none" => purpose[k] # "none"
    BY DEF IInv, TokenOK
  <1>2. /\ Over(r)
        /\ UNCHANGED <<otp, pending, purpose, guesses, age, counter, ticket>>
        /\ account' \in {account, New}
    BY DEF QueueMail, WritePassword, RequestFails
  <1>3. mail' \in [TokenId -> {"none", "queued", "delivered"}]
        /\ \A k \in TokenId : mail'[k] # "none" => purpose[k] # "none"
    <2>1. CASE UNCHANGED mail
      BY <1>1, <2>1 DEF AccountsTypeOK
    <2>2. CASE QueueMail(r)
      <3>1. Shape(request[r]) /\ Rows(request[r])
        BY AnyRequest
      <3>2. request[r].token \in TokenId /\ purpose[request[r].token] # "none"
        BY <2>2, <3>1 DEF QueueMail, In, Shape, Rows, WithToken
      <3>3. QED
        BY <1>1, <2>2, <3>2 DEF QueueMail, AccountsTypeOK
    <2>3. QED
      BY <2>1, <2>2 DEF WritePassword, RequestFails
  <1>4. Others
    BY <1>2 DEF Others
  <1>5. request' \in [Request -> RequestType] /\ Requests' /\ \A k \in TokenId : TokenOK(k)'
    BY <1>2, <1>3, <1>4, RequestOver
  <1>6. AccountsTypeOK'
    BY <1>1, <1>2, <1>3, <1>5, TypeKept DEF AccountsTypeOK
  <1>7. QED
    BY <1>5, <1>6 DEF IInv

\* When createUser fails unnoticed, every request dies with the process.
LEMMA AllEnd ==
  ASSUME IInv, request' = [i \in Request |-> NoRequest], Others, UNCHANGED mail
  PROVE  request' \in [Request -> RequestType] /\ Requests' /\ \A k \in TokenId : TokenOK(k)'
  <1>1. NoRequest \in RequestType /\ NoRequest.pc = "idle" /\ NoRequest.what = "none"
        /\ NoRequest.token = 0 /\ 0 \notin TokenId
    BY AccountsAssumption DEF NoRequest, Req, RequestType, Pc, Kind, TokenId
  <1>2. Requests'
    <2>1. ASSUME NEW i \in Request
          PROVE  Shape(request[i])' /\ Rows(request[i])'
      BY <1>1 DEF Shape, Rows, WithToken, Guess
    <2>2. QED
      BY <2>1 DEF Requests
  <1>3. ASSUME NEW k \in TokenId
        PROVE  TokenOK(k)'
    <2>1. \A i \in Request : ~Waits(request'[i], k)
      BY <1>1 DEF Waits
    <2>2. Waiting(k)' = {}
      BY <2>1 DEF Waiting, Waits
    <2>3. OnTheirWay(k)' = 0 /\ OnTheirWay(k) \in Nat
      BY <2>2, FS_EmptySet, WaitingFinite DEF OnTheirWay
    <2>4. /\ otp'[k] = otp[k] /\ purpose'[k] = purpose[k] /\ mail'[k] = mail[k]
          /\ counter'[k] = counter[k] /\ guesses'[k] = guesses[k]
      BY DEF Others
    <2>5. mail[k] # "none" => purpose[k] # "none"
      BY DEF IInv, TokenOK
    <2>6. QED
      BY <2>3, <2>4, <2>5, TokenKept
  <1>4. QED
    BY <1>1, <1>2, <1>3

LEMMA Confirming ==
  ASSUME IInv, NEW r \in Request,
         \/ StorePending(r) \/ ReadPending(r) \/ CreateUser(r) \/ DelPending(r)
  PROVE  IInv'
  <1> USE DEF keys
  <1>1. /\ AccountsTypeOK
        /\ \A k \in TokenId : mail[k] # "none" => purpose[k] # "none"
    BY DEF IInv, TokenOK
  <1>2. UNCHANGED <<otp, purpose, guesses, age, mail, counter, ticket>>
    BY DEF StorePending, ReadPending, CreateUser, DelPending
  <1>3. Others
    BY <1>2 DEF Others
  <1>4. request[r].pc \in WithToken /\ request[r].token \in TokenId
    <2>1. request[r].pc \in WithToken
      BY DEF StorePending, ReadPending, CreateUser, DelPending, In, WithToken
    <2>2. QED
      BY <2>1, AnyRequest DEF Shape
  <1>5. {"mail", "create and del", "create", "del"} \subseteq Pc
    BY DEF Pc
  <1> DEFINE Rest == request' \in [Request -> RequestType] /\ Requests'
                     /\ \A k \in TokenId : TokenOK(k)'
  <1>6. ASSUME NEW pc \in {"mail", "create and del", "create", "del"}, To(r, pc)
        PROVE  Rest
    <2>1. pc \in Pc /\ pc # "del otp"
          /\ pc \in {"mail", "del otp", "read pending", "create and del", "create", "del"}
      BY <1>5
    <2>2. QED
      BY <2>1, <1>1, <1>2, <1>3, <1>4, <1>6, Advance
  <1>7. ASSUME Over(r)
        PROVE  Rest
    BY <1>7, <1>1, <1>2, <1>3, RequestOver
  <1>8. Rest
    <2>1. CASE StorePending(r)
      BY <2>1, <1>6 DEF StorePending
    <2>2. CASE ReadPending(r)
      BY <2>2, <1>6, <1>7 DEF ReadPending
    <2>3. CASE CreateUser(r)
      BY <2>3, <1>2, <1>3, <1>6, <1>7, AllEnd DEF CreateUser
    <2>4. CASE DelPending(r)
      BY <2>4, <1>6, <1>7 DEF DelPending
    <2>5. QED
      BY <2>1, <2>2, <2>3, <2>4
  <1>9. account' \in {NoAccount, New} \cup TokenId
    BY <1>1, <1>4 DEF AccountsTypeOK, StorePending, ReadPending, CreateUser, DelPending, Insert
  <1>10. pending' \in [TokenId -> 0..OtpLife]
    <2>1. 0 \in 0..OtpLife /\ OtpLife \in 0..OtpLife
      BY AccountsAssumption
    <2>2. QED
      BY <1>1, <1>4, <2>1
      DEF AccountsTypeOK, StorePending, ReadPending, CreateUser, DelPending
  <1>11. AccountsTypeOK'
    BY <1>1, <1>2, <1>8, <1>9, <1>10, TypeKept DEF AccountsTypeOK
  <1>12. QED
    BY <1>8, <1>11 DEF IInv

-----------------------------------------------------------------------------
(* The steps that count, compare and delete.                               *)

LEMMA RequestsKept ==
  ASSUME IInv, NEW r \in Request, NEW x \in RequestType, Becomes(r, x), Shape(x),
         x.token \in TokenId => purpose'[x.token] # "none",
         x.pc = "del count" => otp'[x.token] = 0,
         \A k \in TokenId : /\ purpose[k] # "none" => purpose'[k] # "none"
                            /\ purpose[k] # "none" /\ otp[k] = 0 => otp'[k] = 0
  PROVE  request' \in [Request -> RequestType] /\ Requests'
  <1>1. request \in [Request -> RequestType]
    BY AnyRequest
  <1>2. request' \in [Request -> RequestType]
        /\ \A i \in Request : request'[i] = IF i = r THEN x ELSE request[i]
    BY <1>1, BecomesAll
  <1>3. ASSUME NEW i \in Request
        PROVE  Shape(request[i])' /\ Rows(request[i])'
    <2>1. CASE i = r
      BY <1>2, <2>1 DEF Shape, Rows
    <2>2. CASE i # r
      <3>1. Shape(request[i]) /\ Rows(request[i]) /\ request'[i] = request[i]
        BY <1>2, <2>2, AnyRequest
      <3>2. request[i].pc = "del count" => request[i].token \in TokenId
        BY <3>1 DEF Shape, WithToken
      <3>3. QED
        BY <3>1, <3>2 DEF Shape, Rows
    <2>3. QED
      BY <2>1, <2>2
  <1>4. QED
    BY <1>2, <1>3 DEF Requests

LEMMA CounterOf ==
  ASSUME IInv, NEW r \in Request, request[r].pc \in {"incr", "expire"}
  PROVE  /\ Of(r) \in Counter
         /\ request[r].what \in Guess => Of(r) = request[r].token /\ ~AsksForMail(r)
                                          /\ request[r].token \in TokenId
         /\ request[r].what \notin Guess => AsksForMail(r) /\ \A k \in TokenId : k # Of(r)
         /\ request[r].what \in {"register", "reset"} \cup Guess
  <1>1. request[r].what \in {"register", "reset"} \cup Guess
        /\ (request[r].what \in Guess => request[r].token \in TokenId)
    BY AnyRequest DEF Shape
  <1>2. RegisterCounter \notin TokenId /\ ResetCounter \notin TokenId
    BY AccountsAssumption DEF RegisterCounter, ResetCounter, TokenId
  <1>3. CASE request[r].what \in Guess
    BY <1>1, <1>3 DEF Of, AsksForMail, Counter, Guess
  <1>4. CASE request[r].what \notin Guess
    BY <1>1, <1>2, <1>4 DEF Of, AsksForMail, Counter, Guess
  <1>5. QED
    BY <1>1, <1>3, <1>4

\* What a counter's step leaves to show of a token: its budget, if it is the one
\* whose guesses are counted.
LEMMA CounterSteps ==
  ASSUME IInv, NEW r \in Request, NEW x \in RequestType, Becomes(r, x), Shape(x),
         x.token = request[r].token \/ x.token = 0, x.pc # "del count",
         UNCHANGED <<otp, purpose, guesses, mail>>,
         NEW c \in Counter, \A i \in Counter : i # c => counter'[i] = counter[i],
         \A k \in TokenId : Waits(x, k) /\ ~Waits(request[r], k) => k = c,
         c \in TokenId => purpose[c] # "none" /\ (otp[c] > 0 => Budget(c)')
  PROVE  request' \in [Request -> RequestType] /\ Requests' /\ \A k \in TokenId : TokenOK(k)'
  <1>1. request \in [Request -> RequestType] /\ Rows(request[r]) /\ 0 \notin TokenId
    <2>1. 0 \notin TokenId
      BY ONLY AccountsAssumption DEF TokenId
    <2>2. QED
      BY <2>1, AnyRequest
  <1>2. x.token \in TokenId => purpose'[x.token] # "none"
    BY <1>1 DEF Rows
  <1>3. request' \in [Request -> RequestType] /\ Requests'
    BY <1>2, RequestsKept
  <1>4. ASSUME NEW k \in TokenId
        PROVE  TokenOK(k)'
    <2>1. TokenOK(k) /\ guesses[k] \in Nat /\ k \in Counter
      BY DEF IInv, AccountsTypeOK, Counter
    <2>2. /\ otp'[k] = otp[k] /\ purpose'[k] = purpose[k] /\ mail'[k] = mail[k]
          /\ guesses'[k] = guesses[k]
      OBVIOUS
    <2>3. CASE k = c
      BY <2>1, <2>2, <2>3 DEF TokenOK
    <2>4. CASE k # c
      <3>1. counter'[k] = counter[k] /\ counter[k].n \in Nat
        BY <2>1, <2>4 DEF IInv, AccountsTypeOK
      <3>2. Waits(x, k) => Waits(request[r], k)
        BY <2>4
      <3>3. OnTheirWay(k)' <= OnTheirWay(k) /\ OnTheirWay(k)' \in Int
        <4>1. OnTheirWay(k) \in Nat
          BY WaitingFinite
        <4>2. OnTheirWay(k)' \in {OnTheirWay(k), OnTheirWay(k) - 1}
          BY <1>1, <3>2, WaitingMoves
        <4>3. QED
          BY ONLY <4>1, <4>2
      <3>4. mail[k] # "none" => purpose[k] # "none"
        BY <2>1 DEF TokenOK
      <3>5. QED
        BY <2>2, <3>1, <3>3, <3>4, TokenKept
    <2>5. QED
      BY <2>3, <2>4
  <1>5. QED
    BY <1>3, <1>4

LEMMA Counting ==
  ASSUME IInv, NEW r \in Request, Incr(r)
  PROVE  IInv'
  <1> USE DEF keys
  <1>0. PICK c : c = Of(r)
    OBVIOUS
  <1> DEFINE m == counter[c].n
             limit == LimitOf(r)
             n == IF m > limit THEN m ELSE m + 1
             left == IF n = 1 THEN Forever ELSE counter[c].left
  <1>1. /\ AccountsTypeOK /\ request[r].pc = "incr"
        /\ Shape(request[r]) /\ Rows(request[r]) /\ request[r] \in RequestType
    BY AnyRequest DEF Incr, In, IInv
  <1>2. /\ c \in Counter
        /\ request[r].what \in Guess => c = request[r].token /\ ~AsksForMail(r)
                                         /\ request[r].token \in TokenId
        /\ request[r].what \notin Guess => AsksForMail(r) /\ \A k \in TokenId : k # c
        /\ request[r].what \in {"register", "reset"} \cup Guess
    BY <1>0, <1>1, CounterOf
  <1>3. limit \in Nat \ {0} /\ (request[r].what \in Guess => limit = MaxGuesses)
    BY <1>2, AccountsAssumption DEF LimitOf
  <1>4. m \in Nat /\ counter[c] \in [n : Nat, left : Forever..ResetLife]
        /\ (m = 0 <=> counter[c].left = 0)
    BY <1>1, <1>2 DEF AccountsTypeOK
  <1>5. UNCHANGED <<account, otp, pending, purpose, guesses, age, mail, ticket>>
    BY DEF Incr
  <1>6. counter' = [counter EXCEPT ![c] = [n |-> n, left |-> left]]
    BY <1>0 DEF Incr
  <1>7. \/ n = 1 /\ To(r, "expire")
        \/ n <= limit /\ To(r, Counted(r))
        \/ Over(r)
    BY <1>0 DEF Incr, Passes
  <1>8. n \in Nat \ {0} /\ m <= n /\ (n <= limit => n = m + 1)
    BY <1>3, <1>4
  <1>9. left \in Forever..ResetLife /\ left # 0
        /\ (left = Forever \/ (m > 0 /\ left = counter[c].left))
    <2>1. Forever \in Forever..ResetLife /\ Forever # 0
      BY AccountsAssumption DEF Forever
    <2>2. n # 1 => m > 0
      BY <1>3, <1>4
    <2>3. QED
      BY <1>4, <2>1, <2>2
  <1> HIDE DEF m, limit, n, left
  <1>10. /\ counter' \in [Counter -> [n : Nat, left : Forever..ResetLife]]
         /\ \A i \in Counter : counter'[i].n = 0 <=> counter'[i].left = 0
    BY <1>1, <1>2, <1>6, <1>8, <1>9 DEF AccountsTypeOK
  <1> DEFINE Good(x) ==
               /\ Becomes(r, x) /\ Shape(x)
               /\ x.token = request[r].token \/ x.token = 0
               /\ x.pc # "del count"
               /\ x.pc \in {"expire", "compare"} => n <= limit /\ x.token = request[r].token
                                                    /\ x.what = request[r].what
  <1>11. PICK x \in RequestType : Good(x)
    <2> HIDE DEF Good
    <2>1. CASE Over(r)
      <3>1. NoRequest \in RequestType /\ NoRequest.pc = "idle" /\ NoRequest.what = "none"
            /\ NoRequest.token = 0
        BY AccountsAssumption DEF NoRequest, Req, RequestType, Pc, Kind
      <3>2. Shape(NoRequest)
        BY <3>1 DEF Shape, Guess, WithToken
      <3>3. Good(NoRequest)
        BY <2>1, <3>1, <3>2 DEF Over, Good
      <3>4. QED
        BY <3>1, <3>3
    <2>2. ASSUME NEW y \in RequestType, Becomes(r, y), n <= limit,
                 y.what = request[r].what, y.token = request[r].token,
                 \/ y.pc = "expire"
                 \/ y.pc = "store" /\ y.what \notin Guess
                 \/ y.pc = "compare" /\ y.what \in Guess
          PROVE  Good(y)
      <3>1. Shape(y)
        BY <1>1, <1>2, <2>2 DEF Shape, WithToken
      <3>2. QED
        BY <2>2, <3>1 DEF Good
    <2>3. CASE n <= limit /\ To(r, "expire")
      <3>1. "expire" \in Pc
        BY DEF Pc
      <3>2. PICK y \in RequestType : Becomes(r, y) /\ y.pc = "expire"
                /\ y.what = request[r].what /\ y.token = request[r].token
        BY <2>3, <3>1, Fields
      <3>3. Good(y)
        BY <2>2, <2>3, <3>2
      <3>4. QED
        BY <3>3
    <2>4. CASE n <= limit /\ To(r, "store") /\ request[r].what \notin Guess
      <3>1. "store" \in Pc
        BY DEF Pc
      <3>2. PICK y \in RequestType : Becomes(r, y) /\ y.pc = "store"
                /\ y.what = request[r].what /\ y.token = request[r].token
        BY <2>4, <3>1, Fields
      <3>3. Good(y)
        BY <2>2, <2>4, <3>2
      <3>4. QED
        BY <3>3
    <2>5. CASE n <= limit /\ To(r, "compare") /\ request[r].what \in Guess
      <3>1. "compare" \in Pc
        BY DEF Pc
      <3>2. PICK y \in RequestType : Becomes(r, y) /\ y.pc = "compare"
                /\ y.what = request[r].what /\ y.token = request[r].token
        BY <2>5, <3>1, Fields
      <3>3. Good(y)
        BY <2>2, <2>5, <3>2
      <3>4. QED
        BY <3>3
    <2>6. \/ Over(r)
          \/ /\ n <= limit
             /\ \/ To(r, "expire")
                \/ To(r, "store") /\ request[r].what \notin Guess
                \/ To(r, "compare") /\ request[r].what \in Guess
      <3>1. Counted(r) = IF request[r].what \in Guess THEN "compare" ELSE "store"
        BY <1>2 DEF Counted
      <3>2. n = 1 => n <= limit
        BY <1>3
      <3>3. QED
        <4>1. CASE request[r].what \in Guess
          BY <1>7, <3>1, <3>2, <4>1
        <4>2. CASE request[r].what \notin Guess
          BY <1>7, <3>1, <3>2, <4>2
        <4>3. QED
          BY <4>1, <4>2
    <2>7. QED
      BY <2>1, <2>3, <2>4, <2>5, <2>6
  <1>12. \A k \in TokenId : ~Waits(request[r], k) /\ (Waits(x, k) => k = c)
    BY <1>1, <1>2, <1>11 DEF Waits
  <1>13. ASSUME c \in TokenId
         PROVE  purpose[c] # "none" /\ (otp[c] > 0 => Budget(c)')
    <2>1. request[r].what \in Guess /\ c = request[r].token /\ limit = MaxGuesses
      BY <1>2, <1>3, <1>13
    <2>2. purpose[c] # "none"
      BY <1>1, <1>13, <2>1 DEF Rows
    <2>3. ASSUME otp[c] > 0
          PROVE  Budget(c)'
      <3>1. Budget(c) /\ guesses[c] \in Nat /\ otp[c] \in Nat
        BY <1>1, <1>13, <2>3 DEF IInv, TokenOK, AccountsTypeOK
      <3>2. /\ otp'[c] = otp[c] /\ guesses'[c] = guesses[c]
            /\ counter'[c].n = n /\ counter'[c].left = left
        BY <1>1, <1>2, <1>5, <1>6 DEF AccountsTypeOK
      <3>3. /\ OnTheirWay(c) \in Nat
            /\ OnTheirWay(c)' \in {OnTheirWay(c) - 1, OnTheirWay(c), OnTheirWay(c) + 1}
            /\ OnTheirWay(c)' > OnTheirWay(c) => n <= limit
        <4>1. request \in [Request -> RequestType] /\ OnTheirWay(c) \in Nat
          BY AnyRequest, WaitingFinite
        <4>2. /\ Waits(x, c) => OnTheirWay(c)' \in {OnTheirWay(c), OnTheirWay(c) + 1}
              /\ ~Waits(x, c) => OnTheirWay(c)' \in {OnTheirWay(c), OnTheirWay(c) - 1}
          BY <1>11, <4>1, WaitingMoves
        <4>3. Waits(x, c) => n <= limit
          BY <1>11 DEF Waits
        <4>4. QED
          BY <4>1, <4>2, <4>3
      <3>4. OnTheirWay(c)' + guesses'[c] <= n /\ OnTheirWay(c)' + guesses'[c] <= MaxGuesses
        BY <1>3, <1>4, <1>8, <2>1, <3>1, <3>2, <3>3 DEF Budget, m
      <3>5. left = Forever \/ left >= otp'[c]
        BY <1>9, <3>1, <3>2 DEF Budget, m
      <3>6. QED
        BY <3>2, <3>4, <3>5 DEF Budget
    <2>4. QED
      BY <2>2, <2>3
  <1>14. \A i \in Counter : i # c => counter'[i] = counter[i]
    BY <1>1, <1>6 DEF AccountsTypeOK
  <1>15. request' \in [Request -> RequestType] /\ Requests' /\ \A k \in TokenId : TokenOK(k)'
    <2>1. c \in Counter /\ UNCHANGED <<otp, purpose, guesses, mail>>
      BY <1>2, <1>5
    <2>2. /\ Becomes(r, x) /\ Shape(x) /\ x.pc # "del count"
          /\ x.token = request[r].token \/ x.token = 0
          /\ \A k \in TokenId : Waits(x, k) /\ ~Waits(request[r], k) => k = c
      BY <1>11, <1>12
    <2>3. QED
      BY ZenonT(30), <2>1, <2>2, <1>13, <1>14, CounterSteps
  <1>16. AccountsTypeOK'
    BY <1>1, <1>5, <1>10, <1>15 DEF AccountsTypeOK
  <1>17. QED
    BY <1>15, <1>16 DEF IInv

LEMMA Expiring ==
  ASSUME IInv, NEW r \in Request, Expire(r)
  PROVE  IInv'
  <1> USE DEF keys
  <1>0. PICK c : c = Of(r)
    OBVIOUS
  <1>1. /\ AccountsTypeOK /\ request[r].pc = "expire"
        /\ Shape(request[r]) /\ Rows(request[r]) /\ request[r] \in RequestType
    BY AnyRequest DEF Expire, In, IInv
  <1>2. /\ c \in Counter
        /\ request[r].what \in Guess => c = request[r].token /\ request[r].token \in TokenId
        /\ request[r].what \notin Guess => \A k \in TokenId : k # c
        /\ request[r].what \in {"register", "reset"} \cup Guess
        /\ Counted(r) = IF request[r].what \in Guess THEN "compare" ELSE "store"
    BY <1>0, <1>1, CounterOf DEF Counted
  <1>3. UNCHANGED <<account, otp, pending, purpose, guesses, age, mail, ticket>>
    BY DEF Expire
  <1> DEFINE life == Life(request[r].what)
  <1>4. /\ life \in 1..ResetLife
        /\ request[r].what \in Guess => life = OtpLife
    BY AccountsAssumption DEF Life, Guess
  <1>5. counter' = IF counter[c].n = 0 THEN counter
                   ELSE [counter EXCEPT ![c] = [n |-> counter[c].n, left |-> life]]
    BY <1>0 DEF Expire
  <1> HIDE DEF life
  <1>6. /\ counter' \in [Counter -> [n : Nat, left : Forever..ResetLife]]
        /\ \A i \in Counter : counter'[i].n = 0 <=> counter'[i].left = 0
        /\ \A i \in Counter : i # c => counter'[i] = counter[i]
        /\ counter'[c].n = counter[c].n
        /\ counter[c].n > 0 => counter'[c].left = life
    <2>1. /\ counter \in [Counter -> [n : Nat, left : Forever..ResetLife]]
          /\ \A i \in Counter : counter[i].n = 0 <=> counter[i].left = 0
      BY <1>1 DEF AccountsTypeOK
    <2>2. CASE counter[c].n = 0
      BY <1>2, <1>5, <2>1, <2>2
    <2>3. CASE counter[c].n # 0
      <3>1. counter' = [counter EXCEPT ![c] = [n |-> counter[c].n, left |-> life]]
        BY <1>2, <1>5, <2>1, <2>3
      <3>2. life \in Forever..ResetLife /\ life # 0
        BY <1>4 DEF Forever
      <3>3. QED
        BY <1>2, <2>1, <2>3, <3>1, <3>2
    <2>4. QED
      BY <2>2, <2>3
  <1>7. To(r, Counted(r))
    BY DEF Expire
  <1>8. Counted(r) \in Pc
    BY <1>2 DEF Pc
  <1>9. PICK x \in RequestType : Becomes(r, x) /\ x.pc = Counted(r)
            /\ x.what = request[r].what /\ x.token = request[r].token
    BY <1>7, <1>8, Fields
  <1>10. Shape(x) /\ x.pc # "del count"
    BY <1>1, <1>2, <1>9 DEF Shape, WithToken
  <1>11. \A k \in TokenId : Waits(x, k) => Waits(request[r], k)
    BY <1>1, <1>9 DEF Waits
  <1>12. ASSUME c \in TokenId
         PROVE  purpose[c] # "none" /\ (otp[c] > 0 => Budget(c)')
    <2>1. request[r].what \in Guess /\ c = request[r].token /\ life = OtpLife
      BY <1>2, <1>4, <1>12
    <2>2. purpose[c] # "none"
      BY <1>1, <1>12, <2>1 DEF Rows
    <2>3. ASSUME otp[c] > 0
          PROVE  Budget(c)'
      <3>1. Budget(c) /\ guesses[c] \in Nat /\ otp[c] \in 0..OtpLife /\ counter[c].n \in Nat
        BY <1>1, <1>2, <1>12, <2>3 DEF IInv, TokenOK, AccountsTypeOK
      <3>2. /\ otp'[c] = otp[c] /\ guesses'[c] = guesses[c] /\ counter'[c].n = counter[c].n
            /\ counter[c].n > 0 => counter'[c].left = OtpLife
        BY <1>3, <1>6, <2>1
      <3>3. OnTheirWay(c) \in Nat /\ OnTheirWay(c)' \in {OnTheirWay(c), OnTheirWay(c) - 1}
        <4>1. request \in [Request -> RequestType] /\ OnTheirWay(c) \in Nat
          BY AnyRequest, WaitingFinite
        <4>2. QED
          BY <1>9, <1>11, <1>12, <4>1, WaitingMoves
      <3>4. QED
        BY <3>1, <3>2, <3>3, AccountsAssumption DEF Budget
    <2>4. QED
      BY <2>2, <2>3
  <1>13. request' \in [Request -> RequestType] /\ Requests' /\ \A k \in TokenId : TokenOK(k)'
    <2>1. c \in Counter /\ UNCHANGED <<otp, purpose, guesses, mail>>
          /\ \A i \in Counter : i # c => counter'[i] = counter[i]
      BY <1>2, <1>3, <1>6
    <2>2. /\ Becomes(r, x) /\ Shape(x) /\ x.pc # "del count"
          /\ x.token = request[r].token \/ x.token = 0
          /\ \A k \in TokenId : Waits(x, k) /\ ~Waits(request[r], k) => k = c
      BY <1>9, <1>10, <1>11
    <2>3. QED
      BY ZenonT(30), <2>1, <2>2, <1>12, CounterSteps
  <1>14. AccountsTypeOK'
    BY <1>1, <1>3, <1>6, <1>13 DEF AccountsTypeOK
  <1>15. QED
    BY <1>13, <1>14 DEF IInv

LEMMA Comparing ==
  ASSUME IInv, NEW r \in Request, Compare(r)
  PROVE  IInv'
  <1> USE DEF keys
  <1>1. /\ AccountsTypeOK /\ request[r].pc = "compare" /\ request \in [Request -> RequestType]
        /\ Shape(request[r]) /\ Rows(request[r]) /\ request[r] \in RequestType
    BY AnyRequest DEF Compare, In, IInv
  <1>2. PICK t \in TokenId : t = request[r].token
    BY <1>1 DEF Shape, WithToken
  <1>3. request[r].what \in Guess /\ Waits(request[r], t)
        /\ \A k \in TokenId : Waits(request[r], k) => k = t
    BY <1>1, <1>2 DEF Shape, Waits
  <1>4. UNCHANGED <<account, otp, pending, purpose, mail, counter, age, ticket>>
    BY DEF Compare
  <1>5. guesses' = IF otp[t] > 0 THEN [guesses EXCEPT ![t] = guesses[t] + 1] ELSE guesses
    BY <1>2 DEF Compare
  <1>6. guesses \in [TokenId -> Nat]
    BY <1>1 DEF AccountsTypeOK
  <1>7. PICK x \in RequestType :
           /\ Becomes(r, x) /\ Shape(x)
           /\ x.token = request[r].token \/ x.token = 0
           /\ x.pc \notin {"del count", "expire", "compare"}
    <2>1. CASE Over(r)
      <3>1. NoRequest \in RequestType /\ NoRequest.pc = "idle" /\ NoRequest.what = "none"
            /\ NoRequest.token = 0
        BY AccountsAssumption DEF NoRequest, Req, RequestType, Pc, Kind
      <3>2. Shape(NoRequest)
        BY <3>1 DEF Shape, Guess, WithToken
      <3>3. QED
        BY <2>1, <3>1, <3>2 DEF Over
    <2>2. CASE To(r, "del otp")
      <3>1. "del otp" \in Pc
        BY DEF Pc
      <3>2. PICK y \in RequestType : Becomes(r, y) /\ y.pc = "del otp"
                /\ y.what = request[r].what /\ y.token = request[r].token
        BY <2>2, <3>1, Fields
      <3>3. Shape(y)
        BY <1>1, <1>2, <1>3, <3>2 DEF Shape, WithToken
      <3>4. QED
        BY <3>2, <3>3
    <2>3. QED
      BY <2>1, <2>2 DEF Compare
  <1>8. request' \in [Request -> RequestType] /\ Requests'
    <2>1. 0 \notin TokenId
      BY ONLY AccountsAssumption DEF TokenId
    <2>2. x.token \in TokenId => purpose'[x.token] # "none"
      BY <1>1, <1>4, <1>7, <2>1 DEF Rows
    <2>3. QED
      BY <1>4, <1>7, <2>2, RequestsKept
  <1>9. ASSUME NEW k \in TokenId
        PROVE  TokenOK(k)'
    <2>1. ~Waits(x, k)
      BY <1>7 DEF Waits
    <2>2. OnTheirWay(k) \in Nat /\ OnTheirWay(k)' \in {OnTheirWay(k), OnTheirWay(k) - 1}
          /\ (k = t => OnTheirWay(k)' = OnTheirWay(k) - 1)
      BY <1>1, <1>3, <1>7, <2>1, WaitingMoves, WaitingFinite
    <2>3. TokenOK(k) /\ counter[k].n \in Nat /\ guesses[k] \in Nat
      BY <1>1 DEF IInv, AccountsTypeOK, Counter
    <2>4. CASE guesses'[k] = guesses[k]
      <3>1. OnTheirWay(k)' \in Int /\ OnTheirWay(k)' <= OnTheirWay(k)
        BY ONLY <2>2
      <3>2. mail'[k] # "none" => purpose[k] # "none"
        BY <1>4, <2>3 DEF TokenOK
      <3>3. QED
        BY <1>4, <2>4, <3>1, <3>2, TokenKept
    <2>5. CASE guesses'[k] # guesses[k]
      <3>1. k = t /\ otp[k] > 0 /\ guesses'[k] = guesses[k] + 1
        BY <1>5, <1>6, <2>5
      <3>2. Budget(k) /\ purpose[k] # "none"
        <4>1. purpose[k] # "none"
          BY <1>1, <1>2, <3>1 DEF Rows
        <4>2. QED
          BY <2>3, <3>1, <4>1 DEF TokenOK
      <3>3. OnTheirWay(k)' + guesses'[k] = OnTheirWay(k) + guesses[k] /\ OnTheirWay(k)' \in Nat
        <4>1. OnTheirWay(k)' \in Nat
          BY WaitingFiniteNext
        <4>2. QED
          BY <2>2, <2>3, <3>1, <4>1
      <3>4. Budget(k)'
        BY <1>4, <3>2, <3>3 DEF Budget
      <3>5. guesses'[k] <= MaxGuesses
        BY <2>3, <3>1, <3>2, <3>3, AccountsAssumption DEF Budget
      <3>6. QED
        BY <1>4, <3>2, <3>4, <3>5, <2>3 DEF TokenOK
    <2>6. QED
      BY <2>4, <2>5
  <1>10. AccountsTypeOK'
    <2>1. guesses' \in [TokenId -> Nat]
      BY <1>5, <1>6
    <2>2. QED
      BY <1>1, <1>4, <1>8, <2>1 DEF AccountsTypeOK
  <1>11. QED
    BY <1>8, <1>9, <1>10 DEF IInv

LEMMA Storing ==
  ASSUME IInv, NEW r \in Request, StoreOtp(r)
  PROVE  IInv'
  <1>1. /\ AccountsTypeOK /\ request[r].pc = "store" /\ request \in [Request -> RequestType]
        /\ Shape(request[r]) /\ Rows(request[r]) /\ request[r] \in RequestType
    BY AnyRequest DEF StoreOtp, In, IInv
  <1>2. request[r].what \in {"register", "reset"}
    BY <1>1 DEF Shape
  <1> DEFINE next == IF request[r].what = "register" THEN "pend" ELSE "mail"
  <1>3. PICK t \in TokenId :
           /\ \A i \in TokenId : purpose[i] = "none" <=> i >= t
           /\ otp' = [otp EXCEPT ![t] = OtpLife]
           /\ purpose' = [purpose EXCEPT ![t] = request[r].what]
           /\ age' = [age EXCEPT ![t] = request[r].age]
           /\ Becomes(r, Req(next, request[r].what, t, FALSE, 0))
    BY DEF StoreOtp
  <1>4. UNCHANGED <<account, pending, mail, counter, guesses, ticket>>
    BY DEF StoreOtp
  <1>5. t \in Nat /\ purpose[t] = "none" /\ t \in 0..Tokens /\ 0 \in 0..ResetLife
    BY <1>3, AccountsAssumption DEF TokenId
  <1> DEFINE x == Req(next, request[r].what, t, FALSE, 0)
  <1>6. x \in RequestType /\ x.pc \in {"pend", "mail"} /\ x.what = request[r].what /\ x.token = t
    <2>1. next \in Pc /\ request[r].what \in Kind /\ next \in {"pend", "mail"}
      BY <1>2 DEF Pc, Kind
    <2> HIDE DEF next
    <2>2. QED
      BY <1>5, <2>1 DEF Req, RequestType
  <1>7. Becomes(r, x)
    BY <1>3
  <1> HIDE DEF x, next
  <1>8. Shape(x) /\ \A k \in TokenId : ~Waits(x, k)
    BY <1>2, <1>6 DEF Shape, WithToken, Guess, Waits
  <1>9. /\ otp' \in [TokenId -> 0..OtpLife] /\ otp'[t] = OtpLife
        /\ purpose' \in [TokenId -> {"none", "register", "reset"}] /\ purpose'[t] # "none"
        /\ \A k \in TokenId : k # t => otp'[k] = otp[k] /\ purpose'[k] = purpose[k]
    <2>1. OtpLife \in 0..OtpLife
      BY AccountsAssumption
    <2>2. QED
      BY <1>1, <1>2, <1>3, <2>1 DEF AccountsTypeOK
  <1>10. request' \in [Request -> RequestType] /\ Requests'
    <2>1. /\ x.token \in TokenId => purpose'[x.token] # "none"
          /\ x.pc # "del count"
      BY <1>6, <1>9
    <2>2. \A k \in TokenId : /\ purpose[k] # "none" => purpose'[k] # "none"
                             /\ purpose[k] # "none" /\ otp[k] = 0 => otp'[k] = 0
      BY <1>5, <1>9
    <2>3. QED
      BY <1>6, <1>7, <1>8, <2>1, <2>2, RequestsKept
  <1>11. ASSUME NEW k \in TokenId
         PROVE  TokenOK(k)'
    <2>1. TokenOK(k)
      BY DEF IInv
    <2>2. OnTheirWay(k)' \in {OnTheirWay(k), OnTheirWay(k) - 1} /\ OnTheirWay(k) \in Nat
      BY <1>1, <1>6, <1>7, <1>8, WaitingMoves, WaitingFinite
    <2>3. CASE k # t
      <3>1. OnTheirWay(k)' \in Int /\ OnTheirWay(k)' <= OnTheirWay(k)
        BY ONLY <2>2
      <3>2. mail'[k] # "none" => purpose[k] # "none"
        BY <1>4, <2>1 DEF TokenOK
      <3>3. QED
        BY <1>4, <1>9, <2>3, <3>1, <3>2, TokenKept
    <2>4. CASE k = t
      <3>1. guesses[k] = 0 /\ counter[k].n = 0 /\ mail[k] = "none"
        BY <1>5, <2>1, <2>4 DEF TokenOK
      <3>2. Waiting(k) = {}
        <4>1. ASSUME NEW i \in Request, Waits(request[i], k)
              PROVE  FALSE
          BY <1>5, <2>4, <4>1, AnyRequest DEF Waits, Rows
        <4>2. QED
          BY <4>1 DEF Waiting
      <3>3. OnTheirWay(k) = 0
        BY <3>2, FS_EmptySet DEF OnTheirWay
      <3>4. OnTheirWay(k)' = 0
        BY <2>2, <3>3, WaitingFiniteNext
      <3>5. QED
        BY <1>4, <1>9, <2>4, <3>1, <3>4, AccountsAssumption DEF TokenOK, Budget
    <2>5. QED
      BY <2>3, <2>4
  <1>12. AccountsTypeOK'
    <2>1. request[r].age \in 0..ResetLife
      BY <1>1 DEF RequestType
    <2>2. age' \in [TokenId -> 0..ResetLife]
      BY <1>1, <1>3, <2>1 DEF AccountsTypeOK
    <2>3. QED
      BY <1>1, <1>4, <1>9, <1>10, <2>2 DEF AccountsTypeOK
  <1>13. QED
    BY <1>10, <1>11, <1>12 DEF IInv

LEMMA Deleting ==
  ASSUME IInv, NEW r \in Request, DelOtp(r)
  PROVE  IInv'
  <1>1. /\ AccountsTypeOK /\ request[r].pc = "del otp" /\ request \in [Request -> RequestType]
        /\ Shape(request[r]) /\ Rows(request[r])
    BY AnyRequest DEF DelOtp, In, IInv
  <1>2. PICK t \in TokenId : t = request[r].token
    BY <1>1 DEF Shape, WithToken
  <1>3. UNCHANGED <<account, pending, purpose, mail, counter, guesses, age, ticket>>
        /\ otp' = [otp EXCEPT ![t] = 0] /\ To(r, "del count")
    BY <1>2 DEF DelOtp
  <1>4. "del count" \in Pc
    BY DEF Pc
  <1>5. PICK x \in RequestType : Becomes(r, x) /\ x.pc = "del count"
            /\ x.what = request[r].what /\ x.token = request[r].token
    BY <1>3, <1>4, Fields
  <1>6. Shape(x) /\ \A k \in TokenId : ~Waits(x, k)
    BY <1>1, <1>2, <1>5 DEF Shape, WithToken, Waits
  <1>7. /\ otp' \in [TokenId -> 0..OtpLife] /\ otp'[t] = 0
        /\ \A k \in TokenId : k # t => otp'[k] = otp[k]
    <2>1. 0 \in 0..OtpLife
      BY AccountsAssumption
    <2>2. QED
      BY <1>1, <1>3, <2>1 DEF AccountsTypeOK
  <1>8. request' \in [Request -> RequestType] /\ Requests'
    <2>1. /\ x.token \in TokenId => purpose'[x.token] # "none"
          /\ x.pc = "del count" => otp'[x.token] = 0
      BY <1>1, <1>2, <1>3, <1>5, <1>7 DEF Rows
    <2>2. \A k \in TokenId : /\ purpose[k] # "none" => purpose'[k] # "none"
                             /\ purpose[k] # "none" /\ otp[k] = 0 => otp'[k] = 0
      BY <1>3, <1>7
    <2>3. QED
      BY <1>5, <1>6, <2>1, <2>2, RequestsKept
  <1>9. ASSUME NEW k \in TokenId
        PROVE  TokenOK(k)'
    <2>1. TokenOK(k)
      BY DEF IInv
    <2>2. CASE k # t
      <3>1. OnTheirWay(k)' \in {OnTheirWay(k), OnTheirWay(k) - 1} /\ OnTheirWay(k) \in Nat
        BY <1>1, <1>5, <1>6, WaitingMoves, WaitingFinite
      <3>2. OnTheirWay(k)' \in Int /\ OnTheirWay(k)' <= OnTheirWay(k)
        BY ONLY <3>1
      <3>3. mail'[k] # "none" => purpose[k] # "none"
        BY <1>3, <2>1 DEF TokenOK
      <3>4. QED
        BY <1>3, <1>7, <2>2, <3>2, <3>3, TokenKept
    <2>3. CASE k = t
      <3>1. /\ otp'[k] = 0 /\ purpose'[k] = purpose[k] /\ mail'[k] = mail[k]
            /\ counter'[k] = counter[k] /\ guesses'[k] = guesses[k]
        BY <1>3, <1>7, <2>3
      <3>2. QED
        BY <2>1, <3>1 DEF TokenOK
    <2>4. QED
      BY <2>2, <2>3
  <1>10. AccountsTypeOK'
    BY <1>1, <1>3, <1>7, <1>8 DEF AccountsTypeOK
  <1>11. QED
    BY <1>8, <1>9, <1>10 DEF IInv

LEMMA Resetting ==
  ASSUME IInv, NEW r \in Request, DelCount(r)
  PROVE  IInv'
  <1> USE DEF keys
  <1>1. /\ AccountsTypeOK /\ request[r].pc = "del count" /\ request \in [Request -> RequestType]
        /\ Shape(request[r]) /\ Rows(request[r])
    BY AnyRequest DEF DelCount, In, IInv
  <1>2. PICK t \in TokenId : t = request[r].token
    BY <1>1 DEF Shape, WithToken
  <1>3. UNCHANGED <<account, otp, pending, purpose, mail, guesses, age>>
        /\ counter' = [counter EXCEPT ![t] = Zero] /\ ticket' \in {TRUE, ticket}
        /\ (Over(r) \/ To(r, "read pending"))
    BY <1>2 DEF DelCount
  <1>4. PICK x \in RequestType :
           /\ Becomes(r, x) /\ Shape(x)
           /\ x.token = request[r].token \/ x.token = 0
           /\ x.pc \notin {"del count", "expire", "compare"}
    <2>1. CASE Over(r)
      <3>1. NoRequest \in RequestType /\ NoRequest.pc = "idle" /\ NoRequest.what = "none"
            /\ NoRequest.token = 0
        BY AccountsAssumption DEF NoRequest, Req, RequestType, Pc, Kind
      <3>2. Shape(NoRequest)
        BY <3>1 DEF Shape, Guess, WithToken
      <3>3. QED
        BY <2>1, <3>1, <3>2 DEF Over
    <2>2. CASE To(r, "read pending")
      <3>1. "read pending" \in Pc
        BY DEF Pc
      <3>2. PICK y \in RequestType : Becomes(r, y) /\ y.pc = "read pending"
                /\ y.what = request[r].what /\ y.token = request[r].token
        BY <2>2, <3>1, Fields
      <3>3. Shape(y)
        BY <1>1, <1>2, <3>2 DEF Shape, WithToken
      <3>4. QED
        BY <3>2, <3>3
    <2>3. QED
      BY <1>3, <2>1, <2>2
  <1>5. /\ counter' \in [Counter -> [n : Nat, left : Forever..ResetLife]]
        /\ \A i \in Counter : counter'[i].n = 0 <=> counter'[i].left = 0
        /\ \A i \in Counter : i # t => counter'[i] = counter[i]
        /\ t \in Counter
    <2>1. Zero \in [n : Nat, left : Forever..ResetLife] /\ Zero.n = 0 /\ Zero.left = 0
      BY AccountsAssumption DEF Zero, Forever
    <2>2. t \in Counter
      BY DEF Counter
    <2> HIDE DEF Zero
    <2>3. QED
      BY <1>1, <1>3, <2>1, <2>2 DEF AccountsTypeOK
  <1>6. purpose[t] # "none" /\ otp[t] = 0
    BY <1>1, <1>2 DEF Rows
  <1>7. request' \in [Request -> RequestType] /\ Requests' /\ \A k \in TokenId : TokenOK(k)'
    <2>1. t \in Counter /\ UNCHANGED <<otp, purpose, guesses, mail>>
          /\ \A i \in Counter : i # t => counter'[i] = counter[i]
      BY <1>3, <1>5
    <2>2. /\ Becomes(r, x) /\ Shape(x) /\ x.pc # "del count"
          /\ x.token = request[r].token \/ x.token = 0
          /\ \A k \in TokenId : Waits(x, k) /\ ~Waits(request[r], k) => k = t
      BY <1>4 DEF Waits
    <2>3. t \in TokenId => purpose[t] # "none" /\ (otp[t] > 0 => Budget(t)')
      BY <1>6
    <2>4. QED
      BY <2>1, <2>2, <2>3, CounterSteps
  <1>8. AccountsTypeOK'
    BY <1>1, <1>3, <1>5, <1>7 DEF AccountsTypeOK
  <1>9. QED
    BY <1>7, <1>8 DEF IInv

LEMMA Sending ==
  ASSUME IInv, NEW t \in TokenId, SendMail(t)
  PROVE  IInv'
  <1>1. AccountsTypeOK /\ Requests /\ \A k \in TokenId : TokenOK(k)
    BY DEF IInv
  <1>2. UNCHANGED <<account, otp, pending, purpose, guesses, age, counter, ticket, request>>
        /\ mail[t] = "queued" /\ mail' = [mail EXCEPT ![t] = "delivered"]
    BY DEF SendMail, keys
  <1>3. AccountsTypeOK'
    BY <1>1, <1>2 DEF AccountsTypeOK
  <1>4. Requests'
    BY <1>1, <1>2 DEF Requests, Shape, Rows
  <1>5. ASSUME NEW k \in TokenId
        PROVE  TokenOK(k)'
    <2>1. Waiting(k)' = Waiting(k)
      BY <1>2 DEF Waiting, Waits
    <2>2. OnTheirWay(k)' = OnTheirWay(k) /\ OnTheirWay(k) \in Nat
      BY <2>1, WaitingFinite DEF OnTheirWay
    <2>3. mail'[k] # "none" => purpose[k] # "none"
      BY <1>1, <1>2 DEF TokenOK, AccountsTypeOK
    <2>4. QED
      BY <1>2, <2>2, <2>3, TokenKept
  <1>6. QED
    BY <1>3, <1>4, <1>5 DEF IInv

\* The counter of guesses was made after the OTP and lives as long, or has no
\* expiry: an OTP is gone when its counter expires.
LEMMA Ticking ==
  ASSUME IInv, AccountsTick
  PROVE  IInv'
  <1>1. AccountsTypeOK /\ Requests /\ \A k \in TokenId : TokenOK(k)
    BY DEF IInv
  <1>2. UNCHANGED <<account, purpose, mail, guesses>> /\ ticket' \in {FALSE, ticket}
    BY DEF AccountsTick
  <1>3. otp' \in [TokenId -> 0..OtpLife] /\ pending' \in [TokenId -> 0..OtpLife]
    BY <1>1, AccountsAssumption DEF AccountsTick, AccountsTypeOK, Less
  <1>4. /\ counter' \in [Counter -> [n : Nat, left : Forever..ResetLife]]
        /\ \A i \in Counter : counter'[i].n = 0 <=> counter'[i].left = 0
    <2>1. ASSUME NEW i \in Counter
          PROVE  /\ counter'[i] \in [n : Nat, left : Forever..ResetLife]
                 /\ counter'[i].n = 0 <=> counter'[i].left = 0
      <3>1. counter[i] \in [n : Nat, left : Forever..ResetLife]
            /\ (counter[i].n = 0 <=> counter[i].left = 0)
        BY <1>1 DEF AccountsTypeOK
      <3>2. counter'[i] = IF counter[i].left = 1 THEN Zero
                          ELSE [n |-> counter[i].n, left |-> Less(counter[i].left)]
        BY DEF AccountsTick
      <3>3. CASE counter[i].left = 1
        BY <3>2, <3>3, AccountsAssumption DEF Zero, Forever
      <3>4. CASE counter[i].left # 1
        BY <3>1, <3>2, <3>4, AccountsAssumption DEF Less, Forever
      <3>5. QED
        BY <3>3, <3>4
    <2>2. counter' = [i \in Counter |-> counter'[i]]
      BY DEF AccountsTick
    <2>3. QED
      BY <2>1, <2>2
  <1>5. age' \in [TokenId -> 0..ResetLife]
    <2>1. \A w : Life(w) \in 0..ResetLife
      BY AccountsAssumption DEF Life
    <2>2. QED
      BY <1>1, <2>1, AccountsAssumption DEF AccountsTick, AccountsTypeOK, Older
  <1>6. /\ request' \in [Request -> RequestType]
        /\ \A i \in Request : /\ request'[i].pc = request[i].pc
                              /\ request'[i].what = request[i].what
                              /\ request'[i].token = request[i].token
    <2>1. ASSUME NEW i \in Request
          PROVE  /\ request'[i] \in RequestType
                 /\ request'[i].pc = request[i].pc
                 /\ request'[i].what = request[i].what
                 /\ request'[i].token = request[i].token
      <3>1. request[i] \in RequestType
        BY AnyRequest
      <3>2. Older(request[i].age, request[i].what) \in 0..ResetLife
        BY <3>1, AccountsAssumption DEF Older, Life, RequestType
      <3>3. request'[i] = request[i]
            \/ request'[i] = [request[i] EXCEPT !.age = Older(request[i].age, request[i].what)]
        BY DEF AccountsTick
      <3> HIDE DEF Older
      <3>4. QED
        BY <3>1, <3>2, <3>3 DEF RequestType
    <2>2. request' = [i \in Request |-> request'[i]]
      BY DEF AccountsTick
    <2>3. QED
      BY <2>1, <2>2
  <1>7. \A k \in TokenId : otp'[k] = Less(otp[k])
    BY DEF AccountsTick
  <1>8. Requests'
    <2>1. ASSUME NEW i \in Request
          PROVE  Shape(request[i])' /\ Rows(request[i])'
      <3>1. Shape(request[i]) /\ Rows(request[i])
        BY AnyRequest
      <3>2. Shape(request[i])'
        BY <1>6, <3>1 DEF Shape
      <3>3. request[i].pc = "del count" => request[i].token \in TokenId
        BY <3>1 DEF Shape, WithToken
      <3>4. Rows(request[i])'
        <4>1. /\ request'[i].pc = request[i].pc /\ request'[i].token = request[i].token
              /\ purpose' = purpose
          BY <1>2, <1>6
        <4>2. request[i].pc = "del count" => otp'[request[i].token] = 0
          <5>1. CASE request[i].pc = "del count"
            <6>1. otp[request[i].token] = 0 /\ request[i].token \in TokenId
              BY <3>1, <3>3, <5>1 DEF Rows
            <6>2. Less(0) = 0
              BY DEF Less
            <6>3. QED
              BY <1>7, <6>1, <6>2
          <5>2. QED
            BY <5>1
        <4>3. QED
          BY <3>1, <4>1, <4>2 DEF Rows
      <3>5. QED
        BY <3>2, <3>4
    <2>2. QED
      BY <2>1 DEF Requests
  <1>9. ASSUME NEW k \in TokenId
        PROVE  TokenOK(k)'
    <2>1. TokenOK(k) /\ guesses[k] \in Nat /\ otp[k] \in Nat /\ k \in Counter
      BY <1>1 DEF AccountsTypeOK, Counter
    <2>2. counter[k] \in [n : Nat, left : Forever..ResetLife]
          /\ (counter[k].n = 0 <=> counter[k].left = 0)
      BY <1>1, <2>1 DEF AccountsTypeOK
    <2>3. Waiting(k)' = Waiting(k)
      BY <1>6 DEF Waiting, Waits
    <2>4. OnTheirWay(k)' = OnTheirWay(k) /\ OnTheirWay(k) \in Nat
      BY <2>3, WaitingFinite DEF OnTheirWay
    <2>5. /\ otp'[k] = Less(otp[k]) /\ purpose'[k] = purpose[k] /\ mail'[k] = mail[k]
          /\ guesses'[k] = guesses[k]
      BY <1>2, <1>7
    <2>6. counter'[k] = IF counter[k].left = 1 THEN Zero
                        ELSE [n |-> counter[k].n, left |-> Less(counter[k].left)]
      BY <2>1 DEF AccountsTick
    <2>7. otp'[k] > 0 => Budget(k)'
      <3> SUFFICES ASSUME otp'[k] > 0
                   PROVE  Budget(k)'
        OBVIOUS
      <3>1. otp[k] > 0 /\ otp'[k] = otp[k] - 1 /\ Budget(k)
        BY <2>1, <2>5 DEF Less, TokenOK
      <3>2. counter[k].left # 1
        BY <2>1, <2>2, <2>5, <3>1 DEF Budget, Forever
      <3>3. counter'[k].n = counter[k].n /\ counter'[k].left = Less(counter[k].left)
        BY <2>6, <3>2
      <3>4. counter[k].n > 0 => counter'[k].left = Forever \/ counter'[k].left >= otp'[k]
        BY <2>1, <2>2, <3>1, <3>2, <3>3 DEF Budget, Less, Forever
      <3>5. QED
        BY <2>4, <2>5, <3>1, <3>3, <3>4 DEF Budget
    <2>8. purpose'[k] = "none" => otp'[k] = 0 /\ guesses'[k] = 0 /\ counter'[k].n = 0
      BY <2>1, <2>5, <2>6 DEF TokenOK, Less, Zero
    <2>9. QED
      BY <2>1, <2>5, <2>7, <2>8 DEF TokenOK
  <1>10. AccountsTypeOK'
    BY <1>1, <1>2, <1>3, <1>4, <1>5, <1>6 DEF AccountsTypeOK
  <1>11. QED
    BY <1>8, <1>9, <1>10 DEF IInv

-----------------------------------------------------------------------------
LEMMA InitIInv == AccountsInit => IInv
  <1> SUFFICES ASSUME AccountsInit
               PROVE  IInv
    OBVIOUS
  <1>1. NoRequest \in RequestType /\ NoRequest.pc = "idle" /\ NoRequest.what = "none"
        /\ NoRequest.token = 0 /\ 0 \notin TokenId
    BY AccountsAssumption DEF NoRequest, Req, RequestType, Pc, Kind, TokenId
  <1>2. AccountsTypeOK
    <2>1. 0 \in 0..OtpLife /\ 0 \in 0..ResetLife
          /\ Zero \in [n : Nat, left : Forever..ResetLife] /\ Zero.n = 0 /\ Zero.left = 0
      BY AccountsAssumption DEF Zero, Forever
    <2> HIDE DEF Zero
    <2>2. QED
      BY <1>1, <2>1 DEF AccountsInit, AccountsTypeOK
  <1>3. Requests
    BY <1>1 DEF AccountsInit, Requests, Shape, Rows, WithToken, Guess
  <1>4. ASSUME NEW k \in TokenId
        PROVE  TokenOK(k)
    BY AccountsAssumption DEF AccountsInit, TokenOK, Counter, Zero
  <1>5. QED
    BY <1>2, <1>3, <1>4 DEF IInv

LEMMA NextIInv == IInv /\ [AccountsNext]_accountVars => IInv'
  <1> SUFFICES ASSUME IInv, [AccountsNext]_accountVars
               PROVE  IInv'
    OBVIOUS
  <1>1. CASE UNCHANGED accountVars
    BY <1>1 DEF accountVars, IInv, AccountsTypeOK, Requests, Shape, Rows, TokenOK, Budget,
                OnTheirWay, Waiting, Waits
  <1>2. CASE AccountsTick
    BY <1>2, Ticking
  <1>3. ASSUME NEW k \in TokenId, SendMail(k)
        PROVE  IInv'
    BY <1>3, Sending
  <1>4. ASSUME NEW r \in Request,
               \/ Register(r) \/ Reset(r) \/ ChangePassword(r) \/ ConfirmReset(r)
               \/ \E k \in TokenId, what \in {"confirm", "verify"}, right \in BOOLEAN :
                     Validate(r, k, what, right)
        PROVE  IInv'
    BY <1>4, Beginning
  <1>5. ASSUME NEW r \in Request, \/ QueueMail(r) \/ WritePassword(r) \/ RequestFails(r)
        PROVE  IInv'
    BY <1>5, Ending
  <1>6. ASSUME NEW r \in Request,
               \/ StorePending(r) \/ ReadPending(r) \/ CreateUser(r) \/ DelPending(r)
        PROVE  IInv'
    BY <1>6, Confirming
  <1>7. ASSUME NEW r \in Request,
               \/ Incr(r) \/ Expire(r) \/ StoreOtp(r) \/ Compare(r) \/ DelOtp(r) \/ DelCount(r)
        PROVE  IInv'
    BY <1>7, Counting, Expiring, Storing, Comparing, Deleting, Resetting
  <1>8. QED
    BY <1>1, <1>2, <1>3, <1>4, <1>5, <1>6, <1>7 DEF AccountsNext

\* No OTP is compared more often than the limit says, for any number of requests
\* at a time, whatever dies between INCR and EXPIRE, and whenever a counter
\* expires or is deleted (validateOTP).
THEOREM GuessesLimited == AccountsSpec => []GuessLimit
  <1>1. IInv => GuessLimit
    BY DEF IInv, TokenOK, GuessLimit
  <1>2. QED
    BY <1>1, InitIInv, NextIInv, PTL DEF AccountsSpec

-----------------------------------------------------------------------------
(* Whose password an account begins with. A confirmation leaves a trail:   *)
(* the mail it answers, the guess that met a live OTP, the OTP that went   *)
(* before the account came. Nothing takes a trail back (Forward).          *)

Proven == {"del otp", "del count", "read pending", "create and del", "create"}
Mailing == {"pend", "mail"}

Trail(x) ==
    /\ x.what \in Guess /\ x.right => mail[x.token] = "delivered"
    /\ x.pc \in Proven => mail[x.token] = "delivered" /\ guesses[x.token] > 0
    /\ x.pc \in Proven \ {"del otp"} => otp[x.token] = 0
    /\ x.pc \in {"pend", "create and del", "create"} => purpose[x.token] = "register"
    /\ x.pc \in Mailing => mail[x.token] = "none"

\* A token is mailed by the request that made it.
OneMails ==
    \A i, j \in Request :
        i # j /\ request[i].pc \in Mailing /\ request[j].pc \in Mailing =>
            request[i].token # request[j].token

Trails == (\A r \in Request : Trail(request[r])) /\ OneMails

PendingIsRegistration == \A k \in TokenId : pending[k] > 0 => purpose[k] = "register"

TInv == IInv /\ Trails /\ PendingIsRegistration /\ OwnRegistration

Forward ==
    \A k \in TokenId :
        /\ mail[k] = "delivered" => mail'[k] = "delivered"
        /\ guesses[k] > 0 => guesses'[k] > 0
        /\ purpose[k] # "none" /\ otp[k] = 0 => otp'[k] = 0
        /\ purpose[k] = "register" => purpose'[k] = "register"

LEMMA OwnKept ==
  ASSUME TInv, Forward, account' \in {account, NoAccount, New}
  PROVE  OwnRegistration'
  <1>1. New \notin TokenId /\ NoAccount \notin TokenId
    BY AccountsAssumption DEF New, NoAccount, TokenId
  <1>2. QED
    BY <1>1 DEF TInv, OwnRegistration, Forward

LEMMA TrailsKept ==
  ASSUME TInv, NEW r \in Request, NEW x \in RequestType, Becomes(r, x), Forward, Trail(x)',
         \A i \in Request \ {r} : x.pc \in Mailing /\ request[i].pc \in Mailing =>
                                     request[i].token # x.token,
         \A i \in Request \ {r} : request[i].pc \in Mailing =>
                                     mail'[request[i].token] = mail[request[i].token]
  PROVE  Trails'
  <1>1. IInv /\ Trails /\ request \in [Request -> RequestType]
    BY AnyRequest DEF TInv
  <1>2. \A i \in Request : request'[i] = IF i = r THEN x ELSE request[i]
    BY <1>1, BecomesAll
  <1>3. ASSUME NEW i \in Request
        PROVE  Trail(request[i])'
    <2>1. CASE i = r
      BY <1>2, <2>1 DEF Trail
    <2>2. CASE i # r
      <3>1. Trail(request[i]) /\ Shape(request[i]) /\ Rows(request[i])
        BY <1>1, AnyRequest DEF Trails
      <3>2. request'[i] = request[i]
        BY <1>2, <2>2
      <3>3. request[i].pc \in Proven \cup Mailing \/ request[i].what \in Guess =>
                request[i].token \in TokenId
        BY <3>1 DEF Shape, WithToken, Proven, Mailing
      <3>4. request[i].pc \in {"pend", "create and del", "create"} =>
                request[i].pc \in Proven \cup Mailing
        BY DEF Proven, Mailing
      <3>5. request[i].pc \in Mailing => mail'[request[i].token] = mail[request[i].token]
        BY <2>2
      <3>6. request[i].token \in TokenId => purpose[request[i].token] # "none"
        BY <3>1 DEF Rows
      <3>7. QED
        BY <3>1, <3>2, <3>3, <3>4, <3>5, <3>6 DEF Trail, Forward
    <2>3. QED
      BY <2>1, <2>2
  <1>4. OneMails'
    <2>1. ASSUME NEW i \in Request, NEW j \in Request, i # j,
                 request'[i].pc \in Mailing, request'[j].pc \in Mailing
          PROVE  request'[i].token # request'[j].token
      BY <1>1, <1>2, <2>1 DEF Trails, OneMails
    <2>2. QED
      BY <2>1 DEF OneMails
  <1>5. QED
    BY <1>3, <1>4 DEF Trails

LEMMA EndKept ==
  ASSUME TInv, NEW r \in Request, Over(r), Forward,
         \A i \in Request \ {r} : request[i].pc \in Mailing =>
                                     mail'[request[i].token] = mail[request[i].token]
  PROVE  Trails'
  <1>1. NoRequest \in RequestType /\ NoRequest.pc = "idle" /\ NoRequest.what = "none"
    BY AccountsAssumption DEF NoRequest, Req, RequestType, Pc, Kind
  <1>2. Trail(NoRequest)' /\ NoRequest.pc \notin Mailing
    <2> HIDE DEF NoRequest
    <2>1. QED
      BY <1>1 DEF Trail, Guess, Proven, Mailing
  <1>3. QED
    BY <1>1, <1>2, TrailsKept DEF Over

LEMMA MoveKept ==
  ASSUME TInv, NEW r \in Request, NEW pc \in Pc, To(r, pc), Forward, UNCHANGED mail,
         pc # "pend", pc = "mail" => request[r].pc = "pend",
         pc \in Proven => mail[request[r].token] = "delivered" /\ guesses'[request[r].token] > 0,
         pc \in Proven \ {"del otp"} => otp'[request[r].token] = 0,
         pc \in {"create and del", "create"} => purpose'[request[r].token] = "register"
  PROVE  Trails'
  <1>1. IInv /\ Trails
    BY DEF TInv
  <1>2. PICK x \in RequestType :
            /\ Becomes(r, x)
            /\ x.pc = pc /\ x.what = request[r].what /\ x.token = request[r].token
            /\ x.right = request[r].right
    BY <1>1, Fields
  <1>3. Trail(request[r])
    BY <1>1 DEF Trails
  <1>4. x.pc \in Mailing => request[r].pc \in Mailing
    BY <1>2 DEF Mailing
  <1>5. Trail(x)'
    BY <1>2, <1>3, <1>4 DEF Trail
  <1>6. \A i \in Request \ {r} : x.pc \in Mailing /\ request[i].pc \in Mailing =>
                                     request[i].token # x.token
    BY <1>1, <1>2, <1>4 DEF Trails, OneMails
  <1>7. QED
    BY <1>2, <1>5, <1>6, TrailsKept

\* What the steps have to keep, beside IInv.
Kept == Trails' /\ PendingIsRegistration' /\ OwnRegistration'

LEMMA OnlyTrails ==
  ASSUME TInv, Forward, Trails', account' \in {account, NoAccount, New},
         \A k \in TokenId : pending'[k] > 0 => pending[k] > 0 \/ purpose[k] = "register"
  PROVE  Kept
  <1>1. OwnRegistration'
    BY OwnKept
  <1>2. PendingIsRegistration'
    BY DEF TInv, PendingIsRegistration, Forward
  <1>3. QED
    BY <1>1, <1>2 DEF Kept

LEMMA BeginKept ==
  ASSUME TInv, NEW r \in Request,
         \/ Register(r) \/ Reset(r) \/ ChangePassword(r) \/ ConfirmReset(r)
         \/ \E k \in TokenId, what \in {"confirm", "verify"}, right \in BOOLEAN :
               Validate(r, k, what, right)
  PROVE  Kept
  <1>1. UNCHANGED <<account, otp, pending, purpose, guesses, mail>>
    BY DEF Register, Reset, ChangePassword, ConfirmReset, Validate, keys
  <1>2. Forward
    BY <1>1 DEF Forward
  <1>3. PICK pc \in {"incr", "write"}, what \in Kind, k \in 0..Tokens, right \in BOOLEAN :
            /\ Begin(r, pc, what, k, right)
            /\ what \in Guess /\ right => mail[k] = "delivered"
    <2>1. FALSE \in BOOLEAN /\ 0 \in 0..Tokens /\ TokenId \subseteq 0..Tokens
          /\ {"register", "reset", "change", "confirm reset", "confirm", "verify"} \subseteq Kind
      BY AccountsAssumption DEF Kind, TokenId
    <2>2. CASE \/ Register(r) \/ Reset(r) \/ ChangePassword(r) \/ ConfirmReset(r)
      BY <2>1, <2>2 DEF Register, Reset, ChangePassword, ConfirmReset, Guess
    <2>3. ASSUME NEW k \in TokenId, NEW what \in {"confirm", "verify"}, NEW right \in BOOLEAN,
                 Validate(r, k, what, right)
          PROVE  \E i \in 0..Tokens :
                    /\ Begin(r, "incr", what, i, right)
                    /\ right => mail[i] = "delivered"
      BY <2>1, <2>3 DEF Validate
    <2>4. QED
      BY <2>1, <2>2, <2>3
  <1> DEFINE x == Req(pc, what, k, right, 0)
  <1>4. x \in RequestType /\ x.pc = pc /\ x.what = what /\ x.token = k /\ x.right = right
    <2>1. 0 \in 0..ResetLife
      BY AccountsAssumption
    <2>2. x \in RequestType
      BY <2>1 DEF Req, RequestType, Pc
    <2>3. QED
      BY <2>2 DEF Req
  <1>5. Becomes(r, x)
    BY <1>3 DEF Begin
  <1> HIDE DEF x
  <1>6. Trail(x)' /\ x.pc \notin Mailing
    BY <1>1, <1>3, <1>4 DEF Trail, Proven, Mailing
  <1>7. Trails'
    BY <1>1, <1>2, <1>4, <1>5, <1>6, TrailsKept
  <1>8. QED
    BY <1>1, <1>2, <1>7, OnlyTrails

LEMMA FinishKept ==
  ASSUME TInv, NEW r \in Request, \/ QueueMail(r) \/ WritePassword(r) \/ RequestFails(r)
  PROVE  Kept
  <1>1. /\ Over(r)
        /\ UNCHANGED <<otp, pending, purpose, guesses>>
        /\ account' \in {account, New}
    BY DEF QueueMail, WritePassword, RequestFails, keys
  <1>2. /\ \A i \in Request \ {r} : request[i].pc \in Mailing =>
                                       mail'[request[i].token] = mail[request[i].token]
        /\ \A k \in TokenId : mail[k] = "delivered" => mail'[k] = "delivered"
    <2>1. CASE UNCHANGED mail
      BY <2>1
    <2>2. CASE QueueMail(r)
      <3>1. IInv /\ Trail(request[r]) /\ OneMails
        BY DEF TInv, Trails
      <3>2. mail \in [TokenId -> {"none", "queued", "delivered"}]
        BY <3>1 DEF IInv, AccountsTypeOK
      <3>3. request[r].pc \in Mailing /\ mail[request[r].token] = "none"
        BY <2>2, <3>1 DEF QueueMail, In, Mailing, Trail
      <3>4. ASSUME NEW i \in Request \ {r}, request[i].pc \in Mailing
            PROVE  request[i].token \in TokenId /\ request[i].token # request[r].token
        BY <3>1, <3>3, <3>4, AnyRequest DEF OneMails, Shape, WithToken, Mailing
      <3>5. QED
        BY <2>2, <3>2, <3>3, <3>4 DEF QueueMail
    <2>3. QED
      BY <2>1, <2>2 DEF WritePassword, RequestFails
  <1>3. Forward
    BY <1>1, <1>2 DEF Forward
  <1>4. Trails'
    BY <1>1, <1>2, <1>3, EndKept
  <1>5. QED
    BY <1>1, <1>3, <1>4, OnlyTrails

\* The steps that move a request on, or end it, without a mail or a token.
LEMMA MovingKept ==
  ASSUME TInv, NEW r \in Request,
         \/ Incr(r) \/ Expire(r) \/ StorePending(r) \/ Compare(r) \/ DelOtp(r) \/ DelCount(r)
         \/ ReadPending(r) \/ DelPending(r)
  PROVE  Kept
  <1>1. /\ IInv /\ PendingIsRegistration
        /\ Trail(request[r]) /\ Shape(request[r]) /\ Rows(request[r])
    BY AnyRequest DEF TInv, Trails
  <1>2. /\ otp \in [TokenId -> 0..OtpLife] /\ pending \in [TokenId -> 0..OtpLife]
        /\ guesses \in [TokenId -> Nat]
    BY <1>1 DEF IInv, AccountsTypeOK
  <1>3. UNCHANGED <<account, purpose, mail>>
    BY DEF Incr, Expire, StorePending, Compare, DelOtp, DelCount, ReadPending, DelPending, keys
  <1> DEFINE token == request[r].token
  <1>4. request[r].pc \in WithToken \/ request[r].what \in Guess => token \in TokenId
    BY <1>1 DEF Shape
  <1>5. /\ \A k \in TokenId : otp[k] = 0 => otp'[k] = 0
        /\ \A k \in TokenId : guesses[k] > 0 => guesses'[k] > 0
        /\ \A k \in TokenId : pending'[k] > 0 => pending[k] > 0 \/ purpose[k] = "register"
    <2>1. CASE UNCHANGED <<otp, pending, guesses>>
      BY <2>1
    <2>2. CASE StorePending(r)
      <3>1. UNCHANGED <<otp, guesses>> /\ purpose[token] = "register"
        BY <1>1, <2>2 DEF StorePending, In, Trail
      <3>2. \A k \in TokenId : k # token => pending'[k] = pending[k]
        BY <1>2, <2>2 DEF StorePending
      <3>3. QED
        BY <3>1, <3>2
    <2>3. CASE Compare(r)
      <3>1. token \in TokenId
        BY <1>4, <2>3 DEF Compare, In, WithToken
      <3>2. UNCHANGED <<otp, pending>>
        BY <2>3 DEF Compare
      <3>3. \A k \in TokenId : guesses'[k] \in {guesses[k], guesses[k] + 1}
        BY <1>2, <2>3, <3>1 DEF Compare
      <3>4. QED
        BY <1>2, <3>2, <3>3
    <2>4. CASE DelOtp(r)
      BY <1>2, <2>4 DEF DelOtp
    <2>5. CASE DelPending(r)
      <3>1. pending' = [pending EXCEPT ![token] = 0] /\ UNCHANGED <<otp, guesses>>
        BY <2>5 DEF DelPending
      <3>2. QED
        BY <1>2, <3>1
    <2>6. QED
      BY <2>1, <2>2, <2>3, <2>4, <2>5 DEF Incr, Expire, DelCount, ReadPending, keys
  <1>6. Forward
    BY <1>3, <1>5 DEF Forward
  <1>7. Trails'
    <2>1. CASE Over(r)
      BY <1>3, <1>6, <2>1, EndKept
    <2>2. ASSUME NEW pc \in {"expire", "store", "compare", "del"}, To(r, pc)
          PROVE  Trails'
      <3>1. pc \in Pc /\ pc \notin Proven /\ pc \notin Mailing
        BY <2>2 DEF Pc, Proven, Mailing
      <3>2. QED
        BY <1>3, <1>6, <2>2, <3>1, MoveKept DEF Proven, Mailing
    <2>3. CASE StorePending(r)
      <3>1. To(r, "mail") /\ request[r].pc = "pend" /\ "mail" \in Pc /\ "mail" \notin Proven
        BY <2>3 DEF StorePending, In, Pc, Proven
      <3>2. QED
        BY <1>3, <1>6, <3>1, MoveKept DEF Proven
    <2>4. ASSUME Compare(r), To(r, "del otp"), otp[token] > 0, request[r].right
          PROVE  Trails'
      <3>1. token \in TokenId /\ request[r].what \in Guess
        BY <1>1, <2>4 DEF Compare, In, Shape, WithToken
      <3>2. mail[token] = "delivered"
        BY <1>1, <2>4, <3>1 DEF Trail
      <3>3. guesses'[token] > 0
        <4>1. guesses' = [guesses EXCEPT ![token] = @ + 1]
          BY <2>4 DEF Compare
        <4>2. QED
          BY <1>2, <3>1, <4>1
      <3>4. "del otp" \in Pc
        BY DEF Pc
      <3>5. QED
        BY <1>3, <1>6, <2>4, <3>2, <3>3, <3>4, MoveKept DEF Proven
    <2>5. ASSUME request[r].pc \in Proven,
                 NEW pc \in {"del count", "read pending", "create and del", "create"}, To(r, pc),
                 otp'[token] = 0,
                 pc \in {"create and del", "create"} => purpose[token] = "register"
          PROVE  Trails'
      <3>1. token \in TokenId
        BY <1>4, <2>5 DEF Proven, WithToken
      <3>2. mail[token] = "delivered" /\ guesses'[token] > 0
        BY <1>1, <1>5, <2>5, <3>1 DEF Trail
      <3>3. pc \in Pc /\ pc \in Proven
        BY <2>5 DEF Pc, Proven
      <3>4. QED
        BY <1>3, <1>6, <2>5, <3>2, <3>3, MoveKept
    <2>6. ASSUME request[r].pc \in Proven \ {"del otp"}
          PROVE  otp'[token] = 0
      BY <1>1, <1>4, <1>5, <2>6 DEF Trail, Proven, WithToken
    <2>7. CASE Incr(r)
      BY <2>1, <2>2, <2>7 DEF Incr, Counted
    <2>8. CASE Expire(r)
      BY <2>2, <2>8 DEF Expire, Counted
    <2>9. CASE Compare(r)
      BY <2>1, <2>4, <2>9 DEF Compare
    <2>10. CASE DelOtp(r)
      <3>1. request[r].pc = "del otp" /\ request[r].pc \in Proven /\ token \in TokenId
        BY <1>4, <2>10 DEF DelOtp, In, Proven, WithToken
      <3>2. otp'[token] = 0 /\ To(r, "del count")
        BY <1>2, <2>10, <3>1 DEF DelOtp
      <3>3. QED
        BY <2>5, <3>1, <3>2
    <2>11. CASE DelCount(r)
      <3>1. request[r].pc \in Proven \ {"del otp"}
        BY <2>11 DEF DelCount, In, Proven
      <3>2. Over(r) \/ To(r, "read pending")
        BY <2>11 DEF DelCount
      <3>3. QED
        BY <2>1, <2>5, <2>6, <3>1, <3>2
    <2>12. CASE ReadPending(r)
      <3>1. request[r].pc \in Proven \ {"del otp"} /\ token \in TokenId
        BY <1>4, <2>12 DEF ReadPending, In, Proven, WithToken
      <3>2. Over(r) \/ (To(r, "create and del") /\ pending[token] > 0)
        BY <2>12 DEF ReadPending
      <3>3. pending[token] > 0 => purpose[token] = "register"
        BY <1>1, <3>1 DEF PendingIsRegistration
      <3>4. QED
        BY <2>1, <2>5, <2>6, <3>1, <3>2, <3>3
    <2>13. CASE DelPending(r)
      <3>1. Over(r) \/ (To(r, "create") /\ request[r].pc = "create and del")
        BY <2>13 DEF DelPending, In
      <3>2. ASSUME request[r].pc = "create and del"
            PROVE  request[r].pc \in Proven \ {"del otp"} /\ purpose[token] = "register"
        BY <1>1, <3>2 DEF Proven, Trail
      <3>3. QED
        BY <2>1, <2>5, <2>6, <3>1, <3>2
    <2>14. QED
      BY <2>3, <2>7, <2>8, <2>9, <2>10, <2>11, <2>12, <2>13
  <1>8. QED
    BY <1>3, <1>5, <1>6, <1>7, OnlyTrails

LEMMA StoringKept ==
  ASSUME TInv, NEW r \in Request, StoreOtp(r)
  PROVE  Kept
  <1>1. /\ IInv /\ Shape(request[r]) /\ request[r].pc = "store" /\ request[r] \in RequestType
        /\ otp \in [TokenId -> 0..OtpLife]
        /\ purpose \in [TokenId -> {"none", "register", "reset"}]
    BY AnyRequest DEF TInv, StoreOtp, In, IInv, AccountsTypeOK
  <1>2. PICK what \in {"register", "reset"} : what = request[r].what
    BY <1>1 DEF Shape
  <1>3. PICK k \in TokenId :
            /\ \A i \in TokenId : purpose[i] = "none" <=> i >= k
            /\ otp' = [otp EXCEPT ![k] = OtpLife]
            /\ purpose' = [purpose EXCEPT ![k] = what]
            /\ LET next == IF what = "register" THEN "pend" ELSE "mail"
               IN  Becomes(r, Req(next, what, k, FALSE, 0))
    BY <1>2 DEF StoreOtp
  <1>4. purpose[k] = "none" /\ mail[k] = "none"
    <2>1. k >= k
      BY DEF TokenId
    <2>2. QED
      BY <1>1, <1>3, <2>1 DEF IInv, TokenOK
  <1>5. UNCHANGED <<account, pending, guesses, mail>>
    BY DEF StoreOtp
  <1>6. Forward
    BY <1>1, <1>3, <1>4, <1>5 DEF Forward
  <1> DEFINE next == IF what = "register" THEN "pend" ELSE "mail"
             x == Req(next, what, k, FALSE, 0)
  <1>7. x \in RequestType /\ x.pc = next /\ x.what = what /\ x.token = k
    <2>1. 0 \in 0..ResetLife /\ TokenId \subseteq 0..Tokens
      BY AccountsAssumption DEF TokenId
    <2>2. next \in Pc /\ what \in Kind
      BY <1>2 DEF Pc, Kind
    <2>3. x \in RequestType
      BY <2>1, <2>2 DEF Req, RequestType
    <2>4. QED
      BY <2>3 DEF Req
  <1>8. Becomes(r, x)
    BY <1>3
  <1> HIDE DEF x
  <1>9. Trail(x)'
    <2>1. x.what \notin Guess /\ x.pc \notin Proven
      BY <1>2, <1>7 DEF Guess, Proven
    <2>2. x.pc = "pend" => purpose'[x.token] = "register"
      BY <1>1, <1>2, <1>3, <1>7
    <2>3. mail'[x.token] = "none"
      BY <1>4, <1>5, <1>7
    <2>4. QED
      BY <2>1, <2>2, <2>3 DEF Trail, Proven
  <1>10. ASSUME NEW i \in Request, request[i].pc \in Mailing
         PROVE  request[i].token # x.token
    <2>1. Shape(request[i]) /\ Rows(request[i])
      BY <1>1, AnyRequest
    <2>2. QED
      BY <1>4, <1>7, <1>10, <2>1 DEF Shape, Rows, WithToken, Mailing
  <1>11. Trails'
    BY <1>5, <1>6, <1>7, <1>8, <1>9, <1>10, TrailsKept
  <1>12. QED
    BY <1>5, <1>6, <1>11, OnlyTrails

\* The account comes from the confirmation of its own registration.
LEMMA CreatingKept ==
  ASSUME TInv, NEW r \in Request, CreateUser(r)
  PROVE  Kept
  <1>1. /\ IInv /\ Trail(request[r]) /\ Shape(request[r]) /\ OwnRegistration
        /\ request[r].pc \in {"create and del", "create"}
    BY AnyRequest DEF TInv, Trails, CreateUser
  <1>2. /\ UNCHANGED <<otp, pending, purpose, guesses, mail>>
        /\ account' = Insert(request[r].token)
        /\ \/ Over(r)
           \/ To(r, "del")
           \/ request' = [i \in Request |-> NoRequest]
    BY DEF CreateUser, keys
  <1>3. Forward
    BY <1>2 DEF Forward
  <1>4. /\ purpose[request[r].token] = "register" /\ mail[request[r].token] = "delivered"
        /\ guesses[request[r].token] > 0 /\ otp[request[r].token] = 0
    BY <1>1 DEF Trail, Proven
  <1>5. OwnRegistration'
    BY <1>1, <1>2, <1>4 DEF OwnRegistration, Insert
  <1>6. PendingIsRegistration'
    BY <1>2 DEF TInv, PendingIsRegistration
  <1>7. Trails'
    <2>1. CASE Over(r)
      BY <1>2, <1>3, <2>1, EndKept
    <2>2. CASE To(r, "del")
      <3>1. "del" \in Pc /\ "del" \notin Proven
        BY DEF Pc, Proven
      <3>2. QED
        BY <1>2, <1>3, <2>2, <3>1, MoveKept
    <2>3. CASE request' = [i \in Request |-> NoRequest]
      <3>1. \A i \in Request : request'[i].pc = "idle" /\ request'[i].what = "none"
        BY <2>3 DEF NoRequest, Req
      <3>2. QED
        BY <3>1 DEF Trails, Trail, OneMails, Guess, Proven, Mailing
    <2>4. QED
      BY <1>2, <2>1, <2>2, <2>3
  <1>8. QED
    BY <1>5, <1>6, <1>7 DEF Kept

LEMMA SendingKept ==
  ASSUME TInv, NEW k \in TokenId, SendMail(k)
  PROVE  Kept
  <1>1. IInv /\ Trails /\ mail \in [TokenId -> {"none", "queued", "delivered"}]
    BY DEF TInv, IInv, AccountsTypeOK
  <1>2. /\ UNCHANGED <<account, otp, pending, purpose, guesses, request>>
        /\ mail[k] = "queued" /\ mail' = [mail EXCEPT ![k] = "delivered"]
    BY DEF SendMail, keys
  <1>3. \A i \in TokenId : mail[i] # "queued" => mail'[i] = mail[i]
    BY <1>1, <1>2
  <1>4. Forward
    BY <1>2, <1>3 DEF Forward
  <1>5. ASSUME NEW r \in Request
        PROVE  Trail(request[r])'
    <2>1. Trail(request[r]) /\ Shape(request[r])
      BY <1>1, AnyRequest DEF Trails
    <2>2. request[r].pc \in Proven \cup Mailing \/ request[r].what \in Guess =>
              request[r].token \in TokenId
      BY <2>1 DEF Shape, WithToken, Proven, Mailing
    <2>3. QED
      BY <1>2, <1>3, <2>1, <2>2 DEF Trail
  <1>6. Trails'
    BY <1>1, <1>2, <1>5 DEF Trails, OneMails
  <1>7. QED
    BY <1>2, <1>4, <1>6, OnlyTrails

LEMMA TickingKept ==
  ASSUME TInv, AccountsTick
  PROVE  Kept
  <1>1. /\ IInv /\ Trails /\ request \in [Request -> RequestType]
        /\ otp \in [TokenId -> 0..OtpLife] /\ pending \in [TokenId -> 0..OtpLife]
    BY DEF TInv, IInv, AccountsTypeOK
  <1>2. /\ UNCHANGED <<account, purpose, mail, guesses>>
        /\ otp' = [k \in TokenId |-> Less(otp[k])]
        /\ pending' = [k \in TokenId |-> Less(pending[k])]
    BY DEF AccountsTick
  <1>3. \A k \in TokenId : otp[k] = 0 => otp'[k] = 0
    BY <1>2 DEF Less
  <1>4. \A k \in TokenId : pending'[k] > 0 => pending[k] > 0
    BY <1>1, <1>2 DEF Less
  <1>5. ASSUME NEW r \in Request
        PROVE  /\ request'[r].pc = request[r].pc /\ request'[r].what = request[r].what
               /\ request'[r].token = request[r].token /\ request'[r].right = request[r].right
    <2>1. request[r] \in RequestType
      BY <1>1
    <2>2. request'[r] = IF request[r].pc \in {"expire", "store"} /\ AsksForMail(r)
                        THEN [request[r] EXCEPT !.age = Older(@, request[r].what)]
                        ELSE request[r]
      BY DEF AccountsTick
    <2>3. QED
      BY <2>1, <2>2 DEF RequestType
  <1>6. Forward
    BY <1>2, <1>3 DEF Forward
  <1>7. ASSUME NEW r \in Request
        PROVE  Trail(request[r])'
    <2>1. Trail(request[r]) /\ Shape(request[r])
      BY <1>1, AnyRequest DEF Trails
    <2>2. request[r].pc \in Proven => request[r].token \in TokenId
      BY <2>1 DEF Shape, WithToken, Proven
    <2>3. QED
      BY <1>2, <1>3, <1>5, <2>1, <2>2 DEF Trail
  <1>8. Trails'
    BY <1>1, <1>5, <1>7 DEF Trails, OneMails
  <1>9. QED
    BY <1>2, <1>4, <1>6, <1>8, OnlyTrails

LEMMA InitTInv == AccountsInit => TInv
  <1> SUFFICES ASSUME AccountsInit PROVE TInv
    OBVIOUS
  <1>1. IInv
    BY InitIInv
  <1>2. \A r \in Request : request[r].pc = "idle" /\ request[r].what = "none"
    BY DEF AccountsInit, NoRequest, Req
  <1>3. Trails
    BY <1>2 DEF Trails, Trail, OneMails, Guess, Proven, Mailing
  <1>4. PendingIsRegistration
    BY DEF AccountsInit, PendingIsRegistration
  <1>5. OwnRegistration
    BY AccountsAssumption DEF AccountsInit, OwnRegistration, NoAccount, New, TokenId
  <1>6. QED
    BY <1>1, <1>3, <1>4, <1>5 DEF TInv

LEMMA NextTInv == TInv /\ [AccountsNext]_accountVars => TInv'
  <1> SUFFICES ASSUME TInv, [AccountsNext]_accountVars PROVE TInv'
    OBVIOUS
  <1>1. IInv'
    BY NextIInv DEF TInv
  <1>2. Kept
    <2>1. CASE UNCHANGED accountVars
      BY <2>1 DEF accountVars, TInv, Kept, Trails, Trail, OneMails, PendingIsRegistration,
                  OwnRegistration
    <2>2. CASE AccountsTick
      BY <2>2, TickingKept
    <2>3. ASSUME NEW k \in TokenId, SendMail(k) PROVE Kept
      BY <2>3, SendingKept
    <2>4. ASSUME NEW r \in Request,
                 \/ Register(r) \/ Reset(r) \/ ChangePassword(r) \/ ConfirmReset(r)
                 \/ \E k \in TokenId, what \in {"confirm", "verify"}, right \in BOOLEAN :
                       Validate(r, k, what, right)
          PROVE  Kept
      BY <2>4, BeginKept
    <2>5. ASSUME NEW r \in Request, \/ QueueMail(r) \/ WritePassword(r) \/ RequestFails(r)
          PROVE  Kept
      BY <2>5, FinishKept
    <2>6. ASSUME NEW r \in Request, StoreOtp(r) PROVE Kept
      BY <2>6, StoringKept
    <2>7. ASSUME NEW r \in Request, CreateUser(r) PROVE Kept
      BY <2>7, CreatingKept
    <2>8. ASSUME NEW r \in Request,
                 \/ Incr(r) \/ Expire(r) \/ StorePending(r) \/ Compare(r) \/ DelOtp(r)
                 \/ DelCount(r) \/ ReadPending(r) \/ DelPending(r)
          PROVE  Kept
      BY <2>8, MovingKept
    <2>9. QED
      BY <2>1, <2>2, <2>3, <2>4, <2>5, <2>6, <2>7, <2>8 DEF AccountsNext
  <1>3. QED
    BY <1>1, <1>2 DEF TInv, Kept

\* An account begins with the password of the registration whose own OTP came
\* back by mail, for any number of registrations of one e-mail at a time
\* (confirmEmailRegistration).
THEOREM OwnPassword == AccountsSpec => []OwnRegistration
  <1>1. TInv => OwnRegistration
    BY DEF TInv
  <1>2. QED
    BY <1>1, InitTInv, NextTInv, PTL DEF AccountsSpec

\* A password is replaced by a change or a reset only: the insert of a late
\* confirmation meets the unique e-mail (confirmEmailRegistration, createUser).
THEOREM LateConfirmHarmless == AccountsSpec => LateConfirmChangesNothing
  <1>1. ASSUME [AccountsNext]_accountVars, account # NoAccount
        PROVE  account' \in {account, New}
    <2>1. CASE UNCHANGED accountVars
      BY <2>1 DEF accountVars
    <2>2. CASE AccountsTick
      BY <2>2 DEF AccountsTick
    <2>3. ASSUME NEW k \in TokenId, SendMail(k) PROVE account' = account
      BY <2>3 DEF SendMail
    <2>4. ASSUME NEW r \in Request, NEW k \in TokenId, NEW what, NEW right,
                 Validate(r, k, what, right)
          PROVE  account' = account
      BY <2>4 DEF Validate
    <2>5. ASSUME NEW r \in Request,
                 \/ Register(r) \/ Reset(r) \/ Incr(r) \/ Expire(r) \/ StoreOtp(r)
                 \/ StorePending(r) \/ QueueMail(r) \/ Compare(r) \/ DelOtp(r) \/ DelCount(r)
                 \/ ReadPending(r) \/ DelPending(r)
                 \/ ChangePassword(r) \/ ConfirmReset(r) \/ RequestFails(r)
          PROVE  account' = account
      BY <2>5 DEF Register, Reset, Incr, Expire, StoreOtp, StorePending, QueueMail, Compare,
                  DelOtp, DelCount, ReadPending, DelPending, ChangePassword, ConfirmReset,
                  RequestFails
    <2>6. ASSUME NEW r \in Request, CreateUser(r) PROVE account' = account
      BY <1>1, <2>6 DEF CreateUser, Insert
    <2>7. ASSUME NEW r \in Request, WritePassword(r) PROVE account' = New
      BY <2>7 DEF WritePassword
    <2>8. QED
      BY <1>1, <2>1, <2>2, <2>3, <2>4, <2>5, <2>6, <2>7 DEF AccountsNext
  <1>2. [AccountsNext]_accountVars => [account # NoAccount => account' \in {account, New}]_account
    BY <1>1
  <1>3. QED
    BY <1>2, PTL DEF AccountsSpec, LateConfirmChangesNothing
-----------------------------------------------------------------------------
(* The mails of a window. A request is an event of its kind from the moment *)
(* it is counted; the token it stores takes its place.                      *)

MailKind == {"register", "reset"}
CounterFor(w) == IF w = "register" THEN RegisterCounter ELSE ResetCounter
AsksMail(x, w) == x.what = w /\ x.pc \in {"expire", "store"}

Event == ({"request"} \X Request) \cup ({"token"} \X TokenId)
AgeOf(e) == IF e[1] = "request" THEN request[e[2]].age ELSE age[e[2]]
Happened(w, e) == IF e[1] = "request" THEN AsksMail(request[e[2]], w) ELSE purpose[e[2]] = w
Young(w) == {e \in Event : Happened(w, e) /\ AgeOf(e) < Life(w)}

\* The young events are those counted before the counter began anew, which are
\* as old as the counter at least, and those it has counted.
Split(w, before) ==
    LET c == counter[CounterFor(w)]
    IN  /\ Cardinality(before) <= MaxRequests
        /\ Cardinality(Young(w) \ before) <= MaxRequests
        /\ Cardinality(Young(w) \ before) <= c.n
        /\ c.left > 0 => \A e \in before : AgeOf(e) >= Life(w) - c.left

\* A counter waits for its EXPIRE, of one request, from the first INCR.
OneExpires(w) ==
    \A r \in Request : request[r].what = w /\ request[r].pc = "expire" =>
        /\ counter[CounterFor(w)].left = Forever
        /\ \A i \in Request : request[i].what = w /\ request[i].pc = "expire" => i = r

Windows(w) == OneExpires(w) /\ \E before \in SUBSET Young(w) : Split(w, before)

LEMMA EventsFinite == IsFiniteSet(Event)
  <1>1. IsFiniteSet(Request) /\ IsFiniteSet({"request"}) /\ IsFiniteSet({"token"})
    BY FS_Singleton, AccountsAssumption
  <1>0. IsFiniteSet(TokenId)
    <2>1. 1 \in Int /\ Tokens \in Int
      BY AccountsAssumption
    <2>2. QED
      BY <2>1, FS_Interval DEF TokenId
  <1>2. IsFiniteSet({"request"} \X Request) /\ IsFiniteSet({"token"} \X TokenId)
    BY <1>0, <1>1, FS_Product
  <1>3. QED
    BY <1>2, FS_Union DEF Event

\* Some of the young events.
LEMMA SomeFinite ==
  ASSUME NEW w, NEW s \in SUBSET Young(w)
  PROVE  IsFiniteSet(s) /\ Cardinality(s) \in Nat
  <1>1. s \subseteq Event
    BY DEF Young
  <1>2. QED
    BY <1>1, EventsFinite, FS_Subset, FS_CardinalityType

LEMMA SomeFiniteNext ==
  ASSUME NEW w, NEW s \in SUBSET Young(w)'
  PROVE  IsFiniteSet(s) /\ Cardinality(s) \in Nat
  <1>1. s \subseteq Event
    BY DEF Young, Event
  <1>2. QED
    BY <1>1, EventsFinite, FS_Subset, FS_CardinalityType

LEMMA KindsCounted ==
  ASSUME IInv, NEW w \in MailKind
  PROVE  /\ CounterFor(w) \in Counter /\ CounterFor(w) \notin TokenId
         /\ \A v \in MailKind : CounterFor(v) = CounterFor(w) => v = w
         /\ counter[CounterFor(w)].n \in Nat /\ counter[CounterFor(w)].left \in Forever..ResetLife
         /\ counter[CounterFor(w)].n = 0 <=> counter[CounterFor(w)].left = 0
         /\ Life(w) \in Nat \ {0} /\ Life(w) <= ResetLife
  <1>1. CounterFor(w) \in {RegisterCounter, ResetCounter} /\ RegisterCounter # ResetCounter
    BY DEF CounterFor, RegisterCounter, ResetCounter
  <1>2. CounterFor(w) \in Counter
    BY <1>1 DEF Counter
  <1>3. CounterFor(w) \notin TokenId
    BY ONLY <1>1, AccountsAssumption DEF RegisterCounter, ResetCounter, TokenId
  <1>4. \A v \in MailKind : CounterFor(v) = CounterFor(w) => v = w
    BY <1>1 DEF CounterFor, MailKind
  <1>5. Life(w) \in Nat \ {0} /\ Life(w) <= ResetLife
    BY AccountsAssumption DEF Life
  <1>6. QED
    BY <1>2, <1>3, <1>4, <1>5 DEF IInv, AccountsTypeOK

LEMMA AgesTyped ==
  ASSUME IInv, NEW e \in Event
  PROVE  AgeOf(e) \in Nat
  <1>1. AccountsTypeOK
    BY DEF IInv
  <1>2. CASE e \in {"request"} \X Request
    <2>1. request[e[2]] \in RequestType /\ e[1] = "request"
      BY <1>1, <1>2 DEF AccountsTypeOK
    <2>2. request[e[2]].age \in 0..ResetLife
      BY <2>1 DEF RequestType
    <2>3. QED
      BY <2>1, <2>2, AccountsAssumption DEF AgeOf
  <1>3. CASE e \in {"token"} \X TokenId
    <2>1. age[e[2]] \in 0..ResetLife /\ e[1] = "token"
      BY <1>1, <1>3 DEF AccountsTypeOK
    <2>2. QED
      BY <2>1, AccountsAssumption DEF AgeOf
  <1>4. QED
    BY <1>2, <1>3 DEF Event

\* No event is new, and those before the counter began are as old as it still.
LEMMA NoneNew ==
  ASSUME NEW w \in MailKind, IInv, IInv', NEW before \in SUBSET Young(w), Split(w, before),
         Young(w)' \subseteq Young(w),
         counter'[CounterFor(w)].n >= counter[CounterFor(w)].n,
         counter'[CounterFor(w)].left > 0 =>
            \A e \in before \cap Young(w)' : AgeOf(e)' >= Life(w) - counter'[CounterFor(w)].left
  PROVE  \E s \in SUBSET Young(w)' : Split(w, s)'
  <1>0. PICK now : now = Young(w)'
    OBVIOUS
  <1> DEFINE s == before \cap now
  <1>1. s \in SUBSET now /\ s \subseteq before /\ now \ s \subseteq Young(w) \ before
    BY <1>0
  <1>2. Cardinality(s) <= Cardinality(before) /\ Cardinality(s) \in Nat /\ Cardinality(before) \in Nat
    BY <1>0, <1>1, SomeFinite, SomeFiniteNext, FS_Subset
  <1>3. /\ Cardinality(now \ s) <= Cardinality(Young(w) \ before)
        /\ Cardinality(now \ s) \in Nat /\ Cardinality(Young(w) \ before) \in Nat
    <2>1. Young(w) \ before \in SUBSET Young(w) /\ now \ s \in SUBSET now
      OBVIOUS
    <2>2. QED
      BY <1>0, <1>1, <2>1, SomeFinite, SomeFiniteNext, FS_Subset
  <1>4. /\ Cardinality(before) <= MaxRequests
        /\ Cardinality(Young(w) \ before) <= MaxRequests
        /\ Cardinality(Young(w) \ before) <= counter[CounterFor(w)].n
    BY DEF Split
  <1>5. /\ counter[CounterFor(w)].n \in Nat /\ counter'[CounterFor(w)].n \in Nat
        /\ MaxRequests \in Nat
    <2>1. CounterFor(w) \in Counter
      BY KindsCounted
    <2>2. AccountsTypeOK /\ AccountsTypeOK'
      BY DEF IInv
    <2>3. QED
      BY <2>1, <2>2, AccountsAssumption DEF AccountsTypeOK
  <1>6. /\ Cardinality(s) <= MaxRequests
        /\ Cardinality(now \ s) <= MaxRequests
        /\ Cardinality(now \ s) <= counter'[CounterFor(w)].n
    <2> DEFINE a == Cardinality(s)
               b == Cardinality(now \ s)
               c == Cardinality(before)
               d == Cardinality(Young(w) \ before)
               n == counter[CounterFor(w)].n
               m == counter'[CounterFor(w)].n
    <2>1. /\ a \in Nat /\ b \in Nat /\ c \in Nat /\ d \in Nat /\ n \in Nat /\ m \in Nat
          /\ MaxRequests \in Nat /\ a <= c /\ b <= d /\ c <= MaxRequests /\ d <= MaxRequests
          /\ d <= n /\ m >= n
      BY <1>2, <1>3, <1>4, <1>5
    <2> HIDE DEF a, b, c, d, n, m
    <2>2. a <= MaxRequests /\ b <= MaxRequests /\ b <= m
      BY ONLY <2>1
    <2>3. QED
      BY <2>2 DEF a, b, m
  <1>7. Split(w, s)'
    <2>1. CounterFor(w)' = CounterFor(w) /\ Life(w)' = Life(w)
      BY DEF CounterFor, Life
    <2> HIDE DEF s
    <2>2. s \subseteq before \cap now
      BY DEF s
    <2>3. QED
      BY <1>0, <1>6, <2>1, <2>2 DEF Split
  <1>8. QED
    BY <1>0, <1>1, <1>7

\* The counter expires: what it counted are the events before the next one.
LEMMA AllBefore ==
  ASSUME NEW w \in MailKind, IInv', NEW before \in SUBSET Young(w), Split(w, before),
         Young(w)' \subseteq Young(w) \ before, counter'[CounterFor(w)].left = 0,
         counter'[CounterFor(w)].n = 0
  PROVE  \E s \in SUBSET Young(w)' : Split(w, s)'
  <1>0. PICK now : now = Young(w)'
    OBVIOUS
  <1>1. now \subseteq Young(w) \ before /\ Young(w) \ before \in SUBSET Young(w)
    BY <1>0
  <1>2. Cardinality(now) <= MaxRequests
    <2>1. /\ Cardinality(now) <= Cardinality(Young(w) \ before)
          /\ Cardinality(now) \in Nat /\ Cardinality(Young(w) \ before) \in Nat
      BY <1>0, <1>1, SomeFinite, SomeFiniteNext, FS_Subset
    <2>2. Cardinality(Young(w) \ before) <= MaxRequests /\ MaxRequests \in Nat
      BY AccountsAssumption DEF Split
    <2>3. QED
      BY ONLY <2>1, <2>2
  <1>3. now \ now = {} /\ Cardinality({}) = 0
    BY FS_EmptySet
  <1>4. CounterFor(w)' = CounterFor(w)
    BY DEF CounterFor
  <1>5. 0 <= MaxRequests
    BY AccountsAssumption
  <1>6. Split(w, now)'
    BY <1>0, <1>2, <1>3, <1>4, <1>5 DEF Split
  <1>7. QED
    BY <1>0, <1>6

\* A request is counted.
LEMMA OneMore ==
  ASSUME NEW w \in MailKind, IInv, IInv', NEW before \in SUBSET Young(w), Split(w, before),
         NEW e, Young(w)' \subseteq Young(w) \cup {e}, Young(w) \subseteq Young(w)',
         \A a \in before : AgeOf(a)' = AgeOf(a),
         counter'[CounterFor(w)].n = counter[CounterFor(w)].n + 1,
         counter'[CounterFor(w)].n <= MaxRequests,
         counter'[CounterFor(w)].left \in {Forever, counter[CounterFor(w)].left}
  PROVE  \E s \in SUBSET Young(w)' : Split(w, s)'
  <1>0. PICK now : now = Young(w)'
    OBVIOUS
  <1>1. now \ before \subseteq (Young(w) \ before) \cup {e} /\ before \subseteq now
        /\ now \ before \in SUBSET now /\ Young(w) \ before \in SUBSET Young(w)
    BY <1>0
  <1>2. counter[CounterFor(w)].n \in Nat /\ MaxRequests \in Nat
    BY KindsCounted, AccountsAssumption
  <1>3. Cardinality(now \ before) <= counter'[CounterFor(w)].n
    <2> DEFINE d == Young(w) \ before
               n == counter[CounterFor(w)].n
    <2>1. IsFiniteSet(d) /\ Cardinality(d) \in Nat /\ Cardinality(d) <= n
      BY <1>1, SomeFinite DEF Split
    <2>2. IsFiniteSet(d \cup {e}) /\ Cardinality(d \cup {e}) \in {Cardinality(d), Cardinality(d) + 1}
      <3> HIDE DEF d
      <3>1. QED
        BY <2>1, FS_AddElement
    <2>3. Cardinality(now \ before) <= Cardinality(d \cup {e}) /\ Cardinality(now \ before) \in Nat
      BY <1>0, <1>1, <2>2, FS_Subset, SomeFiniteNext
    <2>4. n \in Nat /\ counter'[CounterFor(w)].n = n + 1
      BY <1>2
    <2> HIDE DEF d, n
    <2>5. QED
      BY <2>1, <2>2, <2>3, <2>4
  <1>4. Cardinality(now \ before) <= MaxRequests
    <2>1. Cardinality(now \ before) \in Nat /\ counter'[CounterFor(w)].n \in Nat
      BY <1>0, <1>1, <1>2, SomeFiniteNext
    <2>2. QED
      BY <1>2, <1>3, <2>1
  <1>5. CounterFor(w)' = CounterFor(w) /\ Life(w)' = Life(w)
    BY DEF CounterFor, Life
  <1>6. counter'[CounterFor(w)].left > 0 =>
           \A a \in before : AgeOf(a)' >= Life(w) - counter'[CounterFor(w)].left
    BY DEF Split, Forever
  <1>7. Cardinality(before) <= MaxRequests
    BY DEF Split
  <1>8. Split(w, before)'
    BY <1>0, <1>3, <1>4, <1>5, <1>6, <1>7 DEF Split
  <1>9. QED
    BY <1>0, <1>1, <1>8

\* An event takes the place of another, of the same age.
LEMMA OneForAnother ==
  ASSUME NEW w \in MailKind, IInv, IInv', NEW before \in SUBSET Young(w), Split(w, before),
         NEW a, NEW b, Young(w)' \subseteq (Young(w) \ {a}) \cup {b}, b \notin Young(w),
         b \in Young(w)' => a \in Young(w) /\ AgeOf(b)' = AgeOf(a),
         \A e \in before \ {a} : e \in Young(w)' /\ AgeOf(e)' = AgeOf(e),
         counter' = counter
  PROVE  \E s \in SUBSET Young(w)' : Split(w, s)'
  <1>0. PICK now : now = Young(w)'
    OBVIOUS
  <1> DEFINE s == (before \ {a}) \cup (IF a \in before /\ b \in now THEN {b} ELSE {})
             d == Young(w) \ before
  <1>1. s \subseteq now /\ now \ s \in SUBSET now /\ d \in SUBSET Young(w)
    BY <1>0
  <1>2. IsFiniteSet(before) /\ IsFiniteSet(d) /\ Cardinality(before) \in Nat /\ Cardinality(d) \in Nat
    BY <1>1, SomeFinite
  <1>3. Cardinality(s) \in Nat /\ Cardinality(now \ s) \in Nat
    BY <1>0, <1>1, SomeFiniteNext
  <1>4. Cardinality(s) <= Cardinality(before)
    <2>1. CASE a \in before /\ b \in now
      <3>1. s = (before \ {a}) \cup {b} /\ b \notin before \ {a}
        BY <2>1
      <3>2. IsFiniteSet(before \ {a}) /\ Cardinality(before \ {a}) = Cardinality(before) - 1
        BY <1>2, <2>1, FS_RemoveElement
      <3>3. Cardinality((before \ {a}) \cup {b}) = Cardinality(before \ {a}) + 1
        BY <3>1, <3>2, FS_AddElement
      <3> HIDE DEF s
      <3>4. QED
        BY <1>2, <3>1, <3>2, <3>3
    <2>2. CASE ~(a \in before /\ b \in now)
      <3>1. s \subseteq before
        BY <2>2
      <3> HIDE DEF s
      <3>2. QED
        BY <1>2, <3>1, FS_Subset
    <2>3. QED
      BY <2>1, <2>2
  <1>5. Cardinality(now \ s) <= Cardinality(d)
    <2>1. CASE a \in before \/ b \notin now
      <3>1. now \ s \subseteq d
        BY <1>0, <2>1
      <3> HIDE DEF s, d
      <3>2. QED
        BY <1>2, <3>1, FS_Subset
    <2>2. CASE a \notin before /\ b \in now
      <3>1. now \ s \subseteq (d \ {a}) \cup {b} /\ a \in d /\ b \notin d \ {a}
        BY <1>0, <2>2
      <3> HIDE DEF s, d
      <3>2. IsFiniteSet(d \ {a}) /\ Cardinality(d \ {a}) = Cardinality(d) - 1
        BY <1>2, <3>1, FS_RemoveElement
      <3>3. /\ Cardinality((d \ {a}) \cup {b}) = Cardinality(d \ {a}) + 1
            /\ IsFiniteSet((d \ {a}) \cup {b})
        BY <3>1, <3>2, FS_AddElement
      <3>4. Cardinality(now \ s) <= Cardinality((d \ {a}) \cup {b})
        BY <3>1, <3>3, FS_Subset
      <3>5. QED
        BY <1>2, <1>3, <3>2, <3>3, <3>4
    <2>3. QED
      BY <2>1, <2>2
  <1>6. /\ Cardinality(before) <= MaxRequests /\ Cardinality(d) <= MaxRequests
        /\ Cardinality(d) <= counter[CounterFor(w)].n
    BY DEF Split
  <1>7. counter[CounterFor(w)].n \in Nat /\ MaxRequests \in Nat
    BY KindsCounted, AccountsAssumption
  <1>8. /\ Cardinality(s) <= MaxRequests /\ Cardinality(now \ s) <= MaxRequests
        /\ Cardinality(now \ s) <= counter[CounterFor(w)].n
    <2> HIDE DEF s, d
    <2>1. QED
      BY <1>2, <1>3, <1>4, <1>5, <1>6, <1>7
  <1>9. counter[CounterFor(w)].left > 0 =>
           \A e \in s : AgeOf(e)' >= Life(w) - counter[CounterFor(w)].left
    <2> SUFFICES ASSUME counter[CounterFor(w)].left > 0, NEW e \in s
                 PROVE  AgeOf(e)' >= Life(w) - counter[CounterFor(w)].left
      OBVIOUS
    <2>1. \A i \in before : AgeOf(i) >= Life(w) - counter[CounterFor(w)].left
      BY DEF Split
    <2>2. CASE e \in before \ {a}
      BY <2>1, <2>2
    <2>3. CASE e = b /\ a \in before /\ b \in now
      BY <1>0, <2>1, <2>3
    <2>4. QED
      BY <2>2, <2>3
  <1>10. CounterFor(w)' = CounterFor(w) /\ Life(w)' = Life(w)
    BY DEF CounterFor, Life
  <1> HIDE DEF s, d
  <1>11. Split(w, s)'
    BY <1>0, <1>8, <1>9, <1>10 DEF Split
  <1>12. QED
    BY <1>0, <1>1, <1>11

-----------------------------------------------------------------------------
(* The steps, as seen by the mails of one kind.                            *)

Still(w) ==
    /\ \A i \in Request : AsksMail(request'[i], w) =>
          /\ AsksMail(request[i], w) /\ request'[i].age = request[i].age
          /\ request'[i].pc = "expire" => request[i].pc = "expire"
    /\ \A k \in TokenId : purpose'[k] = w => purpose[k] = w /\ age'[k] = age[k]
    /\ counter'[CounterFor(w)] = counter[CounterFor(w)]

LEMMA StillKept ==
  ASSUME NEW w \in MailKind, IInv, IInv', Windows(w), Still(w)
  PROVE  Windows(w)'
  <1>1. PICK before \in SUBSET Young(w) : Split(w, before)
    BY DEF Windows
  <1>2. ASSUME NEW e \in Young(w)'
        PROVE  e \in Young(w) /\ AgeOf(e)' = AgeOf(e)
    <2>1. e \in Event /\ Happened(w, e)' /\ AgeOf(e)' < Life(w)
      BY DEF Young, Event, Life
    <2>2. CASE e \in {"request"} \X Request
      <3>1. e[1] = "request" /\ e[2] \in Request
        BY <2>2
      <3>2. AsksMail(request'[e[2]], w) /\ AgeOf(e)' = request'[e[2]].age
        BY <2>1, <3>1 DEF Happened, AgeOf, AsksMail
      <3>3. AsksMail(request[e[2]], w) /\ request'[e[2]].age = request[e[2]].age
        BY <3>1, <3>2 DEF Still
      <3>4. QED
        BY <2>1, <3>1, <3>2, <3>3 DEF Young, Happened, AgeOf
    <2>3. CASE e \in {"token"} \X TokenId
      <3>1. e[1] # "request" /\ e[2] \in TokenId
        BY <2>3
      <3>2. purpose'[e[2]] = w /\ AgeOf(e)' = age'[e[2]]
        BY <2>1, <3>1 DEF Happened, AgeOf
      <3>3. purpose[e[2]] = w /\ age'[e[2]] = age[e[2]]
        BY <3>1, <3>2 DEF Still
      <3>4. QED
        BY <2>1, <3>1, <3>2, <3>3 DEF Young, Happened, AgeOf
    <2>4. QED
      BY <2>1, <2>2, <2>3 DEF Event
  <1>3. counter'[CounterFor(w)] = counter[CounterFor(w)] /\ counter[CounterFor(w)].n \in Nat
    BY KindsCounted DEF Still
  <1>4. counter'[CounterFor(w)].left > 0 =>
           \A e \in before \cap Young(w)' : AgeOf(e)' >= Life(w) - counter'[CounterFor(w)].left
    BY <1>1, <1>2, <1>3 DEF Split
  <1>5. Young(w)' \subseteq Young(w) /\ counter'[CounterFor(w)].n >= counter[CounterFor(w)].n
    BY <1>2, <1>3
  <1>6. \E s \in SUBSET Young(w)' : Split(w, s)'
    BY <1>1, <1>4, <1>5, NoneNew
  <1>7. OneExpires(w)'
    <2>1. OneExpires(w) /\ CounterFor(w)' = CounterFor(w)
      BY DEF Windows, CounterFor
    <2>2. ASSUME NEW i \in Request, request'[i].what = w, request'[i].pc = "expire"
          PROVE  request[i].what = w /\ request[i].pc = "expire"
      BY <2>2 DEF Still, AsksMail
    <2>3. QED
      BY <1>3, <2>1, <2>2 DEF OneExpires
  <1>8. QED
    BY <1>6, <1>7 DEF Windows

\* Most steps neither count a request nor store a token.
LEMMA Elsewhere ==
  ASSUME NEW w \in MailKind,
         \A i \in Request : request'[i] = request[i] \/ request'[i].pc \notin {"expire", "store"},
         UNCHANGED <<purpose, age>>, counter'[CounterFor(w)] = counter[CounterFor(w)]
  PROVE  Still(w)
  BY DEF Still, AsksMail

LEMMA StepsElsewhere ==
  ASSUME IInv, NEW w \in MailKind, NEW r \in Request,
         \/ Register(r) \/ Reset(r) \/ ChangePassword(r) \/ ConfirmReset(r)
         \/ \E k \in TokenId, what \in {"confirm", "verify"}, right \in BOOLEAN :
               Validate(r, k, what, right)
         \/ QueueMail(r) \/ WritePassword(r) \/ RequestFails(r)
         \/ StorePending(r) \/ Compare(r) \/ DelOtp(r) \/ DelCount(r)
         \/ ReadPending(r) \/ CreateUser(r) \/ DelPending(r)
  PROVE  Still(w)
  <1>1. request \in [Request -> RequestType]
    BY AnyRequest
  <1>2. \A x : Becomes(r, x) => \A i \in Request : request'[i] = IF i = r THEN x ELSE request[i]
    BY <1>1 DEF Becomes
  <1> DEFINE Away == \A i \in Request : \/ request'[i] = request[i]
                                        \/ request'[i].pc \notin {"expire", "store"}
  <1>3. ASSUME NEW pc \in {"incr", "write"}, NEW what, NEW k, NEW right, Begin(r, pc, what, k, right)
        PROVE  Away
    <2>1. Req(pc, what, k, right, 0).pc = pc
      BY DEF Req
    <2>2. QED
      BY <1>2, <2>1, <1>3 DEF Begin
  <1>4. ASSUME Over(r) PROVE Away
    <2>1. NoRequest.pc = "idle"
      BY DEF NoRequest, Req
    <2>2. QED
      BY <1>2, <1>4, <2>1 DEF Over
  <1>5. ASSUME NEW pc, pc \notin {"expire", "store"}, To(r, pc) PROVE Away
    <2>1. PICK x : Becomes(r, x) /\ x.pc = pc
      BY <1>5 DEF To, Req
    <2>2. QED
      BY <1>2, <1>5, <2>1
  <1>6. ASSUME request' = [i \in Request |-> NoRequest] PROVE Away
    BY <1>6 DEF NoRequest, Req
  <1>7. UNCHANGED <<purpose, age>>
    BY DEF Register, Reset, ChangePassword, ConfirmReset, Validate, QueueMail, WritePassword,
           RequestFails, StorePending, Compare, DelOtp, DelCount, ReadPending, CreateUser,
           DelPending, keys
  <1>8. counter'[CounterFor(w)] = counter[CounterFor(w)]
    <2>1. CASE DelCount(r)
      <3>1. request[r].token \in TokenId
        BY <2>1, AnyRequest DEF DelCount, In, Shape, WithToken
      <3>2. CounterFor(w) # request[r].token /\ CounterFor(w) \in Counter
        BY <3>1, KindsCounted
      <3>3. counter \in [Counter -> [n : Nat, left : Forever..ResetLife]]
        BY DEF IInv, AccountsTypeOK
      <3>4. QED
        BY <2>1, <3>2, <3>3 DEF DelCount
    <2>2. CASE ~DelCount(r)
      BY <2>2 DEF Register, Reset, ChangePassword, ConfirmReset, Validate, QueueMail,
                  WritePassword, RequestFails, StorePending, Compare, DelOtp, ReadPending,
                  CreateUser, DelPending
    <2>3. QED
      BY <2>1, <2>2
  <1>9. Away
    <2> HIDE DEF Away
    <2>1. CASE Register(r) \/ Reset(r) \/ ChangePassword(r) \/ ConfirmReset(r)
      BY <1>3, <2>1 DEF Register, Reset, ChangePassword, ConfirmReset
    <2>2. CASE \E k \in TokenId, what \in {"confirm", "verify"}, right \in BOOLEAN :
                  Validate(r, k, what, right)
      BY <1>3, <2>2 DEF Validate
    <2>3. CASE QueueMail(r) \/ WritePassword(r) \/ RequestFails(r)
      BY <1>4, <2>3 DEF QueueMail, WritePassword, RequestFails
    <2>4. CASE StorePending(r) \/ Compare(r) \/ DelOtp(r)
      BY <1>4, <1>5, <2>4 DEF StorePending, Compare, DelOtp
    <2>5. CASE DelCount(r) \/ ReadPending(r) \/ DelPending(r)
      BY <1>4, <1>5, <2>5 DEF DelCount, ReadPending, DelPending
    <2>6. CASE CreateUser(r)
      BY <1>4, <1>5, <1>6, <2>6 DEF CreateUser
    <2>7. QED
      BY <2>1, <2>2, <2>3, <2>4, <2>5, <2>6
  <1>10. QED
    BY <1>7, <1>8, <1>9, Elsewhere

LEMMA MovesTo ==
  ASSUME IInv, NEW r \in Request, NEW pc, To(r, pc)
  PROVE  /\ request'[r].pc = pc /\ request'[r].what = request[r].what
         /\ request'[r].age = request[r].age
         /\ \A i \in Request \ {r} : request'[i] = request[i]
  <1>1. request \in [Request -> RequestType]
    BY AnyRequest
  <1>2. PICK x : /\ Becomes(r, x) /\ x.pc = pc /\ x.what = request[r].what
                 /\ x.age = request[r].age
    BY DEF To, Req
  <1>3. QED
    BY <1>1, <1>2 DEF Becomes

\* A step of one request that stores no token: only that request's event is new.
LEMMA OnlyOf ==
  ASSUME NEW w \in MailKind, NEW r \in Request, UNCHANGED <<purpose, age>>,
         \A i \in Request \ {r} : request'[i] = request[i],
         AsksMail(request[r], w) => AsksMail(request'[r], w) /\ request'[r].age = request[r].age
  PROVE  /\ Young(w)' \subseteq Young(w) \cup {<<"request", r>>}
         /\ Young(w) \subseteq Young(w)'
         /\ \A e \in Young(w) : AgeOf(e)' = AgeOf(e)
         /\ AsksMail(request[r], w) => Young(w)' = Young(w)
  <1> DEFINE mine == <<"request", r>>
  <1>1. ASSUME NEW e \in Event, e # mine
        PROVE  /\ Happened(w, e)' <=> Happened(w, e)
               /\ Happened(w, e) => AgeOf(e)' = AgeOf(e)
    <2>1. CASE e \in {"request"} \X Request
      <3>1. e[1] = "request" /\ e[2] \in Request /\ e = <<"request", e[2]>>
        BY <2>1
      <3>2. e[2] # r
        BY <1>1, <3>1
      <3>3. request'[e[2]] = request[e[2]]
        BY <3>1, <3>2
      <3>4. QED
        BY <3>1, <3>3 DEF Happened, AgeOf, AsksMail
    <2>2. CASE e \in {"token"} \X TokenId
      <3>1. e[1] # "request"
        BY <2>2
      <3>2. QED
        BY <3>1 DEF Happened, AgeOf
    <2>3. QED
      BY <2>1, <2>2 DEF Event
  <1>2. /\ Happened(w, mine) <=> AsksMail(request[r], w)
        /\ Happened(w, mine)' <=> AsksMail(request'[r], w)
        /\ AgeOf(mine) = request[r].age /\ AgeOf(mine)' = request'[r].age
    BY DEF Happened, AgeOf, AsksMail
  <1> HIDE DEF mine
  <1>3. Happened(w, mine) => Happened(w, mine)' /\ AgeOf(mine)' = AgeOf(mine)
    BY <1>2
  <1>4. ASSUME NEW e \in Young(w)
        PROVE  e \in Young(w)' /\ AgeOf(e)' = AgeOf(e)
    <2>1. e \in Event /\ Happened(w, e) /\ AgeOf(e) < Life(w)
      BY DEF Young
    <2>2. Happened(w, e)' /\ AgeOf(e)' = AgeOf(e)
      BY <1>1, <1>3, <2>1
    <2>3. Life(w)' = Life(w) /\ Event' = Event
      BY DEF Life, Event
    <2>4. QED
      BY <2>1, <2>2, <2>3 DEF Young
  <1>5. ASSUME NEW e \in Young(w)', e # mine \/ AsksMail(request[r], w)
        PROVE  e \in Young(w)
    <2>1. Life(w)' = Life(w) /\ Event' = Event
      BY DEF Life, Event
    <2>2. e \in Event /\ Happened(w, e)' /\ AgeOf(e)' < Life(w)
      BY <2>1 DEF Young
    <2>3. Happened(w, e) /\ AgeOf(e)' = AgeOf(e)
      BY <1>1, <1>2, <1>3, <1>5, <2>2
    <2>4. QED
      BY <2>2, <2>3 DEF Young
  <1>6. QED
    BY <1>4, <1>5 DEF mine

LEMMA OtherCounters ==
  ASSUME IInv, NEW w \in MailKind, NEW r \in Request, request[r].pc \in {"incr", "expire"}
  PROVE  /\ request[r].what = w => Of(r) = CounterFor(w) /\ AsksForMail(r)
                                   /\ LimitOf(r) = MaxRequests
         /\ request[r].what # w => Of(r) # CounterFor(w)
  <1>1. CounterFor(w) \notin TokenId /\ RegisterCounter # ResetCounter
    BY KindsCounted DEF RegisterCounter, ResetCounter
  <1>2. CASE request[r].what \in Guess
    BY <1>1, <1>2, CounterOf DEF Guess, MailKind
  <1>3. CASE request[r].what \in MailKind
    BY <1>1, <1>3 DEF MailKind, Of, AsksForMail, LimitOf, CounterFor
  <1>4. QED
    BY <1>2, <1>3, CounterOf DEF MailKind

LEMMA CountingMails ==
  ASSUME IInv, IInv', NEW w \in MailKind, Windows(w), NEW r \in Request, Incr(r)
  PROVE  Windows(w)'
  <1> DEFINE c == counter[CounterFor(w)]
             c2 == counter'[CounterFor(w)]
             n == IF counter[Of(r)].n > LimitOf(r) THEN counter[Of(r)].n ELSE counter[Of(r)].n + 1
  <1>1. request[r].pc = "incr" /\ UNCHANGED <<purpose, age>> /\ ~AsksMail(request[r], w)
    BY DEF Incr, In, keys, AsksMail
  <1>2. counter \in [Counter -> [n : Nat, left : Forever..ResetLife]] /\ CounterFor(w) \in Counter
        /\ Of(r) \in Counter
    BY <1>1, CounterOf, KindsCounted DEF IInv, AccountsTypeOK
  <1>3. counter' = [counter EXCEPT ![Of(r)] = [n |-> n, left |-> IF n = 1 THEN Forever
                                                                   ELSE counter[Of(r)].left]]
        /\ \/ n = 1 /\ To(r, "expire")
           \/ n # 1 /\ n <= LimitOf(r) /\ To(r, Counted(r))
           \/ n # 1 /\ ~(n <= LimitOf(r)) /\ Over(r)
    BY DEF Incr, Passes
  <1>4. \A i \in Request \ {r} : request'[i] = request[i]
    BY <1>3, AnyRequest, MovesTo DEF Over, Becomes
  <1>5. Over(r) => request'[r] = NoRequest
    BY AnyRequest DEF Over, Becomes
  <1>6. NoRequest.pc = "idle" /\ NoRequest.what = "none"
    BY DEF NoRequest, Req
  <1>7. CASE request[r].what # w
    <2>1. c2 = c
      BY <1>1, <1>2, <1>3, <1>7, OtherCounters
    <2>2. request'[r].what # w
      BY <1>3, <1>5, <1>6, <1>7, MovesTo DEF MailKind
    <2>3. Still(w)
      BY <1>1, <1>4, <2>1, <2>2 DEF Still, AsksMail
    <2>4. QED
      BY <2>3, StillKept
  <1>8. CASE request[r].what = w
    <2>1. Of(r) = CounterFor(w) /\ LimitOf(r) = MaxRequests /\ Counted(r) = "store"
      BY <1>1, <1>8, OtherCounters DEF Counted
    <2>2. c2.n = n /\ c2.left = IF n = 1 THEN Forever ELSE c.left
      BY <1>2, <1>3, <2>1
    <2>3. n = IF c.n > MaxRequests THEN c.n ELSE c.n + 1
      BY <2>1
    <2>4. c.n \in Nat /\ c.left \in Int /\ MaxRequests \in Nat \ {0} /\ (c.n = 0 <=> c.left = 0)
      BY KindsCounted, AccountsAssumption DEF Forever
    <2> HIDE DEF n, c, c2
    <2>5. PICK before \in SUBSET Young(w) : Split(w, before)
      BY DEF Windows
    <2>6. /\ Young(w)' \subseteq Young(w) \cup {<<"request", r>>}
          /\ Young(w) \subseteq Young(w)'
          /\ \A e \in Young(w) : AgeOf(e)' = AgeOf(e)
      BY <1>1, <1>4, OnlyOf
    <2>7. CASE n <= MaxRequests
      <3>1. n = c.n + 1 /\ c2.left \in {Forever, c.left}
        BY <2>2, <2>3, <2>4, <2>7
      <3>2. \E s \in SUBSET Young(w)' : Split(w, s)'
        BY <2>2, <2>5, <2>6, <2>7, <3>1, OneMore DEF c, c2
      <3>3. request'[r].pc = "expire" <=> n = 1
        BY <1>3, <2>1, <2>7, MovesTo
      <3>4. OneExpires(w)'
        <4>1. CASE n = 1
          <5>1. c.left # Forever
            BY <2>4, <3>1, <4>1 DEF Forever
          <5>2. \A i \in Request : ~(request[i].what = w /\ request[i].pc = "expire")
            BY <5>1 DEF Windows, OneExpires, c
          <5>3. \A i \in Request : request'[i].what = w /\ request'[i].pc = "expire" => i = r
            BY <1>4, <5>2
          <5>4. c2.left = Forever /\ CounterFor(w)' = CounterFor(w)
            BY <2>2, <4>1 DEF CounterFor
          <5>5. QED
            BY <5>3, <5>4 DEF OneExpires, c2
        <4>2. CASE n # 1
          <5>1. c2.left = c.left /\ CounterFor(w)' = CounterFor(w)
            BY <2>2, <4>2 DEF CounterFor
          <5>2. \A i \in Request : request'[i].what = w /\ request'[i].pc = "expire" =>
                                      request[i].what = w /\ request[i].pc = "expire"
            BY <1>4, <3>3, <4>2
          <5>3. QED
            BY <5>1, <5>2 DEF Windows, OneExpires, c, c2
        <4>3. QED
          BY <4>1, <4>2
      <3>5. QED
        BY <3>2, <3>4 DEF Windows
    <2>8. CASE ~(n <= MaxRequests)
      <3>1. n # 1 /\ n >= c.n
        BY <2>3, <2>4, <2>8
      <3>2. request'[r].pc = "idle"
        BY <1>3, <1>5, <1>6, <2>1, <2>8, <3>1
      <3>3. \A i \in Request : \/ request'[i] = request[i]
                               \/ request'[i].pc \notin {"expire", "store"}
        BY <1>4, <3>2
      <3>4. Young(w)' \subseteq Young(w)
        <4>1. <<"request", r>> \notin Young(w)'
          BY <3>2 DEF Young, Happened, AsksMail
        <4>2. QED
          BY <2>6, <4>1
      <3>5. c2.left = c.left /\ c2.n >= c.n
        BY <2>2, <3>1
      <3>6. c2.left > 0 => \A e \in before \cap Young(w)' : AgeOf(e)' >= Life(w) - c2.left
        BY <2>5, <2>6, <3>5 DEF Split, c
      <3>7. \E s \in SUBSET Young(w)' : Split(w, s)'
        BY <2>5, <3>4, <3>5, <3>6, NoneNew DEF c, c2
      <3>8. OneExpires(w)'
        <4>1. CounterFor(w)' = CounterFor(w)
          BY DEF CounterFor
        <4>2. \A i \in Request : request'[i].pc = "expire" => request'[i] = request[i]
          BY <3>3
        <4>3. QED
          BY <3>5, <4>1, <4>2 DEF Windows, OneExpires, c, c2
      <3>9. QED
        BY <3>7, <3>8 DEF Windows
    <2>9. QED
      BY <2>7, <2>8
  <1>9. QED
    BY <1>7, <1>8

LEMMA ExpiringMails ==
  ASSUME IInv, IInv', NEW w \in MailKind, Windows(w), NEW r \in Request, Expire(r)
  PROVE  Windows(w)'
  <1> DEFINE c == counter[CounterFor(w)]
             c2 == counter'[CounterFor(w)]
  <1>1. request[r].pc = "expire" /\ UNCHANGED <<purpose, age>> /\ To(r, Counted(r))
    BY DEF Expire, In, keys
  <1>2. counter \in [Counter -> [n : Nat, left : Forever..ResetLife]] /\ CounterFor(w) \in Counter
        /\ Of(r) \in Counter
    BY <1>1, CounterOf, KindsCounted DEF IInv, AccountsTypeOK
  <1>3. /\ request'[r].pc = Counted(r) /\ request'[r].what = request[r].what
        /\ request'[r].age = request[r].age
        /\ \A i \in Request \ {r} : request'[i] = request[i]
    BY <1>1, MovesTo
  <1>4. CASE request[r].what # w
    <2>1. c2 = c
      BY <1>1, <1>2, <1>4, OtherCounters DEF Expire
    <2>2. Still(w)
      BY <1>1, <1>3, <1>4, <2>1 DEF Still, AsksMail
    <2>3. QED
      BY <2>2, StillKept
  <1>5. CASE request[r].what = w
    <2>1. Of(r) = CounterFor(w) /\ Counted(r) = "store"
      BY <1>1, <1>5, OtherCounters DEF Counted
    <2>2. c.left = Forever /\ \A i \in Request : request[i].what = w /\ request[i].pc = "expire" => i = r
      BY <1>1, <1>5 DEF Windows, OneExpires
    <2>3. c.n # 0
      BY <2>2, KindsCounted DEF Forever
    <2>4. c2.n = c.n /\ c2.left = Life(w)
      BY <1>2, <1>5, <2>1, <2>3 DEF Expire
    <2>5. AsksMail(request[r], w) /\ AsksMail(request'[r], w)
      BY <1>1, <1>3, <1>5, <2>1 DEF AsksMail
    <2>6. Young(w)' = Young(w)
      BY <1>1, <1>3, <2>5, OnlyOf
    <2>7. PICK before \in SUBSET Young(w) : Split(w, before)
      BY DEF Windows
    <2>8. \A e \in before \cap Young(w)' : AgeOf(e)' >= Life(w) - c2.left
      <3> SUFFICES ASSUME NEW e \in before PROVE AgeOf(e)' >= Life(w) - c2.left
        OBVIOUS
      <3>1. e \in Young(w)'
        BY <2>6
      <3>2. e \in Event
        BY DEF Young
      <3>3. AgeOf(e)' \in Nat
        <4>1. AgeOf(e) \in Nat /\ AgeOf(e)' = AgeOf(e)
          BY <1>1, <1>3, <2>5, <3>2, AgesTyped, OnlyOf
        <4>2. QED
          BY <4>1
      <3>4. QED
        BY <2>4, <3>3, KindsCounted
    <2>9. \E s \in SUBSET Young(w)' : Split(w, s)'
      <3>1. c.n \in Nat
        BY KindsCounted
      <3>2. QED
        BY <2>4, <2>6, <2>7, <2>8, <3>1, NoneNew
    <2>10. \A i \in Request : ~(request'[i].what = w /\ request'[i].pc = "expire")
      BY <1>3, <2>1, <2>2
    <2>11. OneExpires(w)'
      BY <2>10 DEF OneExpires
    <2>12. QED
      BY <2>9, <2>11 DEF Windows
  <1>6. QED
    BY <1>4, <1>5

LEMMA StoringMails ==
  ASSUME IInv, IInv', NEW w \in MailKind, Windows(w), NEW r \in Request, StoreOtp(r)
  PROVE  Windows(w)'
  <1>1. PICK k \in TokenId :
            /\ purpose[k] = "none"
            /\ purpose' = [purpose EXCEPT ![k] = request[r].what]
            /\ age' = [age EXCEPT ![k] = request[r].age]
            /\ LET next == IF request[r].what = "register" THEN "pend" ELSE "mail"
               IN  Becomes(r, Req(next, request[r].what, k, FALSE, 0))
    <2>1. \A k \in TokenId : (\A i \in TokenId : purpose[i] = "none" <=> i >= k) => purpose[k] = "none"
      BY DEF TokenId
    <2>2. QED
      BY <2>1 DEF StoreOtp
  <1>2. request[r].pc = "store" /\ counter' = counter
    BY DEF StoreOtp, In
  <1>3. /\ request'[r].pc \in {"pend", "mail"}
        /\ \A i \in Request \ {r} : request'[i] = request[i]
    BY <1>1, AnyRequest DEF Becomes, Req
  <1>4. /\ purpose'[k] = request[r].what /\ age'[k] = request[r].age
        /\ \A i \in TokenId \ {k} : purpose'[i] = purpose[i] /\ age'[i] = age[i]
    BY <1>1 DEF IInv, AccountsTypeOK
  <1>5. CASE request[r].what # w
    <2>1. Still(w)
      BY <1>2, <1>3, <1>4, <1>5 DEF Still, AsksMail
    <2>2. QED
      BY <2>1, StillKept
  <1>6. CASE request[r].what = w
    <2> DEFINE a == <<"request", r>>
               b == <<"token", k>>
    <2>1. PICK before \in SUBSET Young(w) : Split(w, before)
      BY DEF Windows
    <2>2. ASSUME NEW e \in Event, e # a, e # b
          PROVE  /\ Happened(w, e)' <=> Happened(w, e)
                 /\ AgeOf(e)' = AgeOf(e)
      <3>1. CASE e \in {"request"} \X Request
        <4>1. e[1] = "request" /\ e[2] \in Request /\ e = <<"request", e[2]>>
          BY <3>1
        <4>2. request'[e[2]] = request[e[2]]
          BY <1>3, <2>2, <4>1
        <4>3. QED
          BY <4>1, <4>2 DEF Happened, AgeOf, AsksMail
      <3>2. CASE e \in {"token"} \X TokenId
        <4>1. e[1] # "request" /\ e[2] \in TokenId /\ e = <<"token", e[2]>>
          BY <3>2
        <4>2. purpose'[e[2]] = purpose[e[2]] /\ age'[e[2]] = age[e[2]]
          BY <1>4, <2>2, <4>1
        <4>3. QED
          BY <4>1, <4>2 DEF Happened, AgeOf
      <3>3. QED
        BY <3>1, <3>2 DEF Event
    <2>3. a \in Event /\ b \in Event
      BY DEF Event
    <2>4. Happened(w, a) /\ AgeOf(a) = request[r].age /\ ~Happened(w, a)'
      BY <1>2, <1>3, <1>6 DEF Happened, AgeOf, AsksMail
    <2>5. ~Happened(w, b) /\ AgeOf(b)' = request[r].age
      BY <1>1, <1>4 DEF Happened, AgeOf, MailKind
    <2> HIDE DEF a, b
    <2>6. Life(w)' = Life(w) /\ Event' = Event
      BY DEF Life, Event
    <2>7. b \notin Young(w)
      BY <2>5 DEF Young
    <2>8. b \in Young(w)' => a \in Young(w) /\ AgeOf(b)' = AgeOf(a)
      BY <2>3, <2>4, <2>5, <2>6 DEF Young
    <2>9. Young(w)' \subseteq (Young(w) \ {a}) \cup {b}
      BY <2>2, <2>4, <2>6 DEF Young
    <2>10. \A e \in before \ {a} : e \in Young(w)' /\ AgeOf(e)' = AgeOf(e)
      <3> SUFFICES ASSUME NEW e \in before, e # a PROVE e \in Young(w)' /\ AgeOf(e)' = AgeOf(e)
        OBVIOUS
      <3>1. e \in Event /\ Happened(w, e) /\ AgeOf(e) < Life(w) /\ e # b
        BY <2>1, <2>7 DEF Young
      <3>2. Happened(w, e)' /\ AgeOf(e)' = AgeOf(e)
        BY <2>2, <3>1
      <3>3. QED
        BY <2>6, <3>1, <3>2 DEF Young
    <2>11. \E s \in SUBSET Young(w)' : Split(w, s)'
      BY <1>2, <2>1, <2>7, <2>8, <2>9, <2>10, OneForAnother
    <2>12. OneExpires(w)'
      <3>1. \A i \in Request : request'[i].pc = "expire" => request'[i] = request[i]
        BY <1>3
      <3>2. CounterFor(w)' = CounterFor(w)
        BY DEF CounterFor
      <3>3. QED
        BY <1>2, <3>1, <3>2 DEF Windows, OneExpires
    <2>13. QED
      BY <2>11, <2>12 DEF Windows
  <1>7. QED
    BY <1>5, <1>6

LEMMA TickingMails ==
  ASSUME IInv, IInv', NEW w \in MailKind, Windows(w), AccountsTick
  PROVE  Windows(w)'
  <1> DEFINE c == counter[CounterFor(w)]
             c2 == counter'[CounterFor(w)]
  <1>1. \A i \in Request : /\ request'[i].what = request[i].what /\ request'[i].pc = request[i].pc
                           /\ AsksMail(request[i], w) => request'[i].age = Older(request[i].age, w)
    <2> SUFFICES ASSUME NEW i \in Request
                 PROVE  /\ request'[i].what = request[i].what /\ request'[i].pc = request[i].pc
                        /\ AsksMail(request[i], w) => request'[i].age = Older(request[i].age, w)
      OBVIOUS
    <2>1. request[i] \in RequestType
      BY AnyRequest
    <2>2. request'[i] = IF request[i].pc \in {"expire", "store"} /\ AsksForMail(i)
                        THEN [request[i] EXCEPT !.age = Older(@, request[i].what)] ELSE request[i]
      BY DEF AccountsTick
    <2>3. AsksMail(request[i], w) => request[i].pc \in {"expire", "store"} /\ AsksForMail(i)
                                 /\ request[i].what = w
      BY DEF AsksMail, AsksForMail, MailKind
    <2>4. QED
      BY <2>1, <2>2, <2>3 DEF RequestType
  <1>2. \A k \in TokenId : /\ purpose'[k] = purpose[k]
                           /\ purpose[k] = w => age'[k] = Older(age[k], w)
    BY DEF AccountsTick, MailKind
  <1>3. ASSUME NEW e \in Event
        PROVE  /\ Happened(w, e)' <=> Happened(w, e)
               /\ Happened(w, e) => AgeOf(e)' = Older(AgeOf(e), w)
    <2>1. CASE e \in {"request"} \X Request
      <3>1. e[1] = "request" /\ e[2] \in Request
        BY <2>1
      <3>2. QED
        BY <1>1, <3>1 DEF Happened, AgeOf, AsksMail
    <2>2. CASE e \in {"token"} \X TokenId
      <3>1. e[1] # "request" /\ e[2] \in TokenId
        BY <2>2
      <3>2. QED
        BY <1>2, <3>1 DEF Happened, AgeOf
    <2>3. QED
      BY <2>1, <2>2 DEF Event
  <1>4. /\ Life(w) \in Nat /\ c.n \in Nat /\ c.left \in Forever..ResetLife
        /\ CounterFor(w) \in Counter
    BY KindsCounted
  <1>5. ASSUME NEW e \in Young(w)'
        PROVE  e \in Young(w) /\ AgeOf(e)' = AgeOf(e) + 1 /\ AgeOf(e)' < Life(w) /\ AgeOf(e) \in Nat
    <2>1. Life(w)' = Life(w) /\ Event' = Event
      BY DEF Life, Event
    <2>2. e \in Event /\ Happened(w, e)' /\ AgeOf(e)' < Life(w)
      BY <2>1 DEF Young
    <2>3. AgeOf(e) \in Nat /\ Happened(w, e) /\ AgeOf(e)' = Older(AgeOf(e), w)
      BY <1>3, <2>2, AgesTyped
    <2>4. AgeOf(e)' = AgeOf(e) + 1 /\ AgeOf(e) < Life(w)
      BY <1>4, <2>2, <2>3 DEF Older
    <2>5. QED
      BY <2>2, <2>3, <2>4 DEF Young
  <1>6. c2 = IF c.left = 1 THEN Zero ELSE [n |-> c.n, left |-> Less(c.left)]
    BY <1>4 DEF AccountsTick
  <1>7. PICK before \in SUBSET Young(w) : Split(w, before)
    BY DEF Windows
  <1>8. CounterFor(w)' = CounterFor(w)
    BY DEF CounterFor
  <1>9. CASE c.left = 1
    <2>1. c2.n = 0 /\ c2.left = 0
      BY <1>6, <1>9 DEF Zero
    <2>2. ASSUME NEW e \in Young(w)' PROVE e \in Young(w) \ before
      <3>1. e \in Young(w) /\ AgeOf(e)' = AgeOf(e) + 1 /\ AgeOf(e)' < Life(w) /\ AgeOf(e) \in Nat
        BY <1>5, <2>2
      <3>2. e \in before => AgeOf(e) >= Life(w) - 1
        BY <1>7, <1>9 DEF Split
      <3>3. QED
        BY <1>4, <3>1, <3>2
    <2>3. \E s \in SUBSET Young(w)' : Split(w, s)'
      BY <1>7, <2>1, <2>2, AllBefore
    <2>4. \A i \in Request : ~(request[i].what = w /\ request[i].pc = "expire")
      BY <1>9 DEF Windows, OneExpires, Forever
    <2>5. OneExpires(w)'
      BY <1>1, <2>4 DEF OneExpires
    <2>6. QED
      BY <2>3, <2>5 DEF Windows
  <1>10. CASE c.left # 1
    <2>1. c2.n = c.n /\ c2.left = Less(c.left)
      BY <1>6, <1>10
    <2>2. c.left \in Int
      BY <1>4, AccountsAssumption DEF Forever
    <2>3. c2.left > 0 => c.left > 0 /\ c2.left = c.left - 1
      BY <2>1, <2>2 DEF Less
    <2>4. ASSUME c2.left > 0, NEW e \in before \cap Young(w)'
          PROVE  AgeOf(e)' >= Life(w) - c2.left
      <3>1. AgeOf(e) >= Life(w) - c.left
        BY <1>7, <2>3, <2>4 DEF Split
      <3>2. AgeOf(e)' = AgeOf(e) + 1 /\ AgeOf(e) \in Nat
        BY <1>5, <2>4
      <3>3. c2.left = c.left - 1
        BY <2>3, <2>4
      <3> HIDE DEF c, c2
      <3>4. QED
        BY <1>4, <2>2, <3>1, <3>2, <3>3
    <2>5. Young(w)' \subseteq Young(w) /\ c2.n >= c.n
      BY <1>4, <1>5, <2>1
    <2>6. \E s \in SUBSET Young(w)' : Split(w, s)'
      BY <1>7, <2>4, <2>5, NoneNew
    <2>7. c.left = Forever => c2.left = Forever
      BY <2>1 DEF Less, Forever
    <2>8. OneExpires(w)'
      BY <1>1, <1>8, <2>7 DEF Windows, OneExpires
    <2>9. QED
      BY <2>6, <2>8 DEF Windows
  <1>11. QED
    BY <1>9, <1>10

LEMMA InitWindows == AccountsInit => \A w \in MailKind : Windows(w)
  <1> SUFFICES ASSUME AccountsInit, NEW w \in MailKind PROVE Windows(w)
    OBVIOUS
  <1>1. \A i \in Request : request[i].pc = "idle"
    BY DEF AccountsInit, NoRequest, Req
  <1>2. \A k \in TokenId : purpose[k] # w
    BY DEF AccountsInit, MailKind
  <1>3. ASSUME NEW e \in Event PROVE ~Happened(w, e)
    BY <1>1, <1>2 DEF Event, Happened, AsksMail
  <1>4. Young(w) = {}
    BY <1>3 DEF Young
  <1>5. Split(w, {})
    <2>1. IInv
      BY InitIInv
    <2>2. counter[CounterFor(w)].n \in Nat /\ MaxRequests \in Nat
      BY <2>1, KindsCounted, AccountsAssumption
    <2>3. Young(w) \ {} = {} /\ Cardinality({}) = 0
      BY <1>4, FS_EmptySet
    <2>4. QED
      BY <2>2, <2>3 DEF Split
  <1>6. OneExpires(w)
    BY <1>1 DEF OneExpires
  <1>7. QED
    BY <1>5, <1>6 DEF Windows

LEMMA NextWindows ==
  ASSUME IInv, [AccountsNext]_accountVars, NEW w \in MailKind, Windows(w)
  PROVE  Windows(w)'
  <1>1. IInv'
    BY NextIInv
  <1>2. CASE UNCHANGED accountVars
    <2>1. Still(w)
      BY <1>2 DEF accountVars, Still
    <2>2. QED
      BY <1>1, <2>1, StillKept
  <1>3. CASE AccountsTick
    BY <1>1, <1>3, TickingMails
  <1>4. ASSUME NEW k \in TokenId, SendMail(k) PROVE Windows(w)'
    <2>1. Still(w)
      BY <1>4 DEF SendMail, keys, Still
    <2>2. QED
      BY <1>1, <2>1, StillKept
  <1>5. ASSUME NEW r \in Request, Incr(r) PROVE Windows(w)'
    BY <1>1, <1>5, CountingMails
  <1>6. ASSUME NEW r \in Request, Expire(r) PROVE Windows(w)'
    BY <1>1, <1>6, ExpiringMails
  <1>7. ASSUME NEW r \in Request, StoreOtp(r) PROVE Windows(w)'
    BY <1>1, <1>7, StoringMails
  <1>8. ASSUME NEW r \in Request,
               \/ Register(r) \/ Reset(r) \/ ChangePassword(r) \/ ConfirmReset(r)
               \/ \E k \in TokenId, what \in {"confirm", "verify"}, right \in BOOLEAN :
                     Validate(r, k, what, right)
               \/ QueueMail(r) \/ WritePassword(r) \/ RequestFails(r)
               \/ StorePending(r) \/ Compare(r) \/ DelOtp(r) \/ DelCount(r)
               \/ ReadPending(r) \/ CreateUser(r) \/ DelPending(r)
        PROVE  Windows(w)'
    <2>1. Still(w)
      BY <1>8, StepsElsewhere
    <2>2. QED
      BY <1>1, <2>1, StillKept
  <1>9. QED
    BY <1>2, <1>3, <1>4, <1>5, <1>6, <1>7, <1>8 DEF AccountsNext

LEMMA WindowsLimit ==
  ASSUME IInv, \A w \in MailKind : Windows(w)
  PROVE  MailLimit
  <1> SUFFICES ASSUME NEW w \in MailKind
               PROVE  Cardinality({k \in TokenId : purpose[k] = w /\ age[k] < Life(w)})
                         <= 2 * MaxRequests
    BY DEF MailLimit, MailKind
  <1> DEFINE mailed == {k \in TokenId : purpose[k] = w /\ age[k] < Life(w)}
             f == [k \in mailed |-> <<"token", k>>]
  <1>1. PICK before \in SUBSET Young(w) : Split(w, before)
    BY DEF Windows
  <1>2. f \in Injection(mailed, Young(w))
    <2>1. ASSUME NEW k \in mailed PROVE <<"token", k>> \in Young(w)
      BY DEF Young, Event, Happened, AgeOf
    <2>2. QED
      BY <2>1 DEF Injection, IsInjective
  <1>3. IsFiniteSet(Young(w)) /\ Cardinality(Young(w)) \in Nat
    BY SomeFinite
  <1>4. IsFiniteSet(mailed) /\ Cardinality(mailed) <= Cardinality(Young(w))
    <2> HIDE DEF mailed, f
    <2>1. QED
      BY <1>2, <1>3, FS_Injection
  <1>5. Cardinality(mailed) \in Nat
    BY <1>4, FS_CardinalityType
  <1>6. /\ Cardinality(before) <= MaxRequests /\ Cardinality(Young(w) \ before) <= MaxRequests
        /\ MaxRequests \in Nat
    BY <1>1, AccountsAssumption DEF Split
  <1>7. /\ Cardinality(Young(w) \ before) = Cardinality(Young(w)) - Cardinality(Young(w) \cap before)
        /\ Young(w) \cap before = before /\ Cardinality(before) \in Nat
    BY <1>3, FS_Difference, SomeFinite
  <1> HIDE DEF mailed
  <1>8. Cardinality(mailed) <= 2 * MaxRequests
    BY <1>3, <1>4, <1>5, <1>6, <1>7
  <1>9. QED
    BY <1>8 DEF mailed

\* However registrations and resets overlap, fail between their calls or meet the
\* end of a window, no more than twice the limit of mails go out in the time of
\* one window (register, resetPassword and their counters).
THEOREM MailsLimited == AccountsSpec => []MailLimit
  <1> DEFINE Inv == IInv /\ \A w \in MailKind : Windows(w)
  <1>1. AccountsInit => Inv
    BY InitIInv, InitWindows
  <1>2. Inv /\ [AccountsNext]_accountVars => Inv'
    BY NextIInv, NextWindows DEF MailKind
  <1>3. Inv => MailLimit
    BY WindowsLimit
  <1>4. QED
    BY <1>1, <1>2, <1>3, PTL DEF AccountsSpec

\* The keys in Redis, the account and the requests of registration and passwords
\* keep their types.
THEOREM AccountsTyped == AccountsSpec => []AccountsTypeOK
  <1>1. IInv => AccountsTypeOK
    BY DEF IInv
  <1>2. QED
    BY <1>1, InitIInv, NextIInv, PTL DEF AccountsSpec
=============================================================================
