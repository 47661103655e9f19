------------------------------ MODULE Sessions ------------------------------
(***************************************************************************)
(* The login sessions of one user, over several devices.                   *)
(*                                                                         *)
(* Redis keeps refreshToken:<session> (the hash of the token last handed   *)
(* out), deviceSession:<user>:<device> and the sorted set                  *)
(* userDevices:<user>. Login, refresh and logout are handlers that await   *)
(* every Redis call, so requests interleave between any two of them; a     *)
(* pipeline is one step, and the API is one process with one connection.   *)
(*                                                                         *)
(* A token is its session and the second it was signed in: the JWT carries *)
(* no other nonce, and a hash is as good as the token. Requests refused    *)
(* before they reach Redis (password, status, CSRF, missing headers)       *)
(* change nothing and are left out; the scores of userDevices are its      *)
(* order.                                                                  *)
(***************************************************************************)
EXTENDS Integers, Sequences, FiniteSets, SequencesExt

CONSTANTS
    Device,
    Job,            \* requests that may be in progress at a time
    Sessions,       \* session ids are handed out from 1 to Sessions
    MaxDevices,     \* 5 in the code
    MaxClock,       \* bound on the seconds that pass
    RawHeader,      \* does logout get the whole header "Bearer <token>"
    None

ASSUME SessionsAssumption ==
    /\ Sessions \in Nat /\ MaxDevices \in Nat \ {0} /\ MaxClock \in Nat
    /\ RawHeader \in BOOLEAN /\ IsFiniteSet(Device)
    /\ None \notin Device \cup (1..Sessions) \cup ((1..Sessions) \X (0..MaxClock))

VARIABLES
    refreshToken,   \* per session: the token whose hash is stored, or None
    deviceSession,  \* per device: its session, or None
    userDevices,    \* the sorted set, oldest activity first
    cookie,         \* per device: the refresh token the client holds
    job,
    clock,
    issued,         \* session ids handed out so far
    rough           \* devices with overlapping or unanswered requests since
                    \* their last login (history)

vars == <<refreshToken, deviceSession, userDevices, cookie, job, clock, issued, rough>>
redis == <<refreshToken, deviceSession, userDevices>>
rest == <<clock, issued>>

SessionId == 1..Sessions
Token == SessionId \X (0..MaxClock)

Idle == [pc |-> "idle", device |-> None, token |-> None, n |-> 0,
         list |-> <<>>, old |-> None, sent |-> {}, alone |-> FALSE]

Init ==
    /\ refreshToken = [s \in SessionId |-> None]
    /\ deviceSession = [d \in Device |-> None]
    /\ userDevices = <<>>
    /\ cookie = [d \in Device |-> None]
    /\ job = [j \in Job |-> Idle]
    /\ clock = 0
    /\ issued = 0
    /\ rough = {}

-----------------------------------------------------------------------------
JobsOf(d) == {j \in Job : job[j].device = d}
Quiet == \A j \in Job : job[j] = Idle

\* A request starts: nobody else is alone any more.
Starts(j, r) ==
    /\ job[j] = Idle
    /\ job' = [i \in Job |-> IF i = j THEN [r EXCEPT !.alone = Quiet]
                             ELSE [job[i] EXCEPT !.alone = FALSE]]

Overlaps(d) == IF JobsOf(d) = {} THEN rough ELSE rough \cup {d}

\* ZREM: the order of the others stays.
Remaining(s, gone) ==
    LET kept[i \in 0..Len(s)] == IF i = 0 THEN <<>>
                                 ELSE IF s[i] \in gone THEN kept[i - 1]
                                 ELSE Append(kept[i - 1], s[i])
    IN  kept[Len(s)]

Without(d) == Remaining(userDevices, {d})

\* ZADD with the present time.
\* Mutant: the device is pushed to a list, which may hold it already.
Newest_Pushed(d) == Append(userDevices, d)
Newest(d) == Append(Without(d), d)

At(j, pc) == job[j].pc = pc
Goto(j, pc) == job' = [job EXCEPT ![j].pc = pc]
Ends(j) == job' = [job EXCEPT ![j] = Idle]

-----------------------------------------------------------------------------
(* login.                                                                  *)

\* The pipeline: three writes and the expiry. A session the device had before
\* loses its deviceSession key; its refreshToken key stays.
Login(j, d) ==
    /\ issued < Sessions
    /\ LET s == issued + 1
           t == <<s, clock>>
       IN  /\ Starts(j, [Idle EXCEPT !.pc = "count", !.device = d, !.token = t])
           /\ refreshToken' = [refreshToken EXCEPT ![s] = t]
           /\ deviceSession' = [deviceSession EXCEPT ![d] = s]
           /\ issued' = s
    /\ userDevices' = Newest(d)
    /\ rough' = IF JobsOf(d) = {} THEN rough \ {d} ELSE rough \cup {d}
    /\ UNCHANGED <<cookie, clock>>

LoginCounts(j) ==
    /\ At(j, "count")
    /\ LET n == Len(userDevices)
       IN  job' = [job EXCEPT ![j].n = n,
                              ![j].pc = IF n > MaxDevices THEN "range" ELSE "answer"]
    /\ UNCHANGED <<redis, cookie, rough, rest>>

\* zrange 0 .. count - 6: how many of the oldest devices go.
\* Mutant: one too many.
TooMany_OffByOne(n) == n - MaxDevices + 1
TooMany(n) == n - MaxDevices

\* The set may have changed since the count.
LoginRanges(j) ==
    /\ At(j, "range")
    /\ LET last == Min({TooMany(job[j].n), Len(userDevices)})
           oldest == SubSeq(userDevices, 1, last)
       IN  job' = [job EXCEPT ![j].list = oldest,
                              ![j].pc = IF oldest = <<>> THEN "answer" ELSE "old"]
    /\ UNCHANGED <<redis, cookie, rough, rest>>

LoginReadsOld(j) ==
    /\ At(j, "old")
    /\ job' = [job EXCEPT ![j].old = deviceSession[Head(job[j].list)],
                          ![j].pc = "evict"]
    /\ UNCHANGED <<redis, cookie, rough, rest>>

\* The pipeline object is used again for the next device, and sends what it has
\* sent before once more.
LoginEvicts(j) ==
    /\ At(j, "evict")
    /\ LET out == job[j].sent \cup {<<Head(job[j].list), job[j].old>>}
           more == Tail(job[j].list)
           gone == {x[1] : x \in out}
       IN  /\ refreshToken' = [s \in SessionId |-> IF \E x \in out : x[2] = s THEN None
                                                 ELSE refreshToken[s]]
           /\ deviceSession' = [d \in Device |-> IF d \in gone THEN None ELSE deviceSession[d]]
           /\ userDevices' = Remaining(userDevices, gone)
           /\ job' = [job EXCEPT ![j].list = more, ![j].old = None,
                                 ![j].sent = IF more = <<>> THEN {} ELSE out,
                                 ![j].pc = IF more = <<>> THEN "answer" ELSE "old"]
    /\ UNCHANGED <<cookie, rough, rest>>

\* The answer of a login or a refresh sets the cookie, unless it is lost.
Answer(j) ==
    /\ At(j, "answer")
    /\ LET d == job[j].device
       IN  \/ cookie' = [cookie EXCEPT ![d] = job[j].token] /\ rough' = rough
           \/ cookie' = cookie /\ rough' = rough \cup {d}
    /\ Ends(j)
    /\ UNCHANGED <<redis, rest>>

-----------------------------------------------------------------------------
(* refreshToken.                                                           *)

\* The cookie verifies and its hash is the stored one. Any other cookie is
\* answered 401 and changes nothing.
Refresh(j, d) ==
    /\ cookie[d] # None
    /\ refreshToken[cookie[d][1]] = cookie[d]
    /\ Starts(j, [Idle EXCEPT !.pc = "session", !.device = d, !.token = cookie[d]])
    /\ rough' = Overlaps(d)
    /\ UNCHANGED <<redis, cookie, rest>>

\* Mutant: the device needs a session, not this one.
RefreshChecksSession_Any(j) ==
    /\ At(j, "session")
    /\ IF deviceSession[job[j].device] # None THEN Goto(j, "delete") ELSE Ends(j)
    /\ UNCHANGED <<redis, cookie, rough, rest>>

RefreshChecksSession(j) ==
    /\ At(j, "session")
    /\ IF deviceSession[job[j].device] = job[j].token[1] THEN Goto(j, "delete") ELSE Ends(j)
    /\ UNCHANGED <<redis, cookie, rough, rest>>

\* Between this write and the next one the session has no token at all.
RefreshDeletes(j) ==
    /\ At(j, "delete")
    /\ refreshToken' = [refreshToken EXCEPT ![job[j].token[1]] = None]
    /\ job' = [job EXCEPT ![j].token = <<job[j].token[1], clock>>, ![j].pc = "store"]
    /\ UNCHANGED <<deviceSession, userDevices, cookie, rough, rest>>

\* Mutant: the hash stored is the one of the token of a second ago.
RefreshStores_Stale(j) ==
    /\ At(j, "store")
    /\ refreshToken' = [refreshToken EXCEPT ![job[j].token[1]] = cookie[job[j].device]]
    /\ Goto(j, "extend")
    /\ UNCHANGED <<deviceSession, userDevices, cookie, rough, rest>>

RefreshStores(j) ==
    /\ At(j, "store")
    /\ refreshToken' = [refreshToken EXCEPT ![job[j].token[1]] = job[j].token]
    /\ Goto(j, "extend")
    /\ UNCHANGED <<deviceSession, userDevices, cookie, rough, rest>>

\* Mutant: SET without XX.
RefreshExtends_NoXX(j) ==
    /\ At(j, "extend")
    /\ deviceSession' = [deviceSession EXCEPT ![job[j].device] = job[j].token[1]]
    /\ Goto(j, "list")
    /\ UNCHANGED <<refreshToken, userDevices, cookie, rough, rest>>

\* SET XX: the key must exist, whatever session it holds by now.
RefreshExtends(j) ==
    /\ At(j, "extend")
    /\ IF deviceSession[job[j].device] # None
       THEN /\ deviceSession' = [deviceSession EXCEPT ![job[j].device] = job[j].token[1]]
            /\ Goto(j, "list")
       ELSE /\ deviceSession' = deviceSession
            /\ Goto(j, "undo")
    /\ UNCHANGED <<refreshToken, userDevices, cookie, rough, rest>>

RefreshUndoes(j) ==
    /\ At(j, "undo")
    /\ refreshToken' = [refreshToken EXCEPT ![job[j].token[1]] = None]
    /\ Ends(j)
    /\ UNCHANGED <<deviceSession, userDevices, cookie, rough, rest>>

RefreshLists(j) ==
    /\ At(j, "list")
    /\ userDevices' = Newest(job[j].device)
    /\ Goto(j, "answer")
    /\ UNCHANGED <<refreshToken, deviceSession, cookie, rough, rest>>

-----------------------------------------------------------------------------
(* logout.                                                                 *)

Logout(j, d) ==
    /\ Starts(j, [Idle EXCEPT !.pc = "asked", !.device = d])
    /\ rough' = Overlaps(d)
    /\ UNCHANGED <<redis, cookie, rest>>

\* verifyToken refuses a text with a space in it, and so the whole header. A
\* device without a session is refused too.
LogoutReads(j) ==
    /\ At(j, "asked")
    /\ LET s == deviceSession[job[j].device]
       IN  IF RawHeader \/ s = None THEN Ends(j)
           ELSE job' = [job EXCEPT ![j].old = s, ![j].pc = "del token"]
    /\ UNCHANGED <<redis, cookie, rough, rest>>

LogoutDeletesToken(j) ==
    /\ At(j, "del token")
    /\ refreshToken' = [refreshToken EXCEPT ![job[j].old] = None]
    /\ job' = [job EXCEPT ![j].old = None, ![j].pc = "del session"]
    /\ UNCHANGED <<deviceSession, userDevices, cookie, rough, rest>>

\* Mutant: only the token goes.
LogoutDeletesSession_Keeps(j) ==
    /\ At(j, "del session")
    /\ Goto(j, "leave")
    /\ UNCHANGED <<redis, cookie, rough, rest>>

LogoutDeletesSession(j) ==
    /\ At(j, "del session")
    /\ deviceSession' = [deviceSession EXCEPT ![job[j].device] = None]
    /\ Goto(j, "leave")
    /\ UNCHANGED <<refreshToken, userDevices, cookie, rough, rest>>

\* ZREM, and the answer clears the cookie unless it is lost.
LogoutLeaves(j) ==
    /\ At(j, "leave")
    /\ LET d == job[j].device
       IN  /\ userDevices' = Without(d)
           /\ \/ cookie' = [cookie EXCEPT ![d] = None] /\ rough' = rough
              \/ cookie' = cookie /\ rough' = rough \cup {d}
    /\ Ends(j)
    /\ UNCHANGED <<refreshToken, deviceSession, rest>>

-----------------------------------------------------------------------------
(* The environment.                                                        *)

Tick ==
    /\ clock < MaxClock
    /\ clock' = clock + 1
    /\ UNCHANGED <<redis, cookie, job, issued, rough>>

\* The API process dies: its requests are never answered.
Crash ==
    /\ ~Quiet
    /\ rough' = rough \cup {d \in Device : JobsOf(d) # {}}
    /\ job' = [j \in Job |-> Idle]
    /\ UNCHANGED <<redis, cookie, rest>>

\* Seven days without a refresh: the keys of a device expire, after those of
\* the devices listed before it; the list expires with the newest of them.
Lapse(d) ==
    /\ Quiet
    /\ deviceSession[d] # None
    /\ \A i, k \in DOMAIN userDevices :
          i < k /\ userDevices[k] = d => deviceSession[userDevices[i]] = None
    /\ refreshToken' = [refreshToken EXCEPT ![deviceSession[d]] = None]
    /\ deviceSession' = [deviceSession EXCEPT ![d] = None]
    /\ cookie' = [cookie EXCEPT ![d] = None]
    /\ userDevices' = IF userDevices # <<>> /\ Last(userDevices) = d THEN <<>>
                      ELSE userDevices
    /\ UNCHANGED <<job, rough, rest>>

Proceed(j) ==
    \/ LoginCounts(j) \/ LoginRanges(j) \/ LoginReadsOld(j) \/ LoginEvicts(j)
    \/ RefreshChecksSession(j) \/ RefreshDeletes(j) \/ RefreshStores(j)
    \/ RefreshExtends(j) \/ RefreshUndoes(j) \/ RefreshLists(j)
    \/ LogoutReads(j) \/ LogoutDeletesToken(j) \/ LogoutDeletesSession(j)
    \/ LogoutLeaves(j) \/ Answer(j)

Next ==
    \/ \E j \in Job, d \in Device : Login(j, d) \/ Refresh(j, d) \/ Logout(j, d)
    \/ \E j \in Job : Proceed(j)
    \/ Tick \/ Crash \/ \E d \in Device : Lapse(d)

Spec == Init /\ [][Next]_vars

-----------------------------------------------------------------------------
Pc == {"idle", "count", "range", "old", "evict", "answer", "session", "delete",
       "store", "extend", "undo", "list", "asked", "del token", "del session", "leave"}

TypeOK ==
    /\ refreshToken \in [SessionId -> Token \cup {None}]
    /\ deviceSession \in [Device -> SessionId \cup {None}]
    /\ userDevices \in Seq(Device)
    /\ IsInjective(userDevices)
    /\ cookie \in [Device -> Token \cup {None}]
    /\ job \in [Job -> [pc : Pc, device : Device \cup {None}, token : Token \cup {None},
                        n : Nat, list : Seq(Device), old : SessionId \cup {None},
                        sent : SUBSET (Device \X (SessionId \cup {None})),
                        alone : BOOLEAN]]
    /\ clock \in 0..MaxClock
    /\ issued \in 0..Sessions
    /\ rough \subseteq Device

\* The device can refresh: it has a session, and the session has a token.
Usable(d) == deviceSession[d] # None /\ refreshToken[deviceSession[d]] # None

\* login keeps at most five devices signed in, whatever logins, refreshes and
\* logouts of the other devices run at the same time. Not counted: devices whose
\* own requests overlapped or were cut off, which may be missing from
\* userDevices, or whose login died before it evicted another.
DeviceLimit ==
    Quiet => Cardinality({d \in Device \ rough : Usable(d)}) <= MaxDevices

\* A login that runs alone is still signed in when it answers, as the newest
\* device, and evicted no device more than the limit asks for.
LoneLoginKeepsTheNewest ==
    \A j \in Job :
        At(j, "answer") /\ job[j].alone /\ job[j].n > 0 =>
            /\ Usable(job[j].device)
            /\ Last(userDevices) = job[j].device
            /\ Len(userDevices) = IF job[j].n > MaxDevices THEN MaxDevices ELSE job[j].n

\* The token a client holds is the one whose hash is stored, however logins,
\* refreshes and evictions of several devices interleave: a device that is
\* signed in can refresh. Overlapping requests of the one device, and lost
\* answers, are what can break it (rough).
CookieMatches ==
    \A d \in Device \ rough :
        JobsOf(d) = {} /\ Usable(d) => cookie[d] = refreshToken[deviceSession[d]]

\* Over: handed out, no device has it, and no refresh already past its check
\* carries it.
Ended(s) ==
    /\ s <= issued
    /\ \A d \in Device : deviceSession[d] # s
    /\ \A j \in Job : job[j].pc \in {"delete", "store", "extend"} => job[j].token[1] # s

\* A session that was logged out, evicted, replaced or has lapsed never comes
\* back, whatever cookie a client still presents; a refresh that had passed its
\* check before is the one exception.
EndedStaysEnded == [][\A s \in SessionId : Ended(s) => Ended(s)']_vars

\* When a logout is answered, the session of the device is over: 'Dang xuat
\* thanh cong, huy bo cac phien lam viec lien quan' (auth.controller.ts:129).
\* A device whose requests overlap is not counted: its other request may be a
\* login.
LogoutEnds ==
    [][\A j \in Job :
          LET d == job[j].device
          IN  job[j].pc \in {"asked", "leave"} /\ job'[j] = Idle
              /\ d \notin rough \cup rough' => deviceSession'[d] = None]_vars
=============================================================================
