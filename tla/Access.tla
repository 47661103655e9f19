------------------------------- MODULE Access -------------------------------
(***************************************************************************)
(* May a role do this? The permissions of a role are rows of               *)
(* rolepermission and a Redis set role:permissions:<role>; a Redis set     *)
(* without elements does not exist. PermissionsGuard asks for one          *)
(* permission at a time, and every Redis call and every query is a step of *)
(* its own.                                                                *)
(*                                                                         *)
(* One role: the keys of different roles have nothing to do with each      *)
(* other. SUPER_ADMIN and ADMIN pass the guard without a question.         *)
(***************************************************************************)
EXTENDS FiniteSets

CONSTANTS
    Permission,
    Check,          \* requests that wait for the guard at a time
    Assigner        \* requests that change the role at a time

ASSUME AccessAssumption == Permission # {}

VARIABLES
    role,           \* does the role exist
    granted,        \* its rows
    cached,         \* the Redis set, {} when there is no key
    check,
    assigner,
    tainted         \* someone may have put old rows into the cache (history)

accessVars == <<role, granted, cached, check, assigner, tainted>>

NoCheck == [pc |-> "done", perm |-> CHOOSE p \in Permission : TRUE, perms |-> {},
            answer |-> FALSE, clean |-> FALSE, filled |-> FALSE]
NoAssign == [pc |-> "idle", perms |-> {}]

\* The seed gives a role its name; an administrator gave it permissions since.
AccessInit ==
    /\ role = TRUE
    /\ granted \in SUBSET Permission
    /\ cached = {}
    /\ check = [c \in Check |-> NoCheck]
    /\ assigner = [a \in Assigner |-> NoAssign]
    /\ tainted = FALSE

Asks(c, pc) == check[c].pc = pc
Assigns(a, pc) == assigner[a].pc = pc
Filling(chk) == \E c \in Check : chk[c].pc = "fill"

\* An empty cache that nobody is about to fill is as good as new.
Taint(t) == tainted' = (t /\ (cached' # {} \/ Filling(check')))

-----------------------------------------------------------------------------
(* hasPermission, and getPermissionsByRoleId.                              *)

\* A check goes on, with the rows it holds and its answer.
Goes(chk, c, pc, rows, yes) ==
    [chk EXCEPT ![c] = [pc |-> pc, perm |-> @.perm, perms |-> rows, answer |-> yes,
                        clean |-> @.clean, filled |-> @.filled]]
Moves(c, pc) == check' = Goes(check, c, pc, {}, FALSE)
Answers(c, yes) == check' = Goes(check, c, "done", {}, yes)
CacheSame == cached' = cached /\ Taint(tainted)

\* getProfile asks for the whole set; p is any one of what it shows.
Ask(c, p) ==
    /\ Asks(c, "done")
    /\ \E first \in {"sismember", "smembers"} :
          check' = [check EXCEPT ![c] =
                       [pc |-> first, perm |-> p, perms |-> {}, answer |-> FALSE,
                        clean |-> ~tainted /\ \A a \in Assigner : ~Assigns(a, "clear"),
                        filled |-> FALSE]]
    /\ CacheSame
    /\ UNCHANGED <<role, granted, assigner>>

IsMember(c) ==
    /\ Asks(c, "sismember")
    /\ IF check[c].perm \in cached THEN Answers(c, TRUE) ELSE Moves(c, "exists")
    /\ CacheSame
    /\ UNCHANGED <<role, granted, assigner>>

\* Another request may have filled the cache since IsMember: the answer is then
\* no, whatever was filled in.
Exists(c) ==
    /\ Asks(c, "exists")
    /\ IF cached = {} THEN Moves(c, "smembers") ELSE Answers(c, FALSE)
    /\ CacheSame
    /\ UNCHANGED <<role, granted, assigner>>

\* Mutant: what is cached is taken for the answer even when it is nothing.
Members_EmptyIsAnswer(c) ==
    /\ Asks(c, "smembers")
    /\ Answers(c, check[c].perm \in cached)
    /\ CacheSame
    /\ UNCHANGED <<role, granted, assigner>>

Members(c) ==
    /\ Asks(c, "smembers")
    /\ IF cached # {} THEN Answers(c, check[c].perm \in cached) ELSE Moves(c, "db")
    /\ CacheSame
    /\ UNCHANGED <<role, granted, assigner>>

ReadRows(c) ==
    /\ Asks(c, "db")
    /\ IF granted = {} THEN Answers(c, FALSE)
       ELSE check' = Goes(check, c, "fill", granted, FALSE)
    /\ CacheSame
    /\ UNCHANGED <<role, granted, assigner>>

\* SADD adds to what is there by now, and the key gets a new expiry. When the
\* connection breaks it may have been added or not, and the rows are read again.
Fill(c) ==
    /\ Asks(c, "fill")
    /\ LET yes == check[c].perm \in check[c].perms
           told == [d \in Check |-> IF check[d].pc = "exists"
                                    THEN [check[d] EXCEPT !.filled = TRUE] ELSE check[d]]
       IN  /\ cached' = cached \cup check[c].perms
           /\ \/ check' = Goes(told, c, "done", {}, yes)
              \/ check' = Goes(told, c, "fallback", {}, FALSE)
    /\ Taint(tainted)
    /\ UNCHANGED <<role, granted, assigner>>

RedisFails(c) ==
    /\ check[c].pc \in {"sismember", "exists", "smembers", "fill"}
    /\ Moves(c, "fallback")
    /\ CacheSame
    /\ UNCHANGED <<role, granted, assigner>>

Fallback(c) ==
    /\ Asks(c, "fallback")
    /\ Answers(c, check[c].perm \in granted)
    /\ CacheSame
    /\ UNCHANGED <<role, granted, assigner>>

\* Two hours without a new fill.
CacheExpires ==
    /\ cached # {}
    /\ cached' = {}
    /\ UNCHANGED <<role, granted, check, assigner>>
    /\ Taint(tainted)

-----------------------------------------------------------------------------
(* assignPermissions, deleteRoleById.                                      *)

\* A check that overlaps a change of the rows may be answered either way.
Overlapped == [c \in Check |-> [check[c] EXCEPT !.clean = FALSE]]

Assign(a, S) ==
    /\ Assigns(a, "idle")
    /\ role
    /\ assigner' = [assigner EXCEPT ![a] = [pc |-> "save", perms |-> S]]
    /\ UNCHANGED <<role, granted, check>>
    /\ CacheSame

\* The transaction; the foreign key refuses a role deleted meanwhile, unless
\* there is nothing to insert.
SaveRows(a) ==
    /\ Assigns(a, "save")
    /\ IF role \/ assigner[a].perms = {}
       THEN /\ granted' = assigner[a].perms
            /\ assigner' = [assigner EXCEPT ![a] = [pc |-> "clear", perms |-> {}]]
            /\ check' = Overlapped
            /\ cached' = cached
            /\ Taint(tainted \/ Filling(check))
       ELSE /\ assigner' = [assigner EXCEPT ![a] = NoAssign]
            /\ UNCHANGED <<granted, check>>
            /\ CacheSame
    /\ UNCHANGED role

\* Mutant: the cache is not cleared.
ClearCache_Forgets(a) ==
    /\ Assigns(a, "clear")
    /\ assigner' = [assigner EXCEPT ![a] = NoAssign]
    /\ UNCHANGED <<role, granted, check>>
    /\ CacheSame

ClearCache(a) ==
    /\ Assigns(a, "clear")
    /\ assigner' = [assigner EXCEPT ![a] = NoAssign]
    /\ cached' = {}
    /\ UNCHANGED <<role, granted, check>>
    /\ Taint(tainted)

\* The error is logged and swallowed, or the process dies before the call.
ClearFails(a) ==
    /\ Assigns(a, "clear")
    /\ assigner' = [assigner EXCEPT ![a] = NoAssign]
    /\ cached' = cached
    /\ UNCHANGED <<role, granted, check>>
    /\ Taint(TRUE)

\* No user has the role any more (the foreign key refuses it otherwise); tokens
\* signed before still name it. The rows go by cascade, the cache stays.
DeleteRole ==
    /\ role
    /\ role' = FALSE
    /\ granted' = {}
    /\ check' = Overlapped
    /\ cached' = cached
    /\ Taint(TRUE)
    /\ UNCHANGED assigner

AccessNext ==
    \/ \E c \in Check :
          \/ \E p \in Permission : Ask(c, p)
          \/ IsMember(c) \/ Exists(c) \/ Members(c) \/ ReadRows(c) \/ Fill(c)
          \/ RedisFails(c) \/ Fallback(c)
    \/ CacheExpires
    \/ \E a \in Assigner :
          \/ \E S \in SUBSET Permission : Assign(a, S)
          \/ SaveRows(a) \/ ClearCache(a) \/ ClearFails(a)
    \/ DeleteRole

AccessSpec == AccessInit /\ [][AccessNext]_accessVars

-----------------------------------------------------------------------------
CheckType ==
    [pc : {"done", "sismember", "exists", "smembers", "db", "fill", "fallback"},
     perm : Permission, perms : SUBSET Permission,
     answer : BOOLEAN, clean : BOOLEAN, filled : BOOLEAN]

AccessTypeOK ==
    /\ role \in BOOLEAN
    /\ granted \subseteq Permission
    /\ cached \subseteq Permission
    /\ check \in [Check -> CheckType]
    /\ assigner \in [Assigner -> [pc : {"idle", "save", "clear"}, perms : SUBSET Permission]]
    /\ tainted \in BOOLEAN
    /\ ~role => granted = {}

\* Between an assignment's commit and its clearing the cache may be old; at any
\* other time what is cached is what was granted, unless a check was between its
\* query and its fill when an assignment was saved, a clearing failed, or the
\* role was deleted. Then the old permissions are served until the key expires.
CacheIsCurrent ==
    ~tainted /\ (\A a \in Assigner : ~Assigns(a, "clear")) => cached \in {{}, granted}

\* A check that no assignment overlaps, and that starts from a current cache,
\* is answered by the rows: it is never let through without the permission,
\* whatever the other checks read, fill and let expire meanwhile. It is refused
\* wrongly only when another check fills the cache between its two questions.
ChecksRight ==
    \A c \in Check :
        Asks(c, "done") /\ check[c].clean =>
            /\ check[c].answer => check[c].perm \in granted
            /\ check[c].perm \in granted /\ ~check[c].filled => check[c].answer
=============================================================================
