------------------------------ MODULE UserCache -----------------------------
(***************************************************************************)
(* Who a request is taken for: the users row of one user, the copy of it   *)
(* under the Redis key user:<id> that protect and the socket handshake     *)
(* read, and the handlers that change the row and invalidate the copy.     *)
(* One step per await; the tokens themselves are in Sessions.              *)
(*                                                                         *)
(* Time is a countdown in ticks.  A Redis command may fail; the code       *)
(* swallows the error and goes on.                                         *)
(***************************************************************************)
EXTENDS Naturals

CONSTANTS Calls,            \* requests being served at once
          UserBlacklistTTL, \* lifetime of bl:user, in ticks
          CacheTTL,         \* USER_CACHE_TTL
          RequestTime,      \* the longest a request takes
          MaxCacheFailures  \* bound: Redis commands that fail

ASSUME CacheTimesAssumption ==
    /\ {UserBlacklistTTL, CacheTTL, RequestTime} \subseteq Nat \ {0}
    /\ MaxCacheFailures \in Nat
    /\ RequestTime + CacheTTL <= UserBlacklistTTL

VARIABLES user,           \* role and isActive of the users row
          ban,            \* ticks bl:user:<id> has left
          cached,         \* the key user:<id>: the role it holds and its ticks left
          call,           \* the request in each slot
          cacheFailures,  \* Redis commands that failed
          lag,            \* history: ticks since the row changed, up to StaleFor
          shut            \* history: bl:user was set on an inactive account, still inactive

cacheVars == <<user, ban, cached, call, cacheFailures, lag, shut>>

Roles == {"pending", "rider", "driver"}

UserRow == [role : Roles, active : BOOLEAN]

\* Where a request stands: about to read the cache, the database, or to fill the cache;
\* admitted by protect; about to save a role, to set bl:user, to delete the cached row.
Places == {"idle", "load", "read", "fill", "admitted", "save_role", "block", "drop"}

Call == [at : Places, role : Roles, age : 0..RequestTime]

NoCall == [at |-> "idle", role |-> "pending", age |-> 0]

Start(p, place) == /\ call[p].at = "idle"
                   /\ call' = [call EXCEPT ![p].at = place]

Return(p) == call' = [call EXCEPT ![p] = NoCall]

\* Request p comes to place, knowing the user by role.
GoTo(p, place, role) == call' = [call EXCEPT ![p].at = place, ![p].role = role]

CacheAnswers == UNCHANGED cacheFailures
CacheFails == cacheFailures < MaxCacheFailures /\ cacheFailures' = cacheFailures + 1

\* A row read before a change is cached RequestTime later at the latest.
StaleFor == RequestTime + CacheTTL

\* The users row becomes row.
Save(row) == user' = row /\ lag' = IF row = user THEN lag ELSE 0

-----------------------------------------------------------------------------
CacheInit ==
    /\ user = [role |-> "pending", active |-> TRUE]
    /\ ban = 0
    /\ cached = [role |-> "pending", left |-> 0]
    /\ call = [p \in Calls |-> NoCall]
    /\ cacheFailures = 0
    /\ lag = StaleFor
    /\ shut = FALSE

(* protect, and the handshake of a socket *)

\* A request with a valid token of its own: isBlacklisted finds no bl:user, or fails.
Check(p) ==
    /\ \/ ban = 0 /\ CacheAnswers
       \/ CacheFails
    /\ Start(p, "load")
    /\ UNCHANGED <<user, ban, cached, lag, shut>>

\* getCachedUser.  Only rows of active users are cached, so isActive needs no field.
Load(p) ==
    /\ call[p].at = "load"
    /\ \/ /\ CacheAnswers
          /\ IF cached.left > 0 THEN GoTo(p, "admitted", cached.role)
                                ELSE GoTo(p, "read", "pending")
       \/ CacheFails /\ GoTo(p, "read", "pending")
    /\ UNCHANGED <<user, ban, cached, lag, shut>>

\* Mutant: the database is asked for the role only.
ReadRole(p) ==
    /\ call[p].at = "read"
    /\ GoTo(p, "fill", user.role)
    /\ UNCHANGED <<user, ban, cached, cacheFailures, lag, shut>>

\* A miss: the row is read from the database.
Read(p) ==
    /\ call[p].at = "read"
    /\ IF user.active THEN GoTo(p, "fill", user.role) ELSE Return(p)
    /\ UNCHANGED <<user, ban, cached, cacheFailures, lag, shut>>

\* cacheUser: what the database said then is written now.
Fill(p) ==
    /\ call[p].at = "fill"
    /\ GoTo(p, "admitted", call[p].role)
    /\ \/ CacheAnswers /\ cached' = [role |-> call[p].role, left |-> CacheTTL]
       \/ CacheFails /\ UNCHANGED cached
    /\ UNCHANGED <<user, ban, lag, shut>>

\* restrictTo and the namespaces' role gates: the request goes on as what it was taken for.
Serves(p, roles) == call[p].at = "admitted" /\ call[p].role \in roles

-----------------------------------------------------------------------------
(* The account *)

\* deactivateUser by an admin, deactivateAccount by the user himself.
Deactivate(p) ==
    /\ \/ Start(p, "block")
       \/ Serves(p, Roles) /\ GoTo(p, "block", call[p].role)
    /\ Save([user EXCEPT !.active = FALSE])
    /\ UNCHANGED <<ban, cached, cacheFailures, shut>>

\* Mutant: bl:user only has to outlive the cached row.
BlockForCacheTTL(p) ==
    /\ call[p].at = "block"
    /\ GoTo(p, "drop", "pending")
    /\ \/ CacheAnswers /\ ban' = CacheTTL /\ shut' = (shut \/ ~user.active)
       \/ CacheFails /\ UNCHANGED <<ban, shut>>
    /\ UNCHANGED <<user, cached, lag>>

\* blacklistAllUserTokens, with no tokens to tell apart.
Block(p) ==
    /\ call[p].at = "block"
    /\ GoTo(p, "drop", "pending")
    /\ \/ CacheAnswers /\ ban' = UserBlacklistTTL /\ shut' = (shut \/ ~user.active)
       \/ CacheFails /\ UNCHANGED <<ban, shut>>
    /\ UNCHANGED <<user, cached, lag>>

\* invalidateUserCache, the last await of its request.
Drop(p) ==
    /\ call[p].at = "drop"
    /\ Return(p)
    /\ \/ CacheAnswers /\ cached' = [cached EXCEPT !.left = 0]
       \/ CacheFails /\ UNCHANGED cached
    /\ UNCHANGED <<user, ban, lag, shut>>

\* activateUser: bl:user is left to lapse by itself.
Activate(p) ==
    /\ Start(p, "drop")
    /\ Save([user EXCEPT !.active = TRUE])
    /\ shut' = FALSE
    /\ UNCHANGED <<ban, cached, cacheFailures>>

\* approveDriver
ApproveDriver(p) ==
    /\ Start(p, "drop")
    /\ Save([user EXCEPT !.role = "driver"])
    /\ UNCHANGED <<ban, cached, cacheFailures, shut>>

\* setRole: the row is read; only a pending user may go on.
SetRole(p, role) ==
    /\ Serves(p, Roles) /\ user.role = "pending"
    /\ GoTo(p, "save_role", role)
    /\ UNCHANGED <<user, ban, cached, cacheFailures, lag, shut>>

\* The role is saved, whatever the row holds by now.
SaveRole(p) ==
    /\ call[p].at = "save_role"
    /\ Save([user EXCEPT !.role = call[p].role])
    /\ GoTo(p, "drop", "pending")
    /\ UNCHANGED <<ban, cached, cacheFailures, shut>>

-----------------------------------------------------------------------------
\* A request ends: its handler answers, or fails on the database, or its process dies.
CallEnds(p) ==
    /\ call[p].at # "idle"
    /\ Return(p)
    /\ UNCHANGED <<user, ban, cached, cacheFailures, lag, shut>>

Less(n) == IF n = 0 THEN 0 ELSE n - 1

\* One tick: keys lapse, and no request is older than RequestTime.
CacheTick ==
    /\ \A p \in Calls : call[p].age < RequestTime
    /\ ban' = Less(ban)
    /\ cached' = [cached EXCEPT !.left = Less(@)]
    /\ call' = [p \in Calls |-> IF call[p].at = "idle" THEN call[p]
                                ELSE [call[p] EXCEPT !.age = @ + 1]]
    /\ lag' = IF lag < StaleFor THEN lag + 1 ELSE lag
    /\ UNCHANGED <<user, cacheFailures, shut>>

CacheNext ==
    \/ \E p \in Calls :
          \/ Check(p) \/ Load(p) \/ Read(p) \/ Fill(p)
          \/ Deactivate(p) \/ Block(p) \/ Drop(p)
          \/ Activate(p) \/ ApproveDriver(p)
          \/ \E role \in {"rider", "driver"} : SetRole(p, role)
          \/ SaveRole(p)
          \/ CallEnds(p)
    \/ CacheTick

CacheSpec == CacheInit /\ [][CacheNext]_cacheVars

-----------------------------------------------------------------------------
(* Properties *)

\* The row, its copy and the requests keep their types.
CacheTypeOK ==
    /\ user \in UserRow
    /\ ban \in 0..UserBlacklistTTL
    /\ cached \in [role : Roles, left : 0..CacheTTL]
    /\ call \in [Calls -> Call]
    /\ cacheFailures \in 0..MaxCacheFailures
    /\ lag \in 0..StaleFor
    /\ shut \in BOOLEAN

\* A copy that a deactivation, an approval or a choice of role has overtaken is gone
\* after StaleFor ticks, though its invalidation may be lost or come before the fill.
StaleRowLapses == cached.left > 0 /\ lag = StaleFor => user.active /\ cached.role = user.role

\* Once bl:user is set on a deactivated account it outlasts every copy that a request of
\* before may still make, deleted or not: when it lapses, the database is asked.
ShutAccountStaysShut == shut /\ ban = 0 => cached.left = 0
=============================================================================
