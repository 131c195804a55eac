------------------------------ MODULE Sessions ------------------------------
(***************************************************************************)
(* The sessions of one user: token pairs, refresh_tokens rows, the Redis   *)
(* keys bl:jti:<jti> and bl:user:<id>, and the requests that issue, rotate *)
(* and revoke them, one step per await.  UserCache has the users row that  *)
(* protect reads behind these checks.                                      *)
(*                                                                         *)
(* Time is a countdown: an access token or a key has so many ticks left.   *)
(* A refresh token lives 30 days, longer than anything here.  A Redis      *)
(* command may fail; the code swallows the error and goes on.              *)
(***************************************************************************)
EXTENDS Naturals, Sequences

CONSTANTS Tokens,          \* identities of token pairs: an access and a refresh token
          NoToken,         \* no pair
          Requests,        \* requests being served at once
          AccessTTL,       \* JWT_EXPIRES_IN, in ticks
          BlacklistTTL,    \* lifetime of bl:user
          MaxRedisFailures \* bound: Redis commands that fail

ASSUME SessionsAssumption ==
    /\ NoToken \notin Tokens
    /\ AccessTTL \in Nat \ {0} /\ BlacklistTTL \in Nat /\ MaxRedisFailures \in Nat
    /\ AccessTTL <= BlacklistTTL

VARIABLES account,        \* the users row: "none", "active" or "inactive"
          access,         \* ticks each access token has left; 0 = expired or never issued
          rows,           \* refresh_tokens: the pairs that can be refreshed
          blockedTokens,  \* keys bl:jti; each lapses with its token
          blockedUser,    \* ticks bl:user has left
          req,            \* the request in each slot
          redisFailures,  \* Redis commands that failed
          revoked         \* history: pairs whose access token has been revoked

sessionVars == <<account, access, rows, blockedTokens, blockedUser, req, redisFailures, revoked>>

-----------------------------------------------------------------------------
(* Requests *)

\* What a request still has to do, await by await.
RefreshPlan   == <<"rotate", "reload", "issue">>
LogoutPlan    == <<"block_token", "drop_row">>
LogoutAllPlan == <<"block_user", "block_token", "drop_rows">>
PasswordPlan  == <<"block_user", "drop_rows">>

Stages == {"rotate", "reload", "issue", "admitted", "block_user", "block_token",
           "drop_row", "drop_rows"}

Request == [todo : Seq(Stages), token : Tokens \cup {NoToken}]

NoRequest == [todo |-> <<>>, token |-> NoToken]

At(p) == IF req[p].todo = <<>> THEN "idle" ELSE Head(req[p].todo)

Begin(p, plan, t) ==
    /\ At(p) = "idle"
    /\ req' = [req EXCEPT ![p] = [todo |-> plan, token |-> t]]

Finish(p) == req' = [req EXCEPT ![p] = NoRequest]

\* Request p is done with its first stage.
Proceed(p) ==
    IF Tail(req[p].todo) = <<>> THEN Finish(p)
    ELSE req' = [req EXCEPT ![p].todo = Tail(@)]

RedisAnswers == UNCHANGED redisFailures
RedisFails == redisFailures < MaxRedisFailures /\ redisFailures' = redisFailures + 1

-----------------------------------------------------------------------------
SessionInit ==
    /\ account = "none"
    /\ access = [t \in Tokens |-> 0]
    /\ rows = {}
    /\ blockedTokens = {} /\ blockedUser = 0
    /\ req = [p \in Requests |-> NoRequest]
    /\ redisFailures = 0
    /\ revoked = {}

(* Logging in and refreshing *)

\* register: the row and its wallet are committed, the tokens still to be issued.
Register(p) ==
    /\ account = "none"
    /\ Begin(p, <<"issue">>, NoToken)
    /\ account' = "active"
    /\ UNCHANGED <<access, rows, blockedTokens, blockedUser, redisFailures, revoked>>

\* login with the right password.
Login(p) ==
    /\ account = "active"
    /\ Begin(p, <<"issue">>, NoToken)
    /\ UNCHANGED <<account, access, rows, blockedTokens, blockedUser, redisFailures, revoked>>

\* googleAuth and verifyOtpAndAuthenticate log in a user who exists, or register him.
LoginOrRegister(p) == Login(p) \/ Register(p)

\* refreshToken: the presented token is signed and its row is there.
Refresh(p, t) ==
    /\ t \in rows
    /\ Begin(p, RefreshPlan, t)
    /\ UNCHANGED <<account, access, rows, blockedTokens, blockedUser, redisFailures, revoked>>

\* storedToken.destroy(): deletes by id, and is content when there is nothing left.
Rotate(p) ==
    /\ At(p) = "rotate"
    /\ rows' = rows \ {req[p].token}
    /\ Proceed(p)
    /\ UNCHANGED <<account, access, blockedTokens, blockedUser, redisFailures, revoked>>

\* Mutant: the account's status is not looked at.
ReloadAny(p) ==
    /\ At(p) = "reload"
    /\ Proceed(p)
    /\ UNCHANGED <<account, access, rows, blockedTokens, blockedUser, redisFailures, revoked>>

\* The user's current status.
Reload(p) ==
    /\ At(p) = "reload"
    /\ IF account = "active" THEN Proceed(p) ELSE Finish(p)
    /\ UNCHANGED <<account, access, rows, blockedTokens, blockedUser, redisFailures, revoked>>

\* A pair that has left no trace: its identity may be given to a new one.
Unused(t) == /\ access[t] = 0 /\ t \notin rows
             /\ \A p \in Requests : req[p].token # t

\* generateTokenPair and storeRefreshToken.
Issue(p) ==
    /\ At(p) = "issue"
    /\ \E t \in Tokens : /\ Unused(t)
                         /\ access' = [access EXCEPT ![t] = AccessTTL]
                         /\ rows' = rows \cup {t}
                         /\ revoked' = revoked \ {t}
    /\ Finish(p)
    /\ UNCHANGED <<account, blockedTokens, blockedUser, redisFailures>>

-----------------------------------------------------------------------------
(* Checking and revoking *)

\* The keys isBlacklisted looks up.
Blacklisted(t) == t \in blockedTokens \/ blockedUser > 0

\* protect: verifyAccessToken and isBlacklisted, which lets pass when Redis fails.  The row
\* it reads next may be a stale copy, see UserCache: an inactive account is not excluded.
Protect(p, t) ==
    /\ access[t] > 0
    /\ \/ ~Blacklisted(t) /\ RedisAnswers
       \/ RedisFails
    /\ Begin(p, <<"admitted">>, t)
    /\ UNCHANGED <<account, access, rows, blockedTokens, blockedUser, revoked>>

\* logout, logoutAll or changePassword by a request that protect has admitted.  (No
\* route calls logoutAll.)
Logout(p) ==
    /\ At(p) = "admitted"
    /\ \E plan \in {LogoutPlan, LogoutAllPlan, PasswordPlan} :
          req' = [req EXCEPT ![p].todo = plan]
    /\ UNCHANGED <<account, access, rows, blockedTokens, blockedUser, redisFailures, revoked>>

\* resetPasswordWithOtp, by somebody with a code and no token.
ResetPassword(p) ==
    /\ account # "none"
    /\ Begin(p, PasswordPlan, NoToken)
    /\ UNCHANGED <<account, access, rows, blockedTokens, blockedUser, redisFailures, revoked>>

\* deactivateUser by an admin, deactivateAccount by the user: the row is saved.
AccountDeactivated(p) ==
    /\ account # "none"
    /\ \/ Begin(p, <<"block_user">>, NoToken)
       \/ At(p) = "admitted" /\ req' = [req EXCEPT ![p].todo = <<"block_user">>]
    /\ account' = "inactive"
    /\ UNCHANGED <<access, rows, blockedTokens, blockedUser, redisFailures, revoked>>

\* activateUser: bl:user is left to lapse by itself.
AccountActivated ==
    /\ account = "inactive"
    /\ account' = "active"
    /\ UNCHANGED <<access, rows, blockedTokens, blockedUser, req, redisFailures, revoked>>

\* Mutant: the key lapses before the tokens it is meant for.
BlockUserBriefly(p) ==
    /\ At(p) = "block_user"
    /\ Proceed(p)
    /\ \/ /\ RedisAnswers
          /\ blockedUser' = AccessTTL - 1
          /\ revoked' = revoked \cup {t \in Tokens : access[t] > 0}
       \/ RedisFails /\ UNCHANGED <<blockedUser, revoked>>
    /\ UNCHANGED <<account, access, rows, blockedTokens>>

\* blacklistAllUserTokens
BlockUser(p) ==
    /\ At(p) = "block_user"
    /\ Proceed(p)
    /\ \/ /\ RedisAnswers
          /\ blockedUser' = BlacklistTTL
          /\ revoked' = revoked \cup {t \in Tokens : access[t] > 0}
       \/ RedisFails /\ UNCHANGED <<blockedUser, revoked>>
    /\ UNCHANGED <<account, access, rows, blockedTokens>>

\* blacklistToken; a token that has expired meanwhile needs no key.
BlockToken(p) ==
    LET t == req[p].token
    IN  /\ At(p) = "block_token"
        /\ Proceed(p)
        /\ \/ /\ RedisAnswers
              /\ blockedTokens' = IF access[t] > 0 THEN blockedTokens \cup {t} ELSE blockedTokens
              /\ revoked' = revoked \cup {t}
           \/ RedisFails /\ UNCHANGED <<blockedTokens, revoked>>
        /\ UNCHANGED <<account, access, rows, blockedUser>>

\* logout deletes the refresh token it is given, which may be none or another one.
DropRow(p) ==
    /\ At(p) = "drop_row"
    /\ \E t \in rows \cup {NoToken} : rows' = rows \ {t}
    /\ Proceed(p)
    /\ UNCHANGED <<account, access, blockedTokens, blockedUser, redisFailures, revoked>>

\* Every row of the user is deleted; other requests may be about to insert one.
DropRows(p) ==
    /\ At(p) = "drop_rows"
    /\ rows' = {}
    /\ Proceed(p)
    /\ UNCHANGED <<account, access, blockedTokens, blockedUser, redisFailures, revoked>>

\* A request ends: its handler answers, or fails on the database, or its process dies.
End(p) ==
    /\ At(p) # "idle"
    /\ Finish(p)
    /\ UNCHANGED <<account, access, rows, blockedTokens, blockedUser, redisFailures, revoked>>

Down(n) == IF n = 0 THEN 0 ELSE n - 1

\* One tick: tokens expire and keys lapse.
SessionTick ==
    /\ access' = [t \in Tokens |-> Down(access[t])]
    /\ blockedTokens' = {t \in blockedTokens : access[t] > 1}
    /\ blockedUser' = Down(blockedUser)
    /\ UNCHANGED <<account, rows, req, redisFailures, revoked>>

SessionNext ==
    \/ \E p \in Requests :
          \/ LoginOrRegister(p)
          \/ \E t \in Tokens : Refresh(p, t) \/ Protect(p, t)
          \/ Rotate(p) \/ Reload(p) \/ Issue(p)
          \/ Logout(p) \/ ResetPassword(p) \/ AccountDeactivated(p)
          \/ BlockUser(p) \/ BlockToken(p) \/ DropRow(p) \/ DropRows(p)
          \/ End(p)
    \/ AccountActivated
    \/ SessionTick

SessionSpec == SessionInit /\ [][SessionNext]_sessionVars

-----------------------------------------------------------------------------
(* Properties *)

\* Tokens, keys, rows and requests keep their types.
SessionTypeOK ==
    /\ account \in {"none", "active", "inactive"}
    /\ access \in [Tokens -> 0..AccessTTL]
    /\ rows \subseteq Tokens /\ blockedTokens \subseteq Tokens /\ revoked \subseteq Tokens
    /\ blockedUser \in 0..BlacklistTTL
    /\ req \in [Requests -> Request]
    /\ redisFailures \in 0..MaxRedisFailures

\* A token revoked by a logout, a password change or a deactivation is refused for as
\* long as it lives: bl:user outlives every token it was set for.
RevokedTokenIsRefused == \A t \in revoked : access[t] > 0 => Blacklisted(t)

\* While an account stays inactive no request comes to the point of issuing tokens: what
\* is issued after a deactivation was decided before it.
InactiveGetsNoToken ==
    [][account = "inactive" /\ account' = "inactive"
       => \A p \in Requests : At(p)' = "issue" => At(p) = "issue"]_sessionVars

\* What a token is worth, and the token that a request of protect has got in with.
LifeOf(t) == IF access[t] = 0 THEN "none"
             ELSE IF t \in revoked THEN "revoked" ELSE "valid"

Bearer(p) == IF At(p) = "admitted" THEN req[p].token ELSE NoToken

\* The tokens and bearers of TokenLife.
Life == INSTANCE TokenLife WITH
            life     <- [t \in Tokens |-> LifeOf(t)],
            bearer   <- [p \in Requests |-> Bearer(p)],
            failures <- redisFailures

\* Sessions implement TokenLife: whatever requests, bl:jti and bl:user keys, ticks and Redis
\* failures interleave, a token that a logout or a password change has revoked is so for good,
\* and protect admits a request with it only if Redis fails while isBlacklisted asks.
TokensKeepTheirLife == Life!LifeSpec

\* Claim of roadmap.md:307, "On password change: blacklist all existing tokens for that
\* user": a token that nobody has revoked is not blacklisted.
OnlyExistingTokensBlacklisted == \A t \in Tokens \ revoked : access[t] > 0 => ~Blacklisted(t)
=============================================================================
