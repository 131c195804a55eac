--------------------------- MODULE AccountProofs ----------------------------
(***************************************************************************)
(* What Sessions and UserCache keep, for any number of tokens, requests    *)
(* and Redis failures and for all lifetimes that the assumptions allow.    *)
(***************************************************************************)
EXTENDS Sessions, UserCache, TLAPS

-----------------------------------------------------------------------------
(* Sessions *)

\* What a request may have left to do while it carries a token.
TokenTodos == {<<"admitted">>, LogoutPlan, LogoutAllPlan, <<"block_token", "drop_rows">>}

\* What any request may have left to do: its plan, or the rest of it.
Todos == TokenTodos \cup
    {<<>>, <<"issue">>, RefreshPlan, <<"reload", "issue">>, PasswordPlan, <<"block_user">>,
     <<"drop_row">>, <<"drop_rows">>}

RequestInv ==
    \A p \in Requests : /\ req[p].todo \in Todos
                        /\ req[p].todo \in TokenTodos => req[p].token \in Tokens

\* bl:user has at least as long to live as the revoked tokens that have no key of their own.
KeysOutlive ==
    \A t \in revoked : access[t] > 0 => t \in blockedTokens \/ blockedUser >= access[t]

SessionInv == SessionTypeOK /\ RequestInv /\ KeysOutlive

\* Where each rest of a plan stands, and what is left after its first stage.
LEMMA RestOfPlan ==
    ASSUME NEW q \in Todos, q # <<>>
    PROVE  /\ Tail(q) \in Todos
           /\ Tail(q) \in TokenTodos => q \in TokenTodos
           /\ Head(q) \in Stages
           /\ Head(q) \in {"block_token", "admitted"} => q \in TokenTodos
<1> USE DEF Todos, TokenTodos, Stages, RefreshPlan, LogoutPlan, LogoutAllPlan, PasswordPlan
<1>1. CASE q \in {<<"admitted">>, <<"issue">>, <<"block_user">>, <<"drop_row">>, <<"drop_rows">>}
  <2>0. \A a : Tail(<<a>>) = <<>>
    OBVIOUS
  <2>1. Tail(q) = <<>> /\ <<>> \in Todos /\ <<>> \notin TokenTodos
    BY <1>1, <2>0
  <2>2. CASE q = <<"admitted">>
    BY <2>1, <2>2
  <2>3. CASE q # <<"admitted">>
    <3>1. Head(q) \in {"issue", "block_user", "drop_row", "drop_rows"}
      BY <1>1, <2>3
    <3> QED BY <2>1, <3>1
  <2> QED BY <2>2, <2>3
<1>2. CASE q = LogoutPlan
  <2>1. Tail(q) = <<"drop_row">> /\ Head(q) = "block_token" /\ <<"drop_row">> \in Todos
    BY <1>2
  <2> QED BY <1>2, <2>1
<1>3. CASE q = LogoutAllPlan
  <2>1. Tail(q) = <<"block_token", "drop_rows">> /\ Head(q) = "block_user"
    BY <1>3
  <2> QED BY <1>3, <2>1
<1>4. CASE q = <<"block_token", "drop_rows">>
  <2>1. Tail(q) = <<"drop_rows">> /\ Head(q) = "block_token" /\ <<"drop_rows">> \in Todos
    BY <1>4
  <2> QED BY <1>4, <2>1
<1>5. CASE q = RefreshPlan
  <2>1. Tail(q) = <<"reload", "issue">> /\ Head(q) = "rotate"
    BY <1>5
  <2>2. <<"reload", "issue">> \in Todos \ TokenTodos
    OBVIOUS
  <2> QED BY <2>1, <2>2
<1>6. CASE q = <<"reload", "issue">>
  <2>1. Tail(q) = <<"issue">> /\ Head(q) = "reload"
    BY <1>6
  <2>2. <<"issue">> \in Todos \ TokenTodos
    OBVIOUS
  <2> QED BY <2>1, <2>2
<1>7. CASE q = PasswordPlan
  <2>1. Tail(q) = <<"drop_rows">> /\ Head(q) = "block_user"
    BY <1>7
  <2>2. <<"drop_rows">> \in Todos \ TokenTodos
    OBVIOUS
  <2> QED BY <2>1, <2>2
<1> QED BY <1>1, <1>2, <1>3, <1>4, <1>5, <1>6, <1>7

\* What is left to do is a sequence of stages.
LEMMA TodosAreStages == Todos \subseteq Seq(Stages)
<1> SUFFICES ASSUME NEW q \in Todos PROVE q \in Seq(Stages)
  OBVIOUS
<1>1. \A a \in Stages : <<a>> \in Seq(Stages)
  OBVIOUS
<1>2. \A a, b \in Stages : <<a, b>> \in Seq(Stages)
  OBVIOUS
<1>3. \A a, b, c \in Stages : <<a, b, c>> \in Seq(Stages)
  OBVIOUS
<1>4. {"rotate", "reload", "issue", "admitted", "block_user", "block_token", "drop_row",
       "drop_rows"} \subseteq Stages
  BY DEF Stages
<1>5. {<<>>, <<"admitted">>, <<"issue">>, <<"block_user">>, <<"drop_row">>, <<"drop_rows">>}
      \subseteq Seq(Stages)
  BY <1>1, <1>4
<1>6. {LogoutPlan, PasswordPlan, <<"block_token", "drop_rows">>, <<"reload", "issue">>}
      \subseteq Seq(Stages)
  BY <1>2, <1>4 DEF LogoutPlan, PasswordPlan
<1>7. {LogoutAllPlan, RefreshPlan} \subseteq Seq(Stages)
  BY <1>3, <1>4 DEF LogoutAllPlan, RefreshPlan
<1> QED BY <1>5, <1>6, <1>7 DEF Todos, TokenTodos

\* Requests keep their types when one of them begins a plan, ends, or takes its next stage.
RequestsOK == req \in [Requests -> Request] /\ RequestInv

LEMMA RequestChanges ==
    ASSUME RequestsOK, NEW p \in Requests, NEW todo \in Todos,
           NEW t \in Tokens \cup {NoToken}, todo \in TokenTodos => t \in Tokens,
           req' = [req EXCEPT ![p] = [todo |-> todo, token |-> t]]
    PROVE  RequestsOK'
<1>1. [todo |-> todo, token |-> t] \in Request
  BY TodosAreStages DEF Request
<1>2. req' \in [Requests -> Request]
  BY <1>1 DEF RequestsOK
<1>3. \A q \in Requests : req'[q] = IF q = p THEN [todo |-> todo, token |-> t] ELSE req[q]
  BY DEF RequestsOK
<1> QED BY <1>2, <1>3 DEF RequestsOK, RequestInv

LEMMA RequestIs ==
    ASSUME RequestsOK, NEW p \in Requests
    PROVE  /\ req[p] = [todo |-> req[p].todo, token |-> req[p].token]
           /\ req[p].todo \in Todos
           /\ req[p].token \in Tokens \cup {NoToken}
BY DEF RequestsOK, RequestInv, Request

LEMMA Begins ==
    ASSUME RequestsOK, NEW p \in Requests, NEW plan \in Todos,
           NEW t \in Tokens \cup {NoToken}, plan \in TokenTodos => t \in Tokens,
           Begin(p, plan, t)
    PROVE  RequestsOK'
BY RequestChanges DEF Begin

LEMMA Finishes == ASSUME RequestsOK, NEW p \in Requests, Finish(p) PROVE RequestsOK'
<1>1. <<>> \in Todos /\ <<>> \notin TokenTodos
  BY DEF Todos, TokenTodos, LogoutPlan, LogoutAllPlan
<1> QED BY <1>1, RequestChanges DEF Finish, NoRequest

LEMMA Proceeds ==
    ASSUME RequestsOK, NEW p \in Requests, At(p) # "idle", Proceed(p)
    PROVE  RequestsOK'
<1>1. req[p].todo \in Todos /\ req[p].todo # <<>>
  BY RequestIs DEF At
<1>2. CASE Tail(req[p].todo) = <<>>
  BY <1>2, Finishes DEF Proceed
<1>3. CASE Tail(req[p].todo) # <<>>
  <2> DEFINE todo == Tail(req[p].todo)
  <2>1. todo \in Todos /\ (todo \in TokenTodos => req[p].token \in Tokens)
    BY <1>1, RestOfPlan DEF RequestsOK, RequestInv
  <2>2. req' = [req EXCEPT ![p] = [todo |-> todo, token |-> req[p].token]]
    BY <1>3, RequestIs DEF Proceed, RequestsOK, Request
  <2> QED BY <2>1, <2>2, RequestChanges, RequestIs
<1> QED BY <1>2, <1>3

\* An admitted request goes on with the plan of what it asks for.
LEMMA Turns ==
    ASSUME RequestsOK, NEW p \in Requests, At(p) = "admitted", NEW plan \in Todos,
           req' = [req EXCEPT ![p].todo = plan]
    PROVE  RequestsOK'
<1>1. req[p].todo \in Todos /\ req[p].todo # <<>> /\ Head(req[p].todo) = "admitted"
  BY RequestIs DEF At
<1>2. req[p].token \in Tokens
  BY <1>1, RestOfPlan DEF RequestsOK, RequestInv
<1> DEFINE turned == [todo |-> plan, token |-> req[p].token]
<1>3. [req[p] EXCEPT !.todo = plan] = turned
  <2>1. req[p] \in [todo : Seq(Stages), token : Tokens \cup {NoToken}]
    BY DEF RequestsOK, Request
  <2>2. ASSUME NEW r \in [todo : Seq(Stages), token : Tokens \cup {NoToken}]
        PROVE  [r EXCEPT !.todo = plan] = [todo |-> plan, token |-> r.token]
    OBVIOUS
  <2> QED BY <2>1, <2>2
<1>4. req' = [req EXCEPT ![p] = [req[p] EXCEPT !.todo = plan]]
  OBVIOUS
<1>5. req' = [req EXCEPT ![p] = turned]
  BY <1>3, <1>4
<1> QED BY <1>2, <1>5, <1>3, RequestChanges

LEMMA PlansAreTodos ==
    /\ {<<"issue">>, RefreshPlan, PasswordPlan, <<"block_user">>} \subseteq Todos \ TokenTodos
    /\ {<<"admitted">>, LogoutPlan, LogoutAllPlan} \subseteq TokenTodos
    /\ TokenTodos \subseteq Todos
BY DEF Todos, TokenTodos, RefreshPlan, LogoutPlan, LogoutAllPlan, PasswordPlan

-----------------------------------------------------------------------------
(* The invariant *)

LEMMA SessionInitInv == SessionInit => SessionInv
<1> SUFFICES ASSUME SessionInit PROVE SessionInv
  OBVIOUS
<1> USE SessionsAssumption DEF SessionInit
<1>1. <<>> \in Todos /\ <<>> \notin TokenTodos
  BY DEF Todos, TokenTodos, LogoutPlan, LogoutAllPlan
<1>2. NoRequest \in Request
  BY <1>1, TodosAreStages DEF Request, NoRequest
<1>3. SessionTypeOK
  BY <1>2 DEF SessionTypeOK
<1>4. RequestInv
  BY <1>1 DEF RequestInv, NoRequest
<1> QED BY <1>3, <1>4 DEF SessionInv, KeysOutlive

\* A request that has done nothing to the keys yet, or has finished with them.
Bystands(p) ==
    \/ LoginOrRegister(p)
    \/ \E t \in Tokens : Refresh(p, t) \/ Protect(p, t)
    \/ Rotate(p) \/ Reload(p) \/ Logout(p) \/ ResetPassword(p) \/ AccountDeactivated(p)
    \/ DropRow(p) \/ DropRows(p) \/ End(p)

LEMMA BystandsKeepsKeys ==
    ASSUME SessionInv, NEW p \in Requests, Bystands(p)
    PROVE  /\ RequestsOK'
           /\ UNCHANGED <<access, blockedTokens, blockedUser, revoked>>
           /\ account' \in {"none", "active", "inactive"} /\ rows' \subseteq Tokens
           /\ redisFailures' \in 0..MaxRedisFailures
<1> USE DEF SessionInv, SessionTypeOK
<1>0. RequestsOK
  BY DEF RequestsOK
<1> USE <1>0, PlansAreTodos
<1>1. CASE LoginOrRegister(p)
  BY <1>1, Begins DEF LoginOrRegister, Login, Register
<1>2. ASSUME NEW t \in Tokens, Refresh(p, t) PROVE RequestsOK'
  BY <1>2, Begins DEF Refresh
<1>3. ASSUME NEW t \in Tokens, Protect(p, t) PROVE RequestsOK'
  BY <1>3, Begins DEF Protect
<1>4. CASE \E t \in Tokens : Refresh(p, t) \/ Protect(p, t)
  BY <1>2, <1>3, <1>4, SessionsAssumption DEF Refresh, Protect, RedisAnswers, RedisFails
<1>5. CASE Rotate(p)
  BY <1>5, Proceeds DEF Rotate
<1>6. CASE Reload(p)
  BY <1>6, Proceeds, Finishes DEF Reload
<1>7. CASE Logout(p)
  BY <1>7, Turns DEF Logout
<1>8. CASE ResetPassword(p)
  BY <1>8, Begins DEF ResetPassword
<1>9. CASE AccountDeactivated(p)
  BY <1>9, Begins, Turns DEF AccountDeactivated
<1>10. CASE DropRow(p)
  BY <1>10, Proceeds DEF DropRow
<1>11. CASE DropRows(p)
  BY <1>11, Proceeds DEF DropRows
<1>12. CASE End(p)
  BY <1>12, Finishes DEF End
<1> QED BY <1>1, <1>4, <1>5, <1>6, <1>7, <1>8, <1>9, <1>10, <1>11, <1>12 DEF Bystands

LEMMA SessionStepInv == SessionInv /\ [SessionNext]_sessionVars => SessionInv'
<1> SUFFICES ASSUME SessionInv, [SessionNext]_sessionVars PROVE SessionInv'
  OBVIOUS
<1> USE SessionsAssumption
<1>0. SessionTypeOK /\ RequestInv /\ KeysOutlive /\ RequestsOK
  BY DEF SessionInv, RequestsOK, SessionTypeOK
<1>1. ASSUME NEW p \in Requests, Bystands(p) PROVE SessionInv'
  <2>1. RequestsOK' /\ UNCHANGED <<access, blockedTokens, blockedUser, revoked>>
    BY <1>1, BystandsKeepsKeys
  <2>2. account' \in {"none", "active", "inactive"} /\ rows' \subseteq Tokens
        /\ redisFailures' \in 0..MaxRedisFailures
    BY <1>1, BystandsKeepsKeys
  <2> QED BY <1>0, <2>1, <2>2 DEF SessionInv, SessionTypeOK, KeysOutlive, RequestsOK
<1>2. ASSUME NEW p \in Requests, Issue(p) PROVE SessionInv'
  <2>1. RequestsOK'
    BY <1>0, <1>2, Finishes DEF Issue
  <2>2. PICK t \in Tokens : /\ access' = [access EXCEPT ![t] = AccessTTL]
                            /\ rows' = rows \cup {t}
                            /\ revoked' = revoked \ {t}
    BY <1>2 DEF Issue
  <2>3. SessionTypeOK'
    BY <1>0, <1>2, <2>1, <2>2 DEF SessionTypeOK, RequestsOK, Issue
  <2>4. KeysOutlive'
    BY <1>0, <1>2, <2>2 DEF SessionTypeOK, KeysOutlive, Issue
  <2> QED BY <2>1, <2>3, <2>4 DEF SessionInv, RequestsOK
<1>3. ASSUME NEW p \in Requests, BlockUser(p) PROVE SessionInv'
  <2>1. RequestsOK'
    BY <1>0, <1>3, Proceeds DEF BlockUser
  <2>2. CASE RedisFails
    BY <1>0, <1>3, <2>1, <2>2
       DEF SessionInv, SessionTypeOK, KeysOutlive, RequestsOK, BlockUser, RedisFails
  <2>3. CASE RedisAnswers /\ blockedUser' = BlacklistTTL
             /\ revoked' = revoked \cup {t \in Tokens : access[t] > 0}
    <3>1. SessionTypeOK'
      BY <1>0, <1>3, <2>1, <2>3 DEF SessionTypeOK, RequestsOK, BlockUser, RedisAnswers
    <3>2. KeysOutlive'
      BY <1>0, <1>3, <2>3 DEF SessionTypeOK, KeysOutlive, BlockUser
    <3> QED BY <2>1, <3>1, <3>2 DEF SessionInv, RequestsOK
  <2> QED BY <1>0, <1>3, <2>2, <2>3 DEF BlockUser, RedisFails
<1>4. ASSUME NEW p \in Requests, BlockToken(p) PROVE SessionInv'
  <2>1. RequestsOK'
    BY <1>0, <1>4, Proceeds DEF BlockToken
  <2>2. req[p].token \in Tokens
    BY <1>0, <1>4, RestOfPlan DEF BlockToken, At, RequestInv
  <2>3. SessionTypeOK'
    BY <1>0, <1>4, <2>1, <2>2
       DEF SessionTypeOK, RequestsOK, BlockToken, RedisAnswers, RedisFails
  <2>4. KeysOutlive'
    BY <1>0, <1>4, <2>2 DEF SessionTypeOK, KeysOutlive, BlockToken
  <2> QED BY <2>1, <2>3, <2>4 DEF SessionInv, RequestsOK
<1>5. CASE AccountActivated
  BY <1>0, <1>5 DEF SessionInv, SessionTypeOK, RequestInv, KeysOutlive, AccountActivated
<1>6. CASE SessionTick
  <2>1. \A t \in Tokens : access[t] \in 0..AccessTTL /\ access'[t] = Down(access[t])
    BY <1>0, <1>6 DEF SessionTypeOK, SessionTick
  <2>2. SessionTypeOK'
    BY <1>0, <1>6, <2>1 DEF SessionTypeOK, SessionTick, Down
  <2>3. KeysOutlive'
    <3> SUFFICES ASSUME NEW t \in revoked, access'[t] > 0
                 PROVE  t \in blockedTokens' \/ blockedUser' >= access'[t]
      BY <1>6 DEF SessionTick, KeysOutlive
    <3>1. t \in Tokens /\ access[t] > 1 /\ access'[t] = access[t] - 1
      BY <1>0, <2>1 DEF SessionTypeOK, Down
    <3>2. CASE t \in blockedTokens
      BY <1>6, <3>1, <3>2 DEF SessionTick
    <3>3. CASE blockedUser >= access[t]
      BY <1>0, <1>6, <2>1, <3>1, <3>3 DEF SessionTypeOK, SessionTick, Down
    <3> QED BY <1>0, <2>1, <3>1, <3>2, <3>3 DEF KeysOutlive
  <2>4. RequestInv'
    BY <1>0, <1>6 DEF RequestInv, SessionTick
  <2> QED BY <2>2, <2>3, <2>4 DEF SessionInv
<1>7. CASE UNCHANGED sessionVars
  BY <1>0, <1>7 DEF SessionInv, SessionTypeOK, RequestInv, KeysOutlive, sessionVars
<1> QED BY <1>1, <1>2, <1>3, <1>4, <1>5, <1>6, <1>7 DEF SessionNext, Bystands

\* SessionInv holds in every reachable state.
THEOREM SessionInvariance == SessionSpec => []SessionInv
<1> QED BY SessionInitInv, SessionStepInv, PTL DEF SessionSpec

\* Tokens, keys, rows and requests keep their types.
THEOREM SessionTypes == SessionSpec => []SessionTypeOK
<1>1. SessionInv => SessionTypeOK
  BY DEF SessionInv
<1> QED BY <1>1, SessionInvariance, PTL

\* A token revoked by blacklistToken or blacklistAllUserTokens is refused while it lives.
THEOREM RevokedStaysRefused == SessionSpec => []RevokedTokenIsRefused
<1>1. SessionInv => RevokedTokenIsRefused
  <2> SUFFICES ASSUME SessionInv, NEW t \in revoked, access[t] > 0 PROVE Blacklisted(t)
    BY DEF RevokedTokenIsRefused
  <2>1. access[t] \in Nat /\ blockedUser \in Nat
    BY SessionsAssumption DEF SessionInv, SessionTypeOK
  <2> QED BY <2>1 DEF SessionInv, KeysOutlive, Blacklisted
<1> QED BY <1>1, SessionInvariance, PTL

\* Only a request that is about to look at the account comes to the point of issuing.
LEMMA OnlyReloadLeadsToIssue ==
    ASSUME NEW q \in Todos, q # <<>>, Head(q) # "reload", Tail(q) # <<>>
    PROVE  Head(Tail(q)) # "issue"
<1> USE DEF Todos, TokenTodos, RefreshPlan, LogoutPlan, LogoutAllPlan, PasswordPlan
<1>1. CASE q \in {<<"admitted">>, <<"issue">>, <<"block_user">>, <<"drop_row">>, <<"drop_rows">>}
  <2>1. \A a : Tail(<<a>>) = <<>>
    OBVIOUS
  <2> QED BY <1>1, <2>1
<1>2. CASE q \in {LogoutPlan, PasswordPlan, <<"block_token", "drop_rows">>, <<"reload", "issue">>}
  <2>1. \A a, b : Tail(<<a, b>>) = <<b>> /\ Head(<<a, b>>) = a /\ Head(<<b>>) = b
    OBVIOUS
  <2> QED BY <1>2, <2>1
<1>3. CASE q \in {LogoutAllPlan, RefreshPlan}
  <2>1. \A a, b, c : Tail(<<a, b, c>>) = <<b, c>> /\ Head(<<b, c>>) = b
    OBVIOUS
  <2> QED BY <1>3, <2>1
<1> QED BY <1>1, <1>2, <1>3

\* No step of an account that stays inactive brings a request to the point of issuing.
THEOREM InactiveAccountGetsNoToken == SessionSpec => InactiveGetsNoToken
<1> DEFINE NoNewIssue == account = "inactive" /\ account' = "inactive"
                         => \A p \in Requests : At(p)' = "issue" => At(p) = "issue"
<1>1. SessionInv /\ [SessionNext]_sessionVars => [NoNewIssue]_sessionVars
  <2> SUFFICES ASSUME SessionInv, SessionNext, account = "inactive",
                      NEW q \in Requests, At(q)' = "issue", At(q) # "issue"
               PROVE  account' # "inactive"
    OBVIOUS
  <2>0. RequestsOK
    BY DEF SessionInv, RequestsOK, SessionTypeOK
  <2>1. \A p \in Requests : req[p].todo \in Todos
    BY <2>0, RequestIs
  <2>2. req'[q].todo # req[q].todo
    BY DEF At
  <2>3. PICK p \in Requests : \/ LoginOrRegister(p)
                              \/ \E t \in Tokens : Refresh(p, t) \/ Protect(p, t)
                              \/ Rotate(p) \/ Reload(p) \/ Issue(p)
                              \/ Logout(p) \/ ResetPassword(p) \/ AccountDeactivated(p)
                              \/ BlockUser(p) \/ BlockToken(p) \/ DropRow(p) \/ DropRows(p)
                              \/ End(p)
    BY <2>2 DEF SessionNext, AccountActivated, SessionTick
  <2>4. ASSUME NEW t, NEW plan, Begin(p, plan, t), plan # <<>>, Head(plan) # "issue" PROVE FALSE
    BY <2>0, <2>2, <2>4 DEF Begin, At, RequestsOK
  <2>5. ~Finish(p)
    BY <2>0, <2>2 DEF Finish, At, RequestsOK, NoRequest
  <2>6. ASSUME Proceed(p), At(p) # "idle", At(p) # "reload" PROVE FALSE
    <3>1. Tail(req[p].todo) # <<>> /\ req' = [req EXCEPT ![p].todo = Tail(@)]
      BY <2>5, <2>6 DEF Proceed
    <3>2. p = q /\ req'[p].todo = Tail(req[p].todo)
      BY <2>0, <2>2, <3>1 DEF RequestsOK, Request
    <3> QED BY <2>1, <2>6, <3>1, <3>2, OnlyReloadLeadsToIssue DEF At
  <2>7. ASSUME NEW plan, req' = [req EXCEPT ![p].todo = plan], plan # <<>>, Head(plan) # "issue"
        PROVE  FALSE
    BY <2>0, <2>2, <2>7 DEF At, RequestsOK, Request
  <2>8. /\ RefreshPlan # <<>> /\ Head(RefreshPlan) # "issue"
        /\ PasswordPlan # <<>> /\ Head(PasswordPlan) # "issue"
        /\ LogoutPlan # <<>> /\ Head(LogoutPlan) # "issue"
        /\ LogoutAllPlan # <<>> /\ Head(LogoutAllPlan) # "issue"
    BY DEF RefreshPlan, PasswordPlan, LogoutPlan, LogoutAllPlan
  <2>9. /\ <<"admitted">> # <<>> /\ Head(<<"admitted">>) # "issue"
        /\ <<"block_user">> # <<>> /\ Head(<<"block_user">>) # "issue"
    OBVIOUS
  <2>10. ~LoginOrRegister(p) /\ ~Reload(p) /\ ~Issue(p) /\ ~End(p)
    BY <2>5 DEF LoginOrRegister, Login, Register, Reload, Issue, End
  <2>11. ~\E t \in Tokens : Refresh(p, t) \/ Protect(p, t)
    BY <2>4, <2>8, <2>9 DEF Refresh, Protect
  <2>12. ~Rotate(p) /\ ~BlockUser(p) /\ ~BlockToken(p) /\ ~DropRow(p) /\ ~DropRows(p)
    BY <2>6 DEF Rotate, BlockUser, BlockToken, DropRow, DropRows
  <2>13. ~Logout(p) /\ ~ResetPassword(p) /\ ~AccountDeactivated(p)
    BY <2>4, <2>7, <2>8, <2>9 DEF Logout, ResetPassword, AccountDeactivated
  <2> QED BY <2>3, <2>10, <2>11, <2>12, <2>13
<1> QED BY <1>1, SessionInvariance, PTL DEF SessionSpec, InactiveGetsNoToken

-----------------------------------------------------------------------------
(* Sessions implement TokenLife *)

Lives == [t \in Tokens |-> LifeOf(t)]
Bearers == [p \in Requests |-> Bearer(p)]

LEMMA LivesKept == ASSUME UNCHANGED <<access, revoked>> PROVE Lives' = Lives
BY DEF Lives, LifeOf

\* Nobody but p does anything, and p is not admitted before or after.
LEMMA BearersKept ==
    ASSUME NEW p \in Requests, At(p) # "admitted", At(p)' # "admitted",
           \A q \in Requests \ {p} : req'[q] = req[q]
    PROVE  Bearers' = Bearers
<1>1. ASSUME NEW q \in Requests PROVE Bearer(q)' = Bearer(q)
  <2>1. CASE q = p
    BY <2>1 DEF Bearer
  <2>2. CASE q # p
    BY <2>2 DEF Bearer, At
  <2> QED BY <2>1, <2>2
<1> QED BY <1>1 DEF Bearers

\* p has been admitted, and goes on.
LEMMA BearerLeaves ==
    ASSUME RequestsOK, NEW p \in Requests, At(p) = "admitted", At(p)' # "admitted",
           \A q \in Requests \ {p} : req'[q] = req[q]
    PROVE  Life!GoesOn(p) \/ ~UNCHANGED <<access, revoked, redisFailures>>
<1> SUFFICES ASSUME UNCHANGED <<access, revoked, redisFailures>> PROVE Life!GoesOn(p)
  OBVIOUS
<1>1. Lives' = Lives
  BY LivesKept
<1>2. req[p].token \in Tokens
  <2>1. req[p].todo \in Todos /\ req[p].todo # <<>> /\ Head(req[p].todo) = "admitted"
    BY RequestIs DEF At
  <2> QED BY <2>1, RestOfPlan DEF RequestsOK, RequestInv
<1>3. Bearers[p] # NoToken
  BY <1>2, SessionsAssumption DEF Bearers, Bearer
<1>4. Bearers' = [Bearers EXCEPT ![p] = NoToken]
  <2>1. ASSUME NEW q \in Requests
        PROVE  Bearer(q)' = IF q = p THEN NoToken ELSE Bearer(q)
    <3>1. CASE q = p
      BY <3>1 DEF Bearer
    <3>2. CASE q # p
      BY <3>2 DEF Bearer, At
    <3> QED BY <3>1, <3>2
  <2> QED BY <2>1 DEF Bearers
<1> QED BY <1>1, <1>3, <1>4 DEF Life!GoesOn, Lives, Bearers

\* No request is admitted in the middle of its plan.
LEMMA AdmittedIsFirst ==
    ASSUME NEW q \in Todos, q # <<>>, Tail(q) # <<>>
    PROVE  Head(Tail(q)) # "admitted"
<1> USE DEF Todos, TokenTodos, RefreshPlan, LogoutPlan, LogoutAllPlan, PasswordPlan
<1>1. CASE q \in {<<"admitted">>, <<"issue">>, <<"block_user">>, <<"drop_row">>, <<"drop_rows">>}
  <2>1. \A a : Tail(<<a>>) = <<>>
    OBVIOUS
  <2> QED BY <1>1, <2>1
<1>2. CASE q \in {LogoutPlan, PasswordPlan, <<"block_token", "drop_rows">>, <<"reload", "issue">>}
  <2>1. \A a, b : Tail(<<a, b>>) = <<b>> /\ Head(<<a, b>>) = a /\ Head(<<b>>) = b
    OBVIOUS
  <2> QED BY <1>2, <2>1
<1>3. CASE q \in {LogoutAllPlan, RefreshPlan}
  <2>1. \A a, b, c : Tail(<<a, b, c>>) = <<b, c>> /\ Head(<<b, c>>) = b
    OBVIOUS
  <2> QED BY <1>3, <2>1
<1> QED BY <1>1, <1>2, <1>3

\* What is left of the others, and where p is, after it begins, ends or proceeds.
LEMMA RequestMoves ==
    ASSUME RequestsOK, NEW p \in Requests
    PROVE  /\ \A plan, t : Begin(p, plan, t) =>
                 /\ At(p) = "idle"
                 /\ req'[p] = [todo |-> plan, token |-> t]
                 /\ \A q \in Requests \ {p} : req'[q] = req[q]
           /\ Finish(p) => At(p)' = "idle" /\ \A q \in Requests \ {p} : req'[q] = req[q]
           /\ Proceed(p) /\ At(p) # "idle" =>
                 At(p)' # "admitted" /\ \A q \in Requests \ {p} : req'[q] = req[q]
<1>1. ASSUME NEW plan, NEW t, Begin(p, plan, t)
      PROVE  /\ At(p) = "idle"
             /\ req'[p] = [todo |-> plan, token |-> t]
             /\ \A q \in Requests \ {p} : req'[q] = req[q]
  BY <1>1 DEF Begin, RequestsOK
<1>2. ASSUME Finish(p)
      PROVE  At(p)' = "idle" /\ \A q \in Requests \ {p} : req'[q] = req[q]
  BY <1>2 DEF Finish, NoRequest, At, RequestsOK
<1>3. ASSUME Proceed(p), At(p) # "idle"
      PROVE  At(p)' # "admitted" /\ \A q \in Requests \ {p} : req'[q] = req[q]
  <2>1. CASE Tail(req[p].todo) = <<>>
    BY <1>2, <1>3, <2>1 DEF Proceed
  <2>2. CASE Tail(req[p].todo) # <<>>
    <3>1. req' = [req EXCEPT ![p].todo = Tail(@)]
      BY <1>3, <2>2 DEF Proceed
    <3>2. /\ req'[p].todo = Tail(req[p].todo)
          /\ \A q \in Requests \ {p} : req'[q] = req[q]
      BY <3>1 DEF RequestsOK, Request
    <3>3. req[p].todo \in Todos /\ req[p].todo # <<>>
      BY <1>3, RequestIs DEF At
    <3>4. Head(Tail(req[p].todo)) # "admitted"
      BY <2>2, <3>3, AdmittedIsFirst
    <3> QED BY <2>2, <3>2, <3>4 DEF At
  <2> QED BY <2>1, <2>2
<1> QED BY <1>1, <1>2, <1>3

\* What an action on p does to who is admitted, when it does nothing to the tokens.
LEMMA RequestLife ==
    ASSUME SessionInv, NEW p \in Requests, Bystands(p), \A t \in Tokens : ~Protect(p, t)
    PROVE  Life!GoesOn(p) \/ UNCHANGED <<Lives, Bearers, redisFailures>>
<1>1. RequestsOK
  BY DEF SessionInv, SessionTypeOK, RequestsOK
<1>2. Lives' = Lives /\ UNCHANGED <<access, revoked>>
  BY BystandsKeepsKeys, LivesKept
<1>3. redisFailures' = redisFailures
  BY DEF Bystands, LoginOrRegister, Login, Register, Refresh, Rotate, Reload, Logout,
         ResetPassword, AccountDeactivated, DropRow, DropRows, End
<1>4. ASSUME At(p) # "admitted", At(p)' # "admitted", \A q \in Requests \ {p} : req'[q] = req[q]
      PROVE  UNCHANGED <<Lives, Bearers, redisFailures>>
  BY <1>2, <1>3, <1>4, BearersKept
<1>5. ASSUME At(p) = "admitted", At(p)' # "admitted", \A q \in Requests \ {p} : req'[q] = req[q]
      PROVE  Life!GoesOn(p)
  BY <1>1, <1>2, <1>3, <1>5, BearerLeaves
<1>6. ASSUME NEW plan, NEW t, Begin(p, plan, t), plan # <<>>, Head(plan) # "admitted"
      PROVE  UNCHANGED <<Lives, Bearers, redisFailures>>
  <2>1. /\ At(p) = "idle"
        /\ req'[p] = [todo |-> plan, token |-> t]
        /\ \A q \in Requests \ {p} : req'[q] = req[q]
    BY <1>1, <1>6, RequestMoves
  <2>2. req'[p].todo = plan
    BY <2>1
  <2>3. At(p)' = Head(plan)
    BY <1>6, <2>2 DEF At
  <2>4. At(p) # "admitted" /\ At(p)' # "admitted"
    BY <1>6, <2>1, <2>3
  <2> QED BY <1>4, <2>1, <2>4
<1>7. ASSUME Finish(p)
      PROVE  Life!GoesOn(p) \/ UNCHANGED <<Lives, Bearers, redisFailures>>
  BY <1>1, <1>4, <1>5, <1>7, RequestMoves
<1>8. ASSUME Proceed(p), At(p) # "idle", At(p) # "admitted"
      PROVE  UNCHANGED <<Lives, Bearers, redisFailures>>
  BY <1>1, <1>4, <1>8, RequestMoves
<1>9. ASSUME At(p) = "admitted", NEW plan, plan # <<>>, Head(plan) # "admitted",
             req' = [req EXCEPT ![p].todo = plan]
      PROVE  Life!GoesOn(p)
  <2>1. req'[p].todo = plan /\ \A q \in Requests \ {p} : req'[q] = req[q]
    BY <1>1, <1>9 DEF RequestsOK, Request
  <2> QED BY <1>5, <1>9, <2>1 DEF At
<1>10. /\ RefreshPlan # <<>> /\ Head(RefreshPlan) # "admitted"
       /\ PasswordPlan # <<>> /\ Head(PasswordPlan) # "admitted"
       /\ LogoutPlan # <<>> /\ Head(LogoutPlan) # "admitted"
       /\ LogoutAllPlan # <<>> /\ Head(LogoutAllPlan) # "admitted"
  BY DEF RefreshPlan, PasswordPlan, LogoutPlan, LogoutAllPlan
<1>11. /\ <<"issue">> # <<>> /\ Head(<<"issue">>) # "admitted"
       /\ <<"block_user">> # <<>> /\ Head(<<"block_user">>) # "admitted"
  OBVIOUS
<1>12. CASE LoginOrRegister(p)
  BY <1>6, <1>11, <1>12 DEF LoginOrRegister, Login, Register
<1>13. CASE \E t \in Tokens : Refresh(p, t)
  BY <1>6, <1>10, <1>13 DEF Refresh
<1>14. CASE Rotate(p) \/ DropRow(p) \/ DropRows(p)
  BY <1>8, <1>14 DEF Rotate, DropRow, DropRows
<1>15. CASE Reload(p)
  BY <1>7, <1>8, <1>15 DEF Reload
<1>16. CASE Logout(p)
  BY <1>9, <1>10, <1>16 DEF Logout
<1>17. CASE ResetPassword(p)
  BY <1>6, <1>10, <1>17 DEF ResetPassword
<1>18. CASE AccountDeactivated(p)
  BY <1>6, <1>9, <1>11, <1>18 DEF AccountDeactivated
<1>19. CASE End(p)
  BY <1>7, <1>19 DEF End
<1> QED BY <1>12, <1>13, <1>14, <1>15, <1>16, <1>17, <1>18, <1>19 DEF Bystands

\* protect admits with a valid token; with a revoked one only if Redis fails.
LEMMA ProtectLife ==
    ASSUME SessionInv, NEW p \in Requests, NEW t \in Tokens, Protect(p, t)
    PROVE  Life!Admitted(p, t)
<1>1. RequestsOK /\ access[t] \in Nat /\ blockedUser \in Nat
  BY SessionsAssumption DEF SessionInv, SessionTypeOK, RequestsOK
<1>2. Lives' = Lives /\ access[t] > 0
  BY LivesKept DEF Protect
<1>3. /\ At(p) = "idle" /\ req'[p] = [todo |-> <<"admitted">>, token |-> t]
      /\ \A q \in Requests \ {p} : req'[q] = req[q]
  BY <1>1, RequestMoves DEF Protect
<1>4. Bearers[p] = NoToken
  BY <1>3 DEF Bearers, Bearer
<1>5. Bearers' = [Bearers EXCEPT ![p] = t]
  <2>1. At(p)' = "admitted"
    BY <1>3 DEF At
  <2>2. ASSUME NEW q \in Requests PROVE Bearer(q)' = IF q = p THEN t ELSE Bearer(q)
    <3>1. CASE q = p
      BY <1>3, <2>1, <3>1 DEF Bearer
    <3>2. CASE q # p
      BY <1>3, <3>2 DEF Bearer, At
    <3> QED BY <3>1, <3>2
  <2> QED BY <2>2 DEF Bearers
<1>6. Lives[t] # "none"
  BY <1>1, <1>2 DEF Lives, LifeOf
<1>7. ASSUME ~Blacklisted(t) PROVE Lives[t] = "valid"
  <2>1. t \notin revoked
    BY <1>1, <1>2, <1>7 DEF SessionInv, KeysOutlive, Blacklisted
  <2> QED BY <1>1, <1>2, <2>1 DEF Lives, LifeOf
<1>8. \/ Lives[t] = "valid" /\ redisFailures' = redisFailures
      \/ Lives[t] # "none" /\ redisFailures' = redisFailures + 1
  BY <1>6, <1>7 DEF Protect, RedisAnswers, RedisFails
<1> QED BY <1>2, <1>4, <1>5, <1>8 DEF Life!Admitted, Lives, Bearers

\* A new token's identity has lapsed before.
LEMMA IssueLife ==
    ASSUME SessionInv, NEW p \in Requests, Issue(p)
    PROVE  \E t \in Tokens : Life!Issued(t)
<1>1. RequestsOK /\ access \in [Tokens -> 0..AccessTTL] /\ At(p) = "issue"
  BY DEF SessionInv, SessionTypeOK, RequestsOK, Issue
<1>2. PICK t \in Tokens : /\ access[t] = 0
                          /\ access' = [access EXCEPT ![t] = AccessTTL]
                          /\ revoked' = revoked \ {t}
  BY DEF Issue, Unused
<1>3. Bearers' = Bearers
  <2>1. Finish(p)
    BY DEF Issue
  <2>2. At(p)' = "idle" /\ \A q \in Requests \ {p} : req'[q] = req[q]
    BY <1>1, <2>1, RequestMoves
  <2>3. At(p) # "admitted" /\ At(p)' # "admitted"
    BY <1>1, <2>2
  <2>4. \A q \in Requests \ {p} : req'[q] = req[q]
    BY <2>2
  <2> QED BY <2>3, <2>4, BearersKept
<1>4. Lives[t] = "none"
  BY <1>2 DEF Lives, LifeOf
<1>5. Lives' = [Lives EXCEPT ![t] = "valid"]
  <2>1. ASSUME NEW s \in Tokens PROVE LifeOf(s)' = IF s = t THEN "valid" ELSE LifeOf(s)
    <3>1. CASE s = t
      <4>1. access'[s] = AccessTTL /\ AccessTTL # 0 /\ s \notin revoked'
        BY <1>1, <1>2, <3>1, SessionsAssumption
      <4> QED BY <3>1, <4>1 DEF LifeOf
    <3>2. CASE s # t
      <4>1. access'[s] = access[s] /\ (s \in revoked' <=> s \in revoked)
        BY <1>1, <1>2, <3>2
      <4> QED BY <3>2, <4>1 DEF LifeOf
    <3> QED BY <3>1, <3>2
  <2> QED BY <2>1 DEF Lives
<1>6. redisFailures' = redisFailures
  BY DEF Issue
<1> QED BY <1>3, <1>4, <1>5, <1>6 DEF Life!Issued, Lives, Bearers

\* Revoking the tokens of S, or those of them that live.
LEMMA RevokeLife ==
    ASSUME NEW S \in SUBSET Tokens, revoked' = revoked \cup S, access' = access
    PROVE  Lives' = [t \in Tokens |-> IF t \in S /\ Lives[t] # "none" THEN "revoked" ELSE Lives[t]]
<1>1. ASSUME NEW t \in Tokens
      PROVE  LifeOf(t)' = IF t \in S /\ LifeOf(t) # "none" THEN "revoked" ELSE LifeOf(t)
  <2>1. CASE t \in S
    <3>1. access'[t] = access[t] /\ t \in revoked'
      BY <2>1
    <3> QED BY <2>1, <3>1 DEF LifeOf
  <2>2. CASE t \notin S
    <3>1. access'[t] = access[t] /\ (t \in revoked' <=> t \in revoked)
      BY <2>2
    <3> QED BY <2>2, <3>1 DEF LifeOf
  <2> QED BY <2>1, <2>2
<1> QED BY <1>1 DEF Lives

LEMMA BlockLife ==
    ASSUME SessionInv, NEW p \in Requests, BlockUser(p) \/ BlockToken(p)
    PROVE  (\E S \in SUBSET Tokens : Life!Revoked(S)) \/ Life!RevocationFails
<1>1. RequestsOK /\ At(p) \notin {"idle", "admitted"} /\ Proceed(p) /\ access' = access
  BY DEF SessionInv, SessionTypeOK, RequestsOK, BlockUser, BlockToken
<1>2. Bearers' = Bearers
  BY <1>1, RequestMoves, BearersKept
<1>3. ASSUME NEW S \in SUBSET Tokens, revoked' = revoked \cup S, redisFailures' = redisFailures
      PROVE  Life!Revoked(S)
  <2>1. Lives' = [t \in Tokens |-> IF t \in S /\ Lives[t] # "none" THEN "revoked" ELSE Lives[t]]
    BY <1>1, <1>3, RevokeLife
  <2> QED BY <1>2, <1>3, <2>1 DEF Life!Revoked, Lives, Bearers
<1>4. ASSUME RedisFails, UNCHANGED revoked PROVE Life!RevocationFails
  <2>1. Lives' = Lives
    BY <1>1, <1>4, LivesKept
  <2> QED BY <1>2, <1>4, <2>1 DEF Life!RevocationFails, RedisFails, Lives, Bearers
<1>5. CASE BlockUser(p)
  <2>1. {t \in Tokens : access[t] > 0} \in SUBSET Tokens
    OBVIOUS
  <2> QED BY <1>3, <1>4, <1>5, <2>1 DEF BlockUser, RedisAnswers
<1>6. CASE BlockToken(p)
  <2>1. {req[p].token} \in SUBSET Tokens
    BY <1>1, <1>6, RestOfPlan DEF BlockToken, At, RequestsOK, RequestInv
  <2> QED BY <1>3, <1>4, <1>6, <2>1 DEF BlockToken, RedisAnswers
<1> QED BY <1>5, <1>6

LEMMA TickLife ==
    ASSUME SessionInv, SessionTick
    PROVE  \E S \in SUBSET Tokens : Life!Lapsed(S)
<1> DEFINE S == {t \in Tokens : access'[t] = 0}
<1>1. \A t \in Tokens : access[t] \in Nat /\ access'[t] = Down(access[t])
  BY SessionsAssumption DEF SessionInv, SessionTypeOK, SessionTick
<1>2. Lives' = [t \in Tokens |-> IF t \in S THEN "none" ELSE Lives[t]]
  <2>1. ASSUME NEW t \in Tokens PROVE LifeOf(t)' = IF t \in S THEN "none" ELSE LifeOf(t)
    <3>1. CASE t \in S
      <4>1. access'[t] = 0
        BY <3>1
      <4>2. LifeOf(t)' = "none"
        BY <4>1 DEF LifeOf
      <4> QED BY <3>1, <4>2
    <3>2. CASE t \notin S
      <4>1. access[t] # 0 /\ access'[t] # 0 /\ revoked' = revoked
        BY <1>1, <3>2 DEF Down, SessionTick
      <4> QED BY <3>2, <4>1 DEF LifeOf
    <3> QED BY <3>1, <3>2
  <2> QED BY <2>1 DEF Lives
<1>3. UNCHANGED <<Bearers, redisFailures>>
  BY DEF SessionTick, Bearers, Bearer, At
<1>4. Life!Lapsed(S)
  BY <1>2, <1>3 DEF Life!Lapsed, Lives, Bearers
<1> QED BY <1>4

LEMMA LifeStep == SessionInv /\ [SessionNext]_sessionVars => [Life!LifeNext]_Life!lifeVars
<1> SUFFICES ASSUME SessionInv, [SessionNext]_sessionVars
             PROVE  Life!LifeNext \/ UNCHANGED <<Lives, Bearers, redisFailures>>
  BY DEF Life!lifeVars, Lives, Bearers
<1>1. ASSUME NEW p \in Requests, NEW t \in Tokens, Protect(p, t) PROVE Life!LifeNext
  BY <1>1, ProtectLife DEF Life!LifeNext
<1>2. ASSUME NEW p \in Requests, Bystands(p), \A t \in Tokens : ~Protect(p, t)
      PROVE  Life!LifeNext \/ UNCHANGED <<Lives, Bearers, redisFailures>>
  BY <1>2, RequestLife DEF Life!LifeNext
<1>3. ASSUME NEW p \in Requests, Issue(p) PROVE Life!LifeNext
  BY <1>3, IssueLife DEF Life!LifeNext
<1>4. ASSUME NEW p \in Requests, BlockUser(p) \/ BlockToken(p) PROVE Life!LifeNext
  BY <1>4, BlockLife DEF Life!LifeNext
<1>5. CASE SessionTick
  BY <1>5, TickLife DEF Life!LifeNext
<1>6. CASE AccountActivated \/ UNCHANGED sessionVars
  BY <1>6 DEF AccountActivated, sessionVars, Lives, LifeOf, Bearers, Bearer, At
<1> QED BY <1>1, <1>2, <1>3, <1>4, <1>5, <1>6 DEF SessionNext, Bystands

\* Sessions keep what TokenLife promises, for any number of tokens, requests and failures.
THEOREM TokensLiveOnce == SessionSpec => TokensKeepTheirLife
<1>1. SessionInit => Life!LifeInit
  <2> SUFFICES ASSUME SessionInit PROVE Life!LifeInit
    OBVIOUS
  <2>1. Lives = [t \in Tokens |-> "none"]
    BY DEF SessionInit, Lives, LifeOf
  <2>2. Bearers = [p \in Requests |-> NoToken]
    BY DEF SessionInit, Bearers, Bearer, At, NoRequest
  <2> QED BY <2>1, <2>2 DEF Life!LifeInit, SessionInit, Lives, Bearers
<1> QED BY <1>1, LifeStep, SessionInvariance, PTL
        DEF SessionSpec, TokensKeepTheirLife, Life!LifeSpec

-----------------------------------------------------------------------------
(* The user cache *)

Fresh(role) == user.active /\ role = user.role

\* What a request is about to cache was overtaken after it was read: within its own age.
FillsAreRecent ==
    \A p \in Calls : call[p].at = "fill" => Fresh(call[p].role) \/ lag <= call[p].age

\* What is cached was overtaken before its fill, by less than the age of that request.
CopyIsRecent == cached.left > 0 => Fresh(cached.role) \/ lag + cached.left <= StaleFor

\* Once shut, bl:user outlasts the requests that may still fill, and what is cached.
BanOutlasts ==
    shut => /\ ~user.active
            /\ \A p \in Calls : call[p].at = "fill" => ban + call[p].age >= StaleFor
            /\ cached.left > 0 => ban >= cached.left

CacheInv == CacheTypeOK /\ FillsAreRecent /\ CopyIsRecent /\ BanOutlasts

LEMMA Times ==
    /\ UserBlacklistTTL \in Nat \ {0} /\ CacheTTL \in Nat \ {0} /\ RequestTime \in Nat \ {0}
    /\ StaleFor = RequestTime + CacheTTL /\ StaleFor <= UserBlacklistTTL
BY CacheTimesAssumption DEF StaleFor

LEMMA CacheInitInv == CacheInit => CacheInv
<1> SUFFICES ASSUME CacheInit PROVE CacheInv
  OBVIOUS
<1> USE Times, CacheTimesAssumption DEF CacheInit
<1>1. NoCall \in Call /\ NoCall.at = "idle"
  BY DEF Call, NoCall, Places, Roles
<1>2. user \in UserRow /\ cached \in [role : Roles, left : 0..CacheTTL]
  BY DEF UserRow, Roles
<1>3. call \in [Calls -> Call]
  BY <1>1
<1>4. ban \in 0..UserBlacklistTTL /\ cacheFailures \in 0..MaxCacheFailures /\ lag \in 0..StaleFor
  OBVIOUS
<1>5. CacheTypeOK
  BY <1>2, <1>3, <1>4 DEF CacheTypeOK
<1> QED BY <1>1, <1>5 DEF CacheInv, FillsAreRecent, CopyIsRecent, BanOutlasts

\* A request that goes to another place keeps its age.
LEMMA CallGoes ==
    ASSUME call \in [Calls -> Call], NEW p \in Calls, NEW place \in Places, NEW role \in Roles,
           GoTo(p, place, role)
    PROVE  /\ call' \in [Calls -> Call]
           /\ \A q \in Calls \ {p} : call'[q] = call[q]
           /\ call'[p].at = place /\ call'[p].role = role /\ call'[p].age = call[p].age
BY DEF Call, GoTo

LEMMA CallStarts ==
    ASSUME call \in [Calls -> Call], NEW p \in Calls, NEW place \in Places, Start(p, place)
    PROVE  /\ call' \in [Calls -> Call]
           /\ \A q \in Calls \ {p} : call'[q] = call[q]
           /\ call'[p].at = place
BY DEF Call, Start

LEMMA CallReturns ==
    ASSUME call \in [Calls -> Call], NEW p \in Calls, Return(p)
    PROVE  /\ call' \in [Calls -> Call]
           /\ \A q \in Calls \ {p} : call'[q] = call[q]
           /\ call'[p].at = "idle"
<1>1. NoCall \in Call /\ NoCall.at = "idle"
  BY Times DEF Call, NoCall, Places, Roles
<1> QED BY <1>1 DEF Return

\* What a step does to the places of requests that are not about to fill.
NoNewFill(p) ==
    /\ call' \in [Calls -> Call]
    /\ \A q \in Calls \ {p} : call'[q] = call[q]
    /\ call'[p].at # "fill"

LEMMA MovesOn ==
    ASSUME call \in [Calls -> Call], NEW p \in Calls,
           NEW place \in Places \ {"fill"}, NEW role \in Roles,
           GoTo(p, place, role) \/ Start(p, place) \/ Return(p)
    PROVE  NoNewFill(p)
BY CallGoes, CallStarts, CallReturns DEF NoNewFill

LEMMA PlacesAndRoles ==
    /\ {"idle", "load", "read", "admitted", "save_role", "block", "drop"} \subseteq Places \ {"fill"}
    /\ "fill" \in Places
    /\ {"pending", "rider", "driver"} = Roles
BY DEF Places, Roles

\* The row is saved: whoever read it before is now older than the change.
LEMMA SavesInv ==
    ASSUME CacheInv, NEW p \in Calls, NEW row \in UserRow, Save(row), NoNewFill(p),
           UNCHANGED <<ban, cached, cacheFailures>>,
           shut' = (shut /\ ~row.active)
    PROVE  CacheInv'
<1> USE Times
<1>1. CacheTypeOK'
  BY DEF CacheInv, CacheTypeOK, Save, NoNewFill
<1>2. CASE row = user
  BY <1>1, <1>2
     DEF CacheInv, CacheTypeOK, FillsAreRecent, CopyIsRecent, BanOutlasts, Save, NoNewFill, Fresh
<1>3. CASE row # user
  <2>1. lag' = 0 /\ user' = row
    BY <1>3 DEF Save
  <2>2. FillsAreRecent' /\ CopyIsRecent'
    BY <1>1, <2>1 DEF CacheTypeOK, FillsAreRecent, CopyIsRecent, Call
  <2>3. BanOutlasts'
    BY <2>1 DEF CacheInv, BanOutlasts, NoNewFill
  <2> QED BY <1>1, <2>2, <2>3 DEF CacheInv
<1> QED BY <1>2, <1>3

\* A step that leaves the row and the keys alone, or takes from them.
LEMMA LeavesInv ==
    ASSUME CacheInv, NEW p \in Calls, NoNewFill(p), UNCHANGED <<user, ban, lag, shut>>,
           cached' = cached \/ cached' = [cached EXCEPT !.left = 0],
           cacheFailures' \in 0..MaxCacheFailures
    PROVE  CacheInv'
<1> USE Times
<1>1. CacheTypeOK'
  BY DEF CacheInv, CacheTypeOK, NoNewFill
<1>2. FillsAreRecent'
  BY DEF CacheInv, FillsAreRecent, NoNewFill, Fresh
<1>3. CopyIsRecent' /\ BanOutlasts'
  BY DEF CacheInv, CacheTypeOK, CopyIsRecent, BanOutlasts, NoNewFill, Fresh
<1> QED BY <1>1, <1>2, <1>3 DEF CacheInv

LEMMA ReadInv == ASSUME CacheInv, NEW p \in Calls, Read(p) PROVE CacheInv'
<1> USE Times, PlacesAndRoles
<1>0. CacheTypeOK /\ call \in [Calls -> Call] /\ user.role \in Roles
  BY DEF CacheInv, CacheTypeOK, UserRow
<1>1. CASE ~user.active
  BY <1>0, <1>1, MovesOn, LeavesInv DEF Read, CacheTypeOK
<1>2. CASE user.active
  <2>1. GoTo(p, "fill", user.role) /\ UNCHANGED <<user, ban, cached, cacheFailures, lag, shut>>
    BY <1>2 DEF Read
  <2>2. /\ call' \in [Calls -> Call]
        /\ \A q \in Calls \ {p} : call'[q] = call[q]
        /\ call'[p].role = user.role
    BY <1>0, <2>1, CallGoes
  <2>3. ~shut
    BY <1>2 DEF CacheInv, BanOutlasts
  <2> QED BY <1>0, <1>2, <2>1, <2>2, <2>3
          DEF CacheInv, CacheTypeOK, FillsAreRecent, CopyIsRecent, BanOutlasts, Fresh
<1> QED BY <1>1, <1>2

LEMMA FillInv == ASSUME CacheInv, NEW p \in Calls, Fill(p) PROVE CacheInv'
<1> USE Times, PlacesAndRoles
<1>0. CacheTypeOK /\ call \in [Calls -> Call] /\ call[p] \in Call
      /\ call[p].role \in Roles /\ call[p].age \in 0..RequestTime
  BY DEF CacheInv, CacheTypeOK, Call
<1>1. NoNewFill(p)
  BY <1>0, MovesOn DEF Fill
<1>2. CASE UNCHANGED cached
  <2>1. cacheFailures' \in 0..MaxCacheFailures
    BY <1>0, CacheTimesAssumption DEF Fill, CacheTypeOK, CacheAnswers, CacheFails
  <2> QED BY <1>1, <1>2, <2>1, LeavesInv DEF Fill
<1>3. CASE CacheAnswers /\ cached' = [role |-> call[p].role, left |-> CacheTTL]
  <2>1. CacheTypeOK'
    BY <1>0, <1>1, <1>3 DEF CacheTypeOK, NoNewFill, Fill, CacheAnswers
  <2>2. FillsAreRecent'
    BY <1>1 DEF CacheInv, FillsAreRecent, NoNewFill, Fresh, Fill
  <2>3. CopyIsRecent'
    <3>1. Fresh(call[p].role) \/ lag <= call[p].age
      BY DEF CacheInv, FillsAreRecent, Fill
    <3>2. lag \in Nat
      BY <1>0 DEF CacheTypeOK
    <3>3. cached'.role = call[p].role /\ cached'.left = CacheTTL /\ lag' = lag /\ user' = user
      BY <1>3 DEF Fill
    <3> QED BY <1>0, <3>1, <3>2, <3>3 DEF CopyIsRecent, Fresh
  <2>4. BanOutlasts'
    <3>1. shut => ~user.active /\ ban + call[p].age >= StaleFor
      BY DEF CacheInv, BanOutlasts, Fill
    <3>2. cached'.left = CacheTTL /\ ban \in Nat
      BY <1>0, <1>3 DEF CacheTypeOK
    <3> QED BY <1>0, <1>1, <3>1, <3>2 DEF CacheInv, BanOutlasts, NoNewFill, Fill
  <2> QED BY <2>1, <2>2, <2>3, <2>4 DEF CacheInv
<1> QED BY <1>2, <1>3 DEF Fill

LEMMA BlockInv == ASSUME CacheInv, NEW p \in Calls, Block(p) PROVE CacheInv'
<1> USE Times, PlacesAndRoles
<1>0. CacheTypeOK /\ call \in [Calls -> Call]
  BY DEF CacheInv, CacheTypeOK
<1>1. NoNewFill(p)
  BY <1>0, MovesOn DEF Block
<1>2. CASE CacheFails /\ UNCHANGED <<ban, shut>>
  <2>1. cacheFailures' \in 0..MaxCacheFailures
    BY <1>0, <1>2, CacheTimesAssumption DEF CacheTypeOK, CacheFails
  <2> QED BY <1>1, <1>2, <2>1, LeavesInv DEF Block
<1>3. CASE CacheAnswers /\ ban' = UserBlacklistTTL /\ shut' = (shut \/ ~user.active)
  <2>1. CacheTypeOK'
    BY <1>0, <1>1, <1>3 DEF CacheTypeOK, NoNewFill, Block, CacheAnswers
  <2>2. FillsAreRecent' /\ CopyIsRecent'
    BY <1>1 DEF CacheInv, FillsAreRecent, CopyIsRecent, NoNewFill, Fresh, Block
  <2>3. shut' => ~user'.active
    BY <1>3 DEF CacheInv, BanOutlasts, Block
  <2>4. \A q \in Calls : call'[q].at = "fill" => ban' + call'[q].age >= StaleFor
    BY <1>3, <2>1 DEF CacheTypeOK, Call
  <2>5. cached'.left > 0 => ban' >= cached'.left
    BY <1>3, <2>1 DEF CacheTypeOK
  <2> QED BY <2>1, <2>2, <2>3, <2>4, <2>5 DEF CacheInv, BanOutlasts
<1> QED BY <1>2, <1>3 DEF Block

LEMMA CacheTickInv == ASSUME CacheInv, CacheTick PROVE CacheInv'
<1> USE Times
<1>0. CacheTypeOK /\ FillsAreRecent /\ CopyIsRecent /\ BanOutlasts
  BY DEF CacheInv
<1>1. \A p \in Calls : /\ call'[p].at = call[p].at /\ call'[p].role = call[p].role
                       /\ call[p].age < RequestTime /\ call[p].age \in Nat
                       /\ call[p].at # "idle" => call'[p].age = call[p].age + 1
                       /\ call'[p] \in Call
  BY <1>0 DEF CacheTypeOK, CacheTick, Call
<1>2. /\ lag \in Nat /\ lag' \in 0..StaleFor /\ (lag' = lag + 1 \/ (lag = StaleFor /\ lag' = lag))
      /\ user' = user /\ shut' = shut /\ cacheFailures' = cacheFailures
  <2>1. lag \in 0..StaleFor /\ StaleFor \in Nat
    BY <1>0 DEF CacheTypeOK, StaleFor
  <2>2. lag' = IF lag < StaleFor THEN lag + 1 ELSE lag
    BY DEF CacheTick
  <2>3. user' = user /\ shut' = shut /\ cacheFailures' = cacheFailures
    BY DEF CacheTick
  <2>4. lag \in Nat /\ lag' \in 0..StaleFor /\ (lag' = lag + 1 \/ (lag = StaleFor /\ lag' = lag))
    BY <2>1, <2>2
  <2> QED BY <2>3, <2>4
<1>3. /\ cached.left \in 0..CacheTTL /\ ban \in 0..UserBlacklistTTL
      /\ cached' \in [role : Roles, left : 0..CacheTTL] /\ cached'.role = cached.role
      /\ cached'.left = IF cached.left = 0 THEN 0 ELSE cached.left - 1
      /\ ban' = IF ban = 0 THEN 0 ELSE ban - 1
  BY <1>0 DEF CacheTypeOK, CacheTick, Less
<1>4. CacheTypeOK'
  <2>1. call' \in [Calls -> Call]
    BY <1>1 DEF CacheTick
  <2> QED BY <1>0, <1>2, <1>3, <2>1 DEF CacheTypeOK
<1>5. FillsAreRecent'
  BY <1>0, <1>1, <1>2 DEF FillsAreRecent, Fresh
<1>6. CopyIsRecent'
  BY <1>0, <1>2, <1>3 DEF CopyIsRecent, Fresh
<1>7. BanOutlasts'
  BY <1>0, <1>1, <1>2, <1>3 DEF BanOutlasts
<1> QED BY <1>4, <1>5, <1>6, <1>7 DEF CacheInv

LEMMA CacheStepInv == CacheInv /\ [CacheNext]_cacheVars => CacheInv'
<1> SUFFICES ASSUME CacheInv, [CacheNext]_cacheVars PROVE CacheInv'
  OBVIOUS
<1> USE Times, PlacesAndRoles
<1>0. CacheTypeOK /\ call \in [Calls -> Call] /\ user \in UserRow
      /\ cacheFailures \in 0..MaxCacheFailures /\ MaxCacheFailures \in Nat
      /\ cached.role \in Roles /\ \A p \in Calls : call[p].role \in Roles
  BY CacheTimesAssumption DEF CacheInv, CacheTypeOK, Call
<1>1. ASSUME NEW p \in Calls, Check(p) PROVE CacheInv'
  BY <1>0, <1>1, MovesOn, LeavesInv DEF Check, CacheAnswers, CacheFails
<1>2. ASSUME NEW p \in Calls, Load(p) PROVE CacheInv'
  BY <1>0, <1>2, MovesOn, LeavesInv DEF Load, CacheAnswers, CacheFails
<1>3. ASSUME NEW p \in Calls, Read(p) \/ Fill(p) \/ Block(p) PROVE CacheInv'
  BY <1>3, ReadInv, FillInv, BlockInv
<1>4. ASSUME NEW p \in Calls, Deactivate(p) PROVE CacheInv'
  <2>1. NoNewFill(p)
    BY <1>0, <1>4, MovesOn DEF Deactivate
  <2>2. [user EXCEPT !.active = FALSE] \in UserRow
    BY <1>0 DEF UserRow
  <2> QED BY <1>0, <1>4, <2>1, <2>2, SavesInv DEF Deactivate, UserRow, CacheInv, CacheTypeOK
<1>5. ASSUME NEW p \in Calls, Drop(p) PROVE CacheInv'
  BY <1>0, <1>5, MovesOn, LeavesInv DEF Drop, CacheAnswers, CacheFails
<1>6. ASSUME NEW p \in Calls, Activate(p) PROVE CacheInv'
  <2>1. NoNewFill(p)
    BY <1>0, <1>6, MovesOn DEF Activate
  <2>2. [user EXCEPT !.active = TRUE] \in UserRow
    BY <1>0 DEF UserRow
  <2> QED BY <1>0, <1>6, <2>1, <2>2, SavesInv DEF Activate, UserRow
<1>7. ASSUME NEW p \in Calls, ApproveDriver(p) PROVE CacheInv'
  <2>1. NoNewFill(p)
    BY <1>0, <1>7, MovesOn DEF ApproveDriver
  <2>2. [user EXCEPT !.role = "driver"] \in UserRow
        /\ [user EXCEPT !.role = "driver"].active = user.active
    BY <1>0 DEF UserRow
  <2>3. shut' = (shut /\ ~user.active)
    BY <1>7 DEF ApproveDriver, CacheInv, BanOutlasts, CacheTypeOK
  <2> QED BY <1>7, <2>1, <2>2, <2>3, SavesInv DEF ApproveDriver
<1>8. ASSUME NEW p \in Calls, NEW role \in {"rider", "driver"}, SetRole(p, role) PROVE CacheInv'
  BY <1>0, <1>8, MovesOn, LeavesInv DEF SetRole
<1>9. ASSUME NEW p \in Calls, SaveRole(p) PROVE CacheInv'
  <2>1. NoNewFill(p)
    BY <1>0, <1>9, MovesOn DEF SaveRole
  <2>2. [user EXCEPT !.role = call[p].role] \in UserRow
        /\ [user EXCEPT !.role = call[p].role].active = user.active
    BY <1>0 DEF UserRow
  <2>3. shut' = (shut /\ ~user.active)
    BY <1>9 DEF SaveRole, CacheInv, BanOutlasts, CacheTypeOK
  <2> QED BY <1>9, <2>1, <2>2, <2>3, SavesInv DEF SaveRole
<1>10. ASSUME NEW p \in Calls, CallEnds(p) PROVE CacheInv'
  BY <1>0, <1>10, MovesOn, LeavesInv DEF CallEnds
<1>11. CASE CacheTick
  BY <1>11, CacheTickInv
<1>12. CASE UNCHANGED cacheVars
  BY <1>12 DEF CacheInv, CacheTypeOK, FillsAreRecent, CopyIsRecent, BanOutlasts, Fresh, cacheVars
<1> QED BY <1>1, <1>2, <1>3, <1>4, <1>5, <1>6, <1>7, <1>8, <1>9, <1>10, <1>11, <1>12 DEF CacheNext

\* CacheInv holds in every reachable state.
THEOREM CacheInvariance == CacheSpec => []CacheInv
<1> QED BY CacheInitInv, CacheStepInv, PTL DEF CacheSpec

\* The row, its copy and the requests keep their types.
THEOREM CacheTypes == CacheSpec => []CacheTypeOK
<1>1. CacheInv => CacheTypeOK
  BY DEF CacheInv
<1> QED BY <1>1, CacheInvariance, PTL

\* Whatever invalidation is lost or overtaken by a fill, a stale copy of the users row is
\* gone after the longest request and USER_CACHE_TTL.
THEOREM StaleCopyLapses == CacheSpec => []StaleRowLapses
<1>1. CacheInv => StaleRowLapses
  <2> SUFFICES ASSUME CacheInv, cached.left > 0, lag = StaleFor
               PROVE  user.active /\ cached.role = user.role
    BY DEF StaleRowLapses
  <2>1. cached.left \in Nat /\ lag + cached.left > StaleFor
    BY Times DEF CacheInv, CacheTypeOK
  <2>2. ~(lag + cached.left <= StaleFor)
    BY <2>1, Times
  <2> QED BY <2>2 DEF CacheInv, CopyIsRecent, Fresh
<1> QED BY <1>1, CacheInvariance, PTL

\* The lifetime of bl:user covers every copy of a deactivated user that may still be made.
THEOREM DeactivatedStaysOut == CacheSpec => []ShutAccountStaysShut
<1>1. CacheInv => ShutAccountStaysShut
  BY Times DEF CacheInv, CacheTypeOK, BanOutlasts, ShutAccountStaysShut
<1> QED BY <1>1, CacheInvariance, PTL
=============================================================================
