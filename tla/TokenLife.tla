------------------------------ MODULE TokenLife ------------------------------
(***************************************************************************)
(* What the sessions of a user promise about access tokens: a token is     *)
(* valid from its issue until it is revoked or lapses, a revoked one never *)
(* becomes valid again, and a request is admitted with a valid token only, *)
(* unless a failure of Redis hides that the token was revoked.             *)
(***************************************************************************)
EXTENDS Naturals

CONSTANTS Tokens, Requests, NoToken

VARIABLES life,     \* of each token: "none" (never issued, or lapsed), "valid" or "revoked"
          bearer,   \* the token that each request has been admitted with, until it goes on
          failures  \* failures of Redis

lifeVars == <<life, bearer, failures>>

LifeInit ==
    /\ life = [t \in Tokens |-> "none"]
    /\ bearer = [p \in Requests |-> NoToken]
    /\ failures = 0

Issued(t) ==
    /\ life[t] = "none"
    /\ life' = [life EXCEPT ![t] = "valid"]
    /\ UNCHANGED <<bearer, failures>>

\* The tokens of S, as far as they live, are revoked at once.
Revoked(S) ==
    /\ life' = [t \in Tokens |-> IF t \in S /\ life[t] # "none" THEN "revoked" ELSE life[t]]
    /\ UNCHANGED <<bearer, failures>>

Lapsed(S) ==
    /\ life' = [t \in Tokens |-> IF t \in S THEN "none" ELSE life[t]]
    /\ UNCHANGED <<bearer, failures>>

Admitted(p, t) ==
    /\ bearer[p] = NoToken
    /\ \/ life[t] = "valid" /\ failures' = failures
       \/ life[t] # "none" /\ failures' = failures + 1
    /\ bearer' = [bearer EXCEPT ![p] = t]
    /\ UNCHANGED life

\* The request goes on to what it asks for, or ends.
GoesOn(p) ==
    /\ bearer[p] # NoToken
    /\ bearer' = [bearer EXCEPT ![p] = NoToken]
    /\ UNCHANGED <<life, failures>>

\* A revocation fails.
RevocationFails ==
    /\ failures' = failures + 1
    /\ UNCHANGED <<life, bearer>>

LifeNext ==
    \/ \E t \in Tokens : Issued(t)
    \/ \E S \in SUBSET Tokens : Revoked(S) \/ Lapsed(S)
    \/ \E p \in Requests : GoesOn(p) \/ \E t \in Tokens : Admitted(p, t)
    \/ RevocationFails

LifeSpec == LifeInit /\ [][LifeNext]_lifeVars
=============================================================================
