---------------------------- MODULE Idempotency -----------------------------
(***************************************************************************)
(* Requests that carry the same Idempotency-Key of one user, and the       *)
(* answer that the middleware keeps under idempotency:<user>:<key>.  The   *)
(* handler behind it is any of those the routes put it before: requesting  *)
(* a ride, accepting it, topping up.  It commits, and may still fail       *)
(* before it has answered: acceptRide reads the driver's profile after its *)
(* commit.  Only a 2xx is kept.                                            *)
(***************************************************************************)
EXTENDS Naturals, FiniteSets

CONSTANTS Retries \* requests with the key

ASSUME IdempotencyAssumption == IsFiniteSet(Retries)

VARIABLES answer,  \* an answer is kept under the key
          retry,   \* where each request stands
          effects, \* requests that took effect
          slips    \* history: lookups that missed while another request was past its own and
                   \* its answer not yet kept, lookups that Redis did not answer, effects
                   \* whose answer was never kept, and answers that lapsed

idemVars == <<answer, retry, effects, slips>>

\* Past the check, with the answer to be kept or not; committed; answered 2xx, with the
\* answer being kept.
RetryStages == {"new", "handled", "unguarded", "committed", "keep", "ended"}

RetryGoes(p, to) == retry' = [retry EXCEPT ![p] = to]

\* Requests whose answer, if it is a 2xx, will be kept.
UnderWay == {p \in Retries : retry[p] \in {"handled", "committed", "keep"}}

Slip == slips' = slips + 1

-----------------------------------------------------------------------------
IdemInit ==
    /\ answer = FALSE
    /\ retry = [p \in Retries |-> "new"]
    /\ effects = 0 /\ slips = 0

\* The kept answer is sent again.
Replay(p) ==
    /\ retry[p] = "new" /\ answer
    /\ RetryGoes(p, "ended")
    /\ UNCHANGED <<answer, effects, slips>>

\* Nothing is kept, and the request goes on to the handler.
Miss(p) ==
    /\ retry[p] = "new" /\ ~answer
    /\ RetryGoes(p, "handled")
    /\ IF UnderWay = {} THEN UNCHANGED slips ELSE Slip
    /\ UNCHANGED <<answer, effects>>

\* Redis does not answer: fail open.
LookupFails(p) ==
    /\ retry[p] = "new"
    /\ RetryGoes(p, "unguarded")
    /\ Slip
    /\ UNCHANGED <<answer, effects>>

\* The handler commits.  Nothing else of a request that is not guarded matters here.
TakeEffect(p) ==
    /\ retry[p] \in {"handled", "unguarded"}
    /\ effects' = effects + 1
    /\ RetryGoes(p, IF retry[p] = "handled" THEN "committed" ELSE "ended")
    /\ UNCHANGED <<answer, slips>>

\* Mutant: a 200 is not taken for a success.
AnswerUnkept(p) ==
    /\ retry[p] = "committed"
    /\ RetryGoes(p, "ended")
    /\ UNCHANGED <<answer, effects, slips>>

\* It answers 2xx, and setex is sent, for which the answer does not wait.
Answer(p) ==
    /\ retry[p] = "committed"
    /\ RetryGoes(p, "keep")
    /\ UNCHANGED <<answer, effects, slips>>

\* It refuses, without effect, or the process dies before it has committed.
Refuse(p) ==
    /\ retry[p] \in {"handled", "unguarded"}
    /\ RetryGoes(p, "ended")
    /\ UNCHANGED <<answer, effects, slips>>

\* A read after its commit fails and the answer is a 500, which is not kept; or the process
\* dies after the commit; or setex fails.
AnswerLost(p) ==
    /\ retry[p] \in {"committed", "keep"}
    /\ RetryGoes(p, "ended")
    /\ Slip
    /\ UNCHANGED <<answer, effects>>

\* setex is done.
KeepAnswer(p) ==
    /\ retry[p] = "keep"
    /\ RetryGoes(p, "ended")
    /\ answer' = TRUE
    /\ UNCHANGED <<effects, slips>>

\* IDEMPOTENCY_TTL is over.
AnswerLapses ==
    /\ answer
    /\ answer' = FALSE
    /\ Slip
    /\ UNCHANGED <<retry, effects>>

IdemNext ==
    \/ \E p \in Retries : \/ Replay(p) \/ Miss(p) \/ LookupFails(p)
                          \/ TakeEffect(p) \/ Answer(p) \/ Refuse(p)
                          \/ AnswerLost(p) \/ KeepAnswer(p)
    \/ AnswerLapses

IdemSpec == IdemInit /\ [][IdemNext]_idemVars

-----------------------------------------------------------------------------
(* Properties *)

\* The key and the requests keep their types.
IdemTypeOK ==
    /\ answer \in BOOLEAN
    /\ retry \in [Retries -> RetryStages]
    /\ effects \in Nat /\ slips \in Nat

\* What is kept is the answer to an effect, so a refusal can be tried again.  Requests with
\* one key take effect once, and once more at most for each of these: a lookup that misses
\* while another request is between its own and its answer's setex; a lookup that Redis
\* fails; an effect whose answer is not kept, the handler having failed after its commit,
\* the process died or setex failed; an answer that has lapsed.
RetryIsHarmless == /\ answer => effects > 0
                   /\ effects <= 1 + slips
=============================================================================
