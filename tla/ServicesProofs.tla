--------------------------- MODULE ServicesProofs ---------------------------
(***************************************************************************)
(* What holds of the services around a ride for any number of riders,      *)
(* ratings, retries, devices, connections, jobs and years and any delays:  *)
(* theorems of each service's own specification and, at the end, that      *)
(* their composition implements each of them and keeps what they keep.     *)
(***************************************************************************)
EXTENDS MCServices, SchemaProofs, FiniteSetTheorems, WellFoundedInduction, TLAPS

-----------------------------------------------------------------------------
(* Shared rides *)

\* Unless the seats were muddled, whoever is about to save seats has read the present ones,
\* and nobody who is leaving has got his seat back before.
LeavesAreFresh ==
    ~muddled => \A p \in Riders : /\ leave[p].at = "save" => leave[p].read = seats
                                  /\ leave[p].at # "idle" => p \notin restored

\* Whoever leaves or has left has joined.
LeaversJoined ==
    \A p \in Riders : leave[p].at # "idle" \/ p \in restored => passenger[p] # "none"

SharedInv == SharedTypeOK /\ LeavesAreFresh /\ LeaversJoined /\ SeatsAddUp

LEMMA SeatedSets ==
    /\ Seated \subseteq Riders /\ IsFiniteSet(Seated) /\ Cardinality(Seated) \in Nat
    /\ \A p \in Riders \ Seated : Cardinality(Seated \cup {p}) = Cardinality(Seated) + 1
    /\ \A p \in Seated : Cardinality(Seated \ {p}) = Cardinality(Seated) - 1
<1>1. Seated \subseteq Riders
  BY DEF Seated
<1>2. IsFiniteSet(Seated)
  BY <1>1, SharedAssumption, FS_Subset
<1> QED BY <1>1, <1>2, FS_CardinalityType, FS_AddElement, FS_RemoveElement

LEMMA SharedInitInv == SharedInit => SharedInv
<1> SUFFICES ASSUME SharedInit PROVE SharedInv
  OBVIOUS
<1> USE SharedAssumption DEF SharedInit
<1>1. SharedTypeOK
  BY DEF SharedTypeOK, PassengerRows, PassengerStatus, Leaving, NoLeave
<1>2. SeatsAddUp
  <2>1. Seated = {}
    BY DEF Seated
  <2> QED BY <2>1, FS_EmptySet DEF SeatsAddUp
<1> QED BY <1>1, <1>2 DEF SharedInv, LeavesAreFresh, LeaversJoined, NoLeave

\* A leave request that goes on.
LEMMA LeaveGoes ==
    ASSUME leave \in [Riders -> Leaving], NEW p \in Riders, NEW new \in Leaving,
           leave' = [leave EXCEPT ![p] = new]
    PROVE  /\ leave' \in [Riders -> Leaving] /\ leave'[p] = new
           /\ \A q \in Riders \ {p} : leave'[q] = leave[q]
OBVIOUS

LEMMA JoinInv == ASSUME SharedInv, NEW p \in Riders, Join(p) PROVE SharedInv'
<1> USE DEF SharedInv
<1>0. /\ seats \in Nat /\ seats > 0 /\ seats' = seats - 1 /\ passenger[p] = "none"
      /\ passenger \in [Riders -> PassengerStatus] /\ leave' = leave /\ restored' = restored
  BY DEF SharedTypeOK, PassengerRows, Join
<1>1. /\ passenger' \in [Riders -> PassengerStatus] /\ passenger'[p] = "pending"
      /\ \A q \in Riders \ {p} : passenger'[q] = passenger[q]
  BY <1>0 DEF Join, PassengerStatus
<1>2. muddled' = (muddled \/ ReadByOthers(p))
  BY DEF Join
<1>3. muddled' \in BOOLEAN
  BY <1>2
<1>4. SharedTypeOK'
  BY <1>0, <1>1, <1>3 DEF SharedTypeOK, PassengerRows
<1>5. leave[p].at = "idle" /\ p \notin restored
  BY <1>0 DEF LeaversJoined
<1>6. LeavesAreFresh'
  BY <1>0, <1>2, <1>5 DEF LeavesAreFresh, ReadByOthers
<1>7. LeaversJoined'
  BY <1>0, <1>1 DEF LeaversJoined
<1>8. SeatsAddUp'
  <2>1. Seated' = Seated \cup {p} /\ p \in Riders \ Seated
    BY <1>0, <1>1, <1>5 DEF Seated
  <2>2. Cardinality(Seated) \in Nat /\ Cardinality(Seated') = Cardinality(Seated) + 1
    BY <2>1, SeatedSets
  <2>3. ~muddled' => seats + Cardinality(Seated) = Seats
    BY <1>2 DEF SeatsAddUp
  <2>4. ~muddled' => seats' + Cardinality(Seated') = Seats
    BY <1>0, <2>2, <2>3, SharedAssumption
  <2> QED BY <2>4 DEF SeatsAddUp
<1> QED BY <1>4, <1>6, <1>7, <1>8

LEMMA MarkPassengerInv ==
    ASSUME SharedInv, NEW p \in Riders, NEW status \in {"picked_up", "dropped_off"},
           MarkPassenger(p, status)
    PROVE  SharedInv'
<1> USE DEF SharedInv
<1>0. /\ passenger \in [Riders -> PassengerStatus] /\ passenger[p] # "none"
      /\ UNCHANGED <<seats, leave, restored, muddled>>
  BY DEF SharedTypeOK, PassengerRows, MarkPassenger
<1>1. /\ passenger' \in [Riders -> PassengerStatus] /\ passenger'[p] # "none"
      /\ \A q \in Riders \ {p} : passenger'[q] = passenger[q]
  BY <1>0 DEF MarkPassenger, PassengerStatus
<1>2. Seated' = Seated
  BY <1>0, <1>1 DEF Seated
<1> QED BY <1>0, <1>1, <1>2
        DEF SharedTypeOK, PassengerRows, LeavesAreFresh, LeaversJoined, SeatsAddUp

LEMMA LeaveInv == ASSUME SharedInv, NEW p \in Riders, Leave(p) PROVE SharedInv'
<1> USE DEF SharedInv
<1>0. /\ passenger \in [Riders -> PassengerStatus] /\ passenger[p] # "none"
      /\ leave \in [Riders -> Leaving] /\ leave[p].at = "idle"
      /\ UNCHANGED <<seats, restored>> /\ muddled' = (muddled \/ p \in restored)
  BY DEF SharedTypeOK, PassengerRows, Leave
<1>1. /\ passenger' \in [Riders -> PassengerStatus] /\ passenger'[p] # "none"
      /\ \A q \in Riders \ {p} : passenger'[q] = passenger[q]
  BY <1>0 DEF Leave, PassengerStatus
<1>2. /\ leave' \in [Riders -> Leaving] /\ leave'[p].at = "read"
      /\ \A q \in Riders \ {p} : leave'[q] = leave[q]
  <2>1. /\ [leave[p] EXCEPT !.at = "read"] \in Leaving
        /\ [leave[p] EXCEPT !.at = "read"].at = "read"
    <3>1. leave[p] \in Leaving
      BY <1>0
    <3> QED BY <3>1 DEF Leaving
  <2>2. leave' = [leave EXCEPT ![p] = [leave[p] EXCEPT !.at = "read"]]
    BY DEF Leave
  <2> QED BY <1>0, <2>1, <2>2
<1>3. SharedTypeOK'
  BY <1>0, <1>1, <1>2 DEF SharedTypeOK, PassengerRows
<1>4. Seated' = Seated
  BY <1>0, <1>1 DEF Seated
<1>5. LeavesAreFresh' /\ LeaversJoined' /\ SeatsAddUp'
  BY <1>0, <1>1, <1>2, <1>4 DEF LeavesAreFresh, LeaversJoined, SeatsAddUp
<1> QED BY <1>3, <1>5

LEMMA ReadSeatsInv == ASSUME SharedInv, NEW p \in Riders, ReadSeats(p) PROVE SharedInv'
<1> USE DEF SharedInv
<1>0. /\ leave \in [Riders -> Leaving] /\ leave[p].at = "read" /\ seats \in Nat
      /\ UNCHANGED <<seats, passenger, restored, muddled>>
  BY DEF SharedTypeOK, ReadSeats
<1> DEFINE new == [at |-> "save", read |-> seats]
<1>1. new \in Leaving /\ new.at = "save" /\ new.read = seats
  BY <1>0 DEF Leaving
<1>2. leave' = [leave EXCEPT ![p] = new]
  BY DEF ReadSeats
<1> HIDE DEF new
<1>3. /\ leave' \in [Riders -> Leaving] /\ leave'[p] = new
      /\ \A q \in Riders \ {p} : leave'[q] = leave[q]
  BY <1>0, <1>1, <1>2, LeaveGoes
<1>4. SharedTypeOK' /\ Seated' = Seated
  BY <1>0, <1>3 DEF SharedTypeOK, Seated
<1>5. LeavesAreFresh' /\ LeaversJoined' /\ SeatsAddUp'
  BY <1>0, <1>1, <1>3, <1>4 DEF LeavesAreFresh, LeaversJoined, SeatsAddUp
<1> QED BY <1>4, <1>5

LEMMA SaveSeatsInv == ASSUME SharedInv, NEW p \in Riders, SaveSeats(p) PROVE SharedInv'
<1> USE DEF SharedInv
<1>0. /\ leave \in [Riders -> Leaving] /\ leave[p] \in Leaving /\ leave[p].at = "save"
      /\ seats \in Nat /\ restored \subseteq Riders
      /\ seats' = leave[p].read + 1 /\ leave' = [leave EXCEPT ![p] = NoLeave]
      /\ restored' = restored \cup {p} /\ passenger' = passenger
      /\ muddled' = (muddled \/ ReadByOthers(p))
  BY DEF SharedTypeOK, SaveSeats
<1>1. seats' \in Nat
  BY <1>0 DEF Leaving
<1>2. NoLeave \in Leaving /\ NoLeave.at = "idle"
  BY DEF NoLeave, Leaving
<1>3. /\ leave' \in [Riders -> Leaving] /\ leave'[p].at = "idle"
      /\ \A q \in Riders \ {p} : leave'[q] = leave[q]
  BY <1>0, <1>2, LeaveGoes
<1>4. muddled' \in BOOLEAN
  BY <1>0
<1>5. SharedTypeOK'
  BY <1>0, <1>1, <1>3, <1>4 DEF SharedTypeOK
<1>6. LeavesAreFresh'
  BY <1>0, <1>3 DEF LeavesAreFresh, ReadByOthers
<1>7. LeaversJoined'
  BY <1>0, <1>3 DEF LeaversJoined
<1>8. SeatsAddUp'
  <2> SUFFICES ASSUME ~muddled' PROVE seats' + Cardinality(Seated') = Seats
    BY DEF SeatsAddUp
  <2>1. ~muddled /\ leave[p].read = seats /\ p \notin restored
    BY <1>0 DEF LeavesAreFresh
  <2>2. Seated' = Seated \ {p} /\ p \in Seated
    BY <1>0, <2>1 DEF Seated, LeaversJoined
  <2>3. Cardinality(Seated) \in Nat /\ Cardinality(Seated') = Cardinality(Seated) - 1
    BY <2>2, SeatedSets
  <2>4. seats + Cardinality(Seated) = Seats
    BY <2>1 DEF SeatsAddUp
  <2> QED BY <1>0, <2>1, <2>3, <2>4, SharedAssumption
<1> QED BY <1>5, <1>6, <1>7, <1>8

LEMMA LeaveDiesInv == ASSUME SharedInv, NEW p \in Riders, LeaveDies(p) PROVE SharedInv'
<1> USE DEF SharedInv
<1>0. /\ leave \in [Riders -> Leaving] /\ leave' = [leave EXCEPT ![p] = NoLeave]
      /\ UNCHANGED <<seats, passenger, restored, muddled>>
  BY DEF SharedTypeOK, LeaveDies
<1>1. NoLeave \in Leaving /\ NoLeave.at = "idle"
  BY DEF NoLeave, Leaving
<1>2. /\ leave' \in [Riders -> Leaving] /\ leave'[p].at = "idle"
      /\ \A q \in Riders \ {p} : leave'[q] = leave[q]
  BY <1>0, <1>1, LeaveGoes
<1>3. SharedTypeOK' /\ Seated' = Seated
  BY <1>0, <1>2 DEF SharedTypeOK, Seated
<1> QED BY <1>0, <1>2, <1>3 DEF LeavesAreFresh, LeaversJoined, SeatsAddUp

LEMMA SharedStepInv == SharedInv /\ [SharedNext]_sharedVars => SharedInv'
<1> SUFFICES ASSUME SharedInv, [SharedNext]_sharedVars PROVE SharedInv'
  OBVIOUS
<1>1. CASE UNCHANGED sharedVars
  BY <1>1 DEF sharedVars, SharedInv, SharedTypeOK, LeavesAreFresh, LeaversJoined,
              SeatsAddUp, Seated
<1> QED BY <1>1, JoinInv, MarkPassengerInv, LeaveInv, ReadSeatsInv, SaveSeatsInv, LeaveDiesInv
        DEF SharedNext

\* SharedInv holds in every reachable state of a shared ride (sharedRideService.ts).
THEOREM SharedInvariance == SharedSpec => []SharedInv
BY SharedInitInv, SharedStepInv, PTL DEF SharedSpec

\* The seats of a shared ride are a natural number, and rows and requests keep their types.
THEOREM SharedTypes == SharedSpec => []SharedTypeOK
<1>1. SharedInv => SharedTypeOK
  BY DEF SharedInv
<1> QED BY <1>1, SharedInvariance, PTL

\* Free seats and seated riders add up to the seats offered, unless a rider left twice or
\* the seats changed between a leave's read and its save (sharedRideService.ts).
THEOREM NeverOverbooked == SharedSpec => []SeatsAddUp
<1>1. SharedInv => SeatsAddUp
  BY DEF SharedInv
<1> QED BY <1>1, SharedInvariance, PTL

-----------------------------------------------------------------------------
(* Idempotent retries *)

\* An answer is kept, or may come to be, only after an effect.
KeptAfterEffect ==
    /\ answer => effects > 0
    /\ \A p \in Retries : retry[p] \in {"committed", "keep"} => effects > 0

\* Requests past the check whose effect is still to come.
Past == {p \in Retries : retry[p] \in {"handled", "unguarded"}}

\* Every slip is worth one request past the check; one more is the first, or owes its passing
\* to none that is under way and no answer that is kept.
WithinSlips ==
    /\ effects + Cardinality(Past) <= 1 + slips
    /\ ~answer /\ UnderWay = {} => effects + Cardinality(Past) <= slips

IdemInv == IdemTypeOK /\ KeptAfterEffect /\ WithinSlips

LEMMA PastSets ==
    /\ Past \subseteq Retries /\ Cardinality(Past) \in Nat
    /\ \A p \in Retries \ Past : Cardinality(Past \cup {p}) = Cardinality(Past) + 1
    /\ \A p \in Past : Cardinality(Past \ {p}) = Cardinality(Past) - 1
<1>1. Past \subseteq Retries
  BY DEF Past
<1>2. IsFiniteSet(Past)
  BY <1>1, IdempotencyAssumption, FS_Subset
<1> QED BY <1>1, <1>2, FS_CardinalityType, FS_AddElement, FS_RemoveElement

LEMMA IdemInitInv == IdemInit => IdemInv
<1> SUFFICES ASSUME IdemInit PROVE IdemInv
  OBVIOUS
<1>1. IdemTypeOK /\ KeptAfterEffect
  BY DEF IdemInit, IdemTypeOK, RetryStages, KeptAfterEffect
<1>2. Past = {}
  BY DEF IdemInit, Past
<1>3. Cardinality(Past) = 0
  BY <1>2, FS_EmptySet
<1> QED BY <1>1, <1>3 DEF IdemInv, IdemInit, WithinSlips

\* What a request that goes on does to the sets of requests.
LEMMA RetryMoves ==
    ASSUME retry \in [Retries -> RetryStages], NEW p \in Retries, NEW to \in RetryStages,
           RetryGoes(p, to)
    PROVE  /\ retry' \in [Retries -> RetryStages] /\ retry'[p] = to
           /\ \A q \in Retries \ {p} : retry'[q] = retry[q]
           /\ UnderWay' = IF to \in {"handled", "committed", "keep"}
                          THEN UnderWay \cup {p} ELSE UnderWay \ {p}
           /\ Cardinality(Past)' =
                 CASE p \in Past /\ to \notin {"handled", "unguarded"} -> Cardinality(Past) - 1
                   [] p \notin Past /\ to \in {"handled", "unguarded"} -> Cardinality(Past) + 1
                   [] OTHER -> Cardinality(Past)
<1>1. /\ retry' \in [Retries -> RetryStages] /\ retry'[p] = to
      /\ \A q \in Retries \ {p} : retry'[q] = retry[q]
  BY DEF RetryGoes
<1>2. UnderWay' = IF to \in {"handled", "committed", "keep"}
                  THEN UnderWay \cup {p} ELSE UnderWay \ {p}
  BY <1>1 DEF UnderWay
<1>3. Past' = IF to \in {"handled", "unguarded"} THEN Past \cup {p} ELSE Past \ {p}
  BY <1>1 DEF Past
<1>4. CASE p \in Past /\ to \notin {"handled", "unguarded"}
  <2>1. Cardinality(Past') = Cardinality(Past) - 1
    BY <1>3, <1>4, PastSets
  <2> QED BY <1>1, <1>2, <1>4, <2>1
<1>5. CASE p \notin Past /\ to \in {"handled", "unguarded"}
  <2>1. Cardinality(Past') = Cardinality(Past) + 1
    BY <1>3, <1>5, PastSets
  <2> QED BY <1>1, <1>2, <1>5, <2>1
<1>6. CASE ~(p \in Past /\ to \notin {"handled", "unguarded"})
           /\ ~(p \notin Past /\ to \in {"handled", "unguarded"})
  <2>1. Past' = Past
    BY <1>3, <1>6
  <2> QED BY <1>1, <1>2, <1>6, <2>1
<1> QED BY <1>4, <1>5, <1>6

LEMMA LookupInv ==
    ASSUME IdemInv, NEW p \in Retries, Replay(p) \/ Miss(p) \/ LookupFails(p) PROVE IdemInv'
<1> USE PastSets DEF IdemInv
<1>0. /\ retry \in [Retries -> RetryStages] /\ retry[p] = "new" /\ effects \in Nat
      /\ slips \in Nat /\ UNCHANGED <<answer, effects>> /\ p \notin Past /\ p \notin UnderWay
  BY DEF IdemTypeOK, Replay, Miss, LookupFails, Past, UnderWay
<1>1. CASE Replay(p)
  <2>1. RetryGoes(p, "ended") /\ answer /\ slips' = slips /\ "ended" \in RetryStages
    BY <1>1 DEF Replay, RetryStages
  <2>2. /\ retry' \in [Retries -> RetryStages] /\ retry'[p] = "ended"
        /\ \A q \in Retries \ {p} : retry'[q] = retry[q]
        /\ Cardinality(Past)' = Cardinality(Past)
    BY <1>0, <2>1, RetryMoves
  <2>3. IdemTypeOK' /\ KeptAfterEffect'
    BY <1>0, <2>1, <2>2 DEF IdemTypeOK, KeptAfterEffect
  <2> QED BY <1>0, <2>1, <2>2, <2>3 DEF WithinSlips
<1>2. CASE Miss(p)
  <2>1. RetryGoes(p, "handled") /\ ~answer /\ "handled" \in RetryStages
    BY <1>2 DEF Miss, RetryStages
  <2>2. /\ retry' \in [Retries -> RetryStages] /\ retry'[p] = "handled"
        /\ \A q \in Retries \ {p} : retry'[q] = retry[q]
        /\ UnderWay' = UnderWay \cup {p}
        /\ Cardinality(Past)' = Cardinality(Past) + 1
    BY <1>0, <2>1, RetryMoves
  <2>3. slips' = (IF UnderWay = {} THEN slips ELSE slips + 1)
    BY <1>2 DEF Miss, Slip
  <2>4. IdemTypeOK' /\ KeptAfterEffect'
    BY <1>0, <2>1, <2>2, <2>3 DEF IdemTypeOK, KeptAfterEffect
  <2>5. effects' + Cardinality(Past)' <= 1 + slips'
    BY <1>0, <2>1, <2>2, <2>3 DEF WithinSlips
  <2>6. UnderWay' # {}
    BY <2>2
  <2> QED BY <2>4, <2>5, <2>6 DEF WithinSlips
<1>3. CASE LookupFails(p)
  <2>1. RetryGoes(p, "unguarded") /\ slips' = slips + 1 /\ "unguarded" \in RetryStages
    BY <1>3 DEF LookupFails, Slip, RetryStages
  <2>2. /\ retry' \in [Retries -> RetryStages] /\ retry'[p] = "unguarded"
        /\ \A q \in Retries \ {p} : retry'[q] = retry[q]
        /\ UnderWay' = UnderWay \ {p}
        /\ Cardinality(Past)' = Cardinality(Past) + 1
    BY <1>0, <2>1, RetryMoves
  <2>4. UnderWay' = UnderWay
    BY <1>0, <2>2
  <2>3. IdemTypeOK' /\ KeptAfterEffect'
    BY <1>0, <2>1, <2>2 DEF IdemTypeOK, KeptAfterEffect
  <2> QED BY <1>0, <2>1, <2>2, <2>3, <2>4 DEF WithinSlips
<1> QED BY <1>1, <1>2, <1>3

LEMMA TakeEffectInv == ASSUME IdemInv, NEW p \in Retries, TakeEffect(p) PROVE IdemInv'
<1> USE PastSets DEF IdemInv
<1>0. /\ retry \in [Retries -> RetryStages] /\ p \in Past
      /\ effects \in Nat /\ slips \in Nat /\ effects' = effects + 1
      /\ UNCHANGED <<answer, slips>>
  BY DEF IdemTypeOK, TakeEffect, Past
<1>1. PICK to \in {"committed", "ended"} :
        RetryGoes(p, to) /\ (p \in UnderWay => to = "committed")
  BY DEF TakeEffect, UnderWay
<1>2. /\ retry' \in [Retries -> RetryStages] /\ retry'[p] = to
      /\ \A q \in Retries \ {p} : retry'[q] = retry[q]
      /\ UnderWay' = {} => UnderWay = {}
      /\ Cardinality(Past)' = Cardinality(Past) - 1
  <2>1. to \in RetryStages
    BY DEF RetryStages
  <2> QED BY <1>0, <1>1, <2>1, RetryMoves
<1>3. IdemTypeOK' /\ KeptAfterEffect'
  BY <1>0, <1>2 DEF IdemTypeOK, KeptAfterEffect
<1>4. effects' + Cardinality(Past)' = effects + Cardinality(Past)
  BY <1>0, <1>2
<1> QED BY <1>0, <1>2, <1>3, <1>4 DEF WithinSlips

LEMMA RefuseInv == ASSUME IdemInv, NEW p \in Retries, Refuse(p) PROVE IdemInv'
<1> USE PastSets DEF IdemInv
<1>0. /\ retry \in [Retries -> RetryStages] /\ p \in Past /\ effects \in Nat /\ slips \in Nat
      /\ UNCHANGED <<answer, effects, slips>> /\ RetryGoes(p, "ended") /\ "ended" \in RetryStages
  BY DEF IdemTypeOK, Refuse, Past, RetryStages
<1>1. /\ retry' \in [Retries -> RetryStages] /\ retry'[p] = "ended"
      /\ \A q \in Retries \ {p} : retry'[q] = retry[q]
      /\ Cardinality(Past)' = Cardinality(Past) - 1
  BY <1>0, RetryMoves
<1>2. IdemTypeOK' /\ KeptAfterEffect'
  BY <1>0, <1>1 DEF IdemTypeOK, KeptAfterEffect
<1> QED BY <1>0, <1>1, <1>2 DEF WithinSlips

LEMMA AnsweredInv ==
    ASSUME IdemInv, NEW p \in Retries, Answer(p) \/ AnswerLost(p) \/ KeepAnswer(p)
    PROVE  IdemInv'
<1> USE PastSets DEF IdemInv
<1>0. /\ retry \in [Retries -> RetryStages] /\ retry[p] \in {"committed", "keep"}
      /\ effects \in Nat /\ slips \in Nat /\ effects' = effects
      /\ p \notin Past /\ UnderWay # {}
  BY DEF IdemTypeOK, Answer, AnswerLost, KeepAnswer, Past, UnderWay
<1>1. effects > 0 /\ effects + Cardinality(Past) <= 1 + slips
  BY <1>0 DEF KeptAfterEffect, WithinSlips
<1>2. PICK to \in {"keep", "ended"} :
        /\ RetryGoes(p, to)
        /\ \/ to = "keep" /\ slips' = slips /\ answer' = answer
           \/ slips' = slips + 1 /\ answer' = answer
           \/ slips' = slips /\ answer' = TRUE
  BY DEF Answer, AnswerLost, KeepAnswer, Slip
<1>3. /\ retry' \in [Retries -> RetryStages] /\ retry'[p] = to
      /\ \A q \in Retries \ {p} : retry'[q] = retry[q]
      /\ to = "keep" => UnderWay' # {}
      /\ Cardinality(Past)' = Cardinality(Past)
  <2>1. to \in RetryStages
    BY DEF RetryStages
  <2> QED BY <1>0, <1>2, <2>1, RetryMoves
<1>4. slips' \in Nat
  BY <1>0, <1>2
<1>8. answer' \in BOOLEAN
  BY DEF Answer, AnswerLost, KeepAnswer, IdemTypeOK
<1>5. IdemTypeOK'
  BY <1>0, <1>3, <1>4, <1>8 DEF IdemTypeOK
<1>6. KeptAfterEffect'
  BY <1>0, <1>1, <1>3 DEF KeptAfterEffect
<1>7. WithinSlips'
  <2>1. CASE to = "keep" /\ slips' = slips
    BY <1>0, <1>1, <1>3, <2>1 DEF WithinSlips
  <2>2. CASE slips' = slips + 1
    BY <1>0, <1>1, <1>3, <2>2 DEF WithinSlips
  <2>3. CASE slips' = slips /\ answer' = TRUE
    BY <1>0, <1>1, <1>3, <2>3 DEF WithinSlips
  <2> QED BY <1>2, <2>1, <2>2, <2>3
<1> QED BY <1>5, <1>6, <1>7

LEMMA LapseInv == IdemInv /\ AnswerLapses => IdemInv'
<1> SUFFICES ASSUME IdemInv, AnswerLapses PROVE IdemInv'
  OBVIOUS
<1> USE PastSets DEF IdemInv
<1>1. /\ answer' = FALSE /\ slips' = slips + 1 /\ UNCHANGED <<retry, effects>>
      /\ effects \in Nat /\ slips \in Nat
  BY DEF AnswerLapses, Slip, IdemTypeOK
<1>2. Past' = Past
  BY <1>1 DEF Past
<1>6. answer' \in BOOLEAN
  BY DEF AnswerLapses
<1>7. slips' \in Nat
  BY <1>1
<1>3. IdemTypeOK'
  BY <1>1, <1>6, <1>7 DEF IdemTypeOK
<1>5. KeptAfterEffect'
  BY <1>1 DEF KeptAfterEffect
<1>4. effects' + Cardinality(Past)' <= slips'
  BY <1>1, <1>2 DEF WithinSlips
<1> QED BY <1>1, <1>2, <1>3, <1>4, <1>5 DEF WithinSlips

LEMMA IdemStepInv == IdemInv /\ [IdemNext]_idemVars => IdemInv'
<1> SUFFICES ASSUME IdemInv, [IdemNext]_idemVars PROVE IdemInv'
  OBVIOUS
<1>1. CASE UNCHANGED idemVars
  BY <1>1 DEF idemVars, IdemInv, IdemTypeOK, KeptAfterEffect, WithinSlips, Past, UnderWay
<1>2. CASE IdemNext
  BY <1>2, LookupInv, TakeEffectInv, RefuseInv, AnsweredInv, LapseInv DEF IdemNext
<1> QED BY <1>1, <1>2

\* IdemInv holds in every reachable state of the middleware (idempotency.ts).
THEOREM IdemInvariance == IdemSpec => []IdemInv
BY IdemInitInv, IdemStepInv, PTL DEF IdemSpec

\* Only the answer to an effect is kept.  Requests with one key take effect once, and once
\* more at most for each lookup that misses while another is between its own and its
\* answer's setex, each that Redis fails, each effect whose answer is not kept, be it that
\* the handler failed after its commit, the process died or setex failed, and each answer
\* that lapses (middlewares/idempotency.ts).
THEOREM RetriesAreHarmless == IdemSpec => []RetryIsHarmless
<1>1. IdemInv => RetryIsHarmless
  <2> SUFFICES ASSUME IdemInv PROVE RetryIsHarmless
    OBVIOUS
  <2>1. effects \in Nat /\ slips \in Nat /\ Cardinality(Past) \in Nat
    BY PastSets DEF IdemInv, IdemTypeOK
  <2>2. effects <= 1 + slips
    BY <2>1 DEF IdemInv, WithinSlips
  <2> QED BY <2>2 DEF IdemInv, KeptAfterEffect, RetryIsHarmless
<1> QED BY <1>1, IdemInvariance, PTL

-----------------------------------------------------------------------------
(* Scheduled rides *)

LEMMA ScheduleJobs ==
    /\ Absent \in Job /\ Absent.at = "none"
    /\ \A n \in Nat : Armed(n) \in Job /\ Armed(n).at = "delayed" /\ Armed(n).left = n
    /\ ExpiryDelay \in Nat /\ RenewalDelay \in Nat /\ Delays \subseteq Nat
BY ScheduleAssumption DEF Absent, Armed, Job

LEMMA AddedJobs ==
    ASSUME NEW held \in Job, NEW n \in Nat
    PROVE  /\ Add(held, n) \in Job
           /\ \/ Add(held, n) = held /\ held.at \in {"delayed", "active", "failed"}
              \/ Add(held, n).at = "delayed"
BY ScheduleJobs DEF Add

LEMMA RetriedJobs ==
    ASSUME NEW held \in Job, NEW attempts \in Nat \ {0}, held.tries < attempts
    PROVE  /\ Retried(held, attempts) \in Job /\ Retried(held, attempts).tries <= attempts
           /\ \/ /\ Retried(held, attempts).at = "delayed"
                 /\ Retried(held, attempts).tries < attempts
              \/ /\ Retried(held, attempts).at = "failed"
                 /\ Retried(held, attempts).tries = attempts
BY DEF Retried, Job

\* The expiration is tried no more often than it may be, and has failed for good then only.
\* (It is taken as one step, so it is never found active.)
ExpiryIsTried ==
    /\ expiry.at \in {"none", "delayed", "gone", "failed", "evicted"}
    /\ expiry.at = "delayed" => expiry.tries < ExpiryAttempts
    /\ expiry.at \in {"failed", "evicted"} => expiry.tries = ExpiryAttempts

ScheduleInv == ScheduleTypeOK /\ ExpiryIsTried /\ BookingWillExpire

\* Said once more, given ExpiryIsTried.
Covered == Unmatched => /\ expiry.at # "gone"
                        /\ expiry.at = "none" => activation.at # "gone"

LEMMA CoveredBooking == ExpiryIsTried => (BookingWillExpire <=> Covered)
BY DEF ExpiryIsTried, BookingWillExpire, Covered

LEMMA ScheduleInitInv == ScheduleInit => ScheduleInv
<1> SUFFICES ASSUME ScheduleInit PROVE ScheduleInv
  OBVIOUS
<1>1. ScheduleTypeOK
  BY ScheduleJobs DEF ScheduleInit, ScheduleTypeOK
<1>2. ExpiryIsTried
  BY ScheduleJobs DEF ScheduleInit, ExpiryIsTried
<1>3. BookingWillExpire
  BY DEF ScheduleInit, BookingWillExpire, Unmatched
<1> QED BY <1>1, <1>2, <1>3 DEF ScheduleInv

LEMMA ScheduleStepInv == ScheduleInv /\ [ScheduleNext]_scheduleVars => ScheduleInv'
<1> SUFFICES ASSUME ScheduleInv, [ScheduleNext]_scheduleVars PROVE ScheduleInv'
  OBVIOUS
<1>0. ScheduleTypeOK /\ ExpiryIsTried /\ Covered
  BY CoveredBooking DEF ScheduleInv
<1> SUFFICES ScheduleTypeOK' /\ ExpiryIsTried' /\ Covered'
  BY CoveredBooking DEF ScheduleInv, ExpiryIsTried, BookingWillExpire, Covered
<1> USE ScheduleJobs, ScheduleAssumption DEF Unmatched
<1>1. CASE Book
  <2>1. /\ booking' = "pending" /\ UNCHANGED <<renewals, activated>>
        /\ expiry' \in {Absent, Armed(ExpiryDelay)}
    BY <1>1 DEF Book
  <2>2. activation' \in Job /\ activation'.at # "gone"
    BY <1>1 DEF Book
  <2>3. /\ expiry' \in Job /\ expiry'.at \in {"none", "delayed"} /\ expiry'.tries = 0
    BY <2>1 DEF Absent, Armed, Job
  <2> QED BY <1>0, <2>1, <2>2, <2>3 DEF ScheduleTypeOK, ExpiryIsTried, Covered
<1>2. CASE Offered \/ Refused \/ OfferLapses \/ Taken
  <2>1. /\ UNCHANGED <<expiry, activation, activated>> /\ renewals' \in {renewals, renewals + 1}
        /\ booking \in {"pending", "offered"} /\ booking' \in {"pending", "offered", "taken"}
    BY <1>2 DEF Offered, Refused, OfferLapses, Taken
  <2> QED BY <1>0, <2>1 DEF ScheduleTypeOK, ExpiryIsTried, Covered
<1>3. CASE RenewExpiry
  <2>1. /\ UNCHANGED <<booking, activation, activated>> /\ renewals' \in Nat
        /\ expiry' \in {expiry, Add(expiry, RenewalDelay)}
    BY <1>0, <1>3 DEF RenewExpiry, ScheduleTypeOK
  <2>2. /\ Add(expiry, RenewalDelay) \in Job
        /\ \/ Add(expiry, RenewalDelay) = expiry
           \/ Add(expiry, RenewalDelay).at = "delayed" /\ Add(expiry, RenewalDelay).tries = 0
    BY <1>0 DEF Add, Armed, Job, ScheduleTypeOK
  <2>3. CASE expiry' = expiry
    BY <1>0, <2>1, <2>3 DEF ScheduleTypeOK, ExpiryIsTried, Covered
  <2>4. CASE expiry' \in Job /\ expiry'.at = "delayed" /\ expiry'.tries = 0
    BY <1>0, <2>1, <2>4 DEF ScheduleTypeOK, ExpiryIsTried, Covered
  <2> QED BY <2>1, <2>2, <2>3, <2>4
<1>4. CASE CancelExpiration \/ Expires
  <2>1. expiry' = [expiry EXCEPT !.at = "gone"]
    BY <1>4 DEF CancelExpiration, Expires
  <2>2. expiry' \in Job /\ expiry'.at = "gone"
    BY <1>0, <2>1 DEF ScheduleTypeOK, Job
  <2>3. /\ UNCHANGED <<activation, renewals, activated>>
        /\ booking' \in {booking, "expired"} /\ booking' \notin {"pending", "offered"}
    BY <1>4 DEF CancelExpiration, Expires
  <2> QED BY <1>0, <2>2, <2>3 DEF ScheduleTypeOK, ExpiryIsTried, Covered
<1>11. CASE FailedIsEvicted
  <2>1. /\ expiry.at = "failed" /\ expiry' = [expiry EXCEPT !.at = "evicted"]
        /\ UNCHANGED <<booking, activation, renewals, activated>>
    BY <1>11 DEF FailedIsEvicted
  <2>2. expiry' \in Job /\ expiry'.at = "evicted" /\ expiry'.tries = expiry.tries
    BY <1>0, <2>1 DEF ScheduleTypeOK, Job
  <2> QED BY <1>0, <2>1, <2>2 DEF ScheduleTypeOK, ExpiryIsTried, Covered
<1>5. CASE ExpiryFails
  <2>1. /\ expiry' = Retried(expiry, ExpiryAttempts) /\ expiry.at = "delayed"
        /\ UNCHANGED <<booking, activation, renewals, activated>>
    BY <1>5 DEF ExpiryFails, Due
  <2>2. /\ expiry' \in Job
        /\ \/ expiry'.at = "delayed" /\ expiry'.tries < ExpiryAttempts
           \/ expiry'.at = "failed" /\ expiry'.tries = ExpiryAttempts
    BY <1>0, <2>1, RetriedJobs DEF ScheduleTypeOK, ExpiryIsTried
  <2> QED BY <1>0, <2>1, <2>2 DEF ScheduleTypeOK, ExpiryIsTried, Covered
<1>6. CASE ActivationStarts
  <2>1. PICK to \in {"active", "passed"} : activation' = [activation EXCEPT !.at = to]
    BY <1>6 DEF ActivationStarts
  <2>2. activation' \in Job /\ activation'.at = to
    BY <1>0, <2>1 DEF ScheduleTypeOK, Job
  <2>3. UNCHANGED <<booking, expiry, renewals>> /\ activated' \in BOOLEAN
    BY <1>0, <1>6 DEF ActivationStarts, ScheduleTypeOK
  <2> QED BY <1>0, <2>2, <2>3 DEF ScheduleTypeOK, ExpiryIsTried, Covered
<1>7. CASE ActivationEnds
  <2>1. UNCHANGED <<booking, renewals, activated>>
    BY <1>7 DEF ActivationEnds
  <2>2. CASE /\ expiry' = Add(expiry, ExpiryDelay)
             /\ activation' = [activation EXCEPT !.at = "gone"]
    <3>1. activation' \in Job
      BY <1>0, <2>2 DEF ScheduleTypeOK, Job
    <3>2. CASE expiry' = expiry /\ expiry.at \in {"delayed", "active", "failed"}
      BY <1>0, <2>1, <3>1, <3>2 DEF ScheduleTypeOK, ExpiryIsTried, Covered
    <3>3. CASE expiry' = Armed(ExpiryDelay)
      <4>1. expiry' \in Job /\ expiry'.at = "delayed" /\ expiry'.tries = 0
        BY <3>3 DEF Armed, Job
      <4> QED BY <1>0, <2>1, <3>1, <4>1 DEF ScheduleTypeOK, ExpiryIsTried, Covered
    <3> QED BY <2>2, <3>2, <3>3 DEF Add
  <2>3. CASE activation' = [activation EXCEPT !.at = "unarmed"] /\ expiry' = expiry
    <3>1. activation' \in Job /\ activation'.at = "unarmed"
      BY <1>0, <2>3 DEF ScheduleTypeOK, Job
    <3> QED BY <1>0, <2>1, <2>3, <3>1 DEF ScheduleTypeOK, ExpiryIsTried, Covered
  <2> QED BY <1>7, <2>2, <2>3 DEF ActivationEnds
<1>8. CASE ActivationFails
  <2>1. /\ UNCHANGED <<booking, expiry, renewals, activated>>
        /\ activation' \in {Retried(activation, ActivationAttempts),
                            [activation EXCEPT !.at = "delayed", !.left = 0]}
    BY <1>8 DEF ActivationFails
  <2>2. /\ Retried(activation, ActivationAttempts) \in Job
        /\ Retried(activation, ActivationAttempts).at # "gone"
    BY <1>0 DEF Retried, ScheduleTypeOK, Job
  <2>3. /\ [activation EXCEPT !.at = "delayed", !.left = 0] \in Job
        /\ [activation EXCEPT !.at = "delayed", !.left = 0].at = "delayed"
    BY <1>0 DEF ScheduleTypeOK, Job
  <2>4. activation' \in Job /\ activation'.at # "gone"
    BY <2>1, <2>2, <2>3
  <2> QED BY <1>0, <2>1, <2>4 DEF ScheduleTypeOK, ExpiryIsTried, Covered
<1>9. CASE ScheduleTick
  <2>1. \A j \in Job : Sooner(j) \in Job /\ Sooner(j).at = j.at /\ Sooner(j).tries = j.tries
    BY DEF Sooner, Job
  <2>2. /\ UNCHANGED <<booking, renewals, activated>>
        /\ expiry' \in Job /\ expiry'.at = expiry.at /\ expiry'.tries = expiry.tries
        /\ activation' \in Job /\ activation'.at = activation.at
    BY <1>0, <1>9, <2>1 DEF ScheduleTick, ScheduleTypeOK
  <2> QED BY <1>0, <2>2 DEF ScheduleTypeOK, ExpiryIsTried, Covered
<1>10. CASE UNCHANGED scheduleVars
  BY <1>0, <1>10 DEF scheduleVars, ScheduleTypeOK, ExpiryIsTried, Covered
<1> QED BY <1>1, <1>2, <1>3, <1>4, <1>5, <1>6, <1>7, <1>8, <1>9, <1>10, <1>11
        DEF ScheduleNext

\* ScheduleInv holds in every reachable state of a booking and its two jobs.
THEOREM ScheduleInvariance == ScheduleSpec => []ScheduleInv
BY ScheduleInitInv, ScheduleStepInv, PTL DEF ScheduleSpec

\* A scheduled ride without a driver has its expiration armed; or the last one armed has
\* been tried as often as it may be; or none ever was, and the activation is still to come,
\* or was lost, given up, passed over the ride or lost its add (requestRide,
\* offerExpirationWorker.ts and scheduledRideActivationWorker.ts).
THEOREM BookingsWillExpire == ScheduleSpec => []BookingWillExpire
<1>1. ScheduleInv => BookingWillExpire
  BY DEF ScheduleInv
<1> QED BY <1>1, ScheduleInvariance, PTL

-----------------------------------------------------------------------------
(* Start-up and shutdown *)

\* What is open in each phase, and who can be served then.
PartsOfPhase ==
    /\ phase \notin {"boot", "releasing", "exit_0", "exit_1"} => "database" \in up
    /\ phase \in {"jobs", "sockets", "serving", "draining"} => "workers" \in up
    /\ phase \in {"sockets", "serving", "draining"} => "sockets" \in up
    /\ "http" \in up => phase = "serving"
    /\ "workers" \in up => phase \in {"jobs", "sockets", "serving", "draining", "releasing"}

WhoIsServed ==
    /\ \A c \in Connections : Open(c) => phase \in {"serving", "draining"}
    /\ Busy # {} => "workers" \in up

ServerInv == ServerTypeOK /\ PartsOfPhase /\ WhoIsServed

LEMMA ServerInitInv == ServerInit => ServerInv
BY DEF ServerInit, ServerInv, ServerTypeOK, PartsOfPhase, WhoIsServed, Phases, Parts, Open, Busy

LEMMA StartInv ==
    ASSUME ServerInv,
           StartDatabase \/ StartRedis \/ StartWithoutRedis \/ StartJobs \/ StartSockets \/ Listen
    PROVE  ServerInv'
<1>0. UNCHANGED <<connection, task, deadline>>
  BY DEF StartDatabase, StartRedis, StartWithoutRedis, StartJobs, StartSockets, Listen, Begin
<1>1. /\ phase \in {"boot", "database", "redis", "jobs", "sockets"}
      /\ phase' \in Phases /\ phase' \notin {"releasing", "exit_0", "exit_1"}
      /\ up' \subseteq Parts /\ up \subseteq up'
  BY DEF StartDatabase, StartRedis, StartWithoutRedis, StartJobs, StartSockets, Listen, Begin,
         Phases, Parts, ServerInv, ServerTypeOK
<1>2. PartsOfPhase'
  BY DEF StartDatabase, StartRedis, StartWithoutRedis, StartJobs, StartSockets, Listen, Begin,
         ServerInv, PartsOfPhase
<1>3. ServerTypeOK' /\ WhoIsServed'
  BY <1>0, <1>1 DEF ServerInv, ServerTypeOK, WhoIsServed, Open, Busy
<1> QED BY <1>2, <1>3 DEF ServerInv

LEMMA EndInv == ASSUME ServerInv, Die \/ ForceExit PROVE ServerInv'
BY DEF ServerInv, ServerTypeOK, PartsOfPhase, WhoIsServed, Die, ForceExit, Phases, Open, Busy

LEMMA ServeInv ==
    ASSUME ServerInv,
           \/ \E c \in Connections : Accept(c) \/ EndConnection(c)
           \/ \E j \in Jobs : TakeJob(j) \/ EndJob(j)
    PROVE  ServerInv'
<1> USE DEF ServerInv
<1>1. ASSUME NEW c \in Connections, Accept(c) \/ EndConnection(c) PROVE ServerInv'
  <2>1. /\ UNCHANGED <<phase, up, task, deadline>>
        /\ connection' \in [Connections -> {"none", "request", "socket"}]
        /\ \A d \in Connections \ {c} : connection'[d] = connection[d]
        /\ connection'[c] # "none" => "http" \in up
    BY <1>1 DEF Accept, EndConnection, ServerTypeOK
  <2> QED BY <2>1 DEF ServerTypeOK, PartsOfPhase, WhoIsServed, Open, Busy
<1>2. ASSUME NEW j \in Jobs, TakeJob(j) \/ EndJob(j) PROVE ServerInv'
  <2>1. /\ UNCHANGED <<phase, up, connection, deadline>>
        /\ task' \in [Jobs -> {"idle", "active"}]
        /\ \A i \in Jobs \ {j} : task'[i] = task[i]
        /\ task'[j] = "active" => "workers" \in up
    BY <1>2 DEF TakeJob, EndJob, ServerTypeOK
  <2> QED BY <2>1 DEF ServerTypeOK, PartsOfPhase, WhoIsServed, Open, Busy
<1> QED BY <1>1, <1>2

LEMMA ShutdownInv ==
    ASSUME ServerInv,
           \/ Signal \/ Drained \/ (\E part \in Parts : Release(part)) \/ ReleaseWorkers \/ Exit
    PROVE  ServerInv'
<1> USE DEF ServerInv, ServerTypeOK, PartsOfPhase, WhoIsServed, Phases, Open, Busy
<1>1. CASE Signal
  BY <1>1 DEF Signal
<1>2. CASE Drained
  BY <1>2 DEF Drained
<1>3. ASSUME NEW part \in Parts, Release(part) PROVE ServerInv'
  BY <1>3 DEF Release
<1>4. CASE ReleaseWorkers
  BY <1>4 DEF ReleaseWorkers
<1>5. CASE Exit
  BY <1>5 DEF Exit
<1> QED BY <1>1, <1>2, <1>3, <1>4, <1>5

LEMMA ServerStepInv == ServerInv /\ [ServerNext]_serverVars => ServerInv'
<1> SUFFICES ASSUME ServerInv, [ServerNext]_serverVars PROVE ServerInv'
  OBVIOUS
<1>1. CASE UNCHANGED serverVars
  BY <1>1 DEF serverVars, ServerInv, ServerTypeOK, PartsOfPhase, WhoIsServed, Open, Busy
<1> QED BY <1>1, StartInv, EndInv, ServeInv, ShutdownInv DEF ServerNext

\* ServerInv holds in every reachable state of the process (server.ts).
THEOREM ServerInvariance == ServerSpec => []ServerInv
BY ServerInitInv, ServerStepInv, PTL DEF ServerSpec

\* Requests, sockets and jobs are served with what they need behind them, through start-up,
\* shutdown and death (startServer and gracefulShutdown in server.ts).
THEOREM ServedAreSupplied == ServerSpec => []ServedHaveTheirParts
<1>1. ServerInv => ServedHaveTheirParts
  BY DEF ServerInv, ServerTypeOK, PartsOfPhase, WhoIsServed, ServedHaveTheirParts, Busy, Phases
<1> QED BY <1>1, ServerInvariance, PTL

-----------------------------------------------------------------------------
(* Notifications *)

\* Whatever the job has done with since it last read the rows has got the message or has
\* had its token refused.
SentOrRefused ==
    /\ push.at \in {"sending", "done"} =>
          \A d \in push.found : d \in push.todo \/ sent[d] > 0 \/ d \in push.bad
    /\ push.at = "done" => push.todo = {}

\* A job that has not ended has an attempt left, and there is none before the notification.
AttemptsAreLeft ==
    /\ push.at \in {"none", "waiting", "sending"} => push.attempts < PushAttempts
    /\ inbox = "none" => push.at = "none"

PushInv == PushTypeOK /\ SentOrRefused /\ AttemptsAreLeft

LEMMA NoPushType == NoPush \in Push /\ NoPush.at = "none" /\ NoPush.attempts = 0
BY PushAssumption DEF NoPush, Push

LEMMA AttemptOver ==
    ASSUME NEW n \in 0..PushAttempts, NEW at \in {"waiting", "failed"}
    PROVE  /\ [NoPush EXCEPT !.attempts = n, !.at = at] \in Push
           /\ [NoPush EXCEPT !.attempts = n, !.at = at].at = at
           /\ [NoPush EXCEPT !.attempts = n, !.at = at].attempts = n
<1>1. \A p \in Push : /\ [p EXCEPT !.attempts = n, !.at = at] \in Push
                      /\ [p EXCEPT !.attempts = n, !.at = at].at = at
                      /\ [p EXCEPT !.attempts = n, !.at = at].attempts = n
  BY DEF Push
<1> QED BY <1>1, NoPushType

LEMMA PushInitInv == PushInit => PushInv
<1> SUFFICES ASSUME PushInit PROVE PushInv
  OBVIOUS
<1>1. device \in [Devices -> Device]
  BY PushAssumption DEF PushInit, Device
<1>2. PushTypeOK /\ SentOrRefused
  BY <1>1, NoPushType DEF PushInit, PushTypeOK, SentOrRefused
<1>3. AttemptsAreLeft
  BY NoPushType, PushAssumption DEF PushInit, AttemptsAreLeft
<1> QED BY <1>2, <1>3 DEF PushInv

\* The rows change, or the inbox does, and the job goes on as it was.
LEMMA RowsChangeInv ==
    ASSUME PushInv,
           \/ \E d \in Devices : \/ RegisterDevice(d) \/ ReleaseDevice(d)
                                 \/ RefreshDevice(d) \/ Uninstall(d)
           \/ MarkRead
    PROVE  PushInv'
<1> USE PushAssumption DEF PushInv
<1>1. /\ UNCHANGED <<push, sent, stalled>> /\ inbox' \in {"none", "unread", "read"}
      /\ inbox' = "none" => inbox = "none"
  BY DEF RegisterDevice, ReleaseDevice, RefreshDevice, Uninstall, MarkRead, PushTypeOK
<1>2. alive' \subseteq Devices
  BY DEF RegisterDevice, ReleaseDevice, RefreshDevice, Uninstall, MarkRead, PushTypeOK
<1>3. device' \in [Devices -> Device]
  <2>1. ASSUME NEW d \in Devices, RegisterDevice(d) \/ ReleaseDevice(d) PROVE device' \in [Devices -> Device]
    <3>1. PICK owner \in {"mine", "deleted", "other"} :
            device' = [device EXCEPT ![d] = [device[d] EXCEPT !.owner = owner]]
      BY <2>1 DEF RegisterDevice, ReleaseDevice
    <3>2. device[d] \in Device
      BY DEF PushTypeOK
    <3>3. [device[d] EXCEPT !.owner = owner] \in Device
      BY <3>2 DEF Device
    <3> QED BY <3>1, <3>3 DEF PushTypeOK
  <2>2. ASSUME NEW d \in Devices, RefreshDevice(d) PROVE device' \in [Devices -> Device]
    <3>1. device' = [device EXCEPT ![d] = [device[d] EXCEPT !.token = @ + 1]]
      BY <2>2 DEF RefreshDevice
    <3>2. device[d] \in Device /\ device[d].token < MaxRefreshes
      BY <2>2 DEF PushTypeOK, RefreshDevice
    <3>3. device[d].token \in 0..MaxRefreshes /\ device[d].token + 1 \in 0..MaxRefreshes
      BY <3>2 DEF Device
    <3>4. [device[d] EXCEPT !.token = @ + 1] \in Device
      BY <3>2, <3>3 DEF Device
    <3> QED BY <3>1, <3>4 DEF PushTypeOK
  <2>3. CASE UNCHANGED device
    BY <2>3 DEF PushTypeOK
  <2> QED BY <2>1, <2>2, <2>3 DEF Uninstall, MarkRead
<1> QED BY <1>1, <1>2, <1>3 DEF PushTypeOK, SentOrRefused, AttemptsAreLeft

LEMMA PushTokens ==
    ASSUME PushTypeOK
    PROVE  [d \in Devices |-> device[d].token] \in [Devices -> 0..MaxRefreshes]
BY DEF PushTypeOK, Device

LEMMA SendInv == ASSUME PushInv, Send PROVE PushInv'
<1> USE DEF PushInv
<1>1. /\ push' \in Push /\ (push'.at = "waiting" \/ push' = push)
      /\ push'.attempts = push.attempts /\ push.at = "none"
  BY DEF Send, PushTypeOK, Push, AttemptsAreLeft
<1>2. inbox' \in {"unread", "read"} /\ UNCHANGED <<device, alive, sent, stalled>>
  BY DEF Send
<1> QED BY <1>1, <1>2 DEF PushTypeOK, SentOrRefused, AttemptsAreLeft

LEMMA StartPushInv == ASSUME PushInv, StartPush PROVE PushInv'
<1> USE DEF PushInv
<1>0. UNCHANGED <<inbox, device, alive, sent, stalled>> /\ push \in Push /\ Mine \subseteq Devices
  BY DEF StartPush, PushTypeOK, Mine
<1>1. /\ push' \in Push /\ push'.todo = Mine /\ push'.found = Mine
      /\ push'.at = "done" => Mine = {}
      /\ push'.attempts = push.attempts /\ push.at = "waiting"
  BY <1>0, PushTokens DEF StartPush, Push
<1> QED BY <1>0, <1>1 DEF PushTypeOK, SentOrRefused, AttemptsAreLeft

LEMMA SendToInv == ASSUME PushInv, NEW d \in Devices, SendTo(d) PROVE PushInv'
<1> USE DEF PushInv
<1>0. /\ UNCHANGED <<inbox, device, alive, stalled>> /\ push \in Push /\ push.at = "sending"
      /\ d \in push.todo /\ sent \in [Devices -> Nat] /\ push.found \subseteq Devices
  BY DEF SendTo, PushTypeOK, Push
<1>1. /\ push' \in Push /\ push'.at = "sending" /\ push'.todo = push.todo \ {d}
      /\ push'.found = push.found /\ push.bad \subseteq push'.bad
      /\ ~Good(d) => d \in push'.bad
      /\ push'.attempts = push.attempts
  <2>1. CASE Good(d)
    <3>1. push' = [push EXCEPT !.todo = @ \ {d}]
      BY <2>1 DEF SendTo
    <3> QED BY <1>0, <2>1, <3>1 DEF Push
  <2>2. CASE ~Good(d)
    <3>1. push' = [push EXCEPT !.todo = @ \ {d}, !.bad = @ \cup {d}]
      BY <2>2 DEF SendTo
    <3> QED BY <1>0, <2>2, <3>1 DEF Push
  <2> QED BY <2>1, <2>2
<1>2. /\ sent' \in [Devices -> Nat] /\ (Good(d) => sent'[d] > 0)
      /\ \A e \in Devices : e # d => sent'[e] = sent[e]
  BY <1>0 DEF SendTo
<1>3. SentOrRefused'
  BY <1>0, <1>1, <1>2 DEF SentOrRefused
<1> QED BY <1>0, <1>1, <1>2, <1>3 DEF PushTypeOK, AttemptsAreLeft

LEMMA AttemptEndsInv ==
    ASSUME PushInv, (\E d \in Devices : SendFails(d)) \/ Stall PROVE PushInv'
<1> USE DEF PushInv
<1>0. /\ UNCHANGED <<inbox, device, alive, sent>> /\ stalled' \in BOOLEAN /\ inbox # "none"
  BY DEF SendFails, Stall, PushTypeOK, AttemptsAreLeft
<1>1. push.attempts \in 0..PushAttempts /\ push.attempts < PushAttempts
  BY DEF PushTypeOK, Push, SendFails, Stall, AttemptsAreLeft
<1>2. PICK n \in 0..PushAttempts, at \in {"waiting", "failed"} :
        /\ push' = [NoPush EXCEPT !.attempts = n, !.at = at]
        /\ at = "waiting" => n < PushAttempts
  <2>1. CASE Stall
    <3>1. PICK at \in {"waiting", "failed"} :
            push' = [NoPush EXCEPT !.attempts = push.attempts, !.at = at]
      BY <2>1 DEF Stall
    <3> QED BY <1>1, <3>1
  <2>2. ASSUME NEW d \in Devices, SendFails(d)
        PROVE  \E n \in 0..PushAttempts, at \in {"waiting", "failed"} :
                  /\ push' = [NoPush EXCEPT !.attempts = n, !.at = at]
                  /\ at = "waiting" => n < PushAttempts
    <3>1. push.attempts + 1 \in 0..PushAttempts
      BY <1>1, PushAssumption
    <3>2. PICK at \in {"waiting", "failed"} :
            /\ push' = [NoPush EXCEPT !.attempts = push.attempts + 1, !.at = at]
            /\ at = "waiting" => push.attempts + 1 < PushAttempts
      BY <2>2 DEF SendFails
    <3> QED BY <3>1, <3>2
  <2> QED BY <2>1, <2>2
<1>3. /\ push' \in Push /\ push'.at = at /\ push'.attempts = n
  BY <1>2, AttemptOver
<1>4. PushTypeOK' /\ SentOrRefused'
  BY <1>0, <1>3 DEF PushTypeOK, SentOrRefused
<1>5. AttemptsAreLeft'
  BY <1>0, <1>2, <1>3 DEF AttemptsAreLeft
<1> QED BY <1>4, <1>5

LEMMA FinishPushInv == ASSUME PushInv, FinishPush PROVE PushInv'
<1> USE DEF PushInv
<1>0. UNCHANGED <<inbox, alive, sent, stalled>> /\ push \in Push /\ push.todo = {}
  BY DEF FinishPush, PushTypeOK
<1>1. /\ push' \in Push /\ push'.todo = push.todo /\ push'.found = push.found
      /\ push'.bad = push.bad /\ push.at = "sending" /\ push'.at = "done"
  BY <1>0 DEF FinishPush, Push
<1>2. device' \in [Devices -> Device]
  BY DEF FinishPush, PushTypeOK, Device
<1> QED BY <1>0, <1>1, <1>2 DEF PushTypeOK, SentOrRefused, AttemptsAreLeft

LEMMA PushStepInv == PushInv /\ [PushNext]_pushVars => PushInv'
<1> SUFFICES ASSUME PushInv, [PushNext]_pushVars PROVE PushInv'
  OBVIOUS
<1>1. CASE UNCHANGED pushVars
  BY <1>1 DEF pushVars, PushInv, PushTypeOK, SentOrRefused, AttemptsAreLeft
<1> QED BY <1>1, RowsChangeInv, SendInv, StartPushInv, SendToInv, AttemptEndsInv, FinishPushInv
        DEF PushNext

\* PushInv holds in every reachable state of a notification (notificationWorker.ts).
THEOREM PushInvariance == PushSpec => []PushInv
BY PushInitInv, PushStepInv, PTL DEF PushSpec

\* A push job that is done has reached every device it found, or had its token refused
\* (processNotification in notificationWorker.ts).
THEOREM DoneReachedAll == PushSpec => []DonePushReachedAll
<1>1. PushInv => DonePushReachedAll
  BY DEF PushInv, PushTypeOK, SentOrRefused, DonePushReachedAll
<1> QED BY <1>1, PushInvariance, PTL

-----------------------------------------------------------------------------
(* Ratings *)

\* The profile's rating is over committed ratings, and a job about to save another has read
\* all of them; a job that has not failed for good has an attempt left.
JobReadOn ==
    /\ average \subseteq rated
    /\ job.at = "writing" => average \subseteq job.read /\ job.read \subseteq rated
    /\ job.at \in {"delayed", "reading", "writing"} => job.attempts < RatingAttempts
    /\ toEnqueue \subseteq rated

\* Unless an add was dropped, each rating counts, or is to be enqueued, or will be read by
\* the job, or has been.
RatingIsOnItsWay ==
    dropped \/ \A r \in rated : \/ r \in average \/ r \in toEnqueue
                                \/ job.at \in {"delayed", "reading"}
                                \/ job.at = "writing" /\ r \in job.read

RatingInv == RatingTypeOK /\ JobReadOn /\ RatingIsOnItsWay

RatingJob == [at : JobStages, attempts : 0..RatingAttempts, read : SUBSET RatedRides]

LEMMA NoRatingJob ==
    /\ NoJob \in RatingJob /\ NoJob.at = "none" /\ NoJob.attempts = 0
    /\ [NoJob EXCEPT !.at = "delayed"] \in RatingJob
    /\ [NoJob EXCEPT !.at = "delayed"].at = "delayed"
    /\ [NoJob EXCEPT !.at = "delayed"].attempts = 0
BY RatingsAssumption DEF NoJob, RatingJob, JobStages

LEMMA RatingInitInv == RatingInit => RatingInv
BY NoRatingJob DEF RatingInit, RatingInv, RatingTypeOK, RatingJob, JobReadOn, RatingIsOnItsWay

LEMMA EnqueueInv == ASSUME RatingInv, NEW r \in RatedRides, Enqueue(r) PROVE RatingInv'
<1> USE RatingsAssumption DEF RatingInv, RatingJob
<1>0. /\ UNCHANGED <<rated, average>> /\ toEnqueue' = toEnqueue \ {r}
      /\ dropped \in BOOLEAN /\ dropped' \in BOOLEAN /\ (dropped => dropped')
  BY DEF Enqueue, RatingTypeOK
<1>1. CASE job.at = "none" /\ job' = [NoJob EXCEPT !.at = "delayed"]
  BY <1>0, <1>1, NoRatingJob DEF RatingTypeOK, JobReadOn, RatingIsOnItsWay
<1>2. CASE job' = job /\ (dropped' \/ job.at \in {"delayed", "reading"})
  BY <1>0, <1>2 DEF RatingTypeOK, JobReadOn, RatingIsOnItsWay
<1> QED BY <1>1, <1>2 DEF Enqueue, RatingTypeOK, JobStages

LEMMA JobGoesInv ==
    ASSUME RatingInv, StartJob \/ ReadAverage \/ WriteAverage \/ Evict PROVE RatingInv'
<1> USE RatingsAssumption DEF RatingInv
<1>0. job \in RatingJob /\ UNCHANGED <<rated, toEnqueue, dropped>>
  BY DEF RatingTypeOK, RatingJob, StartJob, ReadAverage, WriteAverage, Evict
<1>1. CASE StartJob
  <2>1. job' \in RatingJob /\ job'.at = "reading" /\ job'.attempts = job.attempts
    BY <1>0, <1>1 DEF StartJob, RatingJob, JobStages
  <2> QED BY <1>0, <1>1, <2>1 DEF StartJob, RatingTypeOK, RatingJob, JobReadOn, RatingIsOnItsWay
<1>2. CASE ReadAverage
  <2>1. /\ job' \in RatingJob /\ job'.at = "writing" /\ job'.attempts = job.attempts
        /\ job'.read = rated
    BY <1>0, <1>2 DEF ReadAverage, RatingJob, JobStages, RatingTypeOK
  <2> QED BY <1>0, <1>2, <2>1 DEF ReadAverage, RatingTypeOK, RatingJob, JobReadOn, RatingIsOnItsWay
<1>3. CASE WriteAverage
  BY <1>0, <1>3, NoRatingJob DEF WriteAverage, RatingTypeOK, RatingJob, JobReadOn, RatingIsOnItsWay
<1>4. CASE Evict
  BY <1>0, <1>4, NoRatingJob DEF Evict, RatingTypeOK, RatingJob, JobReadOn, RatingIsOnItsWay
<1> QED BY <1>1, <1>2, <1>3, <1>4

LEMMA JobFailsInv == ASSUME RatingInv, JobFails PROVE RatingInv'
<1> USE RatingsAssumption DEF RatingInv
<1>0. job \in RatingJob /\ UNCHANGED <<rated, toEnqueue, average>> /\ dropped' \in BOOLEAN
  BY DEF RatingTypeOK, RatingJob, JobFails
<1>1. job.attempts \in Nat /\ job.attempts + 1 \in 0..RatingAttempts
  BY <1>0 DEF JobFails, JobReadOn, RatingJob
<1>2. CASE job.attempts + 1 < RatingAttempts
  <2>1. /\ job' \in RatingJob /\ job'.attempts = job.attempts + 1 /\ job'.at = "delayed"
    BY <1>0, <1>1, <1>2 DEF JobFails, RatingJob, JobStages
  <2> QED BY <1>0, <1>2, <2>1 DEF RatingTypeOK, RatingJob, JobReadOn, RatingIsOnItsWay
<1>3. CASE job.attempts + 1 = RatingAttempts /\ ~(job.attempts + 1 < RatingAttempts)
  <2>1. /\ job' \in RatingJob /\ job'.at = "failed"
    BY <1>0, <1>1, <1>3 DEF JobFails, RatingJob, JobStages
  <2>2. dropped'
    BY <1>3 DEF JobFails
  <2> QED BY <1>0, <2>1, <2>2 DEF RatingTypeOK, RatingJob, JobReadOn, RatingIsOnItsWay
<1> QED BY <1>1, <1>2, <1>3

LEMMA RatingStepInv == RatingInv /\ [RatingNext]_ratingVars => RatingInv'
<1> SUFFICES ASSUME RatingInv, [RatingNext]_ratingVars PROVE RatingInv'
  OBVIOUS
<1>1. ASSUME NEW r \in RatedRides, Submit(r) PROVE RatingInv'
  BY <1>1 DEF Submit, RatingInv, RatingTypeOK, JobReadOn, RatingIsOnItsWay
<1>2. CASE UNCHANGED ratingVars
  BY <1>2 DEF ratingVars, RatingInv, RatingTypeOK, JobReadOn, RatingIsOnItsWay
<1> QED BY <1>1, <1>2, EnqueueInv, JobGoesInv, JobFailsInv DEF RatingNext

\* RatingInv holds in every reachable state of a driver's ratings
\* (ratingRecalculationWorker.ts).
THEOREM RatingInvariance == RatingSpec => []RatingInv
BY RatingInitInv, RatingStepInv, PTL DEF RatingSpec

\* However requests, retries and evictions interleave, a rating that was submitted counts or
\* will, unless an add was dropped (submitRating, enqueueRatingRecalculation).
THEOREM RatingOnItsWay == RatingSpec => []RatingIsOnItsWay
<1>1. RatingInv => RatingIsOnItsWay
  BY DEF RatingInv
<1> QED BY <1>1, RatingInvariance, PTL

\* A rating that counts counts for ever: no later recalculation loses it
\* (processRatingRecalculation).
THEOREM AverageGrows == RatingSpec => [][average \subseteq average']_ratingVars
<1>1. RatingInv /\ [RatingNext]_ratingVars => [average \subseteq average']_ratingVars
  BY DEF RatingInv, JobReadOn, RatingNext, ratingVars, Submit, Enqueue, StartJob, ReadAverage,
         WriteAverage, JobFails, Evict
<1> QED BY <1>1, RatingInvariance, PTL DEF RatingSpec

-----------------------------------------------------------------------------
(* A driver's statistics *)

\* The parts that FirstOf adds up: years, leap days, and the days of the months before.
LEMMA YearAndMonth ==
    ASSUME NEW m \in Nat
    PROVE  /\ m \div 12 \in Nat /\ m % 12 \in 0..11
           /\ m = 12 * (m \div 12) + (m % 12)
OBVIOUS

LEMMA LeapDays ==
    ASSUME NEW m \in Nat, NEW k \in Nat, m <= k
    PROVE  /\ (m + 34) \div 48 \in Nat /\ (k + 34) \div 48 \in Nat
           /\ (m + 34) \div 48 <= (k + 34) \div 48
OBVIOUS

LEMMA DaysBeforeMonths ==
    /\ \A i \in 1..12 : DaysBefore[i] \in 0..334
    /\ \A i, j \in 1..12 : i < j => DaysBefore[i] < DaysBefore[j]
<1>1. \A i \in 1..12 : i \in {1,2,3,4,5,6,7,8,9,10,11,12}
  OBVIOUS
<1>2. /\ DaysBefore[1] = 0 /\ DaysBefore[2] = 31 /\ DaysBefore[3] = 59 /\ DaysBefore[4] = 90
      /\ DaysBefore[5] = 120 /\ DaysBefore[6] = 151 /\ DaysBefore[7] = 181
      /\ DaysBefore[8] = 212 /\ DaysBefore[9] = 243 /\ DaysBefore[10] = 273
      /\ DaysBefore[11] = 304 /\ DaysBefore[12] = 334
  BY DEF DaysBefore
<1> QED BY <1>1, <1>2

\* A later month begins later.
LEMMA MonthsFollow ==
    ASSUME NEW m \in Nat, NEW k \in Nat, m < k
    PROVE  FirstOf(m) \in Nat /\ FirstOf(k) \in Nat /\ FirstOf(m) < FirstOf(k)
<1>1. PICK y \in Nat, z \in Nat, i \in 0..11, j \in 0..11 :
        /\ y = m \div 12 /\ z = k \div 12 /\ i = m % 12 /\ j = k % 12
        /\ m = 12 * y + i /\ k = 12 * z + j
  BY YearAndMonth
<1>2. PICK f \in Nat, g \in Nat : f = (m + 34) \div 48 /\ g = (k + 34) \div 48 /\ f <= g
  BY LeapDays
<1>3. i + 1 \in 1..12 /\ j + 1 \in 1..12
  BY <1>1
<1>4. DaysBefore[i + 1] \in 0..334 /\ DaysBefore[j + 1] \in 0..334
  BY <1>3, DaysBeforeMonths
<1>5. y < z \/ (y = z /\ DaysBefore[i + 1] < DaysBefore[j + 1])
  <2>1. y < z \/ (y = z /\ i + 1 < j + 1)
    BY <1>1
  <2> QED BY <2>1, <1>3, DaysBeforeMonths
<1>6. PICK a \in 0..334, b \in 0..334 : a = DaysBefore[i + 1] /\ b = DaysBefore[j + 1]
  BY <1>4
<1>7. FirstOf(m) = 1 + (365 * y) + a + f /\ FirstOf(k) = 1 + (365 * z) + b + g
  BY <1>1, <1>2, <1>6 DEF FirstOf
<1>8. y < z \/ (y = z /\ a < b)
  BY <1>5, <1>6
<1> QED BY <1>2, <1>7, <1>8

\* A set of natural numbers has a least one.
LEMMA LeastNumber ==
    ASSUME NEW N, N \subseteq Nat, N # {}
    PROVE  \E n \in N : \A m \in N : n <= m
<1>1. PICK n \in N : \A m \in N : <<m, n>> \notin OpToRel(<, Nat)
  BY NatLessThanWellFounded, WFMin
<1>2. \A m \in N : ~(m < n)
  BY <1>1 DEF OpToRel
<1> QED BY <1>2

\* The month of a day is the one the day is in.
LEMMA MonthIs ==
    ASSUME NEW n \in Nat, NEW m \in Months, FirstOf(m) <= n, n < FirstOf(m + 1)
    PROVE  MonthOf(n) = m
<1>1. Months \subseteq Nat
  BY YearsAssumption DEF Months
<1>2. PICK x \in Months : x = MonthOf(n) /\ FirstOf(x) <= n /\ n < FirstOf(x + 1)
  <2>1. \E x \in Months : FirstOf(x) <= n /\ n < FirstOf(x + 1)
    OBVIOUS
  <2> QED BY <2>1 DEF MonthOf
<1>3. /\ m \in Nat /\ x \in Nat /\ m + 1 \in Nat /\ x + 1 \in Nat
  BY <1>1, <1>2
<1>4. FirstOf(m) \in Nat /\ FirstOf(x) \in Nat /\ FirstOf(m + 1) \in Nat /\ FirstOf(x + 1) \in Nat
  BY <1>3, MonthsFollow
<1>5. ~(x + 1 < m) /\ x + 1 # m
  BY <1>2, <1>3, <1>4, MonthsFollow
<1>6. ~(m + 1 < x) /\ m + 1 # x
  BY <1>2, <1>3, <1>4, MonthsFollow
<1>7. x = m
  BY <1>3, <1>5, <1>6
<1> QED BY <1>2, <1>7

\* Every day from the second month to the last but one is in a month that has neighbours.
LEMMA MonthHolds ==
    ASSUME NEW n \in FirstOf(1)..(FirstOf(12 * Years - 1) - 1)
    PROVE  /\ n \in Nat
           /\ MonthOf(n) \in 1..(12 * Years - 2)
           /\ FirstOf(MonthOf(n)) <= n /\ n < FirstOf(MonthOf(n) + 1)
<1> DEFINE Later == {m \in Nat : n < FirstOf(m)}
<1>0. 12 * Years - 1 \in Nat /\ 12 * Years - 1 > 1
  BY YearsAssumption
<1>1. FirstOf(1) \in Nat /\ FirstOf(12 * Years - 1) \in Nat /\ FirstOf(0) < FirstOf(1)
      /\ FirstOf(0) \in Nat
  BY <1>0, MonthsFollow
<1>2. n \in Nat /\ n >= FirstOf(1) /\ n < FirstOf(12 * Years - 1)
  BY <1>1
<1>3. PICK k \in Later : \A m \in Later : k <= m
  BY <1>0, <1>2, LeastNumber
<1>4. k \in Nat /\ n < FirstOf(k) /\ k <= 12 * Years - 1
  BY <1>0, <1>2, <1>3
<1>5. k # 0 /\ k # 1
  <2>1. ~(n < FirstOf(0)) /\ ~(n < FirstOf(1))
    BY <1>1, <1>2
  <2> QED BY <1>4, <2>1
<1>6. k - 1 \in Nat /\ k - 1 \in 1..(12 * Years - 2) /\ (k - 1) + 1 = k
  BY <1>0, <1>4, <1>5, YearsAssumption
<1>7. k - 1 \notin Later
  BY <1>3, <1>6
<1>8. FirstOf(k - 1) \in Nat /\ FirstOf(k - 1) <= n
  <2>1. FirstOf(k - 1) \in Nat
    BY <1>6, <1>4, MonthsFollow
  <2> QED BY <1>2, <1>6, <1>7, <2>1
<1>9. k - 1 \in Months
  BY <1>6, YearsAssumption DEF Months
<1>10. MonthOf(n) = k - 1
  BY <1>2, <1>4, <1>6, <1>8, <1>9, MonthIs
<1> QED BY <1>2, <1>4, <1>6, <1>8, <1>10

\* The statistics of a period, as getStats computes them on day n.
Computed(period, n) ==
    LET r == PeriodRange(period, n)
    IN  [period |-> period, range |-> r, chart |-> Chart(r.start, r.end)]

\* The day has a month before its own and one after; statistics are of this very day.
StatsInv ==
    /\ today \in FirstOf(1)..(FirstOf(12 * Years - 1) - 1)
    /\ stats = NoStats \/ \E period \in Periods : stats = Computed(period, today)

\* The week began on a Monday, and the one before it seven days earlier.
LEMMA MondayBefore ==
    ASSUME NEW n \in Int
    PROVE  /\ SinceMonday(n) \in 0..6
           /\ SinceMonday(n - SinceMonday(n)) = 0
           /\ SinceMonday(n) = 0 => (n - 1) - SinceMonday(n - 1) = n - 7
BY DEF SinceMonday

\* What the range of each period is.
LEMMA TodayAdjoins ==
    ASSUME NEW n \in Nat, FirstOf(MonthOf(n)) \in Nat
    PROVE  PeriodRange("today", n) = DateRange(n, n, n - 1, n - 1)
BY DEF PeriodRange, TodayRange, SetDate, DateOf

LEMMA WeekAdjoins ==
    ASSUME NEW n \in Nat, FirstOf(MonthOf(n)) \in Nat,
           NEW start, start = n - SinceMonday(n)
    PROVE  /\ PeriodRange("week", n).start = start /\ PeriodRange("week", n).end = n
           /\ MonthOf(start) = MonthOf(n) =>
                PeriodRange("week", n) = DateRange(start, n, start - 7, start - 1)
<1>1. start \in Int
  BY MondayBefore
<1>2. SetDate(n, DateOf(n) - SinceMonday(n)) = start
  BY MondayBefore DEF SetDate, DateOf
<1>3. PeriodRange("week", n) = DateRange(start, n, SetDate(n, DateOf(start) - 7),
                                         SetDate(n, DateOf(start) - 1))
  BY <1>2 DEF PeriodRange, WeekRange
<1>4. MonthOf(start) = MonthOf(n) =>
        /\ SetDate(n, DateOf(start) - 7) = start - 7
        /\ SetDate(n, DateOf(start) - 1) = start - 1
  BY <1>1 DEF SetDate, DateOf
<1> QED BY <1>3, <1>4 DEF DateRange

LEMMA MonthAdjoins ==
    ASSUME NEW n \in Nat, NEW m \in Nat, m = MonthOf(n), m - 1 \in Nat,
           FirstOf(m) \in Nat, FirstOf(m - 1) \in Nat, FirstOf(m) <= n,
           FirstOf(m - 1) < FirstOf(m), m - 1 \in Months
    PROVE  /\ PeriodRange("month", n).start = FirstOf(m) /\ PeriodRange("month", n).end = n
           /\ PeriodRange("month", n).prevEnd = FirstOf(m) - 1
           /\ FirstOf(m - 1) + DateOf(n) <= FirstOf(m) =>
                 PeriodRange("month", n).prevStart = FirstOf(m - 1)
           /\ MonthOf(FirstOf(m) - 1) = m - 1
<1>1. SetDate(n, 1) = FirstOf(m) /\ SetDate(n, 0) = FirstOf(m) - 1
  BY DEF SetDate
<1>2. PeriodRange("month", n) = DateRange(FirstOf(m), n,
                                  SetDate(SetMonth(n, m - 1), 1), FirstOf(m) - 1)
  BY <1>1 DEF PeriodRange, MonthRange
<1>3. DateOf(n) \in Nat \ {0}
  BY DEF DateOf
<1>4. (m - 1) + 1 = m
  OBVIOUS
<1>5. ASSUME FirstOf(m - 1) + DateOf(n) <= FirstOf(m)
      PROVE  SetDate(SetMonth(n, m - 1), 1) = FirstOf(m - 1)
  <2>1. PICK d \in Nat : /\ d = SetMonth(n, m - 1) /\ FirstOf(m - 1) <= d
                         /\ d < FirstOf(m)
    BY <1>3, <1>5 DEF SetMonth
  <2>2. MonthOf(d) = m - 1
    BY <1>4, <2>1, MonthIs
  <2> QED BY <2>1, <2>2 DEF SetDate
<1>6. MonthOf(FirstOf(m) - 1) = m - 1
  <2>1. PICK d \in Nat : d = FirstOf(m) - 1 /\ FirstOf(m - 1) <= d /\ d < FirstOf(m)
    OBVIOUS
  <2> QED BY <1>4, <2>1, MonthIs
<1> QED BY <1>2, <1>5, <1>6 DEF DateRange

\* The chart of some days ends with the last of them.
LEMMA ChartOf ==
    ASSUME NEW a \in Int, NEW b \in Int, a <= b
    PROVE  b = Max(Chart(a, b)) /\ a <= Min(Chart(a, b))
<1> DEFINE C == Chart(a, b)
<1>1. b \in C /\ \A d \in C : d \in Int /\ a <= d /\ d <= b
  BY DEF Chart
<1>2. \E c \in C : \A d \in C : c <= d
  <2>1. CASE b - a < 7
    <3>1. a \in C
      BY <2>1 DEF Chart
    <3> QED BY <1>1, <3>1
  <2>2. CASE ~(b - a < 7)
    <3>1. b - 6 \in C /\ \A d \in C : b - 6 <= d
      BY <2>2 DEF Chart
    <3> QED BY <3>1
  <2> QED BY <2>1, <2>2
<1> HIDE DEF C
<1>3. PICK x \in C : x = Max(C) /\ \A d \in C : d <= x
  <2>1. \E c \in C : \A d \in C : d <= c
    BY <1>1
  <2> QED BY <1>1, <2>1 DEF Max
<1>4. PICK y \in C : y = Min(C)
  BY <1>1, <1>2 DEF Min
<1>5. b = Max(C) /\ a <= Min(C)
  BY <1>1, <1>3, <1>4
<1> QED BY <1>5 DEF C

\* Each range, and so what was computed, adjoins the one before.
LEMMA ComputedAdjoins ==
    ASSUME StatsInv PROVE StatsPeriodsAdjoin
<1> SUFFICES ASSUME stats # NoStats PROVE StatsPeriodsAdjoin
  BY DEF StatsPeriodsAdjoin
<1> DEFINE n == today
           m == MonthOf(today)
<1>1. PICK period \in Periods : stats = Computed(period, n)
  BY DEF StatsInv
<1>2. n \in Nat /\ m \in 1..(12 * Years - 2) /\ FirstOf(m) <= n
  BY MonthHolds DEF StatsInv
<1>3. m \in Nat /\ m - 1 \in Nat /\ m - 1 < m /\ m - 1 \in Months
  BY <1>2, YearsAssumption DEF Months
<1>4. FirstOf(m) \in Nat /\ FirstOf(m - 1) \in Nat /\ FirstOf(m - 1) < FirstOf(m)
  BY <1>3, MonthsFollow
<1> DEFINE r == PeriodRange(period, n)
<1>5. stats.period = period /\ stats.range = r /\ stats.chart = Chart(r.start, r.end)
  BY <1>1 DEF Computed
<1> HIDE DEF n, m
<1>6. /\ r.start \in Int /\ r.start <= n
      /\ r.start = PeriodStart(period, n) /\ r.end = n
  <2>1. CASE period = "today"
    BY <1>2, <1>4, <2>1, TodayAdjoins DEF m, n, PeriodStart, DateRange
  <2>2. CASE period = "week"
    BY <1>2, <1>4, <2>2, WeekAdjoins, MondayBefore DEF m, n, PeriodStart
  <2>3. CASE period = "month"
    BY <1>2, <1>3, <1>4, <2>3, MonthAdjoins DEF m, n, PeriodStart
  <2> QED BY <2>1, <2>2, <2>3 DEF Periods
<1>7. \/ r.prevEnd = r.start - 1 /\ r.prevStart = PeriodStart(period, r.prevEnd)
      \/ period = "week" /\ WeekSpansMonths
      \/ period = "month" /\ DateIsTooLate
  <2>1. CASE period = "today"
    <3>1. r = DateRange(n, n, n - 1, n - 1)
      BY <1>2, <1>4, <2>1, TodayAdjoins DEF m, n
    <3> QED BY <2>1, <3>1 DEF DateRange, PeriodStart
  <2>2. CASE period = "week" /\ ~WeekSpansMonths
    <3> DEFINE start == n - SinceMonday(n)
    <3>1. MonthOf(start) = m
      BY <2>2 DEF WeekSpansMonths, PeriodStart, m, n
    <3>2. r = DateRange(start, n, start - 7, start - 1)
      BY <1>2, <1>4, <2>2, <3>1, WeekAdjoins DEF m, n
    <3>3. start \in Int /\ SinceMonday(start) = 0
      BY <1>2, MondayBefore
    <3> HIDE DEF start
    <3>4. (start - 1) - SinceMonday(start - 1) = start - 7
      BY <3>3, MondayBefore
    <3> QED BY <2>2, <3>2, <3>4 DEF DateRange, PeriodStart
  <2>3. CASE period = "month" /\ ~DateIsTooLate
    <3>1. FirstOf(m - 1) + DateOf(n) <= FirstOf(m)
      BY <1>2, <1>4, <2>3 DEF DateIsTooLate, m, n, DateOf
    <3>2. /\ r.start = FirstOf(m) /\ r.prevEnd = FirstOf(m) - 1
          /\ r.prevStart = FirstOf(m - 1) /\ MonthOf(FirstOf(m) - 1) = m - 1
      BY <1>2, <1>3, <1>4, <2>3, <3>1, MonthAdjoins DEF m, n
    <3> QED BY <2>3, <3>2 DEF PeriodStart
  <2> QED BY <2>1, <2>2, <2>3 DEF Periods
<1>8. today = Max(stats.chart) /\ r.start <= Min(stats.chart)
  BY <1>2, <1>5, <1>6, ChartOf DEF n
<1> QED BY <1>5, <1>6, <1>7, <1>8 DEF StatsPeriodsAdjoin, ComparedWithPrevious, n

LEMMA StatsInitInv == StatsInit => StatsInv
<1>1. 12 * Years - 1 \in Nat /\ 1 < 12 * Years - 1
  BY YearsAssumption
<1>2. FirstOf(1) \in Nat /\ FirstOf(12 * Years - 1) \in Nat /\ FirstOf(1) < FirstOf(12 * Years - 1)
  BY <1>1, MonthsFollow
<1> QED BY <1>2 DEF StatsInit, StatsInv

LEMMA StatsStepInv == StatsInv /\ [StatsNext]_statsVars => StatsInv'
<1> SUFFICES ASSUME StatsInv, [StatsNext]_statsVars PROVE StatsInv'
  OBVIOUS
<1>1. ASSUME NEW period \in Periods, GetStats(period) PROVE StatsInv'
  BY <1>1 DEF GetStats, StatsInv, Computed
<1>2. CASE NextDay
  <2>1. 12 * Years - 1 \in Nat /\ 1 < 12 * Years - 1
    BY YearsAssumption
  <2>2. FirstOf(1) \in Nat /\ FirstOf(12 * Years - 1) \in Nat
    BY <2>1, MonthsFollow
  <2> QED BY <1>2, <2>2 DEF NextDay, StatsInv
<1>3. CASE UNCHANGED statsVars
  BY <1>3 DEF statsVars, StatsInv
<1> QED BY <1>1, <1>2, <1>3 DEF StatsNext

\* The day stays within the calendar, and the statistics are of one of the periods.
THEOREM StatsTypes == StatsSpec => []StatsTypeOK
<1>1. StatsInv => StatsTypeOK
  <2>1. /\ 12 * Years - 1 \in Nat /\ 12 * Years \in Nat /\ 1 < 12 * Years - 1
        /\ 12 * Years - 1 < 12 * Years
    BY YearsAssumption
  <2>2. /\ FirstOf(1) \in Nat /\ FirstOf(12 * Years - 1) \in Nat /\ FirstOf(12 * Years) \in Nat
        /\ FirstOf(12 * Years - 1) < FirstOf(12 * Years)
    BY <2>1, MonthsFollow
  <2> SUFFICES ASSUME StatsInv PROVE StatsTypeOK
    OBVIOUS
  <2>3. today \in FirstOf(1)..FirstOf(12 * Years)
    BY <2>2 DEF StatsInv
  <2>4. stats = NoStats \/ stats.period \in Periods
    BY DEF StatsInv, Computed
  <2> QED BY <2>3, <2>4 DEF StatsTypeOK
<1> QED BY <1>1, StatsInitInv, StatsStepInv, PTL DEF StatsSpec

\* For however many years: the current range is the period up to today, the chart ends with
\* today's bar, and the trends compare with the period before, but for the two cases that the
\* property names (getPeriodRange in driverService.ts).
THEOREM PeriodsAdjoin == StatsSpec => []StatsPeriodsAdjoin
<1> QED BY ComputedAdjoins, StatsInitInv, StatsStepInv, PTL DEF StatsSpec

-----------------------------------------------------------------------------
(* The services side by side *)

\* A step of the services is a step of the one in focus and leaves the others alone.
LEMMA ServiceSteps ==
    ASSUME [ServicesNext]_serviceVars
    PROVE  /\ [SharedNext]_sharedVars /\ [RatingNext]_ratingVars /\ [PushNext]_pushVars
           /\ [IdemNext]_idemVars /\ [ScheduleNext]_scheduleVars /\ [ServerNext]_serverVars
           /\ [StatsNext]_statsVars /\ [SchemaNext]_schemaVars
<1>1. CASE UNCHANGED serviceVars
  BY <1>1 DEF serviceVars
<1>2. CASE ServicesNext
  BY <1>2 DEF ServicesNext
<1> QED BY <1>1, <1>2

\* Whatever the services do is a behaviour of each by itself.
THEOREM ServicesImplementParts ==
    ServicesSpec => /\ SharedSpec /\ RatingSpec /\ PushSpec /\ IdemSpec /\ ScheduleSpec
                    /\ ServerSpec /\ StatsSpec /\ SchemaSpec
<1>1. ServicesInit => /\ SharedInit /\ RatingInit /\ PushInit /\ IdemInit /\ ScheduleInit
                      /\ ServerInit /\ StatsInit /\ SchemaInit
  BY DEF ServicesInit
<1> QED BY <1>1, ServiceSteps, PTL
        DEF ServicesSpec, SharedSpec, RatingSpec, PushSpec, IdemSpec, ScheduleSpec, ServerSpec,
            StatsSpec, SchemaSpec

\* Seats, ratings, pushes, retries, bookings, the process, statistics and the schema keep
\* their types and bounds side by side.
THEOREM ServicesTypes == ServicesSpec => []ServicesTypeOK
<1>1. /\ SharedInv => SharedTypeOK
      /\ RatingInv => RatingTypeOK
      /\ PushInv => PushTypeOK
      /\ IdemInv => IdemTypeOK
      /\ ScheduleInv => ScheduleTypeOK
      /\ ServerInv => ServerTypeOK
  BY DEF SharedInv, RatingInv, PushInv, IdemInv, ScheduleInv, ServerInv
<1>2. SharedTypeOK /\ RatingTypeOK /\ PushTypeOK /\ IdemTypeOK /\ ScheduleTypeOK
      /\ ServerTypeOK /\ StatsTypeOK /\ SchemaTypeOK => ServicesTypeOK
  BY DEF ServicesTypeOK
<1> QED BY <1>1, <1>2, ServicesImplementParts, SharedInvariance, RatingInvariance,
           PushInvariance, IdemInvariance, ScheduleInvariance, ServerInvariance, StatsTypes,
           SchemaTypes, PTL

\* Every safety property of the services holds of them side by side.
THEOREM ServicesAreSafe ==
    ServicesSpec => [](/\ SeatsAddUp /\ DonePushReachedAll /\ RetryIsHarmless
                       /\ BookingWillExpire /\ ServedHaveTheirParts /\ StatsPeriodsAdjoin
                       /\ MigrationsAreReversible /\ RatingIsOnItsWay)
<1> QED BY ServicesImplementParts, NeverOverbooked, DoneReachedAll, RetriesAreHarmless,
           BookingsWillExpire, ServedAreSupplied, PeriodsAdjoin, MigrationsReverse, RatingOnItsWay,
           PTL
=============================================================================
