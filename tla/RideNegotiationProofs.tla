------------------------ MODULE RideNegotiationProofs ------------------------
(***************************************************************************)
(* The safety properties of RideNegotiation for every set of drivers,      *)
(* offers, requests and workers: an inductive invariant IInv that says     *)
(* what each row lock protects, and from it the properties of the runs and *)
(* the refinement of RideLifecycle.  Three kinds of step are told apart:   *)
(* those that move one handler and leave the rows alone, those that close  *)
(* one offer, and the few that write the ride or several offers at once.   *)
(***************************************************************************)
EXTENDS RideNegotiation, TLAPS

\* The steps at which a handler works on an offer.
OfferSteps ==
    {"accept_enqueue", "pick_write", "pick_done", "refuse_write", "refuse_done",
     "decline_lock", "decline_commit", "decline_revert", "decline_done"}
        \cup OfferExpirationSteps

\* A handler that works on an offer works on one that has been inserted.
WorkingOffers ==
    \A p \in Handlers : proc[p].at \in OfferSteps =>
        /\ proc[p].offer \in Offers
        /\ offers[proc[p].offer].status # "none"

\* An inserted offer has its driver, and a ride that has been requested.
OffersHaveDrivers ==
    \A o \in Offers : offers[o].status # "none" =>
        offers[o].driver \in Drivers /\ ride.status # "none"

\* Row locks exclude each other.
LocksExclude ==
    /\ \A p, q \in Handlers : HoldsRide(p) /\ HoldsRide(q) => p = q
    /\ \A p, q \in Handlers :
         HoldsOffer(p) /\ HoldsOffer(q) /\ proc[p].offer = proc[q].offer => p = q

\* What a handler read under a lock is still so while it holds the lock.
LocksProtect ==
    /\ \A p \in Handlers : HoldsOffer(p) => offers[proc[p].offer].status = "pending"
    /\ \A p \in Handlers : proc[p].at = "pick_write" => ride.status = "offered"
    /\ \A p \in Handlers : proc[p].at = "rexp_write" => ride.status \in OpenStatus

\* A ride still in the market has no driver, and no offer on it was accepted; a
\* ride that is not cancelled was cancelled by nobody.
MarketIsOpen ==
    /\ ride.status \in OpenStatus \cup {"none"} =>
         /\ ride.driver = NoDriver
         /\ \A o \in Offers : offers[o].status # "accepted"
    /\ ride.status \in MatchedStatus => ride.driver # NoDriver
    /\ ride.status # "cancelled" => ride.cancelledBy = "nobody"

\* Handlers that will emit ride:cancelled, or cancel a ride's expiration job, do so
\* for a ride that has left the market; a ride being expired has been requested.
LateHandlers ==
    \A p \in Handlers :
        /\ proc[p].at \in {"rexp_done", "pick_done", "cancel_done"} =>
             ride.status \notin OpenStatus \cup {"none"}
        /\ proc[p].at = "rexp_lock" => ride.status # "none"

\* The part of the invariant about the rows alone.
RowInv ==
    /\ OffersHaveDrivers
    /\ MarketIsOpen
    /\ AcceptedOfferIsThePick
    /\ MatchedRideHasNoPendingOffer
    /\ OnePendingOfferPerDriver
    /\ SystemCancelsOnlyUnmatched

\* The part that relates the handlers to the rows.
HandlerInv ==
    /\ WorkingOffers
    /\ LocksExclude
    /\ LocksProtect
    /\ LateHandlers
    /\ AnnouncedIsOver

IInv == TypeOK /\ RowInv /\ HandlerInv

-----------------------------------------------------------------------------
(* Type correctness *)

\* The jobs that the queue operations make are jobs.
LEMMA JobTypes ==
    ASSUME NEW job \in Job
    PROVE  /\ NoJob \in Job
           /\ Enqueued(job) \in Job
           /\ Cancelled(job) \in Job
           /\ Started(job) \in Job
           /\ AttemptFailed(job) \in Job
           /\ [job EXCEPT !.state = "waiting"] \in Job
BY AttemptsAssumption DEF Job, NoJob, Enqueued, Cancelled, Started, AttemptFailed

\* A slot that begins, goes on with, or ends a handler is still well-typed.
LEMMA HandlerTypes ==
    ASSUME TypeOK, NEW p \in Handlers
    PROVE  /\ Finish(p) => proc' \in [Handlers -> Handler]
           /\ \A step \in Steps : Advance(p, step) => proc' \in [Handlers -> Handler]
           /\ \A step \in Steps, o \in Offers \cup {NoOffer}, b \in BOOLEAN :
                 Begin(p, step, o, b) => proc' \in [Handlers -> Handler]
<1>1. proc \in [Handlers -> Handler]
  BY DEF TypeOK
<1>2. Finish(p) => proc' \in [Handlers -> Handler]
  <2>1. Idle \in Handler
    BY DEF Idle, Handler, Steps
  <2> QED BY <1>1, <2>1 DEF Finish
<1>3. ASSUME NEW step \in Steps, Advance(p, step)
      PROVE  proc' \in [Handlers -> Handler]
  <2>1. [proc[p] EXCEPT !.at = step] \in Handler
    BY <1>1 DEF Handler
  <2> QED BY <1>1, <1>3, <2>1 DEF Advance
<1>4. ASSUME NEW step \in Steps, NEW o \in Offers \cup {NoOffer}, NEW b \in BOOLEAN,
             Begin(p, step, o, b)
      PROVE  proc' \in [Handlers -> Handler]
  <2>1. [at |-> step, offer |-> o, others |-> {}, flag |-> b] \in Handler
    BY DEF Handler
  <2> QED BY <1>1, <1>4, <2>1 DEF Begin
<1> QED BY <1>2, <1>3, <1>4

LEMMA InitTypes == Init => TypeOK
<1> SUFFICES ASSUME Init PROVE TypeOK
  OBVIOUS
<1> USE DEF Init, TypeOK
<1>1. ride \in RideRow
  BY DEF RideRow, RideStatus, CancelSource
<1>2. offers \in [Offers -> OfferRow]
  BY DEF OfferRow, OfferStatus
<1>3. rideJob \in Job /\ offerJob \in [Offers -> Job]
  BY AttemptsAssumption DEF Job, NoJob
<1>4. proc \in [Handlers -> Handler]
  BY DEF Handler, Idle, Steps
<1>5. announced \in BOOLEAN /\ picked \in Offers \cup {NoOffer}
  OBVIOUS
<1>6. crashes \in 0..MaxCrashes
  BY CrashesAssumption
<1> QED BY <1>1, <1>2, <1>3, <1>4, <1>5, <1>6

\* Handlers that are over leave their slot idle and jobs that are jobs.
LEMMA FinishTypes ==
    ASSUME TypeOK, NEW p \in Handlers, Finish(p),
           UNCHANGED <<ride, offers, picked>>,
           rideJob' \in Job, offerJob' \in [Offers -> Job],
           announced' \in BOOLEAN, crashes' \in 0..MaxCrashes
    PROVE  TypeOK'
BY HandlerTypes DEF TypeOK

\* The steps that change queues and handlers only.
LEMMA QueueTypes ==
    ASSUME TypeOK, WorkingOffers, NEW p \in Handlers,
           \/ RequestEnqueue(p) \/ AcceptEnqueue(p) \/ PickDone(p) \/ RefuseDone(p)
           \/ DeclineDone(p) \/ ExpireDone(p) \/ RideExpireDone(p) \/ CancelDone(p)
           \/ Abort(p) \/ Crash(p)
    PROVE  TypeOK'
<1> USE DEF TypeOK
<1>0. /\ \A job \in Job : /\ NoJob \in Job
                          /\ Enqueued(job) \in Job
                          /\ Cancelled(job) \in Job
                          /\ AttemptFailed(job) \in Job
                          /\ [job EXCEPT !.state = "waiting"] \in Job
  BY JobTypes
<1>1. CASE RequestEnqueue(p)
  BY <1>0, <1>1, FinishTypes DEF RequestEnqueue
<1>2. CASE AcceptEnqueue(p)
  BY <1>0, <1>2, FinishTypes DEF AcceptEnqueue
<1>3. CASE PickDone(p)
  <2>1. offerJob' \in [Offers -> Job]
    BY <1>0, <1>3 DEF PickDone
  <2> QED BY <1>0, <1>3, <2>1, FinishTypes DEF PickDone
<1>4. CASE RefuseDone(p) \/ DeclineDone(p)
  <2>1. PICK step : RefusalDone(p, step)
    BY <1>4 DEF RefuseDone, DeclineDone
  <2>2. offerJob' \in [Offers -> Job]
    BY <1>0, <2>1 DEF RefusalDone
  <2> QED BY <2>1, <2>2, FinishTypes DEF RefusalDone
<1>5. CASE ExpireDone(p)
  BY <1>0, <1>5, FinishTypes DEF ExpireDone
<1>6. CASE RideExpireDone(p) \/ CancelDone(p)
  BY <1>0, <1>6, FinishTypes DEF RideExpireDone, CancelDone
<1>7. CASE Abort(p)
  BY <1>0, <1>7, FinishTypes DEF Abort
<1>8. CASE Crash(p)
  <2>1. crashes' \in 0..MaxCrashes
    BY <1>8, CrashesAssumption DEF Crash
  <2>2. rideJob' \in Job /\ offerJob' \in [Offers -> Job]
    BY <1>0, <1>8 DEF Crash
  <2> QED BY <1>8, <2>1, <2>2, FinishTypes DEF Crash
<1> QED BY <1>1, <1>2, <1>3, <1>4, <1>5, <1>6, <1>7, <1>8

\* Updating a row's status leaves it a row.
LEMMA RowTypes ==
    ASSUME TypeOK
    PROVE  /\ \A o \in Offers, s \in OfferStatus : SetOffer(o, s) => offers' \in [Offers -> OfferRow]
           /\ \A s \in RideStatus : SetRide(s) => ride' \in RideRow
BY DEF TypeOK, SetOffer, SetRide, OfferRow, RideRow

\* The steps of requests that change rows or their own slot only.
LEMMA RequestTypes ==
    ASSUME TypeOK, WorkingOffers, NEW p \in Handlers,
           \/ RequestRide(p) \/ PickWrite(p) \/ RefuseWrite(p)
           \/ DeclineLock(p) \/ DeclineCommit(p) \/ DeclineRevert(p)
           \/ \E d \in Drivers : AcceptRide(p, d)
           \/ \E o \in Offers : PickLock(p, o) \/ RefuseRead(p, o) \/ DeclineRead(p, o)
           \/ \E who \in {"rider", "driver"} : CancelRide(p, who)
    PROVE  TypeOK'
<1> USE DEF TypeOK
<1>1. /\ {"pending", "offered", "cancelled", "accepted"} \subseteq RideStatus
      /\ {"pending", "rejected", "accepted", "none"} \subseteq OfferStatus
      /\ RequestSteps \subseteq Steps
      /\ OfferSteps \subseteq Steps
  BY DEF RideStatus, OfferStatus, Steps, OfferSteps, RequestSteps
<1>2. CASE RequestRide(p)
  BY <1>1, <1>2, RowTypes, HandlerTypes DEF RequestRide, RequestSteps
<1>3. ASSUME NEW d \in Drivers, AcceptRide(p, d) PROVE TypeOK'
  <2>1. PICK x \in Offers :
          /\ offers' = [offers EXCEPT ![x] = [status |-> "pending", driver |-> d]]
          /\ Begin(p, "accept_enqueue", x, FALSE)
    BY <1>3 DEF AcceptRide
  <2>2. offers' \in [Offers -> OfferRow]
    BY <1>1, <2>1 DEF OfferRow
  <2>3. proc' \in [Handlers -> Handler]
    BY <1>1, <2>1, HandlerTypes DEF RequestSteps
  <2>4. ride' \in RideRow
    BY <1>1, <1>3 DEF AcceptRide, SetRide, RideRow
  <2>5. UNCHANGED <<rideJob, offerJob, announced, picked, crashes>>
    BY <1>3 DEF AcceptRide
  <2> QED BY <2>2, <2>3, <2>4, <2>5
<1>4. ASSUME NEW o \in Offers, PickLock(p, o) PROVE TypeOK'
  BY <1>1, <1>4, HandlerTypes DEF PickLock, RequestSteps
<1>5. CASE PickWrite(p)
  <2> DEFINE losers == PendingOffers \ {proc[p].offer}
  <2>1. proc[p].offer \in Offers
    BY <1>5 DEF PickWrite, WorkingOffers, OfferSteps
  <2>2. offers' \in [Offers -> OfferRow]
    BY <1>1, <1>5, <2>1 DEF PickWrite, OfferRow
  <2>3. ride' \in RideRow
    BY <1>1, <1>5, <2>1 DEF PickWrite, RideRow, OfferRow
  <2>4. [proc[p] EXCEPT !.at = "pick_done", !.others = losers] \in Handler
    BY DEF Handler, Steps, RequestSteps, PendingOffers
  <2>5. proc' \in [Handlers -> Handler]
    BY <1>5, <2>4 DEF PickWrite
  <2> QED BY <1>5, <2>1, <2>2, <2>3, <2>5 DEF PickWrite
<1>6. ASSUME NEW o \in Offers, RefuseRead(p, o) PROVE TypeOK'
  BY <1>1, <1>6, HandlerTypes DEF RefuseRead, RequestSteps
<1>7. CASE RefuseWrite(p)
  BY <1>1, <1>7, RowTypes, HandlerTypes DEF RefuseWrite, RequestSteps, WorkingOffers, OfferSteps
<1>8. ASSUME NEW o \in Offers, DeclineRead(p, o) PROVE TypeOK'
  <2>1. (ride.status = "offered") \in BOOLEAN
    OBVIOUS
  <2>2. proc' \in [Handlers -> Handler]
    BY <1>1, <1>8, <2>1, HandlerTypes DEF DeclineRead, RequestSteps
  <2> QED BY <1>8, <2>2 DEF DeclineRead
<1>9. CASE DeclineLock(p)
  <2>1. \/ Finish(p)
        \/ \E step \in {"decline_revert", "decline_commit"} : Advance(p, step)
    BY <1>9 DEF DeclineLock
  <2>2. proc' \in [Handlers -> Handler]
    BY <1>1, <2>1, HandlerTypes DEF RequestSteps
  <2> QED BY <1>9, <2>2 DEF DeclineLock
<1>10. CASE DeclineCommit(p)
  BY <1>1, <1>10, RowTypes, HandlerTypes
     DEF DeclineCommit, RequestSteps, WorkingOffers, OfferSteps
<1>11. CASE DeclineRevert(p)
  BY <1>1, <1>11, RowTypes, HandlerTypes
     DEF DeclineRevert, RequestSteps, WorkingOffers, OfferSteps
<1>12. ASSUME NEW who \in {"rider", "driver"}, CancelRide(p, who) PROVE TypeOK'
  <2>1. ride' \in RideRow
    BY <1>1, <1>12 DEF CancelRide, RideRow, CancelSource
  <2> QED BY <1>1, <1>12, <2>1, HandlerTypes DEF CancelRide, RequestSteps
<1> QED BY <1>2, <1>3, <1>4, <1>5, <1>6, <1>7, <1>8, <1>9, <1>10, <1>11, <1>12

\* The steps of the workers, and of the driver who was picked.
LEMMA WorkerTypes ==
    ASSUME TypeOK, WorkingOffers,
           \/ \E p \in Handlers : \/ \E o \in Offers : OfferJobStart(p, o)
                                 \/ ExpireLock(p) \/ ExpireCommit(p) \/ ExpireRevert(p)
                                 \/ RideJobStart(p) \/ RideExpireLock(p) \/ RideExpireWrite(p)
           \/ StartRide \/ CompleteRide
    PROVE  TypeOK'
<1> USE DEF TypeOK
<1>1. /\ {"pending", "in_progress", "completed", "cancelled"} \subseteq RideStatus
      /\ "expired" \in OfferStatus
      /\ OfferExpirationSteps \subseteq Steps
      /\ RideExpirationSteps \subseteq Steps
      /\ \A job \in Job : NoJob \in Job /\ Started(job) \in Job
  BY JobTypes DEF RideStatus, OfferStatus, Steps
<1>2. ASSUME NEW p \in Handlers, NEW o \in Offers, OfferJobStart(p, o) PROVE TypeOK'
  <2>1. offerJob' \in [Offers -> Job]
    BY <1>1, <1>2 DEF OfferJobStart
  <2> QED BY <1>1, <1>2, <2>1, HandlerTypes DEF OfferJobStart, OfferExpirationSteps
<1>3. ASSUME NEW p \in Handlers, ExpireLock(p) PROVE TypeOK'
  <2>1. \E step \in {"expire_done", "expire_revert", "expire_commit"} : Advance(p, step)
    BY <1>3 DEF ExpireLock
  <2>2. proc' \in [Handlers -> Handler]
    BY <1>1, <2>1, HandlerTypes DEF OfferExpirationSteps
  <2> QED BY <1>3, <2>2 DEF ExpireLock
<1>4. ASSUME NEW p \in Handlers, ExpireCommit(p) PROVE TypeOK'
  BY <1>1, <1>4, RowTypes, HandlerTypes
     DEF ExpireCommit, OfferExpirationSteps, WorkingOffers, OfferSteps
<1>5. ASSUME NEW p \in Handlers, ExpireRevert(p) PROVE TypeOK'
  <2> DEFINE reverts == ride.status = "offered"
  <2>1. [proc[p] EXCEPT !.at = "expire_done", !.flag = reverts] \in Handler
    <3>1. reverts \in BOOLEAN
      OBVIOUS
    <3> QED BY <1>1, <3>1 DEF Handler, OfferExpirationSteps
  <2>2. proc' \in [Handlers -> Handler]
    BY <1>5, <2>1 DEF ExpireRevert
  <2>3. ride' \in RideRow
    BY <1>1, <1>5 DEF ExpireRevert, RideRow
  <2>4. offers' \in [Offers -> OfferRow]
    BY <1>1, <1>5, RowTypes DEF ExpireRevert, WorkingOffers, OfferSteps, OfferExpirationSteps
  <2> QED BY <1>5, <2>2, <2>3, <2>4 DEF ExpireRevert
<1>6. ASSUME NEW p \in Handlers, RideJobStart(p) PROVE TypeOK'
  BY <1>1, <1>6, HandlerTypes DEF RideJobStart, RideExpirationSteps
<1>7. ASSUME NEW p \in Handlers, RideExpireLock(p) PROVE TypeOK'
  <2>1. \E step \in {"rexp_write", "rexp_done"} : Advance(p, step)
    BY <1>7 DEF RideExpireLock
  <2>2. proc' \in [Handlers -> Handler]
    BY <1>1, <2>1, HandlerTypes DEF RideExpirationSteps
  <2> QED BY <1>7, <2>2 DEF RideExpireLock
<1>8. ASSUME NEW p \in Handlers, RideExpireWrite(p) PROVE TypeOK'
  <2>1. ride' \in RideRow
    BY <1>1, <1>8 DEF RideExpireWrite, RideRow, CancelSource
  <2>2. offers' \in [Offers -> OfferRow]
    BY <1>1, <1>8 DEF RideExpireWrite, OfferRow
  <2> QED BY <1>1, <1>8, <2>1, <2>2, HandlerTypes DEF RideExpireWrite, RideExpirationSteps
<1>9. CASE StartRide
  BY <1>1, <1>9, RowTypes DEF StartRide
<1>10. CASE CompleteRide
  <2>1. ride' \in RideRow
    BY <1>1, <1>10 DEF CompleteRide, RideRow
  <2> QED BY <1>10, <2>1 DEF CompleteRide
<1> QED BY <1>2, <1>3, <1>4, <1>5, <1>6, <1>7, <1>8, <1>9, <1>10

-----------------------------------------------------------------------------
(* The invariant is inductive *)

\* The ride is out of the market, and was in it once.
Closed == ride.status \notin OpenStatus \cup {"none"}

-----------------------------------------------------------------------------
(* Steps that leave the rows alone *)

\* What a handler in slot p may go on to hold or do, given the rows: it works on
\* an inserted offer, holds a lock only if it was free and what it protects was
\* read under it, and is late only for a ride that is closed.
MayStandAt(h) ==
    /\ h.at \in OfferSteps => h.offer \in Offers /\ offers[h.offer].status # "none"
    /\ h.at = "pick_write" => RideFree /\ ride.status = "offered"
    /\ h.at = "rexp_write" => RideFree /\ ride.status \in OpenStatus
    /\ h.at \in {"decline_commit", "decline_revert", "expire_commit", "expire_revert"} =>
         OfferFree(h.offer) /\ offers[h.offer].status = "pending"
    /\ h.at \in {"rexp_done", "pick_done", "cancel_done"} => Closed
    /\ h.at = "rexp_lock" => ride.status # "none"

\* Moving one handler to a place it may stand at keeps the invariant.
LEMMA SlotStep ==
    ASSUME IInv, TypeOK', NEW p \in Handlers, NEW h \in Handler,
           proc' = [proc EXCEPT ![p] = h],
           UNCHANGED <<ride, offers, picked>>,
           announced' => announced \/ Closed,
           MayStandAt(h)
    PROVE  IInv'
<1> USE DEF IInv, HandlerInv
<1>1. proc \in [Handlers -> Handler] /\ PendingOffers' = PendingOffers
  BY DEF TypeOK, PendingOffers
<1>2. \A q \in Handlers : proc'[q] = IF q = p THEN h ELSE proc[q]
  BY <1>1
<1>3. RowInv'
  BY <1>1 DEF RowInv, OffersHaveDrivers, MarketIsOpen, AcceptedOfferIsThePick,
              MatchedRideHasNoPendingOffer, OnePendingOfferPerDriver,
              SystemCancelsOnlyUnmatched
<1>4. WorkingOffers'
  BY <1>2 DEF WorkingOffers, MayStandAt
<1>5. LocksExclude'
  BY <1>2 DEF LocksExclude, MayStandAt, HoldsRide, HoldsOffer, RideFree, OfferFree
<1>6. LocksProtect'
  BY <1>2 DEF LocksProtect, MayStandAt, HoldsRide, HoldsOffer
<1>7. LateHandlers'
  BY <1>2 DEF LateHandlers, MayStandAt, Closed
<1>8. AnnouncedIsOver'
  BY DEF AnnouncedIsOver, Closed
<1> QED BY <1>3, <1>4, <1>5, <1>6, <1>7, <1>8
\* So does a step of the queues alone.
LEMMA QueueStep ==
    ASSUME IInv, TypeOK', UNCHANGED <<ride, offers, picked, announced, proc>>
    PROVE  IInv'
BY DEF IInv, HandlerInv, RowInv, OffersHaveDrivers, MarketIsOpen, AcceptedOfferIsThePick,
       MatchedRideHasNoPendingOffer, OnePendingOfferPerDriver, SystemCancelsOnlyUnmatched,
       WorkingOffers, LocksExclude, LocksProtect, LateHandlers, AnnouncedIsOver,
       HoldsRide, HoldsOffer, PendingOffers

\* Handlers that only move on to where they may stand: reading, and taking locks.
LEMMA ReadSteps ==
    ASSUME IInv, TypeOK', NEW p \in Handlers,
           \/ \E o \in Offers : \/ PickLock(p, o) \/ RefuseRead(p, o)
                               \/ DeclineRead(p, o) \/ OfferJobStart(p, o)
           \/ DeclineLock(p) \/ ExpireLock(p) \/ RideJobStart(p) \/ RideExpireLock(p)
    PROVE  IInv'
<1> DEFINE Stands(step, x, b) == [at |-> step, offer |-> x, others |-> {}, flag |-> b]
           Moved(step) == [proc[p] EXCEPT !.at = step]
<1>1. /\ RequestSteps \subseteq Steps
      /\ OfferExpirationSteps \subseteq Steps
      /\ RideExpirationSteps \subseteq Steps
      /\ Idle \in Handler
  BY DEF Steps, Handler, Idle
<1>2. \A step \in Steps : Moved(step) \in Handler
  BY DEF IInv, TypeOK, Handler
<1>3. \A step \in Steps, x \in Offers \cup {NoOffer}, b \in BOOLEAN : Stands(step, x, b) \in Handler
  BY DEF Handler
<1>4. UNCHANGED <<ride, offers, picked, announced>>
  BY DEF PickLock, RefuseRead, DeclineRead, DeclineLock, OfferJobStart, ExpireLock,
         RideJobStart, RideExpireLock
<1>5. ASSUME NEW o \in Offers, PickLock(p, o) PROVE IInv'
  <2>1. MayStandAt(Stands("pick_write", o, FALSE))
    BY <1>5 DEF PickLock, MayStandAt, CanTransition, ValidTransitions, RideStatus, IInv, TypeOK, RideRow
  <2>2. proc' = [proc EXCEPT ![p] = Stands("pick_write", o, FALSE)]
    BY <1>5 DEF PickLock, Begin
  <2>3. Stands("pick_write", o, FALSE) \in Handler
    BY <1>1, <1>3 DEF RequestSteps
  <2> HIDE DEF Stands
  <2> QED BY <1>4, <2>1, <2>2, <2>3, SlotStep
<1>6. ASSUME NEW o \in Offers, RefuseRead(p, o) PROVE IInv'
  <2>1. MayStandAt(Stands("refuse_write", o, FALSE))
    BY <1>6 DEF RefuseRead, MayStandAt
  <2>2. proc' = [proc EXCEPT ![p] = Stands("refuse_write", o, FALSE)]
    BY <1>6 DEF RefuseRead, Begin
  <2>3. Stands("refuse_write", o, FALSE) \in Handler
    BY <1>1, <1>3 DEF RequestSteps
  <2> HIDE DEF Stands
  <2> QED BY <1>4, <2>1, <2>2, <2>3, SlotStep
<1>7. ASSUME NEW o \in Offers, DeclineRead(p, o) PROVE IInv'
  <2> DEFINE wasOffered == ride.status = "offered"
  <2>1. MayStandAt(Stands("decline_lock", o, wasOffered))
    BY <1>7 DEF DeclineRead, MayStandAt
  <2>2. proc' = [proc EXCEPT ![p] = Stands("decline_lock", o, wasOffered)]
    BY <1>7 DEF DeclineRead, Begin
  <2>3. Stands("decline_lock", o, wasOffered) \in Handler
    <3>1. wasOffered \in BOOLEAN
      OBVIOUS
    <3> QED BY <1>1, <1>3, <3>1 DEF RequestSteps
  <2> HIDE DEF Stands
  <2> QED BY <1>4, <2>1, <2>2, <2>3, SlotStep
<1>8. CASE DeclineLock(p)
  <2>1. CASE proc[p].offer \in PendingOffers
    <3>1. PICK step \in {"decline_revert", "decline_commit"} : Advance(p, step)
      BY <1>8, <2>1 DEF DeclineLock
    <3>2. MayStandAt(Moved(step)) /\ Moved(step) \in Handler
      BY <1>1, <1>2, <1>8, <2>1, <3>1
         DEF DeclineLock, MayStandAt, PendingOffers, RequestSteps, Handler, IInv, TypeOK
    <3> QED BY <1>4, <3>1, <3>2, SlotStep DEF Advance
  <2>2. CASE proc[p].offer \notin PendingOffers
    <3>1. MayStandAt(Idle)
      BY DEF MayStandAt, Idle, OfferSteps, OfferExpirationSteps
    <3> QED BY <1>1, <1>4, <1>8, <2>2, <3>1, SlotStep DEF DeclineLock, Finish
  <2> QED BY <2>1, <2>2
<1>9. ASSUME NEW o \in Offers, OfferJobStart(p, o) PROVE IInv'
  <2>1. CASE offers[o].status = "pending"
    <3>1. MayStandAt(Stands("expire_lock", o, FALSE))
      BY <2>1 DEF MayStandAt
    <3>2. proc' = [proc EXCEPT ![p] = Stands("expire_lock", o, FALSE)]
      BY <1>9, <2>1 DEF OfferJobStart, Begin
    <3>3. Stands("expire_lock", o, FALSE) \in Handler
      BY <1>1, <1>3 DEF OfferExpirationSteps
    <3> HIDE DEF Stands
    <3> QED BY <1>4, <3>1, <3>2, <3>3, SlotStep
  <2>2. CASE offers[o].status # "pending"
    BY <1>9, <2>2, QueueStep DEF OfferJobStart
  <2> QED BY <2>1, <2>2
<1>10. CASE ExpireLock(p)
  <2>1. PICK step \in {"expire_done", "expire_revert", "expire_commit"} :
          /\ Advance(p, step)
          /\ step # "expire_done" => proc[p].offer \in PendingOffers
    BY <1>10 DEF ExpireLock
  <2>2. proc[p].offer \in Offers /\ offers[proc[p].offer].status # "none"
    BY <1>10 DEF ExpireLock, IInv, HandlerInv, WorkingOffers, OfferSteps, OfferExpirationSteps
  <2>3. MayStandAt(Moved(step)) /\ Moved(step) \in Handler
    BY <1>1, <1>2, <1>10, <2>1, <2>2
       DEF ExpireLock, MayStandAt, PendingOffers, OfferExpirationSteps, Handler, IInv, TypeOK
  <2> QED BY <1>4, <2>1, <2>3, SlotStep DEF Advance
<1>11. CASE RideJobStart(p)
  <2>1. CASE ride.status \in OpenStatus
    <3>1. MayStandAt(Stands("rexp_lock", NoOffer, FALSE))
      BY <2>1 DEF MayStandAt, OfferSteps, OfferExpirationSteps, OpenStatus
    <3>2. proc' = [proc EXCEPT ![p] = Stands("rexp_lock", NoOffer, FALSE)]
      BY <1>11, <2>1 DEF RideJobStart, Begin
    <3>3. Stands("rexp_lock", NoOffer, FALSE) \in Handler
      BY <1>1, <1>3 DEF RideExpirationSteps
    <3> HIDE DEF Stands
    <3> QED BY <1>4, <3>1, <3>2, <3>3, SlotStep
  <2>2. CASE ride.status \notin OpenStatus
    BY <1>11, <2>2, QueueStep DEF RideJobStart
  <2> QED BY <2>1, <2>2
<1>12. CASE RideExpireLock(p)
  <2>1. PICK step \in {"rexp_write", "rexp_done"} :
          /\ Advance(p, step)
          /\ step = "rexp_write" <=> ride.status \in OpenStatus
    BY <1>12 DEF RideExpireLock
  <2>2. ride.status # "none"
    BY <1>12 DEF RideExpireLock, IInv, HandlerInv, LateHandlers
  <2>3. MayStandAt(Moved(step)) /\ Moved(step) \in Handler
    BY <1>1, <1>2, <1>12, <2>1, <2>2
       DEF RideExpireLock, MayStandAt, RideExpirationSteps, Closed, OfferSteps,
           OfferExpirationSteps, Handler, IInv, TypeOK
  <2> QED BY <1>4, <2>1, <2>3, SlotStep DEF Advance
<1> QED BY <1>5, <1>6, <1>7, <1>8, <1>9, <1>10, <1>11, <1>12

\* Handlers that end: enqueueing, cancelling jobs, emitting ride:cancelled, or dying.
LEMMA EndSteps ==
    ASSUME IInv, TypeOK', NEW p \in Handlers,
           \/ RequestEnqueue(p) \/ AcceptEnqueue(p) \/ PickDone(p) \/ RefuseDone(p)
           \/ DeclineDone(p) \/ ExpireDone(p) \/ RideExpireDone(p) \/ CancelDone(p)
           \/ Abort(p) \/ Crash(p)
    PROVE  IInv'
<1>1. Idle \in Handler /\ MayStandAt(Idle)
  BY DEF Idle, Handler, Steps, MayStandAt, OfferSteps, OfferExpirationSteps
<1>2. Finish(p) /\ UNCHANGED <<ride, offers, picked>>
  BY DEF RequestEnqueue, AcceptEnqueue, PickDone, RefuseDone, DeclineDone, RefusalDone,
         ExpireDone, RideExpireDone, CancelDone, Abort, Crash
<1>3. announced' => announced \/ Closed
  <2>1. CASE RideExpireDone(p) \/ CancelDone(p)
    BY <2>1 DEF RideExpireDone, CancelDone, IInv, HandlerInv, LateHandlers, Closed
  <2>2. CASE ~(RideExpireDone(p) \/ CancelDone(p))
    BY <2>2 DEF RequestEnqueue, AcceptEnqueue, PickDone, RefuseDone, DeclineDone,
                RefusalDone, ExpireDone, Abort, Crash
  <2> QED BY <2>1, <2>2
<1> QED BY <1>1, <1>2, <1>3, SlotStep DEF Finish

-----------------------------------------------------------------------------
(* Steps that close one offer *)

\* The ride is left alone or goes back to Pending, in which case nobody holds it.
RideStaysOrReverts ==
    \/ ride' = ride
    \/ RideFree /\ ride.status = "offered" /\ SetRide("pending")

\* A handler that rejects or expires its offer, and with it perhaps reverts the
\* ride, keeps the invariant: if it does not hold the offer's lock, nobody does.
LEMMA OfferCloses ==
    ASSUME IInv, TypeOK', NEW p \in Handlers, NEW h \in Handler, NEW s \in {"rejected", "expired"},
           proc[p].at \in OfferSteps,
           HoldsOffer(p) \/ OfferFree(proc[p].offer),
           SetOffer(proc[p].offer, s),
           RideStaysOrReverts,
           proc' = [proc EXCEPT ![p] = h],
           h.offer = proc[p].offer,
           h.at \in {"refuse_done", "decline_done", "expire_done"},
           ~HoldsRide(p),
           UNCHANGED <<picked, announced>>
    PROVE  IInv'
<1> DEFINE o == proc[p].offer
<1> USE DEF IInv, HandlerInv
<1>1. o \in Offers /\ offers[o].status # "none"
  BY DEF WorkingOffers
<1>2. \A q \in Handlers : proc'[q] = IF q = p THEN h ELSE proc[q]
  BY DEF TypeOK
<1>3. \A x \in Offers : /\ offers'[x].driver = offers[x].driver
                        /\ offers'[x].status = IF x = o THEN s ELSE offers[x].status
  BY <1>1 DEF SetOffer, TypeOK, OfferRow
<1>4. /\ ride'.driver = ride.driver /\ ride'.cancelledBy = ride.cancelledBy
      /\ \/ ride'.status = ride.status
         \/ RideFree /\ ride.status = "offered" /\ ride'.status = "pending"
  BY DEF RideStaysOrReverts, SetRide, TypeOK, RideRow
<1>5. PendingOffers' = PendingOffers \ {o}
  BY <1>3 DEF PendingOffers
<1> HIDE DEF o
<1>6. RowInv'
  <2> USE DEF RowInv
  <2>1. OffersHaveDrivers'
    BY <1>1, <1>3, <1>4 DEF OffersHaveDrivers
  <2>2. MarketIsOpen'
    BY <1>3, <1>4 DEF MarketIsOpen, OpenStatus, MatchedStatus
  <2>3. AcceptedOfferIsThePick'
    BY <1>3, <1>4 DEF AcceptedOfferIsThePick
  <2>4. MatchedRideHasNoPendingOffer'
    BY <1>4, <1>5 DEF MatchedRideHasNoPendingOffer, MatchedStatus
  <2>5. OnePendingOfferPerDriver'
    <3>1. PendingOffers' \subseteq PendingOffers /\ PendingOffers \subseteq Offers
      BY <1>5 DEF PendingOffers
    <3> QED BY <1>3, <3>1 DEF OnePendingOfferPerDriver
  <2>6. SystemCancelsOnlyUnmatched'
    BY <1>4 DEF SystemCancelsOnlyUnmatched
  <2> QED BY <2>1, <2>2, <2>3, <2>4, <2>5, <2>6
<1>7. WorkingOffers'
  BY <1>1, <1>2, <1>3 DEF WorkingOffers, o
<1>8. LocksExclude'
  BY <1>2 DEF LocksExclude, HoldsRide, HoldsOffer
<1>9. LocksProtect'
  <2>1. \A q \in Handlers : q # p /\ HoldsOffer(q) => proc[q].offer # o
    BY DEF LocksExclude, OfferFree, o
  <2>2. \A q \in Handlers : HoldsOffer(q)' => offers'[proc'[q].offer].status = "pending"
    <3>1. \A q \in Handlers : HoldsOffer(q) => proc[q].offer \in Offers
      BY DEF WorkingOffers, HoldsOffer, OfferSteps, OfferExpirationSteps
    <3> QED BY <1>2, <1>3, <2>1, <3>1 DEF LocksProtect, HoldsOffer
  <2>3. \A q \in Handlers : proc'[q].at = "pick_write" => ride'.status = "offered"
    BY <1>2, <1>4 DEF LocksProtect, RideFree, HoldsRide
  <2>4. \A q \in Handlers : proc'[q].at = "rexp_write" => ride'.status \in OpenStatus
    BY <1>2, <1>4 DEF LocksProtect, OpenStatus
  <2> QED BY <2>2, <2>3, <2>4 DEF LocksProtect
<1>10. LateHandlers'
  <2>1. ride'.status # ride.status => ride.status = "offered" /\ ride'.status = "pending"
    BY <1>4
  <2>2. \A q \in Handlers :
          /\ proc'[q].at \in {"rexp_done", "pick_done", "cancel_done"} =>
               ride'.status \notin OpenStatus \cup {"none"}
          /\ proc'[q].at = "rexp_lock" => ride'.status # "none"
    BY <1>2, <2>1 DEF LateHandlers, OpenStatus
  <2> QED BY <2>2 DEF LateHandlers
<1>11. AnnouncedIsOver'
  BY <1>4 DEF AnnouncedIsOver, OpenStatus
<1> QED BY <1>6, <1>7, <1>8, <1>9, <1>10, <1>11

LEMMA ClosingSteps ==
    ASSUME IInv, TypeOK', NEW p \in Handlers,
           \/ RefuseWrite(p) \/ DeclineCommit(p) \/ ExpireCommit(p)
           \/ DeclineRevert(p) \/ ExpireRevert(p)
    PROVE  IInv'
<1>1. /\ proc[p] \in Handler
      /\ OfferExpirationSteps \cup RequestSteps \subseteq Steps
      /\ OfferExpirationSteps \subseteq OfferSteps
  BY DEF IInv, TypeOK, Steps, OfferSteps
<1>2. \A step \in Steps : [proc[p] EXCEPT !.at = step] \in Handler
  BY <1>1 DEF Handler
<1>3. CASE RefuseWrite(p)
  <2> DEFINE h == [proc[p] EXCEPT !.at = "refuse_done"]
  <2>1. h \in Handler /\ h.offer = proc[p].offer /\ h.at = "refuse_done"
    BY <1>1, <1>2 DEF RequestSteps, Handler
  <2>2. proc' = [proc EXCEPT ![p] = h] /\ ~HoldsRide(p) /\ proc[p].at \in OfferSteps
    BY <1>3 DEF RefuseWrite, Advance, HoldsRide, OfferSteps
  <2> HIDE DEF h
  <2> QED BY <1>3, <2>1, <2>2, OfferCloses DEF RefuseWrite, RideStaysOrReverts
<1>4. CASE DeclineCommit(p)
  <2> DEFINE h == [proc[p] EXCEPT !.at = "decline_done"]
  <2>1. h \in Handler /\ h.offer = proc[p].offer /\ h.at = "decline_done"
    BY <1>1, <1>2 DEF RequestSteps, Handler
  <2>2. /\ proc' = [proc EXCEPT ![p] = h]
        /\ ~HoldsRide(p) /\ HoldsOffer(p) /\ proc[p].at \in OfferSteps
    BY <1>4 DEF DeclineCommit, Advance, HoldsRide, HoldsOffer, OfferSteps
  <2> HIDE DEF h
  <2> QED BY <1>4, <2>1, <2>2, OfferCloses DEF DeclineCommit, RideStaysOrReverts
<1>5. CASE ExpireCommit(p)
  <2> DEFINE h == [proc[p] EXCEPT !.at = "expire_done"]
  <2>1. h \in Handler /\ h.offer = proc[p].offer /\ h.at = "expire_done"
    BY <1>1, <1>2 DEF OfferExpirationSteps, Handler
  <2>2. /\ proc' = [proc EXCEPT ![p] = h]
        /\ ~HoldsRide(p) /\ HoldsOffer(p) /\ proc[p].at \in OfferSteps
    BY <1>5 DEF ExpireCommit, Advance, HoldsRide, HoldsOffer, OfferSteps, OfferExpirationSteps
  <2> HIDE DEF h
  <2> QED BY <1>5, <2>1, <2>2, OfferCloses DEF ExpireCommit, RideStaysOrReverts
<1>6. CASE DeclineRevert(p)
  <2>1. CASE CanTransition(ride.status, "pending")
    <3> DEFINE h == [proc[p] EXCEPT !.at = "decline_done"]
    <3>1. h \in Handler /\ h.offer = proc[p].offer /\ h.at = "decline_done"
      BY <1>1, <1>2 DEF RequestSteps, Handler
    <3>2. /\ proc' = [proc EXCEPT ![p] = h]
          /\ ~HoldsRide(p) /\ HoldsOffer(p) /\ proc[p].at \in OfferSteps
      BY <1>6, <2>1 DEF DeclineRevert, Advance, HoldsRide, HoldsOffer, OfferSteps
    <3>3. ride.status = "offered"
      <4>1. offers[proc[p].offer].status = "pending" /\ proc[p].offer \in Offers
        BY <3>2 DEF IInv, HandlerInv, LocksProtect, WorkingOffers
      <4>2. ride.status # "none"
        BY <4>1 DEF IInv, RowInv, OffersHaveDrivers
      <4> QED BY <2>1, <4>2 DEF CanTransition, ValidTransitions, RideStatus, IInv, TypeOK, RideRow
    <3> HIDE DEF h
    <3> QED BY <1>6, <2>1, <3>1, <3>2, <3>3, OfferCloses DEF DeclineRevert, RideStaysOrReverts
  <2>2. CASE ~CanTransition(ride.status, "pending")
    <3>1. Idle \in Handler /\ MayStandAt(Idle)
      BY DEF Idle, Handler, Steps, MayStandAt, OfferSteps, OfferExpirationSteps
    <3> QED BY <1>6, <2>2, <3>1, SlotStep DEF DeclineRevert, Finish
  <2> QED BY <2>1, <2>2
<1>7. CASE ExpireRevert(p)
  <2> DEFINE h == [proc[p] EXCEPT !.at = "expire_done", !.flag = ride.status = "offered"]
  <2>1. h \in Handler
    <3>1. (ride.status = "offered") \in BOOLEAN
      OBVIOUS
    <3> QED BY <1>1, <3>1 DEF OfferExpirationSteps, Handler
  <2>2. h.offer = proc[p].offer /\ h.at = "expire_done"
    BY <1>1 DEF Handler
  <2>3. /\ proc' = [proc EXCEPT ![p] = h]
        /\ ~HoldsRide(p) /\ HoldsOffer(p) /\ proc[p].at \in OfferSteps
    BY <1>7 DEF ExpireRevert, HoldsRide, HoldsOffer, OfferSteps, OfferExpirationSteps
  <2>4. RideStaysOrReverts
    BY <1>7 DEF ExpireRevert, RideStaysOrReverts, SetRide
  <2> HIDE DEF h
  <2> QED BY <1>7, <2>1, <2>2, <2>3, <2>4, OfferCloses DEF ExpireRevert
<1> QED BY <1>3, <1>4, <1>5, <1>6, <1>7

-----------------------------------------------------------------------------
(* Steps that write the ride *)

\* A ride that is free moves on, and perhaps the handler that moves it; the offers
\* stay.  The ride keeps its driver, so only its status is at stake.
LEMMA RideMoves ==
    ASSUME IInv, TypeOK', RideFree,
           UNCHANGED <<offers, picked, announced>>,
           ride'.driver = ride.driver,
           \/ ride.status = "none" /\ ride'.status = "pending"
           \/ ride.status \in MatchedStatus /\ ride'.status \in MatchedStatus
           \/ ride.status # "none" /\ ride'.status = "cancelled",
           ride'.cancelledBy # ride.cancelledBy =>
               ride'.status = "cancelled" /\ ride'.cancelledBy # "system",
           \A q \in Handlers :
              \/ proc'[q] = proc[q]
              \/ proc'[q].at = "request_enqueue"
              \/ proc'[q].at = "cancel_done" /\ ride'.status = "cancelled"
    PROVE  IInv'
<1> USE DEF IInv, HandlerInv, RowInv
<1>1. PendingOffers' = PendingOffers
  BY DEF PendingOffers
<1>2. RowInv'
  <2>1. OffersHaveDrivers'
    BY DEF OffersHaveDrivers, MatchedStatus
  <2>2. MarketIsOpen'
    BY DEF MarketIsOpen, OpenStatus, MatchedStatus
  <2>3. AcceptedOfferIsThePick'
    BY DEF AcceptedOfferIsThePick
  <2>4. MatchedRideHasNoPendingOffer'
    BY <1>1 DEF MatchedRideHasNoPendingOffer, MatchedStatus
  <2>5. OnePendingOfferPerDriver'
    BY <1>1 DEF OnePendingOfferPerDriver
  <2>6. SystemCancelsOnlyUnmatched'
    BY DEF SystemCancelsOnlyUnmatched
  <2> QED BY <2>1, <2>2, <2>3, <2>4, <2>5, <2>6
<1>3. WorkingOffers'
  BY DEF WorkingOffers, OfferSteps, OfferExpirationSteps
<1>4. LocksExclude'
  BY DEF LocksExclude, HoldsRide, HoldsOffer
<1>5. LocksProtect'
  BY DEF LocksProtect, HoldsRide, HoldsOffer, RideFree
<1>6. LateHandlers'
  BY DEF LateHandlers, OpenStatus, MatchedStatus
<1>7. AnnouncedIsOver'
  BY DEF AnnouncedIsOver, OpenStatus, MatchedStatus
<1> QED BY <1>2, <1>3, <1>4, <1>5, <1>6, <1>7

LEMMA RideSteps ==
    ASSUME IInv, TypeOK',
           \/ \E p \in Handlers : RequestRide(p) \/ \E who \in {"rider", "driver"} : CancelRide(p, who)
           \/ StartRide \/ CompleteRide
    PROVE  IInv'
<1>1. ride \in RideRow /\ proc \in [Handlers -> Handler] /\ ride.status \in RideStatus
  BY DEF IInv, TypeOK, RideRow
<1>2. \A s : CanTransition(ride.status, s) =>
        /\ s = "in_progress" => ride.status = "accepted"
        /\ s = "completed" => ride.status = "in_progress"
        /\ s = "cancelled" => ride.status # "none"
  BY <1>1 DEF CanTransition, ValidTransitions, RideStatus
<1>3. ASSUME NEW p \in Handlers, RequestRide(p) PROVE IInv'
  <2>1. ride'.status = "pending" /\ ride'.driver = ride.driver /\ ride'.cancelledBy = ride.cancelledBy
    BY <1>1, <1>3 DEF RequestRide, SetRide, RideRow
  <2>2. \A q \in Handlers : proc'[q] = proc[q] \/ proc'[q].at = "request_enqueue"
    BY <1>1, <1>3 DEF RequestRide, Begin
  <2>3. RideFree
    BY <1>3 DEF RequestRide, RideFree, HoldsRide, IInv, HandlerInv, LocksProtect, OpenStatus
  <2> QED BY <1>3, <2>1, <2>2, <2>3, RideMoves DEF RequestRide
<1>4. CASE StartRide
  <2>1. /\ ride'.status = "in_progress" /\ ride.status = "accepted"
        /\ ride'.driver = ride.driver /\ ride'.cancelledBy = ride.cancelledBy
    BY <1>1, <1>2, <1>4 DEF StartRide, SetRide, RideRow
  <2> QED BY <1>4, <2>1, RideMoves DEF StartRide, MatchedStatus
<1>5. CASE CompleteRide
  <2>1. /\ ride'.status = "completed" /\ ride.status = "in_progress"
        /\ ride'.driver = ride.driver /\ ride'.cancelledBy = ride.cancelledBy
    BY <1>1, <1>2, <1>5 DEF CompleteRide, RideRow
  <2> QED BY <1>5, <2>1, RideMoves DEF CompleteRide, MatchedStatus
<1>6. ASSUME NEW p \in Handlers, NEW who \in {"rider", "driver"}, CancelRide(p, who) PROVE IInv'
  <2>1. /\ ride'.status = "cancelled" /\ ride.status # "none"
        /\ ride'.driver = ride.driver /\ ride'.cancelledBy = who
    BY <1>1, <1>2, <1>6 DEF CancelRide, RideRow
  <2>2. \A q \in Handlers : proc'[q] = proc[q] \/ proc'[q].at = "cancel_done"
    BY <1>1, <1>6 DEF CancelRide, Begin
  <2> QED BY <1>6, <2>1, <2>2, RideMoves DEF CancelRide
<1> QED BY <1>3, <1>4, <1>5, <1>6

\* A driver's offer: nobody works on its row yet, and the driver has no other.
LEMMA AcceptStep ==
    ASSUME IInv, TypeOK', NEW p \in Handlers, NEW d \in Drivers, AcceptRide(p, d)
    PROVE  IInv'
<1> USE DEF IInv, HandlerInv, RowInv
<1>1. PICK o \in Offers : /\ offers[o].status = "none"
                          /\ offers' = [offers EXCEPT ![o] = [status |-> "pending", driver |-> d]]
                          /\ Begin(p, "accept_enqueue", o, FALSE)
  BY DEF AcceptRide
<1>2. \A x \in Offers : /\ x # o => offers'[x] = offers[x]
                        /\ x = o => offers'[x].status = "pending" /\ offers'[x].driver = d
  BY <1>1 DEF TypeOK
<1>3. \A q \in Handlers : /\ q # p => proc'[q] = proc[q]
                          /\ q = p => proc'[q].at = "accept_enqueue" /\ proc'[q].offer = o
  BY <1>1 DEF Begin, TypeOK
<1>4. /\ ride.status \in OpenStatus /\ ride'.status = "offered"
      /\ ride'.driver = ride.driver /\ ride'.cancelledBy = ride.cancelledBy
      /\ RideFree /\ UNCHANGED <<picked, announced>>
      /\ \A x \in PendingOffers : offers[x].driver # d
  BY DEF AcceptRide, MayOffer, OpenStatus, SetRide, TypeOK, RideRow
<1>5. PendingOffers' = PendingOffers \cup {o}
  BY <1>2 DEF PendingOffers
<1>6. RowInv'
  <2>1. OffersHaveDrivers'
    BY <1>2, <1>4 DEF OffersHaveDrivers
  <2>2. MarketIsOpen'
    BY <1>2, <1>4 DEF MarketIsOpen, OpenStatus, MatchedStatus
  <2>3. AcceptedOfferIsThePick'
    BY <1>2, <1>4 DEF AcceptedOfferIsThePick
  <2>4. MatchedRideHasNoPendingOffer'
    BY <1>4 DEF MatchedRideHasNoPendingOffer, MatchedStatus
  <2>5. OnePendingOfferPerDriver'
    <3>1. PendingOffers \subseteq Offers /\ o \notin PendingOffers
      BY <1>1 DEF PendingOffers
    <3> QED BY <1>2, <1>4, <1>5, <3>1 DEF OnePendingOfferPerDriver
  <2>6. SystemCancelsOnlyUnmatched'
    BY <1>4 DEF SystemCancelsOnlyUnmatched
  <2> QED BY <2>1, <2>2, <2>3, <2>4, <2>5, <2>6
<1>7. WorkingOffers'
  BY <1>2, <1>3 DEF WorkingOffers
<1>8. LocksExclude'
  BY <1>3 DEF LocksExclude, HoldsRide, HoldsOffer
<1>9. LocksProtect'
  <2>1. \A q \in Handlers : HoldsOffer(q) => proc[q].offer \in Offers
    BY DEF WorkingOffers, HoldsOffer, OfferSteps, OfferExpirationSteps
  <2>2. \A q \in Handlers : HoldsOffer(q)' => offers'[proc'[q].offer].status = "pending"
    BY <1>2, <1>3, <2>1 DEF LocksProtect, HoldsOffer
  <2>3. \A q \in Handlers : proc'[q].at \notin {"pick_write", "rexp_write"}
    BY <1>3, <1>4 DEF RideFree, HoldsRide
  <2> QED BY <2>2, <2>3 DEF LocksProtect
<1>10. LateHandlers'
  BY <1>3, <1>4 DEF LateHandlers
<1>11. AnnouncedIsOver'
  BY <1>4 DEF AnnouncedIsOver
<1> QED BY <1>6, <1>7, <1>8, <1>9, <1>10, <1>11

\* Both transactions that hold the ride write it and every pending offer at once,
\* when the offers' rows are free, and so when no handler holds any offer.
LEMMA NobodyHoldsOffers ==
    ASSUME IInv, NEW p \in Handlers, \A o \in RowsWanted(p) : OfferFree(o)
    PROVE  \A q \in Handlers : ~HoldsOffer(q)
<1>1. \A q \in Handlers : HoldsOffer(q) =>
        proc[q].offer \in Offers /\ offers[proc[q].offer].status = "pending"
  BY DEF IInv, HandlerInv, WorkingOffers, LocksProtect, HoldsOffer, OfferSteps, OfferExpirationSteps
<1> QED BY <1>1 DEF RowsWanted, OfferFree, PendingOffers

\* The pick.
LEMMA PickStep ==
    ASSUME IInv, TypeOK', NEW p \in Handlers, PickWrite(p)
    PROVE  IInv'
<1> USE DEF IInv, HandlerInv, RowInv
<1> DEFINE chosen == proc[p].offer
<1>1. ride.status = "offered" /\ HoldsRide(p)
  BY DEF PickWrite, LocksProtect, HoldsRide
<1>2. chosen \in Offers /\ offers[chosen].status # "none" /\ offers[chosen].driver \in Drivers
  BY DEF PickWrite, WorkingOffers, OfferSteps, OffersHaveDrivers
<1>3. \A x \in Offers : /\ offers'[x].driver = offers[x].driver
                        /\ offers'[x].status = IF x = chosen THEN "accepted"
                                               ELSE IF x \in PendingOffers THEN "rejected"
                                               ELSE offers[x].status
  BY DEF PickWrite, TypeOK, OfferRow
<1>4. /\ ride'.status = "accepted" /\ ride'.driver = offers[chosen].driver
      /\ ride'.cancelledBy = ride.cancelledBy /\ picked' = chosen /\ announced' = announced
  BY DEF PickWrite, TypeOK, RideRow
<1>5. \A q \in Handlers : /\ q # p => proc'[q] = proc[q]
                          /\ q = p => proc'[q].at = "pick_done" /\ proc'[q].offer = chosen
  BY DEF PickWrite, TypeOK, Handler
<1>6. \A q \in Handlers : ~HoldsOffer(q)
  BY NobodyHoldsOffers DEF PickWrite
<1>7. PendingOffers' = {}
  BY <1>3 DEF PendingOffers
<1> HIDE DEF chosen
<1>8. RowInv'
  <2>1. OffersHaveDrivers'
    BY <1>2, <1>3, <1>4 DEF OffersHaveDrivers, PendingOffers
  <2>2. MarketIsOpen'
    BY <1>1, <1>2, <1>4, NullsAssumption DEF MarketIsOpen, OpenStatus, MatchedStatus
  <2>3. AcceptedOfferIsThePick'
    BY <1>1, <1>3, <1>4 DEF AcceptedOfferIsThePick, MarketIsOpen, OpenStatus
  <2>4. MatchedRideHasNoPendingOffer' /\ OnePendingOfferPerDriver'
    BY <1>7 DEF MatchedRideHasNoPendingOffer, OnePendingOfferPerDriver
  <2>5. SystemCancelsOnlyUnmatched'
    BY <1>1, <1>4 DEF SystemCancelsOnlyUnmatched, MarketIsOpen
  <2> QED BY <2>1, <2>2, <2>3, <2>4, <2>5
<1>9. WorkingOffers'
  BY <1>2, <1>3, <1>5 DEF WorkingOffers
<1>10. LocksExclude'
  BY <1>5, <1>6 DEF LocksExclude, HoldsRide, HoldsOffer
<1>11. LocksProtect'
  BY <1>1, <1>5, <1>6 DEF LocksProtect, LocksExclude, HoldsRide, HoldsOffer
<1>12. LateHandlers' /\ AnnouncedIsOver'
  BY <1>4 DEF LateHandlers, AnnouncedIsOver, OpenStatus
<1> QED BY <1>8, <1>9, <1>10, <1>11, <1>12

\* The cancellation of an expired ride, which still has no driver.
LEMMA RideExpireStep ==
    ASSUME IInv, TypeOK', NEW p \in Handlers, RideExpireWrite(p)
    PROVE  IInv'
<1> USE DEF IInv, HandlerInv, RowInv
<1>1. ride.status \in OpenStatus /\ HoldsRide(p)
  BY DEF RideExpireWrite, LocksProtect, HoldsRide
<1>2. \A x \in Offers : /\ offers'[x].driver = offers[x].driver
                        /\ offers'[x].status = IF x \in PendingOffers THEN "expired"
                                               ELSE offers[x].status
  BY DEF RideExpireWrite, TypeOK, OfferRow
<1>3. /\ ride'.status = "cancelled" /\ ride'.driver = ride.driver
      /\ UNCHANGED <<picked, announced>>
  BY DEF RideExpireWrite, TypeOK, RideRow
<1>4. \A q \in Handlers : /\ q # p => proc'[q] = proc[q]
                          /\ q = p => proc'[q].at = "rexp_done"
  BY DEF RideExpireWrite, Advance, TypeOK, Handler
<1>5. \A q \in Handlers : ~HoldsOffer(q)
  BY NobodyHoldsOffers DEF RideExpireWrite
<1>6. PendingOffers' = {}
  BY <1>2 DEF PendingOffers
<1>7. RowInv'
  <2>1. OffersHaveDrivers'
    BY <1>2, <1>3 DEF OffersHaveDrivers, PendingOffers
  <2>2. MarketIsOpen'
    BY <1>3 DEF MarketIsOpen, OpenStatus, MatchedStatus
  <2>3. AcceptedOfferIsThePick'
    BY <1>2, <1>3 DEF AcceptedOfferIsThePick
  <2>4. MatchedRideHasNoPendingOffer' /\ OnePendingOfferPerDriver'
    BY <1>6 DEF MatchedRideHasNoPendingOffer, OnePendingOfferPerDriver
  <2>5. SystemCancelsOnlyUnmatched'
    BY <1>1, <1>3 DEF SystemCancelsOnlyUnmatched, MarketIsOpen
  <2> QED BY <2>1, <2>2, <2>3, <2>4, <2>5
<1>8. WorkingOffers'
  BY <1>2, <1>4 DEF WorkingOffers, OfferSteps, OfferExpirationSteps
<1>9. LocksExclude'
  BY <1>4, <1>5 DEF LocksExclude, HoldsRide, HoldsOffer
<1>10. LocksProtect'
  BY <1>1, <1>4, <1>5 DEF LocksProtect, LocksExclude, HoldsRide, HoldsOffer
<1>11. LateHandlers' /\ AnnouncedIsOver'
  BY <1>3 DEF LateHandlers, AnnouncedIsOver, OpenStatus
<1> QED BY <1>7, <1>8, <1>9, <1>10, <1>11

-----------------------------------------------------------------------------
(* The theorems *)

LEMMA InitIInv == Init => IInv
<1> SUFFICES ASSUME Init PROVE IInv
  OBVIOUS
<1>1. TypeOK
  BY InitTypes
<1>2. PendingOffers = {}
  BY DEF Init, PendingOffers
<1>3. RowInv
  BY <1>2 DEF Init, RowInv, OffersHaveDrivers, MarketIsOpen, AcceptedOfferIsThePick,
      MatchedRideHasNoPendingOffer, OnePendingOfferPerDriver, SystemCancelsOnlyUnmatched,
      OpenStatus, MatchedStatus
<1>4. HandlerInv
  BY DEF Init, HandlerInv, WorkingOffers, LocksExclude, LocksProtect, LateHandlers,
         AnnouncedIsOver, HoldsRide, HoldsOffer, Idle, OfferSteps, OfferExpirationSteps
<1> QED BY <1>1, <1>3, <1>4 DEF IInv

\* Every step of Next, with its parameters named.
LEMMA NextSteps ==
    ASSUME Next
    PROVE  \/ \E p \in Handlers, d \in Drivers : AcceptRide(p, d)
           \/ \E p \in Handlers, o \in Offers :
                 PickLock(p, o) \/ RefuseRead(p, o) \/ DeclineRead(p, o) \/ OfferJobStart(p, o)
           \/ \E p \in Handlers, who \in {"rider", "driver"} : CancelRide(p, who)
           \/ \E p \in Handlers :
                 RequestRide(p) \/ RideJobStart(p) \/ Continue(p) \/ Crash(p)
           \/ StartRide \/ CompleteRide
           \/ UNCHANGED vars
<1>1. Requests \subseteq Handlers /\ Workers \subseteq Handlers
  BY DEF Handlers
<1>2. CASE \E p \in Requests : Arrive(p)
  BY <1>1, <1>2 DEF Arrive
<1>3. CASE (\E o \in Offers : TakeOfferJob(o)) \/ TakeRideJob
  BY <1>1, <1>3 DEF TakeOfferJob, TakeRideJob
<1>4. CASE \E p \in Handlers : Continue(p) \/ Crash(p)
  BY <1>4
<1>5. CASE DriverActs \/ Over
  BY <1>5 DEF DriverActs, Over
<1> QED BY <1>2, <1>3, <1>4, <1>5 DEF Next

LEMMA TypeStep == IInv /\ [Next]_vars => TypeOK'
<1> SUFFICES ASSUME IInv, [Next]_vars PROVE TypeOK'
  OBVIOUS
<1>1. TypeOK /\ WorkingOffers
  BY DEF IInv, HandlerInv
<1>2. CASE UNCHANGED vars
  BY <1>1, <1>2 DEF TypeOK, vars
<1>3. ASSUME NEW p \in Handlers, Continue(p) \/ Crash(p) PROVE TypeOK'
  BY <1>1, <1>3, QueueTypes, RequestTypes, WorkerTypes DEF Continue
<1> QED BY <1>1, <1>2, <1>3, NextSteps, RequestTypes, WorkerTypes

LEMMA InvariantStep == IInv /\ [Next]_vars => IInv'
<1> SUFFICES ASSUME IInv, [Next]_vars PROVE IInv'
  OBVIOUS
<1>1. TypeOK'
  BY TypeStep
<1>2. CASE UNCHANGED vars
  BY <1>1, <1>2, QueueStep DEF vars
<1>3. ASSUME NEW p \in Handlers, Continue(p) \/ Crash(p) PROVE IInv'
  BY <1>1, <1>3, EndSteps, ReadSteps, ClosingSteps, PickStep, RideExpireStep DEF Continue
<1> QED BY <1>1, <1>2, <1>3, NextSteps, ReadSteps, RideSteps, AcceptStep

\* IInv holds in every reachable state.
THEOREM Invariance == Spec => []IInv
BY InitIInv, InvariantStep, PTL DEF Spec

\* Type correctness, for every number of drivers, offers, requests and workers.
THEOREM TypeCorrectness == Spec => []TypeOK
<1>1. IInv => TypeOK
  BY DEF IInv
<1> QED BY <1>1, Invariance, PTL

\* Only the offer the rider picked is ever accepted, and its driver drives.
THEOREM OnlyThePickIsAccepted == Spec => []AcceptedOfferIsThePick
<1>1. IInv => AcceptedOfferIsThePick
  BY DEF IInv, RowInv
<1> QED BY <1>1, Invariance, PTL

\* A matched ride has no pending offer.
THEOREM MatchedRideIsSettled == Spec => []MatchedRideHasNoPendingOffer
<1>1. IInv => MatchedRideHasNoPendingOffer
  BY DEF IInv, RowInv
<1> QED BY <1>1, Invariance, PTL

\* A driver has at most one pending offer on the ride.
THEOREM OneOfferPerDriver == Spec => []OnePendingOfferPerDriver
<1>1. IInv => OnePendingOfferPerDriver
  BY DEF IInv, RowInv
<1> QED BY <1>1, Invariance, PTL

\* The expiration worker cancels only rides nobody was picked for, however its first
\* read and the pick interleave (processRideExpiration).
THEOREM ExpirationIsSafe == Spec => []SystemCancelsOnlyUnmatched
<1>1. IInv => SystemCancelsOnlyUnmatched
  BY DEF IInv, RowInv
<1> QED BY <1>1, Invariance, PTL

\* ride:cancelled is emitted only for a ride that has left the market for good, though
\* the worker emits it whether or not its transaction cancelled anything.
THEOREM AnnouncedIsFinal == Spec => []AnnouncedIsOver
<1>1. IInv => AnnouncedIsOver
  BY DEF IInv, HandlerInv
<1> QED BY <1>1, Invariance, PTL

-----------------------------------------------------------------------------
(* The expiration jobs *)

EndedStatus == {"accepted", "rejected", "expired"}

\* The offers whose jobs handler q removes next have ended, and will not be back.
RemovesEnded(q) ==
    /\ proc[q].at \in {"refuse_done", "decline_done", "expire_done", "pick_done"} =>
         offers[proc[q].offer].status \in EndedStatus
    /\ proc[q].at = "pick_done" =>
         \A o \in proc[q].others : offers[o].status \in EndedStatus

\* A job is there, in whatever state, or about to be enqueued.
RideHasJob ==
    crashes = 0 /\ ride.status \in OpenStatus =>
        rideJob.state # "absent" \/ \E p \in Requests : proc[p].at = "request_enqueue"

OffersHaveJobs ==
    crashes = 0 => \A o \in PendingOffers :
        \/ offerJob[o].state # "absent"
        \/ \E p \in Requests : proc[p].at = "accept_enqueue" /\ proc[p].offer = o

\* What open rides and pending offers rely on, and why no job they need is removed.
JobInv ==
    /\ \A q \in Handlers : RemovesEnded(q)
    /\ RideHasJob
    /\ OffersHaveJobs

\* What a step may do to the rows: an offer that has ended stays so, none becomes
\* pending and no ride opens.
RowsOnlyClose ==
    /\ \A o \in Offers :
         /\ offers[o].status \in EndedStatus => offers'[o].status \in EndedStatus
         /\ offers'[o].status = "pending" => offers[o].status = "pending"
    /\ ride'.status \in OpenStatus => ride.status \in OpenStatus

\* What it may do to the queues: no job of an open ride or a pending offer goes away.
JobsAreKept ==
    /\ ride'.status \in OpenStatus /\ rideJob.state # "absent" => rideJob'.state # "absent"
    /\ \A o \in Offers : offers'[o].status = "pending" /\ offerJob[o].state # "absent" =>
         offerJob'[o].state # "absent"

\* Such a step keeps the invariant, if no handler it moves was about to enqueue.
LEMMA JobsKept ==
    ASSUME JobInv, RowsOnlyClose, JobsAreKept, crashes' = crashes,
           \A q \in Handlers :
              \/ proc'[q] = proc[q]
              \/ proc[q].at \notin {"request_enqueue", "accept_enqueue"} /\ RemovesEnded(q)',
           WorkingOffers, \A q \in Handlers : proc[q].others \subseteq Offers
    PROVE  JobInv'
<1>1. \A q \in Handlers : RemovesEnded(q)'
  BY DEF JobInv, RemovesEnded, RowsOnlyClose, WorkingOffers, OfferSteps, OfferExpirationSteps
<1>2. \A q \in Handlers : proc[q].at \in {"request_enqueue", "accept_enqueue"} => proc'[q] = proc[q]
  OBVIOUS
<1>3. Requests \subseteq Handlers
  BY DEF Handlers
<1>4. RideHasJob'
  BY <1>2, <1>3 DEF JobInv, RideHasJob, RowsOnlyClose, JobsAreKept
<1>5. OffersHaveJobs'
  BY <1>2, <1>3 DEF JobInv, OffersHaveJobs, PendingOffers, RowsOnlyClose, JobsAreKept
<1> QED BY <1>1, <1>4, <1>5 DEF JobInv

\* What each handler step leaves in its slot, and that the others stay.
LEMMA SlotChanges ==
    ASSUME TypeOK, NEW p \in Handlers
    PROVE  /\ \A step, o : \A b \in BOOLEAN : Begin(p, step, o, b) =>
                /\ proc'[p].at = step /\ proc'[p].offer = o
                /\ \A q \in Handlers \ {p} : proc'[q] = proc[q]
           /\ \A step : Advance(p, step) =>
                /\ proc'[p].at = step /\ proc'[p].offer = proc[p].offer
                /\ \A q \in Handlers \ {p} : proc'[q] = proc[q]
           /\ Finish(p) =>
                /\ proc'[p].at = "idle"
                /\ \A q \in Handlers \ {p} : proc'[q] = proc[q]
<1>1. proc \in [Handlers -> Handler]
  BY DEF TypeOK
<1>2. ASSUME NEW step, NEW o, NEW b \in BOOLEAN, Begin(p, step, o, b)
      PROVE  /\ proc'[p].at = step /\ proc'[p].offer = o
             /\ \A q \in Handlers \ {p} : proc'[q] = proc[q]
  BY <1>1, <1>2 DEF Begin
<1>3. ASSUME NEW step, Advance(p, step)
      PROVE  /\ proc'[p].at = step /\ proc'[p].offer = proc[p].offer
             /\ \A q \in Handlers \ {p} : proc'[q] = proc[q]
  BY <1>1, <1>3 DEF Advance, Handler
<1>4. ASSUME Finish(p)
      PROVE  /\ proc'[p].at = "idle"
             /\ \A q \in Handlers \ {p} : proc'[q] = proc[q]
  BY <1>1, <1>4 DEF Finish, Idle
<1> QED BY <1>2, <1>3, <1>4

\* Steps that read or take a lock.
LEMMA ReadsKeepJobs ==
    ASSUME IInv, JobInv, NEW p \in Handlers,
           \/ \E o \in Offers : PickLock(p, o) \/ RefuseRead(p, o) \/ DeclineRead(p, o)
           \/ DeclineLock(p) \/ RideExpireLock(p)
    PROVE  JobInv'
<1>1. TypeOK /\ WorkingOffers
  BY DEF IInv, HandlerInv
<1>2. /\ proc'[p].at \notin {"refuse_done", "decline_done", "expire_done", "pick_done"}
      /\ proc[p].at \notin {"request_enqueue", "accept_enqueue"}
      /\ \A q \in Handlers \ {p} : proc'[q] = proc[q]
      /\ UNCHANGED <<ride, offers, rideJob, offerJob, crashes>>
  <2>1. CASE \E o \in Offers : DeclineRead(p, o)
    BY <1>1, <2>1 DEF DeclineRead, Begin, TypeOK
  <2>2. CASE \E o \in Offers : PickLock(p, o) \/ RefuseRead(p, o)
    BY <1>1, <2>2, SlotChanges DEF PickLock, RefuseRead
  <2>3. CASE DeclineLock(p)
    <3>1. \/ \E step \in {"decline_commit", "decline_revert"} : Advance(p, step)
          \/ Finish(p)
      BY <2>3 DEF DeclineLock
    <3> QED BY <1>1, <2>3, <3>1, SlotChanges DEF DeclineLock
  <2>4. CASE RideExpireLock(p)
    BY <1>1, <2>4, SlotChanges DEF RideExpireLock
  <2> QED BY <2>1, <2>2, <2>3, <2>4
<1>3. \A q \in Handlers : proc[q].others \subseteq Offers
  BY <1>1 DEF TypeOK, Handler
<1>4. RowsOnlyClose /\ JobsAreKept
  BY <1>2 DEF RowsOnlyClose, JobsAreKept
<1>5. RemovesEnded(p)'
  BY <1>2 DEF RemovesEnded
<1> QED BY <1>1, <1>2, <1>3, <1>4, <1>5, JobsKept

\* Steps that close the handler's own offer, or find it closed.  RefuseWrite writes by
\* id, over whatever the offer has become.
LEMMA ClosingKeepsJobs ==
    ASSUME IInv, JobInv, NEW p \in Handlers,
           \/ RefuseWrite(p) \/ DeclineCommit(p) \/ DeclineRevert(p)
           \/ ExpireLock(p) \/ ExpireCommit(p) \/ ExpireRevert(p)
    PROVE  JobInv'
<1> DEFINE o == proc[p].offer
<1>1. TypeOK /\ WorkingOffers /\ o \in Offers /\ offers[o].status # "none"
  BY DEF IInv, HandlerInv, WorkingOffers, OfferSteps, OfferExpirationSteps, RefuseWrite,
         DeclineCommit, DeclineRevert, ExpireLock, ExpireCommit, ExpireRevert
<1>2. \A q \in Handlers : proc[q].others \subseteq Offers
  BY <1>1 DEF TypeOK, Handler
<1>3. /\ proc[p].at \notin {"request_enqueue", "accept_enqueue"}
      /\ UNCHANGED <<rideJob, offerJob, crashes>>
      /\ \A q \in Handlers \ {p} : proc'[q] = proc[q]
      /\ proc'[p].at # "pick_done"
  <2>1. CASE ExpireRevert(p)
    BY <1>1, <2>1 DEF ExpireRevert, TypeOK, Handler
  <2>2. CASE RefuseWrite(p) \/ DeclineCommit(p) \/ ExpireLock(p) \/ ExpireCommit(p)
    BY <1>1, <2>2, SlotChanges DEF RefuseWrite, DeclineCommit, ExpireLock, ExpireCommit
  <2>3. CASE DeclineRevert(p)
    BY <1>1, <2>3, SlotChanges DEF DeclineRevert
  <2> QED BY <2>1, <2>2, <2>3
<1>4. /\ \/ UNCHANGED offers
         \/ \E status \in EndedStatus : SetOffer(o, status)
      /\ ride'.status \in OpenStatus => ride.status \in OpenStatus
  <2>1. CASE RefuseWrite(p) \/ DeclineCommit(p) \/ ExpireLock(p) \/ ExpireCommit(p)
    BY <2>1 DEF RefuseWrite, DeclineCommit, ExpireLock, ExpireCommit, EndedStatus
  <2>2. CASE DeclineRevert(p)
    <3>1. CanTransition(ride.status, "pending") => ride.status \in OpenStatus \cup {"none"}
      BY <1>1 DEF TypeOK, RideRow, CanTransition, ValidTransitions, RideStatus, OpenStatus
    <3>2. ride.status # "none"
      BY <1>1 DEF IInv, RowInv, OffersHaveDrivers
    <3> QED BY <2>2, <3>1, <3>2 DEF DeclineRevert, EndedStatus
  <2>3. CASE ExpireRevert(p)
    <3>1. SetOffer(o, "expired") /\ (ride' = ride \/ ride.status = "offered")
      BY <2>3 DEF ExpireRevert
    <3> QED BY <3>1 DEF EndedStatus, OpenStatus
  <2> QED BY <2>1, <2>2, <2>3
<1>5. RowsOnlyClose
  <2>1. CASE UNCHANGED offers
    BY <1>4, <2>1 DEF RowsOnlyClose
  <2>2. ASSUME NEW status \in EndedStatus, SetOffer(o, status) PROVE RowsOnlyClose
    BY <1>1, <1>4, <2>2 DEF RowsOnlyClose, SetOffer, TypeOK, OfferRow, EndedStatus
  <2> QED BY <1>4, <2>1, <2>2
<1>6. JobsAreKept
  BY <1>3, <1>4 DEF JobsAreKept
<1>7. proc'[p].at \in {"refuse_done", "decline_done", "expire_done"} =>
         proc'[p].offer = o /\ offers'[o].status \in EndedStatus
  <2>1. CASE ExpireLock(p)
    BY <1>1, <2>1, SlotChanges DEF ExpireLock, PendingOffers, TypeOK, OfferRow, OfferStatus,
                                   EndedStatus
  <2>2. CASE RefuseWrite(p) \/ DeclineCommit(p) \/ ExpireCommit(p)
    BY <1>1, <2>2, SlotChanges DEF RefuseWrite, DeclineCommit, ExpireCommit, SetOffer, TypeOK,
                                   OfferRow, EndedStatus
  <2>3. CASE DeclineRevert(p)
    BY <1>1, <2>3, SlotChanges DEF DeclineRevert, SetOffer, TypeOK, OfferRow, EndedStatus
  <2>4. CASE ExpireRevert(p)
    BY <1>1, <2>4 DEF ExpireRevert, SetOffer, TypeOK, OfferRow, Handler, EndedStatus
  <2> QED BY <2>1, <2>2, <2>3, <2>4
<1>8. RemovesEnded(p)'
  BY <1>3, <1>7 DEF RemovesEnded
<1> QED BY <1>1, <1>2, <1>3, <1>5, <1>6, <1>8, JobsKept

\* Steps that take a job, or whose handler ends: they remove no job but of what is over.
LEMMA EndsKeepJobs ==
    ASSUME IInv, JobInv, NEW p \in Handlers,
           \/ RideJobStart(p) \/ \E o \in Offers : OfferJobStart(p, o)
           \/ PickDone(p) \/ RefuseDone(p) \/ DeclineDone(p) \/ ExpireDone(p)
           \/ RideExpireDone(p) \/ CancelDone(p) \/ Abort(p)
    PROVE  JobInv'
<1>1. TypeOK /\ WorkingOffers /\ LateHandlers
  BY DEF IInv, HandlerInv
<1>2. \A q \in Handlers : proc[q].others \subseteq Offers
  BY <1>1 DEF TypeOK, Handler
<1>3. /\ proc[p].at \notin {"request_enqueue", "accept_enqueue"}
      /\ UNCHANGED <<ride, offers, crashes>>
      /\ \A q \in Handlers \ {p} : proc'[q] = proc[q]
      /\ proc'[p].at \notin {"refuse_done", "decline_done", "expire_done", "pick_done"}
  <2>1. CASE RideJobStart(p) \/ \E o \in Offers : OfferJobStart(p, o)
    BY <1>1, <2>1, SlotChanges DEF RideJobStart, OfferJobStart
  <2>2. CASE Abort(p)
    BY <1>1, <2>2, SlotChanges DEF Abort, LockCycle, HoldsRide
  <2>3. CASE \/ PickDone(p) \/ RefuseDone(p) \/ DeclineDone(p) \/ ExpireDone(p)
             \/ RideExpireDone(p) \/ CancelDone(p)
    BY <1>1, <2>3, SlotChanges DEF PickDone, RefuseDone, DeclineDone, RefusalDone, ExpireDone,
                                   RideExpireDone, CancelDone
  <2> QED BY <2>1, <2>2, <2>3
<1>4. RemovesEnded(p)' /\ RowsOnlyClose
  BY <1>3 DEF RemovesEnded, RowsOnlyClose
<1>5. JobsAreKept
  <2> USE <1>3 DEF JobsAreKept
  <2>1. CASE RideJobStart(p)
    BY <1>1, <2>1 DEF RideJobStart, Started, TypeOK, Job
  <2>2. ASSUME NEW o \in Offers, OfferJobStart(p, o) PROVE JobsAreKept
    BY <1>1, <2>2 DEF OfferJobStart, Started, TypeOK, Job
  <2>3. CASE PickDone(p)
    BY <1>1, <2>3 DEF PickDone, LateHandlers, OpenStatus, JobInv, RemovesEnded, EndedStatus
  <2>4. CASE RefuseDone(p) \/ DeclineDone(p)
    BY <1>1, <2>4 DEF RefuseDone, DeclineDone, RefusalDone, JobInv, RemovesEnded, EndedStatus,
                      TypeOK
  <2>5. CASE ExpireDone(p)
    BY <1>1, <2>5 DEF ExpireDone, Enqueued, JobInv, RemovesEnded, EndedStatus, TypeOK
  <2>6. CASE RideExpireDone(p) \/ CancelDone(p)
    BY <1>1, <2>6 DEF RideExpireDone, CancelDone, LateHandlers
  <2>7. CASE Abort(p)
    BY <1>1, <2>7 DEF Abort, AttemptFailed, TypeOK
  <2> QED BY <2>1, <2>2, <2>3, <2>4, <2>5, <2>6, <2>7
<1> QED BY <1>1, <1>2, <1>3, <1>4, <1>5, JobsKept

\* Steps that take the ride out of the market, or further on.
LEMMA RideStepsKeepJobs ==
    ASSUME IInv, JobInv,
           \/ StartRide \/ CompleteRide
           \/ \E p \in Handlers : \/ PickWrite(p) \/ RideExpireWrite(p)
                                 \/ \E who \in {"rider", "driver"} : CancelRide(p, who)
    PROVE  JobInv'
<1>1. TypeOK /\ WorkingOffers
  BY DEF IInv, HandlerInv
<1>2. \A q \in Handlers : proc[q].others \subseteq Offers
  BY <1>1 DEF TypeOK, Handler
<1>3. UNCHANGED <<rideJob, offerJob, crashes>> /\ ride'.status \notin OpenStatus
  BY <1>1 DEF StartRide, CompleteRide, PickWrite, RideExpireWrite, CancelRide, SetRide, TypeOK,
              RideRow, OpenStatus
<1>4. CASE StartRide \/ CompleteRide
  <2>1. RowsOnlyClose /\ JobsAreKept /\ UNCHANGED proc
    BY <1>3, <1>4 DEF StartRide, CompleteRide, RowsOnlyClose, JobsAreKept
  <2> QED BY <1>1, <1>2, <1>3, <2>1, JobsKept
<1>5. ASSUME NEW p \in Handlers, NEW who \in {"rider", "driver"}, CancelRide(p, who) PROVE JobInv'
  <2>1. /\ RowsOnlyClose /\ JobsAreKept
        /\ proc[p].at = "idle" /\ proc'[p].at = "cancel_done"
        /\ \A q \in Handlers \ {p} : proc'[q] = proc[q]
    BY <1>1, <1>3, <1>5, SlotChanges DEF CancelRide, RowsOnlyClose, JobsAreKept
  <2>2. RemovesEnded(p)'
    BY <2>1 DEF RemovesEnded
  <2> QED BY <1>1, <1>2, <1>3, <2>1, <2>2, JobsKept
<1>6. ASSUME NEW p \in Handlers, RideExpireWrite(p) PROVE JobInv'
  <2>1. /\ proc[p].at = "rexp_write" /\ proc'[p].at = "rexp_done"
        /\ \A q \in Handlers \ {p} : proc'[q] = proc[q]
    BY <1>1, <1>6, SlotChanges DEF RideExpireWrite
  <2>2. RowsOnlyClose /\ JobsAreKept
    BY <1>1, <1>3, <1>6 DEF RideExpireWrite, RowsOnlyClose, JobsAreKept, PendingOffers, TypeOK,
                            OfferRow, EndedStatus
  <2>3. RemovesEnded(p)'
    BY <2>1 DEF RemovesEnded
  <2> QED BY <1>1, <1>2, <1>3, <2>1, <2>2, <2>3, JobsKept
<1>7. ASSUME NEW p \in Handlers, PickWrite(p) PROVE JobInv'
  <2> DEFINE chosen == proc[p].offer
             losers == PendingOffers \ {chosen}
  <2>1. chosen \in Offers /\ proc[p].at = "pick_write"
    BY <1>1, <1>7 DEF PickWrite, WorkingOffers, OfferSteps
  <2>2. /\ proc'[p].at = "pick_done" /\ proc'[p].offer = chosen /\ proc'[p].others = losers
        /\ \A q \in Handlers \ {p} : proc'[q] = proc[q]
    BY <1>1, <1>7 DEF PickWrite, TypeOK, Handler
  <2>3. /\ offers'[chosen].status = "accepted"
        /\ \A o \in losers : offers'[o].status = "rejected"
        /\ \A o \in Offers \ (losers \cup {chosen}) : offers'[o] = offers[o]
    BY <1>1, <1>7, <2>1 DEF PickWrite, TypeOK, OfferRow, PendingOffers
  <2>4. RowsOnlyClose /\ JobsAreKept
    BY <1>3, <2>3 DEF RowsOnlyClose, JobsAreKept, EndedStatus
  <2>5. RemovesEnded(p)'
    BY <2>2, <2>3 DEF RemovesEnded, EndedStatus
  <2> QED BY <1>1, <1>2, <1>3, <2>1, <2>2, <2>4, <2>5, JobsKept
<1> QED BY <1>4, <1>5, <1>6, <1>7

\* The inserts, and the enqueues that follow them.  Until its enqueue the request that
\* inserted a row stands for the job.
LEMMA InsertsGetJobs ==
    ASSUME IInv, JobInv, NEW p \in Requests,
           \/ RequestRide(p) \/ RequestEnqueue(p) \/ AcceptEnqueue(p)
           \/ \E d \in Drivers : AcceptRide(p, d)
    PROVE  JobInv'
<1>1. TypeOK /\ WorkingOffers /\ p \in Handlers
  BY DEF IInv, HandlerInv, Handlers
<1>2. \A q \in Handlers : proc[q].others \subseteq Offers
  BY <1>1 DEF TypeOK, Handler
<1>3. \A q \in Handlers \ {p} : proc'[q] = proc[q]
  BY <1>1, SlotChanges DEF RequestRide, RequestEnqueue, AcceptRide, AcceptEnqueue
<1>4. proc'[p].at \in {"idle", "request_enqueue", "accept_enqueue"} /\ UNCHANGED crashes
  BY <1>1, SlotChanges DEF RequestRide, RequestEnqueue, AcceptRide, AcceptEnqueue
<1>5. \A o \in Offers : offers[o].status \in EndedStatus => offers'[o].status \in EndedStatus
  BY <1>1 DEF RequestRide, RequestEnqueue, AcceptRide, AcceptEnqueue, TypeOK, EndedStatus
<1>6. \A q \in Handlers : RemovesEnded(q)'
  BY <1>1, <1>2, <1>3, <1>4, <1>5 DEF JobInv, RemovesEnded, WorkingOffers, OfferSteps,
                                      OfferExpirationSteps
<1>7. RideHasJob'
  <2>1. CASE RequestRide(p)
    BY <1>1, <2>1, SlotChanges DEF RequestRide, RideHasJob
  <2>2. CASE RequestEnqueue(p)
    BY <2>2 DEF RequestEnqueue, Enqueued, RideHasJob
  <2>3. CASE AcceptEnqueue(p) \/ \E d \in Drivers : AcceptRide(p, d)
    <3>1. /\ proc[p].at # "request_enqueue" /\ rideJob' = rideJob
          /\ ride'.status \in OpenStatus => ride.status \in OpenStatus
      BY <1>1, <2>3 DEF AcceptEnqueue, AcceptRide, MayOffer
    <3>2. \A q \in Requests \ {p} : proc'[q] = proc[q]
      BY <1>3 DEF Handlers
    <3> QED BY <1>4, <3>1, <3>2 DEF JobInv, RideHasJob
  <2> QED BY <2>1, <2>2, <2>3
<1>8. OffersHaveJobs'
  <2>0. \A q \in Requests \ {p} : proc'[q] = proc[q]
    BY <1>3 DEF Handlers
  <2>1. CASE RequestRide(p) \/ RequestEnqueue(p)
    <3>1. proc[p].at # "accept_enqueue" /\ UNCHANGED <<offers, offerJob>>
      BY <2>1 DEF RequestRide, RequestEnqueue
    <3> QED BY <1>4, <2>0, <3>1 DEF JobInv, OffersHaveJobs, PendingOffers
  <2>2. CASE AcceptEnqueue(p)
    <3>1. /\ proc[p].offer \in Offers /\ UNCHANGED offers
          /\ offerJob'[proc[p].offer].state # "absent"
          /\ \A o \in Offers \ {proc[p].offer} : offerJob'[o] = offerJob[o]
      BY <1>1, <2>2 DEF AcceptEnqueue, Enqueued, WorkingOffers, OfferSteps, TypeOK
    <3> QED BY <1>4, <2>0, <3>1 DEF JobInv, OffersHaveJobs, PendingOffers
  <2>3. ASSUME NEW d \in Drivers, AcceptRide(p, d) PROVE OffersHaveJobs'
    <3>1. PICK o \in Offers : /\ offers' = [offers EXCEPT ![o] = [status |-> "pending", driver |-> d]]
                              /\ Begin(p, "accept_enqueue", o, FALSE)
      BY <2>3 DEF AcceptRide
    <3>2. /\ proc[p].at = "idle" /\ UNCHANGED offerJob
          /\ proc'[p].at = "accept_enqueue" /\ proc'[p].offer = o
          /\ \A x \in Offers \ {o} : offers'[x] = offers[x]
      <4>1. proc'[p].at = "accept_enqueue" /\ proc'[p].offer = o
        BY <1>1, <3>1, SlotChanges
      <4> QED BY <1>1, <2>3, <3>1, <4>1 DEF AcceptRide, TypeOK
    <3> QED BY <1>4, <2>0, <3>2 DEF JobInv, OffersHaveJobs, PendingOffers
  <2> QED BY <2>1, <2>2, <2>3
<1> QED BY <1>6, <1>7, <1>8 DEF JobInv

\* Only requests stand where they are about to enqueue.
RequestersEnqueue ==
    \A q \in Handlers : proc[q].at \in {"request_enqueue", "accept_enqueue"} => q \in Requests

\* Every step keeps JobInv.
LEMMA JobStep == IInv /\ RequestersEnqueue /\ JobInv /\ [Next]_vars => RequestersEnqueue' /\ JobInv'
<1> SUFFICES ASSUME IInv, RequestersEnqueue, JobInv, [Next]_vars
             PROVE  RequestersEnqueue' /\ JobInv'
  OBVIOUS
<1>1. TypeOK /\ Requests \subseteq Handlers /\ Workers \subseteq Handlers
  BY DEF IInv, Handlers
<1>2. CASE UNCHANGED vars
  BY <1>2 DEF vars, RequestersEnqueue, JobInv, RemovesEnded, RideHasJob,
              OffersHaveJobs, PendingOffers
<1>3. ASSUME NEW p \in Requests, Arrive(p) PROVE RequestersEnqueue' /\ JobInv'
  <2>1. JobInv'
    BY <1>1, <1>3, InsertsGetJobs, ReadsKeepJobs, RideStepsKeepJobs DEF Arrive
  <2>2. \A q \in Handlers \ {p} : proc'[q] = proc[q]
    BY <1>1, <1>3, SlotChanges DEF Arrive, RequestRide, AcceptRide, PickLock, RefuseRead,
                                   DeclineRead, CancelRide
  <2> QED BY <2>1, <2>2 DEF RequestersEnqueue
<1>4. ASSUME NEW p \in Workers, RideJobStart(p) \/ \E o \in Offers : OfferJobStart(p, o)
      PROVE  RequestersEnqueue' /\ JobInv'
  <2>1. JobInv'
    BY <1>1, <1>4, EndsKeepJobs
  <2>2. /\ \A q \in Handlers \ {p} : proc'[q] = proc[q]
        /\ proc'[p] = proc[p] \/ proc'[p].at \in {"rexp_lock", "expire_lock"}
    BY <1>1, <1>4, SlotChanges DEF RideJobStart, OfferJobStart
  <2> QED BY <1>1, <2>1, <2>2 DEF RequestersEnqueue
<1>5. ASSUME NEW p \in Handlers, Continue(p) PROVE RequestersEnqueue' /\ JobInv'
  <2>1. CASE RequestEnqueue(p) \/ AcceptEnqueue(p)
    <3>1. p \in Requests
      BY <2>1 DEF RequestersEnqueue, RequestEnqueue, AcceptEnqueue
    <3>2. \A q \in Handlers \ {p} : proc'[q] = proc[q]
      BY <1>1, <2>1, SlotChanges DEF RequestEnqueue, AcceptEnqueue
    <3> QED BY <2>1, <3>1, <3>2, InsertsGetJobs DEF RequestersEnqueue
  <2>2. CASE ~(RequestEnqueue(p) \/ AcceptEnqueue(p))
    <3>1. JobInv'
      BY <1>5, <2>2, ReadsKeepJobs, ClosingKeepsJobs, EndsKeepJobs, RideStepsKeepJobs DEF Continue
    <3>2. \A q \in Handlers \ {p} : proc'[q] = proc[q]
      <4>1. CASE PickWrite(p) \/ ExpireRevert(p)
        BY <1>1, <4>1 DEF PickWrite, ExpireRevert, TypeOK
      <4>2. CASE ~(PickWrite(p) \/ ExpireRevert(p))
        BY <1>1, <1>5, <2>2, <4>2, SlotChanges
           DEF Continue, PickDone, RefuseWrite, RefuseDone, DeclineLock, DeclineCommit,
               DeclineRevert, DeclineDone, RefusalDone, ExpireLock, ExpireCommit, ExpireDone,
               RideExpireLock, RideExpireWrite, RideExpireDone, CancelDone, Abort
      <4> QED BY <4>1, <4>2
    <3>3. proc'[p].at \notin {"request_enqueue", "accept_enqueue"}
      <4>1. CASE PickWrite(p) \/ ExpireRevert(p)
        <5>1. proc \in [Handlers -> Handler]
          BY <1>1 DEF TypeOK
        <5>2. CASE PickWrite(p)
          BY <5>1, <5>2 DEF PickWrite, Handler
        <5>3. CASE ExpireRevert(p)
          BY <5>1, <5>3 DEF ExpireRevert, Handler
        <5> QED BY <4>1, <5>2, <5>3
      <4>2. CASE ~(PickWrite(p) \/ ExpireRevert(p))
        BY <1>1, <1>5, <2>2, <4>2, SlotChanges
           DEF Continue, PickDone, RefuseWrite, RefuseDone, DeclineLock, DeclineCommit,
               DeclineRevert, DeclineDone, RefusalDone, ExpireLock, ExpireCommit, ExpireDone,
               RideExpireLock, RideExpireWrite, RideExpireDone, CancelDone, Abort
      <4> QED BY <4>1, <4>2
    <3> QED BY <3>1, <3>2, <3>3 DEF RequestersEnqueue
  <2> QED BY <2>1, <2>2
<1>6. ASSUME NEW p \in Handlers, Crash(p) PROVE RequestersEnqueue' /\ JobInv'
  <2>1. /\ \A q \in Handlers \ {p} : proc'[q] = proc[q]
        /\ proc'[p].at = "idle" /\ UNCHANGED offers /\ crashes' # 0
    BY <1>1, <1>6, SlotChanges, CrashesAssumption DEF Crash, TypeOK
  <2> QED BY <2>1 DEF RequestersEnqueue, JobInv, RemovesEnded, RideHasJob,
                      OffersHaveJobs
<1>7. CASE DriverActs
  <2>1. JobInv' /\ UNCHANGED proc
    BY <1>7, RideStepsKeepJobs DEF DriverActs, StartRide, CompleteRide
  <2> QED BY <2>1 DEF RequestersEnqueue
<1> QED BY <1>2, <1>3, <1>4, <1>5, <1>6, <1>7 DEF Next, TakeOfferJob, TakeRideJob, Over

\* JobInv holds in every reachable state.
THEOREM JobInvariance == Spec => []JobInv
<1>1. Init => RequestersEnqueue /\ JobInv
  BY DEF Init, Idle, RequestersEnqueue, JobInv, RemovesEnded, RideHasJob,
         OffersHaveJobs, PendingOffers, OpenStatus
<1> QED BY <1>1, JobStep, Invariance, PTL DEF Spec

\* A job that nobody is working on: to be run, absent, or given up.
AtRest(job) == job.state \in {"absent", "delayed", "waiting"} \/ GivenUp(job)

\* An active job has a worker, and a failed one has used up its attempts.
JobsAreServed ==
    /\ AtRest(rideJob) \/ \E p \in Handlers : proc[p].at \in RideExpirationSteps
    /\ \A o \in Offers :
         \/ AtRest(offerJob[o])
         \/ \E p \in Handlers : proc[p].at \in OfferExpirationSteps /\ proc[p].offer = o

\* What the queue operations make of a job.
LEMMA JobsAtRest ==
    ASSUME NEW job \in Job
    PROVE  /\ AtRest(NoJob) /\ AtRest(AttemptFailed(job))
           /\ AtRest(job) => AtRest(Enqueued(job)) /\ AtRest(Cancelled(job))
           /\ Enqueued(job) = job \/ AtRest(Enqueued(job))
           /\ Cancelled(job) = job \/ AtRest(Cancelled(job))
<1>1. MaxAttempts \in Nat \ {0}
  BY AttemptsAssumption
<1> QED BY <1>1 DEF AtRest, GivenUp, NoJob, AttemptFailed, Enqueued, Cancelled, Job

\* What a step of handler p may do: take a job, leave one alone that it does not let go of,
\* or leave it at rest.
LEMMA ServedStep ==
    ASSUME JobsAreServed, NEW p \in Handlers, \A q \in Handlers \ {p} : proc'[q] = proc[q],
           \/ AtRest(rideJob)'
           \/ proc'[p].at \in RideExpirationSteps
           \/ rideJob' = rideJob /\ proc[p].at \notin RideExpirationSteps,
           \A o \in Offers :
              \/ AtRest(offerJob[o])'
              \/ proc'[p].at \in OfferExpirationSteps /\ proc'[p].offer = o
              \/ /\ offerJob'[o] = offerJob[o]
                 /\ ~(proc[p].at \in OfferExpirationSteps /\ proc[p].offer = o)
    PROVE  JobsAreServed'
<1>1. (AtRest(rideJob) \/ \E q \in Handlers : proc[q].at \in RideExpirationSteps)'
  <2>1. CASE AtRest(rideJob)' \/ proc'[p].at \in RideExpirationSteps
    BY <2>1
  <2>2. CASE rideJob' = rideJob /\ proc[p].at \notin RideExpirationSteps
    <3>1. CASE AtRest(rideJob)
      BY <2>2, <3>1 DEF AtRest, GivenUp
    <3>2. CASE \E q \in Handlers : proc[q].at \in RideExpirationSteps
      BY <2>2, <3>2
    <3> QED BY <3>1, <3>2 DEF JobsAreServed
  <2> QED BY <2>1, <2>2
<1>2. ASSUME NEW o \in Offers
      PROVE  (\/ AtRest(offerJob[o])
              \/ \E q \in Handlers : proc[q].at \in OfferExpirationSteps /\ proc[q].offer = o)'
  <2>1. CASE AtRest(offerJob[o])' \/ (proc'[p].at \in OfferExpirationSteps /\ proc'[p].offer = o)
    BY <2>1
  <2>2. CASE /\ offerJob'[o] = offerJob[o]
             /\ ~(proc[p].at \in OfferExpirationSteps /\ proc[p].offer = o)
    <3>1. CASE AtRest(offerJob[o])
      BY <2>2, <3>1 DEF AtRest, GivenUp
    <3>2. CASE \E q \in Handlers : proc[q].at \in OfferExpirationSteps /\ proc[q].offer = o
      BY <2>2, <3>2
    <3> QED BY <3>1, <3>2 DEF JobsAreServed
  <2> QED BY <2>1, <2>2
<1> QED BY <1>1, <1>2 DEF JobsAreServed

\* Steps that leave the queues alone, of requests and of workers that go on.
LEMMA OtherStepsServe ==
    ASSUME TypeOK, JobsAreServed, NEW p \in Handlers,
           \/ RequestRide(p) \/ \E d \in Drivers : AcceptRide(p, d)
           \/ \E o \in Offers : PickLock(p, o) \/ RefuseRead(p, o) \/ DeclineRead(p, o)
           \/ \E who \in {"rider", "driver"} : CancelRide(p, who)
           \/ PickWrite(p) \/ RefuseWrite(p)
           \/ DeclineLock(p) \/ DeclineCommit(p) \/ DeclineRevert(p)
           \/ ExpireLock(p) \/ ExpireCommit(p) \/ ExpireRevert(p)
           \/ RideExpireLock(p) \/ RideExpireWrite(p)
    PROVE  JobsAreServed'
<1>1. UNCHANGED <<rideJob, offerJob>>
  BY DEF RequestRide, AcceptRide, PickLock, RefuseRead, DeclineRead, CancelRide, PickWrite,
         RefuseWrite, DeclineLock, DeclineCommit, DeclineRevert, ExpireLock, ExpireCommit,
         ExpireRevert, RideExpireLock, RideExpireWrite
<1>2. CASE ExpireLock(p) \/ ExpireCommit(p) \/ ExpireRevert(p)
  <2>1. /\ proc[p].at \in OfferExpirationSteps /\ proc[p].at \notin RideExpirationSteps
        /\ proc'[p].at \in OfferExpirationSteps /\ proc'[p].offer = proc[p].offer
        /\ \A q \in Handlers \ {p} : proc'[q] = proc[q]
    <3>1. CASE ExpireRevert(p)
      BY <3>1 DEF ExpireRevert, TypeOK, Handler, OfferExpirationSteps, RideExpirationSteps
    <3>2. CASE ExpireLock(p) \/ ExpireCommit(p)
      BY <3>2, SlotChanges DEF ExpireLock, ExpireCommit, OfferExpirationSteps, RideExpirationSteps
    <3> QED BY <1>2, <3>1, <3>2
  <2> QED BY <1>1, <2>1, ServedStep
<1>3. CASE RideExpireLock(p) \/ RideExpireWrite(p)
  <2>1. /\ proc[p].at \notin OfferExpirationSteps /\ proc'[p].at \in RideExpirationSteps
        /\ \A q \in Handlers \ {p} : proc'[q] = proc[q]
    BY <1>3, SlotChanges DEF RideExpireLock, RideExpireWrite, OfferExpirationSteps,
                             RideExpirationSteps
  <2> QED BY <1>1, <2>1, ServedStep
<1>4. CASE \/ RequestRide(p) \/ \E d \in Drivers : AcceptRide(p, d)
           \/ \E o \in Offers : PickLock(p, o) \/ RefuseRead(p, o) \/ DeclineRead(p, o)
           \/ \E who \in {"rider", "driver"} : CancelRide(p, who)
           \/ PickWrite(p) \/ RefuseWrite(p)
           \/ DeclineLock(p) \/ DeclineCommit(p) \/ DeclineRevert(p)
  <2>1. proc[p].at \notin OfferExpirationSteps \cup RideExpirationSteps
    BY <1>4 DEF RequestRide, AcceptRide, PickLock, RefuseRead, DeclineRead, CancelRide, PickWrite,
                RefuseWrite, DeclineLock, DeclineCommit, DeclineRevert, OfferExpirationSteps,
                RideExpirationSteps
  <2>2. \A q \in Handlers \ {p} : proc'[q] = proc[q]
    BY <1>4 DEF RequestRide, AcceptRide, PickLock, RefuseRead, DeclineRead, CancelRide, PickWrite,
                RefuseWrite, DeclineLock, DeclineCommit, DeclineRevert, Begin, Advance, Finish,
                TypeOK
  <2> QED BY <1>1, <2>1, <2>2, ServedStep
<1> QED BY <1>2, <1>3, <1>4

\* Requests that enqueue a job, or cancel one.
LEMMA QueuersServe ==
    ASSUME TypeOK, JobsAreServed, NEW p \in Handlers,
           \/ RequestEnqueue(p) \/ AcceptEnqueue(p)
           \/ PickDone(p) \/ RefuseDone(p) \/ DeclineDone(p) \/ CancelDone(p)
    PROVE  JobsAreServed'
<1>1. /\ proc[p].at \notin OfferExpirationSteps \cup RideExpirationSteps
      /\ Finish(p)
  BY DEF RequestEnqueue, AcceptEnqueue, PickDone, RefuseDone, DeclineDone, RefusalDone,
         CancelDone, OfferExpirationSteps, RideExpirationSteps
<1>2. \A q \in Handlers \ {p} : proc'[q] = proc[q]
  BY <1>1, SlotChanges
<1>3. rideJob \in Job /\ \A o \in Offers : offerJob[o] \in Job
  BY DEF TypeOK
<1>4. AtRest(rideJob)' \/ rideJob' = rideJob
  <2>1. rideJob' \in {rideJob, Enqueued(rideJob), Cancelled(rideJob)}
    BY DEF RequestEnqueue, AcceptEnqueue, PickDone, RefuseDone, DeclineDone, RefusalDone,
           CancelDone
  <2> QED BY <1>3, <2>1, JobsAtRest DEF AtRest, GivenUp
<1>5. ASSUME NEW o \in Offers PROVE AtRest(offerJob[o])' \/ offerJob'[o] = offerJob[o]
  <2>1. offerJob'[o] \in {offerJob[o], Enqueued(offerJob[o]), Cancelled(offerJob[o])}
    BY DEF RequestEnqueue, AcceptEnqueue, PickDone, RefuseDone, DeclineDone, RefusalDone,
           CancelDone, TypeOK
  <2> QED BY <1>3, <2>1, JobsAtRest DEF AtRest, GivenUp
<1> QED BY <1>1, <1>2, <1>4, <1>5, ServedStep

\* Workers that take a job, and handlers whose job ends with them.
LEMMA WorkersServe ==
    ASSUME TypeOK, JobsAreServed, NEW p \in Handlers,
           \/ RideJobStart(p) \/ \E o \in Offers : OfferJobStart(p, o)
           \/ ExpireDone(p) \/ RideExpireDone(p) \/ Abort(p) \/ Crash(p)
    PROVE  JobsAreServed'
<1>1. \A q \in Handlers \ {p} : proc'[q] = proc[q]
  BY SlotChanges DEF RideJobStart, OfferJobStart, ExpireDone, RideExpireDone, Abort, Crash
<1>2. rideJob \in Job /\ \A o \in Offers : offerJob[o] \in Job
  BY DEF TypeOK
<1>3. \/ AtRest(rideJob)'
      \/ proc'[p].at \in RideExpirationSteps
      \/ rideJob' = rideJob /\ proc[p].at \notin RideExpirationSteps
  <2>1. CASE RideJobStart(p)
    BY <1>2, <2>1, SlotChanges, JobsAtRest DEF RideJobStart, RideExpirationSteps, AtRest, GivenUp
  <2>2. CASE (\E o \in Offers : OfferJobStart(p, o))
    BY <2>2 DEF OfferJobStart, RideExpirationSteps
  <2>3. CASE ExpireDone(p)
    BY <1>2, <2>3, JobsAtRest DEF ExpireDone, RideExpirationSteps, AtRest, GivenUp
  <2>4. CASE RideExpireDone(p)
    BY <1>2, <2>4, JobsAtRest DEF RideExpireDone, AtRest, GivenUp
  <2>5. CASE Abort(p)
    BY <1>2, <2>5, JobsAtRest DEF Abort, AtRest, GivenUp
  <2>6. CASE Crash(p)
    BY <1>2, <2>6 DEF Crash, AtRest, Job
  <2> QED BY <2>1, <2>2, <2>3, <2>4, <2>5, <2>6
<1>4. ASSUME NEW o \in Offers
      PROVE  \/ AtRest(offerJob[o])'
             \/ proc'[p].at \in OfferExpirationSteps /\ proc'[p].offer = o
             \/ /\ offerJob'[o] = offerJob[o]
                /\ ~(proc[p].at \in OfferExpirationSteps /\ proc[p].offer = o)
  <2> USE DEF TypeOK
  <2>1. CASE RideJobStart(p) \/ RideExpireDone(p)
    BY <2>1 DEF RideJobStart, RideExpireDone, OfferExpirationSteps
  <2>2. ASSUME NEW x \in Offers, OfferJobStart(p, x)
        PROVE  \/ AtRest(offerJob[o])'
               \/ proc'[p].at \in OfferExpirationSteps /\ proc'[p].offer = o
               \/ /\ offerJob'[o] = offerJob[o]
                  /\ ~(proc[p].at \in OfferExpirationSteps /\ proc[p].offer = o)
    <3>1. proc[p].at \notin OfferExpirationSteps
      BY <2>2 DEF OfferJobStart, OfferExpirationSteps
    <3>2. CASE o # x
      BY <2>2, <3>1, <3>2 DEF OfferJobStart
    <3>3. CASE o = x /\ offers[x].status = "pending"
      BY <2>2, <3>3, SlotChanges DEF OfferJobStart, OfferExpirationSteps
    <3>4. CASE o = x /\ offers[x].status # "pending"
      <4>1. offerJob'[o] = NoJob
        BY <2>2, <3>4 DEF OfferJobStart
      <4> QED BY <4>1 DEF AtRest, NoJob
    <3> QED BY <3>2, <3>3, <3>4
  <2>3. CASE ExpireDone(p)
    <3>1. offerJob'[o] = IF o = proc[p].offer THEN NoJob ELSE offerJob[o]
      BY <2>3 DEF ExpireDone
    <3> QED BY <3>1 DEF AtRest, NoJob
  <2>4. CASE Abort(p)
    <3>1. CASE proc[p].at \in OfferExpirationSteps /\ proc[p].offer = o
      <4>1. offerJob'[o] = AttemptFailed(offerJob[o])
        BY <2>4, <3>1 DEF Abort
      <4> QED BY <1>2, <4>1, JobsAtRest DEF AtRest, GivenUp
    <3>2. CASE ~(proc[p].at \in OfferExpirationSteps /\ proc[p].offer = o)
      BY <2>4, <3>2 DEF Abort
    <3> QED BY <3>1, <3>2
  <2>5. CASE Crash(p)
    <3>1. CASE proc[p].at \in OfferExpirationSteps /\ proc[p].offer = o
      <4>1. offerJob'[o].state = "waiting"
        BY <1>2, <2>5, <3>1 DEF Crash, Job
      <4> QED BY <4>1 DEF AtRest
    <3>2. CASE ~(proc[p].at \in OfferExpirationSteps /\ proc[p].offer = o)
      BY <2>5, <3>2 DEF Crash
    <3> QED BY <3>1, <3>2
  <2> QED BY <2>1, <2>2, <2>3, <2>4, <2>5
<1> QED BY <1>1, <1>3, <1>4, ServedStep

LEMMA ServedNext == TypeOK /\ JobsAreServed /\ [Next]_vars => JobsAreServed'
<1> SUFFICES ASSUME TypeOK, JobsAreServed, [Next]_vars PROVE JobsAreServed'
  OBVIOUS
<1>1. CASE UNCHANGED vars
  BY <1>1 DEF vars, JobsAreServed, AtRest, GivenUp
<1>2. Requests \subseteq Handlers /\ Workers \subseteq Handlers
  BY DEF Handlers
<1>3. ASSUME NEW p \in Requests, Arrive(p) PROVE JobsAreServed'
  BY <1>2, <1>3, OtherStepsServe DEF Arrive
<1>4. CASE TakeRideJob \/ \E o \in Offers : TakeOfferJob(o)
  BY <1>2, <1>4, WorkersServe DEF TakeRideJob, TakeOfferJob
<1>5. ASSUME NEW p \in Handlers, Continue(p) \/ Crash(p) PROVE JobsAreServed'
  BY <1>5, OtherStepsServe, QueuersServe, WorkersServe DEF Continue
<1>6. CASE DriverActs
  BY <1>6 DEF DriverActs, StartRide, CompleteRide, JobsAreServed, AtRest, GivenUp
<1> QED BY <1>1, <1>3, <1>4, <1>5, <1>6 DEF Next, Over

\* An active job has a worker, and a failed one has used up its attempts, in every
\* reachable state.
THEOREM ServedInvariance == Spec => []JobsAreServed
<1>1. Init => JobsAreServed
  BY DEF Init, JobsAreServed, AtRest, NoJob
<1>2. IInv => TypeOK
  BY DEF IInv
<1> QED BY <1>1, <1>2, ServedNext, Invariance, PTL DEF Spec

\* Unless a handler died half-way, a ride in the market has a job that a worker may take or
\* has taken and is about to expire it with, or one given up after MaxAttempts attempts, or
\* the request that inserted it is about to enqueue one (requestRide, rideExpirationWorker).
THEOREM OpenRideWillExpire == Spec => []OpenRideHasExpirationJob
<1>1. IInv /\ JobInv /\ JobsAreServed => OpenRideHasExpirationJob
  <2> SUFFICES ASSUME IInv, JobInv, JobsAreServed, crashes = 0, ride.status \in OpenStatus,
                      ~Runnable(rideJob), ~GivenUp(rideJob)
               PROVE  \E p \in Handlers :
                         proc[p].at \in {"request_enqueue", "rexp_lock", "rexp_write"}
    BY DEF OpenRideHasExpirationJob
  <2>1. CASE rideJob.state = "absent"
    BY <2>1 DEF JobInv, RideHasJob, Handlers
  <2>2. CASE rideJob.state # "absent"
    <3>1. PICK p \in Handlers : proc[p].at \in RideExpirationSteps
      BY <2>2 DEF JobsAreServed, AtRest, Runnable
    <3>2. proc[p].at # "rexp_done"
      BY DEF IInv, HandlerInv, LateHandlers
    <3> QED BY <3>1, <3>2 DEF RideExpirationSteps
  <2> QED BY <2>1, <2>2
<1> QED BY <1>1, Invariance, JobInvariance, ServedInvariance, PTL

\* The same of a pending offer (acceptRide, offerExpirationWorker): no other handler removes
\* its job, and a worker that has taken it will expire it.
THEOREM PendingOfferWillExpire == Spec => []PendingOfferHasExpirationJob
<1>1. JobInv /\ JobsAreServed => PendingOfferHasExpirationJob
  <2> SUFFICES ASSUME JobInv, JobsAreServed, crashes = 0, NEW o \in PendingOffers,
                      ~Runnable(offerJob[o]), ~GivenUp(offerJob[o])
               PROVE  \E p \in Handlers :
                         /\ proc[p].offer = o
                         /\ proc[p].at \in {"accept_enqueue", "expire_lock", "expire_commit",
                                            "expire_revert"}
    BY DEF PendingOfferHasExpirationJob
  <2>0. o \in Offers /\ offers[o].status = "pending"
    BY DEF PendingOffers
  <2>1. CASE offerJob[o].state = "absent"
    BY <2>1 DEF JobInv, OffersHaveJobs, Handlers
  <2>2. CASE offerJob[o].state # "absent"
    <3>1. PICK p \in Handlers : proc[p].at \in OfferExpirationSteps /\ proc[p].offer = o
      BY <2>0, <2>2 DEF JobsAreServed, AtRest, Runnable
    <3>2. proc[p].at # "expire_done"
      BY <2>0, <3>1 DEF JobInv, RemovesEnded, EndedStatus
    <3> QED BY <3>1, <3>2 DEF OfferExpirationSteps
  <2> QED BY <2>1, <2>2
<1> QED BY <1>1, JobInvariance, ServedInvariance, PTL

-----------------------------------------------------------------------------
(* The ride keeps its promise *)

\* What the rows' writers do to the columns that RideLifecycle looks at.
LEMMA RideColumns ==
    ASSUME TypeOK, NEW s \in RideStatus, SetRide(s)
    PROVE  /\ ride'.status = s
           /\ ride'.driver = ride.driver
           /\ ride'.cancelledBy = ride.cancelledBy
BY DEF TypeOK, RideRow, SetRide

\* Each step of the negotiation is a step of the lifecycle or leaves it alone.
LEMMA LifecycleStep == IInv /\ [Next]_vars => [Lifecycle!LifecycleNext]_(Lifecycle!lifecycleVars)
<1> SUFFICES ASSUME IInv, [Next]_vars
             PROVE  Lifecycle!LifecycleNext \/ UNCHANGED ride
  BY DEF Lifecycle!lifecycleVars
<1> USE DEF Lifecycle!LifecycleNext
<1>1. TypeOK /\ ride.status \in RideStatus /\ {"pending", "offered", "in_progress"} \subseteq RideStatus
  BY DEF IInv, TypeOK, RideRow, RideStatus
<1>2. \A s : CanTransition(ride.status, s) <=> Lifecycle!CanTransition(ride.status, s)
  BY DEF CanTransition, Lifecycle!CanTransition, ValidTransitions, Lifecycle!ValidTransitions,
         RideStatus, Lifecycle!RideStatus
<1>3. /\ ride.status = "none" => CanTransition(ride.status, "pending")
      /\ ride.status = "pending" => CanTransition(ride.status, "offered")
      /\ ride.status = "offered" => /\ CanTransition(ride.status, "pending")
                                    /\ CanTransition(ride.status, "accepted")
      /\ ride.status \in OpenStatus => CanTransition(ride.status, "cancelled")
  BY DEF CanTransition, ValidTransitions, RideStatus, OpenStatus
<1>4. ASSUME NEW p \in Handlers, NEW d \in Drivers, AcceptRide(p, d)
      PROVE  Lifecycle!LifecycleNext \/ UNCHANGED ride
  <2>1. SetRide("offered") /\ ride.status \in OpenStatus
    BY <1>4 DEF AcceptRide, MayOffer, SetRide, OpenStatus
  <2>2. CASE ride.status = "pending"
    BY <1>1, <1>2, <1>3, <2>1, <2>2, RideColumns DEF Lifecycle!MoveInMarket
  <2>3. CASE ride.status = "offered"
    BY <1>1, <2>1, <2>3 DEF SetRide, TypeOK, RideRow
  <2> QED BY <2>1, <2>2, <2>3 DEF OpenStatus
<1>5. ASSUME NEW p \in Handlers, RequestRide(p)
      PROVE  Lifecycle!LifecycleNext
  BY <1>1, <1>2, <1>3, <1>5, RideColumns DEF RequestRide, Lifecycle!MoveInMarket
<1>6. ASSUME NEW p \in Handlers, DeclineRevert(p) \/ ExpireRevert(p)
      PROVE  Lifecycle!LifecycleNext \/ UNCHANGED ride
  <2>1. UNCHANGED ride \/ (SetRide("pending") /\ CanTransition(ride.status, "pending"))
    BY <1>3, <1>6 DEF DeclineRevert, ExpireRevert, SetRide
  <2> QED BY <1>1, <1>2, <2>1, RideColumns DEF Lifecycle!MoveInMarket
<1>7. ASSUME NEW p \in Handlers, PickWrite(p)
      PROVE  Lifecycle!LifecycleNext
  <2> DEFINE d == offers[proc[p].offer].driver
  <2>1. d \in Drivers
    BY <1>7 DEF PickWrite, IInv, HandlerInv, RowInv, WorkingOffers, OfferSteps, OffersHaveDrivers
  <2>2. ride.status = "offered"
    BY <1>7 DEF PickWrite, IInv, HandlerInv, LocksProtect
  <2>3. ride'.status = "accepted" /\ ride'.driver = d /\ ride'.cancelledBy = ride.cancelledBy
    BY <1>1, <1>7 DEF PickWrite, TypeOK, RideRow
  <2> HIDE DEF d
  <2>4. Lifecycle!Match(d)
    BY <1>2, <1>3, <2>2, <2>3 DEF Lifecycle!Match
  <2> QED BY <2>1, <2>4
<1>8. ASSUME NEW p \in Handlers, RideExpireWrite(p)
      PROVE  Lifecycle!LifecycleNext
  <2>1. ride.status \in OpenStatus /\ ride.driver = NoDriver
    BY <1>8 DEF RideExpireWrite, IInv, HandlerInv, RowInv, LocksProtect, MarketIsOpen
  <2>2. ride'.status = "cancelled" /\ ride'.driver = ride.driver /\ ride'.cancelledBy = "system"
    BY <1>1, <1>8 DEF RideExpireWrite, TypeOK, RideRow
  <2>3. Lifecycle!CancelBy("system")
    BY <1>2, <1>3, <2>1, <2>2 DEF Lifecycle!CancelBy
  <2> QED BY <2>3
<1>9. ASSUME NEW p \in Handlers, NEW who \in {"rider", "driver"}, CancelRide(p, who)
      PROVE  Lifecycle!LifecycleNext
  <2>1. ride'.status = "cancelled" /\ ride'.driver = ride.driver /\ ride'.cancelledBy = who
    BY <1>1, <1>9 DEF CancelRide, TypeOK, RideRow
  <2>2. Lifecycle!CancelBy(who)
    BY <1>2, <1>9, <2>1 DEF CancelRide, Lifecycle!CancelBy
  <2> QED BY <2>2
<1>10. CASE StartRide
  BY <1>1, <1>2, <1>10, RideColumns DEF StartRide, Lifecycle!Drive
<1>11. CASE CompleteRide
  <2>1. ride'.status = "completed" /\ ride'.driver = ride.driver /\ ride'.cancelledBy = ride.cancelledBy
    BY <1>1, <1>11 DEF CompleteRide, TypeOK, RideRow
  <2> QED BY <1>2, <1>11, <2>1 DEF CompleteRide, Lifecycle!Drive
<1>12. ASSUME NEW p \in Handlers, NEW o \in Offers,
              PickLock(p, o) \/ RefuseRead(p, o) \/ DeclineRead(p, o) \/ OfferJobStart(p, o)
       PROVE  UNCHANGED ride
  BY <1>12 DEF PickLock, RefuseRead, DeclineRead, OfferJobStart
<1>13. ASSUME NEW p \in Handlers, RideJobStart(p) \/ Continue(p) \/ Crash(p)
       PROVE  Lifecycle!LifecycleNext \/ UNCHANGED ride
  <2>1. CASE PickWrite(p) \/ DeclineRevert(p) \/ ExpireRevert(p) \/ RideExpireWrite(p)
    BY <1>6, <1>7, <1>8, <2>1
  <2>2. CASE ~(PickWrite(p) \/ DeclineRevert(p) \/ ExpireRevert(p) \/ RideExpireWrite(p))
    BY <1>13, <2>2
       DEF RideJobStart, Continue, Crash, RequestEnqueue, AcceptEnqueue, PickDone, RefuseWrite,
           RefuseDone, DeclineLock, DeclineCommit, DeclineDone, RefusalDone, ExpireLock,
           ExpireCommit, ExpireDone, RideExpireLock, RideExpireDone, CancelDone, Abort
  <2> QED BY <2>1, <2>2
<1>14. CASE UNCHANGED vars
  BY <1>14 DEF vars
<1> QED BY <1>4, <1>5, <1>9, <1>10, <1>11, <1>12, <1>13, <1>14, NextSteps

\* Whatever the handlers, jobs, deadlocks and crashes, the ride implements
\* RideLifecycle: it moves along VALID_TRANSITIONS, gets its driver once and keeps it.
THEOREM PromiseKept == Spec => RideKeepsItsPromise
<1>1. Init => Lifecycle!LifecycleInit
  BY DEF Init, Lifecycle!LifecycleInit
<1> QED BY <1>1, LifecycleStep, Invariance, PTL DEF Spec, RideKeepsItsPromise, Lifecycle!LifecycleSpec
=============================================================================
