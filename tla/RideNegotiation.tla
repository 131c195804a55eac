--------------------------- MODULE RideNegotiation ---------------------------
(***************************************************************************)
(* One ride from its request to its end: the offers drivers make on it,    *)
(* the rider's choice among them, refusals, expirations and cancellation.  *)
(* HTTP handlers and BullMQ workers run concurrently and meet in           *)
(* PostgreSQL; each is a handler slot that takes one step per group of     *)
(* statements no other handler can come between.                           *)
(*                                                                         *)
(* Transactions are READ COMMITTED: a plain SELECT sees the committed rows *)
(* and takes no lock, an UPDATE or SELECT ... FOR UPDATE waits for the row *)
(* lock.  What a transaction has written becomes visible in the step that  *)
(* commits it, and a lock is held exactly while the handler stands at a    *)
(* step between acquiring it and committing (HoldsRide, HoldsOffer).       *)
(***************************************************************************)
EXTENDS Naturals, RideStateMachine

CONSTANTS Drivers,      \* drivers who may make offers
          Offers,       \* identities of offer rows; each is inserted at most once
          Requests,     \* slots for HTTP requests being served
          Workers,      \* slots for BullMQ jobs being processed
          NoDriver,     \* driver_id IS NULL
          NoOffer,      \* no offer
          MaxAttempts,  \* attempts of the expiration queues in config.jobs
          MaxCrashes    \* bound: handlers that die half-way

ASSUME NullsAssumption == NoDriver \notin Drivers /\ NoOffer \notin Offers
ASSUME AttemptsAssumption == MaxAttempts \in Nat \ {0}
ASSUME CrashesAssumption == MaxCrashes \in Nat

VARIABLES
    ride,       \* the rides row
    offers,     \* the ride_offers rows
    rideJob,    \* job expire-<ride> of the ride-expiration queue
    offerJob,   \* jobs offer-expire-<offer> of the offer-expiration queue
    announced,  \* has ride:cancelled been emitted?
    proc,       \* the handler in each slot and where it stands
    picked,     \* history: the offer whose pickDriver committed
    crashes     \* number of handlers that died so far

vars == <<ride, offers, rideJob, offerJob, announced, proc, picked, crashes>>

Handlers == Requests \cup Workers

-----------------------------------------------------------------------------
(* Rows, jobs and handlers *)

CancelSource == {"nobody", "rider", "driver", "system"}

\* settled: what completeRide charges for: the accepted offer's fare or the
\* system's calculated fare.
RideRow == [ status      : RideStatus,
             driver      : Drivers \cup {NoDriver},
             settled     : Offers \cup {"unsettled", "calculated"},
             cancelledBy : CancelSource ]

OfferRow == [status : OfferStatus, driver : Drivers \cup {NoDriver}]

\* A BullMQ job by the state its hash is in; "absent" when there is none.
Job == [state : {"absent", "delayed", "waiting", "active", "failed"},
        tries : 0..MaxAttempts]

NoJob == [state |-> "absent", tries |-> 0]

\* Where a handler stands, named <handler>_<what it does next>.
RideExpirationSteps == {"rexp_lock", "rexp_write", "rexp_done"}
OfferExpirationSteps == {"expire_lock", "expire_commit", "expire_revert", "expire_done"}
RequestSteps ==
    {"request_enqueue", "accept_enqueue", "pick_write", "pick_done",
     "refuse_write", "refuse_done", "decline_lock", "decline_commit",
     "decline_revert", "decline_done", "cancel_done"}
Steps == {"idle"} \cup RequestSteps \cup OfferExpirationSteps \cup RideExpirationSteps

\* offer: the offer the handler works on; others: the offers a pick rejected;
\* flag: what was read or done earlier and is used later.
Handler == [ at     : Steps,
             offer  : Offers \cup {NoOffer},
             others : SUBSET Offers,
             flag   : BOOLEAN ]

Idle == [at |-> "idle", offer |-> NoOffer, others |-> {}, flag |-> FALSE]

TypeOK ==
    /\ ride \in RideRow
    /\ offers \in [Offers -> OfferRow]
    /\ rideJob \in Job
    /\ offerJob \in [Offers -> Job]
    /\ announced \in BOOLEAN
    /\ proc \in [Handlers -> Handler]
    /\ picked \in Offers \cup {NoOffer}
    /\ crashes \in 0..MaxCrashes

Init ==
    /\ ride = [ status |-> "none", driver |-> NoDriver, settled |-> "unsettled",
                cancelledBy |-> "nobody" ]
    /\ offers = [o \in Offers |-> [status |-> "none", driver |-> NoDriver]]
    /\ rideJob = NoJob
    /\ offerJob = [o \in Offers |-> NoJob]
    /\ announced = FALSE
    /\ proc = [p \in Handlers |-> Idle]
    /\ picked = NoOffer
    /\ crashes = 0

PendingOffers == {o \in Offers : offers[o].status = "pending"}

-----------------------------------------------------------------------------
(* Row locks *)

\* The transaction at p holds the lock of the ride row, or of its offer's row.
HoldsRide(p) == proc[p].at \in {"pick_write", "rexp_write"}
HoldsOffer(p) ==
    proc[p].at \in {"decline_commit", "decline_revert", "expire_commit", "expire_revert"}

RideFree == \A p \in Handlers : ~HoldsRide(p)
OfferFree(o) == \A p \in Handlers : ~(HoldsOffer(p) /\ proc[p].offer = o)

\* The offer rows the transaction at p, which holds the ride, is about to update.
RowsWanted(p) ==
    PendingOffers \cup (IF proc[p].at = "pick_write" THEN {proc[p].offer} ELSE {})

\* p holds the ride and waits for the offer q holds, q waits for the ride.
LockCycle(p, q) ==
    /\ HoldsRide(p)
    /\ proc[q].at \in {"decline_revert", "expire_revert"}
    /\ proc[q].offer \in RowsWanted(p)

-----------------------------------------------------------------------------
(* Handler control and the queues *)

Begin(p, step, o, b) ==
    proc' = [proc EXCEPT ![p] = [at |-> step, offer |-> o, others |-> {}, flag |-> b]]
Advance(p, step) == proc' = [proc EXCEPT ![p] = [@ EXCEPT !.at = step]]
Finish(p) == proc' = [proc EXCEPT ![p] = Idle]

\* queue.add with a jobId: nothing happens while a job of that id exists, in
\* whatever state; failed jobs are kept (removeOnFail: 200).
Enqueued(job) == IF job.state = "absent" THEN [state |-> "delayed", tries |-> 0] ELSE job

\* cancelRideExpiration, cancelOfferExpiration: only a delayed job is removed.
Cancelled(job) == IF job.state = "delayed" THEN NoJob ELSE job

\* A worker may take a job whose delay is over or that was put back.
Runnable(job) == job.state \in {"delayed", "waiting"}
Started(job) == [job EXCEPT !.state = "active"]

\* A failed attempt is retried after a backoff until the attempts are used up.
AttemptFailed(job) ==
    IF job.tries + 1 < MaxAttempts
    THEN [state |-> "delayed", tries |-> job.tries + 1]
    ELSE [state |-> "failed", tries |-> MaxAttempts]

SetOffer(o, status) == offers' = [offers EXCEPT ![o] = [@ EXCEPT !.status = status]]
SetRide(status) == ride' = [ride EXCEPT !.status = status]

-----------------------------------------------------------------------------
(* requestRide *)

\* Ride.create, then the request to drivers; the expiration is enqueued without
\* being awaited.
RequestRide(p) ==
    /\ proc[p].at = "idle"
    /\ ride.status = "none"
    /\ SetRide("pending")
    /\ Begin(p, "request_enqueue", NoOffer, FALSE)
    /\ UNCHANGED <<offers, rideJob, offerJob, announced, picked, crashes>>

RequestEnqueue(p) ==
    /\ proc[p].at = "request_enqueue"
    /\ rideJob' = Enqueued(rideJob)
    /\ Finish(p)
    /\ UNCHANGED <<ride, offers, offerJob, announced, picked, crashes>>

-----------------------------------------------------------------------------
(* acceptRide: driver d makes an offer *)

\* Mutant: the ride's status is not looked at.
MayOfferOnAnyStatus(d) == \A o \in PendingOffers : offers[o].driver # d

\* Mutant: the driver's other offers are not looked at.
MayOfferAgain(d) == ride.status \in OpenStatus

\* What the transaction finds once it holds the ride: the ride is open and the
\* driver has no pending offer on it.
MayOffer(d) ==
    /\ ride.status \in OpenStatus
    /\ \A o \in PendingOffers : offers[o].driver # d

\* The reads before the transaction are of columns that never change (fare,
\* service type) and of the cooldown key: it may have lapsed whenever it is looked up, and
\* when it has not is the subject of OfferCooldown.
\* The transaction holds the ride's lock only, so nobody comes between its steps.
AcceptRide(p, d) ==
    /\ proc[p].at = "idle"
    /\ RideFree
    /\ MayOffer(d)
    /\ \E o \in Offers :
        /\ offers[o].status = "none"
        /\ offers' = [offers EXCEPT ![o] = [status |-> "pending", driver |-> d]]
        /\ Begin(p, "accept_enqueue", o, FALSE)
    /\ SetRide(IF ride.status = "pending" THEN "offered" ELSE ride.status)
    /\ UNCHANGED <<rideJob, offerJob, announced, picked, crashes>>

AcceptEnqueue(p) ==
    /\ proc[p].at = "accept_enqueue"
    /\ offerJob' = [offerJob EXCEPT ![proc[p].offer] = Enqueued(@)]
    /\ Finish(p)
    /\ UNCHANGED <<ride, offers, rideJob, announced, picked, crashes>>

-----------------------------------------------------------------------------
(* pickDriver: the rider takes offer o *)

\* Mutant: the ride is read without FOR UPDATE.
PickWithoutLock(p, o) ==
    /\ proc[p].at = "idle"
    /\ CanTransition(ride.status, "accepted")
    /\ offers[o].status = "pending"
    /\ Begin(p, "pick_write", o, FALSE)
    /\ UNCHANGED <<ride, offers, rideJob, offerJob, announced, picked, crashes>>

\* Locks the ride, validates the transition, reads the offer without a lock.
PickLock(p, o) ==
    /\ proc[p].at = "idle"
    /\ RideFree
    /\ CanTransition(ride.status, "accepted")
    /\ offers[o].status = "pending"
    /\ Begin(p, "pick_write", o, FALSE)
    /\ UNCHANGED <<ride, offers, rideJob, offerJob, announced, picked, crashes>>

\* offer.save() updates the row by its id, whatever its status is by now; the
\* other offers that are still pending are rejected; the ride gets its driver.
PickWrite(p) ==
    LET chosen == proc[p].offer
        losers == PendingOffers \ {chosen}
    IN  /\ proc[p].at = "pick_write"
        /\ \A o \in RowsWanted(p) : OfferFree(o)
        /\ offers' = [o \in Offers |->
                        CASE o = chosen    -> [offers[o] EXCEPT !.status = "accepted"]
                          [] o \in losers  -> [offers[o] EXCEPT !.status = "rejected"]
                          [] OTHER         -> offers[o]]
        /\ ride' = [ride EXCEPT !.status = "accepted", !.driver = offers[chosen].driver]
        /\ picked' = chosen
        /\ proc' = [proc EXCEPT ![p] = [@ EXCEPT !.at = "pick_done", !.others = losers]]
        /\ UNCHANGED <<rideJob, offerJob, announced, crashes>>

PickDone(p) ==
    /\ proc[p].at = "pick_done"
    /\ rideJob' = Cancelled(rideJob)
    /\ offerJob' = [o \in Offers |-> IF o \in {proc[p].offer} \cup proc[p].others
                                     THEN Cancelled(offerJob[o]) ELSE offerJob[o]]
    /\ Finish(p)
    /\ UNCHANGED <<ride, offers, announced, picked, crashes>>

-----------------------------------------------------------------------------
(* refuseRide: a driver withdraws its pending offer *)

\* Reads the driver's pending offer without a lock.
RefuseRead(p, o) ==
    /\ proc[p].at = "idle"
    /\ offers[o].status = "pending"
    /\ Begin(p, "refuse_write", o, FALSE)
    /\ UNCHANGED <<ride, offers, rideJob, offerJob, announced, picked, crashes>>

\* offer.save() by id; waits for the rows a pick or an expiration is updating.
RefuseWrite(p) ==
    /\ proc[p].at = "refuse_write"
    /\ OfferFree(proc[p].offer)
    /\ SetOffer(proc[p].offer, "rejected")
    /\ Advance(p, "refuse_done")
    /\ UNCHANGED <<ride, rideJob, offerJob, announced, picked, crashes>>

\* refuseRide and riderRefuseOffer end alike: the offer's job is cancelled.
RefusalDone(p, step) ==
    /\ proc[p].at = step
    /\ offerJob' = [offerJob EXCEPT ![proc[p].offer] = Cancelled(@)]
    /\ Finish(p)
    /\ UNCHANGED <<ride, offers, rideJob, announced, picked, crashes>>

RefuseDone(p) == RefusalDone(p, "refuse_done")

-----------------------------------------------------------------------------
(* riderRefuseOffer: the rider turns offer o down *)

\* Reads the ride's status without a lock.  (An offer that is not pending now is
\* never pending again, so such a request only fails later.)
DeclineRead(p, o) ==
    /\ proc[p].at = "idle"
    /\ offers[o].status = "pending"
    /\ Begin(p, "decline_lock", o, ride.status = "offered")
    /\ UNCHANGED <<ride, offers, rideJob, offerJob, announced, picked, crashes>>

\* Locks the offer, still pending, and counts the other pending ones: those
\* whose transactions have not committed count as they were before.
DeclineLock(p) ==
    LET o == proc[p].offer
        last == PendingOffers = {o} /\ proc[p].flag
    IN  /\ proc[p].at = "decline_lock"
        /\ OfferFree(o)
        /\ IF o \in PendingOffers
           THEN Advance(p, IF last THEN "decline_revert" ELSE "decline_commit")
           ELSE Finish(p)
        /\ UNCHANGED <<ride, offers, rideJob, offerJob, announced, picked, crashes>>

DeclineCommit(p) ==
    /\ proc[p].at = "decline_commit"
    /\ SetOffer(proc[p].offer, "rejected")
    /\ Advance(p, "decline_done")
    /\ UNCHANGED <<ride, rideJob, offerJob, announced, picked, crashes>>

\* Locks the ride; validateTransition throws, and all is rolled back, if the
\* ride is no longer Offered.
DeclineRevert(p) ==
    /\ proc[p].at = "decline_revert"
    /\ RideFree
    /\ IF CanTransition(ride.status, "pending")
       THEN /\ SetOffer(proc[p].offer, "rejected")
            /\ SetRide("pending")
            /\ Advance(p, "decline_done")
       ELSE /\ Finish(p)
            /\ UNCHANGED <<ride, offers>>
    /\ UNCHANGED <<rideJob, offerJob, announced, picked, crashes>>

DeclineDone(p) == RefusalDone(p, "decline_done")

-----------------------------------------------------------------------------
(* processOfferExpiration *)

\* Mutant: the job looks at the ride instead of the offer.
OfferJobStartOnOffered(p, o) ==
    /\ proc[p].at = "idle"
    /\ Runnable(offerJob[o])
    /\ IF offers[o].status = "pending" /\ ride.status = "offered"
       THEN /\ offerJob' = [offerJob EXCEPT ![o] = Started(@)]
            /\ Begin(p, "expire_lock", o, FALSE)
       ELSE /\ offerJob' = [offerJob EXCEPT ![o] = NoJob]
            /\ UNCHANGED proc
    /\ UNCHANGED <<ride, offers, rideJob, announced, picked, crashes>>

\* A worker takes the job; reading the offer without a lock, it completes at
\* once if the offer is no longer pending.
OfferJobStart(p, o) ==
    /\ proc[p].at = "idle"
    /\ Runnable(offerJob[o])
    /\ IF offers[o].status = "pending"
       THEN /\ offerJob' = [offerJob EXCEPT ![o] = Started(@)]
            /\ Begin(p, "expire_lock", o, FALSE)
       ELSE /\ offerJob' = [offerJob EXCEPT ![o] = NoJob]
            /\ UNCHANGED proc
    /\ UNCHANGED <<ride, offers, rideJob, announced, picked, crashes>>

\* Locks the offer, reads it again and counts the other pending ones.  If it is
\* no longer pending the transaction ends early; what follows it does not.
ExpireLock(p) ==
    LET o == proc[p].offer
    IN  /\ proc[p].at = "expire_lock"
        /\ OfferFree(o)
        /\ Advance(p, IF o \notin PendingOffers THEN "expire_done"
                      ELSE IF PendingOffers = {o} THEN "expire_revert"
                      ELSE "expire_commit")
        /\ UNCHANGED <<ride, offers, rideJob, offerJob, announced, picked, crashes>>

ExpireCommit(p) ==
    /\ proc[p].at = "expire_commit"
    /\ SetOffer(proc[p].offer, "expired")
    /\ Advance(p, "expire_done")
    /\ UNCHANGED <<ride, rideJob, offerJob, announced, picked, crashes>>

\* No other offer was pending when counted: locks the ride and reverts it if it
\* is Offered by then; flag records that it did.
ExpireRevert(p) ==
    LET reverts == ride.status = "offered"
    IN  /\ proc[p].at = "expire_revert"
        /\ RideFree
        /\ SetOffer(proc[p].offer, "expired")
        /\ ride' = IF reverts THEN [ride EXCEPT !.status = "pending"] ELSE ride
        /\ proc' = [proc EXCEPT ![p] = [@ EXCEPT !.at = "expire_done", !.flag = reverts]]
        /\ UNCHANGED <<rideJob, offerJob, announced, picked, crashes>>

\* After the transaction: for a reverted ride a secondary expiration is enqueued.
ExpireDone(p) ==
    LET o == proc[p].offer
    IN  /\ proc[p].at = "expire_done"
        /\ rideJob' = IF proc[p].flag THEN Enqueued(rideJob) ELSE rideJob
        /\ offerJob' = [offerJob EXCEPT ![o] = NoJob]
        /\ Finish(p)
        /\ UNCHANGED <<ride, offers, announced, picked, crashes>>

-----------------------------------------------------------------------------
(* processRideExpiration *)

\* Mutant: only Pending rides are expired, Offered ones count as transitioned.
RideJobStartOnPending(p) ==
    /\ proc[p].at = "idle"
    /\ Runnable(rideJob)
    /\ IF ride.status = "pending"
       THEN /\ rideJob' = Started(rideJob)
            /\ Begin(p, "rexp_lock", NoOffer, FALSE)
       ELSE /\ rideJob' = NoJob
            /\ UNCHANGED proc
    /\ UNCHANGED <<ride, offers, offerJob, announced, picked, crashes>>

RideJobStart(p) ==
    /\ proc[p].at = "idle"
    /\ Runnable(rideJob)
    /\ IF ride.status \in OpenStatus
       THEN /\ rideJob' = Started(rideJob)
            /\ Begin(p, "rexp_lock", NoOffer, FALSE)
       ELSE /\ rideJob' = NoJob
            /\ UNCHANGED proc
    /\ UNCHANGED <<ride, offers, offerJob, announced, picked, crashes>>

\* Mutant: the status read before the transaction is trusted.
RideExpireLockTrusting(p) ==
    /\ proc[p].at = "rexp_lock"
    /\ RideFree
    /\ Advance(p, "rexp_write")
    /\ UNCHANGED <<ride, offers, rideJob, offerJob, announced, picked, crashes>>

\* Mutant: a locked ride is skipped instead of waited for.
RideExpireSkipLocked(p) ==
    /\ proc[p].at = "rexp_lock"
    /\ Advance(p, IF RideFree /\ ride.status \in OpenStatus THEN "rexp_write" ELSE "rexp_done")
    /\ UNCHANGED <<ride, offers, rideJob, offerJob, announced, picked, crashes>>

\* Locks the ride and reads it again: the transaction ends early if it is closed.
RideExpireLock(p) ==
    /\ proc[p].at = "rexp_lock"
    /\ RideFree
    /\ Advance(p, IF ride.status \in OpenStatus THEN "rexp_write" ELSE "rexp_done")
    /\ UNCHANGED <<ride, offers, rideJob, offerJob, announced, picked, crashes>>

\* Cancels the ride and expires every pending offer, once their rows are free.
RideExpireWrite(p) ==
    /\ proc[p].at = "rexp_write"
    /\ \A o \in RowsWanted(p) : OfferFree(o)
    /\ ride' = [ride EXCEPT !.status = "cancelled", !.cancelledBy = "system"]
    /\ offers' = [o \in Offers |-> IF o \in PendingOffers
                                   THEN [offers[o] EXCEPT !.status = "expired"]
                                   ELSE offers[o]]
    /\ Advance(p, "rexp_done")
    /\ UNCHANGED <<rideJob, offerJob, announced, picked, crashes>>

\* ride:cancelled is emitted after the transaction, however it ended.
RideExpireDone(p) ==
    /\ proc[p].at = "rexp_done"
    /\ announced' = TRUE
    /\ rideJob' = NoJob
    /\ Finish(p)
    /\ UNCHANGED <<ride, offers, offerJob, picked, crashes>>

-----------------------------------------------------------------------------
(* The picked driver's actions and cancellation: one lock, one transaction *)

StartRide ==
    /\ RideFree
    /\ CanTransition(ride.status, "in_progress")
    /\ SetRide("in_progress")
    /\ UNCHANGED <<offers, rideJob, offerJob, announced, proc, picked, crashes>>

\* Charges the accepted offer's fare if it finds one, else the calculated fare.
\* (A missing, suspended or unpayable wallet makes it throw: nothing changes.)
CompleteRide ==
    LET accepted == {o \in Offers : offers[o].status = "accepted"}
    IN  /\ RideFree
        /\ CanTransition(ride.status, "completed")
        /\ \E fare \in (IF accepted = {} THEN {"calculated"} ELSE accepted) :
              ride' = [ride EXCEPT !.status = "completed", !.settled = fare]
        /\ UNCHANGED <<offers, rideJob, offerJob, announced, proc, picked, crashes>>

\* Mutant: the id of the user who cancels is stored instead of the role.
CancelRideStoresId(p, who) ==
    /\ proc[p].at = "idle"
    /\ RideFree
    /\ who = "driver" => ride.driver # NoDriver
    /\ CanTransition(ride.status, "cancelled")
    /\ ride' = [ride EXCEPT !.status = "cancelled",
                            !.cancelledBy = IF who = "driver" THEN ride.driver ELSE who]
    /\ Begin(p, "cancel_done", NoOffer, FALSE)
    /\ UNCHANGED <<offers, rideJob, offerJob, announced, picked, crashes>>

\* The rider, or the driver once there is one; pending offers are left alone.
CancelRide(p, who) ==
    /\ proc[p].at = "idle"
    /\ RideFree
    /\ who = "driver" => ride.driver # NoDriver
    /\ CanTransition(ride.status, "cancelled")
    /\ ride' = [ride EXCEPT !.status = "cancelled", !.cancelledBy = who]
    /\ Begin(p, "cancel_done", NoOffer, FALSE)
    /\ UNCHANGED <<offers, rideJob, offerJob, announced, picked, crashes>>

CancelDone(p) ==
    /\ proc[p].at = "cancel_done"
    /\ rideJob' = Cancelled(rideJob)
    /\ announced' = TRUE
    /\ Finish(p)
    /\ UNCHANGED <<ride, offers, offerJob, picked, crashes>>

-----------------------------------------------------------------------------
(* Time, deadlocks and crashes *)

\* PostgreSQL breaks a cycle of two transactions by aborting either: a request
\* answers 500, a job's attempt fails.
Abort(p) ==
    /\ \E q \in Handlers : LockCycle(p, q) \/ LockCycle(q, p)
    /\ offerJob' = IF proc[p].at \in OfferExpirationSteps
                   THEN [offerJob EXCEPT ![proc[p].offer] = AttemptFailed(@)]
                   ELSE offerJob
    /\ rideJob' = IF proc[p].at \in RideExpirationSteps THEN AttemptFailed(rideJob) ELSE rideJob
    /\ Finish(p)
    /\ UNCHANGED <<ride, offers, announced, picked, crashes>>

\* The process dies: its open transaction is rolled back, what it had still to do
\* is lost, and a stalled job is put back for another worker.  (A swallowed error
\* of a fire-and-forget enqueue loses no more than this does, nor does acceptRide's
\* read of the driver's profile when it fails after the commit.)
Crash(p) ==
    /\ crashes < MaxCrashes
    /\ proc[p].at # "idle"
    /\ crashes' = crashes + 1
    /\ offerJob' = IF proc[p].at \in OfferExpirationSteps
                   THEN [offerJob EXCEPT ![proc[p].offer].state = "waiting"]
                   ELSE offerJob
    /\ rideJob' = IF proc[p].at \in RideExpirationSteps
                  THEN [rideJob EXCEPT !.state = "waiting"] ELSE rideJob
    /\ Finish(p)
    /\ UNCHANGED <<ride, offers, announced, picked>>

-----------------------------------------------------------------------------
(* The specification *)

\* A client sends a request that a free slot takes up.
Arrive(p) ==
    \/ RequestRide(p)
    \/ \E d \in Drivers : AcceptRide(p, d)
    \/ \E o \in Offers : PickLock(p, o) \/ RefuseRead(p, o) \/ DeclineRead(p, o)
    \/ \E who \in {"rider", "driver"} : CancelRide(p, who)

\* A free worker takes up a job.
TakeOfferJob(o) == \E p \in Workers : OfferJobStart(p, o)
TakeRideJob == \E p \in Workers : RideJobStart(p)

\* The handler in slot p goes on.
Continue(p) ==
    \/ RequestEnqueue(p)
    \/ AcceptEnqueue(p)
    \/ PickWrite(p) \/ PickDone(p)
    \/ RefuseWrite(p) \/ RefuseDone(p)
    \/ DeclineLock(p) \/ DeclineCommit(p) \/ DeclineRevert(p) \/ DeclineDone(p)
    \/ ExpireLock(p) \/ ExpireCommit(p) \/ ExpireRevert(p) \/ ExpireDone(p)
    \/ RideExpireLock(p) \/ RideExpireWrite(p) \/ RideExpireDone(p)
    \/ CancelDone(p)
    \/ Abort(p)

DriverActs == StartRide \/ CompleteRide

\* The ride is over and nothing is left to do: the one state the system may rest in.
Over ==
    /\ ride.status \in {"completed", "cancelled"}
    /\ \A p \in Handlers : proc[p].at = "idle"
    /\ UNCHANGED vars

Next ==
    \/ \E p \in Requests : Arrive(p)
    \/ \E o \in Offers : TakeOfferJob(o)
    \/ TakeRideJob
    \/ \E p \in Handlers : Continue(p) \/ Crash(p)
    \/ DriverActs
    \/ Over

Spec == Init /\ [][Next]_vars

\* Handlers and workers run on: a waiting row lock is queued by PostgreSQL and so
\* granted in the end (strong fairness); a due job is taken by an idle worker.
\* Nobody is obliged to send a request.
Fairness ==
    /\ \A p \in Handlers : SF_vars(Continue(p))
    /\ \A o \in Offers : WF_vars(TakeOfferJob(o))
    /\ WF_vars(TakeRideJob)

FairSpec == Spec /\ Fairness

-----------------------------------------------------------------------------
(* Safety *)

\* Only the offer the rider picked is ever accepted, and its driver is the ride's
\* driver: two picks, or a pick racing an expiration, never leave two winners
\* (pickDriver's validateTransition under the ride lock).
AcceptedOfferIsThePick ==
    \A o \in Offers : offers[o].status = "accepted" =>
        o = picked /\ ride.driver = offers[o].driver

\* Once a driver is picked no offer on the ride is open: neither one made while
\* pickDriver was at work nor one an aborted expiration left behind.
MatchedRideHasNoPendingOffer == ride.status \in MatchedStatus => PendingOffers = {}

\* A driver has at most one pending offer on a ride: acceptRide's check under the
\* ride lock is enough, without the partial unique index behind it.
OnePendingOfferPerDriver ==
    \A o1, o2 \in PendingOffers : offers[o1].driver = offers[o2].driver => o1 = o2

\* processRideExpiration never cancels a ride a driver was picked for, however its
\* unlocked first read and the pick interleave.
SystemCancelsOnlyUnmatched == ride.cancelledBy = "system" => ride.driver = NoDriver

\* Every attempt of the job has failed; it is kept, and never run again.
GivenUp(job) == job.state = "failed" /\ job.tries = MaxAttempts

\* As long as no handler died half-way, a ride in the market has an expiration job
\* that a worker may take, or has taken and not done with, unless all the attempts it
\* is allowed have failed: pickDriver's and cancelRide's late cancelRideExpiration
\* never removes the job of a ride that is back in the market.
OpenRideHasExpirationJob ==
    crashes = 0 /\ ride.status \in OpenStatus =>
        \/ Runnable(rideJob) \/ GivenUp(rideJob)
        \/ \E p \in Handlers : proc[p].at \in {"request_enqueue", "rexp_lock", "rexp_write"}

\* The same for a pending offer and the job that expires it.
PendingOfferHasExpirationJob ==
    crashes = 0 => \A o \in PendingOffers :
        \/ Runnable(offerJob[o]) \/ GivenUp(offerJob[o])
        \/ \E p \in Handlers :
              /\ proc[p].offer = o
              /\ proc[p].at \in {"accept_enqueue", "expire_lock", "expire_commit", "expire_revert"}

\* Once ride:cancelled has been emitted the ride is never in the market again,
\* although processRideExpiration emits it even if its transaction did nothing.
AnnouncedIsOver == announced => ride.status \notin OpenStatus \cup {"none"}

-----------------------------------------------------------------------------
(* The ride's promise *)

Lifecycle == INSTANCE RideLifecycle WITH
    status <- ride.status, driver <- ride.driver, cancelledBy <- ride.cancelledBy

\* Through all of this the ride itself moves along VALID_TRANSITIONS, gets its
\* driver once, and keeps it.
RideKeepsItsPromise == Lifecycle!LifecycleSpec

-----------------------------------------------------------------------------
(* Liveness, under FairSpec *)

\* A ride leaves the market: it is matched or cancelled in the end, unless every
\* attempt of its expiration job was the victim of a deadlock.
RideLeavesMarket ==
    (crashes = 0 /\ ride.status \in OpenStatus)
        ~> (ride.status \notin OpenStatus \/ rideJob.state = "failed")

\* So does every offer: nobody waits for the answer to an offer for ever.
OfferSettles ==
    \A o \in Offers :
        (crashes = 0 /\ o \in PendingOffers) ~> (o \notin PendingOffers \/ offerJob[o].state = "failed")

-----------------------------------------------------------------------------
(* What the code says of itself and does not keep *)

\* "Check if this was the last pending offer for the ride": a ride goes back to
\* Pending only when no offer on it is pending (offerExpirationWorker).
PendingRideHasNoOffer == ride.status = "pending" => PendingOffers = {}

\* "Use the accepted offer's offeredFare as the final fare (negotiated price)":
\* a completed ride is charged the offer the rider picked (completeRide).
NegotiatedFareIsCharged == ride.status = "completed" => ride.settled = picked
=============================================================================
