--------------------------- MODULE ScheduledRides ---------------------------
(***************************************************************************)
(* One scheduled ride, still without a driver, and the delayed jobs that   *)
(* are armed for it: expire-<ride>, five minutes after the request as for  *)
(* any ride, and schedule-<ride>, fifteen minutes before the time it is    *)
(* for, which arms expire-<ride> afresh if the ride is pending.  So does   *)
(* an offer's expiration when it puts the ride back into the market.       *)
(* BullMQ ignores an add while it holds a job of that id, be it one that   *)
(* has failed for good.  Time is a countdown in ticks.                     *)
(***************************************************************************)
EXTENDS Naturals

CONSTANTS ExpiryDelay,        \* five minutes
          RenewalDelay,       \* two minutes
          Delays,             \* how long before its activation a ride may be requested
          ExpiryAttempts,     \* attempts of the jobs, in config.jobs
          ActivationAttempts,
          MaxRenewals         \* bound: offer expirations at once on the way to their add

ASSUME ScheduleAssumption ==
    /\ ExpiryDelay \in Nat /\ RenewalDelay \in Nat /\ Delays \subseteq Nat
    /\ ExpiryAttempts \in Nat \ {0} /\ ActivationAttempts \in Nat \ {0}

VARIABLES booking,    \* the ride: "none", "pending", "offered", "taken" (picked or cancelled
                      \* by somebody) or "expired"
          expiry,     \* the job expire-<ride>
          activation, \* the job schedule-<ride>
          renewals,   \* offer expirations that put the ride back and have its job yet to arm
          activated   \* history: the drivers were told that the ride has become active

scheduleVars == <<booking, expiry, activation, renewals, activated>>

\* A job: never held; delayed by so many ticks; active; done or removed; failed for good
\* after so many attempts, and kept; and no longer kept.  An activation is also done when it
\* has passed over a ride that was not pending, or when its add of the expiration was lost.
Job == [at : {"none", "delayed", "active", "gone", "failed", "evicted", "passed", "unarmed"},
        left : Nat, tries : Nat]

Absent == [at |-> "none", left |-> 0, tries |-> 0]
Armed(n) == [at |-> "delayed", left |-> n, tries |-> 0]

\* queue.add with the job's id.
Add(job, n) == IF job.at \in {"delayed", "active", "failed"} THEN job ELSE Armed(n)

Due(job) == job.at = "delayed" /\ job.left = 0

\* An attempt fails: it is made again after a backoff, or the job is given up.
Retried(job, attempts) ==
    [at |-> IF job.tries + 1 < attempts THEN "delayed" ELSE "failed",
     left |-> 0, tries |-> job.tries + 1]

\* Still without a driver.
Unmatched == booking \in {"pending", "offered"}

ScheduleInit ==
    /\ booking = "none" /\ activated = FALSE /\ renewals = 0
    /\ expiry = Absent /\ activation = Absent

\* requestRide with scheduledAt; an activation time gone by means a delay of 0.  An add that
\* fails is only logged.
Book ==
    /\ booking = "none"
    /\ booking' = "pending"
    /\ expiry' \in {Absent, Armed(ExpiryDelay)}
    /\ \/ activation' = Absent
       \/ \E n \in Delays : activation' = Armed(n)
    /\ UNCHANGED <<renewals, activated>>

\* acceptRide, the first offer.
Offered ==
    /\ booking = "pending"
    /\ booking' = "offered"
    /\ UNCHANGED <<expiry, activation, renewals, activated>>

\* riderRefuseOffer, the last offer: no job is armed.
Refused ==
    /\ booking = "offered"
    /\ booking' = "pending"
    /\ UNCHANGED <<expiry, activation, renewals, activated>>

\* processOfferExpiration, the last offer, commits,
OfferLapses ==
    /\ booking = "offered" /\ renewals < MaxRenewals
    /\ booking' = "pending" /\ renewals' = renewals + 1
    /\ UNCHANGED <<expiry, activation, activated>>

\* and arms the ride's expiration, whatever has become of the ride; unless the add fails, or
\* the attempt did before: the next one finds the offer closed.
RenewExpiry ==
    /\ renewals > 0
    /\ renewals' = renewals - 1
    /\ expiry' \in {expiry, Add(expiry, RenewalDelay)}
    /\ UNCHANGED <<booking, activation, activated>>

\* pickDriver or cancelRide,
Taken ==
    /\ Unmatched
    /\ booking' = "taken"
    /\ UNCHANGED <<expiry, activation, renewals, activated>>

\* whose cancelRideExpiration is not awaited and removes a delayed job.  Nothing removes the
\* activation.
CancelExpiration ==
    /\ booking = "taken" /\ expiry.at = "delayed"
    /\ expiry' = [expiry EXCEPT !.at = "gone"]
    /\ UNCHANGED <<booking, activation, renewals, activated>>

\* processRideExpiration, as one step: the ride's row is locked.
Expires ==
    /\ Due(expiry)
    /\ expiry' = [expiry EXCEPT !.at = "gone"]
    /\ booking' = IF Unmatched THEN "expired" ELSE booking
    /\ UNCHANGED <<activation, renewals, activated>>

ExpiryFails ==
    /\ Due(expiry)
    /\ expiry' = Retried(expiry, ExpiryAttempts)
    /\ UNCHANGED <<booking, activation, renewals, activated>>

\* removeOnFail: 200 others have failed since.
FailedIsEvicted ==
    /\ expiry.at = "failed"
    /\ expiry' = [expiry EXCEPT !.at = "evicted"]
    /\ UNCHANGED <<booking, activation, renewals, activated>>

\* processScheduledRideActivation: the ride is read; if it is pending the drivers are told,
ActivationStarts ==
    /\ Due(activation)
    /\ IF booking = "pending"
       THEN activation' = [activation EXCEPT !.at = "active"] /\ activated' = TRUE
       ELSE activation' = [activation EXCEPT !.at = "passed"] /\ UNCHANGED activated
    /\ UNCHANGED <<booking, expiry, renewals>>

\* Mutant: the new expiration is left out.
ActivationEndsOpen ==
    /\ activation.at = "active"
    /\ activation' = [activation EXCEPT !.at = "gone"]
    /\ UNCHANGED <<booking, expiry, renewals, activated>>

\* and a fresh expiration is armed, whatever has become of the ride.
ActivationEnds ==
    /\ activation.at = "active"
    /\ \/ /\ expiry' = Add(expiry, ExpiryDelay)
          /\ activation' = [activation EXCEPT !.at = "gone"]
       \/ /\ activation' = [activation EXCEPT !.at = "unarmed"]
          /\ UNCHANGED expiry
    /\ UNCHANGED <<booking, renewals, activated>>

\* An attempt fails before that; if its worker died, it is not counted.
ActivationFails ==
    /\ Due(activation) \/ activation.at = "active"
    /\ activation' \in {Retried(activation, ActivationAttempts),
                        [activation EXCEPT !.at = "delayed", !.left = 0]}
    /\ UNCHANGED <<booking, expiry, renewals, activated>>

Sooner(job) ==
    IF job.at = "delayed" /\ job.left > 0 THEN [job EXCEPT !.left = @ - 1] ELSE job

\* One tick.  Jobs that are due are not kept waiting by it.
ScheduleTick ==
    /\ ~Due(expiry) /\ ~Due(activation)
    /\ \E job \in {expiry, activation} : job.at = "delayed"
    /\ expiry' = Sooner(expiry) /\ activation' = Sooner(activation)
    /\ UNCHANGED <<booking, renewals, activated>>

ScheduleNext ==
    \/ Book \/ Offered \/ Refused \/ OfferLapses \/ RenewExpiry
    \/ Taken \/ CancelExpiration \/ Expires \/ ExpiryFails \/ FailedIsEvicted
    \/ ActivationStarts \/ ActivationEnds \/ ActivationFails
    \/ ScheduleTick

ScheduleSpec == ScheduleInit /\ [][ScheduleNext]_scheduleVars

-----------------------------------------------------------------------------
(* Properties *)

\* The ride and its jobs keep their types.
ScheduleTypeOK ==
    /\ booking \in {"none", "pending", "offered", "taken", "expired"}
    /\ expiry \in Job /\ activation \in Job
    /\ renewals \in Nat /\ activated \in BOOLEAN

\* A scheduled ride that nobody takes does not stay open.  While it has no driver an
\* expiration is armed; or the last one armed has been tried as often as it may be, in vain;
\* or none was ever armed, the add at its request having failed and no other having worked,
\* and then the activation is still to come, or it was lost or given up itself, or passed
\* over the ride because it was not pending, or lost its add too.
BookingWillExpire ==
    Unmatched =>
        \/ expiry.at = "delayed"
        \/ expiry.at \in {"failed", "evicted"} /\ expiry.tries = ExpiryAttempts
        \/ expiry.at = "none" /\ activation.at # "gone"

\* Claim of roadmap.md:1016, "Delayed job (15 min before scheduledAt), notifies nearby
\* drivers, enqueues fresh expiration": a scheduled ride does not expire unactivated.
ActivatedBeforeExpiry == booking = "expired" => activated
=============================================================================
