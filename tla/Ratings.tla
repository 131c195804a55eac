------------------------------ MODULE Ratings -------------------------------
(***************************************************************************)
(* The ratings of one driver and the rating of his profile, which a job    *)
(* recalculates from all of them.  The job's id is the driver's: as long   *)
(* as BullMQ holds a job of that id, delayed, active or failed for good,   *)
(* adding another does nothing.                                            *)
(*                                                                         *)
(* An average stands for the set of ratings it was taken over.             *)
(***************************************************************************)
EXTENDS Naturals

CONSTANTS RatedRides,         \* completed rides of the driver that may be rated
          RatingAttempts      \* config.jobs.ratingRecalculation.attempts

ASSUME RatingsAssumption == RatingAttempts \in Nat \ {0}

VARIABLES rated,     \* ratings committed
          toEnqueue, \* requests that have committed and not yet called queue.add
          average,   \* the ratings in the profile's rating
          job,       \* the job rating-<driver>: where it stands, attempts made, what it read
          dropped    \* history: an add was dropped by a job that had read already, or
                     \* had failed for good; or it failed, or its request died

ratingVars == <<rated, toEnqueue, average, job, dropped>>

JobStages == {"none", "delayed", "reading", "writing", "failed"}

NoJob == [at |-> "none", attempts |-> 0, read |-> {}]

-----------------------------------------------------------------------------
RatingInit ==
    /\ rated = {} /\ toEnqueue = {} /\ average = {}
    /\ job = NoJob
    /\ dropped = FALSE

\* submitRating: one rating for a ride.  (Of two at once, the database's unique ride_id
\* lets one pass.)
Submit(r) ==
    /\ r \notin rated
    /\ rated' = rated \cup {r}
    /\ toEnqueue' = toEnqueue \cup {r}
    /\ UNCHANGED <<average, job, dropped>>

\* enqueueRatingRecalculation, which nobody awaits and which swallows its errors.
Enqueue(r) ==
    /\ r \in toEnqueue
    /\ toEnqueue' = toEnqueue \ {r}
    /\ \/ IF job.at = "none"
          THEN job' = [NoJob EXCEPT !.at = "delayed"] /\ UNCHANGED dropped
          ELSE UNCHANGED job /\ dropped' = (dropped \/ job.at \in {"writing", "failed"})
       \/ UNCHANGED job /\ dropped' = TRUE
    /\ UNCHANGED <<rated, average>>

\* The delay is over, for a first attempt or another one.
StartJob ==
    /\ job.at = "delayed"
    /\ job' = [job EXCEPT !.at = "reading"]
    /\ UNCHANGED <<rated, toEnqueue, average, dropped>>

\* processRatingRecalculation: the average is read,
ReadAverage ==
    /\ job.at = "reading"
    /\ job' = [job EXCEPT !.at = "writing", !.read = rated]
    /\ UNCHANGED <<rated, toEnqueue, average, dropped>>

\* and saved in the profile; the job is complete and gone.
WriteAverage ==
    /\ job.at = "writing"
    /\ average' = job.read
    /\ job' = NoJob
    /\ UNCHANGED <<rated, toEnqueue, dropped>>

\* Mutant: attempts are not counted.
JobFailsUncounted ==
    /\ job.at \in {"reading", "writing"}
    /\ job' = [job EXCEPT !.at = "delayed", !.read = {}]
    /\ UNCHANGED <<rated, toEnqueue, average, dropped>>

\* Mutant: one attempt more than there are.
JobFailsOnceMore ==
    /\ job.at \in {"reading", "writing"}
    /\ job' = [job EXCEPT !.at = IF job.attempts < RatingAttempts THEN "delayed" ELSE "failed",
                          !.attempts = @ + 1, !.read = {}]
    /\ dropped' = (dropped \/ job.attempts = RatingAttempts)
    /\ UNCHANGED <<rated, toEnqueue, average>>

\* An attempt fails, or its worker dies: the job is tried again, or kept as failed, with
\* its id.
JobFails ==
    /\ job.at \in {"reading", "writing"}
    /\ job' = [job EXCEPT !.at = IF job.attempts + 1 < RatingAttempts THEN "delayed" ELSE "failed",
                          !.attempts = @ + 1, !.read = {}]
    /\ dropped' = (dropped \/ job.attempts + 1 = RatingAttempts)
    /\ UNCHANGED <<rated, toEnqueue, average>>

\* removeOnFail: newer failures of other drivers push the failed job out.
Evict ==
    /\ job.at = "failed"
    /\ job' = NoJob
    /\ UNCHANGED <<rated, toEnqueue, average, dropped>>

RatingNext ==
    \/ \E r \in RatedRides : Submit(r) \/ Enqueue(r)
    \/ StartJob \/ ReadAverage \/ WriteAverage \/ JobFails \/ Evict

\* Requests and the worker go on; attempts may fail, but not for ever, being counted.
RatingFairness ==
    /\ \A r \in RatedRides : WF_ratingVars(Enqueue(r))
    /\ WF_ratingVars(StartJob) /\ WF_ratingVars(ReadAverage)
    /\ WF_ratingVars(WriteAverage)

RatingSpec == RatingInit /\ [][RatingNext]_ratingVars /\ RatingFairness

-----------------------------------------------------------------------------
(* Properties *)

\* Ratings and job keep their types.
RatingTypeOK ==
    /\ rated \subseteq RatedRides /\ toEnqueue \subseteq RatedRides
    /\ average \subseteq RatedRides
    /\ job \in [at : JobStages, attempts : 0..RatingAttempts, read : SUBSET RatedRides]
    /\ dropped \in BOOLEAN

\* Unless an add was dropped, every rating comes to count.
RatingCounts == \A r \in RatedRides : r \in rated ~> r \in average \/ dropped
=============================================================================
