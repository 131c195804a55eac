-------------------------- MODULE RideStateMachine --------------------------
(***************************************************************************)
(* The statuses of a ride and of an offer and the transition table that    *)
(* every handler consults through validateTransition.                      *)
(***************************************************************************)

\* A ride row's status; "none" stands for a ride that has not been inserted.
RideStatus ==
    {"none", "pending", "offered", "accepted", "in_progress", "completed", "cancelled"}

\* An offer row's status; "none" stands for an offer that has not been inserted.
OfferStatus == {"none", "pending", "accepted", "rejected", "expired"}

\* VALID_TRANSITIONS: the statuses a ride may move to from each status.
\* The row for "none" is the insertion with the column's default status.
ValidTransitions ==
    [ s \in RideStatus |->
        CASE s = "none"        -> {"pending"}
          [] s = "pending"     -> {"offered", "cancelled"}
          [] s = "offered"     -> {"pending", "accepted", "cancelled"}
          [] s = "accepted"    -> {"in_progress", "cancelled"}
          [] s = "in_progress" -> {"completed", "cancelled"}
          [] s = "completed"   -> {}
          [] s = "cancelled"   -> {} ]

\* validateTransition: the guard of every status change that goes through it.
CanTransition(from, to) == to \in ValidTransitions[from]

\* A ride that drivers may still make offers on, and that expiration may cancel.
OpenStatus == {"pending", "offered"}

\* A ride some driver has been picked for and that has not been cancelled.
MatchedStatus == {"accepted", "in_progress", "completed"}
=============================================================================
