---------------------------- MODULE RideLifecycle ----------------------------
(***************************************************************************)
(* What a ride promises to its rider and its driver, with every offer,     *)
(* lock, transaction, job and retry left out: one row that moves along     *)
(* VALID_TRANSITIONS, gets its driver in the step that accepts it and      *)
(* keeps that driver to the end, and is cancelled by the system only while *)
(* nobody has been picked for it.                                          *)
(***************************************************************************)
EXTENDS RideStateMachine

CONSTANTS Drivers,   \* the drivers
          NoDriver   \* the ride's driver_id column is NULL

VARIABLES status,        \* the ride's status
          driver,        \* the driver picked for it, or NoDriver
          cancelledBy    \* who cancelled it, or "nobody"

lifecycleVars == <<status, driver, cancelledBy>>

LifecycleInit ==
    /\ status = "none"
    /\ driver = NoDriver
    /\ cancelledBy = "nobody"

\* The ride moves between statuses that need no driver: it is requested, gets
\* its first offer, or loses its last one.
MoveInMarket ==
    /\ status' \in {"pending", "offered"}
    /\ CanTransition(status, status')
    /\ UNCHANGED <<driver, cancelledBy>>

\* The rider picks driver d.
Match(d) ==
    /\ CanTransition(status, "accepted")
    /\ status' = "accepted"
    /\ driver' = d
    /\ UNCHANGED cancelledBy

\* The driver starts, then completes, the ride.
Drive ==
    /\ status' \in {"in_progress", "completed"}
    /\ CanTransition(status, status')
    /\ UNCHANGED <<driver, cancelledBy>>

\* The rider cancels at any time, the driver once picked, the system only while
\* the ride is in the market.
CancelBy(who) ==
    /\ CanTransition(status, "cancelled")
    /\ who = "driver" => driver # NoDriver
    /\ who = "system" => driver = NoDriver
    /\ status' = "cancelled"
    /\ cancelledBy' = who
    /\ UNCHANGED driver

LifecycleNext ==
    \/ MoveInMarket
    \/ \E d \in Drivers : Match(d)
    \/ Drive
    \/ \E who \in {"rider", "driver", "system"} : CancelBy(who)

LifecycleSpec == LifecycleInit /\ [][LifecycleNext]_lifecycleVars
=============================================================================
