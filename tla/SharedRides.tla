---------------------------- MODULE SharedRides -----------------------------
(***************************************************************************)
(* The seats of one shared ride and the rows of its passengers.  Joining   *)
(* is one transaction that holds the ride's row lock; leaving is three     *)
(* statements without a lock or a transaction, and looks at no status.     *)
(***************************************************************************)
EXTENDS Naturals, FiniteSets

CONSTANTS Riders, \* riders who may join
          Seats   \* seats offered at first

ASSUME SharedAssumption == IsFiniteSet(Riders) /\ Seats \in Nat

VARIABLES seats,     \* shared_seats_available of the ride
          passenger, \* shared_ride_passengers: the status of each rider's row, or "none"
          leave,     \* each rider's leave request: where it stands, the seats it read
          restored,  \* history: riders whose seat a leave has given back
          muddled    \* history: a rider left twice, or the seats changed under a leave

sharedVars == <<seats, passenger, leave, restored, muddled>>

PassengerStatus == {"none", "pending", "picked_up", "dropped_off", "cancelled"}

PassengerRows == [Riders -> PassengerStatus]

Leaving == [at : {"idle", "read", "save"}, read : Nat]

NoLeave == [at |-> "idle", read |-> 0]

\* Somebody other than p is about to save seats that he has read.
ReadByOthers(p) == \E q \in Riders \ {p} : leave[q].at = "save"

-----------------------------------------------------------------------------
SharedInit ==
    /\ seats = Seats
    /\ passenger = [p \in Riders |-> "none"]
    /\ leave = [p \in Riders |-> NoLeave]
    /\ restored = {}
    /\ muddled = FALSE

\* Mutant: who has left may come back on his old row, and no seat is taken.
JoinAgain(p) ==
    /\ seats > 0 /\ passenger[p] \in {"none", "cancelled"}
    /\ seats' = IF passenger[p] = "none" THEN seats - 1 ELSE seats
    /\ passenger' = [passenger EXCEPT ![p] = "pending"]
    /\ restored' = restored \ {p}
    /\ muddled' = (muddled \/ ReadByOthers(p))
    /\ UNCHANGED leave

\* joinSharedRide.  A rider has one row, whatever became of it; the ride's status is not
\* looked at.
Join(p) ==
    /\ seats > 0 /\ passenger[p] = "none"
    /\ seats' = seats - 1
    /\ passenger' = [passenger EXCEPT ![p] = "pending"]
    /\ muddled' = (muddled \/ ReadByOthers(p))
    /\ UNCHANGED <<leave, restored>>

\* markPickedUp and markDroppedOff by the driver, from any status, "cancelled" too.
MarkPassenger(p, status) ==
    /\ passenger[p] # "none"
    /\ passenger' = [passenger EXCEPT ![p] = status]
    /\ UNCHANGED <<seats, leave, restored, muddled>>

\* leaveSharedRide: the row is cancelled, from any status, again if need be;
Leave(p) ==
    /\ passenger[p] # "none" /\ leave[p].at = "idle"
    /\ passenger' = [passenger EXCEPT ![p] = "cancelled"]
    /\ leave' = [leave EXCEPT ![p].at = "read"]
    /\ muddled' = (muddled \/ p \in restored)
    /\ UNCHANGED <<seats, restored>>

\* the ride is read;
ReadSeats(p) ==
    /\ leave[p].at = "read"
    /\ leave' = [leave EXCEPT ![p] = [at |-> "save", read |-> seats]]
    /\ UNCHANGED <<seats, passenger, restored, muddled>>

\* and saved with one seat more than was read.  Bound: seats are invented once at most.
SaveSeats(p) ==
    /\ leave[p].at = "save" /\ leave[p].read <= Seats
    /\ seats' = leave[p].read + 1
    /\ leave' = [leave EXCEPT ![p] = NoLeave]
    /\ restored' = restored \cup {p}
    /\ muddled' = (muddled \/ ReadByOthers(p))
    /\ UNCHANGED passenger

\* The request dies half-way: the row is cancelled, the seat is not given back.
LeaveDies(p) ==
    /\ leave[p].at # "idle"
    /\ leave' = [leave EXCEPT ![p] = NoLeave]
    /\ UNCHANGED <<seats, passenger, restored, muddled>>

SharedNext ==
    \E p \in Riders :
        \/ Join(p)
        \/ \E status \in {"picked_up", "dropped_off"} : MarkPassenger(p, status)
        \/ Leave(p) \/ ReadSeats(p) \/ SaveSeats(p) \/ LeaveDies(p)

SharedSpec == SharedInit /\ [][SharedNext]_sharedVars

-----------------------------------------------------------------------------
(* Properties *)

\* Seats, rows and requests keep their types: the seats never go below none.
SharedTypeOK ==
    /\ seats \in Nat
    /\ passenger \in PassengerRows
    /\ leave \in [Riders -> Leaving]
    /\ restored \subseteq Riders /\ muddled \in BOOLEAN

\* Riders who hold a seat: who joined, up to the end of his leave.
Seated == {p \in Riders : passenger[p] # "none"} \ restored

\* Every seat is free or held by one rider, so the ride is never overbooked, unless a
\* rider left twice or the seats changed between the read and the save of a leave.
SeatsAddUp == ~muddled => seats + Cardinality(Seated) = Seats
=============================================================================
