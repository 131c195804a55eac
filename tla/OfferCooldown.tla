---------------------------- MODULE OfferCooldown ----------------------------
(***************************************************************************)
(* The cooldown of one driver on one ride: the Redis key                   *)
(* cooldown:<driver>:<ride>, which acceptRide reads before its transaction *)
(* and which those who end an offer of his set after theirs.  What offers  *)
(* mean for the ride is in RideNegotiation; here the driver's offers come  *)
(* and go, one pending at a time, and time passes.                         *)
(*                                                                         *)
(* Time is in ticks.  A Redis command may fail: cacheGet then finds        *)
(* nothing, cacheSet does nothing, and both go on.                         *)
(***************************************************************************)
EXTENDS Naturals

CONSTANTS Bids,      \* identities of the driver's offers on the ride
          NoBid,     \* no offer
          Callers,   \* requests being served and jobs being processed at once
          Cooldown,  \* offerCooldownSeconds
          CallTime   \* the longest a request or an attempt of a job takes

ASSUME CooldownAssumption ==
    /\ NoBid \notin Bids
    /\ Cooldown \in Nat \ {0} /\ CallTime \in Nat

VARIABLES rideOpen,  \* is the ride Pending or Offered?
          pending,   \* the driver's offer with status pending
          keyLeft,   \* ticks the cooldown key has left; 0 = it is not there
          caller,    \* the request or job in each slot
          sinceOver, \* history: ticks since an offer of the driver was over, up to LongAgo
          lost       \* history: since then, Redis failed or a caller died

cooldownVars == <<rideOpen, pending, keyLeft, caller, sinceOver, lost>>

\* Longer than a key lasts after the offer it was set for.
LongAgo == Cooldown + CallTime

\* Where a caller stands: admitted by acceptRide's checks, about to write over the offer it
\* has read (refuseRide), to expire it (the worker), or to set the cooldown.
Posts == {"idle", "offering", "withdrawing", "expiring", "cooling"}

Caller == [at : Posts, bid : Bids \cup {NoBid}, age : 0..CallTime]

NoCaller == [at |-> "idle", bid |-> NoBid, age |-> 0]

Enter(p, post, b) ==
    /\ caller[p].at = "idle"
    /\ caller' = [caller EXCEPT ![p] = [at |-> post, bid |-> b, age |-> 0]]

MoveTo(p, post) == caller' = [caller EXCEPT ![p].at = post]

Leave(p) == caller' = [caller EXCEPT ![p] = NoCaller]

\* Offer b is over, if it was not already.
BidIsOver(b) ==
    IF b # NoBid /\ pending = b
    THEN pending' = NoBid /\ sinceOver' = 0 /\ lost' = FALSE
    ELSE UNCHANGED <<pending, sinceOver, lost>>

-----------------------------------------------------------------------------
CooldownInit ==
    /\ rideOpen = TRUE /\ pending = NoBid
    /\ keyLeft = 0
    /\ caller = [p \in Callers |-> NoCaller]
    /\ sinceOver = LongAgo /\ lost = FALSE

(* acceptRide *)

\* The key is not there, or is and cannot be read.
OfferCheck(p) ==
    /\ \/ keyLeft = 0 /\ lost' = lost
       \/ keyLeft > 0 /\ lost' = TRUE
    /\ Enter(p, "offering", NoBid)
    /\ UNCHANGED <<rideOpen, pending, keyLeft, sinceOver>>

\* A row of its own: its identity is that of no offer somebody still works on.
NewBid(b) == b # pending /\ \A p \in Callers : caller[p].bid # b

\* The transaction, under the ride's lock: the ride is open, no offer of the driver's pending.
OfferCommit(p) ==
    /\ caller[p].at = "offering"
    /\ rideOpen /\ pending = NoBid
    /\ \E b \in Bids : NewBid(b) /\ pending' = b
    /\ Leave(p)
    /\ UNCHANGED <<rideOpen, keyLeft, sinceOver, lost>>

-----------------------------------------------------------------------------
(* The ends of an offer *)

\* refuseRide: the driver's pending offer is read without a lock ...
WithdrawRead(p) ==
    /\ pending # NoBid
    /\ Enter(p, "withdrawing", pending)
    /\ UNCHANGED <<rideOpen, pending, keyLeft, sinceOver, lost>>

\* ... and saved by its id, whatever has become of it.
WithdrawCommit(p) ==
    /\ caller[p].at = "withdrawing"
    /\ BidIsOver(caller[p].bid)
    /\ MoveTo(p, "cooling")
    /\ UNCHANGED <<rideOpen, keyLeft>>

\* riderRefuseOffer: the offer is locked while it is pending, and rejected.  (What it reads
\* before does not matter here; where it throws nothing has changed.)
Decline(p) ==
    /\ pending # NoBid
    /\ BidIsOver(pending)
    /\ Enter(p, "cooling", NoBid)
    /\ UNCHANGED <<rideOpen, keyLeft>>

\* processOfferExpiration goes on while the offer is pending.  When the job runs is left open:
\* its delay, retries and lost jobs are in RideNegotiation.
ExpiryRead(p) ==
    /\ pending # NoBid
    /\ Enter(p, "expiring", pending)
    /\ UNCHANGED <<rideOpen, pending, keyLeft, sinceOver, lost>>

\* The transaction expires the offer if it is still pending; the cooldown follows anyway.
ExpiryCommit(p) ==
    /\ caller[p].at = "expiring"
    /\ BidIsOver(caller[p].bid)
    /\ MoveTo(p, "cooling")
    /\ UNCHANGED <<rideOpen, keyLeft>>

\* Mutant: a key that is there is not set anew (NX).
SetCooldownOnce(p) ==
    /\ caller[p].at = "cooling"
    /\ keyLeft' = (IF keyLeft = 0 THEN Cooldown ELSE keyLeft) /\ lost' = lost
    /\ Leave(p)
    /\ UNCHANGED <<rideOpen, pending, sinceOver>>

\* cacheSet of the key, which Redis may fail.
SetCooldown(p) ==
    /\ caller[p].at = "cooling"
    /\ \/ keyLeft' = Cooldown /\ lost' = lost
       \/ lost' = TRUE /\ keyLeft' = keyLeft
    /\ Leave(p)
    /\ UNCHANGED <<rideOpen, pending, sinceOver>>

\* pickDriver, cancelRide or the ride's expiration: the ride takes no more offers, the
\* driver's is accepted or rejected, and there is no cooldown.
RideCloses ==
    /\ rideOpen /\ rideOpen' = FALSE
    /\ BidIsOver(pending)
    /\ UNCHANGED <<keyLeft, caller>>

-----------------------------------------------------------------------------
\* A request is refused, or a caller dies or fails on the database before it commits.
GiveUp(p) ==
    /\ caller[p].at \in {"offering", "withdrawing", "expiring"}
    /\ Leave(p)
    /\ UNCHANGED <<rideOpen, pending, keyLeft, sinceOver, lost>>

\* It dies between the commit and the key: no retry sets it, the offer being over.
DieBeforeKey(p) ==
    /\ caller[p].at = "cooling"
    /\ Leave(p)
    /\ lost' = TRUE
    /\ UNCHANGED <<rideOpen, pending, keyLeft, sinceOver>>

CooldownTick ==
    /\ \A p \in Callers : caller[p].at # "idle" => caller[p].age < CallTime
    /\ caller' = [p \in Callers |->
                    IF caller[p].at = "idle" THEN caller[p]
                    ELSE [caller[p] EXCEPT !.age = @ + 1]]
    /\ keyLeft' = IF keyLeft = 0 THEN 0 ELSE keyLeft - 1
    /\ sinceOver' = IF sinceOver = LongAgo THEN LongAgo ELSE sinceOver + 1
    /\ UNCHANGED <<rideOpen, pending, lost>>

CooldownNext ==
    \/ \E p \in Callers :
          \/ OfferCheck(p) \/ OfferCommit(p)
          \/ WithdrawRead(p) \/ WithdrawCommit(p)
          \/ Decline(p)
          \/ ExpiryRead(p) \/ ExpiryCommit(p)
          \/ SetCooldown(p)
          \/ GiveUp(p) \/ DieBeforeKey(p)
    \/ RideCloses
    \/ CooldownTick

CooldownSpec == CooldownInit /\ [][CooldownNext]_cooldownVars

-----------------------------------------------------------------------------
(* Properties *)

\* Callers, key and clocks keep their types and bounds.
CooldownTypeOK ==
    /\ rideOpen \in BOOLEAN /\ lost \in BOOLEAN
    /\ pending \in Bids \cup {NoBid}
    /\ keyLeft \in 0..Cooldown /\ sinceOver \in 0..LongAgo
    /\ caller \in [Callers -> Caller]

Offered == pending = NoBid /\ pending' # NoBid

\* An offer that follows an earlier one within the cooldown follows at once: its request was
\* checked before the key was set, and there are two requests' times for that.  Unless the
\* key was lost: Redis failed, or the process died after the commit.
ReOffersWait ==
    [][Offered => \/ sinceOver <= 2 * CallTime
                  \/ sinceOver >= Cooldown
                  \/ lost]_cooldownVars

\* The driver may offer again a cooldown after his offer was over, but for a request's time:
\* however his withdrawal, the rider's refusal and the expiration overlap, no key outlasts that.
CooldownLapses == keyLeft > 0 => sinceOver < Cooldown + CallTime
=============================================================================
