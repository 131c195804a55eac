---------------------------- MODULE DriverWallet ----------------------------
(***************************************************************************)
(* The wallet of one driver: its balance, the wallet_transactions rows     *)
(* that credit it, and the rides that pay into it.  Amounts are in cents.  *)
(*                                                                         *)
(* confirmTopup, adminTopup and completeRide are SERIALIZABLE transactions *)
(* with row locks.  Each works on the snapshot of its first statement, so  *)
(* it carries the rows that others have committed since then (missed):     *)
(* PostgreSQL refuses it a lock on such a row (could not serialize access, *)
(* 40001), and nothing in the code tries again.  Serializability beyond    *)
(* that is not assumed: what holds here holds under snapshot isolation.    *)
(* A handler's writes become visible in the step that commits them.        *)
(***************************************************************************)
EXTENDS Integers, FiniteSets, Functions

CONSTANTS Topups,          \* identities of online top-up rows
          AdminTopups,     \* identities of manual top-up rows
          Rides,           \* rides of this driver
          Slots,           \* handlers being served at once
          Wallet,          \* the wallets row, as something to lock
          NoRow,           \* no row
          Amounts,         \* amounts of top-ups (amountField: at least 0.01)
          Fares,           \* fares drivers ask for, rounded to the column's cents
          CalculatedFare,  \* the system's estimate for these rides
          HideEstimate,    \* does the rider hide the estimate (open pricing)?
          FareTolerance,   \* OFFER_FARE_TOLERANCE_TND
          FareMultiplier,  \* OFFER_MAX_FARE_MULTIPLIER
          CommissionRate,  \* COMMISSION_RATE, in percent
          DailyLimit,      \* ADMIN_DAILY_TOPUP_LIMIT
          OpeningBalance,  \* default of wallets.balance
          LastDay          \* bound: days that pass

ASSUME AmountsAssumption == /\ Amounts \subseteq Nat \ {0}
                            /\ Fares \subseteq Nat
                            /\ OpeningBalance \in Nat /\ CommissionRate \in 0..100
                            /\ DailyLimit \in Nat
ASSUME RowsAssumption == /\ Topups \cap AdminTopups = {} /\ Topups \cap Rides = {}
                         /\ AdminTopups \cap Rides = {}
                         /\ {Wallet, NoRow} \cap (Topups \cup AdminTopups \cup Rides) = {}
                         /\ Wallet # NoRow
ASSUME DaysAssumption == LastDay \in Nat

VARIABLES balance,  \* wallets.balance
          entries,  \* wallet_transactions rows; the row RIDE_EARNING of a ride by the ride
          rides,    \* status and negotiated fare of each ride, commission of a completed one
          today,    \* the calendar day
          proc      \* the handler in each slot

vars == <<balance, entries, rides, today, proc>>

Entries == Topups \cup AdminTopups \cup Rides
Rows == Entries \cup {Wallet}

-----------------------------------------------------------------------------
(* Rows and handlers *)

\* TransactionStatus, without Refunded, which no code assigns; "none" is no row yet.
EntryStatus == {"none", "pending", "completed", "failed"}

\* A wallet_transactions row; bookedOn is the day of its created_at.
EntryRow == [status : EntryStatus, amount : Nat, bookedOn : 0..LastDay]

Completed(e) == entries[e].status = "completed"

\* The column amount.
AmountOf == [e \in Entries |-> entries[e].amount]

\* "open" stands for everything before the driver starts the ride.
RideRow == [status     : {"open", "in_progress", "completed", "cancelled"},
            fare       : Nat,
            commission : Nat]

\* Where a handler stands: waiting for the row's lock (confirm_row, complete_ride),
\* holding it and waiting for the wallet's (confirm_wallet, complete_wallet),
\* waiting for the wallet's first (admin_wallet), holding it (admin_credit).
Steps == {"idle", "confirm_row", "confirm_wallet", "admin_wallet", "admin_credit",
          "complete_ride", "complete_wallet"}

Handler == [at : Steps, row : Entries \cup {NoRow}, amount : Amounts \cup {0},
            missed : SUBSET Rows]

IdleHandler == [at |-> "idle", row |-> NoRow, amount |-> 0, missed |-> {}]

Open(p) == proc[p].at # "idle"

\* The row locks handler p holds between two of its steps.
Holds(p, r) ==
    \/ proc[p].at \in {"confirm_wallet", "complete_wallet"} /\ r = proc[p].row
    \/ proc[p].at = "admin_credit" /\ r = Wallet

RowFree(r) == \A q \in Slots : ~Holds(q, r)

\* Handler p gets the lock it asks for.  When the row is in missed it gets error
\* 40001 instead, which is Abort.
CanLock(p, r) == RowFree(r) /\ r \notin proc[p].missed

Begin(p, step, row, amount) ==
    /\ proc[p].at = "idle"
    /\ proc' = [proc EXCEPT ![p] = [at |-> step, row |-> row, amount |-> amount,
                                    missed |-> {}]]

Continue(p, step) == proc' = [proc EXCEPT ![p].at = step]

Finish(p) == proc' = [proc EXCEPT ![p] = IdleHandler]

\* h after somebody else has committed the rows written.
Overtaken(h, written) ==
    IF h.at = "idle" THEN h ELSE [h EXCEPT !.missed = @ \cup written]

\* p commits: every other transaction that is open has missed these rows.
Commit(p, written) ==
    proc' = [q \in Slots |-> IF q = p THEN IdleHandler ELSE Overtaken(proc[q], written)]

\* A statement outside the handler slots commits at once.
CommitAtOnce(written) == proc' = [q \in Slots |-> Overtaken(proc[q], written)]

Credit(amount) == balance' = balance + amount

\* Row e becomes, or is inserted as, completed.
Book(e, amount, day) ==
    entries' = [entries EXCEPT ![e] =
                    [status |-> "completed", amount |-> amount, bookedOn |-> day]]

-----------------------------------------------------------------------------
Init ==
    /\ balance = OpeningBalance
    /\ entries = [e \in Entries |-> [status |-> "none", amount |-> 0, bookedOn |-> 0]]
    /\ rides = [r \in Rides |-> [status |-> "open", fare |-> 0, commission |-> 0]]
    /\ today = 0
    /\ proc = [p \in Slots |-> IdleHandler]

(* Online top-ups *)

\* initiateOnlineTopup.  No code suspends a wallet, so the check of its status passes.
InitiateTopup(t, amount) ==
    /\ entries[t].status = "none"
    /\ entries' = [entries EXCEPT ![t] =
                       [status |-> "pending", amount |-> amount, bookedOn |-> today]]
    /\ UNCHANGED <<balance, rides, today, proc>>

\* confirmTopup, for the driver's request or for a payment-verification job whose
\* payment is a SUCCESS: the snapshot is taken, the row's lock asked for.
ConfirmTopup(p, t) ==
    /\ entries[t].status # "none"
    /\ Begin(p, "confirm_row", t, 0)
    /\ UNCHANGED <<balance, entries, rides, today>>

\* Mutant: the row's status is not looked at.
ConfirmAnyRow(p) ==
    /\ proc[p].at = "confirm_row"
    /\ CanLock(p, proc[p].row)
    /\ Continue(p, "confirm_wallet")
    /\ UNCHANGED <<balance, entries, rides, today>>

\* Holding the row: a completed top-up is returned, a failed one refused.
ConfirmRow(p) ==
    /\ proc[p].at = "confirm_row"
    /\ CanLock(p, proc[p].row)
    /\ IF entries[proc[p].row].status = "pending"
       THEN Continue(p, "confirm_wallet")
       ELSE Finish(p)
    /\ UNCHANGED <<balance, entries, rides, today>>

\* The wallet's row is updated, the top-up saved, and both committed.
ConfirmCredit(p) ==
    LET t == proc[p].row
    IN  /\ proc[p].at = "confirm_wallet"
        /\ CanLock(p, Wallet)
        /\ Credit(entries[t].amount)
        /\ Book(t, entries[t].amount, entries[t].bookedOn)
        /\ Commit(p, {t, Wallet})
        /\ UNCHANGED <<rides, today>>

\* Mutant: UPDATE ... WHERE id = t, without AND status = 'pending'.
MarkFailedAnyRow(t) ==
    /\ entries[t].status # "none" /\ RowFree(t)
    /\ entries' = [entries EXCEPT ![t].status = "failed"]
    /\ CommitAtOnce({t})
    /\ UNCHANGED <<balance, rides, today>>

\* The payment-verification worker gives a top-up up: the provider says the
\* payment failed, or the job's last attempt did.  The UPDATE waits for the row
\* and looks at its status again once it has it.
MarkFailed(t) ==
    /\ entries[t].status = "pending" /\ RowFree(t)
    /\ entries' = [entries EXCEPT ![t].status = "failed"]
    /\ CommitAtOnce({t})
    /\ UNCHANGED <<balance, rides, today>>

-----------------------------------------------------------------------------
(* Manual top-ups *)

\* What admins have booked since the start of day d.
BookedSince(d) ==
    SumFunctionOnSet(AmountOf, {m \in AdminTopups : Completed(m) /\ entries[m].bookedOn >= d})

\* adminTopup: the snapshot is taken, the wallet's lock asked for.
AdminTopup(p, amount) ==
    /\ Begin(p, "admin_wallet", NoRow, amount)
    /\ UNCHANGED <<balance, entries, rides, today>>

\* Mutant: the wallet is read without LOCK.UPDATE.
AdminLimitUnlocked(p) ==
    /\ proc[p].at = "admin_wallet"
    /\ IF BookedSince(today) + proc[p].amount > DailyLimit
       THEN Finish(p)
       ELSE Continue(p, "admin_credit")
    /\ UNCHANGED <<balance, entries, rides, today>>

\* Holding the wallet: would today's manual top-ups exceed the limit?
AdminLimit(p) ==
    /\ proc[p].at = "admin_wallet"
    /\ CanLock(p, Wallet)
    /\ IF BookedSince(today) + proc[p].amount > DailyLimit
       THEN Finish(p)
       ELSE Continue(p, "admin_credit")
    /\ UNCHANGED <<balance, entries, rides, today>>

\* Mutant: created_at is a day ahead of the server's calendar.
AdminCreditTomorrow(p) ==
    /\ proc[p].at = "admin_credit"
    /\ Credit(proc[p].amount)
    /\ \E m \in AdminTopups : /\ entries[m].status = "none"
                              /\ Book(m, proc[p].amount, today + 1)
    /\ Commit(p, {Wallet})
    /\ UNCHANGED <<rides, today>>

\* The balance is updated and the row created, with the date of this moment: the
\* day may have changed since the limit was looked at.
AdminCredit(p) ==
    /\ proc[p].at = "admin_credit"
    /\ Credit(proc[p].amount)
    /\ \E m \in AdminTopups : /\ entries[m].status = "none"
                              /\ Book(m, proc[p].amount, today)
    /\ Commit(p, {Wallet})
    /\ UNCHANGED <<rides, today>>

-----------------------------------------------------------------------------
(* Rides *)

\* The clamp of acceptRide.  Open pricing asks for a positive fare; one below half
\* a cent is positive too and is stored as 0.
FareInRange(f) ==
    IF HideEstimate
    THEN f <= CalculatedFare * FareMultiplier
    ELSE f \in (CalculatedFare - FareTolerance)..(CalculatedFare + FareTolerance)

\* The driver's offer is accepted by acceptRide and pickDriver, and he starts the
\* ride; RideNegotiation has the steps.
AgreeAndStart(r, f) ==
    /\ rides[r].status = "open"
    /\ FareInRange(f)
    /\ rides' = [rides EXCEPT ![r].status = "in_progress", ![r].fare = f]
    /\ CommitAtOnce({r})
    /\ UNCHANGED <<balance, entries, today>>

\* Math.round(fare * (rate / 100) * 100) / 100 in cents: a nearest integer.  In
\* floating point an exact half may be rounded to either side.
CommissionOf(f) == {c \in 0..f : /\ 100 * c <= f * CommissionRate + 50
                                 /\ f * CommissionRate <= 100 * c + 50}

\* The splits of a fare into commission and earning that the CHECK constraint
\* amount > 0 lets into wallet_transactions.
Settlements(f) == {c \in CommissionOf(f) : c > 0 /\ f - c > 0}

\* completeRide: the snapshot is taken, the ride's lock asked for.
CompleteRide(p, r) ==
    /\ Begin(p, "complete_ride", r, 0)
    /\ UNCHANGED <<balance, entries, rides, today>>

\* Holding the ride: validateTransition.
CompleteRideLock(p) ==
    /\ proc[p].at = "complete_ride"
    /\ CanLock(p, proc[p].row)
    /\ IF rides[proc[p].row].status = "in_progress"
       THEN Continue(p, "complete_wallet")
       ELSE Finish(p)
    /\ UNCHANGED <<balance, entries, rides, today>>

\* Mutant: the commission is booked but the whole fare credited.
CompleteCreditsFare(p) ==
    LET r == proc[p].row
    IN  /\ proc[p].at = "complete_wallet"
        /\ CanLock(p, Wallet)
        /\ \E c \in Settlements(rides[r].fare) :
              /\ Credit(rides[r].fare)
              /\ Book(r, rides[r].fare - c, today)
              /\ rides' = [rides EXCEPT ![r].status = "completed", ![r].commission = c]
        /\ Commit(p, {r, Wallet})
        /\ UNCHANGED today

\* Holding the wallet: it is credited with the earning, the earning and the
\* commission are booked, the ride saved, and all of it committed.
CompleteSettle(p) ==
    LET r == proc[p].row
    IN  /\ proc[p].at = "complete_wallet"
        /\ CanLock(p, Wallet)
        /\ \E c \in Settlements(rides[r].fare) :
              /\ Credit(rides[r].fare - c)
              /\ Book(r, rides[r].fare - c, today)
              /\ rides' = [rides EXCEPT ![r].status = "completed", ![r].commission = c]
        /\ Commit(p, {r, Wallet})
        /\ UNCHANGED today

\* Mutant: cancelRide without validateTransition.
CancelAnyRide(r) ==
    /\ RowFree(r)
    /\ rides' = [rides EXCEPT ![r].status = "cancelled"]
    /\ CommitAtOnce({r})
    /\ UNCHANGED <<balance, entries, today>>

\* cancelRide, a READ COMMITTED transaction on the ride's row only.
CancelRide(r) ==
    /\ rides[r].status \in {"open", "in_progress"}
    /\ RowFree(r)
    /\ rides' = [rides EXCEPT ![r].status = "cancelled"]
    /\ CommitAtOnce({r})
    /\ UNCHANGED <<balance, entries, today>>

-----------------------------------------------------------------------------
\* A transaction is rolled back: a serialization failure, a CHECK constraint, a
\* lost connection, a crash.
Abort(p) ==
    /\ Open(p)
    /\ Finish(p)
    /\ UNCHANGED <<balance, entries, rides, today>>

NewDay ==
    /\ today < LastDay
    /\ today' = today + 1
    /\ UNCHANGED <<balance, entries, rides, proc>>

Next ==
    \/ \E t \in Topups : \/ \E a \in Amounts : InitiateTopup(t, a)
                         \/ MarkFailed(t)
    \/ \E r \in Rides : \/ \E f \in Fares : AgreeAndStart(r, f)
                        \/ CancelRide(r)
    \/ \E p \in Slots :
          \/ \E t \in Topups : ConfirmTopup(p, t)
          \/ ConfirmRow(p)
          \/ ConfirmCredit(p)
          \/ \E a \in Amounts : AdminTopup(p, a)
          \/ AdminLimit(p)
          \/ AdminCredit(p)
          \/ \E r \in Rides : CompleteRide(p, r)
          \/ CompleteRideLock(p)
          \/ CompleteSettle(p)
          \/ Abort(p)
    \/ NewDay

Spec == Init /\ [][Next]_vars

-----------------------------------------------------------------------------
(* Properties *)

\* Rows, rides and handlers keep their types; the balance is never negative.
TypeOK ==
    /\ balance \in Nat
    /\ entries \in [Entries -> EntryRow]
    /\ rides \in [Rides -> RideRow]
    /\ today \in 0..LastDay
    /\ proc \in [Slots -> Handler]

\* The statement getTransactions shows adds up: the balance is the opening balance
\* and the completed top-ups and ride earnings, whichever handlers updated it at once.
BalanceIsAccountedFor ==
    balance = OpeningBalance + SumFunctionOnSet(AmountOf, {e \in Entries : Completed(e)})

\* No day has more manual top-ups than adminTopup's limit, though concurrent calls
\* read the sum before they book, and midnight may fall in between.
DailyLimitKept ==
    \A d \in 0..LastDay :
        SumFunctionOnSet(AmountOf, {m \in AdminTopups : Completed(m) /\ entries[m].bookedOn = d})
            <= DailyLimit

\* completeRide and cancelRide racing for a ride leave it paid exactly when it is
\* completed, and earning and commission are the fare the rider agreed to.
PaidIffCompleted ==
    \A r \in Rides :
        /\ Completed(r) <=> rides[r].status = "completed"
        /\ Completed(r) => entries[r].amount + rides[r].commission = rides[r].fare

\* A confirmation and a late failure report of one payment do not undo each other:
\* the first to commit has the last word.
SettledIsFinal ==
    [][\A e \in Entries : entries[e].status \in {"completed", "failed"} => entries'[e] = entries[e]]_vars

\* The wallet's rows as a ledger.
Ledger == INSTANCE WalletLedger WITH
            total  <- balance,
            posted <- [e \in Entries |-> IF Completed(e) THEN entries[e].amount ELSE 0]

\* Every step of the handlers posts one entry, once, with its amount, or leaves the
\* ledger alone: a retried or duplicated confirmTopup or completeRide credits nothing.
WalletIsLedger == Ledger!LedgerSpec

\* Claim of acceptRide's comment that in open pricing any positive fare will do
\* (rideService.ts:317): a ride under way has a fare completeRide can settle.
AgreedFareSettles ==
    \A r \in Rides : rides[r].status = "in_progress" => Settlements(rides[r].fare) # {}
=============================================================================
