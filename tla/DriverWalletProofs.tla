------------------------- MODULE DriverWalletProofs -------------------------
(***************************************************************************)
(* For every number of top-ups, rides and handlers, every amount, fare and *)
(* commission rate: the rows keep their types, a ride is paid exactly when *)
(* it is completed, the wallet is a ledger, its balance adds up and manual *)
(* top-ups keep their limit.  The inductive invariant WalletInv says what  *)
(* the two row locks a handler takes in turn protect; BooksInv, relative   *)
(* to it, what the rows add up to.                                         *)
(***************************************************************************)
EXTENDS DriverWallet, FiniteSetTheorems, WellFoundedInduction, TLAPS

\* A handler that asks for a row's lock asks for one of its kind; while it holds
\* it and waits for the wallet, the row stays as the handler has found it.
RowsHeldStay ==
    \A p \in Slots :
        /\ proc[p].at \in {"confirm_row", "confirm_wallet"} => proc[p].row \in Topups
        /\ proc[p].at \in {"complete_ride", "complete_wallet"} => proc[p].row \in Rides
        /\ proc[p].at = "confirm_wallet" => entries[proc[p].row].status = "pending"
        /\ proc[p].at = "complete_wallet" => rides[proc[p].row].status = "in_progress"
        /\ proc[p].at \in {"admin_wallet", "admin_credit"} => proc[p].amount \in Amounts

\* Two handlers never hold the same row.
LocksExclude == \A p, q \in Slots : \A r \in Rows : Holds(p, r) /\ Holds(q, r) => p = q

\* What is or may be credited is positive, and the row of a ride's earning is
\* never waiting for anything.
EntriesAreCredits ==
    /\ \A e \in Entries : entries[e].status \in {"pending", "completed"} => entries[e].amount > 0
    /\ \A r \in Rides : entries[r].status \in {"none", "completed"}

WalletInv == TypeOK /\ RowsHeldStay /\ LocksExclude /\ PaidIffCompleted /\ EntriesAreCredits

-----------------------------------------------------------------------------
(* What the operators on handlers do *)

LEMMA HandlerTypes ==
    ASSUME TypeOK, NEW p \in Slots
    PROVE  /\ \A step \in Steps, row \in Entries \cup {NoRow}, a \in Amounts \cup {0} :
                 Begin(p, step, row, a) => proc' \in [Slots -> Handler]
           /\ \A step \in Steps : Continue(p, step) => proc' \in [Slots -> Handler]
           /\ Finish(p) => proc' \in [Slots -> Handler]
           /\ \A written \in SUBSET Rows :
                 Commit(p, written) => proc' \in [Slots -> Handler]
<1>1. IdleHandler \in Handler
  BY DEF IdleHandler, Handler, Steps
<1>2. \A q \in Slots, written \in SUBSET Rows : Overtaken(proc[q], written) \in Handler
  BY DEF TypeOK, Overtaken, Handler
<1> QED BY <1>1, <1>2 DEF TypeOK, Begin, Continue, Finish, Commit, Handler

\* A commit outside the slots keeps the handlers' types.
LEMMA BystanderTypes ==
    ASSUME TypeOK, NEW written \in SUBSET Rows, CommitAtOnce(written)
    PROVE  proc' \in [Slots -> Handler]
BY DEF TypeOK, CommitAtOnce, Overtaken, Handler

\* Being overtaken moves no handler and changes no lock it holds.
LEMMA OvertakenStays ==
    ASSUME TypeOK, NEW q \in Slots, NEW written
    PROVE  /\ Overtaken(proc[q], written).at = proc[q].at
           /\ Overtaken(proc[q], written).row = proc[q].row
           /\ Overtaken(proc[q], written).amount = proc[q].amount
BY DEF TypeOK, Overtaken, Handler

-----------------------------------------------------------------------------
(* Type correctness *)

LEMMA InitWalletInv == Init => WalletInv
<1> SUFFICES ASSUME Init PROVE WalletInv
  OBVIOUS
<1> USE DEF Init
<1>1. \A p \in Slots : proc[p] = IdleHandler
  OBVIOUS
<1>2. TypeOK
  BY AmountsAssumption, DaysAssumption
     DEF TypeOK, EntryRow, EntryStatus, RideRow, Handler, Steps, IdleHandler
<1>3. RowsHeldStay /\ LocksExclude
  BY <1>1 DEF RowsHeldStay, LocksExclude, Holds, IdleHandler
<1>4. PaidIffCompleted /\ EntriesAreCredits
  BY DEF PaidIffCompleted, EntriesAreCredits, Completed, Entries
<1> QED BY <1>2, <1>3, <1>4 DEF WalletInv

\* Steps that only move their own handler.
Moves(p) ==
    \/ \E t \in Topups : ConfirmTopup(p, t)
    \/ ConfirmRow(p)
    \/ \E a \in Amounts : AdminTopup(p, a)
    \/ AdminLimit(p)
    \/ \E r \in Rides : CompleteRide(p, r)
    \/ CompleteRideLock(p)
    \/ Abort(p)

\* Steps outside the handler slots.
BystanderSteps ==
    \/ \E t \in Topups : (\E a \in Amounts : InitiateTopup(t, a)) \/ MarkFailed(t)
    \/ \E r \in Rides : (\E f \in Fares : AgreeAndStart(r, f)) \/ CancelRide(r)
    \/ NewDay

\* Steps that credit the wallet and commit.
Credits(p) == ConfirmCredit(p) \/ AdminCredit(p) \/ CompleteSettle(p)

LEMMA NextSteps ==
    Next <=> BystanderSteps \/ \E p \in Slots : Moves(p) \/ Credits(p)
BY DEF Next, BystanderSteps, Moves, Credits

LEMMA MovesTypes ==
    ASSUME TypeOK, NEW p \in Slots, Moves(p)
    PROVE  proc' \in [Slots -> Handler] /\ UNCHANGED <<balance, entries, rides, today>>
<1>1. Steps = {"idle", "confirm_row", "confirm_wallet", "admin_wallet", "admin_credit",
               "complete_ride", "complete_wallet"}
  BY DEF Steps
<1>2. CASE \E t \in Topups : ConfirmTopup(p, t)
  BY <1>1, <1>2, HandlerTypes DEF ConfirmTopup, Entries
<1>3. CASE ConfirmRow(p)
  BY <1>1, <1>3, HandlerTypes DEF ConfirmRow
<1>4. CASE \E a \in Amounts : AdminTopup(p, a)
  BY <1>1, <1>4, HandlerTypes DEF AdminTopup
<1>5. CASE AdminLimit(p)
  BY <1>1, <1>5, HandlerTypes DEF AdminLimit
<1>6. CASE \E r \in Rides : CompleteRide(p, r)
  BY <1>1, <1>6, HandlerTypes DEF CompleteRide, Entries
<1>7. CASE CompleteRideLock(p)
  BY <1>1, <1>7, HandlerTypes DEF CompleteRideLock
<1>8. CASE Abort(p)
  BY <1>8, HandlerTypes DEF Abort
<1> QED BY <1>2, <1>3, <1>4, <1>5, <1>6, <1>7, <1>8 DEF Moves

LEMMA BystanderStepTypes ==
    ASSUME TypeOK, BystanderSteps
    PROVE  TypeOK'
<1> USE DEF TypeOK
<1>1. ASSUME NEW t \in Topups, NEW a \in Amounts, InitiateTopup(t, a) PROVE TypeOK'
  BY <1>1, AmountsAssumption DEF InitiateTopup, EntryRow, EntryStatus
<1>2. ASSUME NEW t \in Topups, MarkFailed(t) PROVE TypeOK'
  <2>1. {t} \in SUBSET Rows
    BY DEF Rows, Entries
  <2>2. entries' \in [Entries -> EntryRow]
    BY <1>2 DEF MarkFailed, EntryRow, EntryStatus
  <2> QED BY <1>2, <2>1, <2>2, BystanderTypes DEF MarkFailed
<1>3. ASSUME NEW r \in Rides, NEW f \in Fares, AgreeAndStart(r, f) PROVE TypeOK'
  <2>1. {r} \in SUBSET Rows
    BY DEF Rows, Entries
  <2>2. rides' \in [Rides -> RideRow]
    BY <1>3, AmountsAssumption DEF AgreeAndStart, RideRow
  <2> QED BY <1>3, <2>1, <2>2, BystanderTypes DEF AgreeAndStart
<1>4. ASSUME NEW r \in Rides, CancelRide(r) PROVE TypeOK'
  <2>1. {r} \in SUBSET Rows
    BY DEF Rows, Entries
  <2>2. rides' \in [Rides -> RideRow]
    BY <1>4 DEF CancelRide, RideRow
  <2> QED BY <1>4, <2>1, <2>2, BystanderTypes DEF CancelRide
<1>5. CASE NewDay
  BY <1>5, DaysAssumption DEF NewDay
<1> QED BY <1>1, <1>2, <1>3, <1>4, <1>5 DEF BystanderSteps

\* What a commit writes: one entry e is completed with a positive amount that the
\* wallet gets, and the handlers go on as Commit says.
CreditsEntry(p, e, amount, written) ==
    /\ amount \in Nat \ {0}
    /\ entries[e].status \in {"none", "pending"}
    /\ Credit(amount)
    /\ \E day \in 0..LastDay : Book(e, amount, day)
    /\ written \in SUBSET Rows /\ Commit(p, written)
    /\ UNCHANGED today

LEMMA ConfirmCredits ==
    ASSUME WalletInv, NEW p \in Slots, ConfirmCredit(p)
    PROVE  /\ proc[p].row \in Topups /\ entries[proc[p].row].status = "pending"
           /\ CreditsEntry(p, proc[p].row, entries[proc[p].row].amount, {proc[p].row, Wallet})
           /\ UNCHANGED rides
<1> DEFINE t == proc[p].row
<1>1. t \in Topups /\ t \in Entries /\ entries[t].status = "pending"
  BY DEF WalletInv, RowsHeldStay, ConfirmCredit, Entries
<1>2. entries[t].amount \in Nat \ {0} /\ entries[t].bookedOn \in 0..LastDay
  BY <1>1 DEF WalletInv, TypeOK, EntryRow, EntriesAreCredits
<1>3. {t, Wallet} \in SUBSET Rows
  BY <1>1 DEF Rows
<1> QED BY <1>1, <1>2, <1>3 DEF ConfirmCredit, CreditsEntry

LEMMA AdminCredits ==
    ASSUME WalletInv, NEW p \in Slots, AdminCredit(p)
    PROVE  /\ \E m \in AdminTopups : /\ entries[m].status = "none"
                                     /\ CreditsEntry(p, m, proc[p].amount, {Wallet})
           /\ UNCHANGED rides
<1>1. proc[p].amount \in Nat \ {0} /\ today \in 0..LastDay
  BY AmountsAssumption DEF WalletInv, TypeOK, RowsHeldStay, AdminCredit
<1> QED BY <1>1 DEF AdminCredit, CreditsEntry, Rows

LEMMA SettleCredits ==
    ASSUME WalletInv, NEW p \in Slots, CompleteSettle(p)
    PROVE  LET r == proc[p].row
           IN  /\ r \in Rides /\ rides[r].status = "in_progress" /\ entries[r].status = "none"
               /\ rides' \in [Rides -> RideRow]
               /\ \E c \in Nat :
                     /\ rides[r].fare - c + c = rides[r].fare
                     /\ CreditsEntry(p, r, rides[r].fare - c, {r, Wallet})
                     /\ rides' = [rides EXCEPT ![r].status = "completed", ![r].commission = c]
<1> DEFINE r == proc[p].row
<1>1. r \in Rides /\ r \in Entries /\ rides[r].status = "in_progress" /\ today \in 0..LastDay
  BY DEF WalletInv, TypeOK, RowsHeldStay, CompleteSettle, Entries
<1>2. entries[r].status = "none"
  BY <1>1 DEF WalletInv, PaidIffCompleted, EntriesAreCredits, Completed
<1>3. {r, Wallet} \in SUBSET Rows
  BY <1>1 DEF Rows
<1>4. rides[r].fare \in Nat
  BY <1>1 DEF WalletInv, TypeOK, RideRow
<1>5. PICK c \in Settlements(rides[r].fare) :
        /\ Credit(rides[r].fare - c)
        /\ Book(r, rides[r].fare - c, today)
        /\ rides' = [rides EXCEPT ![r].status = "completed", ![r].commission = c]
  BY DEF CompleteSettle
<1>6. /\ c \in Nat /\ rides[r].fare - c \in Nat \ {0}
      /\ rides[r].fare - c + c = rides[r].fare
  BY <1>4 DEF Settlements, CommissionOf
<1>7. Commit(p, {r, Wallet}) /\ UNCHANGED today
  BY DEF CompleteSettle
<1>8. CreditsEntry(p, r, rides[r].fare - c, {r, Wallet})
  BY <1>1, <1>2, <1>3, <1>5, <1>6, <1>7 DEF CreditsEntry
<1>9. rides' \in [Rides -> RideRow]
  BY <1>1, <1>5, <1>6 DEF WalletInv, TypeOK, RideRow
<1> QED BY <1>1, <1>2, <1>5, <1>6, <1>8, <1>9

LEMMA CreditTypes ==
    ASSUME TypeOK, NEW p \in Slots, NEW e \in Entries, NEW amount, NEW written,
           CreditsEntry(p, e, amount, written), rides' \in [Rides -> RideRow]
    PROVE  TypeOK'
<1>1. proc' \in [Slots -> Handler]
  BY HandlerTypes DEF CreditsEntry
<1>2. entries' \in [Entries -> EntryRow] /\ balance' \in Nat
  BY DEF CreditsEntry, Credit, Book, TypeOK, EntryRow, EntryStatus
<1> QED BY <1>1, <1>2 DEF TypeOK, CreditsEntry

LEMMA TypeStep == WalletInv /\ [Next]_vars => TypeOK'
<1> SUFFICES ASSUME WalletInv, [Next]_vars PROVE TypeOK'
  OBVIOUS
<1>1. TypeOK
  BY DEF WalletInv
<1>2. CASE UNCHANGED vars
  BY <1>1, <1>2 DEF vars, TypeOK
<1>3. ASSUME NEW p \in Slots, Moves(p) PROVE TypeOK'
  BY <1>1, <1>3, MovesTypes DEF TypeOK
<1>4. CASE BystanderSteps
  BY <1>1, <1>4, BystanderStepTypes
<1>5. ASSUME NEW p \in Slots, ConfirmCredit(p) PROVE TypeOK'
  BY <1>1, <1>5, ConfirmCredits, CreditTypes DEF TypeOK, Entries
<1>6. ASSUME NEW p \in Slots, AdminCredit(p) PROVE TypeOK'
  BY <1>1, <1>6, AdminCredits, CreditTypes DEF TypeOK, Entries
<1>7. ASSUME NEW p \in Slots, CompleteSettle(p) PROVE TypeOK'
  BY <1>1, <1>7, SettleCredits, CreditTypes DEF Entries
<1> QED BY <1>2, <1>3, <1>4, <1>5, <1>6, <1>7, NextSteps DEF Credits

-----------------------------------------------------------------------------
(* Each step preserves the invariant *)

\* A handler's own step leaves the rows alone and takes a lock only when it is free.
LEMMA MovesStep ==
    ASSUME WalletInv, NEW p \in Slots, Moves(p)
    PROVE  RowsHeldStay' /\ LocksExclude' /\ PaidIffCompleted' /\ EntriesAreCredits'
<1>1. UNCHANGED <<entries, rides>>
  BY MovesTypes DEF WalletInv
<1>2. \A q \in Slots \ {p} : proc'[q] = proc[q]
  BY DEF WalletInv, TypeOK, Moves, ConfirmTopup, ConfirmRow, AdminTopup, AdminLimit,
         CompleteRide, CompleteRideLock, Abort, Begin, Continue, Finish
<1> DEFINE mine == proc'[p]
<1>3. \/ mine.at = "idle"
      \/ mine.at = "confirm_row" /\ mine.row \in Topups
      \/ /\ mine.at = "confirm_wallet" /\ mine.row = proc[p].row /\ proc[p].row \in Topups
         /\ entries[mine.row].status = "pending" /\ RowFree(mine.row)
      \/ mine.at = "admin_wallet" /\ mine.amount \in Amounts
      \/ mine.at = "admin_credit" /\ mine.amount \in Amounts /\ RowFree(Wallet)
      \/ mine.at = "complete_ride" /\ mine.row \in Rides
      \/ /\ mine.at = "complete_wallet" /\ mine.row = proc[p].row /\ proc[p].row \in Rides
         /\ rides[mine.row].status = "in_progress" /\ RowFree(mine.row)
  <2> USE DEF WalletInv, TypeOK
  <2>1. CASE \E t \in Topups : ConfirmTopup(p, t)
    BY <2>1 DEF ConfirmTopup, Begin
  <2>2. CASE ConfirmRow(p)
    <3>1. CASE entries[proc[p].row].status = "pending"
      BY <2>2, <3>1 DEF ConfirmRow, Continue, CanLock, RowsHeldStay, Handler
    <3>2. CASE entries[proc[p].row].status # "pending"
      BY <2>2, <3>2 DEF ConfirmRow, Finish, IdleHandler
    <3> QED BY <3>1, <3>2
  <2>3. CASE \E a \in Amounts : AdminTopup(p, a)
    BY <2>3 DEF AdminTopup, Begin
  <2>4. CASE AdminLimit(p)
    BY <2>4 DEF AdminLimit, Continue, Finish, CanLock, IdleHandler, RowsHeldStay, Handler
  <2>5. CASE \E r \in Rides : CompleteRide(p, r)
    BY <2>5 DEF CompleteRide, Begin
  <2>6. CASE CompleteRideLock(p)
    BY <2>6 DEF CompleteRideLock, Continue, Finish, CanLock, IdleHandler, RowsHeldStay, Handler
  <2>7. CASE Abort(p)
    BY <2>7 DEF Abort, Finish, IdleHandler
  <2> QED BY <2>1, <2>2, <2>3, <2>4, <2>5, <2>6, <2>7 DEF Moves
<1>4. RowsHeldStay'
  BY <1>1, <1>2, <1>3 DEF WalletInv, RowsHeldStay
<1>5. LocksExclude'
  <2>1. \A q \in Slots \ {p} : \A r \in Rows : Holds(q, r)' <=> Holds(q, r)
    BY <1>2 DEF Holds
  <2>2. \A r \in Rows : Holds(p, r)' => RowFree(r)
    BY <1>3 DEF Holds
  <2> QED BY <2>1, <2>2 DEF WalletInv, LocksExclude, RowFree
<1>6. PaidIffCompleted' /\ EntriesAreCredits'
  BY <1>1 DEF WalletInv, PaidIffCompleted, EntriesAreCredits, Completed
<1> QED BY <1>4, <1>5, <1>6

\* Whatever else commits writes no row that a handler holds.
LEMMA BystandersStep ==
    ASSUME WalletInv, BystanderSteps
    PROVE  RowsHeldStay' /\ LocksExclude' /\ PaidIffCompleted' /\ EntriesAreCredits'
<1> USE DEF WalletInv, TypeOK
<1>1. \A q \in Slots : /\ proc'[q].at = proc[q].at /\ proc'[q].row = proc[q].row
                        /\ proc'[q].amount = proc[q].amount
  <2>1. UNCHANGED proc \/ \E written : CommitAtOnce(written)
    BY DEF BystanderSteps, InitiateTopup, MarkFailed, AgreeAndStart, CancelRide, NewDay
  <2> QED BY <2>1, OvertakenStays DEF CommitAtOnce
<1>2. LocksExclude'
  BY <1>1 DEF LocksExclude, Holds
<1>3. \A a \in Amounts : a \in Nat /\ a > 0
  BY AmountsAssumption
<1>4. ASSUME NEW t \in Topups, (\E a \in Amounts : InitiateTopup(t, a)) \/ MarkFailed(t)
      PROVE  RowsHeldStay' /\ PaidIffCompleted' /\ EntriesAreCredits'
  <2>1. /\ t \in Entries /\ t \notin Rides /\ UNCHANGED rides
        /\ \A e \in Entries \ {t} : entries'[e] = entries[e]
        /\ \A q \in Slots : ~(proc[q].at = "confirm_wallet" /\ proc[q].row = t)
        /\ \/ entries'[t].status = "pending" /\ entries'[t].amount \in Amounts
           \/ entries'[t].status = "failed"
    <3>1. t \in Entries /\ t \notin Rides
      BY RowsAssumption DEF Entries
    <3>2. CASE \E a \in Amounts : InitiateTopup(t, a)
      BY <3>1, <3>2 DEF InitiateTopup, RowsHeldStay
    <3>3. CASE MarkFailed(t)
      <4>1. \A q \in Slots : ~(proc[q].at = "confirm_wallet" /\ proc[q].row = t)
        BY <3>3 DEF MarkFailed, RowFree, Holds
      <4> QED BY <3>1, <3>3, <4>1 DEF MarkFailed, EntryRow
    <3> QED BY <1>4, <3>1, <3>2, <3>3
  <2>2. RowsHeldStay'
    BY <1>1, <2>1 DEF RowsHeldStay, Entries
  <2>3. PaidIffCompleted'
    BY <2>1 DEF PaidIffCompleted, Completed, Entries
  <2>4. EntriesAreCredits'
    <3>1. \A r \in Rides : r \in Entries \ {t}
      BY <2>1 DEF Entries
    <3>2. entries'[t].status = "pending" => entries'[t].amount > 0
      BY <1>3, <2>1
    <3> QED BY <2>1, <3>1, <3>2 DEF EntriesAreCredits
  <2> QED BY <2>2, <2>3, <2>4
<1>5. ASSUME NEW r \in Rides, (\E f \in Fares : AgreeAndStart(r, f)) \/ CancelRide(r)
      PROVE  RowsHeldStay' /\ PaidIffCompleted' /\ EntriesAreCredits'
  <2>1. /\ UNCHANGED entries
        /\ \A x \in Rides \ {r} : rides'[x] = rides[x]
        /\ \A q \in Slots : ~(proc[q].at = "complete_wallet" /\ proc[q].row = r)
        /\ rides[r].status # "completed" /\ rides'[r].status # "completed"
    <3>1. CASE \E f \in Fares : AgreeAndStart(r, f)
      BY <3>1 DEF AgreeAndStart, RowsHeldStay, RideRow
    <3>2. CASE CancelRide(r)
      <4>1. \A q \in Slots : ~(proc[q].at = "complete_wallet" /\ proc[q].row = r)
        BY <3>2 DEF CancelRide, RowFree, Holds
      <4> QED BY <3>2, <4>1 DEF CancelRide, RideRow
    <3> QED BY <1>5, <3>1, <3>2
  <2>2. RowsHeldStay'
    BY <1>1, <2>1 DEF RowsHeldStay
  <2>3. PaidIffCompleted' /\ EntriesAreCredits'
    BY <2>1 DEF PaidIffCompleted, Completed, EntriesAreCredits
  <2> QED BY <2>2, <2>3
<1>6. CASE NewDay
  <2>1. UNCHANGED <<entries, rides>>
    BY <1>6 DEF NewDay
  <2>2. RowsHeldStay'
    BY <1>1, <2>1 DEF RowsHeldStay
  <2>3. PaidIffCompleted' /\ EntriesAreCredits'
    BY <2>1 DEF PaidIffCompleted, Completed, EntriesAreCredits
  <2> QED BY <1>2, <2>2, <2>3
<1> QED BY <1>2, <1>4, <1>5, <1>6 DEF BystanderSteps

\* A handler that commits gives its locks up, and no other holds what it has written.
LEMMA CreditLocks ==
    ASSUME WalletInv, NEW p \in Slots, NEW written, Commit(p, written)
    PROVE  /\ proc'[p].at = "idle"
           /\ \A q \in Slots \ {p} : /\ proc'[q].at = proc[q].at /\ proc'[q].row = proc[q].row
                                      /\ proc'[q].amount = proc[q].amount
           /\ LocksExclude'
<1>1. /\ proc'[p].at = "idle"
      /\ \A q \in Slots \ {p} : /\ proc'[q].at = proc[q].at /\ proc'[q].row = proc[q].row
                                 /\ proc'[q].amount = proc[q].amount
  BY OvertakenStays DEF WalletInv, Commit, IdleHandler
<1>2. LocksExclude'
  BY <1>1 DEF WalletInv, LocksExclude, Holds
<1> QED BY <1>1, <1>2

LEMMA ConfirmCreditStep ==
    ASSUME WalletInv, NEW p \in Slots, ConfirmCredit(p)
    PROVE  RowsHeldStay' /\ LocksExclude' /\ PaidIffCompleted' /\ EntriesAreCredits'
<1> DEFINE t == proc[p].row
<1>1. /\ t \in Topups /\ t \in Entries /\ t \notin Rides /\ UNCHANGED rides
      /\ entries'[t].status = "completed" /\ entries'[t].amount > 0
      /\ \A e \in Entries \ {t} : entries'[e] = entries[e]
  <2>1. t \in Topups /\ t \in Entries /\ t \notin Rides /\ UNCHANGED rides
    BY ConfirmCredits, RowsAssumption DEF Entries
  <2>2. CreditsEntry(p, t, entries[t].amount, {t, Wallet})
    BY ConfirmCredits
  <2>3. entries[t].amount > 0
    BY <2>2 DEF CreditsEntry
  <2>4. PICK day : Book(t, entries[t].amount, day)
    BY <2>2 DEF CreditsEntry
  <2> QED BY <2>1, <2>3, <2>4 DEF WalletInv, TypeOK, Book
<1>2. /\ proc'[p].at = "idle"
      /\ \A q \in Slots \ {p} : /\ proc'[q].at = proc[q].at /\ proc'[q].row = proc[q].row
                                 /\ proc'[q].amount = proc[q].amount
      /\ LocksExclude'
  BY ConfirmCredits, CreditLocks DEF CreditsEntry
<1>3. \A q \in Slots \ {p} : ~(proc[q].at = "confirm_wallet" /\ proc[q].row = t)
  BY <1>1 DEF WalletInv, LocksExclude, Holds, ConfirmCredit, Rows
<1>4. RowsHeldStay'
  BY <1>1, <1>2, <1>3 DEF WalletInv, RowsHeldStay, Entries
<1>5. PaidIffCompleted' /\ EntriesAreCredits'
  <2>1. \A r \in Rides : r \in Entries \ {t}
    BY <1>1 DEF Entries
  <2> QED BY <1>1, <2>1 DEF WalletInv, PaidIffCompleted, EntriesAreCredits, Completed
<1> QED BY <1>2, <1>4, <1>5

LEMMA AdminCreditStep ==
    ASSUME WalletInv, NEW p \in Slots, AdminCredit(p)
    PROVE  RowsHeldStay' /\ LocksExclude' /\ PaidIffCompleted' /\ EntriesAreCredits'
<1>1. PICK m \in AdminTopups : CreditsEntry(p, m, proc[p].amount, {Wallet})
  BY AdminCredits
<1>2. /\ m \in Entries /\ m \notin Rides /\ m \notin Topups /\ UNCHANGED rides
      /\ entries'[m].amount > 0
      /\ \A e \in Entries \ {m} : entries'[e] = entries[e]
  BY <1>1, AdminCredits, RowsAssumption DEF WalletInv, TypeOK, CreditsEntry, Book, Entries
<1>3. /\ proc'[p].at = "idle"
      /\ \A q \in Slots \ {p} : /\ proc'[q].at = proc[q].at /\ proc'[q].row = proc[q].row
                                 /\ proc'[q].amount = proc[q].amount
      /\ LocksExclude'
  BY <1>1, CreditLocks DEF CreditsEntry
<1>4. RowsHeldStay'
  BY <1>2, <1>3 DEF WalletInv, RowsHeldStay, Entries
<1>5. PaidIffCompleted' /\ EntriesAreCredits'
  <2>1. \A r \in Rides : r \in Entries \ {m}
    BY <1>2 DEF Entries
  <2> QED BY <1>2, <2>1 DEF WalletInv, PaidIffCompleted, EntriesAreCredits, Completed
<1> QED BY <1>3, <1>4, <1>5

LEMMA CompleteSettleStep ==
    ASSUME WalletInv, NEW p \in Slots, CompleteSettle(p)
    PROVE  RowsHeldStay' /\ LocksExclude' /\ PaidIffCompleted' /\ EntriesAreCredits'
<1> DEFINE r == proc[p].row
<1>1. PICK c \in Nat :
        /\ rides[r].fare - c + c = rides[r].fare
        /\ CreditsEntry(p, r, rides[r].fare - c, {r, Wallet})
        /\ rides' = [rides EXCEPT ![r].status = "completed", ![r].commission = c]
  BY SettleCredits
<1>2. /\ r \in Rides /\ r \in Entries /\ r \notin Topups
      /\ entries'[r].status = "completed" /\ entries'[r].amount = rides[r].fare - c
      /\ entries'[r].amount > 0
      /\ \A e \in Entries \ {r} : entries'[e] = entries[e]
  BY <1>1, SettleCredits, RowsAssumption DEF WalletInv, TypeOK, CreditsEntry, Book, Entries
<1>3. /\ rides'[r].status = "completed" /\ rides'[r].commission = c /\ rides'[r].fare = rides[r].fare
      /\ \A x \in Rides \ {r} : rides'[x] = rides[x]
  BY <1>1, <1>2 DEF WalletInv, TypeOK, RideRow
<1>4. /\ proc'[p].at = "idle"
      /\ \A q \in Slots \ {p} : /\ proc'[q].at = proc[q].at /\ proc'[q].row = proc[q].row
                                 /\ proc'[q].amount = proc[q].amount
      /\ LocksExclude'
  BY <1>1, CreditLocks DEF CreditsEntry
<1>5. \A q \in Slots \ {p} : ~(proc[q].at = "complete_wallet" /\ proc[q].row = r)
  BY <1>2 DEF WalletInv, LocksExclude, Holds, CompleteSettle, Rows
<1>6. RowsHeldStay'
  BY <1>2, <1>3, <1>4, <1>5 DEF WalletInv, RowsHeldStay, Entries
<1>7. PaidIffCompleted'
  <2>1. ASSUME NEW x \in Rides, x # r
        PROVE  entries'[x] = entries[x] /\ rides'[x] = rides[x]
    BY <1>2, <1>3, <2>1 DEF Entries
  <2> QED BY <1>1, <1>2, <1>3, <2>1 DEF WalletInv, PaidIffCompleted, Completed
<1>8. EntriesAreCredits'
  BY <1>2 DEF WalletInv, EntriesAreCredits, Entries
<1> QED BY <1>4, <1>6, <1>7, <1>8

LEMMA InvariantStep == WalletInv /\ [Next]_vars => WalletInv'
<1> SUFFICES ASSUME WalletInv, [Next]_vars PROVE WalletInv'
  OBVIOUS
<1> DEFINE Rest == RowsHeldStay /\ LocksExclude /\ PaidIffCompleted /\ EntriesAreCredits
<1>1. TypeOK'
  BY TypeStep
<1>2. CASE UNCHANGED vars
  BY <1>2 DEF vars, WalletInv, TypeOK, RowsHeldStay, LocksExclude, Holds, PaidIffCompleted,
              EntriesAreCredits, Completed
<1>3. CASE Next
  <2>1. Rest'
    BY <1>3, NextSteps, MovesStep, BystandersStep, ConfirmCreditStep, AdminCreditStep,
       CompleteSettleStep DEF Credits
  <2> QED BY <1>1, <2>1 DEF WalletInv
<1> QED BY <1>2, <1>3

-----------------------------------------------------------------------------
(* Sums over finite sets *)

\* A nonempty set of numbers has a least one.
LEMMA LeastNumber ==
    ASSUME NEW N, N \subseteq Nat, N # {}
    PROVE  \E n \in N : \A m \in N : n <= m
<1>1. PICK n \in N : \A m \in N : <<m, n>> \notin OpToRel(<, Nat)
  BY NatLessThanWellFounded, WFMin
<1>2. \A m \in N : ~(m < n)
  BY <1>1 DEF OpToRel
<1> QED BY <1>2

\* The element a fold takes first.
First(T) == CHOOSE x \in T : TRUE

\* g tells the sum of f over each subset of S, as SumFunctionOnSet unfolds it.
Tells(g, f, S) ==
    g = [T \in SUBSET S |-> IF T = {} THEN 0 ELSE f[First(T)] + g[T \ {First(T)}]]

LEMMA SumIsTold ==
    ASSUME NEW f, NEW S
    PROVE  SumFunctionOnSet(f, S) = (CHOOSE g : Tells(g, f, S))[S]
BY DEF SumFunctionOnSet, FoldFunctionOnSet, MapThenFoldSet, Tells, First

LEMMA FirstIsIn == ASSUME NEW T, T # {} PROVE First(T) \in T
BY DEF First

\* Without its first element a finite set is smaller.
LEMMA Smaller ==
    ASSUME NEW S, IsFiniteSet(S), NEW T \in SUBSET S
    PROVE  /\ IsFiniteSet(T) /\ Cardinality(T) \in Nat
           /\ \A x \in T : /\ T \ {x} \in SUBSET S
                           /\ Cardinality(T \ {x}) = Cardinality(T) - 1
                           /\ Cardinality(T) > 0
<1>1. IsFiniteSet(T)
  BY FS_Subset
<1>2. Cardinality(T) \in Nat /\ (Cardinality(T) = 0 <=> T = {})
  BY <1>1, FS_CardinalityType, FS_EmptySet
<1>3. \A x \in T : Cardinality(T \ {x}) = Cardinality(T) - 1
  BY <1>1, FS_RemoveElement
<1> QED BY <1>1, <1>2, <1>3

LEMMA SumsExist ==
    ASSUME NEW f, NEW S, IsFiniteSet(S)
    PROVE  \E g : Tells(g, f, S)
<1> DEFINE Unfold(g, T) == IF T = {} THEN 0 ELSE f[First(T)] + g[T \ {First(T)}]
           UpTo(g, n) == \A T \in SUBSET S : Cardinality(T) <= n => g[T] = Unfold(g, T)
           Beyond == {n \in Nat : ~ \E g : UpTo(g, n)}
<1>1. Beyond = {}
  <2> SUFFICES ASSUME Beyond # {} PROVE FALSE
    OBVIOUS
  <2>1. PICK n \in Beyond : \A m \in Beyond : n <= m
    BY LeastNumber
  <2>2. CASE n = 0
    <3> DEFINE g == [T \in SUBSET S |-> 0]
    <3>1. ASSUME NEW T \in SUBSET S, Cardinality(T) <= 0 PROVE T = {}
      <4>1. \A x \in T : Cardinality(T) > 0 /\ Cardinality(T) \in Nat
        BY Smaller
      <4> QED BY <3>1, <4>1
    <3>2. UpTo(g, 0)
      BY <3>1
    <3> QED BY <2>2, <3>2
  <2>3. CASE n # 0
    <3>1. n \in Nat /\ n - 1 \in Nat /\ n - 1 \notin Beyond
      <4>1. n \in Nat
        OBVIOUS
      <4>2. n - 1 \in Nat /\ ~(n <= n - 1)
        BY <2>3, <4>1
      <4> HIDE DEF Beyond
      <4> QED BY <2>1, <4>1, <4>2
    <3>2. PICK h : UpTo(h, n - 1)
      BY <3>1
    <3> DEFINE g == [T \in SUBSET S |-> IF Cardinality(T) < n THEN h[T] ELSE Unfold(h, T)]
    <3>3. ASSUME NEW T \in SUBSET S, Cardinality(T) <= n PROVE g[T] = Unfold(g, T)
      <4>1. CASE T = {}
        <5>1. Cardinality(T) = 0
          BY <4>1, FS_EmptySet
        <5>2. h[T] = 0
          BY <3>1, <3>2, <4>1, <5>1, 0 <= n - 1
        <5> QED BY <4>1, <5>2
      <4>2. CASE T # {}
        <5> DEFINE R == T \ {First(T)}
        <5>1. R \in SUBSET S /\ Cardinality(R) = Cardinality(T) - 1 /\ Cardinality(T) \in Nat
          BY <4>2, FirstIsIn, Smaller
        <5>2. g[R] = h[R]
          BY <3>3, <5>1
        <5>3. g[T] = Unfold(h, T)
          BY <3>1, <3>2, <3>3, <5>1
        <5> QED BY <4>2, <5>2, <5>3
      <4> QED BY <4>1, <4>2
    <3>4. UpTo(g, n)
      BY <3>3
    <3> QED BY <3>4
  <2> QED BY <2>2, <2>3
<1>2. PICK h : UpTo(h, Cardinality(S))
  <2>1. Cardinality(S) \in Nat
    BY FS_CardinalityType
  <2> QED BY <1>1, <2>1
<1> DEFINE g == [T \in SUBSET S |-> h[T]]
<1>3. \A T \in SUBSET S : Cardinality(T) <= Cardinality(S)
  BY FS_Subset
<1>4. ASSUME NEW T \in SUBSET S PROVE g[T] = Unfold(g, T)
  <2>1. h[T] = Unfold(h, T)
    BY <1>2, <1>3
  <2>2. T # {} => T \ {First(T)} \in SUBSET S
    OBVIOUS
  <2> QED BY <2>1, <2>2
<1>5. g = [T \in SUBSET S |-> Unfold(g, T)]
  BY <1>4
<1>6. Tells(g, f, S)
  BY <1>5 DEF Tells
<1> QED BY <1>6

\* Among subsets of a finite set, one is minimal: no part of it is among them.
LEMMA MinimalSubset ==
    ASSUME NEW S, IsFiniteSet(S), NEW Family, Family \subseteq SUBSET S, Family # {}
    PROVE  \E T \in Family : \A U \in SUBSET T : U # T => U \notin Family
<1> DEFINE Sizes == {Cardinality(T) : T \in Family}
<1>1. Sizes \subseteq Nat /\ Sizes # {}
  BY Smaller
<1>2. PICK n \in Sizes : \A m \in Sizes : n <= m
  BY <1>1, LeastNumber
<1>3. PICK T \in Family : n = Cardinality(T)
  BY <1>2
<1>4. ASSUME NEW U \in SUBSET T, U # T PROVE U \notin Family
  <2>1. IsFiniteSet(T) /\ Cardinality(T) \in Nat
    BY Smaller
  <2>2. Cardinality(U) <= Cardinality(T) /\ Cardinality(U) # Cardinality(T)
    BY <1>4, <2>1, FS_Subset
  <2> QED BY <1>1, <1>2, <1>3, <2>1, <2>2
<1> QED BY <1>4

\* What is told of a set does not depend on what it is part of.
LEMMA TellsAgree ==
    ASSUME NEW f, NEW S, IsFiniteSet(S), NEW S2 \in SUBSET S,
           NEW g, Tells(g, f, S), NEW h, Tells(h, f, S2)
    PROVE  \A T \in SUBSET S2 : g[T] = h[T]
<1> DEFINE Differ == {T \in SUBSET S2 : g[T] # h[T]}
<1> SUFFICES ASSUME Differ # {} PROVE FALSE
  OBVIOUS
<1>1. PICK T \in Differ : \A U \in SUBSET T : U # T => U \notin Differ
  <2>1. IsFiniteSet(S2) /\ Differ \subseteq SUBSET S2
    BY FS_Subset
  <2> HIDE DEF Differ
  <2> QED BY <2>1, MinimalSubset
<1>2. T # {}
  BY <1>1 DEF Tells
<1> DEFINE R == T \ {First(T)}
<1>3. R \in SUBSET S2 /\ R \notin Differ
  BY <1>1, <1>2, FirstIsIn
<1>4. g[T] = f[First(T)] + g[R] /\ h[T] = f[First(T)] + h[R]
  BY <1>2, <1>3 DEF Tells
<1> QED BY <1>3, <1>4

\* The equations of a sum.
LEMMA SumUnfolds ==
    ASSUME NEW f, NEW S, IsFiniteSet(S)
    PROVE  /\ S = {} => SumFunctionOnSet(f, S) = 0
           /\ S # {} => SumFunctionOnSet(f, S)
                          = f[First(S)] + SumFunctionOnSet(f, S \ {First(S)})
<1> DEFINE g == CHOOSE x : Tells(x, f, S)
<1>1. Tells(g, f, S) /\ SumFunctionOnSet(f, S) = g[S]
  BY SumsExist, SumIsTold
<1>2. CASE S # {}
  <2> DEFINE R == S \ {First(S)}
             h == CHOOSE x : Tells(x, f, R)
  <2>1. R \in SUBSET S /\ IsFiniteSet(R)
    BY FS_Subset
  <2>2. Tells(h, f, R) /\ SumFunctionOnSet(f, R) = h[R]
    BY <2>1, SumsExist, SumIsTold
  <2>3. g[R] = h[R]
    BY <1>1, <2>1, <2>2, TellsAgree
  <2>4. g[S] = f[First(S)] + g[R]
    BY <1>1, <1>2 DEF Tells
  <2> QED BY <1>1, <1>2, <2>2, <2>3, <2>4
<1>3. CASE S = {}
  BY <1>1, <1>3 DEF Tells
<1> QED BY <1>2, <1>3

LEMMA SumOfNone == ASSUME NEW f PROVE SumFunctionOnSet(f, {}) = 0
BY FS_EmptySet, SumUnfolds

\* A sum of naturals is one, and any element may be taken out first.
LEMMA SumWithout ==
    ASSUME NEW f, NEW S, IsFiniteSet(S), \A x \in S : f[x] \in Nat
    PROVE  /\ SumFunctionOnSet(f, S) \in Nat
           /\ \A x \in S : SumFunctionOnSet(f, S) = f[x] + SumFunctionOnSet(f, S \ {x})
<1> DEFINE Sum(T) == SumFunctionOnSet(f, T)
           Good(T) == Sum(T) \in Nat /\ \A x \in T : Sum(T) = f[x] + Sum(T \ {x})
           Bad == {T \in SUBSET S : ~Good(T)}
<1>1. Bad = {}
  <2> SUFFICES ASSUME Bad # {} PROVE FALSE
    OBVIOUS
  <2>1. PICK T \in Bad : \A U \in SUBSET T : U # T => U \notin Bad
    <3>1. Bad \subseteq SUBSET S
      OBVIOUS
    <3> HIDE DEF Bad
    <3> QED BY <3>1, MinimalSubset
  <2>2. IsFiniteSet(T)
    BY FS_Subset
  <2>3. T # {}
    <3> SUFFICES ASSUME T = {} PROVE Good(T)
      OBVIOUS
    <3>1. Sum(T) = 0
      BY SumOfNone
    <3> QED BY <3>1
  <2> DEFINE y == First(T)
  <2> HIDE DEF y, Sum
  <2>4. y \in T /\ Sum(T) = f[y] + Sum(T \ {y})
    BY <2>2, <2>3, FirstIsIn, SumUnfolds DEF y, Sum
  <2>5. \A U \in SUBSET T : U # T => Good(U)
    BY <2>1
  <2>6. Sum(T) \in Nat
    BY <2>4, <2>5
  <2>7. ASSUME NEW x \in T, x # y PROVE Sum(T) = f[x] + Sum(T \ {x})
    <3>1. x \in T \ {y} /\ y \in T \ {x} /\ (T \ {y}) \ {x} = (T \ {x}) \ {y}
      BY <2>4, <2>7
    <3>2. Sum(T \ {y}) = f[x] + Sum((T \ {x}) \ {y})
      BY <2>4, <2>5, <3>1
    <3>3. Sum(T \ {x}) = f[y] + Sum((T \ {x}) \ {y})
      BY <2>5, <3>1
    <3>4. Sum((T \ {x}) \ {y}) \in Nat
      BY <2>5, <3>1
    <3>5. f[x] \in Nat /\ f[y] \in Nat
      BY <2>4, <2>7
    <3> QED BY <2>4, <3>2, <3>3, <3>4, <3>5
  <2> QED BY <2>4, <2>6, <2>7
<1> QED BY <1>1

\* One more element adds its value.
LEMMA SumWith ==
    ASSUME NEW f, NEW S, IsFiniteSet(S), NEW x, x \notin S, \A y \in S \cup {x} : f[y] \in Nat
    PROVE  SumFunctionOnSet(f, S \cup {x}) = SumFunctionOnSet(f, S) + f[x]
<1> DEFINE T == S \cup {x}
<1>1. IsFiniteSet(T) /\ x \in T /\ T \ {x} = S
  BY FS_AddElement
<1> HIDE DEF T
<1>2. SumFunctionOnSet(f, T) = f[x] + SumFunctionOnSet(f, T \ {x})
  BY <1>1, SumWithout DEF T
<1>3. SumFunctionOnSet(f, S) \in Nat /\ f[x] \in Nat
  BY SumWithout
<1> QED BY <1>1, <1>2, <1>3 DEF T

\* A part of a set has at most its sum.
LEMMA SumOfPart ==
    ASSUME NEW f, NEW S, IsFiniteSet(S), NEW T \in SUBSET S, \A x \in S : f[x] \in Nat
    PROVE  SumFunctionOnSet(f, T) <= SumFunctionOnSet(f, S)
<1> DEFINE Sum(U) == SumFunctionOnSet(f, U)
           Bad == {U \in SUBSET S : T \subseteq U /\ ~(Sum(T) <= Sum(U))}
<1> SUFFICES ASSUME Bad # {} PROVE FALSE
  OBVIOUS
<1>1. PICK U \in Bad : \A V \in SUBSET U : V # U => V \notin Bad
  <2>1. Bad \subseteq SUBSET S
    OBVIOUS
  <2> HIDE DEF Bad
  <2> QED BY <2>1, MinimalSubset
<1>2. \A V \in SUBSET S : IsFiniteSet(V) /\ Sum(V) \in Nat
  BY FS_Subset, SumWithout
<1>3. PICK x \in U : x \notin T
  BY <1>2
<1> DEFINE V == U \ {x}
<1>4. Sum(U) = f[x] + Sum(V) /\ f[x] \in Nat
  BY <1>2, <1>3, SumWithout
<1>5. V \in SUBSET U /\ V # U /\ T \subseteq V
  BY <1>1, <1>3
<1>6. Sum(T) <= Sum(V)
  BY <1>1, <1>5
<1> QED BY <1>2, <1>4, <1>5, <1>6

\* A sum depends on the values over its set only.
LEMMA SumOfSame ==
    ASSUME NEW f, NEW g, NEW S, IsFiniteSet(S), \A x \in S : f[x] \in Nat /\ g[x] = f[x]
    PROVE  SumFunctionOnSet(f, S) = SumFunctionOnSet(g, S)
<1> DEFINE Bad == {T \in SUBSET S : SumFunctionOnSet(f, T) # SumFunctionOnSet(g, T)}
<1> SUFFICES ASSUME Bad # {} PROVE FALSE
  OBVIOUS
<1>1. PICK T \in Bad : \A U \in SUBSET T : U # T => U \notin Bad
  <2>1. Bad \subseteq SUBSET S
    OBVIOUS
  <2> HIDE DEF Bad
  <2> QED BY <2>1, MinimalSubset
<1>2. T # {} /\ IsFiniteSet(T)
  BY SumOfNone, FS_Subset
<1>3. PICK x \in T : TRUE
  BY <1>2
<1>4. /\ SumFunctionOnSet(f, T) = f[x] + SumFunctionOnSet(f, T \ {x})
      /\ SumFunctionOnSet(g, T) = g[x] + SumFunctionOnSet(g, T \ {x})
  BY <1>2, SumWithout
<1>5. SumFunctionOnSet(f, T \ {x}) = SumFunctionOnSet(g, T \ {x})
  BY <1>1
<1> QED BY <1>4, <1>5

-----------------------------------------------------------------------------
(* What the rows add up to *)

\* The entries that count; only so many have been credited so far.
CreditedRows == {e \in Entries : Completed(e)}
CreditsAreFinite == IsFiniteSet(CreditedRows)

\* The manual top-ups of one day.
DayRows(d) == {m \in AdminTopups : Completed(m) /\ entries[m].bookedOn = d}

\* A manual top-up that has passed the limit and holds the wallet still fits under it,
\* midnight or not.
RoomUnderLimit ==
    \A p \in Slots :
        proc[p].at = "admin_credit" => BookedSince(today) + proc[p].amount <= DailyLimit

BooksInv == CreditsAreFinite /\ BalanceIsAccountedFor /\ RoomUnderLimit /\ DailyLimitKept

\* The manual top-ups since the start of a day.
Since(d) == {m \in AdminTopups : Completed(m) /\ entries[m].bookedOn >= d}

LEMMA RowSets ==
    ASSUME CreditsAreFinite
    PROVE  /\ \A d : Since(d) \in SUBSET CreditedRows /\ IsFiniteSet(Since(d))
           /\ \A d : DayRows(d) \in SUBSET CreditedRows /\ IsFiniteSet(DayRows(d))
<1>1. \A d : Since(d) \in SUBSET CreditedRows /\ DayRows(d) \in SUBSET CreditedRows
  BY DEF Since, DayRows, CreditedRows, Entries
<1> QED BY <1>1, FS_Subset DEF CreditsAreFinite

\* Amounts are naturals.
LEMMA AmountsAreNat == TypeOK => \A e \in Entries : AmountOf[e] \in Nat
BY DEF TypeOK, EntryRow, AmountOf

LEMMA HandlerAmounts ==
    ASSUME TypeOK, NEW p \in Slots
    PROVE  proc[p].amount \in Nat /\ DailyLimit \in Nat
<1>1. proc[p].amount \in Amounts \/ proc[p].amount = 0
  BY DEF TypeOK, Handler
<1>2. (\A a \in Amounts : a \in Nat) /\ DailyLimit \in Nat
  BY AmountsAssumption
<1>3. CASE proc[p].amount = 0
  BY <1>2, <1>3
<1>4. CASE proc[p].amount \in Amounts
  BY <1>2, <1>4
<1> QED BY <1>1, <1>3, <1>4

LEMMA BookedIsNat ==
    ASSUME TypeOK, CreditsAreFinite
    PROVE  \A d : BookedSince(d) \in Nat
<1>1. ASSUME NEW d PROVE SumFunctionOnSet(AmountOf, Since(d)) \in Nat
  <2>1. IsFiniteSet(Since(d)) /\ \A e \in Since(d) : AmountOf[e] \in Nat
    BY RowSets, AmountsAreNat DEF CreditedRows
  <2> QED BY <2>1, SumWithout
<1> QED BY <1>1 DEF BookedSince, Since

\* Rows that stay as they are keep their sum.
LEMMA SumStays ==
    ASSUME TypeOK, NEW S \in SUBSET CreditedRows, IsFiniteSet(S),
           \A e \in S : entries'[e] = entries[e]
    PROVE  SumFunctionOnSet(AmountOf', S) = SumFunctionOnSet(AmountOf, S)
<1> DEFINE f == AmountOf
           g == [e \in Entries |-> entries'[e].amount]
<1>1. \A e \in S : f[e] \in Nat /\ g[e] = f[e]
  BY AmountsAreNat DEF CreditedRows, AmountOf
<1>2. AmountOf' = g
  BY DEF AmountOf
<1> HIDE DEF f, g
<1>3. SumFunctionOnSet(f, S) = SumFunctionOnSet(g, S)
  BY <1>1, SumOfSame
<1> QED BY <1>2, <1>3 DEF f

\* As long as no row that counts changes and none is added, the sums stay.
LEMMA SumsStay ==
    ASSUME TypeOK, CreditsAreFinite,
           \A e \in Entries : /\ Completed(e)' <=> Completed(e)
                              /\ Completed(e) => entries'[e] = entries[e]
    PROVE  /\ CreditedRows' = CreditedRows
           /\ \A d : BookedSince(d)' = BookedSince(d)
           /\ DailyLimitKept => DailyLimitKept'
           /\ balance' = balance /\ BalanceIsAccountedFor => BalanceIsAccountedFor'
<1>1. CreditedRows' = CreditedRows /\ \A e \in CreditedRows : entries'[e] = entries[e]
  BY DEF CreditedRows, Completed
<1>2. ASSUME NEW S \in SUBSET CreditedRows, IsFiniteSet(S)
      PROVE  SumFunctionOnSet(AmountOf', S) = SumFunctionOnSet(AmountOf, S)
  BY <1>1, <1>2, SumStays
<1>3. \A m \in AdminTopups : /\ Completed(m)' <=> Completed(m)
                             /\ Completed(m) => entries'[m] = entries[m]
  BY DEF Entries
<1>4. \A d : Since(d)' = Since(d) /\ DayRows(d)' = DayRows(d)
  BY <1>3 DEF Since, DayRows, Completed
<1>5. \A d : BookedSince(d)' = BookedSince(d)
  BY <1>2, <1>4, RowSets DEF BookedSince, Since
<1>6. DailyLimitKept => DailyLimitKept'
  BY <1>2, <1>4, RowSets DEF DailyLimitKept, DayRows
<1>7. balance' = balance /\ BalanceIsAccountedFor => BalanceIsAccountedFor'
  BY <1>1, <1>2 DEF BalanceIsAccountedFor, CreditedRows, CreditsAreFinite
<1> QED BY <1>1, <1>5, <1>6, <1>7

\* Nothing is credited and the day does not change: only who may book can.
LEMMA BooksStay ==
    ASSUME TypeOK, BooksInv, UNCHANGED <<balance, entries, today>>, RoomUnderLimit'
    PROVE  BooksInv'
<1>1. CreditedRows' = CreditedRows /\ BalanceIsAccountedFor' /\ DailyLimitKept'
  BY SumsStay DEF BooksInv, Completed
<1> QED BY <1>1 DEF BooksInv, CreditsAreFinite

LEMMA MovesBooks ==
    ASSUME WalletInv, BooksInv, NEW p \in Slots, Moves(p)
    PROVE  BooksInv'
<1>1. TypeOK /\ UNCHANGED <<balance, entries, rides, today>>
  BY MovesTypes DEF WalletInv
<1>2. \A d : BookedSince(d)' = BookedSince(d)
  BY <1>1 DEF BookedSince, Completed, AmountOf
<1>3. \A q \in Slots \ {p} : proc'[q] = proc[q]
  BY DEF WalletInv, TypeOK, Moves, ConfirmTopup, ConfirmRow, AdminTopup, AdminLimit,
         CompleteRide, CompleteRideLock, Abort, Begin, Continue, Finish
<1>4. proc'[p].at = "admin_credit" => BookedSince(today) + proc'[p].amount <= DailyLimit
  <2> USE DEF WalletInv, TypeOK
  <2>1. CASE AdminLimit(p)
    <3>1. CASE BookedSince(today) + proc[p].amount > DailyLimit
      BY <2>1, <3>1 DEF AdminLimit, Finish, IdleHandler
    <3>2. CASE ~(BookedSince(today) + proc[p].amount > DailyLimit)
      <4>1. proc'[p].amount = proc[p].amount
        BY <2>1, <3>2 DEF AdminLimit, Continue, Handler
      <4>2. BookedSince(today) + proc[p].amount <= DailyLimit
        <5>1. BookedSince(today) \in Nat /\ proc[p].amount \in Nat /\ DailyLimit \in Nat
          <6>1. BookedSince(today) \in Nat
            BY BookedIsNat DEF BooksInv
          <6> QED BY <6>1, HandlerAmounts
        <5> QED BY <3>2, <5>1
      <4> QED BY <4>1, <4>2
    <3> QED BY <3>1, <3>2
  <2>2. CASE ~AdminLimit(p)
    BY <2>2 DEF Moves, ConfirmTopup, ConfirmRow, AdminTopup, CompleteRide, CompleteRideLock,
                Abort, Begin, Continue, Finish, IdleHandler, Handler
  <2> QED BY <2>1, <2>2
<1>5. RoomUnderLimit'
  BY <1>1, <1>2, <1>3, <1>4 DEF BooksInv, RoomUnderLimit
<1> QED BY <1>1, <1>5, BooksStay

LEMMA BystandersBooks ==
    ASSUME WalletInv, BooksInv, BystanderSteps
    PROVE  BooksInv'
<1>1. TypeOK /\ CreditsAreFinite
  BY DEF WalletInv, BooksInv
<1> DEFINE Same == \A e \in Entries : /\ Completed(e)' <=> Completed(e)
                                      /\ Completed(e) => entries'[e] = entries[e]
<1>2. Same /\ balance' = balance
  <2>1. ASSUME NEW t \in Topups, NEW a \in Amounts, InitiateTopup(t, a) PROVE Same
    BY <1>1, <2>1 DEF TypeOK, InitiateTopup, Completed
  <2>2. ASSUME NEW t \in Topups, MarkFailed(t) PROVE Same
    BY <1>1, <2>2 DEF TypeOK, EntryRow, MarkFailed, Completed
  <2>3. entries' = entries => Same
    BY DEF Completed
  <2>4. balance' = balance
    BY DEF BystanderSteps, InitiateTopup, MarkFailed, AgreeAndStart, CancelRide, NewDay
  <2> QED BY <2>1, <2>2, <2>3, <2>4 DEF BystanderSteps, AgreeAndStart, CancelRide, NewDay
<1>3. /\ CreditedRows' = CreditedRows /\ BalanceIsAccountedFor' /\ DailyLimitKept'
      /\ \A d : BookedSince(d)' = BookedSince(d)
  BY <1>1, <1>2, SumsStay DEF BooksInv
<1>4. \A q \in Slots : proc'[q].at = proc[q].at /\ proc'[q].amount = proc[q].amount
  <2>1. UNCHANGED proc \/ \E written : CommitAtOnce(written)
    BY DEF BystanderSteps, InitiateTopup, MarkFailed, AgreeAndStart, CancelRide, NewDay
  <2> QED BY <1>1, <2>1, OvertakenStays DEF CommitAtOnce
<1>5. BookedSince(today') <= BookedSince(today) /\ BookedSince(today)' = BookedSince(today')
  <2>1. today' >= today /\ today \in Nat /\ today' \in Nat
    <3>1. today \in Nat
      BY <1>1, DaysAssumption DEF TypeOK
    <3>2. today' = today \/ today' = today + 1
      BY DEF BystanderSteps, InitiateTopup, MarkFailed, AgreeAndStart, CancelRide, NewDay
    <3> QED BY <3>1, <3>2
  <2>2. Since(today') \in SUBSET Since(today)
    <3>1. \A m \in AdminTopups : entries[m].bookedOn \in Nat
      BY <1>1, DaysAssumption DEF TypeOK, EntryRow, Entries
    <3> QED BY <2>1, <3>1 DEF Since
  <2>3. /\ IsFiniteSet(Since(today))
        /\ \A e \in Since(today) : AmountOf[e] \in Nat
    BY <1>1, RowSets, AmountsAreNat DEF CreditedRows
  <2>4. SumFunctionOnSet(AmountOf, Since(today')) <= SumFunctionOnSet(AmountOf, Since(today))
    BY <2>2, <2>3, SumOfPart
  <2>5. BookedSince(today)' = BookedSince(today')
    BY <1>3 DEF BookedSince
  <2> QED BY <2>4, <2>5 DEF BookedSince, Since
<1>6. RoomUnderLimit'
  <2> SUFFICES ASSUME NEW q \in Slots, proc'[q].at = "admin_credit"
               PROVE  BookedSince(today)' + proc'[q].amount <= DailyLimit
    BY DEF RoomUnderLimit
  <2>1. BookedSince(today) + proc[q].amount <= DailyLimit
    BY <1>4 DEF BooksInv, RoomUnderLimit
  <2>2. /\ BookedSince(today) \in Nat /\ BookedSince(today') \in Nat
        /\ proc[q].amount \in Nat /\ DailyLimit \in Nat
    <3>1. BookedSince(today) \in Nat /\ BookedSince(today') \in Nat
      BY <1>1, BookedIsNat
    <3> QED BY <1>1, <3>1, HandlerAmounts
  <2> QED BY <1>4, <1>5, <2>1, <2>2
<1> QED BY <1>3, <1>6 DEF BooksInv, CreditsAreFinite

\* A row that begins to count adds its amount to the balance and to what is said of it.
LEMMA CreditBooks ==
    ASSUME TypeOK, BooksInv, NEW p \in Slots, NEW e \in Entries, NEW amount, NEW written,
           CreditsEntry(p, e, amount, written)
    PROVE  /\ e \notin CreditedRows /\ CreditedRows' = CreditedRows \cup {e}
           /\ \A x \in Entries \ {e} : entries'[x] = entries[x]
           /\ CreditsAreFinite' /\ BalanceIsAccountedFor'
<1>1. /\ e \notin CreditedRows /\ CreditedRows' = CreditedRows \cup {e}
      /\ \A x \in Entries \ {e} : entries'[x] = entries[x]
      /\ entries'[e].amount = amount
  <2>1. PICK day : Book(e, amount, day)
    BY DEF CreditsEntry
  <2> QED BY <2>1 DEF TypeOK, CreditsEntry, Book, CreditedRows, Completed
<1>2. IsFiniteSet(CreditedRows) /\ \A x \in CreditedRows : entries'[x] = entries[x]
  BY <1>1 DEF BooksInv, CreditsAreFinite, CreditedRows
<1>3. IsFiniteSet(CreditedRows')
  BY <1>1, <1>2, FS_AddElement
<1> DEFINE S == CreditedRows
           f == AmountOf'
<1>4. SumFunctionOnSet(f, S \cup {e}) = SumFunctionOnSet(AmountOf, S) + amount
  <2>1. SumFunctionOnSet(f, S) = SumFunctionOnSet(AmountOf, S)
    BY <1>2, SumStays
  <2>2. f[e] = amount /\ amount \in Nat
    BY <1>1 DEF AmountOf, CreditsEntry
  <2>3. \A x \in S \cup {e} : f[x] \in Nat
    <3>1. \A x \in S : f[x] = AmountOf[x] /\ x \in Entries
      BY <1>2 DEF AmountOf, CreditedRows
    <3> QED BY <2>2, <3>1, AmountsAreNat
  <2> HIDE DEF f
  <2>4. SumFunctionOnSet(f, S \cup {e}) = SumFunctionOnSet(f, S) + f[e]
    BY <1>1, <1>2, <2>3, SumWith
  <2> QED BY <2>1, <2>2, <2>4
<1>5. balance' = balance + amount /\ amount \in Nat
  BY DEF CreditsEntry, Credit
<1>6. /\ balance = OpeningBalance + SumFunctionOnSet(AmountOf, S)
      /\ SumFunctionOnSet(AmountOf, S) \in Nat
  <2>1. \A x \in S : AmountOf[x] \in Nat
    BY AmountsAreNat DEF CreditedRows
  <2>2. SumFunctionOnSet(AmountOf, S) \in Nat
    BY <1>2, <2>1, SumWithout
  <2> QED BY <2>2 DEF BooksInv, BalanceIsAccountedFor, CreditedRows
<1>7. OpeningBalance \in Nat
  BY AmountsAssumption
<1>8. BalanceIsAccountedFor'
  <2>1. balance' = OpeningBalance + SumFunctionOnSet(f, CreditedRows')
    BY <1>1, <1>4, <1>5, <1>6, <1>7
  <2> QED BY <2>1 DEF BalanceIsAccountedFor, CreditedRows
<1> QED BY <1>1, <1>3, <1>8 DEF CreditsAreFinite

\* A ride's earning or a confirmed top-up is no manual one.
LEMMA OtherCreditBooks ==
    ASSUME WalletInv, BooksInv, NEW p \in Slots, NEW e \in Entries \ AdminTopups, NEW amount,
           NEW written, CreditsEntry(p, e, amount, written)
    PROVE  BooksInv'
<1>1. TypeOK /\ CreditsAreFinite
  BY DEF WalletInv, BooksInv
<1>2. /\ CreditsAreFinite' /\ BalanceIsAccountedFor'
      /\ \A x \in Entries \ {e} : entries'[x] = entries[x]
  BY <1>1, CreditBooks
<1>3. \A m \in AdminTopups : entries'[m] = entries[m]
  BY <1>2 DEF Entries
<1>4. \A d : Since(d)' = Since(d) /\ DayRows(d)' = DayRows(d)
  BY <1>3 DEF Since, DayRows, Completed
<1>5. ASSUME NEW S \in SUBSET AdminTopups, S \in SUBSET CreditedRows, IsFiniteSet(S)
      PROVE  SumFunctionOnSet(AmountOf', S) = SumFunctionOnSet(AmountOf, S)
  BY <1>1, <1>3, <1>5, SumStays
<1>6. \A d : Since(d) \in SUBSET AdminTopups /\ DayRows(d) \in SUBSET AdminTopups
  BY DEF Since, DayRows
<1>7. \A d : BookedSince(d)' = BookedSince(d)
  BY <1>1, <1>4, <1>5, <1>6, RowSets DEF BookedSince, Since
<1>8. DailyLimitKept'
  BY <1>1, <1>4, <1>5, <1>6, RowSets DEF BooksInv, DailyLimitKept, DayRows
<1>9. RoomUnderLimit'
  <2>1. /\ proc'[p].at = "idle" /\ today' = today
        /\ \A q \in Slots \ {p} : proc'[q].at = proc[q].at /\ proc'[q].amount = proc[q].amount
    BY CreditLocks DEF CreditsEntry
  <2>2. BookedSince(today)' = BookedSince(today)
    BY <1>7, <2>1 DEF BookedSince
  <2> QED BY <2>1, <2>2 DEF BooksInv, RoomUnderLimit
<1> QED BY <1>2, <1>8, <1>9 DEF BooksInv

\* The manual top-up that holds the wallet is the only one to have passed the limit, and
\* what it adds to today was counted then.
LEMMA AdminCreditBooks ==
    ASSUME WalletInv, BooksInv, NEW p \in Slots, AdminCredit(p)
    PROVE  BooksInv'
<1> DEFINE amount == proc[p].amount
<1>1. TypeOK /\ CreditsAreFinite
  BY DEF WalletInv, BooksInv
<1>2. PICK m \in AdminTopups : entries[m].status = "none" /\ Book(m, amount, today)
  BY DEF AdminCredit
<1>3. m \in Entries /\ CreditsEntry(p, m, amount, {Wallet})
  <2>1. amount \in Nat \ {0} /\ today \in 0..LastDay
    BY AmountsAssumption DEF WalletInv, TypeOK, RowsHeldStay, AdminCredit
  <2> QED BY <1>2, <2>1 DEF AdminCredit, CreditsEntry, Entries, Rows
<1>4. /\ CreditsAreFinite' /\ BalanceIsAccountedFor' /\ m \notin CreditedRows
      /\ \A x \in Entries \ {m} : entries'[x] = entries[x]
  BY <1>1, <1>3, CreditBooks
<1>5. Completed(m)' /\ ~Completed(m) /\ entries'[m].amount = amount /\ entries'[m].bookedOn = today
  BY <1>1, <1>2, <1>3 DEF TypeOK, Book, Completed
<1>6. \A x \in AdminTopups \ {m} : entries'[x] = entries[x]
  BY <1>4 DEF Entries
<1>7. \A d : DayRows(d)' = IF d = today THEN DayRows(d) \cup {m} ELSE DayRows(d)
  BY <1>5, <1>6 DEF DayRows, Completed
<1>8. \A d : SumFunctionOnSet(AmountOf', DayRows(d)) = SumFunctionOnSet(AmountOf, DayRows(d))
  <2>1. \A d : \A x \in DayRows(d) : entries'[x] = entries[x]
    BY <1>5, <1>6 DEF DayRows
  <2> QED BY <1>1, <2>1, RowSets, SumStays
<1>9. SumFunctionOnSet(AmountOf', DayRows(today) \cup {m}) <= DailyLimit
  <2> DEFINE f == AmountOf'
             S == DayRows(today)
  <2>1. IsFiniteSet(S) /\ m \notin S /\ S \in SUBSET CreditedRows
    BY <1>1, <1>5, RowSets DEF DayRows
  <2>2. f[m] = amount /\ amount \in Nat
    BY <1>1, <1>3, <1>5, HandlerAmounts DEF AmountOf
  <2>3. \A x \in S \cup {m} : f[x] \in Nat
    <3>1. \A x \in S : f[x] = AmountOf[x] /\ x \in Entries
      BY <1>6, <2>1 DEF AmountOf, DayRows, Entries
    <3> QED BY <1>1, <2>2, <3>1, AmountsAreNat
  <2> HIDE DEF f
  <2>4. SumFunctionOnSet(f, S \cup {m}) = SumFunctionOnSet(f, S) + f[m]
    BY <2>1, <2>3, SumWith
  <2> HIDE DEF S
  <2>5. SumFunctionOnSet(f, S) = SumFunctionOnSet(AmountOf, S)
    BY <1>8 DEF f, S
  <2>6. SumFunctionOnSet(AmountOf, S) <= BookedSince(today)
    <3>1. S \in SUBSET Since(today)
      <4>1. today \in Nat
        BY <1>1, DaysAssumption DEF TypeOK
      <4> QED BY <4>1 DEF S, DayRows, Since
    <3>2. IsFiniteSet(Since(today)) /\ \A x \in Since(today) : AmountOf[x] \in Nat
      BY <1>1, RowSets, AmountsAreNat DEF CreditedRows
    <3> QED BY <3>1, <3>2, SumOfPart DEF BookedSince, Since
  <2>7. BookedSince(today) + amount <= DailyLimit
    BY DEF BooksInv, RoomUnderLimit, AdminCredit
  <2>8. /\ BookedSince(today) \in Nat /\ DailyLimit \in Nat
        /\ SumFunctionOnSet(AmountOf, S) \in Nat
    <3>1. \A x \in S : AmountOf[x] \in Nat
      BY <1>1, <2>1, AmountsAreNat DEF CreditedRows
    <3> QED BY <1>1, <2>1, <3>1, BookedIsNat, HandlerAmounts, SumWithout
  <2> QED BY <2>2, <2>4, <2>5, <2>6, <2>7, <2>8 DEF f, S
<1>10. DailyLimitKept'
  <2> SUFFICES ASSUME NEW d \in 0..LastDay
               PROVE  SumFunctionOnSet(AmountOf', DayRows(d)') <= DailyLimit
    BY DEF DailyLimitKept, DayRows
  <2>1. SumFunctionOnSet(AmountOf, DayRows(d)) <= DailyLimit
    BY DEF BooksInv, DailyLimitKept, DayRows
  <2> QED BY <1>7, <1>8, <1>9, <2>1
<1>11. RoomUnderLimit'
  <2>1. /\ proc'[p].at = "idle"
        /\ \A q \in Slots \ {p} : proc'[q].at = proc[q].at
    BY <1>3, CreditLocks DEF CreditsEntry
  <2>2. \A q \in Slots \ {p} : proc[q].at # "admin_credit"
    <3>1. \A q \in Slots : proc[q].at = "admin_credit" => Holds(q, Wallet)
      BY DEF Holds
    <3> QED BY <3>1 DEF WalletInv, LocksExclude, AdminCredit, Rows
  <2> QED BY <2>1, <2>2 DEF RoomUnderLimit
<1> QED BY <1>4, <1>10, <1>11 DEF BooksInv

LEMMA InitBooks == Init => BooksInv
<1> SUFFICES ASSUME Init PROVE BooksInv
  OBVIOUS
<1>1. CreditedRows = {} /\ \A d : DayRows(d) = {}
  BY DEF Init, CreditedRows, DayRows, Completed, Entries
<1>2. CreditsAreFinite
  BY <1>1, FS_EmptySet DEF CreditsAreFinite
<1>3. BalanceIsAccountedFor
  BY <1>1, SumOfNone, AmountsAssumption DEF Init, BalanceIsAccountedFor, CreditedRows
<1>4. DailyLimitKept
  BY <1>1, SumOfNone, AmountsAssumption DEF DailyLimitKept, DayRows
<1>5. RoomUnderLimit
  BY DEF Init, RoomUnderLimit, IdleHandler
<1> QED BY <1>2, <1>3, <1>4, <1>5 DEF BooksInv

LEMMA BooksStep == WalletInv /\ BooksInv /\ [Next]_vars => BooksInv'
<1> SUFFICES ASSUME WalletInv, BooksInv, [Next]_vars PROVE BooksInv'
  OBVIOUS
<1>1. CASE UNCHANGED vars
  <2>1. RoomUnderLimit'
    BY <1>1 DEF vars, BooksInv, RoomUnderLimit, BookedSince, Completed, AmountOf
  <2> QED BY <1>1, <2>1, BooksStay DEF vars, WalletInv
<1>2. ASSUME NEW p \in Slots, ConfirmCredit(p) PROVE BooksInv'
  BY <1>2, ConfirmCredits, OtherCreditBooks, RowsAssumption DEF Entries
<1>3. ASSUME NEW p \in Slots, CompleteSettle(p) PROVE BooksInv'
  BY <1>3, SettleCredits, OtherCreditBooks, RowsAssumption DEF Entries
<1> QED BY <1>1, <1>2, <1>3, MovesBooks, BystandersBooks, AdminCreditBooks, NextSteps DEF Credits

-----------------------------------------------------------------------------
(* The theorems *)

\* In every reachable state a handler finds the row it has locked as it left it,
\* and no two handlers hold the same row.
THEOREM WalletInvariance == Spec => []WalletInv
<1> QED BY InitWalletInv, InvariantStep, PTL DEF Spec

\* Rows, rides and handlers keep their types; the balance is never negative.
THEOREM WalletTypes == Spec => []TypeOK
<1>1. WalletInv => TypeOK
  BY DEF WalletInv
<1> QED BY <1>1, WalletInvariance, PTL

\* completeRide and cancelRide leave a ride paid exactly when it is completed.
THEOREM RideIsPaidOnce == Spec => []PaidIffCompleted
<1>1. WalletInv => PaidIffCompleted
  BY DEF WalletInv
<1> QED BY <1>1, WalletInvariance, PTL

\* The books of every reachable state add up, and a manual top-up that has passed the
\* limit still fits under it.
THEOREM BooksInvariance == Spec => []BooksInv
<1> QED BY InitBooks, BooksStep, WalletInvariance, PTL DEF Spec

\* The balance is the opening balance and the completed entries, however confirmations,
\* manual top-ups and completions interleave: no update of the wallet is lost.
THEOREM BalanceAddsUp == Spec => []BalanceIsAccountedFor
<1>1. BooksInv => BalanceIsAccountedFor
  BY DEF BooksInv
<1> QED BY <1>1, BooksInvariance, PTL

\* No day's manual top-ups exceed the limit of adminTopup.
THEOREM LimitHoldsEveryDay == Spec => []DailyLimitKept
<1>1. BooksInv => DailyLimitKept
  BY DEF BooksInv
<1> QED BY <1>1, BooksInvariance, PTL

\* The first to commit on a top-up, confirmation or failure report, has the last word.
THEOREM TopupsSettleOnce == Spec => SettledIsFinal
<1> DEFINE Stays == \A e \in Entries :
                        entries[e].status \in {"completed", "failed"} => entries'[e] = entries[e]
<1>1. WalletInv /\ [Next]_vars => [Stays]_vars
  <2> SUFFICES ASSUME WalletInv, Next PROVE Stays
    OBVIOUS
  <2>1. ASSUME NEW p \in Slots, Moves(p) PROVE Stays
    BY <2>1, MovesTypes DEF WalletInv
  <2>2. CASE BystanderSteps
    BY <2>2 DEF WalletInv, TypeOK, BystanderSteps, InitiateTopup, MarkFailed, AgreeAndStart,
                CancelRide, NewDay
  <2>3. ASSUME NEW p \in Slots, Credits(p) PROVE Stays
    <3>1. PICK e, amount, written : e \in Entries /\ CreditsEntry(p, e, amount, written)
      BY <2>3, ConfirmCredits, AdminCredits, SettleCredits DEF Credits, Entries
    <3> QED BY <3>1 DEF WalletInv, TypeOK, CreditsEntry, Book
  <2> QED BY <2>1, <2>2, <2>3, NextSteps
<1> QED BY <1>1, WalletInvariance, PTL DEF Spec, SettledIsFinal

\* Every step is a posting of the ledger or leaves it alone, so an entry is credited
\* at most once, with its amount.
THEOREM WalletImplementsLedger == Spec => WalletIsLedger
<1> DEFINE Posted == [e \in Entries |-> IF Completed(e) THEN entries[e].amount ELSE 0]
<1>1. Init => Ledger!LedgerInit
  BY DEF Init, Ledger!LedgerInit, Completed
<1>2. WalletInv /\ [Next]_vars => [Ledger!LedgerNext]_(Ledger!ledgerVars)
  <2> SUFFICES ASSUME WalletInv, [Next]_vars
               PROVE  Ledger!LedgerNext \/ (balance' = balance /\ Posted' = Posted)
    BY DEF Ledger!ledgerVars
  <2>1. CASE UNCHANGED vars
    BY <2>1 DEF vars, Completed
  <2>2. ASSUME NEW p \in Slots, Moves(p) PROVE balance' = balance /\ Posted' = Posted
    BY <2>2, MovesTypes DEF WalletInv, Completed
  <2>3. CASE BystanderSteps
    <3> DEFINE AsBefore == \A e \in Entries :
                             /\ Completed(e)' <=> Completed(e)
                             /\ Completed(e) => entries'[e].amount = entries[e].amount
    <3>1. AsBefore
      <4>1. ASSUME NEW t \in Topups, NEW a \in Amounts, InitiateTopup(t, a) PROVE AsBefore
        BY <4>1 DEF WalletInv, TypeOK, InitiateTopup, Completed
      <4>2. ASSUME NEW t \in Topups, MarkFailed(t) PROVE AsBefore
        BY <4>2 DEF WalletInv, TypeOK, EntryRow, MarkFailed, Completed
      <4>3. entries' = entries => AsBefore
        BY DEF Completed
      <4> QED BY <2>3, <4>1, <4>2, <4>3 DEF BystanderSteps, AgreeAndStart, CancelRide, NewDay
    <3>2. balance' = balance
      BY <2>3 DEF BystanderSteps, InitiateTopup, MarkFailed, AgreeAndStart, CancelRide, NewDay
    <3> QED BY <3>1, <3>2
  <2>4. ASSUME NEW p \in Slots, Credits(p) PROVE Ledger!LedgerNext
    <3>1. PICK e, amount, written : e \in Entries /\ CreditsEntry(p, e, amount, written)
      BY <2>4, ConfirmCredits, AdminCredits, SettleCredits DEF Credits, Entries
    <3>2. /\ Posted[e] = 0 /\ balance' = balance + amount /\ amount \in Nat \ {0}
          /\ Posted' = [Posted EXCEPT ![e] = amount]
      <4>1. PICK day : Book(e, amount, day)
        BY <3>1 DEF CreditsEntry
      <4>2. /\ ~Completed(e) /\ entries'[e].status = "completed" /\ entries'[e].amount = amount
            /\ \A x \in Entries \ {e} : entries'[x] = entries[x]
        BY <3>1, <4>1 DEF WalletInv, TypeOK, CreditsEntry, Book, Completed
      <4> QED BY <3>1, <4>2 DEF CreditsEntry, Credit, Completed
    <3> QED BY <3>1, <3>2 DEF Ledger!LedgerNext, Ledger!Post
  <2> QED BY <2>1, <2>2, <2>3, <2>4, NextSteps
<1> QED BY <1>1, <1>2, WalletInvariance, PTL DEF Spec, WalletIsLedger, Ledger!LedgerSpec
=============================================================================
