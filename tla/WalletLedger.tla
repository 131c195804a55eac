---------------------------- MODULE WalletLedger ----------------------------
(***************************************************************************)
(* What a driver's wallet promises: it is the sum of the entries posted to *)
(* it.  An entry is posted once, with a positive amount, in the step that  *)
(* adds this amount to the balance, and is never taken back or rewritten.  *)
(***************************************************************************)
EXTENDS Naturals

CONSTANTS Entries,        \* what can be credited: a top-up, the earning of a ride
          OpeningBalance  \* the balance a new wallet has

VARIABLES total,   \* the balance
          posted   \* the amount of each entry; 0 as long as it is not posted

ledgerVars == <<total, posted>>

LedgerInit ==
    /\ total = OpeningBalance
    /\ posted = [e \in Entries |-> 0]

Post(e) ==
    /\ posted[e] = 0
    /\ posted'[e] \in Nat \ {0}
    /\ posted' = [posted EXCEPT ![e] = posted'[e]]
    /\ total' = total + posted'[e]

LedgerNext == \E e \in Entries : Post(e)

LedgerSpec == LedgerInit /\ [][LedgerNext]_ledgerVars
=============================================================================
