--------------------------- MODULE MCDriverWallet ---------------------------
(* DriverWallet with a few rows and handlers, amounts and limits as configured. *)
EXTENDS DriverWallet, TLC

Symmetry == Permutations(Topups) \cup Permutations(AdminTopups)
            \cup Permutations(Rides) \cup Permutations(Slots)
=============================================================================
