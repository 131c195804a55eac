-------------------------- MODULE MCRideNegotiation --------------------------
(* RideNegotiation on small sets of drivers, offers and handler slots. *)
EXTENDS RideNegotiation, TLC

Symmetry == Permutations(Drivers) \cup Permutations(Offers)
            \cup Permutations(Requests) \cup Permutations(Workers)
=============================================================================
