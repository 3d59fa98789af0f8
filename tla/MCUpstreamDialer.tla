------------------------- MODULE MCUpstreamDialer -------------------------
(* Three interchangeable calls. *)
EXTENDS UpstreamDialer, TLC

CallSymmetry == Permutations(Call)
===========================================================================
