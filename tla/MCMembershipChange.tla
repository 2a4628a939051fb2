------------------------- MODULE MCMembershipChange -------------------------
EXTENDS MembershipChange, TLC

(* One change may touch the collector that the other one comes to last.      *)
MCSelections == {{2}, {1, 2}}

(* Goroutines are alike, and so are groups.                                  *)
Symmetry == Permutations(Handlers) \cup Permutations(Groups)
=============================================================================
