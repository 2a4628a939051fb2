--------------------------- MODULE MCGroupAccess ----------------------------
(* Instances of GroupAccess for TLC: three selectors over two labels, the    *)
(* first two of which exclude one another, and every label set that has both.*)
EXTENDS GroupAccess, TLC

MCSelectors == {"app" :> 1, "app" :> 2, "env" :> 1}
MCCollectors == [{"app", "env"} -> 1 .. 2]
MCRoleSets == {{}, {"group_owner"}, {"viewer"}}
Symmetry == Permutations(Handlers) \cup Permutations(Users) \cup Permutations(Groups)
=============================================================================
