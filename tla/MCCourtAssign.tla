---------------------------- MODULE MCCourtAssign ----------------------------
(* Small instances of CourtAssign. *)
EXTENDS CourtAssign, TLC

Symmetry == Permutations(Match) \cup Permutations(Court)
                \cup Permutations(Desk)
=============================================================================
