--------------------------- MODULE MCCourtSession ---------------------------
(* Small instances of CourtSession: either connections are lost and come back
   during one match, or matches follow each other on the court. *)
EXTENDS CourtSession, TLC

Spent(connections, changes) ==
    [conns |-> connections, polls |-> changes, results |-> 0]

LostOrNext == {Spent(0, MaxPolls), Spent(1, 0)}
AllOfIt == {Spent(0, 0)}

Symmetry == Permutations(Device) \cup Permutations(Match)
=============================================================================
