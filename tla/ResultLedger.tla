---------------------------- MODULE ResultLedger ----------------------------
(***************************************************************************)
(* What the result path promises, whatever its parts do: a match is open,  *)
(* then perhaps stored (in btp-retry.json, where a restart cannot reach    *)
(* it), and finally scored in BTP.  It never falls back, and nobody is     *)
(* told "ok" about a match that is still open.                             *)
(***************************************************************************)
CONSTANT Match

VARIABLES
    status,     \* of each match
    promised    \* matches about which somebody has been told "ok"

vars == <<status, promised>>

Init ==
    /\ status = [m \in Match |-> "open"]
    /\ promised = {}

\* One write of the file may store the results of several matches.
Store(S) ==
    /\ \A m \in S : status[m] = "open"
    /\ status' = [m \in Match |-> IF m \in S THEN "stored" ELSE status[m]]
    /\ UNCHANGED promised

Score(m) ==
    /\ status' = [status EXCEPT ![m] = "scored"]
    /\ UNCHANGED promised

Promise(m) ==
    /\ status[m] # "open"
    /\ promised' = promised \cup {m}
    /\ UNCHANGED status

Next ==
    \/ \E S \in SUBSET Match : Store(S)
    \/ \E m \in Match : Score(m) \/ Promise(m)

Spec == Init /\ [][Next]_vars
=============================================================================
