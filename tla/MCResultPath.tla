---------------------------- MODULE MCResultPath ----------------------------
(* Small instances of ResultPath: two tournaments share the match numbers and
   have results of their own. *)
EXTENDS ResultPath, TLC

CONSTANTS m1, m2, m3, r1, r2, r3, bad, t1, t2, a1, a2

OneMatch == {m1}
TwoMatches == {m1, m2}
ThreeMatches == {m1, m2, m3}
OneResult == (t1 :> {r1})
OneTournament == (t1 :> {r1, r2})
TwoWithInvalid == (t1 :> {r1, bad}) @@ (t2 :> {r3})
OneRequest == {a1}
TwoRequests == {a1, a2}

One(sources) == [entered |-> (m1 :> 0), restarts |-> 0, switches |-> 0,
                 sources |-> sources, hands |-> TRUE, aging |-> FALSE]
Two(n1, n2, restarts, switches, sources, hands) ==
    [entered |-> (m1 :> n1) @@ (m2 :> n2), restarts |-> restarts,
     switches |-> switches, sources |-> sources, hands |-> hands, aging |-> FALSE]
Three(n1, n2, n3, restarts, switches, sources, aging) ==
    [entered |-> (m1 :> n1) @@ (m2 :> n2) @@ (m3 :> n3), restarts |-> restarts,
     switches |-> switches, sources |-> sources, hands |-> FALSE, aging |-> aging]

Races == {One({"tablet", "desk"})}
DeskRaces == {One({"desk"})}
TabletRaces == {One({"tablet"})}
OneRestart == {Two(0, 0, 0, 0, {"desk"}, TRUE)}
\* For a queue of two places: a result for each of three matches; two for one
\* of two matches and a restart; old entries and a restart; or two results of a
\* tablet and another tournament.
RestartOrSwitch == {Three(1, 1, 1, 1, 1, {"desk"}, FALSE),
                    Three(0, 1, 2, 0, 1, {"desk"}, FALSE),
                    Three(0, 2, 2, 0, 1, {"desk"}, TRUE),
                    Three(0, 2, 2, 1, 0, {"tablet"}, FALSE)}

RequestsAndResults == Permutations(TwoRequests) \cup Permutations({r1, r2})
=============================================================================
