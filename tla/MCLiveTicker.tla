---------------------------- MODULE MCLiveTicker ----------------------------
(* Small instances of LiveTicker: different troubles, a few at a time. *)
EXTENDS LiveTicker

Quiet == [points |-> 0, typed |-> 0, moves |-> 0, ends |-> 0, calls |-> 0,
          hiccups |-> 0, failures |-> 0, delays |-> 0, restarts |-> 0,
          heartbeat |-> TRUE]

Days == {
    [Quiet EXCEPT !.points = 2, !.typed = 2, !.heartbeat = FALSE],
    [Quiet EXCEPT !.calls = 2, !.moves = 2, !.hiccups = 2, !.failures = 1,
                  !.heartbeat = FALSE],
    [Quiet EXCEPT !.points = 2, !.failures = 1, !.delays = 1],
    [Quiet EXCEPT !.points = 1, !.moves = 1, !.delays = 1],
    [Quiet EXCEPT !.points = 1, !.ends = 2],
    [Quiet EXCEPT !.points = 1, !.ends = 1, !.delays = 1],
    [Quiet EXCEPT !.points = 2, !.restarts = 1]}

OneResult == {[Quiet EXCEPT !.points = 1, !.ends = 1]}
=============================================================================
