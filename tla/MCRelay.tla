------------------------------- MODULE MCRelay -------------------------------
(* Small instances of Relay: a device with two sessions and a second device;
   either tablets and a court that changes, or calls. *)
EXTENDS Relay, TLC

CONSTANTS s1, s2, s3

TwoDevices(s) == IF s \in {s1, s2} THEN "first" ELSE "second"

Allowed(cuts, changes, joins, calls) ==
    [cuts |-> cuts, changes |-> changes, joins |-> joins, calls |-> calls]

CourtOrCalls == {Allowed(1, 2, 0, 0), Allowed(1, 1, 1, 0), Allowed(0, 3, 1, 0),
                 Allowed(0, 1, 2, 0), Allowed(1, 0, 2, 0), Allowed(1, 0, 0, 2)}
=============================================================================
