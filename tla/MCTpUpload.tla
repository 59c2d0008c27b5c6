---------------------------- MODULE MCTpUpload ----------------------------
(* A small instance of TpUpload: one write, one step, one click, and two
   configurations of one file, of which one has a wrong address or password. *)
EXTENDS TpUpload

CONSTANTS w1, s1, p1, tp

StepAndPress == {s1, p1}
OneFile == [c \in Config |-> tp]
=============================================================================
