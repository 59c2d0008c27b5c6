----------------------------- MODULE WriteGate -----------------------------
(* The gate between the host's own writes to BTP and the copy of the open TP
   file: a tokio RwLock (btp/write_gate.rs). A write holds it shared for its
   whole duration, the copy holds it alone. Whoever cannot have it at once
   joins one line, and nobody passes the line, so a waiting copy holds back
   the writes that come after it. The 20 seconds a copy waits at most and the
   end of a write are choices. *)
EXTENDS Naturals, Sequences

CONSTANTS
    Write,   \* calls of the four write_*_to_btp
    Job,     \* uploads that may want the copy
    NoJob

ASSUME GateAssumption == NoJob \notin Job /\ Write \cap Job = {}

VARIABLES
    write,   \* each write: "idle", "waiting", "writing", then "answered" or "lost"
    copier,  \* the job that holds the lock alone, or NoJob
    line     \* those who wait, the first at the head

gateVars == <<write, copier, line>>

Writing == {w \in Write : write[w] = "writing"}

GateInit ==
    /\ write = [w \in Write |-> "idle"]
    /\ copier = NoJob
    /\ line = <<>>

(* Whoever waits has one place in the line. *)
Places(x) == {i \in DOMAIN line : line[i] = x}
Leave(x) ==
    \/ Places(x) = {} /\ UNCHANGED line
    \/ \E i \in Places(x) :
          line' = SubSeq(line, 1, i - 1) \o SubSeq(line, i + 1, Len(line))

(* schreiben(): a free read lock, or a place in the line. *)
WriteArrives(w) ==
    /\ write[w] = "idle"
    /\ IF copier = NoJob /\ line = <<>>
       THEN write' = [write EXCEPT ![w] = "writing"] /\ UNCHANGED line
       ELSE write' = [write EXCEPT ![w] = "waiting"] /\ line' = Append(line, w)
    /\ UNCHANGED copier

(* The guard falls with the answer of BTP. *)
WriteEnds(w) ==
    /\ write[w] = "writing"
    /\ write' = [write EXCEPT ![w] = "answered"]
    /\ UNCHANGED <<copier, line>>

(* The guard or the place falls without one: error, timeout, dropped task. *)
WriteBreaksOff(w) ==
    /\ write[w] \in {"waiting", "writing"}
    /\ write' = [write EXCEPT ![w] = "lost"]
    /\ Leave(w)
    /\ UNCHANGED copier

(* fuer_kopie(): the write lock, or a place in the line. *)
CopyArrives(j) ==
    /\ IF copier = NoJob /\ line = <<>> /\ Writing = {}
       THEN copier' = j /\ UNCHANGED line
       ELSE line' = Append(line, j) /\ UNCHANGED copier
    /\ UNCHANGED write

(* Beschaeftigt: only the copy's place in the line lapses. *)
CopyGivesUp(j) ==
    /\ j \in Job
    /\ Places(j) # {}
    /\ Leave(j)
    /\ UNCHANGED <<write, copier>>

(* The KopieGuard falls. *)
CopyEnds(j) ==
    /\ copier = j
    /\ copier' = NoJob
    /\ UNCHANGED <<write, line>>

(* A plausible bug: the copy, preferred, does not wait for running writes. *)
AdmitWithoutWaiting ==
    /\ line # <<>>
    /\ copier = NoJob
    /\ \/ /\ Head(line) \in Write
          /\ write' = [write EXCEPT ![Head(line)] = "writing"]
          /\ UNCHANGED copier
       \/ /\ Head(line) \in Job
          /\ copier' = Head(line)
          /\ UNCHANGED write
    /\ line' = Tail(line)

(* The lock goes to the first in the line as soon as it can have it. *)
AdmitFirst ==
    /\ line # <<>>
    /\ copier = NoJob
    /\ \/ /\ Head(line) \in Write
          /\ write' = [write EXCEPT ![Head(line)] = "writing"]
          /\ UNCHANGED copier
       \/ /\ Head(line) \in Job
          /\ Writing = {}
          /\ copier' = Head(line)
          /\ UNCHANGED write
    /\ line' = Tail(line)

WriteStep(w) == WriteArrives(w) \/ WriteEnds(w) \/ WriteBreaksOff(w)
CopyStep(j) == CopyArrives(j) \/ CopyGivesUp(j) \/ CopyEnds(j)

GateNext ==
    \/ \E w \in Write : WriteStep(w)
    \/ \E j \in Job : CopyStep(j)
    \/ AdmitFirst

GateSpec == GateInit /\ [][GateNext]_gateVars

-----------------------------------------------------------------------------
(* "Eine garantierte Luecke" of write_gate.rs: while a copy rests or reads, no
   write of the host has the lock, however long the line and whoever gives up. *)
CopyMeetsNoWrite == copier # NoJob => Writing = {}

=============================================================================
