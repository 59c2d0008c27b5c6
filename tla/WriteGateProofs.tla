-------------------------- MODULE WriteGateProofs --------------------------
(* The gap the gate guarantees, for any number of writes and uploads, and that
   the upload keeps to the gate. *)
EXTENDS TpUpload, TLAPS

(* Whoever may be admitted is admitted alone: the exclusion is inductive once
   the states of the writes are known to be a function on Write. *)
GateInv == write \in [Write -> {"idle", "waiting", "writing", "answered", "lost"}]
           /\ CopyMeetsNoWrite

LEMMA GateInitially == GateInit => GateInv
  BY DEF GateInit, GateInv, CopyMeetsNoWrite

LEMMA GateStep == GateInv /\ [GateNext]_gateVars => GateInv'
<1> SUFFICES ASSUME GateInv, [GateNext]_gateVars PROVE GateInv'
  OBVIOUS
<1> USE GateAssumption DEF GateInv, CopyMeetsNoWrite, Writing
<1>1. CASE UNCHANGED gateVars
  BY <1>1 DEF gateVars
<1>2. ASSUME NEW w \in Write, WriteStep(w) PROVE GateInv'
  <2>1. CASE WriteArrives(w)
    BY <2>1 DEF WriteArrives
  <2>2. CASE WriteEnds(w)
    BY <2>2 DEF WriteEnds
  <2>3. CASE WriteBreaksOff(w)
    BY <2>3 DEF WriteBreaksOff
  <2> QED BY <1>2, <2>1, <2>2, <2>3 DEF WriteStep
<1>3. ASSUME NEW j \in Job, CopyStep(j) PROVE GateInv'
  BY <1>3 DEF CopyStep, CopyArrives, CopyGivesUp, CopyEnds
<1>4. CASE AdmitFirst
  BY <1>4 DEF AdmitFirst
<1> QED BY <1>1, <1>2, <1>3, <1>4 DEF GateNext

(* write_gate.rs, "garantierte Luecke": while a copy holds the gate no write of
   the host does. *)
THEOREM GapIsGuaranteed == GateSpec => []CopyMeetsNoWrite
<1>1. GateInv => CopyMeetsNoWrite
  BY DEF GateInv
<1> QED BY <1>1, GateInitially, GateStep, PTL DEF GateSpec

-----------------------------------------------------------------------------
(* A step that leaves the gate alone, or is a step of the gate. *)
LEMMA UploadStep == [Next]_vars => [GateNext]_gateVars
<1> SUFFICES ASSUME [Next]_vars PROVE [GateNext]_gateVars
  OBVIOUS
<1> USE UploadAssumption DEF OnlyTheJob, upVars
<1>1. CASE UNCHANGED vars
  BY <1>1 DEF vars
<1>2. ASSUME NEW w \in Write, HostWrites(w) \/ BtpExecutes(w) PROVE [GateNext]_gateVars
  BY <1>2 DEF HostWrites, BtpExecutes, WriteBegins, WriteAnswered, WriteFails, WriteStep, GateNext
<1>3. CASE EnteredByHand \/ BtpSaves \/ SaveEnds \/ LoopStarts \/ LoopAborted \/ DateComes
  BY <1>3 DEF EnteredByHand, BtpSaves, SaveEnds, LoopStarts, LoopAborted, DateComes
<1>4. CASE Admit
  BY <1>4 DEF Admit, GateNext
<1>5. ASSUME NEW c \in Config, SaveBegins(c) PROVE [GateNext]_gateVars
  BY <1>5 DEF SaveBegins
<1>6. ASSUME NEW s \in Step, Checks(s) PROVE [GateNext]_gateVars
  <2>1. CASE StepUploads(s)
    BY <2>1 DEF StepUploads, CopyStep, GateNext
  <2>2. CASE ~StepUploads(s)
    BY <1>6, <2>2 DEF Checks, StepBegins, Asks, Looks, LookFails, Compares, StepFiles
  <2> QED BY <2>1, <2>2
<1>7. ASSUME NEW p \in Press, PressUploads(p) \/ PressFiles(p) PROVE [GateNext]_gateVars
  BY <1>7 DEF PressUploads, PressFiles, CopyStep, GateNext
<1>8. ASSUME NEW j \in Job, Uploads(j) PROVE [GateNext]_gateVars
  <2>1. CASE GateIsBusy(j)
    BY <2>1 DEF GateIsBusy, CopyStep, GateNext
  <2>2. CASE Takes(j) \/ ReadsAgain(j) \/ ReadFails(j) \/ UploadPanics(j)
    BY <2>2 DEF Takes, ReadsAgain, ReadFails, UploadPanics, CopyStep, GateNext
  <2>3. CASE Reads(j) \/ NotSent(j) \/ UploadEnds(j) \/ NetFalls(j)
    BY <2>3 DEF Reads, NotSent, UploadEnds, NetFalls
  <2>4. ASSUME NEW out \in Outcomes, Sent(j, out) PROVE [GateNext]_gateVars
    BY <2>4 DEF Sent
  <2> QED BY <1>8, <2>1, <2>2, <2>3, <2>4 DEF Uploads
<1> QED BY <1>1, <1>2, <1>3, <1>4, <1>5, <1>6, <1>7, <1>8 DEF Next

(* Every upload, by the button or by the automatic check, whatever fails in it,
   uses the gate as write_gate.rs means it: TpUpload implements WriteGate. *)
THEOREM UploadKeepsGate == Spec => GateIsKept
<1>1. Init => GateInit
  BY DEF Init
<1> QED BY <1>1, UploadStep, PTL DEF Spec, GateSpec, GateIsKept

(* So no file is read while a write of the host has the gate. *)
THEOREM NoWriteDuringCopy == Spec => []CopyMeetsNoWrite
  BY UploadKeepsGate, GapIsGuaranteed, PTL DEF GateIsKept
=============================================================================
