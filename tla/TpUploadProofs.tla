--------------------------- MODULE TpUploadProofs ---------------------------
(* What goes out of the upload, and that one runs at a time, for any number of
   writes, steps, clicks and configurations. *)
EXTENDS WriteGateProofs, SequenceTheorems, FiniteSetTheorems

At == {"idle", "asks", "looks", "compares", "differs", "drops", "files", "done",
       "gate", "reads", "sends", "ends", "unwinds"}
JobType == [at : At, config : Config \cup {NoConfig}, bytes : Nat, reads : Nat,
            out : Outcomes \cup {"none"}]

(* What the two invariants need of the types; the bounds of TypeOK play no part. *)
WorkTyped ==
    /\ job \in [Job -> JobType]
    /\ config \in Config /\ saving \in Config \cup {NoConfig} /\ laeuft \in BOOLEAN
    /\ crossed \in BOOLEAN
    /\ exec \in [Write -> Nat]
    /\ mem \in Nat /\ disk \in Nat /\ disk <= mem

(* A job between its first and its last reading has the gate, and the reading
   it would take holds every answered write: no write can be answered meanwhile. *)
Complete(j) == \A w \in Write : write[w] = "answered" => exec[w] <= job[j].bytes
ReadingInv ==
    \A j \in Job : job[j].at = "reads" =>
        copier = j /\ job[j].bytes <= disk /\ Complete(j)

(* LaeuftMatches without the set of uploads.  The safety net of an upload that has
   ended falls while none runs, unless one was begun under it: a crossing. *)
Up(j) == job[j].at \in Uploading
FlagInv ==
    /\ laeuft => \E j \in Job : Up(j)
    /\ ~crossed => /\ \A j \in Job : Up(j) => laeuft
                   /\ \A i, j \in Job : Up(i) /\ Up(j) => i = j
                   /\ \A i, j \in Job : job[i].at = "drops" => ~Up(j)

UploadInv == GateInv /\ WorkTyped /\ ReadingInv /\ FlagInv

LEMMA UploadInitially == Init => UploadInv
<1> SUFFICES ASSUME Init PROVE UploadInv
  OBVIOUS
<1> USE DEF Init
<1>1. GateInv
  BY GateInitially
<1>2. WorkTyped
  <2>1. Idle \in JobType
    BY DEF JobType, At, Idle
  <2>2. job \in [Job -> JobType]
    BY <2>1
  <2>3. exec \in [Write -> Nat] /\ mem \in Nat /\ disk \in Nat /\ disk <= mem
    OBVIOUS
  <2>4. /\ config \in Config /\ saving \in Config \cup {NoConfig}
        /\ laeuft \in BOOLEAN /\ crossed \in BOOLEAN
    OBVIOUS
  <2> QED BY <2>2, <2>3, <2>4 DEF WorkTyped
<1>3. ReadingInv
  BY DEF ReadingInv, Idle
<1>4. FlagInv
  BY DEF FlagInv, Up, Uploading, Idle
<1> QED BY <1>1, <1>2, <1>3, <1>4 DEF UploadInv

-----------------------------------------------------------------------------
LEMMA GateKeepsInv == UploadInv /\ [Next]_vars => GateInv'
  BY UploadStep, GateStep DEF UploadInv

(* Steps that leave the jobs and the flag alone: writes, BTP, dates, the lock. *)
Outside ==
    \/ \E w \in Write : HostWrites(w) \/ BtpExecutes(w)
    \/ EnteredByHand \/ BtpSaves \/ Admit
    \/ \E c \in Config : SaveBegins(c)
    \/ SaveEnds \/ LoopStarts \/ LoopAborted \/ DateComes

LEMMA OutsideKeepsInv ==
  ASSUME UploadInv, Outside PROVE WorkTyped' /\ ReadingInv' /\ FlagInv'
<1> USE DEF UploadInv, upVars, btpVars, gateVars
<1>j. UNCHANGED <<job, laeuft, crossed>>
  BY DEF Outside, HostWrites, WriteBegins, WriteAnswered, WriteFails, BtpExecutes, EnteredByHand,
         BtpSaves, Admit, SaveBegins, SaveEnds, LoopStarts, LoopAborted, DateComes
<1>f. FlagInv'
  BY <1>j DEF FlagInv, Up
<1>1. ASSUME NEW w \in Write, HostWrites(w) PROVE WorkTyped' /\ ReadingInv'
  <2>1. UNCHANGED <<exec, mem, disk, config, saving, copier>>
    BY <1>1 DEF HostWrites, WriteBegins, WriteAnswered, WriteFails, WriteArrives, WriteEnds,
                WriteBreaksOff
  <2>2. WorkTyped'
    BY <2>1, <1>j DEF WorkTyped
  <2>3. ASSUME copier \in Job, NEW v \in Write, write'[v] = "answered" PROVE write[v] = "answered"
    BY <1>1, <2>3, GateAssumption
    DEF HostWrites, WriteBegins, WriteAnswered, WriteFails, WriteArrives, WriteEnds,
        WriteBreaksOff, GateInv, CopyMeetsNoWrite, Writing
  <2> QED BY <1>j, <2>1, <2>2, <2>3 DEF ReadingInv, Complete
<1>2. ASSUME NEW w \in Write, BtpExecutes(w) PROVE WorkTyped' /\ ReadingInv'
  <2>1. WorkTyped'
    BY <1>2, <1>j DEF WorkTyped, BtpExecutes
  <2>2. \A v \in Write : write[v] = "answered" => exec'[v] = exec[v]
    BY <1>2 DEF BtpExecutes, WorkTyped
  <2> QED BY <1>2, <1>j, <2>1, <2>2 DEF ReadingInv, Complete, BtpExecutes
<1>3. CASE EnteredByHand
  BY <1>3, <1>f DEF EnteredByHand, WorkTyped, ReadingInv, Complete
<1>4. CASE BtpSaves
  <2>1. WorkTyped'
    BY <1>4 DEF BtpSaves, WorkTyped
  <2>2. disk <= disk'
    BY <1>4 DEF BtpSaves, WorkTyped
  <2>3. ASSUME NEW j \in Job, job[j].bytes <= disk PROVE job[j].bytes <= disk'
    BY <2>1, <2>2, <2>3 DEF WorkTyped, JobType
  <2> QED BY <1>4, <1>f, <2>1, <2>3 DEF BtpSaves, ReadingInv, Complete
<1>5. CASE Admit
  <2>1. WorkTyped'
    BY <1>5 DEF Admit, WorkTyped
  <2>2. copier = NoJob /\ UNCHANGED <<disk, exec, job>>
    BY <1>5 DEF Admit, AdmitFirst
  <2> QED BY <1>f, <2>1, <2>2, GateAssumption DEF ReadingInv
<1>6. ASSUME NEW c \in Config, SaveBegins(c) PROVE WorkTyped' /\ ReadingInv'
  BY <1>6 DEF SaveBegins, WorkTyped, ReadingInv, Complete
<1>7. CASE SaveEnds
  BY <1>7, <1>f DEF SaveEnds, WorkTyped, ReadingInv, Complete
<1>8. CASE LoopStarts \/ LoopAborted \/ DateComes
  BY <1>8, <1>f DEF LoopStarts, LoopAborted, DateComes, WorkTyped, ReadingInv, Complete
<1> QED BY <1>f, <1>1, <1>2, <1>3, <1>4, <1>5, <1>6, <1>7, <1>8 DEF Outside

-----------------------------------------------------------------------------
(* A step of one job. What it leaves is r; the write gate moves at most by the
   job's arrival, its leaving the line or its end. *)
LEMMA OneJob ==
  ASSUME UploadInv, NEW j \in Job, NEW r \in JobType,
         job' = [job EXCEPT ![j] = r],
         UNCHANGED <<write, exec, mem, disk, config, saving>>,
         copier' = copier \/ copier \in {j, NoJob},
         r.at = "reads" => /\ copier' = j /\ r.bytes <= disk
                           /\ \A w \in Write : write[w] = "answered" => exec[w] <= r.bytes,
         \/ /\ UNCHANGED <<laeuft, crossed>>
            /\ r.at \in Uploading <=> Up(j)
            /\ r.at # "drops"
         \/ ~laeuft /\ FlagIsSet /\ r.at \in Uploading
         \/ /\ laeuft' = FALSE /\ crossed' = crossed /\ r.at \notin Uploading
            /\ Up(j) \/ (job[j].at = "drops" /\ r.at # "drops")
  PROVE WorkTyped' /\ ReadingInv' /\ FlagInv'
<1> USE DEF UploadInv
<1>1. WorkTyped'
  BY DEF WorkTyped, FlagIsSet
<1>2. job'[j] = r /\ \A i \in Job \ {j} : job'[i] = job[i]
  BY DEF WorkTyped
<1>3. ReadingInv'
  <2> SUFFICES ASSUME NEW i \in Job, job'[i].at = "reads"
               PROVE copier' = i /\ job'[i].bytes <= disk' /\ Complete(i)'
    BY DEF ReadingInv
  <2>1. CASE i = j
    BY <1>2, <2>1 DEF Complete
  <2>2. CASE i # j
    BY <1>2, <2>2, GateAssumption DEF ReadingInv, Complete
  <2> QED BY <2>1, <2>2
<1>4. FlagInv'
  <2>1. r.at \in Uploading => r.at # "drops"
    BY DEF Uploading
  <2> HIDE DEF Uploading
  <2> QED BY <1>2, <2>1 DEF FlagInv, Up, FlagIsSet, WorkTyped
<1> QED BY <1>1, <1>3, <1>4

LEMMA ChecksKeepInv ==
  ASSUME UploadInv, NEW s \in Step, Checks(s) PROVE WorkTyped' /\ ReadingInv' /\ FlagInv'
<1> USE UploadAssumption DEF gateVars, btpVars, Uploading
<1>s. s \in Job /\ job[s] \in JobType /\ job \in [Job -> JobType]
  BY DEF UploadInv, WorkTyped
<1>n. UNCHANGED <<job, write, copier, exec, mem, disk, config, saving, laeuft, crossed>>
      => WorkTyped' /\ ReadingInv' /\ FlagInv'
  BY DEF UploadInv, WorkTyped, ReadingInv, Complete, FlagInv, Up
<1>i. Idle \in JobType
  BY DEF Idle, JobType, At
<1>1. CASE StepBegins(s)
  <2>1. CASE NoStep
    BY <1>1, <2>1, <1>n DEF StepBegins, NoStep
  <2>2. CASE ~NoStep
    <3> DEFINE r == [Idle EXCEPT !.config = config,
                        !.at = IF takt.nachholen THEN "asks" ELSE "looks"]
    <3>1. r \in JobType
      BY DEF UploadInv, WorkTyped, Idle, JobType, At
    <3>2. job' = [job EXCEPT ![s] = r] /\ job[s].at = "idle"
      BY <1>1, <2>2 DEF StepBegins
    <3>3. r.at \in {"asks", "looks"}
      BY DEF Idle
    <3> HIDE DEF r
    <3> QED BY <1>1, <1>s, <3>1, <3>2, <3>3, OneJob DEF StepBegins, Up
  <2> QED BY <2>1, <2>2
<1>2. CASE Asks(s)
  <2>1. [job[s] EXCEPT !.at = "looks"] \in JobType /\ job[s].at = "asks"
    BY <1>2, <1>s DEF Asks, JobType, At
  <2>2. CASE job' = [job EXCEPT ![s] = [job[s] EXCEPT !.at = "looks"]]
    BY <1>2, <1>s, <2>1, <2>2, OneJob DEF Asks, Up, JobType
  <2>3. CASE job' = [job EXCEPT ![s] = Idle]
    BY <1>2, <1>s, <2>1, <2>3, <1>i, OneJob DEF Asks, Up, Idle
  <2> QED BY <1>2, <1>s, <2>2, <2>3 DEF Asks, Goes, StepDone
<1>d. job' = [job EXCEPT ![s] = Idle] /\ job[s].at \notin Uploading
      /\ UNCHANGED <<write, copier, exec, mem, disk, config, saving, laeuft, crossed>>
      => WorkTyped' /\ ReadingInv' /\ FlagInv'
  BY <1>s, <1>i, OneJob DEF Up, Idle
<1>3. CASE Looks(s)
  <2> DEFINE r == [job[s] EXCEPT !.at = "compares", !.bytes = disk]
  <2>1. r \in JobType /\ r.at = "compares"
    BY <1>s DEF UploadInv, WorkTyped, JobType, At
  <2>2. job' = [job EXCEPT ![s] = r] /\ job[s].at = "looks"
    BY <1>3 DEF Looks
  <2> HIDE DEF r
  <2> QED BY <1>3, <1>s, <2>1, <2>2, OneJob DEF Looks, Up
<1>4. CASE LookFails(s) \/ StepFiles(s)
  BY <1>4, <1>d DEF LookFails, StepFiles, StepDone
<1>5. CASE Compares(s)
  <2> DEFINE r == [job[s] EXCEPT !.at = "differs", !.bytes = 0]
  <2>1. r \in JobType /\ r.at = "differs"
    BY <1>s DEF JobType, At
  <2>2. CASE job' = [job EXCEPT ![s] = r]
    <3> HIDE DEF r
    <3> QED BY <1>5, <1>s, <2>1, <2>2, OneJob DEF Compares, Up
  <2> QED BY <1>5, <1>d, <2>2 DEF Compares, StepDone
<1>6. CASE StepUploads(s)
  <2>1. CASE laeuft
    BY <1>6, <1>d, <2>1 DEF StepUploads, StepDone
  <2>2. CASE ~laeuft
    <3> DEFINE r == [job[s] EXCEPT !.at = "gate"]
    <3>1. r \in JobType /\ r.at = "gate"
      BY <1>s DEF JobType, At
    <3>2. job' = [job EXCEPT ![s] = r] /\ FlagIsSet
      BY <1>6, <2>2 DEF StepUploads, Goes
    <3>3. copier' = copier \/ copier = NoJob
      BY <1>6, <2>2 DEF StepUploads, CopyArrives
    <3>4. UNCHANGED <<write, exec, mem, disk, config, saving>>
      BY <1>6, <2>2 DEF StepUploads, CopyArrives
    <3> HIDE DEF r
    <3> QED BY <1>s, <2>2, <3>1, <3>2, <3>3, <3>4, OneJob
  <2> QED BY <2>1, <2>2
<1> QED BY <1>1, <1>2, <1>3, <1>4, <1>5, <1>6 DEF Checks

LEMMA PressKeepsInv ==
  ASSUME UploadInv, NEW p \in Press, PressUploads(p) \/ PressFiles(p)
  PROVE WorkTyped' /\ ReadingInv' /\ FlagInv'
<1> USE UploadAssumption DEF gateVars, btpVars, Uploading
<1>p. p \in Job /\ job[p] \in JobType
  BY DEF UploadInv, WorkTyped
<1>1. CASE PressUploads(p)
  <2> DEFINE r == [job[p] EXCEPT !.at = "gate", !.config = config]
  <2>1. r \in JobType /\ r.at = "gate"
    BY <1>p DEF UploadInv, WorkTyped, JobType, At
  <2>2. job' = [job EXCEPT ![p] = r]
    BY <1>1 DEF PressUploads
  <2>3. copier' = copier \/ copier = NoJob
    BY <1>1 DEF PressUploads, CopyArrives
  <2>4. UNCHANGED <<write, exec, mem, disk, config, saving>>
    BY <1>1 DEF PressUploads, CopyArrives
  <2> HIDE DEF r
  <2> QED BY <1>1, <1>p, <2>1, <2>2, <2>3, <2>4, OneJob DEF PressUploads
<1>2. CASE PressFiles(p)
  <2> DEFINE r == [Idle EXCEPT !.at = "done"]
  <2>1. r \in JobType /\ r.at = "done"
    BY DEF Idle, JobType, At
  <2>2. job' = [job EXCEPT ![p] = r] /\ job[p].at = "files"
    BY <1>2 DEF PressFiles
  <2> HIDE DEF r
  <2> QED BY <1>2, <1>p, <2>1, <2>2, OneJob DEF PressFiles, Up
<1> QED BY <1>1, <1>2

-----------------------------------------------------------------------------
(* fuehre_upload_aus *)
LEMMA EndsLeaves ==
  ASSUME UploadInv, NEW j \in Job, NEW out \in Outcomes, Ends(j, out)
  PROVE job'[j].at = "ends"
<1> DEFINE r == [job[j] EXCEPT !.at = "ends", !.out = out, !.reads = 0,
                     !.bytes = IF out \in {"sent", "pending"} THEN @ ELSE 0]
<1>1. r.at = "ends" /\ job \in [Job -> JobType]
  BY DEF UploadInv, WorkTyped, JobType
<1>2. job' = [job EXCEPT ![j] = r]
  BY DEF Ends
<1> HIDE DEF r
<1> QED BY <1>1, <1>2

LEMMA EndsInv ==
  ASSUME UploadInv, NEW j \in Job, NEW out \in Outcomes, Ends(j, out), Up(j),
         UNCHANGED <<write, exec, mem, disk, config, saving, laeuft, crossed>>,
         copier' = copier \/ copier = j
  PROVE WorkTyped' /\ ReadingInv' /\ FlagInv'
<1> DEFINE r == [job[j] EXCEPT !.at = "ends", !.out = out, !.reads = 0,
                     !.bytes = IF out \in {"sent", "pending"} THEN @ ELSE 0]
<1>1. r \in JobType /\ r.at = "ends"
  BY DEF UploadInv, WorkTyped, JobType, At
<1>2. job' = [job EXCEPT ![j] = r]
  BY DEF Ends
<1> HIDE DEF r
<1> QED BY <1>1, <1>2, OneJob DEF Uploading

LEMMA UploadsKeepInv ==
  ASSUME UploadInv, NEW j \in Job, Uploads(j) PROVE WorkTyped' /\ ReadingInv' /\ FlagInv'
<1> USE DEF OnlyTheJob, gateVars, btpVars
<1>j. job[j] \in JobType /\ job[j].reads + 1 \in Nat /\ disk \in Nat /\ disk <= disk
  BY DEF UploadInv, WorkTyped, JobType
<1>u. job[j].at \in Uploading <=> Up(j)
  BY DEF Up
<1>1. CASE GateIsBusy(j) \/ ReadFails(j) \/ NotSent(j)
  BY <1>1, EndsInv
  DEF GateIsBusy, ReadFails, NotSent, CopyGivesUp, CopyEnds, Up, Uploading, Outcomes
<1>2. ASSUME NEW out \in Outcomes, Sent(j, out) PROVE WorkTyped' /\ ReadingInv' /\ FlagInv'
  BY <1>2, EndsInv DEF Sent, Up, Uploading
<1>3. CASE Reads(j)
  <2> DEFINE r == [job[j] EXCEPT !.at = "reads", !.bytes = disk, !.reads = 1]
  <2>1. r \in JobType /\ r.at = "reads" /\ r.bytes = disk
    BY <1>j DEF JobType, At
  <2>2. job' = [job EXCEPT ![j] = r] /\ copier = j /\ Settled /\ Up(j)
    BY <1>3 DEF Reads, Up, Uploading
  <2>3. UNCHANGED <<write, copier, exec, mem, disk, config, saving, laeuft, crossed>>
    BY <1>3 DEF Reads
  <2>4. r.at \in Uploading /\ \A w \in Write : write[w] = "answered" => exec[w] <= r.bytes
    BY <2>1, <2>2 DEF Settled, Uploading
  <2> HIDE DEF r
  <2> QED BY <1>j, <2>1, <2>2, <2>3, <2>4, OneJob
<1>4. CASE Takes(j)
  <2> DEFINE r == [job[j] EXCEPT !.at = "sends", !.reads = 0]
  <2>1. r \in JobType /\ r.at = "sends"
    BY <1>j DEF JobType, At
  <2>2. Up(j) /\ copier = j /\ UNCHANGED <<write, exec, mem, disk, config, saving, laeuft, crossed>>
    BY <1>4 DEF Takes, CopyEnds, Up, Uploading
  <2>3. CASE job' = [job EXCEPT ![j] = r]
    <3> HIDE DEF r
    <3> QED BY <2>1, <2>2, <2>3, OneJob DEF Uploading
  <2>4. CASE Ends(j, "halt")
    BY <2>2, <2>4, EndsInv DEF Outcomes
  <2> QED BY <1>4, <2>3, <2>4 DEF Takes
<1>5. CASE ReadsAgain(j)
  <2> DEFINE r == [job[j] EXCEPT !.bytes = disk, !.reads = @ + 1]
  <2>1. r \in JobType /\ r.at = "reads" /\ r.bytes = disk
    BY <1>5, <1>j DEF JobType, At, ReadsAgain
  <2>2. Up(j) /\ UNCHANGED <<write, exec, mem, disk, config, saving, laeuft, crossed>>
    BY <1>5 DEF ReadsAgain, CopyEnds, Up, Uploading
  <2>3. CASE job' = [job EXCEPT ![j] = r] /\ UNCHANGED copier
    <3>1. copier = j /\ job[j].bytes <= disk /\ Complete(j) /\ job[j].bytes \in Nat
      BY <1>5, <1>j DEF ReadsAgain, UploadInv, ReadingInv, JobType
    <3>2. \A w \in Write : write[w] = "answered" => exec[w] <= disk
      BY <1>j, <3>1 DEF Complete, UploadInv, WorkTyped
    <3>3. r.at \in Uploading /\ \A w \in Write : write[w] = "answered" => exec[w] <= r.bytes
      BY <2>1, <3>2 DEF Uploading
    <3> HIDE DEF r
    <3> QED BY <2>1, <2>2, <2>3, <3>1, <3>3, <1>j, OneJob
  <2>4. CASE CopyEnds(j) /\ Ends(j, "retry")
    BY <2>2, <2>4, EndsInv DEF Outcomes, CopyEnds
  <2> QED BY <1>5, <2>3, <2>4 DEF ReadsAgain
<1>6. CASE UploadEnds(j)
  <2> DEFINE r == [job[j] EXCEPT !.at = "drops"]
  <2>1. r \in JobType /\ r.at = "drops"
    BY <1>j DEF JobType, At
  <2>2. job' = [job EXCEPT ![j] = r] /\ Up(j)
    BY <1>6 DEF UploadEnds, Goes, Up, Uploading
  <2> HIDE DEF r
  <2> QED BY <1>6, <2>1, <2>2, OneJob DEF UploadEnds, Uploading
<1>7. CASE UploadPanics(j)
  <2> DEFINE r == [Idle EXCEPT !.at = "unwinds", !.config = job[j].config, !.out = "retry"]
  <2>1. r \in JobType /\ r.at = "unwinds"
    BY <1>j DEF JobType, At, Idle, Outcomes
  <2>2. job' = [job EXCEPT ![j] = r] /\ Up(j) /\ UNCHANGED <<laeuft, crossed>>
    BY <1>7 DEF UploadPanics, Up, Uploading
  <2>3. UNCHANGED <<write, exec, mem, disk, config, saving>> /\ (copier' = copier \/ copier = j)
    BY <1>7 DEF UploadPanics, CopyEnds
  <2> HIDE DEF r
  <2> QED BY <2>1, <2>2, <2>3, OneJob DEF Uploading
<1>8. CASE NetFalls(j)
  <2> DEFINE r == IF job[j].at = "unwinds" /\ j \in Press
                  THEN [Idle EXCEPT !.at = "done"] ELSE [job[j] EXCEPT !.at = "files"]
  <2>1. r \in JobType /\ r.at \in {"files", "done"}
    BY <1>j DEF JobType, At, Idle
  <2>2. job' = [job EXCEPT ![j] = r] /\ (Up(j) \/ job[j].at = "drops")
    BY <1>8 DEF NetFalls, Up, Uploading
  <2>3. /\ UNCHANGED <<write, copier, exec, mem, disk, config, saving, crossed>>
        /\ laeuft' = FALSE
    BY <1>8 DEF NetFalls
  <2> HIDE DEF r
  <2> QED BY <2>1, <2>2, <2>3, OneJob DEF Uploading
<1> QED BY <1>1, <1>2, <1>3, <1>4, <1>5, <1>6, <1>7, <1>8 DEF Uploads, Outcomes

LEMMA UploadInvStep == UploadInv /\ [Next]_vars => UploadInv'
<1> SUFFICES ASSUME UploadInv, [Next]_vars PROVE UploadInv'
  OBVIOUS
<1>1. CASE UNCHANGED vars
  BY <1>1 DEF vars, gateVars, btpVars, upVars, UploadInv, GateInv, CopyMeetsNoWrite, Writing,
              WorkTyped, ReadingInv, Complete, FlagInv, Up
<1>2. CASE Next
  BY <1>2, GateKeepsInv, OutsideKeepsInv, ChecksKeepInv, PressKeepsInv, UploadsKeepInv
  DEF Next, Outside, UploadInv
<1> QED BY <1>1, <1>2

LEMMA UploadInvHolds == Spec => []UploadInv
  BY UploadInitially, UploadInvStep, PTL DEF Spec

-----------------------------------------------------------------------------
(* upload_starten, fuehre_upload_aus and LaeuftZurueck together, however many steps
   and clicks there are and whatever fails or panics: the flag is never set without
   an upload that runs, so the button never stays dead. And as long as no upload
   began between the two places where an ending one clears the flag (last lines,
   safety net), it is set while one runs and never two run. *)
THEOREM OneUploadAtATime == Spec => []LaeuftMatches
<1>1. UploadInv => LaeuftMatches
  BY DEF UploadInv, FlagInv, LaeuftMatches, Running, Up, WorkTyped
<1> QED BY <1>1, UploadInvHolds, PTL

(* A file goes out by Takes alone. *)
LEMMA OnlyTakesSends ==
  ASSUME UploadInv, Next, NEW j \in Job, job[j].at = "reads", job'[j].at = "sends"
  PROVE Takes(j)
<1> USE UploadAssumption DEF UploadInv, WorkTyped
<1>1. ~Outside
  BY DEF Outside, HostWrites, WriteBegins, WriteAnswered, WriteFails, BtpExecutes, EnteredByHand,
         BtpSaves, Admit, SaveBegins, SaveEnds, LoopStarts, LoopAborted, DateComes, upVars
<1>2. ASSUME NEW s \in Step, Checks(s) PROVE FALSE
  BY <1>2 DEF Checks, StepBegins, Asks, Looks, LookFails, Compares, StepUploads, StepFiles,
              NoStep, Goes, StepDone, Idle
<1>3. ASSUME NEW p \in Press, PressUploads(p) \/ PressFiles(p) PROVE FALSE
  BY <1>3 DEF PressUploads, PressFiles, Idle
<1>4. ASSUME NEW i \in Job, Uploads(i) PROVE Takes(j)
  <2>1. i = j
    BY <1>4 DEF Uploads, GateIsBusy, Reads, Takes, ReadsAgain, ReadFails, Sent, NotSent,
                UploadEnds, UploadPanics, NetFalls, Ends, Goes, Idle
  <2>2. ASSUME NEW out \in Outcomes, Ends(j, out) PROVE FALSE
    BY <2>2, EndsLeaves
  <2>3. ~ReadFails(j) /\ ~GateIsBusy(j) /\ ~NotSent(j) /\ ~Reads(j) /\ ~UploadEnds(j)
    BY <2>2 DEF ReadFails, GateIsBusy, NotSent, Reads, UploadEnds, Outcomes
  <2>4. \A out \in Outcomes : ~Sent(j, out)
    BY DEF Sent
  <2>5. ~ReadsAgain(j)
    <3>1. job' # [job EXCEPT ![j].bytes = disk, ![j].reads = @ + 1]
      BY DEF JobType
    <3> QED BY <2>2, <3>1 DEF ReadsAgain, Outcomes
  <2>6. ~UploadPanics(j) /\ ~NetFalls(j)
    BY DEF UploadPanics, NetFalls, Idle
  <2> QED BY <1>4, <2>1, <2>3, <2>4, <2>5, <2>6 DEF Uploads
<1> QED BY <1>1, <1>2, <1>3, <1>4 DEF Next, Outside

(* ADR 0060: what goes out holds every write BTP had answered, for any number of
   writes, if only the rest is long enough (Settled, the guard of Reads). *)
THEOREM CopyIsComplete == Spec => CopyHasAnsweredWrites
<1> DEFINE Sends(j) == job[j].at = "reads" /\ job'[j].at = "sends" =>
                         \A w \in Write : write'[w] = "answered" => exec[w] <= job'[j].bytes
<1>1. UploadInv /\ [Next]_vars => [\A j \in Job : Sends(j)]_vars
  <2> SUFFICES ASSUME UploadInv, Next, NEW j \in Job, job[j].at = "reads", job'[j].at = "sends",
                      NEW w \in Write, write'[w] = "answered"
               PROVE exec[w] <= job'[j].bytes
    OBVIOUS
  <2>1. Takes(j)
    BY OnlyTakesSends
  <2>2. ~Ends(j, "halt")
    BY EndsLeaves DEF Outcomes
  <2>3. job' = [job EXCEPT ![j].at = "sends", ![j].reads = 0] /\ write' = write
    BY <2>1, <2>2 DEF Takes, CopyEnds
  <2>4. job'[j].bytes = job[j].bytes
    BY <2>3 DEF UploadInv, WorkTyped, JobType
  <2> QED BY <2>3, <2>4 DEF UploadInv, ReadingInv, Complete
<1> QED BY <1>1, UploadInvHolds, PTL DEF Spec, CopyHasAnsweredWrites

-----------------------------------------------------------------------------
(* What the automatic check notes.  Neither a note nor badhub runs ahead of the
   file; and without a crossing a note never runs ahead of badhub, so that a note
   that equals the file is what badhub has.  That a later upload brings no older
   file needs the flag: between the readings of an upload and its sending no other
   one sends. *)
Taken == {"sent", "pending"}
TaktType == [date : {"none", "waiting", "due"}, halted : Config \cup {NoConfig},
             merker : [config : Config, bytes : Nat] \cup {NoBytes}, nachholen : BOOLEAN]

Noted(t) ==
    /\ t \in TaktType
    /\ t.merker # NoBytes =>
         /\ t.merker.bytes <= disk
         /\ ~crossed => t.merker.bytes <= badhub[t.merker.config]

Known(r) ==
    /\ r.at \notin {"idle", "done"} => r.config \in Config
    /\ r.bytes <= disk
    /\ ~crossed /\ r.at \in {"reads", "sends"} => \A c \in Config : badhub[c] <= r.bytes
    /\ r.at \in {"ends", "drops", "unwinds", "files"} =>
         /\ r.out \in Outcomes
         /\ ~crossed /\ r.out \in Taken => r.bytes <= badhub[r.config]

NoteInv ==
    /\ badhub \in [Config -> Nat] /\ \A c \in Config : badhub[c] <= disk
    /\ Noted(takt)
    /\ \A j \in Job : Known(job[j])

LEMMA NoteInitially == Init => NoteInv
  BY DEF Init, NoteInv, Noted, TaktType, NoBytes, Known, Idle

LEMMA IdleIsKnown ==
  ASSUME UploadInv PROVE Known(Idle) /\ Idle \in JobType
  BY DEF UploadInv, WorkTyped, Known, Idle, JobType, At

(* A step of one job that leaves badhub and the file alone. *)
LEMMA OneJobNotes ==
  ASSUME UploadInv, NoteInv, NEW j \in Job, NEW r, job' = [job EXCEPT ![j] = r], Known(r),
         UNCHANGED <<disk, badhub>>, crossed => crossed', Noted(takt')
  PROVE NoteInv'
<1>1. job \in [Job -> JobType]
  BY DEF UploadInv, WorkTyped
<1>2. \A i \in Job : job'[i] = IF i = j THEN r ELSE job[i]
  BY <1>1
<1> QED BY <1>2 DEF NoteInv, Noted, Known

LEMMA NotesStay ==
  ASSUME NEW t, Noted(t)
  PROVE /\ \A d \in {"none", "waiting", "due"} : Noted([t EXCEPT !.date = d])
        /\ Noted([t EXCEPT !.nachholen = FALSE])
        /\ \A c \in Config : Noted(Halt(t, c))
        /\ Noted(Wiederanlauf(t))
  BY DEF Noted, TaktType, Halt, Wiederanlauf, NoBytes

LEMMA NotesOfAnUpload ==
  ASSUME NEW t, Noted(t), NEW r, r.at \in {"files", "looks"}, Known(r),
         r.out \in Outcomes, r.out \in Taken => r.at = "files", r.bytes \in Nat
  PROVE /\ Noted(Anwenden(t, r))
        /\ r.out \in Taken => Noted(KnopfGesendet(t, r))
<1>1. /\ r.config \in Config /\ r.bytes <= disk
      /\ ~crossed /\ r.out \in Taken => r.bytes <= badhub[r.config]
  BY DEF Known
<1>2. ASSUME r.out \in Taken, NEW n \in BOOLEAN
      PROVE Noted(Merke(t, r.config, r.bytes, n))
  BY <1>1, <1>2 DEF Merke, Noted, TaktType
<1>3. CASE r.out \in Taken
  <2> DEFINE u == Merke(t, r.config, r.bytes, r.out = "pending")
  <2>1. Noted(u)
    BY <1>2, <1>3
  <2>2. Anwenden(t, r) = [u EXCEPT !.date = "waiting"]
        /\ KnopfGesendet(t, r) = [u EXCEPT !.halted = NoConfig]
    BY <1>3 DEF Anwenden, KnopfGesendet, Taken
  <2> HIDE DEF u
  <2>3. Noted([u EXCEPT !.halted = NoConfig])
    BY <2>1 DEF Noted, TaktType
  <2> QED BY <2>1, <2>2, <2>3, NotesStay
<1>4. CASE r.out \notin Taken
  BY <1>1, <1>4, NotesStay DEF Anwenden, Taken, Outcomes
<1> QED BY <1>3, <1>4

LEMMA OutsideNotes ==
  ASSUME UploadInv, NoteInv, Outside PROVE NoteInv'
<1> USE DEF upVars, btpVars, gateVars
<1>j. UNCHANGED <<job, badhub, crossed>>
  BY DEF Outside, HostWrites, WriteBegins, WriteAnswered, WriteFails, BtpExecutes, EnteredByHand,
         BtpSaves, Admit, SaveBegins, SaveEnds, LoopStarts, LoopAborted, DateComes
<1>d. disk' \in Nat /\ disk <= disk'
  BY DEF Outside, HostWrites, WriteBegins, WriteAnswered, WriteFails, BtpExecutes, EnteredByHand,
         BtpSaves, Admit, SaveBegins, SaveEnds, LoopStarts, LoopAborted, DateComes, UploadInv,
         WorkTyped
<1>t. Noted(takt')
  BY NotesStay
  DEF Outside, HostWrites, WriteBegins, WriteAnswered, WriteFails, BtpExecutes, EnteredByHand,
      BtpSaves, Admit, SaveBegins, SaveEnds, LoopStarts, LoopAborted, DateComes, NoteInv, Starten
<1>1. \A j \in Job : job[j].bytes \in Nat
  BY DEF UploadInv, WorkTyped, JobType
<1>2. \A j \in Job : job[j].bytes <= disk'
  BY <1>d, <1>1 DEF NoteInv, Known, UploadInv, WorkTyped
<1>3. \A c \in Config : badhub[c] <= disk'
  BY <1>d DEF NoteInv, UploadInv, WorkTyped
<1>4. ASSUME takt'.merker # NoBytes PROVE takt'.merker.bytes <= disk'
  <2>1. takt'.merker.bytes \in Nat /\ takt'.merker.bytes <= disk /\ disk \in Nat
    BY <1>t, <1>4 DEF Noted, TaktType, NoBytes, UploadInv, WorkTyped
  <2> QED BY <1>d, <2>1
<1> QED BY <1>j, <1>t, <1>2, <1>3, <1>4 DEF NoteInv, Known, Noted

LEMMA ChecksNote ==
  ASSUME UploadInv, NoteInv, NEW s \in Step, Checks(s) PROVE NoteInv'
<1> USE DEF gateVars, btpVars
<1>s. /\ s \in Job /\ job[s] \in JobType /\ Known(job[s]) /\ Noted(takt)
      /\ job \in [Job -> JobType] /\ config \in Config
      /\ disk \in Nat /\ badhub \in [Config -> Nat]
  BY UploadAssumption DEF UploadInv, WorkTyped, NoteInv
<1>n. UNCHANGED <<job, badhub, disk, crossed>> /\ Noted(takt') => NoteInv'
  BY DEF NoteInv, Noted, Known
<1>d. ASSUME job' = [job EXCEPT ![s] = Idle], UNCHANGED <<badhub, disk, crossed>>, Noted(takt')
      PROVE NoteInv'
  <2>1. Known(Idle) /\ (crossed => crossed')
    BY <1>d, IdleIsKnown
  <2> QED BY <1>d, <1>s, <2>1, OneJobNotes
<1>1. CASE StepBegins(s)
  <2>1. Noted(takt')
    <3>1. /\ Noted([takt EXCEPT !.date = "waiting"]) /\ Noted(Halt(takt, config))
          /\ Noted([takt EXCEPT !.nachholen = FALSE])
      BY <1>s, NotesStay
    <3> QED BY <1>1, <3>1 DEF StepBegins
  <2>2. CASE NoStep
    BY <1>1, <2>1, <2>2, <1>n DEF StepBegins, NoStep
  <2>3. CASE ~NoStep
    <3> DEFINE r == [Idle EXCEPT !.config = config,
                        !.at = IF takt.nachholen THEN "asks" ELSE "looks"]
    <3>1. Known(r)
      BY <1>s DEF Known, Idle
    <3>2. job' = [job EXCEPT ![s] = r] /\ UNCHANGED <<badhub, disk, crossed>>
      BY <1>1, <2>3 DEF StepBegins
    <3> HIDE DEF r
    <3> QED BY <1>s, <2>1, <3>1, <3>2, OneJobNotes
  <2> QED BY <2>2, <2>3
<1>2. CASE Asks(s)
  <2>1. CASE Goes(s, "looks") /\ UNCHANGED takt
    <3> DEFINE r == [job[s] EXCEPT !.at = "looks"]
    <3>1. Known(r)
      BY <1>2, <1>s DEF Known, JobType, Asks
    <3>2. job' = [job EXCEPT ![s] = r]
      BY <2>1 DEF Goes
    <3> HIDE DEF r
    <3> QED BY <1>2, <1>s, <2>1, <3>1, <3>2, OneJobNotes DEF Asks
  <2>2. CASE takt' = Halt(takt, job[s].config) /\ StepDone(s)
    <3>1. job[s].config \in Config
      BY <1>2, <1>s DEF Asks, Known
    <3> QED BY <1>2, <1>s, <1>d, <2>2, <3>1, NotesStay DEF Asks, StepDone
  <2> QED BY <1>2, <2>1, <2>2 DEF Asks
<1>3. CASE Looks(s)
  <2> DEFINE r == [job[s] EXCEPT !.at = "compares", !.bytes = disk]
  <2>1. Known(r)
    BY <1>3, <1>s DEF Known, JobType, Looks
  <2>2. job' = [job EXCEPT ![s] = r]
    BY <1>3 DEF Looks
  <2> HIDE DEF r
  <2> QED BY <1>3, <1>s, <2>1, <2>2, OneJobNotes DEF Looks
<1>4. CASE LookFails(s)
  <2>1. PICK out \in {"retry", "halt"} : takt' = Anwenden(takt, [job[s] EXCEPT !.out = out])
    BY <1>4 DEF LookFails
  <2> DEFINE r == [job[s] EXCEPT !.out = out]
  <2>2. /\ Known(r) /\ r.at = "looks" /\ r.bytes \in Nat
        /\ r.out \in Outcomes /\ r.out \notin Taken
    BY <1>4, <1>s DEF LookFails, Known, JobType, Outcomes, Taken
  <2>3. takt' = Anwenden(takt, r)
    BY <2>1
  <2> HIDE DEF r
  <2>4. Noted(takt')
    BY <1>s, <2>2, <2>3, NotesOfAnUpload
  <2> QED BY <1>4, <1>d, <2>4 DEF LookFails, StepDone
<1>5. CASE Compares(s)
  <2> DEFINE r == [job[s] EXCEPT !.at = "differs", !.bytes = 0]
  <2>1. Known(r)
    BY <1>5, <1>s DEF Known, JobType, Compares
  <2>2. CASE job' = [job EXCEPT ![s] = r] /\ UNCHANGED takt
    <3> HIDE DEF r
    <3> QED BY <1>5, <1>s, <2>1, <2>2, OneJobNotes DEF Compares
  <2>3. CASE takt' = Unveraendert(takt) /\ StepDone(s)
    BY <1>5, <1>s, <1>d, <2>3, NotesStay DEF Compares, Unveraendert, StepDone
  <2> QED BY <1>5, <2>2, <2>3 DEF Compares
<1>6. CASE StepUploads(s)
  <2>1. CASE laeuft
    BY <1>6, <1>s, <1>d, <2>1, NotesStay DEF StepUploads, KnopfLaeuft, StepDone
  <2>2. CASE ~laeuft
    <3> DEFINE r == [job[s] EXCEPT !.at = "gate"]
    <3>1. Known(r)
      BY <1>6, <1>s DEF Known, JobType, StepUploads
    <3>2. /\ job' = [job EXCEPT ![s] = r] /\ UNCHANGED <<takt, badhub, disk>>
          /\ crossed => crossed'
      BY <1>6, <2>2 DEF StepUploads, FlagIsSet, Goes
    <3> HIDE DEF r
    <3> QED BY <1>s, <3>1, <3>2, OneJobNotes
  <2> QED BY <2>1, <2>2
<1>7. CASE StepFiles(s)
  <2>1. job[s].out \in Outcomes /\ job[s].at = "files" /\ job[s].bytes \in Nat
    BY <1>7, <1>s DEF StepFiles, Known, JobType
  <2>2. Noted(takt')
    BY <1>7, <1>s, <2>1, NotesOfAnUpload DEF StepFiles
  <2> QED BY <1>7, <1>d, <2>2 DEF StepFiles, StepDone
<1> QED BY <1>1, <1>2, <1>3, <1>4, <1>5, <1>6, <1>7 DEF Checks

LEMMA PressNotes ==
  ASSUME UploadInv, NoteInv, NEW p \in Press, PressUploads(p) \/ PressFiles(p) PROVE NoteInv'
<1> USE DEF gateVars, btpVars
<1>p. /\ p \in Job /\ job[p] \in JobType /\ Known(job[p]) /\ Noted(takt)
      /\ config \in Config /\ disk \in Nat /\ badhub \in [Config -> Nat]
  BY UploadAssumption DEF UploadInv, WorkTyped, NoteInv
<1>1. CASE PressUploads(p)
  <2> DEFINE r == [job[p] EXCEPT !.at = "gate", !.config = config]
  <2>1. Known(r)
    BY <1>p DEF Known, JobType
  <2>2. job' = [job EXCEPT ![p] = r] /\ UNCHANGED <<takt, badhub, disk>>
    BY <1>1 DEF PressUploads
  <2>3. crossed => crossed'
    BY <1>1 DEF PressUploads, FlagIsSet
  <2> HIDE DEF r
  <2> QED BY <1>p, <2>1, <2>2, <2>3, OneJobNotes
<1>2. CASE PressFiles(p)
  <2> DEFINE r == [Idle EXCEPT !.at = "done"]
  <2>1. Known(r)
    BY <1>p DEF Known, Idle
  <2>2. job' = [job EXCEPT ![p] = r] /\ UNCHANGED <<badhub, disk, crossed>>
    BY <1>2 DEF PressFiles
  <2> HIDE DEF r
  <2>3. job[p].out \in Outcomes /\ job[p].at = "files" /\ job[p].bytes \in Nat
    BY <1>2, <1>p DEF PressFiles, Known, JobType
  <2>4. Noted(takt')
    BY <1>2, <1>p, <2>3, NotesOfAnUpload DEF PressFiles, Taken
  <2> QED BY <1>p, <2>1, <2>2, <2>4, OneJobNotes
<1> QED BY <1>1, <1>2

(* What the upload leaves; badhub takes a file that is not older than its own. *)
LEMMA UploadsNote ==
  ASSUME UploadInv, NoteInv, NEW j \in Job, Uploads(j) PROVE NoteInv'
<1> USE DEF OnlyTheJob, gateVars, btpVars
<1>j. /\ job[j] \in JobType /\ Known(job[j]) /\ Noted(takt) /\ job \in [Job -> JobType]
      /\ disk \in Nat /\ badhub \in [Config -> Nat] /\ \A c \in Config : badhub[c] <= disk
  BY DEF UploadInv, WorkTyped, NoteInv
<1> DEFINE EndRecord(out) == [job[j] EXCEPT !.at = "ends", !.out = out, !.reads = 0,
                                 !.bytes = IF out \in Taken THEN @ ELSE 0]
<1>e. ASSUME NEW out \in Outcomes, Ends(j, out), UNCHANGED <<takt, disk>>, Up(j)
      PROVE /\ job' = [job EXCEPT ![j] = EndRecord(out)]
            /\ out \notin Taken => Known(EndRecord(out))
            /\ EndRecord(out).at = "ends" /\ EndRecord(out).out = out
            /\ EndRecord(out).config = job[j].config
            /\ out \in Taken => EndRecord(out).bytes = job[j].bytes
  <2> DEFINE r == EndRecord(out)
  <2>1. /\ r.at = "ends" /\ r.out = out /\ r.config = job[j].config
        /\ r.bytes = IF out \in Taken THEN job[j].bytes ELSE 0
    BY <1>j DEF JobType
  <2>2. job' = [job EXCEPT ![j] = r]
    BY <1>e DEF Ends, Taken
  <2>3. job[j].config \in Config
    BY <1>e, <1>j DEF Known, Up, Uploading
  <2>4. out \notin Taken => Known(r)
    <3> HIDE DEF r
    <3> QED BY <1>j, <2>1, <2>3 DEF Known
  <2> QED BY <2>1, <2>2, <2>4
<1>f. ASSUME NEW out \in Outcomes \ Taken, Ends(j, out), Up(j),
             UNCHANGED <<takt, disk, badhub, crossed>>
      PROVE NoteInv'
  <2>1. job' = [job EXCEPT ![j] = EndRecord(out)] /\ Known(EndRecord(out))
    BY <1>e, <1>f
  <2> HIDE DEF EndRecord
  <2> QED BY <1>f, <1>j, <2>1, OneJobNotes
<1>1. CASE GateIsBusy(j) \/ ReadFails(j) \/ NotSent(j)
  BY <1>1, <1>f DEF GateIsBusy, ReadFails, NotSent, Up, Uploading, Outcomes, Taken
<1>2. ASSUME NEW out \in Outcomes \ {"halt"}, Sent(j, out) PROVE NoteInv'
  <2> DEFINE c == job[j].config
             b == job[j].bytes
  <2>1. /\ job[j].at = "sends" /\ Up(j) /\ UNCHANGED <<takt, disk, crossed>>
        /\ badhub' = [badhub EXCEPT ![c] = b] /\ Ends(j, out)
    BY <1>2 DEF Sent, Up, Uploading
  <2>2. /\ c \in Config /\ b \in Nat /\ b <= disk
        /\ ~crossed => \A d \in Config : badhub[d] <= b
    BY <1>j, <2>1 DEF Known, JobType
  <2>3. /\ job' = [job EXCEPT ![j] = EndRecord(out)]
        /\ out \notin Taken => Known(EndRecord(out))
        /\ EndRecord(out).at = "ends" /\ EndRecord(out).out = out
        /\ EndRecord(out).config = c
        /\ out \in Taken => EndRecord(out).bytes = b
    BY <1>e, <2>1
  <2> HIDE DEF EndRecord, c, b
  <2>4. /\ badhub' \in [Config -> Nat] /\ badhub'[c] = b
        /\ \A d \in Config : badhub'[d] <= disk
        /\ ~crossed => \A d \in Config : badhub[d] <= badhub'[d]
    BY <1>j, <2>1, <2>2
  <2>5. Noted(takt)'
    BY <1>j, <2>1, <2>4 DEF Noted, TaktType, NoBytes
  <2>6. ASSUME NEW i \in Job, i # j PROVE Known(job[i])'
    <3>1. job'[i] = job[i] /\ job[i] \in JobType /\ Known(job[i])
      BY <1>j, <2>3, <2>6 DEF NoteInv
    <3>2. ~crossed => job[i].at \notin {"reads", "sends"}
      BY <2>1, <2>6 DEF UploadInv, FlagInv, Up, Uploading
    <3> QED BY <1>j, <2>1, <2>4, <3>1, <3>2 DEF Known, JobType
  <2>7. Known(job[j])'
    <3>1. job'[j] = EndRecord(out)
      BY <1>j, <2>3
    <3>2. EndRecord(out).bytes <= disk
      <4>1. CASE out \in Taken
        BY <2>2, <2>3, <4>1
      <4>2. CASE out \notin Taken
        BY <2>3, <4>2 DEF Known
      <4> QED BY <4>1, <4>2
    <3>3. out \in Taken => EndRecord(out).bytes <= badhub'[c]
      BY <2>2, <2>3, <2>4
    <3> QED BY <2>1, <2>2, <2>3, <3>1, <3>2, <3>3 DEF Known
  <2>8. \A i \in Job : Known(job[i])'
    BY <2>6, <2>7
  <2> QED BY <2>1, <2>4, <2>5, <2>8 DEF NoteInv
<1>3. CASE Reads(j)
  <2> DEFINE r == [job[j] EXCEPT !.at = "reads", !.bytes = disk, !.reads = 1]
  <2>1. Known(r)
    BY <1>3, <1>j DEF Reads, Known, JobType
  <2>2. job' = [job EXCEPT ![j] = r] /\ UNCHANGED <<takt, disk, badhub, crossed>>
    BY <1>3 DEF Reads
  <2> HIDE DEF r
  <2> QED BY <1>j, <2>1, <2>2, OneJobNotes
<1>4. CASE Takes(j)
  <2> DEFINE r == [job[j] EXCEPT !.at = "sends", !.reads = 0]
  <2>1. Known(r)
    BY <1>4, <1>j DEF Takes, Known, JobType
  <2>2. CASE job' = [job EXCEPT ![j] = r]
    <3> HIDE DEF r
    <3> QED BY <1>4, <1>j, <2>1, <2>2, OneJobNotes DEF Takes
  <2>3. CASE Ends(j, "halt")
    BY <1>4, <2>3, <1>f DEF Takes, Up, Uploading, Outcomes, Taken
  <2> QED BY <1>4, <2>2, <2>3 DEF Takes
<1>5. CASE ReadsAgain(j)
  <2> DEFINE r == [job[j] EXCEPT !.bytes = disk, !.reads = @ + 1]
  <2>1. Known(r)
    BY <1>5, <1>j DEF ReadsAgain, Known, JobType
  <2>2. CASE job' = [job EXCEPT ![j] = r]
    <3> HIDE DEF r
    <3> QED BY <1>5, <1>j, <2>1, <2>2, OneJobNotes DEF ReadsAgain
  <2>3. CASE Ends(j, "retry")
    BY <1>5, <2>3, <1>f DEF ReadsAgain, Up, Uploading, Outcomes, Taken
  <2> QED BY <1>5, <2>2, <2>3 DEF ReadsAgain
<1>6. CASE UploadEnds(j)
  <2> DEFINE r == [job[j] EXCEPT !.at = "drops"]
  <2>1. Known(r)
    BY <1>6, <1>j DEF UploadEnds, Known, JobType
  <2>2. job' = [job EXCEPT ![j] = r] /\ UNCHANGED <<takt, disk, badhub, crossed>>
    BY <1>6 DEF UploadEnds, Goes
  <2> HIDE DEF r
  <2> QED BY <1>j, <2>1, <2>2, OneJobNotes
<1>7. CASE UploadPanics(j)
  <2> DEFINE r == [Idle EXCEPT !.at = "unwinds", !.config = job[j].config, !.out = "retry"]
  <2>1. Known(r)
    BY <1>7, <1>j DEF UploadPanics, Known, JobType, Idle, Outcomes, Taken
  <2>2. job' = [job EXCEPT ![j] = r] /\ UNCHANGED <<takt, disk, badhub, crossed>>
    BY <1>7 DEF UploadPanics
  <2> HIDE DEF r
  <2> QED BY <1>j, <2>1, <2>2, OneJobNotes
<1>8. CASE NetFalls(j)
  <2> DEFINE r == IF job[j].at = "unwinds" /\ j \in Press
                  THEN [Idle EXCEPT !.at = "done"] ELSE [job[j] EXCEPT !.at = "files"]
  <2>1. Known(r)
    BY <1>8, <1>j DEF NetFalls, Known, JobType, Idle
  <2>2. job' = [job EXCEPT ![j] = r] /\ UNCHANGED <<takt, disk, badhub, crossed>>
    BY <1>8 DEF NetFalls
  <2> HIDE DEF r
  <2> QED BY <1>j, <2>1, <2>2, OneJobNotes
<1> QED BY <1>1, <1>2, <1>3, <1>4, <1>5, <1>6, <1>7, <1>8 DEF Uploads

LEMMA NoteInvHolds == Spec => []NoteInv
<1>1. UploadInv /\ NoteInv /\ [Next]_vars => NoteInv'
  <2> SUFFICES ASSUME UploadInv, NoteInv, [Next]_vars PROVE NoteInv'
    OBVIOUS
  <2>1. CASE UNCHANGED vars
    BY <2>1 DEF vars, btpVars, upVars, NoteInv, Noted, Known
  <2>2. CASE Next
    BY <2>2, OutsideNotes, ChecksNote, PressNotes, UploadsNote DEF Next, Outside
  <2> QED BY <2>1, <2>2
<1> QED BY <1>1, NoteInitially, UploadInvHolds, PTL DEF Spec

(* A note that fits the file (TaktZustand, merke, knopf_nachlauf) means that badhub
   has it, at the address the note was made for, whoever made it and whatever was
   uploaded, saved or restarted since, for any number of steps, clicks, writes and
   configurations; the code's note does not name the address, so that this is what
   passt() can rely on only while the address stays. Uploads that ran side by side
   after a crossing are exempt. *)
THEOREM NoFileIsMissed == Spec => []NotedIsAtBadhub
<1>1. UploadInv /\ NoteInv => NotedIsAtBadhub
  <2> SUFFICES ASSUME UploadInv, NoteInv, NEW c \in Config,
                      ~crossed, takt.merker = [config |-> c, bytes |-> disk]
               PROVE badhub[c] = disk
    BY DEF NotedIsAtBadhub
  <2>1. takt.merker # NoBytes
    BY UploadAssumption DEF NoBytes
  <2>2. disk <= badhub[c] /\ badhub[c] <= disk
    BY <2>1 DEF NoteInv, Noted
  <2> QED BY <2>2 DEF NoteInv, UploadInv, WorkTyped
<1> QED BY <1>1, UploadInvHolds, NoteInvHolds, PTL

-----------------------------------------------------------------------------
(* The types.  BTP makes one change per write of the host and per entry by hand,
   so the bounds hold as soon as the writes are finitely many. *)
GateTyped == copier \in Job \cup {NoJob} /\ line \in Seq(Write \cup Job)

LEMMA LineShrinks ==
  ASSUME NEW x, line \in Seq(Write \cup Job), Leave(x) PROVE line' \in Seq(Write \cup Job)
<1>1. CASE UNCHANGED line
  BY <1>1
<1>2. ASSUME NEW i \in Places(x),
             line' = SubSeq(line, 1, i - 1) \o SubSeq(line, i + 1, Len(line))
      PROVE line' \in Seq(Write \cup Job)
  <2>1. i \in 1 .. Len(line) /\ Len(line) \in Nat
    BY LenProperties DEF Places
  <2>2. SubSeq(line, 1, i - 1) \in Seq(Write \cup Job)
    BY <2>1, SubSeqProperties
  <2>3. SubSeq(line, i + 1, Len(line)) \in Seq(Write \cup Job)
    BY <2>1, SubSeqProperties
  <2> QED BY <1>2, <2>2, <2>3, ConcatProperties
<1> QED BY <1>1, <1>2 DEF Leave

LEMMA GateStaysTyped == GateTyped /\ [GateNext]_gateVars => GateTyped'
<1> SUFFICES ASSUME GateTyped, [GateNext]_gateVars PROVE GateTyped'
  OBVIOUS
<1> USE DEF GateTyped
<1>1. CASE UNCHANGED gateVars
  BY <1>1 DEF gateVars
<1>2. ASSUME NEW w \in Write, WriteStep(w) PROVE GateTyped'
  <2>1. Append(line, w) \in Seq(Write \cup Job)
    BY AppendProperties
  <2> QED BY <1>2, <2>1, LineShrinks DEF WriteStep, WriteArrives, WriteEnds, WriteBreaksOff
<1>3. ASSUME NEW j \in Job, CopyStep(j) PROVE GateTyped'
  <2>1. Append(line, j) \in Seq(Write \cup Job)
    BY AppendProperties
  <2> QED BY <1>3, <2>1, LineShrinks DEF CopyStep, CopyArrives, CopyGivesUp, CopyEnds
<1>4. CASE AdmitFirst
  <2>1. Tail(line) \in Seq(Write \cup Job)
    BY <1>4, HeadTailProperties DEF AdmitFirst
  <2> QED BY <1>4, <2>1 DEF AdmitFirst
<1> QED BY <1>1, <1>2, <1>3, <1>4 DEF GateNext

Executed == {w \in Write : exec[w] > 0}

CountInv ==
    /\ mem \in Nat /\ disk \in 1 .. mem
    /\ \A w \in Write : exec[w] <= mem
    /\ events \in 0 .. MaxEvents
    /\ mem <= 1 + Cardinality(Executed) + events

StageInv ==
    /\ loop \in Step \cup {"off", "free"}
    /\ \A j \in Job : job[j].reads \in 0 .. 2

LEMMA Counts ==
  ASSUME IsFiniteSet(Write), UploadInv, CountInv, [Next]_vars PROVE CountInv'
<1> USE DEF CountInv, upVars, btpVars, gateVars, OnlyTheJob
<1>n. UNCHANGED btpVars /\ events' \in events .. MaxEvents => CountInv'
  <2> SUFFICES ASSUME UNCHANGED btpVars, events' \in events .. MaxEvents PROVE CountInv'
    OBVIOUS
  <2>1. Executed' = Executed /\ Cardinality(Executed) \in Nat
    BY FS_Subset, FS_CardinalityType DEF Executed
  <2> QED BY <2>1
<1>e. events \in events .. MaxEvents /\ (events < MaxEvents => events + 1 \in events .. MaxEvents)
  BY UploadAssumption
<1>1. ASSUME NEW w \in Write, HostWrites(w) \/ BtpExecutes(w) PROVE CountInv'
  <2>1. CASE HostWrites(w)
    BY <1>e, <1>n, <2>1 DEF HostWrites, WriteBegins, WriteAnswered, WriteFails
  <2>2. CASE BtpExecutes(w)
    <3>1. exec \in [Write -> Nat]
      BY DEF UploadInv, WorkTyped
    <3>2. Executed' = Executed \cup {w} /\ w \notin Executed
      BY <2>2, <3>1 DEF BtpExecutes, Executed
    <3>3. IsFiniteSet(Executed) /\ Cardinality(Executed) \in Nat
      BY FS_Subset, FS_CardinalityType DEF Executed
    <3>4. Cardinality(Executed') = Cardinality(Executed) + 1
      BY <3>2, <3>3, FS_AddElement
    <3>5. \A v \in Write : exec'[v] <= mem'
      BY <2>2, <3>1 DEF BtpExecutes
    <3> QED BY <2>2, <3>3, <3>4, <3>5 DEF BtpExecutes
  <2> QED BY <1>1, <2>1, <2>2
<1>2. CASE EnteredByHand
  <2>1. UNCHANGED <<exec, disk>> /\ mem' = mem + 1 /\ events' = events + 1 /\ events < MaxEvents
    BY <1>2 DEF EnteredByHand
  <2>2. Executed' = Executed /\ Cardinality(Executed) \in Nat
    BY <2>1, FS_Subset, FS_CardinalityType DEF Executed
  <2>3. \A w \in Write : exec'[w] <= mem'
    BY <2>1 DEF UploadInv, WorkTyped
  <2> QED BY <2>1, <2>2, <2>3, UploadAssumption
<1>3. CASE BtpSaves
  <2>1. Executed' = Executed
    BY <1>3 DEF BtpSaves, Executed
  <2> QED BY <1>3, <2>1 DEF BtpSaves
<1>4. CASE Admit \/ SaveEnds \/ LoopStarts \/ LoopAborted \/ DateComes
  BY <1>e, <1>n, <1>4 DEF Admit, SaveEnds, LoopStarts, LoopAborted, DateComes
<1>5. ASSUME NEW c \in Config, SaveBegins(c) PROVE CountInv'
  BY <1>e, <1>n, <1>5 DEF SaveBegins
<1>6. ASSUME NEW s \in Step, Checks(s) PROVE CountInv'
  BY <1>e, <1>n, <1>6
  DEF Checks, StepBegins, Asks, Looks, LookFails, Compares, StepUploads, StepFiles, FlagIsSet
<1>7. ASSUME NEW p \in Press, PressUploads(p) \/ PressFiles(p) PROVE CountInv'
  BY <1>e, <1>n, <1>7 DEF PressUploads, PressFiles, FlagIsSet
<1>8. ASSUME NEW j \in Job, Uploads(j) PROVE CountInv'
  BY <1>e, <1>n, <1>8
  DEF Uploads, GateIsBusy, Reads, Takes, ReadsAgain, ReadFails, Sent, NotSent, UploadEnds,
      UploadPanics, NetFalls
<1>9. CASE UNCHANGED vars
  BY <1>e, <1>n, <1>9 DEF vars
<1> QED BY <1>1, <1>2, <1>3, <1>4, <1>5, <1>6, <1>7, <1>8, <1>9 DEF Next

LEMMA Stages ==
  ASSUME UploadInv, StageInv, [Next]_vars PROVE StageInv'
<1> USE DEF upVars, btpVars, gateVars, OnlyTheJob, Goes
<1>j. /\ job \in [Job -> JobType] /\ \A i \in Job : job[i] \in JobType
      /\ \A i \in Job : job[i].reads \in 0 .. 2
      /\ loop \in Step \cup {"off", "free"}
  BY DEF UploadInv, WorkTyped, StageInv
<1>1. CASE Outside \/ UNCHANGED vars
  BY <1>1, <1>j
  DEF Outside, HostWrites, WriteBegins, WriteAnswered, WriteFails, BtpExecutes, EnteredByHand,
      BtpSaves, Admit, SaveBegins, SaveEnds, LoopStarts, LoopAborted, DateComes, StageInv, vars
<1>2. ASSUME NEW s \in Step, Checks(s) PROVE StageInv'
  <2>1. s \in Job
    BY UploadAssumption
  <2>2. loop' \in Step \cup {"off", "free"}
    BY <1>2, <1>j DEF Checks, StepBegins, Asks, Looks, LookFails, Compares, StepUploads,
                      StepFiles, StepDone, NoStep
  <2>3. \A i \in Job : job'[i].reads \in {job[i].reads, 0}
    <3> USE DEF JobType, Idle, StepDone, NoStep
    <3>1. CASE StepBegins(s)
      <4> DEFINE r == [Idle EXCEPT !.config = config,
                          !.at = IF takt.nachholen THEN "asks" ELSE "looks"]
      <4>1. r.reads = 0
        OBVIOUS
      <4>2. job' = job \/ job' = [job EXCEPT ![s] = r]
        BY <3>1 DEF StepBegins
      <4> HIDE DEF r
      <4> QED BY <1>j, <2>1, <4>1, <4>2
    <3>2. CASE Asks(s)
      BY <1>j, <2>1, <3>2 DEF Asks
    <3>3. CASE Looks(s)
      BY <1>j, <2>1, <3>3 DEF Looks
    <3>4. CASE LookFails(s) \/ StepFiles(s)
      BY <1>j, <2>1, <3>4 DEF LookFails, StepFiles
    <3>5. CASE Compares(s)
      BY <1>j, <2>1, <3>5 DEF Compares
    <3>6. CASE StepUploads(s)
      BY <1>j, <2>1, <3>6 DEF StepUploads
    <3> QED BY <1>2, <3>1, <3>2, <3>3, <3>4, <3>5, <3>6 DEF Checks
  <2> QED BY <1>j, <2>2, <2>3 DEF StageInv
<1>3. ASSUME NEW p \in Press, PressUploads(p) \/ PressFiles(p) PROVE StageInv'
  <2>1. p \in Job
    BY UploadAssumption
  <2>2. \A i \in Job : job'[i].reads \in {job[i].reads, 0}
    BY <1>3, <1>j, <2>1 DEF PressUploads, PressFiles, Idle, JobType
  <2> QED BY <1>3, <1>j, <2>2 DEF StageInv, PressUploads, PressFiles
<1>4. ASSUME NEW j \in Job, Uploads(j) PROVE StageInv'
  <2>1. loop' = loop
    BY <1>4 DEF Uploads, GateIsBusy, Reads, Takes, ReadsAgain, ReadFails, Sent, NotSent,
                UploadEnds, UploadPanics, NetFalls
  <2>2. ASSUME NEW out \in Outcomes, Ends(j, out) PROVE StageInv'
    <3> DEFINE r == [job[j] EXCEPT !.at = "ends", !.out = out, !.reads = 0,
                         !.bytes = IF out \in {"sent", "pending"} THEN @ ELSE 0]
    <3>1. r.reads = 0 /\ job' = [job EXCEPT ![j] = r]
      BY <1>j, <2>2 DEF Ends, JobType
    <3> HIDE DEF r
    <3>2. \A i \in Job : job'[i].reads \in {job[i].reads, 0}
      BY <1>j, <3>1
    <3> QED BY <1>j, <2>1, <3>2 DEF StageInv
  <2>3. CASE GateIsBusy(j) \/ ReadFails(j) \/ NotSent(j) \/ (\E out \in Outcomes : Sent(j, out))
    BY <2>2, <2>3 DEF GateIsBusy, ReadFails, NotSent, Sent, Outcomes
  <2>4. CASE Reads(j) \/ UploadEnds(j) \/ UploadPanics(j) \/ NetFalls(j)
    <3>1. \A i \in Job : job'[i].reads \in {job[i].reads, 0, 1}
      <4>1. CASE Reads(j)
        BY <1>j, <4>1 DEF Reads, JobType
      <4>2. CASE UploadEnds(j)
        BY <1>j, <4>2 DEF UploadEnds, JobType
      <4>3. CASE UploadPanics(j)
        BY <1>j, <4>3 DEF UploadPanics, Idle
      <4>4. CASE NetFalls(j)
        BY <1>j, <4>4 DEF NetFalls, Idle, JobType
      <4> QED BY <2>4, <4>1, <4>2, <4>3, <4>4
    <3> QED BY <1>j, <2>1, <3>1 DEF StageInv
  <2>5. CASE Takes(j)
    <3>1. CASE job' = [job EXCEPT ![j].at = "sends", ![j].reads = 0]
      <4>1. \A i \in Job : job'[i].reads \in {job[i].reads, 0}
        BY <1>j, <3>1 DEF JobType
      <4> QED BY <1>j, <2>1, <4>1 DEF StageInv
    <3> QED BY <2>2, <2>5, <3>1 DEF Takes, Outcomes
  <2>6. CASE ReadsAgain(j)
    <3>1. CASE job[j].reads # 2 /\ job' = [job EXCEPT ![j].bytes = disk, ![j].reads = @ + 1]
      <4>1. \A i \in Job : \/ job'[i].reads = job[i].reads
                           \/ job[i].reads # 2 /\ job'[i].reads = job[i].reads + 1
        BY <1>j, <3>1 DEF JobType
      <4> QED BY <1>j, <2>1, <4>1 DEF StageInv
    <3> QED BY <2>2, <2>6, <3>1 DEF ReadsAgain, Outcomes
  <2> QED BY <1>4, <2>3, <2>4, <2>5, <2>6 DEF Uploads
<1> QED BY <1>1, <1>2, <1>3, <1>4 DEF Next, Outside

(* However often and in whatever order the tasks run, everything keeps its type,
   and the file is never read more than three times for one upload (lese_stabil:
   two repetitions), for any finite number of writes. *)
THEOREM UploadIsTyped == IsFiniteSet(Write) /\ Spec => []TypeOK
<1>1. SUFFICES ASSUME IsFiniteSet(Write) PROVE Spec => []TypeOK
  OBVIOUS
<1> DEFINE I == UploadInv /\ NoteInv /\ GateTyped /\ CountInv /\ StageInv
<1>2. Init => I
  <2> SUFFICES ASSUME Init PROVE GateTyped /\ CountInv /\ StageInv
    BY UploadInitially, NoteInitially
  <2>1. Executed = {}
    BY DEF Init, Executed
  <2>2. CountInv
    BY <2>1, FS_EmptySet, UploadAssumption DEF Init, CountInv
  <2>3. <<>> \in Seq(Write \cup Job)
    BY EmptySeq
  <2> QED BY <2>2, <2>3 DEF Init, GateInit, GateTyped, StageInv, Idle
<1>3. CountInv /\ UploadInv /\ [Next]_vars => CountInv'
  BY <1>1, Counts
<1>4. I => TypeOK
  <2> SUFFICES ASSUME I PROVE TypeOK
    OBVIOUS
  <2> USE DEF UploadInv
  <2>1. Cardinality(Executed) \in Nat /\ Cardinality(Executed) <= Cardinality(Write)
        /\ Cardinality(Write) \in Nat
    BY <1>1, FS_Subset, FS_CardinalityType DEF Executed
  <2>2. MaxChanges \in Nat /\ mem \in 1 .. MaxChanges /\ disk \in 1 .. mem /\ events \in 0 .. MaxEvents
    BY <2>1, UploadAssumption DEF CountInv, MaxChanges
  <2>3. exec \in [Write -> 0 .. MaxChanges]
    <3>1. ASSUME NEW w \in Write PROVE exec[w] \in 0 .. MaxChanges
      <4>1. exec[w] \in Nat /\ exec[w] <= mem
        BY DEF CountInv, WorkTyped
      <4> QED BY <2>2, <4>1
    <3> QED BY <3>1 DEF WorkTyped
  <2>4. badhub \in [Config -> 0 .. mem]
    <3>1. \A c \in Config : badhub[c] \in 0 .. mem
      BY <2>2 DEF NoteInv
    <3> QED BY <3>1 DEF NoteInv
  <2>5. takt \in [date : {"none", "waiting", "due"}, halted : Config \cup {NoConfig},
                  merker : [config : Config, bytes : 0 .. mem] \cup {NoBytes},
                  nachholen : BOOLEAN]
    <3> DEFINE r == takt.merker
    <3>1. r # NoBytes => /\ r \in [config : Config, bytes : Nat]
                         /\ r.bytes <= disk
      BY DEF NoteInv, Noted, TaktType
    <3> HIDE DEF r
    <3>2. r # NoBytes => r \in [config : Config, bytes : 0 .. mem]
      BY <2>2, <3>1
    <3>3. takt.merker \in [config : Config, bytes : 0 .. mem] \cup {NoBytes}
      BY <3>2 DEF r
    <3> QED BY <3>3 DEF NoteInv, Noted, TaktType
  <2>6. ASSUME NEW j \in Job
        PROVE job[j] \in [at : {"idle", "asks", "looks", "compares", "differs", "drops",
                                "files", "done"} \cup Uploading,
                          config : Config \cup {NoConfig}, bytes : 0 .. mem,
                          reads : 0 .. 2, out : Outcomes \cup {"none"}]
    <3>1. job[j] \in JobType /\ job[j].bytes <= disk /\ job[j].reads \in 0 .. 2
      BY DEF WorkTyped, NoteInv, Known, StageInv
    <3>2. job[j].bytes \in 0 .. mem
      BY <2>2, <3>1 DEF JobType
    <3> QED BY <3>1, <3>2 DEF JobType, At, Uploading
  <2> QED BY <2>2, <2>3, <2>4, <2>5, <2>6
          DEF TypeOK, WorkTyped, GateInv, GateTyped, CountInv, StageInv
<1>5. GateTyped /\ [Next]_vars => GateTyped'
  BY UploadStep, GateStaysTyped
<1>6. StageInv /\ UploadInv /\ [Next]_vars => StageInv'
  BY Stages
<1> QED BY <1>2, <1>3, <1>4, <1>5, <1>6, UploadInvHolds, NoteInvHolds, PTL DEF Spec
=============================================================================
