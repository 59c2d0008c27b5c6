----------------------------- MODULE TpUpload ------------------------------
(* The upload of the TP file to badhub: by the button (tp_upload_now) and by
   the automatic check (tp_takt_schleife, tp_takt_schritt, TaktZustand), both
   through fuehre_upload_aus and the write gate.

   One action is the code between two awaits, or between two locks of the
   shared status. Bytes of the file are the number of changes they hold; a
   change is one write of the host or one entry by hand in BTP. Of a time only
   "none", "waiting" and "due" are told apart, so the lengths of retries and
   pauses and the events that bring a date forward are left out. *)
EXTENDS WriteGate, FiniteSets

CONSTANTS
    Step,       \* tasks of tp_takt_schritt
    Press,      \* clicks on the button; Job = Step \cup Press
    Config,     \* the configurations: file, tournament, address, password
    FileOf,     \* a configuration's path and tournament, all that a note keeps
    Refused,    \* those the host or badhub refuses
    NoConfig,
    MaxEvents   \* bound: entries by hand, savings of the configuration, panics,
                \* uploads begun between the two clears of the flag

ASSUME UploadAssumption ==
    /\ Job = Step \cup Press /\ Step \cap Press = {}
    /\ Refused \subseteq Config /\ NoConfig \notin Config
    /\ DOMAIN FileOf = Config
    /\ MaxEvents \in Nat

VARIABLES
    exec,     \* after how many changes BTP executed a write; 0: not yet
    mem,      \* changes BTP has made
    disk,     \* those its file holds
    config,   \* AppState.config
    saving,   \* what save_config is about to store, or NoConfig
    loop,     \* tp_takt_schleife: "off", "free", or the step it waits for
    takt,     \* TaktZustand: date, configuration behind a halt, bytes noted
              \* (merker.config is history, but for its FileOf)
    laeuft,   \* TpUploadStatus.laeuft
    job,      \* where each step and each click stands
    badhub,   \* per configuration what badhub received last; 0: no file
    crossed,  \* history: an upload began between the two clears of the flag
    events    \* how many of those there were

upVars == <<config, saving, loop, takt, laeuft, job, badhub, crossed>>
btpVars == <<exec, mem, disk>>
vars == <<gateVars, btpVars, upVars, events>>

NoBytes == [config |-> NoConfig, bytes |-> 0]
Idle == [at |-> "idle", config |-> NoConfig, bytes |-> 0, reads |-> 0, out |-> "none"]
Uploading == {"gate", "reads", "sends", "ends", "unwinds"}
Outcomes == {"sent", "pending", "retry", "halt"}
MaxChanges == 1 + Cardinality(Write) + MaxEvents

TypeOK ==
    /\ write \in [Write -> {"idle", "waiting", "writing", "answered", "lost"}]
    /\ copier \in Job \cup {NoJob}
    /\ line \in Seq(Write \cup Job)
    /\ exec \in [Write -> 0 .. MaxChanges]
    /\ mem \in 1 .. MaxChanges /\ disk \in 1 .. mem
    /\ config \in Config
    /\ saving \in Config \cup {NoConfig}
    /\ loop \in Step \cup {"off", "free"}
    /\ takt \in [date : {"none", "waiting", "due"}, halted : Config \cup {NoConfig},
                 merker : [config : Config, bytes : 0 .. mem] \cup {NoBytes},
                 nachholen : BOOLEAN]
    /\ laeuft \in BOOLEAN
    /\ job \in [Job -> [at : {"idle", "asks", "looks", "compares", "differs", "drops",
                               "files", "done"} \cup Uploading,
                        config : Config \cup {NoConfig}, bytes : 0 .. mem,
                        reads : 0 .. 2, out : Outcomes \cup {"none"}]]
    /\ badhub \in [Config -> 0 .. mem]
    /\ crossed \in BOOLEAN
    /\ events \in 0 .. MaxEvents

Init ==
    /\ GateInit
    /\ exec = [w \in Write |-> 0] /\ mem = 1 /\ disk = 1
    /\ config \in Config
    /\ saving = NoConfig
    /\ loop = "off"
    /\ takt = [date |-> "none", halted |-> NoConfig, merker |-> NoBytes, nachholen |-> FALSE]
    /\ laeuft = FALSE
    /\ job = [j \in Job |-> Idle]
    /\ badhub = [c \in Config |-> 0]
    /\ crossed = FALSE
    /\ events = 0

-----------------------------------------------------------------------------
(* Writes of the host, and BTP. *)

WriteBegins(w) == WriteArrives(w) /\ UNCHANGED <<btpVars, upVars, events>>

(* BTP executes what was sent, even for a task that has given up. *)
BtpExecutes(w) ==
    /\ write[w] \in {"writing", "lost"}
    /\ exec[w] = 0
    /\ mem' = mem + 1
    /\ exec' = [exec EXCEPT ![w] = mem + 1]
    /\ UNCHANGED <<gateVars, disk, upVars, events>>

WriteAnswered(w) ==
    /\ exec[w] > 0
    /\ WriteEnds(w)
    /\ UNCHANGED <<btpVars, upVars, events>>

WriteFails(w) == WriteBreaksOff(w) /\ UNCHANGED <<btpVars, upVars, events>>

EnteredByHand ==
    /\ events < MaxEvents
    /\ mem' = mem + 1
    /\ events' = events + 1
    /\ UNCHANGED <<gateVars, exec, disk, upVars>>

BtpSaves ==
    /\ disk < mem
    /\ disk' = mem
    /\ UNCHANGED <<gateVars, exec, mem, upVars, events>>

Admit == AdmitFirst /\ UNCHANGED <<btpVars, upVars, events>>

-----------------------------------------------------------------------------
(* Transitions of TaktZustand. *)

Halt(t, c) == [t EXCEPT !.halted = c, !.date = "waiting"]
Unveraendert(t) == [t EXCEPT !.date = "waiting"]
KnopfLaeuft(t) == [t EXCEPT !.date = "waiting"]
Starten(t) == [t EXCEPT !.date = "waiting"]
\* SendeMerker::passt: path, tournament and bytes, not the address.
Passt(note, c, b) ==
    note.config # NoConfig /\ FileOf[note.config] = FileOf[c] /\ note.bytes = b
Merke(t, c, b, n) == [t EXCEPT !.merker = [config |-> c, bytes |-> b], !.nachholen = n]

(* einordnen and anwenden: what the outcome of the upload j means. *)
Anwenden(t, j) ==
    CASE j.out \in {"sent", "pending"} ->
            [Merke(t, j.config, j.bytes, j.out = "pending") EXCEPT !.date = "waiting"]
      [] j.out = "halt" -> Halt(t, j.config)
      [] j.out = "retry" -> [t EXCEPT !.date = "waiting"]

KnopfGesendet(t, j) ==
    [Merke(t, j.config, j.bytes, j.out = "pending") EXCEPT !.halted = NoConfig]

Wiederanlauf(t) ==
    [t EXCEPT !.halted = NoConfig, !.merker = NoBytes, !.nachholen = FALSE, !.date = "waiting"]

-----------------------------------------------------------------------------
(* Configuration, dates and the loop. *)

(* save_config: first config_gewechselt on the status, then the new value. *)
SaveBegins(c) ==
    /\ events < MaxEvents
    /\ saving = NoConfig
    /\ c # config
    /\ saving' = c
    /\ takt' = Wiederanlauf(takt)
    /\ events' = events + 1
    /\ UNCHANGED <<gateVars, btpVars, config, loop, laeuft, job, badhub, crossed>>

SaveEnds ==
    /\ saving # NoConfig
    /\ config' = saving
    /\ saving' = NoConfig
    /\ UNCHANGED <<gateVars, btpVars, loop, takt, laeuft, job, badhub, crossed, events>>

(* The sync is started; tp_takt_start. *)
LoopStarts ==
    /\ loop = "off"
    /\ loop' = "free"
    /\ takt' = Starten(takt)
    /\ UNCHANGED <<gateVars, btpVars, config, saving, laeuft, job, badhub, crossed, events>>

(* The sync is stopped; a step is a task of its own and goes on. *)
LoopAborted ==
    /\ loop # "off"
    /\ loop' = "off"
    /\ UNCHANGED <<gateVars, btpVars, config, saving, takt, laeuft, job, badhub, crossed, events>>

DateComes ==
    /\ takt.date = "waiting"
    /\ takt' = [takt EXCEPT !.date = "due"]
    /\ UNCHANGED <<gateVars, btpVars, config, saving, loop, laeuft, job, badhub, crossed, events>>

-----------------------------------------------------------------------------
(* The step of the automatic check up to the upload. *)

Goes(j, at) == job' = [job EXCEPT ![j].at = at]
StepDone(s) == job' = [job EXCEPT ![s] = Idle] /\ loop' = IF loop = s THEN "free" ELSE loop
NoStep == UNCHANGED <<job, loop>>

(* The tick of the loop finds the date due: halt, conditions, then the file. *)
StepBegins(s) ==
    /\ loop = "free" /\ takt.date = "due" /\ job[s].at = "idle"
    /\ \/ takt.halted # NoConfig /\ takt' = [takt EXCEPT !.date = "waiting"] /\ NoStep
       \/ takt.halted = NoConfig /\ config \in Refused /\ takt' = Halt(takt, config) /\ NoStep
       \/ /\ takt.halted = NoConfig
          /\ job' = [job EXCEPT ![s] = [Idle EXCEPT !.config = config,
                        !.at = IF takt.nachholen THEN "asks" ELSE "looks"]]
          /\ takt' = [takt EXCEPT !.nachholen = FALSE]
          /\ loop' = s
    /\ UNCHANGED <<gateVars, btpVars, config, saving, laeuft, badhub, crossed, events>>

(* The state of an upload that was still pending: fatal, or go on. *)
Asks(s) ==
    /\ job[s].at = "asks"
    /\ \/ Goes(s, "looks") /\ UNCHANGED <<takt, loop>>
       \/ job[s].config \in Refused /\ takt' = Halt(takt, job[s].config) /\ StepDone(s)
    /\ UNCHANGED <<gateVars, btpVars, config, saving, laeuft, badhub, crossed, events>>

(* The quick reading, without the gate. *)
Looks(s) ==
    /\ job[s].at = "looks"
    /\ job' = [job EXCEPT ![s].at = "compares", ![s].bytes = disk]
    /\ UNCHANGED <<gateVars, btpVars, config, saving, loop, takt, laeuft, badhub, crossed, events>>

LookFails(s) ==
    /\ job[s].at = "looks"
    /\ \E out \in {"retry", "halt"} : takt' = Anwenden(takt, [job[s] EXCEPT !.out = out])
    /\ StepDone(s)
    /\ UNCHANGED <<gateVars, btpVars, config, saving, laeuft, badhub, crossed, events>>

(* A plausible bug: passt() leaves the bytes out. *)
ComparesFileOnly(s) ==
    /\ job[s].at = "compares"
    /\ IF Passt(takt.merker, job[s].config, takt.merker.bytes)
       THEN takt' = Unveraendert(takt) /\ StepDone(s)
       ELSE /\ job' = [job EXCEPT ![s].at = "differs", ![s].bytes = 0]
            /\ UNCHANGED <<takt, loop>>
    /\ UNCHANGED <<gateVars, btpVars, config, saving, laeuft, badhub, crossed, events>>

Compares(s) ==
    /\ job[s].at = "compares"
    /\ IF Passt(takt.merker, job[s].config, job[s].bytes)
       THEN takt' = Unveraendert(takt) /\ StepDone(s)
       ELSE /\ job' = [job EXCEPT ![s].at = "differs", ![s].bytes = 0]
            /\ UNCHANGED <<takt, loop>>
    /\ UNCHANGED <<gateVars, btpVars, config, saving, laeuft, badhub, crossed, events>>

(* upload_starten sets the flag: for good, or, in a rare event, until the safety
   net of an upload that has just ended takes it away again. *)
FlagIsSet ==
    /\ laeuft' = TRUE
    /\ \/ /\ \A j \in Job : job[j].at # "drops"
          /\ UNCHANGED <<crossed, events>>
       \/ /\ \E j \in Job : job[j].at = "drops"
          /\ events < MaxEvents
          /\ crossed' = TRUE
          /\ events' = events + 1

(* One upload at a time. *)
StepUploads(s) ==
    /\ job[s].at = "differs"
    /\ IF laeuft
       THEN takt' = KnopfLaeuft(takt) /\ StepDone(s) /\ UNCHANGED <<gateVars, laeuft, crossed, events>>
       ELSE FlagIsSet /\ Goes(s, "gate") /\ CopyArrives(s) /\ UNCHANGED <<takt, loop>>
    /\ UNCHANGED <<btpVars, config, saving, badhub>>

(* A plausible bug: the click does not ask whether an upload runs. *)
PressUploadsAnyway(p) ==
    /\ job[p].at = "idle"
    /\ FlagIsSet
    /\ job' = [job EXCEPT ![p].at = "gate", ![p].config = config]
    /\ CopyArrives(p)
    /\ UNCHANGED <<btpVars, config, saving, loop, takt, badhub>>

(* tp_upload_now: conditions, upload_starten; a click while one runs is lost. *)
PressUploads(p) ==
    /\ job[p].at = "idle"
    /\ ~laeuft
    /\ FlagIsSet
    /\ job' = [job EXCEPT ![p].at = "gate", ![p].config = config]
    /\ CopyArrives(p)
    /\ UNCHANGED <<btpVars, config, saving, loop, takt, badhub>>

-----------------------------------------------------------------------------
(* fuehre_upload_aus. *)

(* Bytes that did not go out are forgotten. *)
Ends(j, out) ==
    job' = [job EXCEPT ![j].at = "ends", ![j].out = out, ![j].reads = 0,
                       ![j].bytes = IF out \in {"sent", "pending"} THEN @ ELSE 0]
OnlyTheJob == UNCHANGED <<btpVars, config, saving, loop, takt, laeuft, badhub, crossed, events>>

GateIsBusy(j) ==
    /\ job[j].at = "gate"
    /\ CopyGivesUp(j)
    /\ Ends(j, "retry")
    /\ OnlyTheJob

(* RUHE is meant to last until BTP's file has what BTP has answered. *)
Settled == \A w \in Write : write[w] = "answered" => exec[w] <= disk

(* A plausible bug: the guard is handed out without the rest. *)
ReadsAtOnce(j) ==
    /\ job[j].at = "gate"
    /\ copier = j
    /\ job' = [job EXCEPT ![j].at = "reads", ![j].bytes = disk, ![j].reads = 1]
    /\ UNCHANGED gateVars
    /\ OnlyTheJob

(* The rest is over: the first reading of lese_stabil. *)
Reads(j) ==
    /\ job[j].at = "gate"
    /\ copier = j
    /\ Settled
    /\ job' = [job EXCEPT ![j].at = "reads", ![j].bytes = disk, ![j].reads = 1]
    /\ UNCHANGED gateVars
    /\ OnlyTheJob

(* A further reading is like the last one: the guard falls, then the file goes
   out, unless it belongs to another tournament. *)
Takes(j) ==
    /\ job[j].at = "reads"
    /\ job[j].bytes = disk
    /\ CopyEnds(j)
    /\ \/ job' = [job EXCEPT ![j].at = "sends", ![j].reads = 0]
       \/ job[j].config \in Refused /\ Ends(j, "halt")
    /\ OnlyTheJob

(* A plausible bug: one reading more than lese_stabil's two repetitions. *)
ReadsOnceMore(j) ==
    /\ job[j].at = "reads"
    /\ job[j].bytes # disk
    /\ IF job[j].reads = 3
       THEN CopyEnds(j) /\ Ends(j, "retry")
       ELSE /\ job' = [job EXCEPT ![j].bytes = disk, ![j].reads = @ + 1]
            /\ UNCHANGED gateVars
    /\ OnlyTheJob

(* It is not; after the third one the copy is given up. *)
ReadsAgain(j) ==
    /\ job[j].at = "reads"
    /\ job[j].bytes # disk
    /\ IF job[j].reads = 2
       THEN CopyEnds(j) /\ Ends(j, "retry")
       ELSE /\ job' = [job EXCEPT ![j].bytes = disk, ![j].reads = @ + 1]
            /\ UNCHANGED gateVars
    /\ OnlyTheJob

ReadFails(j) ==
    /\ copier = j
    /\ job[j].at \in {"gate", "reads"}
    /\ CopyEnds(j)
    /\ \E out \in {"retry", "halt"} : Ends(j, out)
    /\ OnlyTheJob

(* badhub takes the file and says how it fared, or has not said so in time: then
   it may still refuse it later. *)
Sent(j, out) ==
    /\ job[j].at = "sends"
    /\ job[j].config \in Refused => out = "pending"
    /\ badhub' = [badhub EXCEPT ![job[j].config] = job[j].bytes]
    /\ Ends(j, out)
    /\ UNCHANGED <<gateVars, btpVars, config, saving, loop, takt, laeuft, crossed, events>>

(* A plausible bug: no answer counts as taken. *)
NotSentCounts(j) ==
    /\ job[j].at = "sends"
    /\ Ends(j, "sent") \/ (job[j].config \in Refused /\ Ends(j, "halt"))
    /\ UNCHANGED gateVars
    /\ OnlyTheJob

NotSent(j) ==
    /\ job[j].at = "sends"
    /\ Ends(j, "retry") \/ (job[j].config \in Refused /\ Ends(j, "halt"))
    /\ UNCHANGED gateVars
    /\ OnlyTheJob

(* The last lines: the status is free, then its lock ... *)
UploadEnds(j) ==
    /\ job[j].at = "ends"
    /\ laeuft' = FALSE
    /\ Goes(j, "drops")
    /\ UNCHANGED <<gateVars, btpVars, config, saving, loop, takt, badhub, crossed, events>>

(* A panic: the guard of the gate falls. *)
UploadPanics(j) ==
    /\ events < MaxEvents
    /\ job[j].at \in {"gate", "reads", "sends"}
    /\ IF copier = j THEN CopyEnds(j) ELSE job[j].at = "sends" /\ UNCHANGED gateVars
    /\ job' = [job EXCEPT ![j] =
                 [Idle EXCEPT !.at = "unwinds", !.config = job[j].config, !.out = "retry"]]
    /\ events' = events + 1
    /\ UNCHANGED <<btpVars, config, saving, loop, takt, laeuft, badhub, crossed>>

(* ... and last of all LaeuftZurueck falls: it locks the status once more and
   clears the flag if it is set, whoever has set it since. After a panic the
   step takes it for a retry, the task of the button is gone. *)
NetFalls(j) ==
    /\ job[j].at \in {"drops", "unwinds"}
    /\ laeuft' = FALSE
    /\ job' = IF job[j].at = "unwinds" /\ j \in Press
              THEN [job EXCEPT ![j] = [Idle EXCEPT !.at = "done"]]
              ELSE [job EXCEPT ![j].at = "files"]
    /\ UNCHANGED <<gateVars, btpVars, config, saving, loop, takt, badhub, crossed, events>>

StepFiles(s) ==
    /\ job[s].at = "files"
    /\ takt' = Anwenden(takt, job[s])
    /\ StepDone(s)
    /\ UNCHANGED <<gateVars, btpVars, config, saving, laeuft, badhub, crossed, events>>

(* knopf_nachlauf *)
PressFiles(p) ==
    /\ job[p].at = "files"
    /\ takt' = IF job[p].out \in {"sent", "pending"} THEN KnopfGesendet(takt, job[p]) ELSE takt
    /\ job' = [job EXCEPT ![p] = [Idle EXCEPT !.at = "done"]]
    /\ UNCHANGED <<gateVars, btpVars, config, saving, loop, laeuft, badhub, crossed, events>>

-----------------------------------------------------------------------------
HostWrites(w) == WriteBegins(w) \/ WriteAnswered(w) \/ WriteFails(w)

Checks(s) ==
    \/ StepBegins(s) \/ Asks(s) \/ Looks(s) \/ LookFails(s) \/ Compares(s)
    \/ StepUploads(s) \/ StepFiles(s)

Uploads(j) ==
    \/ GateIsBusy(j) \/ Reads(j) \/ Takes(j) \/ ReadsAgain(j) \/ ReadFails(j)
    \/ \E out \in Outcomes \ {"halt"} : Sent(j, out)
    \/ NotSent(j) \/ UploadEnds(j) \/ UploadPanics(j) \/ NetFalls(j)

Next ==
    \/ \E w \in Write : HostWrites(w) \/ BtpExecutes(w)
    \/ EnteredByHand \/ BtpSaves \/ Admit
    \/ \E c \in Config : SaveBegins(c)
    \/ SaveEnds \/ LoopStarts \/ LoopAborted \/ DateComes
    \/ \E s \in Step : Checks(s)
    \/ \E p \in Press : PressUploads(p) \/ PressFiles(p)
    \/ \E j \in Job : Uploads(j)

Spec == Init /\ [][Next]_vars

(* The tasks run, every await in them ends, the lock is handed on. Reading and
   sending do not fail for ever. *)
Fairness ==
    /\ WF_vars(Admit) /\ WF_vars(BtpSaves) /\ WF_vars(DateComes)
    /\ \A w \in Write : WF_vars(WriteAnswered(w) \/ WriteFails(w))
    /\ \A p \in Press : WF_vars(PressFiles(p) \/ Uploads(p))
    /\ \A s \in Step :
        /\ WF_vars(Checks(s) \/ Uploads(s))
        /\ SF_vars(Looks(s)) /\ SF_vars(Reads(s)) /\ SF_vars(Takes(s)) /\ SF_vars(Sent(s, "sent"))

FairSpec == Spec /\ Fairness

-----------------------------------------------------------------------------
(* The flag that guards upload_starten is never left set without an upload: no
   error, abort or panic makes the button dead. And it is set while one runs, and
   one at most does - unless an upload once began between the end of another and
   the fall of that one's safety net, which FlagStaysSet is about. *)
Running == {j \in Job : job[j].at \in Uploading}

LaeuftMatches ==
    /\ laeuft => Running # {}
    /\ ~crossed => /\ Running # {} => laeuft
                   /\ \A i, j \in Running : i = j

(* A file that goes out has every write of the host that BTP had answered when
   the copy was taken: gate, rest and repeated reading together (ADR 0060). *)
CopyHasAnsweredWrites ==
    [][\A j \in Job : job[j].at = "reads" /\ job'[j].at = "sends" =>
          \A w \in Write : write'[w] = "answered" => exec[w] <= job'[j].bytes]_vars

(* A note of the file as it is means that badhub has exactly that file, at the
   address the note was made for, although button, detached steps and new
   configurations write the same note. Uploads that overlap after a crossing may
   arrive in the other order than they are noted in. *)
NotedIsAtBadhub ==
    ~crossed => \A c \in Config :
        takt.merker = [config |-> c, bytes |-> disk] => badhub[c] = disk

(* As long as the sync runs and nothing halts it, badhub gets the file as it is
   in the end, whatever failed, panicked, was aborted or overlapped - but for a
   crossing, and for a note that an upload for another configuration of the same
   file has left behind, which PassedOverIsThere is about. *)
Working(c) == loop # "off" /\ config = c /\ takt.halted = NoConfig
Strayed(c) == takt.merker.config # c /\ Passt(takt.merker, c, disk)

LastFileArrives ==
    \A c \in Config \ Refused :
        <>[]Working(c) => <>[](badhub[c] = disk) \/ <>[]crossed \/ <>[]Strayed(c)

(* The uploads go through the gate: they implement WriteGate. *)
GateIsKept == GateSpec

(* docs/tp-datei-upload.md:216: after the cause is repaired and saved the
   automatic check runs again, so it is never halted for an older configuration. *)
HaltedForThisConfig ==
    saving = NoConfig => takt.halted \in {NoConfig, config}

(* commands.rs:1529: "Der regulaere Pfad schreibt vorher laeuft = false, dann
   greift der Guard nicht mehr": the safety net of an upload that has ended does
   not take the flag from one that runs. *)
FlagStaysSet == Running # {} => laeuft

(* tp_takt.rs:55: the note holds "die Bytes, die der Server zuletzt angenommen
   oder als bekannt quittiert hat": what is passed over as unchanged, the badhub
   of the step's configuration has. *)
PassedOverIsThere ==
    [][\A s \in Step : Compares(s) /\ job'[s].at = "idle"
          => badhub[job[s].config] = job[s].bytes]_vars
=============================================================================
