----------------------------- MODULE LiveTicker -----------------------------
(***************************************************************************)
(* What badhub's live ticker shows.  Two paths feed it, and neither waits  *)
(* for the other: the sync loop (sync.rs, badhub/diff.rs) compares each    *)
(* snapshot of BTP, completed by the tablets' stands and the calls into    *)
(* preparation, with what it sent last and sends a full state (tset), one  *)
(* stand (tupdate_match) or nothing; and every point a tablet counts is    *)
(* queued by its court (ScorePushQueue in tablet/server.rs), one worker a  *)
(* court.                                                                  *)
(*                                                                         *)
(* A request is given up after 15 s; it may be lost, have arrived, or      *)
(* arrive later, after what was sent since.  A full state is sent again    *)
(* when nothing was sent for a minute (heartbeat).                         *)
(***************************************************************************)
EXTENDS Naturals, FiniteSets

CONSTANTS
    Match, Court, NoMatch, NoCourt,
    NoSnapshot,             \* no snapshot is held
    MaxStand,               \* bound: stands of a match, 0 is BTP's 0:0
    MaxQueues,              \* bound: starts of the sync, see NewEngine
    EMPTY_CONFIRM_POLLS,    \* so many empty answers in a row are believed
    DEASSIGN_CONFIRM_POLLS, \* so many polls off court revive a call
    Scenario                \* bound: what may happen, see Budget

Stand == 0 .. MaxStand
Queue == 1 .. MaxQueues

Budget == [points : Nat, typed : Nat, moves : Nat, ends : Nat, calls : Nat,
           hiccups : Nat, failures : Nat, delays : Nat, restarts : Nat,
           heartbeat : BOOLEAN]

ASSUME NotAmong == /\ NoMatch \notin Match /\ NoCourt \notin Court
ASSUME Bounds == /\ MaxStand \in Nat /\ MaxQueues \in Nat \ {0}
                 /\ EMPTY_CONFIRM_POLLS \in Nat \ {0}
                 /\ DEASSIGN_CONFIRM_POLLS \in Nat \ {0}
                 /\ Scenario \subseteq Budget

VARIABLES
    \* BTP, and whether its last answer was wrongly empty
    btp, hiccup,
    \* TabletState, which outlives a restart of the sync
    known,          \* the snapshot the tablets' side decides by
    session,        \* by court: the match and the stand last counted there
    clearing,       \* courts whose result task has still to clear_court
    finalized,      \* by court: the match just finished there
    call, off,      \* calls into preparation; polls a parked one is off court
    \* the score queues, one for each start of the sync
    queue, pending, busy, workers,
    \* the SyncEngine and where run_once stands
    phase, snap, update, lastPushed, aged, seen, suspect, oncourtPrev,
    \* badhub, and a request that was given up and may still arrive
    shown, late,
    budget

tabletVars == <<known, session, clearing, finalized, call, off>>
queueVars == <<queue, pending, busy, workers>>
guardVars == <<seen, suspect, oncourtPrev>>
pushVars == <<phase, snap, update, lastPushed, aged>>
badhubVars == <<shown, late>>
vars == <<btp, hiccup, tabletVars, queueVars, guardVars, pushVars, badhubVars,
          budget>>

Spend(what) == /\ budget[what] > 0
               /\ budget' = [budget EXCEPT ![what] = @ - 1]

-----------------------------------------------------------------------------
(* Snapshots and messages. *)

\* BtpMatch: a finished match keeps its court.
Entry == [court : Court \cup {NoCourt}, sets : Stand, ended : BOOLEAN,
          called : BOOLEAN]
Empty == [m \in {} |-> 0]
Snapshot == [Match -> Entry] \cup {Empty}

ASSUME NoSnapshotIsNone == NoSnapshot \notin Snapshot

OnCourt(s) == {m \in DOMAIN s : ~s[m].ended /\ s[m].court # NoCourt}
Scheduled(s) == {m \in DOMAIN s : ~s[m].ended /\ s[m].court = NoCourt}
Ended(s) == {m \in DOMAIN s : s[m].ended}

\* match_for_court, and oncourt_now by court
MatchOn(s, c) == IF \E m \in OnCourt(s) : s[m].court = c
                 THEN CHOOSE m \in OnCourt(s) : s[m].court = c ELSE NoMatch

NoSession == [match |-> NoMatch, stand |-> 0]
Session == [match : Match, stand : Stand] \cup {NoSession}

Nothing == [kind |-> "nothing"]
Tset(s) == [kind |-> "tset", state |-> s]
Tupdate(m, n) == [kind |-> "tupdate", match |-> m, sets |-> n]
Message == [kind : {"nothing"}] \cup [kind : {"tset"}, state : Snapshot]
             \cup [kind : {"tupdate"}, match : Match, sets : Stand]

\* What badhub makes of a message: a full state replaces everything, a stand
\* is entered at its match, if there is one.
Applied(msg) ==
    CASE msg.kind = "tset" -> msg.state
      [] msg.kind = "tupdate" /\ msg.match \in DOMAIN shown ->
            [shown EXCEPT ![msg.match].sets = msg.sets]
      [] OTHER -> shown

\* A request is given up, or its sender is: it is lost, has arrived, or is
\* still on its way.
GivenUp(msg) ==
    \/ Spend("failures") /\ UNCHANGED badhubVars
    \/ Spend("failures") /\ shown' = Applied(msg) /\ UNCHANGED late
    \/ /\ Spend("delays") /\ late = Nothing
       /\ late' = msg /\ UNCHANGED shown

\* The end of late's life; only one request per behaviour is late.
Gone == [kind |-> "gone"]

LateArrives ==
    /\ late \notin {Nothing, Gone}
    /\ shown' = Applied(late) /\ late' = Gone
    /\ UNCHANGED <<btp, hiccup, tabletVars, queueVars, guardVars, pushVars,
                   budget>>

-----------------------------------------------------------------------------
(* BTP. *)

BtpIs(s) == /\ btp' = s
            /\ UNCHANGED <<hiccup, known, session, finalized, call, off,
                           queueVars, guardVars, pushVars, badhubVars>>

\* A match comes to a free court, goes to another, or is taken off.
BtpAssigns(m, c) ==
    /\ m \in OnCourt(btp) \cup Scheduled(btp) /\ btp[m].court # c
    /\ c = NoCourt \/ MatchOn(btp, c) = NoMatch
    /\ Spend("moves")
    /\ BtpIs([btp EXCEPT ![m].court = c]) /\ UNCHANGED clearing

\* Somebody types sets into BTP while the match runs.
BtpTypes(m, n) ==
    /\ m \in OnCourt(btp) /\ btp[m].sets # n
    /\ Spend("typed")
    /\ BtpIs([btp EXCEPT ![m].sets = n]) /\ UNCHANGED clearing

\* A result: written by process_result, which clears the court afterwards,
\* or typed into BTP.
BtpEnds(m, n, byHost) ==
    /\ m \in OnCourt(btp)
    /\ byHost => MatchOn(known, btp[m].court) = m
    /\ Spend("ends")
    /\ BtpIs([btp EXCEPT ![m].ended = TRUE, ![m].sets = n])
    /\ clearing' = IF byHost THEN clearing \cup {btp[m].court} ELSE clearing

\* A result is corrected, or taken back.
BtpCorrects(m, n) ==
    /\ m \in Ended(btp) /\ btp[m].sets # n
    /\ Spend("ends")
    /\ BtpIs([btp EXCEPT ![m].sets = n]) /\ UNCHANGED clearing

BtpReopens(m) ==
    /\ m \in Ended(btp) /\ MatchOn(btp, btp[m].court) = NoMatch
    /\ Spend("ends")
    /\ BtpIs([btp EXCEPT ![m].ended = FALSE]) /\ UNCHANGED clearing

\* The tournament is closed in BTP, for good.
BtpCloses ==
    /\ btp # Empty
    /\ Spend("moves")
    /\ BtpIs(Empty) /\ UNCHANGED clearing

-----------------------------------------------------------------------------
(* The tablets' side. *)

\* handle_score for a frame of match m on court c.  Connections of tablets
\* outlive a restart of the sync with their context, hence any queue.  A
\* worker is started if the court has none (queue_score_push).
HandleScore(c, m, n, q) ==
    /\ q <= queue
    /\ finalized[c] # m /\ MatchOn(known, c) = m
    /\ session[c] # [match |-> m, stand |-> n]
    /\ Spend("points")
    /\ session' = [session EXCEPT ![c] = [match |-> m, stand |-> n]]
    /\ pending' = [pending EXCEPT ![<<q, c>>] = Tupdate(m, n)]
    /\ busy' = busy \cup {<<q, c>>}
    /\ workers' = IF <<q, c>> \in busy THEN workers
                  ELSE workers \cup {[queue |-> q, court |-> c,
                                      sending |-> Nothing]}
    /\ UNCHANGED <<btp, hiccup, known, clearing, finalized, call, off, queue,
                   guardVars, pushVars, badhubVars>>

\* After the result, whatever match the court's stand is of by then.
ClearCourt(c) ==
    /\ c \in clearing
    /\ clearing' = clearing \ {c}
    /\ session' = [session EXCEPT ![c] = NoSession]
    /\ UNCHANGED <<btp, hiccup, known, finalized, call, off, queueVars,
                   guardVars, pushVars, badhubVars, budget>>

\* FINALIZED_TTL
MarkExpires(c) ==
    /\ finalized[c] # NoMatch
    /\ finalized' = [finalized EXCEPT ![c] = NoMatch]
    /\ UNCHANGED <<btp, hiccup, known, session, clearing, call, off,
                   queueVars, guardVars, pushVars, badhubVars, budget>>

CallsAre(m, what) ==
    /\ m \in DOMAIN known /\ call[m] # what
    /\ Spend("calls")
    /\ call' = [call EXCEPT ![m] = what]
    /\ off' = [off EXCEPT ![m] = 0]
    /\ UNCHANGED <<btp, hiccup, known, session, clearing, finalized,
                   queueVars, guardVars, pushVars, badhubVars>>

CallMit(m) == CallsAre(m, "active")
Retract(m) == CallsAre(m, "none")

-----------------------------------------------------------------------------
(* The workers of the score queues. *)

WorkerIs(w, new) == workers' = (workers \ {w}) \cup new

\* Mutant: the worker goes without signing off.
WorkerEndsBusy(w) ==
    /\ w.sending = Nothing /\ pending[<<w.queue, w.court>>] = Nothing
    /\ WorkerIs(w, {})
    /\ UNCHANGED <<btp, hiccup, tabletVars, queue, pending, busy, guardVars,
                   pushVars, badhubVars, budget>>

\* naechster finds nothing: the worker signs off under the same lock.
WorkerEnds(w) ==
    /\ w.sending = Nothing /\ pending[<<w.queue, w.court>>] = Nothing
    /\ WorkerIs(w, {})
    /\ busy' = busy \ {<<w.queue, w.court>>}
    /\ UNCHANGED <<btp, hiccup, tabletVars, queue, pending, guardVars,
                   pushVars, badhubVars, budget>>

\* noch_aktuell and is_match_finalized, straight before sending
Stale(c, m) == MatchOn(known, c) # m \/ finalized[c] = m

WorkerTakes(w) ==
    LET next == pending[<<w.queue, w.court>>] IN
    /\ w.sending = Nothing /\ next # Nothing
    /\ pending' = [pending EXCEPT ![<<w.queue, w.court>>] = Nothing]
    /\ WorkerIs(w, {IF Stale(w.court, next.match) THEN w
                    ELSE [w EXCEPT !.sending = next]})
    /\ UNCHANGED <<btp, hiccup, tabletVars, queue, busy, guardVars, pushVars,
                   badhubVars, budget>>

\* push_update returns; its failure is only logged.
WorkerSent(w) ==
    /\ w.sending # Nothing
    /\ WorkerIs(w, {[w EXCEPT !.sending = Nothing]})
    /\ \/ shown' = Applied(w.sending) /\ UNCHANGED <<late, budget>>
       \/ GivenUp(w.sending)
    /\ UNCHANGED <<btp, hiccup, tabletVars, queue, pending, busy, guardVars,
                   pushVars>>

WorkerStep == \E w \in workers : WorkerEnds(w) \/ WorkerTakes(w) \/ WorkerSent(w)

-----------------------------------------------------------------------------
(* The sync loop: run_once. *)

\* empty_snapshot_is_suspect
Suspects(s) == s = Empty /\ seen /\ suspect + 1 < EMPTY_CONFIRM_POLLS
\* Mutant: the count survives an answer that is not empty.
SuspectPollsAdd(s) == IF Suspects(s) THEN suspect + 1
                      ELSE IF s = Empty THEN 0 ELSE suspect

SuspectPolls(s) == IF Suspects(s) THEN suspect + 1 ELSE 0
Seen(s) == s # Empty \/ (seen /\ Suspects(s))

\* Mutant: a running match clears only the mark of another.
ClearsMarkOfOther(s, c) == MatchOn(s, c) \notin {NoMatch, finalized[c]}

\* track_scorekeepers as far as the marks go
ClearsMark(s, c) == MatchOn(s, c) # NoMatch
Marks(s) ==
    [c \in Court |->
        LET prev == oncourtPrev[c] IN
        IF ClearsMark(s, c) THEN NoMatch
        ELSE IF prev \in Ended(s) THEN prev
        ELSE finalized[c]]

\* From fetch_snapshot to the first await behind it.  BTP may answer empty
\* though it is not (the answers of a hiccup are not two in a row).
Fetch(s) ==
    /\ phase = "idle"
    /\ \/ s = btp /\ hiccup' = FALSE /\ UNCHANGED budget
       \/ /\ s = Empty /\ btp # Empty /\ ~hiccup
          /\ Spend("hiccups") /\ hiccup' = TRUE
    /\ suspect' = SuspectPolls(s)
    /\ seen' = Seen(s)
    /\ IF Suspects(s)
       THEN UNCHANGED <<finalized, oncourtPrev, snap, phase>>
       ELSE /\ finalized' = Marks(s)
            /\ oncourtPrev' = [c \in Court |-> MatchOn(s, c)]
            /\ snap' = s /\ phase' = "fetched"
    /\ UNCHANGED <<btp, known, session, clearing, call, off, queueVars,
                   update, lastPushed, aged, badhubVars>>

\* Mutant: a call is revived one poll too late.
RevivesLate(s, m) == /\ call[m] = "parked" /\ m \in Scheduled(s)
                     /\ off[m] >= DEASSIGN_CONFIRM_POLLS

\* PreparationStore::reconcile
Revives(s, m) == /\ call[m] = "parked" /\ m \in Scheduled(s)
                 /\ off[m] + 1 >= DEASSIGN_CONFIRM_POLLS
CallsAfter(s) ==
    [m \in Match |->
        IF call[m] = "none" \/ m \notin OnCourt(s) \cup Scheduled(s) THEN "none"
        ELSE IF m \in OnCourt(s) THEN "parked"
        ELSE IF Revives(s, m) THEN "active" ELSE call[m]]

\* Mutant: the polls off court are not added up.
OffForgets(s) == [m \in Match |-> 0]

OffAfter(s) ==
    [m \in Match |->
        IF call[m] = "parked" /\ m \in Scheduled(s) /\ ~Revives(s, m)
        THEN off[m] + 1 ELSE 0]

\* apply_tablet_scores: by court and match, also of an ended match
StandOf(s, m) ==
    IF s[m].court # NoCourt /\ session[s[m].court].match = m
    THEN session[s[m].court].stand ELSE s[m].sets

\* The snapshot as it is sent: apply_tablet_scores, apply_preparation_calls
Stamped(s) ==
    [m \in DOMAIN s |-> [s[m] EXCEPT !.sets = StandOf(s, m),
                                     !.called = CallsAfter(s)[m] = "active"]]

\* diff, without its first case
CourtAssignment(s) == [m \in OnCourt(s) |-> s[m].court]
PreparationCalls(s) == {m \in DOMAIN s : s[m].called}
Changed(s) == {m \in OnCourt(s) : lastPushed[m].sets # s[m].sets}

\* Mutant: several changed stands are no reason for a full state.
DiffersInPlace(s) == \/ CourtAssignment(lastPushed) # CourtAssignment(s)
                     \/ PreparationCalls(lastPushed) # PreparationCalls(s)

Differs(s) == \/ CourtAssignment(lastPushed) # CourtAssignment(s)
              \/ PreparationCalls(lastPushed) # PreparationCalls(s)
              \/ Cardinality(Changed(s)) > 1

Diff(s) == IF lastPushed = NoSnapshot \/ Differs(s) THEN Tset(s)
           ELSE IF Changed(s) = {} THEN Nothing
           ELSE LET m == CHOOSE m \in Changed(s) : TRUE IN Tupdate(m, s[m].sets)

\* The heartbeat
DueNow(s) == IF Diff(s) = Nothing /\ aged THEN Tset(s) ELSE Diff(s)

\* From set_snapshot to the request: nothing to send is a success, too.
Publish ==
    LET s == Stamped(snap) IN
    /\ phase = "fetched"
    /\ known' = snap
    /\ call' = CallsAfter(snap) /\ off' = OffAfter(snap)
    /\ IF DueNow(s) = Nothing
       THEN /\ lastPushed' = s /\ snap' = NoSnapshot /\ phase' = "idle"
            /\ UNCHANGED update
       ELSE /\ snap' = s /\ update' = DueNow(s) /\ phase' = "sending"
            /\ UNCHANGED lastPushed
    /\ UNCHANGED <<btp, hiccup, session, clearing, finalized, queueVars,
                   guardVars, aged, badhubVars, budget>>

CycleEnds == /\ phase' = "idle" /\ snap' = NoSnapshot /\ update' = Nothing
             /\ UNCHANGED <<btp, hiccup, tabletVars, queueVars, guardVars>>

\* on_success
PushSucceeds ==
    /\ phase = "sending"
    /\ shown' = Applied(update) /\ UNCHANGED <<late, budget>>
    /\ lastPushed' = snap /\ aged' = FALSE
    /\ CycleEnds

\* Mutant: on_failure keeps what was sent before.
BaseStays == lastPushed

\* on_failure
BaseAfterFailure == NoSnapshot
PushFails ==
    /\ phase = "sending"
    /\ GivenUp(update)
    /\ lastPushed' = BaseAfterFailure /\ UNCHANGED aged
    /\ CycleEnds

\* HEARTBEAT_AFTER
MinutePasses ==
    /\ ~aged /\ budget.heartbeat
    /\ aged' = TRUE
    /\ UNCHANGED <<btp, hiccup, tabletVars, queueVars, guardVars, phase, snap,
                   update, lastPushed, badhubVars, budget>>

\* stop_sync and start_sync, on every change of the settings: a new engine
\* and a new queue, while the workers of the old one go on.
NewEngine ==
    /\ queue < MaxQueues
    /\ Spend("restarts")
    /\ queue' = queue + 1
    /\ \/ UNCHANGED badhubVars
       \/ phase = "sending" /\ shown' = Applied(update) /\ UNCHANGED late
    /\ phase' = "idle" /\ snap' = NoSnapshot /\ update' = Nothing
    /\ lastPushed' = NoSnapshot /\ aged' = TRUE
    /\ seen' = FALSE /\ suspect' = 0
    /\ oncourtPrev' = [c \in Court |-> NoMatch]
    /\ UNCHANGED <<btp, hiccup, tabletVars, pending, busy, workers>>

SyncStep == \/ \E s \in {btp, Empty} : Fetch(s)
            \/ Publish \/ PushSucceeds \/ PushFails

-----------------------------------------------------------------------------
Init ==
    /\ budget \in Scenario
    /\ \E at \in [Match -> Court \cup {NoCourt}] :
        /\ \A m, n \in Match : m # n /\ at[m] = at[n] => at[m] = NoCourt
        /\ btp = [m \in Match |-> [court |-> at[m], sets |-> 0,
                                   ended |-> FALSE, called |-> FALSE]]
    /\ hiccup = FALSE
    /\ known = Empty
    /\ session = [c \in Court |-> NoSession] /\ clearing = {}
    /\ finalized = [c \in Court |-> NoMatch]
    /\ call = [m \in Match |-> "none"] /\ off = [m \in Match |-> 0]
    /\ queue = 1 /\ pending = [x \in Queue \X Court |-> Nothing]
    /\ busy = {} /\ workers = {}
    /\ phase = "idle" /\ snap = NoSnapshot /\ update = Nothing
    /\ lastPushed = NoSnapshot /\ aged = TRUE
    /\ seen = FALSE /\ suspect = 0
    /\ oncourtPrev = [c \in Court |-> NoMatch]
    /\ shown = Empty /\ late = Nothing

BtpChanges ==
    \/ BtpCloses
    \/ \E m \in Match :
        \/ \E c \in Court \cup {NoCourt} : BtpAssigns(m, c)
        \/ \E n \in Stand : \/ BtpTypes(m, n) \/ BtpCorrects(m, n)
                            \/ \E byHost \in BOOLEAN : BtpEnds(m, n, byHost)
        \/ BtpReopens(m)

Next ==
    \/ BtpChanges \/ LateArrives \/ WorkerStep \/ SyncStep
    \/ MinutePasses \/ NewEngine
    \/ \E c \in Court :
        \/ \E m \in Match, n \in Stand, q \in Queue : HandleScore(c, m, n, q)
        \/ ClearCourt(c) \/ MarkExpires(c)
    \/ \E m \in Match : CallMit(m) \/ Retract(m)

\* Every request of the loop and of a worker ends (15 s), a result task goes
\* on to clear its court, and time passes.
Fairness == /\ WF_vars(SyncStep) /\ WF_vars(WorkerStep)
            /\ WF_vars(MinutePasses)
            /\ \A c \in Court : WF_vars(ClearCourt(c))

Spec == Init /\ [][Next]_vars /\ Fairness

-----------------------------------------------------------------------------
(* Properties. *)

\* Types; a poll that is confirmed or refuted leaves no suspicion behind, and
\* a call that is active or gone no polls.
TypeOK ==
    /\ btp \in Snapshot /\ hiccup \in BOOLEAN
    /\ known \in Snapshot /\ session \in [Court -> Session]
    /\ clearing \subseteq Court
    /\ finalized \in [Court -> Match \cup {NoMatch}]
    /\ call \in [Match -> {"none", "active", "parked"}]
    /\ off \in [Match -> 0 .. DEASSIGN_CONFIRM_POLLS - 1]
    /\ \A m \in Match : off[m] > 0 => call[m] = "parked"
    /\ queue \in Queue /\ busy \subseteq Queue \X Court
    /\ pending \in [Queue \X Court -> Message]
    /\ workers \subseteq [queue : Queue, court : Court, sending : Message]
    /\ phase \in {"idle", "fetched", "sending"}
    /\ snap \in Snapshot \cup {NoSnapshot} /\ (phase = "idle" <=> snap = NoSnapshot)
    /\ update \in Message /\ (phase = "sending" <=> update # Nothing)
    /\ lastPushed \in Snapshot \cup {NoSnapshot}
    /\ aged \in BOOLEAN /\ seen \in BOOLEAN
    /\ suspect \in 0 .. EMPTY_CONFIRM_POLLS - 1 /\ (suspect > 0 => seen)
    /\ oncourtPrev \in [Court -> Match \cup {NoMatch}]
    /\ shown \in Snapshot /\ late \in Message \cup {Gone}
    /\ budget \in Budget

\* A stand that waits has a worker, and a court has one worker a queue:
\* neither is a stand left lying when the worker stops at the very moment
\* another is queued, nor do two pushes of a court run at once.
QueueServed ==
    /\ \A q \in Queue, c \in Court :
        pending[<<q, c>>] # Nothing =>
            \E w \in workers : w.queue = q /\ w.court = c
    /\ \A v, w \in workers :
        v.queue = w.queue /\ v.court = w.court => v = w

\* What the loop compares with is what badhub shows, whatever failed: the
\* courts' matches and the calls of the snapshot held as sent.  (Unless a
\* request arrives after it was given up.)  So a single stand is only sent
\* to a badhub that has its match on the court.
BaseIsThere ==
    lastPushed # NoSnapshot /\ late = Nothing =>
        /\ CourtAssignment(shown) = CourtAssignment(lastPushed)
        /\ PreparationCalls(shown) = PreparationCalls(lastPushed)

\* A single wrongly empty answer of BTP, however often it comes, empties
\* neither the courts nor the ticker, as long as the engine runs and no
\* request is late.
HiccupsAreHidden ==
    [][ btp # Empty /\ queue' = 1 /\ late = Nothing =>
            /\ known # Empty => known' # Empty
            /\ shown # Empty => shown' # Empty ]_vars

\* No point of a running match is refused as one of a finished match, also
\* when its result was taken back (handle_score against recently_finalized).
RunningIsNotFinal ==
    phase # "fetched" /\ seen =>
        \A c \in Court : finalized[c] # NoMatch => MatchOn(known, c) # finalized[c]

RunningAreShown ==
    /\ OnCourt(shown) = OnCourt(btp)
    /\ \A m \in OnCourt(btp) : /\ shown[m].court = btp[m].court
                               /\ shown[m].sets = StandOf(btp, m)

EndedAreShown ==
    \A m \in Ended(btp) : /\ m \in Ended(shown)
                          /\ \/ shown[m].sets = btp[m].sets
                             \/ session[btp[m].court].match = m

\* In the end the ticker shows every running match on its court, with the
\* stand its tablet counted or else BTP's, no other match on a court, and
\* every result as BTP has it, after corrections too, whatever was lost, late
\* or overtaken (run_once, on_failure, the heartbeat and the score queues).
\* A result is exempt if a stand of its match was counted after its court was
\* cleared, or if it was typed in and the court not cleared: see the next.
TickerComesRight == <>[](RunningAreShown /\ EndedAreShown)

\* docs/changelog.md:1918: a late stand does not replace a corrected result in
\* the ticker.  That it does is LiveTicker_f_result.cfg.
ResultIsShown ==
    <>[] (\A m \in Ended(btp) : /\ m \in Ended(shown)
                               /\ shown[m].sets = btp[m].sets)

\* In the end it shows exactly the calls that are active, and a call is
\* parked only while its match is on a court: one whose match was taken off
\* the court again comes back.
CallsAreShown ==
    <>[] /\ PreparationCalls(shown) = {m \in Match : call[m] = "active"}
         /\ \A m \in Match : call[m] = "parked" => m \in OnCourt(btp)

=============================================================================
