----------------------------- MODULE ResultPath -----------------------------
(***************************************************************************)
(* The way of a match result from the umpire's tablet (or the tournament   *)
(* desk's web page) through the host process into BTP, the tournament      *)
(* software that owns the truth.                                           *)
(*                                                                         *)
(*   tablet page   pendingResult, kept in localStorage until ok:true       *)
(*   process_result  one task per POST; writes to BTP over TCP, and puts   *)
(*                 the result into the retry queue if that fails           *)
(*   retry queue   in memory, mirrored to btp-retry.json                   *)
(*   sync loop     fetches BTP's snapshot, flushes the queue, publishes    *)
(*                 the snapshot to the request handlers                    *)
(*                                                                         *)
(* Every action is the code between two points where other tasks may run:  *)
(* an await on BTP or on the network, or the release of a lock.  Memory is *)
(* lost in a restart, the file and the tablet's localStorage are not.      *)
(* A result is an opaque value: two results are equal iff sets, winner and *)
(* score status are.  Every match is on its court until BTP has a result.  *)
(***************************************************************************)
EXTENDS Integers, Sequences, FiniteSets

CONSTANTS
    Match,          \* matches, each on a court of its own
    Result,         \* results the tablet or the desk can enter
    Invalid,        \* those that fail derive_result / sets_fit_format
    NoResult, Hand, \* nothing in BTP; a result typed into BTP by hand
    Tournament,     \* tournaments BTP may have open
    ResultOf,       \* the results that are entered during each tournament
    NoTournament,   \* the guard of a file that was never written
    Request,        \* tasks in process_result / execute_result_action
    NoMatch,
    BTP_RETRY_CAP,  \* 200 in the code
    StartWrap,      \* retry_start wraps here (2^64 in the code)
    MaxEntered,     \* bound: results entered per match
    MaxRestarts,    \* bound: restarts of the host
    MaxSwitches,    \* bound: tournament changes in BTP
    Scenario        \* what may happen: see Budget

ASSUME ConstantsAssumption ==
    /\ Invalid \subseteq Result
    /\ NoResult \notin Result /\ Hand \notin Result /\ NoResult # Hand
    /\ NoMatch \notin Match
    /\ NoTournament \notin Tournament
    /\ ResultOf \in [Tournament -> SUBSET Result]
    /\ BTP_RETRY_CAP \in Nat \ {0}
    /\ StartWrap \in Nat \ {0}
    /\ MaxEntered \in Nat /\ MaxRestarts \in Nat /\ MaxSwitches \in Nat

\* What was spent of the bounds, who enters results, whether results are typed
\* into BTP by hand, and whether a queue entry may pass BTP_RETRY_MAX_AGE (24 h).
Budget == [entered : [Match -> Nat], restarts : Nat, switches : Nat,
           sources : SUBSET {"tablet", "desk"}, hands : BOOLEAN,
           aging : BOOLEAN]

ASSUME ScenarioAssumption == Scenario \subseteq Budget

VARIABLES
    tournament,     \* BTP: the open tournament
    btp,            \* BTP: the result of each match
    pendingResult,  \* tablet: STATE.pendingResult
    request,        \* host: the running request tasks
    snapshot,       \* host: TabletState.snapshot, <<>> before the first
    btpRetry,       \* host: TabletState.btp_retry
    lastDirect,     \* host: TabletState.last_direct_btp_write
    file,           \* host disk: btp-retry.json
    phase,          \* sync loop: where run_once stands
    fetched,        \* sync loop: the snapshot of this cycle
    rest,           \* sync loop: entries of this flush still to be tried
    entry,          \* sync loop: the entry being written
    retryStart,     \* sync loop: SyncEngine.btp_retry_start
    promised,       \* history: the result last acknowledged per match
    kept,           \* history: results ever written to BTP or queued
    dropped,        \* history: matches whose entry was dropped (cap, age)
    budget          \* the counters for the bounds, and the scenario

hostVars == <<snapshot, btpRetry, lastDirect, file>>
syncVars == <<phase, fetched, rest, entry, retryStart>>
history  == <<promised, kept, dropped>>
vars == <<tournament, btp, pendingResult, request, hostVars, syncVars,
          history, budget>>

-----------------------------------------------------------------------------
(* Values. *)

Entry == [match : Match, result : Result, old : BOOLEAN]

Snapshot == [tournament : Tournament, decided : SUBSET Match]
NoSnapshot == [tournament |-> NoTournament, decided |-> {}]

Direct == [result : Result \cup {NoResult}, sinceStart : BOOLEAN, inTtl : BOOLEAN]
NoDirect == [result |-> NoResult, sinceStart |-> FALSE, inTtl |-> FALSE]

IdleRequest == [at |-> "idle", match |-> NoMatch, result |-> NoResult,
                from |-> "tablet", listening |-> FALSE]

RequestStates == {"idle", "sent", "writing", "applied", "persistQueued",
                  "persistCleared", "noting", "ok", "refused", "invalid"}

RequestRecord ==
    [at : RequestStates, match : Match \cup {NoMatch},
     result : Result \cup {NoResult}, from : {"tablet", "desk"},
     listening : BOOLEAN]

Phases == {"idle", "fetched", "first", "choosing", "writing", "applied",
           "persistCleared", "healing", "rewriting", "rewritten",
           "persisting", "flushed"}

NoEntry == [match |-> NoMatch, result |-> NoResult, old |-> FALSE]

Loaded == snapshot # NoSnapshot

-----------------------------------------------------------------------------
(* The retry queue: one entry per match, oldest first. *)

Positions(q, m) == {i \in DOMAIN q : q[i].match = m}

Queued(m) == Positions(btpRetry, m) # {}

Without(q, m) ==
    IF Positions(q, m) = {} THEN q
    ELSE LET i == CHOOSE i \in Positions(q, m) : TRUE
         IN  SubSeq(q, 1, i - 1) \o SubSeq(q, i + 1, Len(q))

Replaced(q, m, r) ==
    [i \in DOMAIN q |-> IF q[i].match = m THEN [q[i] EXCEPT !.result = r]
                                          ELSE q[i]]

NewEntry(m, r) == [match |-> m, result |-> r, old |-> FALSE]

\* Mutant: the place is made before the match is looked for.
QueueMakesRoomFirst(m, r) ==
    LET q == IF Len(btpRetry) >= BTP_RETRY_CAP THEN Tail(btpRetry) ELSE btpRetry
    IN  /\ kept' = kept \cup {<<m, r>>}
        /\ btpRetry' = IF Positions(q, m) # {} THEN Replaced(q, m, r)
                                               ELSE Append(q, NewEntry(m, r))
        /\ dropped' = dropped \cup
              {x \in Match : Queued(x) /\ Positions(btpRetry', x) = {}}

\* A newer result replaces the queued one in its place; otherwise it goes to
\* the end, and a full queue gives up its oldest entry.
QueueBtpRetry(m, r) ==
    /\ kept' = kept \cup {<<m, r>>}
    /\ \/ /\ Queued(m)
          /\ btpRetry' = Replaced(btpRetry, m, r)
          /\ UNCHANGED dropped
       \/ /\ ~Queued(m)
          /\ Len(btpRetry) < BTP_RETRY_CAP
          /\ btpRetry' = Append(btpRetry, NewEntry(m, r))
          /\ UNCHANGED dropped
       \/ /\ ~Queued(m)
          /\ Len(btpRetry) >= BTP_RETRY_CAP
          /\ btpRetry' = Append(Tail(btpRetry), NewEntry(m, r))
          /\ dropped' = dropped \cup {Head(btpRetry).match}

ClearBtpRetry(m) == btpRetry' = Without(btpRetry, m)

\* The queue and its guard are copied under the persist lock: whoever comes
\* last writes the latest queue.  Without a guard nothing is written.
PersistBtpRetry ==
    file' = IF Loaded
            THEN [tournament |-> snapshot.tournament, entries |-> btpRetry]
            ELSE file

\* Mutant: the file is never read again.
LoadNothing(s) == UNCHANGED btpRetry

\* Once, with the first snapshot s: entries of the same tournament come back,
\* those queued meanwhile win, what exceeds the cap is left out.
LoadBtpRetry(s) ==
    LET back == IF btpRetry = <<>> THEN file.entries
                ELSE SelectSeq(file.entries, LAMBDA x : ~Queued(x.match))
        all  == btpRetry \o back
    IN  IF Loaded \/ file.tournament # s.tournament
        THEN UNCHANGED btpRetry
        ELSE btpRetry' = SubSeq(all, 1, IF Len(all) < BTP_RETRY_CAP
                                        THEN Len(all) ELSE BTP_RETRY_CAP)

-----------------------------------------------------------------------------
(* The tablet of match m. *)

\* Nobody may enter a result for a tournament that is not the open one.
Enterable(m) ==
    {r \in ResultOf[tournament] : budget.entered[m] < MaxEntered}

CountEntered(m) == budget' = [budget EXCEPT !.entered[m] = @ + 1]

\* submit(): the result becomes the pending one; the send is TrySubmitPending.
Submit(m) ==
    /\ "tablet" \in budget.sources
    /\ pendingResult[m] = NoResult
    /\ \E r \in Enterable(m) :
          pendingResult' = [pendingResult EXCEPT ![m] = r]
    /\ CountEntered(m)
    /\ UNCHANGED <<tournament, btp, request, hostVars, syncVars, history>>

\* The answer to a fetch that is no longer the tablet's is ignored.
StopListening(m) ==
    request' = [a \in Request |->
                  IF request[a].match = m /\ request[a].from = "tablet"
                  THEN [request[a] EXCEPT !.listening = FALSE]
                  ELSE request[a]]

\* reopen(): withdraws a result that is still being sent.
Reopen(m) ==
    /\ pendingResult[m] # NoResult
    /\ pendingResult' = [pendingResult EXCEPT ![m] = NoResult]
    /\ StopListening(m)
    /\ UNCHANGED <<tournament, btp, hostVars, syncVars, history, budget>>

\* A finalised frame lets go of the pending result: BTP already has one.
ReleaseFinalized(m) ==
    /\ m \in snapshot.decided
    /\ pendingResult[m] # NoResult
    /\ pendingResult' = [pendingResult EXCEPT ![m] = NoResult]
    /\ StopListening(m)
    /\ UNCHANGED <<tournament, btp, hostVars, syncVars, history, budget>>

\* One fetch at a time: the first try, or the next one after 5 s or a reload.
TrySubmitPending(m) ==
    /\ pendingResult[m] # NoResult
    /\ \A a \in Request : ~(/\ request[a].match = m
                             /\ request[a].from = "tablet"
                             /\ request[a].listening)
    /\ \E a \in Request :
          /\ request[a].at = "idle"
          /\ request' = [request EXCEPT ![a] =
                [at |-> "sent", match |-> m, result |-> pendingResult[m],
                 from |-> "tablet", listening |-> TRUE]]
    /\ UNCHANGED <<tournament, btp, pendingResult, hostVars, syncVars,
                   history, budget>>

\* The fetch is given up (12 s, dead link, reload); the host may not notice.
AbortFetch(a) ==
    /\ request[a].listening
    /\ request' = [request EXCEPT ![a].listening = FALSE]
    /\ UNCHANGED <<tournament, btp, pendingResult, hostVars, syncVars,
                   history, budget>>

-----------------------------------------------------------------------------
(* Request tasks of the host: process_result, execute_result_action. *)

Goto(a, at) == request' = [request EXCEPT ![a].at = at]

OnCourt(m) == Loaded /\ m \notin snapshot.decided

\* Mutant: any direct write of the match counts, whatever its result.
SettledByAnyWrite(a) == lastDirect[request[a].match].inTtl

\* The identical result was written directly within the last five minutes.
SettledOk(a) ==
    LET d == lastDirect[request[a].match]
    IN  /\ request[a].result \notin Invalid
        /\ d.inTtl
        /\ d.result = request[a].result

\* The court no longer has this match: acknowledged only as a repetition.
AnswerOffCourt(a) ==
    /\ request[a].at = "sent"
    /\ ~OnCourt(request[a].match)
    /\ Goto(a, IF SettledOk(a) THEN "ok" ELSE "refused")
    /\ UNCHANGED <<tournament, btp, pendingResult, hostVars, syncVars,
                   history, budget>>

\* A payload that can never be accepted: refused for good.
RejectPayload(a) ==
    /\ request[a].at = "sent"
    /\ OnCourt(request[a].match)
    /\ request[a].result \in Invalid
    /\ Goto(a, "invalid")
    /\ UNCHANGED <<tournament, btp, pendingResult, hostVars, syncVars,
                   history, budget>>

BeginWrite(a) ==
    /\ request[a].at = "sent"
    /\ OnCourt(request[a].match)
    /\ request[a].result \notin Invalid
    /\ Goto(a, "writing")
    /\ UNCHANGED <<tournament, btp, pendingResult, hostVars, syncVars,
                   history, budget>>

\* The desk enters a result; it may correct one BTP already has.
DeskEntersResult(a) ==
    /\ "desk" \in budget.sources
    /\ request[a].at = "idle"
    /\ Loaded
    /\ \E m \in Match :
          /\ \E r \in Enterable(m) \ Invalid :
                request' = [request EXCEPT ![a] =
                    [at |-> "writing", match |-> m, result |-> r,
                     from |-> "desk", listening |-> TRUE]]
          /\ CountEntered(m)
    /\ UNCHANGED <<tournament, btp, pendingResult, hostVars, syncVars, history>>

\* BTP executes the SENDUPDATE of task a.
BtpApplies(a) ==
    LET m == request[a].match IN
    /\ request[a].at = "writing"
    /\ btp' = [btp EXCEPT ![m] = request[a].result]
    /\ kept' = kept \cup {<<m, request[a].result>>}
    /\ Goto(a, "applied")
    /\ UNCHANGED <<tournament, pendingResult, hostVars, syncVars, promised,
                   dropped, budget>>

\* The write fails, before or after BTP executed it: into the queue.
WriteFails(a) ==
    /\ request[a].at \in {"writing", "applied"}
    /\ QueueBtpRetry(request[a].match, request[a].result)
    /\ Goto(a, "persistQueued")
    /\ UNCHANGED <<tournament, btp, pendingResult, snapshot, lastDirect, file,
                   syncVars, promised, budget>>

\* write_result_settled after a success: the queue entry goes ...
WriteSucceeds(a) ==
    /\ request[a].at = "applied"
    /\ ClearBtpRetry(request[a].match)
    /\ Goto(a, "persistCleared")
    /\ UNCHANGED <<tournament, btp, pendingResult, snapshot, lastDirect, file,
                   syncVars, history, budget>>

\* Mutant: the answer does not wait for the file.
AnswerBeforePersist(a) ==
    /\ \/ request[a].at = "persistQueued"  /\ Goto(a, "ok")
       \/ request[a].at = "persistCleared" /\ Goto(a, "noting")
    /\ UNCHANGED <<tournament, btp, pendingResult, hostVars, syncVars,
                   history, budget>>

PersistRequest(a) ==
    /\ \/ request[a].at = "persistQueued"  /\ Goto(a, "ok")
       \/ request[a].at = "persistCleared" /\ Goto(a, "noting")
    /\ PersistBtpRetry
    /\ UNCHANGED <<tournament, btp, pendingResult, snapshot, btpRetry,
                   lastDirect, syncVars, history, budget>>

\* ... and the write is noted, with the time after it.
NoteDirectWrite(a) ==
    /\ request[a].at = "noting"
    /\ lastDirect' = [lastDirect EXCEPT ![request[a].match] =
          [result |-> request[a].result, sinceStart |-> TRUE, inTtl |-> TRUE]]
    /\ Goto(a, "ok")
    /\ UNCHANGED <<tournament, btp, pendingResult, snapshot, btpRetry, file,
                   syncVars, history, budget>>

Answered(a) == request[a].at \in {"ok", "refused", "invalid"}

\* The answer arrives; ok and a refusal for good end the tablet's retries.
Answer(a) ==
    LET m == request[a].match IN
    /\ Answered(a)
    /\ request[a].listening
    /\ promised' = IF request[a].at = "ok"
                   THEN [promised EXCEPT ![m] = request[a].result]
                   ELSE promised
    /\ pendingResult' = IF request[a].from = "tablet" /\ request[a].at # "refused"
                        THEN [pendingResult EXCEPT ![m] = NoResult]
                        ELSE pendingResult
    /\ request' = [request EXCEPT ![a] = IdleRequest]
    /\ UNCHANGED <<tournament, btp, hostVars, syncVars, kept, dropped, budget>>

\* The request or its answer is lost on the way.
LoseMessage(a) ==
    /\ request[a].at = "sent" \/ Answered(a)
    /\ request' = [request EXCEPT ![a] = IdleRequest]
    /\ UNCHANGED <<tournament, btp, pendingResult, hostVars, syncVars,
                   history, budget>>

\* The local server drops the task of a client that has gone, wherever it
\* awaits BTP; nothing is queued or noted then.
DropTask(a) ==
    /\ request[a].at \in {"writing", "applied"}
    /\ ~request[a].listening
    /\ request' = [request EXCEPT ![a] = IdleRequest]
    /\ UNCHANGED <<tournament, btp, pendingResult, hostVars, syncVars,
                   history, budget>>

-----------------------------------------------------------------------------
(* The sync loop: SyncEngine.run_once of a master. *)

Rotate(q, k) == SubSeq(q, k + 1, Len(q)) \o SubSeq(q, 1, k)

\* BTP answers the poll; on an error the cycle ends where it began.
FetchSnapshot ==
    /\ phase = "idle"
    /\ fetched' = [tournament |-> tournament,
                   decided |-> {m \in Match : btp[m] # NoResult}]
    /\ phase' = "fetched"
    /\ UNCHANGED <<tournament, btp, pendingResult, request, hostVars, rest,
                   entry, retryStart, history, budget>>

\* Mutant: every flush starts with the oldest entry.
FlushBeginsInOrder ==
    /\ phase = "fetched"
    /\ btpRetry # <<>>
    /\ rest' = btpRetry
    /\ phase' = "first"
    /\ UNCHANGED <<tournament, btp, pendingResult, request, hostVars, fetched,
                   entry, retryStart, history, budget>>

\* flush_btp_retries works on a copy of the queue, each time one place on.
FlushBegins ==
    /\ phase = "fetched"
    /\ btpRetry # <<>>
    /\ rest' = Rotate(btpRetry, retryStart % Len(btpRetry))
    /\ retryStart' = IF Len(btpRetry) > 1 THEN (retryStart + 1) % StartWrap
                                          ELSE retryStart
    /\ phase' = "first"
    /\ UNCHANGED <<tournament, btp, pendingResult, request, hostVars, fetched,
                   entry, history, budget>>

\* Nothing queued, or the last flush is less than 30 s ago.
FlushIsSkipped ==
    /\ phase = "fetched"
    /\ phase' = "flushed"
    /\ UNCHANGED <<tournament, btp, pendingResult, request, hostVars, fetched,
                   rest, entry, retryStart, history, budget>>

Choosing == phase \in {"first", "choosing"} /\ rest # <<>>

\* A direct write has cleared the entry meanwhile.
FlushPasses ==
    /\ Choosing
    /\ ~Queued(Head(rest).match)
    /\ rest' = Tail(rest)
    /\ phase' = "choosing"
    /\ UNCHANGED <<tournament, btp, pendingResult, request, hostVars, fetched,
                   entry, retryStart, history, budget>>

\* Mutant: only the age counts.
DropOldOnly(e) == e.old

\* prepare_btp_retry: BTP has a result by now, or the entry is too old.
DropReason(e) == e.match \in fetched.decided \/ e.old

FlushDrops ==
    LET e == Head(rest) IN
    /\ Choosing
    /\ Queued(e.match)
    /\ DropReason(e)
    /\ ClearBtpRetry(e.match)
    /\ dropped' = IF e.match \in fetched.decided THEN dropped
                                                 ELSE dropped \cup {e.match}
    /\ rest' = Tail(rest)
    /\ phase' = "persisting"
    /\ UNCHANGED <<tournament, btp, pendingResult, request, snapshot,
                   lastDirect, file, fetched, entry, retryStart, promised,
                   kept, budget>>

\* write_started is taken: direct writes noted so far no longer count.
FlushWrites ==
    LET e == Head(rest) IN
    /\ Choosing
    /\ Queued(e.match)
    /\ ~DropReason(e)
    /\ entry' = e
    /\ rest' = Tail(rest)
    /\ lastDirect' = [lastDirect EXCEPT ![e.match].sinceStart = FALSE]
    /\ phase' = "writing"
    /\ UNCHANGED <<tournament, btp, pendingResult, request, snapshot, btpRetry,
                   file, fetched, retryStart, history, budget>>

\* All tried, or the 20 s are over: never before the first one.
FlushEnds ==
    /\ phase = "choosing"
    /\ rest' = <<>>
    /\ phase' = "flushed"
    /\ UNCHANGED <<tournament, btp, pendingResult, request, hostVars, fetched,
                   entry, retryStart, history, budget>>

\* BTP executes the SENDUPDATE of the flush, or of its rewrite.
FlushApplies ==
    /\ \/ phase = "writing"   /\ phase' = "applied"
       \/ phase = "rewriting" /\ phase' = "rewritten"
    /\ btp' = [btp EXCEPT ![entry.match] = entry.result]
    /\ kept' = kept \cup {<<entry.match, entry.result>>}
    /\ UNCHANGED <<tournament, pendingResult, request, hostVars, fetched, rest,
                   entry, retryStart, promised, dropped, budget>>

\* The entry stays for the next flush.
FlushFails ==
    /\ phase \in {"writing", "applied"}
    /\ phase' = "choosing"
    /\ entry' = NoEntry
    /\ UNCHANGED <<tournament, btp, pendingResult, request, hostVars, fetched,
                   rest, retryStart, history, budget>>

\* Mutant: an unanswered write counts as done.
FlushAssumesSuccess ==
    /\ phase \in {"writing", "applied"}
    /\ ClearBtpRetry(entry.match)
    /\ phase' = "persistCleared"
    /\ UNCHANGED <<tournament, btp, pendingResult, request, snapshot,
                   lastDirect, file, fetched, rest, entry, retryStart,
                   history, budget>>

\* clear_btp_retry goes by the match alone.
FlushSucceeds ==
    /\ phase = "applied"
    /\ ClearBtpRetry(entry.match)
    /\ phase' = "persistCleared"
    /\ UNCHANGED <<tournament, btp, pendingResult, request, snapshot,
                   lastDirect, file, fetched, rest, entry, retryStart,
                   history, budget>>

\* Mutant: the flush changes the queue in memory only.
FlushInMemoryOnly ==
    /\ \/ phase = "persistCleared" /\ phase' = "healing" /\ UNCHANGED entry
       \/ phase = "persisting" /\ phase' = "choosing" /\ entry' = NoEntry
    /\ UNCHANGED <<tournament, btp, pendingResult, request, hostVars, fetched,
                   rest, retryStart, history, budget>>

PersistFlush ==
    /\ \/ phase = "persistCleared" /\ phase' = "healing" /\ UNCHANGED entry
       \/ phase = "persisting" /\ phase' = "choosing" /\ entry' = NoEntry
    /\ PersistBtpRetry
    /\ UNCHANGED <<tournament, btp, pendingResult, request, snapshot, btpRetry,
                   lastDirect, fetched, rest, retryStart, history,
                   budget>>

\* Mutant: whatever was noted last is written again, even nothing.
FlushHealsBlindly ==
    /\ phase = "healing"
    /\ entry' = [entry EXCEPT !.result = lastDirect[entry.match].result]
    /\ phase' = "rewriting"
    /\ UNCHANGED <<tournament, btp, pendingResult, request, hostVars, fetched,
                   rest, retryStart, history, budget>>

\* A correction written directly meanwhile is written once more.
FlushHeals ==
    LET d == lastDirect[entry.match] IN
    /\ phase = "healing"
    /\ \/ /\ d.sinceStart
          /\ entry' = [entry EXCEPT !.result = d.result]
          /\ phase' = "rewriting"
       \/ /\ ~d.sinceStart
          /\ phase' = "choosing"
          /\ entry' = NoEntry
    /\ UNCHANGED <<tournament, btp, pendingResult, request, hostVars, fetched,
                   rest, retryStart, history, budget>>

RewriteFails ==
    /\ phase \in {"rewriting", "rewritten"}
    /\ QueueBtpRetry(entry.match, entry.result)
    /\ phase' = "persisting"
    /\ UNCHANGED <<tournament, btp, pendingResult, request, snapshot,
                   lastDirect, file, fetched, rest, entry, retryStart,
                   promised, budget>>

RewriteSucceeds ==
    /\ phase = "rewritten"
    /\ phase' = "choosing"
    /\ entry' = NoEntry
    /\ UNCHANGED <<tournament, btp, pendingResult, request, hostVars, fetched,
                   rest, retryStart, history, budget>>

\* set_snapshot: guard, one-time load of the file, then the snapshot.
PublishSnapshot ==
    /\ phase = "flushed"
    /\ LoadBtpRetry(fetched)
    /\ snapshot' = fetched
    /\ phase' = "idle"
    /\ fetched' = NoSnapshot
    /\ UNCHANGED <<tournament, btp, pendingResult, request, lastDirect, file,
                   rest, entry, retryStart, history, budget>>

-----------------------------------------------------------------------------
(* Clocks, people at BTP, and the end of the process. *)

\* RESULT_IDEMPOTENCY_TTL has passed.
DirectWriteExpires(m) ==
    /\ lastDirect[m].inTtl
    /\ lastDirect' = [lastDirect EXCEPT ![m].inTtl = FALSE]
    /\ UNCHANGED <<tournament, btp, pendingResult, request, snapshot, btpRetry,
                   file, syncVars, history, budget>>

\* BTP_RETRY_MAX_AGE has passed.
EntryAges ==
    /\ budget.aging
    /\ \E i \in DOMAIN btpRetry :
          /\ ~btpRetry[i].old
          /\ btpRetry' = [btpRetry EXCEPT ![i].old = TRUE]
    /\ UNCHANGED <<tournament, btp, pendingResult, request, snapshot,
                   lastDirect, file, syncVars, history, budget>>

\* Somebody types the result into BTP.
HandEntry(m) ==
    /\ budget.hands
    /\ btp[m] # Hand
    /\ btp' = [btp EXCEPT ![m] = Hand]
    /\ UNCHANGED <<tournament, pendingResult, request, hostVars, syncVars,
                   history, budget>>

\* Another tournament is opened; its matches have the same numbers.
SwitchTournament ==
    /\ budget.switches < MaxSwitches
    /\ \E t \in Tournament \ {tournament} : tournament' = t
    /\ btp' = [m \in Match |-> NoResult]
    /\ budget' = [budget EXCEPT !.switches = @ + 1]
    /\ UNCHANGED <<pendingResult, request, hostVars, syncVars, history>>

\* The host process ends at any point and starts again.
Restart ==
    /\ budget.restarts < MaxRestarts
    /\ budget' = [budget EXCEPT !.restarts = @ + 1]
    /\ request' = [a \in Request |-> IdleRequest]
    /\ snapshot' = NoSnapshot
    /\ btpRetry' = <<>>
    /\ lastDirect' = [m \in Match |-> NoDirect]
    /\ phase' = "idle" /\ fetched' = NoSnapshot
    /\ rest' = <<>> /\ entry' = NoEntry /\ retryStart' = 0
    /\ UNCHANGED <<tournament, btp, pendingResult, file, history>>

-----------------------------------------------------------------------------

Init ==
    /\ tournament \in Tournament
    /\ btp = [m \in Match |-> NoResult]
    /\ pendingResult = [m \in Match |-> NoResult]
    /\ request = [a \in Request |-> IdleRequest]
    /\ snapshot = NoSnapshot
    /\ btpRetry = <<>>
    /\ lastDirect = [m \in Match |-> NoDirect]
    /\ file = [tournament |-> NoTournament, entries |-> <<>>]
    /\ phase = "idle" /\ fetched = NoSnapshot
    /\ rest = <<>> /\ entry = NoEntry /\ retryStart = 0
    /\ promised = [m \in Match |-> NoResult]
    /\ kept = {} /\ dropped = {}
    /\ budget \in Scenario

TabletStep(m) ==
    Submit(m) \/ Reopen(m) \/ ReleaseFinalized(m) \/ TrySubmitPending(m)

RequestStep(a) ==
    \/ AbortFetch(a) \/ AnswerOffCourt(a) \/ RejectPayload(a) \/ BeginWrite(a)
    \/ DeskEntersResult(a) \/ BtpApplies(a) \/ WriteFails(a)
    \/ WriteSucceeds(a) \/ PersistRequest(a) \/ NoteDirectWrite(a)
    \/ Answer(a) \/ LoseMessage(a) \/ DropTask(a)

SyncStep ==
    \/ FetchSnapshot \/ FlushBegins \/ FlushIsSkipped \/ FlushPasses
    \/ FlushDrops \/ FlushWrites \/ FlushEnds \/ FlushApplies \/ FlushFails
    \/ FlushSucceeds \/ PersistFlush \/ FlushHeals \/ RewriteFails
    \/ RewriteSucceeds \/ PublishSnapshot

EnvironmentStep ==
    \/ \E m \in Match : DirectWriteExpires(m) \/ HandEntry(m)
    \/ EntryAges \/ SwitchTournament \/ Restart

Next ==
    \/ \E m \in Match : TabletStep(m)
    \/ \E a \in Request : RequestStep(a)
    \/ SyncStep
    \/ EnvironmentStep

Spec == Init /\ [][Next]_vars
-----------------------------------------------------------------------------
(* Properties. *)

TypeOK ==
    /\ tournament \in Tournament
    /\ btp \in [Match -> Result \cup {NoResult, Hand}]
    /\ pendingResult \in [Match -> Result \cup {NoResult}]
    /\ request \in [Request -> RequestRecord]
    /\ snapshot \in Snapshot \cup {NoSnapshot}
    /\ btpRetry \in Seq(Entry)
    /\ lastDirect \in [Match -> Direct]
    /\ file \in [tournament : Tournament \cup {NoTournament},
                 entries : Seq(Entry)]
    /\ phase \in Phases
    /\ fetched \in Snapshot \cup {NoSnapshot}
    /\ rest \in Seq(Entry)
    /\ entry \in Entry \cup {NoEntry}
    /\ retryStart \in Nat
    /\ promised \in [Match -> Result \cup {NoResult}]
    /\ kept \subseteq Match \X Result
    /\ dropped \subseteq Match
    /\ budget \in Budget

Distinct(q) == \A i, j \in DOMAIN q : q[i].match = q[j].match => i = j
MatchesOf(results) == {x[1] : x \in results}

\* A match takes one place of the queue and of its file, however often its
\* result is corrected, lost and repeated, and wherever the process restarts.
\* So no result is given up for want of a place, unless more matches have had
\* results than there are places: 200, "bei 148 Ergebnissen am staerksten
\* Turniertag" (queue_btp_retry, load_btp_retry).
OneEntryPerMatch ==
    /\ Distinct(btpRetry) /\ Distinct(file.entries)
    /\ Len(btpRetry) <= BTP_RETRY_CAP
    /\ dropped # {} /\ ~budget.aging
          => Cardinality(MatchesOf(kept)) > BTP_RETRY_CAP

OnFile(m) == Positions(file.entries, m) # {}

Safe(m) == btp[m] # NoResult \/ OnFile(m) \/ m \in dropped

\* "Eingereiht heisst angenommen": a match about which the tablet or the desk
\* was told ok has a result in BTP, or an entry in the file that outlives a
\* restart - unless the entry fell victim to the cap or to its age.
\* (process_result, persist_btp_retry, load_btp_retry, flush_btp_retries)
PromisedIsSafe ==
    \A m \in Match : promised[m] # NoResult => Safe(m)

\* settled_ok: an ok is only given for a result that, exactly as it is, was
\* written to BTP or queued - never for a correction that was not taken.
AcknowledgedWasKept ==
    /\ \A a \in Request :
          request[a].at = "ok" => <<request[a].match, request[a].result>> \in kept
    /\ \A m \in Match : promised[m] # NoResult => <<m, promised[m]>> \in kept

\* Once nobody is between a change of the queue and its persist, the file
\* holds the queue's results, in the same order (as long as one tournament
\* stays open: a foreign file is only replaced by the next change).
Persisting ==
    \/ phase \in {"persisting", "persistCleared"}
    \/ \E a \in Request : request[a].at \in {"persistQueued", "persistCleared"}

Contents(q) == [i \in DOMAIN q |-> <<q[i].match, q[i].result>>]

FileMirrorsQueue ==
    Loaded /\ ~Persisting => Contents(file.entries) = Contents(btpRetry)

\* "NIE ueberschreiben": no write of the flush changes the result of a match
\* that was decided in the snapshot the cycle began with.
FlushKeepsKnownResults ==
    [][FlushApplies => \A m \in fetched.decided : btp'[m] = btp[m]]_vars

\* The result path implements the ledger.
Ledger == INSTANCE ResultLedger WITH
    status <- [m \in Match |-> IF btp[m] # NoResult THEN "scored"
                               ELSE IF OnFile(m) THEN "stored" ELSE "open"],
    promised <- {m \in Match : promised[m] # NoResult}

LedgerSpec == Ledger!Spec

-----------------------------------------------------------------------------
(* Liveness.  Every await of the sync loop is bounded by a timeout, and a flush
   is due every 30 s.  Nothing is assumed of BTP, tablets, tasks or people. *)

Fairness ==
    /\ WF_vars(SyncStep)
    /\ SF_vars(FlushBegins)

FairSpec == Spec /\ Fairness

\* A stored result reaches BTP (or BTP gets one by hand), unless BTP fails for
\* ever on that very match: a flush may stop after any entry and other entries
\* may fail for ever, but the rotation brings every entry to the front.
StoredGetsScored ==
    \A m \in Match :
        SF_vars(FlushApplies /\ entry.match = m)
            => (OnFile(m) ~> btp[m] # NoResult)

-----------------------------------------------------------------------------
(* What documents and comments say, and the code does not do. *)

\* server.rs: "Eingereiht heisst angenommen ... das Ergebnis ist damit
\* sicherer aufgehoben als im Tablet": a flush that has written an entry only
\* removes that entry, not a newer result queued for the match meanwhile.
FlushClearsWhatItWrote ==
    [][FlushSucceeds => \A i \in Positions(btpRetry, entry.match) :
                            btpRetry[i].result = entry.result]_vars

\* turnierleitung-web.md: after a correction no write from the retry queue
\* overwrites the fresh result.  A task has overwritten another's write when
\* BTP has executed both and holds the result of the first; the flush must not
\* leave a direct write behind in that way.
Overwritten(a) ==
    /\ request[a].at \in {"applied", "persistCleared", "noting"}
    /\ request[a].match = entry.match
    /\ request[a].result # entry.result
    /\ btp[entry.match] = entry.result

FlushLeavesCorrections ==
    [][phase = "healing" /\ phase' = "choosing"
       => \A a \in Request : ~Overwritten(a)]_vars

\* tl.rs: "die Wertung wird automatisch nachgereicht": a queued result is only
\* given up because of its age, for one typed in by hand, or once BTP has it.
FlushDropsNoCorrection ==
    [][FlushDrops => LET m == Head(rest).match IN
          \A i \in Positions(btpRetry, m) :
             btpRetry[i].old \/ btp[m] \in {btpRetry[i].result, Hand}]_vars

\* state.rs: a replay must not write into the equally numbered match of
\* another tournament than the one the result was entered for.
FlushStaysInTournament ==
    phase = "writing" => entry.result \in ResultOf[fetched.tournament]

\* btp_protocol.md: "Die Queue lebt im Speicher - ein App-Neustart leert sie".
RestartEmptiesQueue ==
    [][~Loaded /\ Loaded' => btpRetry' = <<>>]_vars
=============================================================================
