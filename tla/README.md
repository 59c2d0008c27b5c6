# bts-light in TLA+

bts-light runs a badminton tournament beside BTP, the tournament software that owns the truth.
It fetches BTP's state every few seconds, shows it on tablets, monitors and a cloud live ticker,
assigns courts, calls matches, writes results back into BTP and uploads BTP's file. This directory
specifies the parts of it that are hard to test: what happens between two awaits or two locks, after
a restart, when an answer is lost, when two devices want the same court.

Paths below are relative to the repository root (`src/src-tauri/...` of `PROJECT.json` is
`src-tauri/...` here). Comments in the modules quote the German source where the wording matters.

| Files | Contents |
|---|---|
| `ResultPath.tla`, `ResultLedger.tla` | a result from the tap to BTP; what it promises |
| `ResultPathProofs.tla`, `ResultLedgerProofs.tla` | proofs about it: what is promised; queue, file, flush and the refinement |
| `CourtSession.tla`, `CourtSessionProofs.tla` | which tablet counts on a court, and whose stand prevails; proofs |
| `WriteGate.tla`, `TpUpload.tla` | the lock between writes and file copies; the upload that uses it |
| `WriteGateProofs.tla`, `TpUploadProofs.tla` | proofs about both |
| `CourtAssign.tla`, `CourtAssignProofs.tla` | who plays on which court: desk, results, automatic assignment, officials; proofs |
| `Relay.tla`, `RelayProofs.tla` | the cloud relay and its client on the tournament PC; proofs |
| `LiveTicker.tla`, `LiveTickerProofs.tla` | what badhub's live ticker shows: the loop's pushes and the tablets'; proofs |
| `MC*.tla`, `*.cfg` | small instances for TLC; `*_f_*.cfg` are expected to be violated |

## 1 Inventory

| Part | Code | State it keeps | Operations | Hard behaviour | Correct if |
|---|---|---|---|---|---|
| Tablet page | `src-tauri/assets/tablet.html` | `STATE` (match, score, history, `pendingResult`, `finalized` ...), a copy per court in localStorage | count, undo, submit, retry, reopen, load / clear match, restore | results outlive their match on the page; late answers; reload; take-over | a submitted result is repeated until its answer; one page counts |
| Request tasks | `tablet/server.rs` `process_result`, `tablet/tl.rs` `execute_result_action` | none (a task per request) | check court and payload, write, queue on failure | tasks of one match overlap; a client that goes away drops its task at an await | ok only for what was kept |
| Retry queue | `tablet/state.rs` `queue_btp_retry` ... `load_btp_retry` | `btp_retry`, `last_direct_btp_write`, `btp-retry.json` | queue, clear, persist, load once | written outside its lock; capacity; restart; tournament change | file mirrors queue, newest result wins, nothing acknowledged is lost |
| Sync loop | `sync.rs` `run_once` | `SyncEngine`: last snapshot, rotation, debounce counters | fetch, guard against empty snapshots, flush, assign, publish, push | decides from a snapshot up to a minute old | never undoes a newer decision; every stored result arrives |
| BTP client | `btp/client.rs`, `proto.rs`, `model.rs`, `xml.rs` | none | fetch, send an update | a write may be executed and its answer lost | parses what BTP sends |
| Court sessions | `tablet/server.rs` `handle_socket`, `tablet/state.rs` `claim_court`, `reconnect_decision` | holder and mirrored stand per court | identify, take over, release, score, state sync | devices in any order; handlers that outlive their page | one tablet counts, no stand is lost, the holder has the right match |
| Finalised matches | `tablet/state.rs` `mark_finalized` | time per match | mark, expire | frames sent once per key | a finished match is not counted again |
| Write gate | `btp/write_gate.rs` | a read-write lock | write, copy | writes and copies overlap; a waiting copy holds writes back | no write during a copy, neither starves |
| TP file upload | `badhub/tp_takt.rs`, `tp_upload.rs`, `commands.rs` | `TaktZustand`, `TpUploadStatus` | date, event, button, retry, halt | steps that outlive their loop and configuration; panics | complete files, one upload at a time, the last file arrives |
| Court assignment | `sync.rs` `auto_assign`, `tablet/assign.rs`, `state.rs` `try_reserve_court` | reservations, locks, exclusions, wishes | reserve, confirm, assign | reservation against the next snapshot; desk and automation at once | one match per court, none twice |
| Queue order, preparation, officials, meeting point | `tablet/queue_order.rs`, `officials.rs`, `meetingpoint.rs` | files per tournament | move, call, rotate, check in | rotation fed by snapshots; tournament change | a rotation counts every match once |
| Desk commands | `tablet/tl.rs` | operation numbers seen | execute once | repeated commands, revisions | a repetition has no second effect |
| Score push, live ticker | score queue in `tablet/server.rs`, `badhub/diff.rs`, `push.rs` | pending scores, last pushed state | coalesce, push, heartbeat | order of full and partial pushes | the ticker ends with the last score |
| Relay | `relay/src/main.rs`, `tablet/relay_client.rs`, `carrier.rs` | namespaces: host, tablets, caches | claim the host's place, forward, correlate | two hosts, lost halves of a request | one host per tournament, answers to their request |
| Timeline, sheet, times | `tablet/timeline.rs`, `sheet.rs`, `match_times.rs` | event log per match | append, sync, finalise | sequence numbers, reopened matches | the sheet is the log |
| Overview, monitors | `tablet/monitor.rs`, `assets/monitor.html`, `overview.html` | caches with revisions | build, notify | stale cache under a new revision | what is shown is the current revision |
| Announcements | `ansage_ton/`, `tablet/ansage.rs` | audio queue | speak | order | each call once |
| Kiosk app, desktop UI, pages, scripts | `android/`, `src/`, `assets/`, `scripts/` | view state | - | lifecycle of the web view | - |

How they meet: the tablet talks to request tasks and its WebSocket handler; both, the desk and the
sync loop share `TabletState`; all of them write to BTP through the write gate, and the upload
copies BTP's file through it; the sync loop alone reads BTP and hands out snapshots.

## 2 Result path (`ResultPath`, `ResultLedger`)

The most important promise of the program: once the umpire has submitted a result and the tablet
was told ok, that result is not lost, whatever fails.

### 2.1 State

| Variable | Code |
|---|---|
| `tournament`, `btp` | what BTP has open, and the result of each match (or one typed in by hand) |
| `pendingResult[m]` | `STATE.pendingResult` of the tablet of match `m`, in localStorage |
| `request[a]` | a task in `process_result` or `execute_result_action`: where it stands, its match and result, whether its client still listens |
| `snapshot` | `TabletState.snapshot`; the guard `btp_retry_tournament` is the snapshot's tournament |
| `btpRetry` | `TabletState.btp_retry`, a sequence of entries; `old`: the entry has passed 24 hours |
| `lastDirect[m]` | `last_direct_btp_write`: the result, whether it lies after the flush's `write_started` and within the idempotency time |
| `file` | `btp-retry.json` |
| `phase`, `fetched`, `rest`, `entry`, `retryStart` | where `run_once` stands, its snapshot, what the flush has still to try, what it is writing, its rotation |
| `promised`, `kept`, `dropped` | history: what was acknowledged, what was ever written or queued, which entries fell to cap or age |

### 2.2 Steps

One action is the code between two points where another task may run: an await, or the release of
a lock. So a queue change (`WriteFails`, `WriteSucceeds`, `FlushSucceeds`, `RewriteFails`,
`FlushDrops`) and its mirror in the file (`PersistRequest`, `PersistFlush`) are two actions,
because `persist_btp_retry` runs after the lock is released; a write to BTP is three (`BeginWrite`,
`BtpApplies`, success or failure), because BTP may have executed what the host believes failed.
`DropTask` is the web server dropping the handler of a client that has gone. `Restart` loses
everything but the file and localStorage. Time is abstracted to what the code asks of it: the 30
seconds between flushes and the 20 seconds of one flush are choices (`FlushIsSkipped`,
`FlushEnds`), the 24 hours and the 5 minutes are flags that may expire at any point.

A result is an opaque value; two are equal iff sets, winner and status are. Every match is on its
court until BTP has a result; a reassigned court is the case `~OnCourt`, which the code answers
alike. ok of the desk also stands for "die Wertung wird automatisch nachgereicht", which promises
the same. Left out: walkover proposals, the players block and the court release inside an update,
officials.

### 2.3 Properties and runs

| Run | Instance | Checked |
|---|---|---|
| `races` | 1 match, 2 results, 2 tasks, tablet and desk | `TypeOK` `AcknowledgedWasKept` `FileMirrorsQueue` |
| `restart` | 3 matches, capacity 2, ageing, an invalid payload; 1 restart or 1 change of the tournament | `OneEntryPerMatch` |
| `ledger` | 2 matches, 1 restart, fair | `LedgerSpec` `FlushKeepsKnownResults` `StoredGetsScored` `PromisedIsSafe` |

- **PromisedIsSafe**: a match about which somebody was told ok has a result in BTP, or an entry in
  the *file*, or lost its entry to cap or age.
- **AcknowledgedWasKept**: an ok is for a result that was, exactly as it is, written or queued: the
  repetition check `settled_ok` never acknowledges a correction.
- **FileMirrorsQueue**: outside of a pending persist, file and queue agree, although the file is
  written after the queue's lock is released and by several tasks.
- **OneEntryPerMatch**: newer results replace older ones in place, in the queue and in the merge
  after a restart, and the capacity holds. So nothing is given up for want of a place before more
  matches than there are places had results (unless entries age): a correction never costs another
  match its place, although the cap may cut what somebody was told ok for.
- **FlushKeepsKnownResults**: no write of the flush changes a result that was in the snapshot its
  cycle began with.
- **LedgerSpec**: `ResultPath` implements `ResultLedger`: open, perhaps stored, then scored, never
  back, and ok only when not open.
- **StoredGetsScored**: a stored result reaches BTP.

Two matches are enough for what one entry does to another in rotation and merge, two tasks and two
results for a correction that overtakes its predecessor. Whether an entry is replaced or doubled
shows only where two have room, and whether one is given up too early only where a third match wants
a place: hence three matches and a capacity of 2 in `restart`. `MaxEntered` bounds the results
per match, `StartWrap` the rotation counter (2^64 in the code). What else may happen in a run is a
`Scenario`, a set of budgets (restarts, switches of the tournament) of which one is drawn in the
initial state, so that a run need not explore all of them at once. `restart` draws one of four: a
result for each of three matches; two for one match and one for another, with a restart; old entries
and a restart; results of a tablet and a switch. Nothing is typed into BTP by hand in it
(`budget.hands`). `NoPromiseIsLost` is proved for every scenario without a switch,
`NoMatchIsQueuedTwice` for all.

**Fairness** (`ledger`): `WF(SyncStep)`, because every await of the loop has a timeout (5 s to
connect, 10 s to read), and `SF(FlushBegins)`, because a flush is due every 30 s as long as
something is queued. That BTP does not fail for ever on one match (`SF(FlushApplies)` for it) is
the premise of `StoredGetsScored`. Nothing is assumed of tablets, tasks or people.

### 2.4 Where the code differs from its documents

`flush_clears_newer` checks one property that states what the repository says, and TLC finds the
execution that breaks it: a queued result is safe and the newest one wins, but the flush clears by
match number after its await, and with it a newer result that was queued meanwhile.

Met on the way and kept as configurations beside the listed runs (module `MCResultPath`):

| Configuration | Property | Says | Does |
|---|---|---|---|
| `ResultPath_f_heal` | `FlushLeavesCorrections` | after a correction no write from the queue overwrites the fresh result (`docs/features/turnierleitung-web.md:382`) | the flush looks once for noted direct writes; one BTP has executed but its task has not noted is overwritten |
| `ResultPath_f_desk` | `FlushDropsNoCorrection` | "die Wertung wird automatisch nachgereicht" (`tl.rs:2254`) | a queued correction is dropped because BTP holds the result it was to correct |
| `ResultPath_f_switch` | `FlushStaysInTournament` | entries of another tournament are discarded (`state.rs:2171`) | true of the file, not of the queue in memory |
| `ResultPath_f_restart` | `RestartEmptiesQueue` | a restart empties the queue (`docs/btp_protocol.md:939`) | it is loaded from the file: the document is out of date |

## 3 Court sessions (`CourtSession`)

One court, the tablets whose page has it in its URL, and the host that lets one of them count.

### 3.1 State

| Variable | Code |
|---|---|
| `pages[d]` | the page of device `d`: connection, match and stand (also in localStorage), the overlays `locked` and `occupied`, `finalized`, the identify timer, the open result |
| `conns[c]` | a WebSocket and its `handle_socket` with the locals `token`, `superseded`, `last_match`; frames under way both ways. `cut`: the page is gone and the handler does not know |
| `active`, `scored` | the holder of the court and `scored_since_claim` |
| `score`, `mirror` | the stand shown (`courts`) and the stand kept for the next tablet (`court_state`) |
| `field`, `marker`, `polled` | the match on the court in the snapshot, the match just finished, and the poll between `track_scorekeepers` and `set_snapshot` |
| `writing`, `inBtp` | `process_result` tasks after their checks, and what they brought into BTP |
| `author` | history: the device that set `score` |

### 3.2 Steps

Page: `Connect`, `FinalizeSetup`, `AddPoint` (also offline), `Reidentify`, `TakeOver`, `DropLink`,
`Reload`, `PostResult`, `ResultConfirmed`, and one `Receive...` per frame of the host. Host: one
`Handle...` per frame of the page, the 2-second `Tick`, `HandlerEnds`. Sync: `SyncTracks`,
`SyncStores`, `MarkerExpires`, and `ResultWritten` for `clear_court`. Each is the whole handler:
`HandleIdentify` claims the court, decides whose stand prevails, restores and pushes.

A stand is a match and its number of points; undo, sides, serve, pauses and the relay's own copy of
the sessions are left out. `Ticked` assumes that the holder's ticker (2 s) has run since the last
poll (5 s).

### 3.3 Properties and runs

| Run | Instance | Checked |
|---|---|---|
| `session` | 2 tablets, 2 matches of 1 point; 3 WebSockets, one cut at a time, or 2 WebSockets, 2 changes of the court and a result | `TypeOK` `OneTabletCounts` `HolderSeesItsMatch` `HolderStandIsShown` `OwnStandOnlyGrows` |
| `session_live` | 1 change of the court, fair | `TakenOverIsTold` |

- **OneTabletCounts**: when all frames have arrived, every page that does not hold the court shows
  an overlay.
- **HolderSeesItsMatch**: the holder's page has the match BTP has there and knows whether it is
  finished; nothing is lost to the dedup of `push_match` or to the restored stand of another match.
- **HolderStandIsShown**: what it has counted is what the monitors show and, unless its page is locked,
  what a replacement gets.
- **OwnStandOnlyGrows**: over lost connections, reloads and offline points the stand a tablet brought
  to the monitors does not fall back to an older one of its own. A stand makes its device the author
  if its page has read everything and sends nothing but its present stand (`InStep`).
- **TakenOverIsTold**: a replaced holder is locked without any frame of its own.

Bounds: WebSockets are never reused, `MaxConns` counts them, `MaxCut` those whose page is gone at a
time. `MaxQueue = 0` lets a page act when its frames have been handled, apart from the two or three
that one act sends together (so score and state of one stand may still be separated by another
device's frame). `MaxPolls`, `MaxResults`, `MaxPoints` bound the changes of the court, the results
and the points of a match. `Scenario` says which part of these budgets is spent already when the
behaviour begins, and one is drawn in the initial state: in `session` (`LostOrNext`) either three
WebSockets may come and go during one match, one of them cut at a time (three are the least with
which one device comes back twice or two devices take turns), or two WebSockets live through two
changes of the court and a result. The instance stops when its
WebSockets are used up, hence `CHECK_DEADLOCK FALSE`. The tablets are interchangeable, and so
are the matches, hence the symmetry (not in `session_live`). **Fairness** (`session_live`): weak fairness of a handler's frames
and ticks, which `tokio::select!` serves in turn, and of the page reading its socket.

### 3.4 Where the code differs from its documents

`takeover_then_reconnect`: a take-over is to adopt the court's stand; if its answer is lost with the
connection, the device is back as the holder, is told that its own stand prevails, and the stand of
the tablet it took over from is gone.

Met in a proof (8.2): a page whose court was taken is locked, but an identify of it that is under way
may be granted afterwards. `match_assigned` (`tablet.html:1745`) does not clear the lock, so the
holder stays locked; it sends its score when it connects or hears of its match, but mirrors nothing.

Kept as configurations (module `MCCourtSession`):

| Configuration | Property | What happens |
|---|---|---|
| `CourtSession_f_empty` | `EmptyCourtIsReported` | a tablet that comes back with a match to an emptied court is told nothing, although `server.rs:4025` explains why the first push always fires: identify sets the key to the one of an empty court |
| `CourtSession_f_zero` | `NoStartFromZero` | at a free court a replacement's empty stand prevails over the mirrored one (`server.rs:4097`: "nicht bei 0:0") |
| `CourtSession_f_return` | `ReturnerStandsDown` | a tablet returns after another counted further and left: the older stand prevails (`docs/features/turnier-robustheit.md:113`) |
| `CourtSession_f_takeover` | `ShownIsContinued` | a take-over between the score and the state frame of the returning holder gets the older stand (`relay-proto/src/lib.rs:1473`) |
| `CourtSession_f_ended` | `EndedStandIsGone` | the tablet's own frames put the final stand back after `clear_court` (`state.rs:4075`) |
| `CourtSession_f_clear` | `ClearsOnlyEndedStand` | `clear_court` after a slow write wipes the stand of the next match (`state.rs:4077`) |

## 4 Write gate and TP file upload (`WriteGate`, `TpUpload`)

`WriteGate` is the lock: `write` (each call of the four `write_*_to_btp`), `copier` (the upload that
has it alone) and `line` (tokio's fair queue: whoever cannot have the lock at once waits behind
those before, so that a waiting copy holds back later writes). `TpUpload` EXTENDS it and uses its
actions inside its own.

| Variable | Code |
|---|---|
| `exec`, `mem`, `disk` | BTP: after how many changes it executed a write, changes made, changes in its file |
| `config`, `saving` | `AppState.config`; `save_config` between resetting the status and storing the value |
| `loop` | `tp_takt_schleife`: off, free, or waiting for a step |
| `takt` | `TaktZustand`: date, halt (as the configuration behind it), `merker`, `nachholen` |
| `laeuft`, `job` | `TpUploadStatus.laeuft`; each `tp_takt_schritt` and each click with its `fuehre_upload_aus`; `drops`, `unwinds`: its end or a panic, before `LaeuftZurueck` has fallen |
| `badhub` | what it received last, per configuration |
| `crossed` | history: an upload began between the two clears of the flag |

A configuration stands for file, tournament, address and password; `Refused` are those the host or
badhub refuses. `FileOf` is what `SendeMerker` keeps of it, file and tournament: `Passt` compares
that and the bytes, so a note fits every address and password of the same file. The configuration in
the model's note is history, for the properties alone. The bytes of a file are the number of changes
it holds. `SaveBegins`/`SaveEnds`, `StepBegins`, `Asks`, `Looks`, `Compares`, `StepUploads`,
`StepFiles` follow `save_config` and the numbered comments of `tp_takt_schritt`; `GateIsBusy` to
`NetFalls` follow `fuehre_upload_aus`. Its end clears the flag twice: `UploadEnds` under the lock of
the status, and after that lock and the guard of the gate are gone `NetFalls`, the safety net
`LaeuftZurueck`, which clears it again, whoever has set it since (`FlagIsSet`). After a panic
(`UploadPanics`: the guard falls first) the net alone clears it. `LoopAborted` leaves the step
running, as the spawned task does. Of a time only none, waiting and due are told apart, so retry
counters and lengths are choices.

| Run | Instance | Checked |
|---|---|---|
| `tp_upload` | 1 write, 1 step, 1 click, 2 configurations, 1 event (entry by hand, saving, panic, or an upload that begins between the two clears); fair | `TypeOK` `CopyMeetsNoWrite` `LaeuftMatches` `NotedIsAtBadhub` `CopyHasAnsweredWrites` `LastFileArrives` |
| `stale_halt` | the same | `HaltedForThisConfig`, violated |

- **CopyHasAnsweredWrites**: what goes out holds every write BTP had answered when the copy was taken.
- **LaeuftMatches**: the flag is never set without an upload, whatever ended, failed or panicked. And
  it is set while one runs, and one at most does, unless an upload once began between the end of
  another and the fall of its safety net (`crossed`).
- **NotedIsAtBadhub**: a note of the present file is true at the address it was made for, although
  button, steps that outlived their loop and new configurations write the same note. Without a
  crossing: uploads that overlap may arrive in the other order than they are noted in.
- **LastFileArrives**: as long as the sync runs with a configuration nobody refuses and without a
  halt, badhub ends with the file as it is in the end, but for a crossing, and for a note that an
  upload under way has left behind for another configuration of the same file (`Strayed`).

Both exemptions are behaviours of the code: `TpUpload_f_flag` and `TpUpload_f_note` below.

The step repeats for ever, so one step and one click already overlap in every way two uploads can;
one write is enough to be before, in the line of, or after a copy (two were checked once, and the
exclusion is proved for all). Both configurations are of one file (`OneFile`), the case in which a
note fits where it should not. The instance has 749 543 states. **Assumed**: the rest `RUHE` is long enough for BTP to have saved what
it answered (`Settled`, a guard of `Reads`); the code calls the value unmeasured. **Fairness**: every
await of a task ends (timeouts of gate, reading, sending), the lock is handed on, dates come, BTP
saves; reading and sending do not fail for ever (strong fairness of four actions). Nothing obliges
anybody to write, click or save.

A write whose answer was lost may still be executed by BTP during a copy: the gate cannot know, and
`CopyHasAnsweredWrites` does not speak of it. Half-written files, the plausibility check of the
server, the switch `auto_enabled` and the events that bring a date forward are left out.

`stale_halt`: the handbook says the automatic check runs again once the cause is repaired and saved
(`docs/tp-datei-upload.md:215`); a step that began with the old configuration applies its halt
afterwards, and nothing but a further change or a successful click lifts it.

Kept as configurations (module `MCTpUpload`):

| Configuration | Property | Says | Does |
|---|---|---|---|
| `TpUpload_f_flag` | `FlagStaysSet` | the regular path clears the flag before, so the safety net has nothing left to do (`commands.rs:1529`) | status lock and gate are released before the net falls (`commands.rs:1676`, `1537`): an upload that begins in between loses its flag, and a second one can start beside it |
| `TpUpload_f_note` | `PassedOverIsThere` | the note holds the bytes the server took last (`tp_takt.rs:55`) | `save_config` forgets the note (`commands.rs:479`), an upload under way writes it again (`commands.rs:1734`, `1864`), and as it has no address it fits the new badhub, which never gets the file until it changes |

## 5 Court assignment (`CourtAssign`)

BTP keeps an assignment twice, at the court and at the match. Desk pages, the desktop, results and
the automatic assignment all write it, each from a snapshot that may be older than the writes of the
others; claims of courts are to keep them apart.

### 5.1 State

| Variable | Code |
|---|---|
| `matchCourt`, `courtMatch`, `finished`, `umpires` | BTP: `Match.CourtID`, `Court.MatchID`, matches with a winner, with an umpire |
| `snapshot`, `fetched` | the published snapshot, and that of the running cycle |
| `pendingAssign` | `TabletState.pending_assign`, the claims by court |
| `pendingAuto`, `picks` | `SyncEngine.pending_auto`; the assignments of this cycle |
| `assigned`, `officialsWritten` | umpires given by `officials.rs` and not yet in BTP; `officials_written` |
| `phase` | where `run_once` stands: fetched, picked, writing, written, to publish, to confirm, officials' write |
| `task[d]`, `ops` | a request of a desk page, of the desktop, or a result: its match, courts, claim, and where it stands (`looked`: decided, nothing claimed yet) |
| `calm`, `crossed` | which kind of day it is, and whether on it a desk was overtaken before its claim; see below |

### 5.2 Steps

Handlers and loop run on the threads of one runtime, so an action ends where a lock is released, not
only at an await. A request of the desk looks at a copy of the snapshot (`Decides`:
`plan_court_action` or `check_assign`), later gives the claim of its source back and claims its
target (`Claims`, or `Refused`), is executed by BTP in a third step and answered in a fourth; it may
fail before or after BTP has executed it, be executed late, or lose its handler. The loop is
`Fetches`, `AutoLooks` (reads the claims and picks), `AutoClaims` (`try_reserve_court`, whose answer
it does not look at, and the umpires that `uebernimm_vorab_sr` adopts), `AutoExecutes`,
`AutoAnswered` or `AutoFails`, `Publishes` (`set_snapshot`, `track_officials`), `Confirms`
(`release_confirmed_reservations`) and the officials' write. The claims of one cycle are one action:
between two of them a desk achieves nothing that it does not achieve before or after. Requests have
no names, and `FreePlace` gives the next one a fixed free place. `ClaimLapses` and `PendingLapses`
are the two time limits (15 s, 30 s).

Locked courts, wishes, halls, the order of the queue, players on another court and pauses only
narrow what may be chosen: the model lets the desk choose any match and the automatic assignment any
picks that leave no court empty while a match waits. `op` memory of repeated commands answers
without effect and is a stutter.

A **calm day** is one on which only assignments, moves and results are asked for, nobody asks about
a match that another request or claim is about, umpires are not assigned by the host, and BTP
answers in time: no failure, no lapse, and a result is answered before the next fetch. On any other
day everything may happen. A calm day is **quiet** as long as no desk was overtaken between its look
and its claim (`Crosses`): its match was not claimed or moved meanwhile, its court not given away,
and the loop has not picked either of the two and is about to claim. `Quiet` does not ask anything
of the loop: a snapshot published, a court claimed or freed at any other time leaves a day quiet.

### 5.3 Properties and run

`court_assign`: 2 matches, 2 courts, 2 requests at a time, up to 4 requests on a quiet day and one on
any other (after a crossing, none but those under way); the loop runs for ever; 767 087 states. What
is checked on every day needs no second request to fail: claims are compared with the loop's; the
theorems hold for every bound.

- **ClaimsExclusive**: no match is claimed for two courts, whoever claims, moves, lets lapse or
  confirms.
- **SidesAgree**: on a quiet day both sides of BTP agree on every unfinished match: no court is given
  twice, no match is on two, although desks and loop decide from snapshots of different age, claim
  later and write later still. On a day that is calm only, it does not hold: see 5.4.
- **AutoKeepsGoing**: no court stays free while a match is ready, unless the writes of the automatic
  assignment fail again and again: neither a lost write nor a claim nobody gives back blocks it.
- **UmpireArrives**: an umpire assigned here reaches BTP, unless the officials' writes fail again
  and again.

**Fairness**: the loop goes on (its awaits have time-outs), the time limits pass, BTP answers or the
request fails. Nothing obliges the desk.

### 5.4 Where the code differs from its comments, and what is not excluded

Two configurations of module `MCCourtAssign`:

| Configuration | Property | Says | Does |
|---|---|---|---|
| `CourtAssign_f_officials` | `OfficialsKeepCourts` | the officials' write repeats the court so that it never overwrites an assignment that has just arrived (`server.rs:3701`) | it repeats the court of the snapshot its cycle began with; a match that the same cycle has just assigned, with an umpire adopted on the way, gets its court set back to none, without any request of the desk |
| `CourtAssign_f_unclaimed` | `AutoWritesItsClaims` | the claims protect both ways (`sync.rs:2260`), and who does not get one does not write (`tl.rs:1835`) | the automatic assignment reads the claims (`sync.rs:1901`), ignores the answer of `try_reserve_court` (`sync.rs:2262`) and writes: after a claim of the desk in between, one court is given to two matches, on a calm day |

The other way round there is the same gap: a desk that looked at the snapshot (`tl.rs:1717`) and claims
(`tl.rs:1840`) after the loop has published the next one (`sync.rs:2449`) and given back the claim that
it confirms (`sync.rs:2512`) finds the court free in both. Both are what `Crosses` takes out of
`SidesAgree`.

Seen while modelling, outside a calm day and without a text of the repository that excludes it:

- A move repeated before its answer frees the source court a second time, also when it was given on
  meanwhile (`tl.rs:1655`: only answered operations are remembered).
- Freeing a court whose assignment no snapshot has confirmed names no match: the court side is
  emptied, the match side stays (`tl.rs:190`).
- A claim lapses after 15 s, a write may take 30 s (`state.rs:3910`, `btp/client.rs:70`).
- `clear_court` after a late answer gives back the claim of the next match (`state.rs:4082`).

## 6 Relay (`Relay`)

One namespace of the cloud relay with one court: the tournament PC as its host, the tablets outside
the hall, the desk pages that reach the PC through it.

### 6.1 State

| Variable | Code |
|---|---|
| `up`, `down`, `cut` | frames under way on each host connection; lines that are dead and nobody knows |
| `pcMatch`, `live` | what the PC has on the court: `match_for_court`, the live stand |
| `link`, `lastMatch`, `scoreFp`, `busy`, `running` | `relay_client.rs`: the connection of `serve`, what it sent last, the result being processed, the tasks of commands |
| `served`, `host`, `silent` | `relay/src/main.rs`: the `host_conn` tasks, the slot with its generation, 15 s without a sign |
| `courtMatch`, `courtScore`, `holder` | the mirrored court and the session that holds it |
| `pending`, `nextReq`, `call`, `req`, `executed` | `pending` and `tl_pending` by number, the state of each HTTP request, what the PC has executed |
| `at`, `told`, `page` | a tablet's session, the match it was told, the match it shows |

### 6.2 Steps

One action per frame on either side, per HTTP request, time-out and end of a connection.
`HostConnEnds` is the whole tail of `host_conn`: it answers the requests that wait, gives the slot
back if it is still its own, and tidies the namespace up. `ServeEnds` may lose frames that were not
written yet. A result is processed inside the loop of `serve` (`busy`): meanwhile no frame is read
and no ping answered, which is why `Silence` may come over a healthy line. `Cut` and `Silence` over
a healthy line, changes of match and stand, joins and requests are bounded by the budget of a
`Scenario`, of which one is drawn in the initial state.

A stand is a match and a number; 0 stands for no sets. The finished mark and the officials are part
of a match's key and left out as data. Left out: the restored stand (`StateRestore`), the desk state
with its revision, tokens and rate limits, meeting points, monitors, rallies, alerts and batteries.
`TidyUp` is a choice because a listening desk page, which is not modelled, keeps the namespace.

### 6.3 Properties and run

`relay`: three host connections (names reused for ever), three sessions (one device with two and a
second device), two matches, two results and one desk command with a limit of one open place per
kind; six scenarios of cuts, changes, joins and calls; fair. The instance stops when its budget is
spent and nothing is under way, hence CHECK_DEADLOCK FALSE.

- **SlotNotStolen**: the late end of an old connection takes the host's place from nobody.
- **HostComesBack**: once no line is cut any more, the client is the host and stays it.
- **AnswersFit**: nobody is answered with what the PC did for another request, however late answers
  come and over which connection.
- **ScoreOfItsMatch**: the stand shown was counted for the match shown, whatever crosses on the way.
- **CloudShowsCourt**: in the end the cloud shows the PC's match and stand; the fingerprints that
  suppress repetitions lose nothing.
- **HolderIsTold**: in the end the tablet that holds the court knows the PC's match, also if it came
  while the host was away.
- **PlacesComeFree**: the place of a result becomes free although its page gave up and its answer
  never comes.

**Fairness**: both programs run, an end that can be noticed is noticed (pings, 15 s), a connection
that can be made is made. Nothing is assumed of tablets, pages and lines.

### 6.4 Observations

- The comment at `relay_client.rs:595` gives commands of the desk a task of their own because
  waiting in the loop would hold up the pongs; results are awaited in that loop
  (`relay_client.rs:553`). The model has it so; the host comes back in every case.
- The place of a command whose page gave up is freed only with the slot: it leaks if its connection
  was superseded (`forget_tl_access`). `PlacesComeFree` therefore speaks of results.
- The revision under which desk pages cache the desk state can repeat after the namespace was
  removed (`main.rs:4113`); the desk state is not modelled.
- A stand that the tablet has sent is replaced for a moment by the PC's echo of an older one; that
  it settles is `CloudShowsCourt`.

## 7 Live ticker (`LiveTicker`)

Two paths feed badhub's live ticker and neither waits for the other: the sync loop compares each
snapshot with what it sent last, and every point of a tablet is pushed at once by a worker of its
court. Requests are lost, time out after they have arrived, or arrive after they were given up.

### 7.1 State

| Variable | Code |
|---|---|
| `btp`, `hiccup` | BTP's matches: court, sets, ended; whether its last answer was wrongly empty |
| `known`, `session`, `clearing` | `TabletState`: the published snapshot, the stand of each court (`courts`); result tasks that have still to `clear_court` |
| `finalized` | `recently_finalized` by court |
| `call`, `off` | the calls of `MeetingpointStore` (none, active, parked) and `off_court_polls` |
| `queue`, `pending`, `busy`, `workers` | `ScorePushQueue`, one for each start of the sync, and the tasks it started |
| `phase`, `snap`, `update`, `lastPushed`, `aged` | where `run_once` stands, its snapshot, its request; `last_pushed`; no push for a minute |
| `seen`, `suspect`, `oncourtPrev` | `seen_matches`, `suspect_empty_polls`, `oncourt_prev` |
| `shown`, `late` | badhub's state; a request that was given up and still arrives |

### 7.2 Steps

`Fetch` goes from BTP's answer over the guard against empty snapshots to the finished marks,
`Publish` from `set_snapshot` to the request (nothing to send is a success, too), `PushSucceeds` and
`PushFails` are `on_success` and `on_failure`. `HandleScore` is the whole handler with the queue,
`WorkerTakes`, `WorkerSent`, `WorkerEnds` the loop of a worker. `NewEngine` is `stop_sync` and
`start_sync`, which every saving of the settings goes through: engine and queue are new, the workers
and the tablets' connections of before go on with the old queue. `GivenUp` is a request without an
answer: lost, arrived, or late (one in a behaviour).

badhub is external: a full state (`tset`) replaces everything, a stand (`tupdate_match`) is entered
at its match if it is there. A message is reduced to court, stand, end and call of its matches. The
code lists the running, the next and the latest finished ones and cuts the lists at limits
(`payload.rs:313`, `348`), which the model leaves out: called matches come first among the next ones,
so up to 15 open calls lose nothing of what the properties speak about. Left out: logo, request numbers,
halls, check-in roster, schedule and course of points (requests of their own), the move of a session
with its match to another court, and the restart of the whole program with `live-scores.json`.

### 7.3 Properties and run

`ticker`: 2 matches, 2 courts, stands 0 and 1, 2 polls to confirm; fair. One of seven kinds of day
is drawn in the initial state (`Days` in `MCLiveTicker`): points and sets typed into BTP; calls,
moves, hiccups and a failure; points with a failure and a late request; a point and a move with a
late request; results, corrections and a reopened match with points; a result with a late request;
a new start of the sync under points. On the first two there is no heartbeat: what is shown in the
end is not owed to it. The instance stops when its budget is spent, hence CHECK_DEADLOCK FALSE.

- **QueueServed**: no stand is left lying when a worker stops as it is queued, and no two pushes of a
  court run at once.
- **BaseIsThere**: what the next comparison starts from is what badhub shows, whatever failed.
- **HiccupsAreHidden**: a single wrongly empty answer empties neither the courts nor the ticker.
- **RunningIsNotFinal**: a match that runs again after its result was taken back has no mark that
  would refuse its points.
- **TickerComesRight**: in the end the ticker shows every running match on its court with the stand
  that counts, and every result (with the exception of 7.4).
- **CallsAreShown**: in the end it shows exactly the calls that are active; a call whose match left
  the court comes back.

Two matches are the least that tell a full state from a single stand (`diff` sends one stand, and
everything if two have changed); two courts the least for a move; two polls the least that confirm.
**Fairness**: a request ends (its client gives up after 15 s), a worker and the loop go on, a result
task reaches `clear_court`, time passes. Nothing is assumed of BTP, badhub, tablets or people.

### 7.4 Where the code differs from its documents, and observations

`LiveTicker_f_result.cfg` checks `ResultIsShown`: a late stand shall not replace a corrected result
in the ticker (`docs/changelog.md:1918`, `docs/tablet.md:774`, `server.rs:4459`). The worker keeps to
it; the loop does not: a finished match keeps its court in BTP, and `apply_tablet_scores`
(`state.rs:4320`) puts the court's last stand over its result until `clear_court` or the next match
takes that stand away. A result typed into BTP by hand is so shown with the tablet's last stand.

- Pushes of one court can still overtake each other (`server.rs:161` says they may not): the loop's
  and the worker's, a late one, the worker of the old queue after a restart. The loop's next full
  state puts it right; without any change that is the heartbeat.
- The heartbeat counts from the last push of the loop, and a single stand counts as one: while
  points come from BTP or through the loop, what only a full state brings (corrected results, the
  order of the queue) waits longer than the 60 seconds of `diff.rs:30`.
- The guard against empty snapshots is open after every saving of the settings; the comment at
  `sync.rs:1438` names the restart of the program only.

## 8 Proofs

Every invariant and every action property that a passing run checks is also a theorem, and so is the
refinement of `ResultLedger`. They hold for every value of the constants that satisfies the named
assumptions of the modules (`ConstantsAssumption`, `ScenarioAssumption`, `GateAssumption`,
`UploadAssumption`, `NotAmong`, `Bounds`, `SessionAssumption`, `NamesAssumption`); hypotheses
beyond these are named with their theorem.

### 8.1 Result path (`ResultPathProofs`, `ResultLedgerProofs`)

- **`TypeCorrect`**: `Spec => []TypeOK`. `TypeOK` is not inductive: `FlushHeals` rewrites
  `lastDirect[m].result`, which is a result only if somebody noted one, and the entry being written
  must be one while the flush is in a writing phase. The invariant is
  `TypeInv == TypeOK /\ WorkInv /\ BootInv`.
- **`NoPromiseIsLost`**: `MaxSwitches = 0 /\ Spec => []PromisedIsSafe`. The argument follows the
  life of a result: what BTP executed stays executed (`WrittenInv`), what is queued is on file or
  somebody is about to put it there (`CoveredInv`), what a task may answer ok for is safe already
  (`ToldInv`), file and snapshot belong to the one tournament (`SameTournament`), and the queue
  stays within its cap so that a merge leaves nothing behind (`WithinCap`). Without `MaxSwitches = 0`
  it is false: a new tournament has no results, and the old file is not loaded.
- **`NoMatchIsQueuedTwice`**: `Spec => []OneEntryPerMatch`. The file takes part in the invariant
  (`QueueInv`), because a restart merges it into the queue. `Embeds` is the lemma behind it: what an
  operation leaves of a queue are entries of the queue before, each at most once; dropping, ageing
  and cutting to the cap all embed, so none of them can double a match. That nothing is given up
  before there are more matches than places is counting (`RoomInv`): who loses its place to a new
  entry leaves as many others behind as there are places, all of matches in `kept` (`KnownInv`).
  Together they are `PlacesInv`.
- **`AcknowledgedIsKept`**: `Spec => []AcknowledgedWasKept`. `KeptInv`: what a task holds once BTP
  executed its write or it was queued, and what is noted as a direct write within its time, is in
  `kept`; `settled_ok` compares the result, not the match, with these notes.
- **`KnownResultsStay`**: `Spec => FlushKeepsKnownResults`. `InHandInv`: while the flush writes,
  the match of its entry was undecided in the snapshot of the cycle.
- **`FileFollowsQueue`**: `(MaxSwitches = 0 \/ MaxRestarts = 0) /\ Spec => []FileMirrorsQueue`. With
  one tournament it rests on the invariants of `NoPromiseIsLost` (what is loaded is the whole file),
  without a restart on `FirstStart` (there is nothing to load). After both it is false: the file of
  the tournament before is there, is not loaded, and stays until the queue changes next.
- **`LedgerIsImplemented`**: `MaxSwitches = 0 /\ Spec /\ []NoneDropped => LedgerSpec`: under
  the mapping `Status` each step of the code is a step of `ResultLedger` or leaves it unchanged.
  The refinement promises that a stored match does not become open again, so it must assume that no
  entry is dropped. **`LedgerHoldsWithRoom`** says when that is so: the cap has room for every match
  (`RoomForAll`) and no entry ages (`NothingAges`); `FreshInv` shows that the cap is then never
  exceeded, although restarts merge.

### 8.2 Court sessions (`CourtSessionProofs`)

The properties speak of connections at rest; what makes them inductive says of every frame under way
what it will do to the page or handler that reads it. First the steps are brought into a few kinds
(`StepKind`: a page acts, joins, leaves or answers; a handler claims the court, refuses, hears,
reports, loses it or ends; the sync loop), with what each does to a connection's two queues. The
invariants are then shown kind by kind. The invariant is `SessionInv`, the conjunction of:

- `LinkInv`: a page and its open connection know each other, and the court is held by a handler that
  lives and has the token.
- `AwayInv`, for **`OnlyOneTabletCounts`**: the page of a replaced connection is locked or will read
  `session_superseded`; one that was refused shows the overlay, has the answer under way, or is
  asking to take over.
- `SeenInv`, for **`HolderHasItsMatch`**: the last frame a page will read is the match that its
  handler last reported (so the dedup of `push_match` drops nothing), or the page has it already.
- `MarkInv`, `FrameInv`, `ShownInv`, for **`HolderIsShown`**: the last score and the last state under
  way from a holder that has been told its match bring its present stand (`Brought`), and the handler
  refuses neither, because the match is on the court and its mark is gone by then.
- `GrowInv`, for **`OwnStandNeverFalls`**: the author's page is not behind the shown stand, what it
  will read does not set it back (`HarmlessDown`), and the stands under way from it lie between the
  two in rising order (`InOrder`).

The proofs corrected two properties that TLC had accepted on its instances. `HolderStandIsShown` also
spoke of the mirrored stand of a locked page: with four WebSockets and two changes of the court, a
page can regain its court by an identify under way when it was locked; it then sends scores and
mirrors nothing. `OwnStandOnlyGrows` named an author too early: a page with an older stand or an
unread frame under way is set back by what was sent before. Both are behaviours of the code (the
first is listed as an observation in 3.4 and as a hazard), and the properties now say what it keeps.

### 8.3 Write gate and upload (`WriteGateProofs`, `TpUploadProofs`)

- **`GapIsGuaranteed`**: `GateSpec => []CopyMeetsNoWrite`; the exclusion is inductive with the typing
  of `write`. **`UploadKeepsGate`**: `TpUpload` implements `WriteGate`, every step being a step of the
  gate or a stutter; hence **`NoWriteDuringCopy`**.
- **`OneUploadAtATime`**, **`CopyIsComplete`**: `LaeuftMatches` and `CopyHasAnsweredWrites`. The
  latter needs that a job between its readings has the gate, so that no write is answered, and that
  its last reading holds every answered write (`ReadingInv`); the former is `FlagInv`: without a
  crossing nobody runs while the safety net of another has still to fall, so its second clear takes
  the flag from nobody. Lemma `OneJob` reduces the steps of a job to what becomes of its record.
- **`NoFileIsMissed`**: `Spec => []NotedIsAtBadhub`. `NoteInv`: a note, and a job that ends as sent,
  carry a configuration under which badhub has their bytes or later ones, and nobody is ahead of the
  file on disk. With an upload at a time none goes back to older bytes; hence until a crossing.
- **`UploadIsTyped`**: `IsFiniteSet(Write) /\ Spec => []TypeOK`. The count of changes in BTP is
  bounded by the writes executed (`CountInv`), the three readings by `StageInv`. That `line` stays a
  sequence of waiters could not be shown when a waiter left it by `SelectSeq`, whose result is
  defined by recursion over the data; it now leaves from its place (`Places`).

### 8.4 Court assignment, relay, live ticker

- **`TypeCorrect`**, **`ClaimsStayExclusive`**, **`SidesStayInAgreement`** (`CourtAssignProofs`):
  `TypeOK` (with: the loop has picks exactly from its look to the end of their write),
  `ClaimsExclusive` and `SidesAgree`. The first two are inductive together (with `PicksDistinct`).
  `SidesAgree` is not. Its invariant `CalmInv`, for quiet days, says what each step may still rely on
  until the next: what a claim means between its making and the snapshot that confirms it
  (`ClaimsMeant`: a request on its way, or an assignment BTP already has), that a match without a
  claim is where both snapshots say (`Shown`), that a claimed court is free for its match alone
  (`ClaimedFree`); what a desk that has looked and not yet claimed knows of its match (`Looking`),
  what the picks know before their claims and after them (`PickedMeant`, `PicksMeant`), and what open
  requests and results still rely on (`Assigning`, `Finishing`). A quiet day after a step was one
  before (`QuietBefore`), so `Claims` may use that nobody has overtaken it. The invariant was found
  with TLC, checked on four matches, two courts and three requests, and on three matches and five
  requests, and then proved step by step, one lemma per part of a cycle (`LooksCalm`, `ClaimsCalm`,
  `PicksClaimed`, `AutoEndsCalm`, `PublishesCalm`, `ConfirmsCalm`); `EmptyIsFree` is the lemma that
  makes the stale snapshot harmless.
- **`TypeCorrect`**, **`SlotIsNotStolen`**, **`ScoreFitsMatch`**, **`AnswersFitTheirCalls`**
  (`RelayProofs`). The last needs the invariant `AnswersInv`: the numbers of open requests differ and
  lie below the next one (`NumbersApart`), every answer on its way is for an executed request or for
  none that waits (`AnswersTrue`), and without a host nobody waits.
- **`TypeCorrect`**, **`StandsAreServed`**, **`RunningMatchIsNotFinal`**, **`BaseStaysThere`**,
  **`HiccupsStayHidden`** (`LiveTickerProofs`). `StandsAreServed`: `busy` holds exactly the courts
  with a worker (`QueueInv`). `RunningMatchIsNotFinal`: the courts of a snapshot about to be
  published have no mark (`MarksInv`). `BaseStaysThere`: workers send single stands only, which
  change no court and no call, and the loop sends either all it will compare with or one stand of it
  to a badhub that has the rest (`BaseInv`). `HiccupsStayHidden`, for at least two polls to confirm:
  one empty answer at most is suspected, and an engine that has taken an empty state over shows
  nothing (`HiddenInv`, which rests on `BaseInv`).

### 8.5 What stays with TLC

The liveness properties, because fairness and ENABLED are beyond the prover: `StoredGetsScored`,
`TakenOverIsTold`, `LastFileArrives`, `AutoKeepsGoing`, `UmpireArrives`, `HostComesBack`,
`CloudShowsCourt`, `HolderIsTold`, `PlacesComeFree`, `TickerComesRight`, `CallsAreShown`. And the
three properties expected to be violated, of course.

## 9 Plan

In this order; each with its properties and proofs:

1. Proofs: an abstract `CourtSeat` (one seat, passed on) and that `CourtSession` implements it; what
   `PromisedIsSafe` can still say across a change of the tournament.
2. The relay's desk state with its revision, and the restored stand.
3. Officials' rotation and queue order across snapshots; timeline sequence numbers.

## 10 Not modelled

Pure I/O and views (BTP parsing, print, update installer, announcements, monitors' layout, kiosk
app, desktop user interface), and until the plan reaches them: queue order, the rotation of
officials, the table of operation numbers, check-in roster and schedule sent to badhub, the relay's
desk state, timeline.
Reasons per part are in `PROJECT.json`. A good half of the repository is texts, tests, styles and
layout; of the rest these modules follow the parts in which several tasks or machines share state.
