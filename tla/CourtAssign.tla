----------------------------- MODULE CourtAssign -----------------------------
(***************************************************************************)
(* Who plays on which court: the commands of the desk pages (tl.rs), the   *)
(* buttons of the desktop (commands.rs), results that free their court,    *)
(* the automatic assignment and the officials' write of the sync loop      *)
(* (sync.rs), and the claims of courts that are to keep them apart         *)
(* (state.rs).                                                             *)
(*                                                                         *)
(* BTP holds the assignment twice, at the court and at the match.  All     *)
(* writers decide from a snapshot that may be older than the writes under  *)
(* way.  A claim (pendingAssign) covers the time until a snapshot shows    *)
(* the assignment; it lapses after 15 s, while a write may take 30 s.      *)
(*                                                                         *)
(* Handlers and loop run on the threads of one runtime, so an action ends  *)
(* where a lock is released: desk and automatic assignment first look and  *)
(* claim later, and the new snapshot is published before the claims it     *)
(* confirms are given back.                                                *)
(***************************************************************************)
EXTENDS Naturals, FiniteSets

CONSTANTS
    Match,
    Court,
    Desk,       \* requests of the desk that may be under way at a time
    NoMatch,
    NoCourt,
    Umpired,    \* matches that get an umpire from BTS Light
    MaxCalm,    \* bound: requests of the desk on a calm day until one crosses
    MaxRough    \* bound: requests of the desk otherwise

ASSUME NotAmong == NoMatch \notin Match /\ NoCourt \notin Court
ASSUME Bounds == /\ Umpired \subseteq Match
                 /\ MaxCalm \in Nat /\ MaxRough \in Nat

VARIABLES
    \* BTP
    matchCourt,     \* Match.CourtID
    courtMatch,     \* Court.MatchID
    finished,       \* matches with a winner
    umpires,        \* matches whose Official1ID is set
    \* shared state of the host
    snapshot,       \* the last published snapshot
    pendingAssign,  \* claims of courts, by court
    assigned,       \* matches with an umpire assigned here, not yet in BTP
    \* the sync loop
    phase,
    fetched,        \* the snapshot of the running cycle
    pendingAuto,    \* own assignments BTP has not shown yet, by court
    picks,          \* the assignments of this cycle
    officialsWritten,
    \* requests of the desk
    task,
    ops,
    \* a calm day: nobody frees a court, asks while another request about the
    \* match is open or assigns umpires here, and BTP answers in time
    calm,
    crossed         \* history: on it, a desk was overtaken before its claim

btpVars == <<matchCourt, courtMatch, finished, umpires>>
loopVars == <<phase, fetched, pendingAuto, picks, officialsWritten>>
dayVars == <<calm, crossed>>
vars == <<btpVars, snapshot, pendingAssign, assigned, loopVars, task, ops,
          dayVars>>

\* A calm day on which look and claim of every desk belonged together.
Quiet == calm /\ ~crossed

-----------------------------------------------------------------------------
(* Snapshots and requests to BTP. *)

View == [court |-> matchCourt, finished |-> finished, umpires |-> umpires]

Snapshot == [court : [Match -> Court \cup {NoCourt}],
             finished : SUBSET Match, umpires : SUBSET Match]

\* court_occupied_by, occupied_courts: by the match side, and a finished
\* match frees its court even though BTP keeps its CourtID.
Occupant(snap, c) == {m \in Match \ snap.finished : snap.court[m] = c}

\* Scheduled: no winner and not on a court.
Ready(snap) == {m \in Match \ snap.finished : snap.court[m] = NoCourt}

-----------------------------------------------------------------------------
(* Claims. *)

Claimed == {c \in Court : pendingAssign[c] # NoMatch}
ClaimedMatches == {pendingAssign[c] : c \in Claimed}

\* Mutant: only the court is looked at, not where else the match is claimed.
MayReserveCourt(claims, c, m) == claims[c] \in {NoMatch, m}

\* try_reserve_court
MayReserve(claims, c, m) ==
    /\ claims[c] \in {NoMatch, m}
    /\ \A other \in Court \ {c} : claims[other] # m

\* release_court_claim, whoever holds it
Release(claims, c) == [d \in Court |-> IF d = c THEN NoMatch ELSE claims[d]]

\* drop_stale_reservations: 15 s have passed since a claim was made.
ClaimLapses(c) ==
    /\ ~Quiet /\ c \in Claimed
    /\ pendingAssign' = Release(pendingAssign, c)
    /\ UNCHANGED <<btpVars, snapshot, assigned, loopVars, task, ops, dayVars>>

-----------------------------------------------------------------------------
(* Requests of the desk. *)

\* A request to BTP gives a match the court "to" and frees the court "from";
\* "ends": it is a result; "called": the match's umpire comes along
\* (officials_for_write); "claimed": the request holds a claim of "to".
Task == [at : {"idle", "looked", "writing", "executed", "late"},
         match : Match \cup {NoMatch},
         from : Court \cup {NoCourt}, to : Court \cup {NoCourt},
         ends : BOOLEAN, claimed : BOOLEAN, called : SUBSET Match]

IdleTask == [at |-> "idle", match |-> NoMatch, from |-> NoCourt,
             to |-> NoCourt, ends |-> FALSE, claimed |-> FALSE, called |-> {}]

Open(d) == task[d].at # "idle"

\* On a calm day nobody asks about a match that is claimed, over or part of
\* another request.
Undisputed(m) ==
    calm => /\ m \notin ClaimedMatches \cup finished
            /\ \A d \in Desk : Open(d) => task[d].match # m

Asks(d, at, m, from, to, ends) ==
    task' = [task EXCEPT ![d] =
        [at |-> at, match |-> m, from |-> from, to |-> to, ends |-> ends,
         claimed |-> at = "looked" /\ to # NoCourt,
         called |-> IF to = NoCourt THEN {} ELSE {m} \cap assigned]]

\* plan_court_action and check_assign on a copy of the snapshot.  What
\* reserved_courts shows is asked once more by the claim; a locked court, a
\* hall rule or a player on another court only refuse more.
AssignCourt(d) ==
    \E m \in Ready(snapshot), c \in Court :
        /\ Undisputed(m)
        /\ Occupant(snapshot, c) = {}
        /\ Asks(d, "looked", m, NoCourt, c, FALSE)

\* check_free on the source, check_move_target on the target.
MoveMatch(d) ==
    \E m \in Match \ snapshot.finished, to \in Court :
        /\ Undisputed(m)
        /\ snapshot.court[m] \in Court \ {to}
        /\ Occupant(snapshot, to) = {}
        /\ Asks(d, "looked", m, snapshot.court[m], to, FALSE)

\* The match a court is to be freed of, by the snapshot.
Leaves(c) == IF Occupant(snapshot, c) = {} THEN {NoMatch}
             ELSE Occupant(snapshot, c)

\* check_free: the court shows what the desk expects, a match or nothing.
FreeCourt(d) ==
    /\ ~calm
    /\ \E c \in Court : \E m \in Leaves(c) :
          Asks(d, "looked", m, c, NoCourt, FALSE)

\* assign_court and free_court of the desktop: no claims, no checks.
DesktopAssigns(d) ==
    /\ ~calm
    /\ \E m \in Match, c \in Court : Asks(d, "writing", m, NoCourt, c, FALSE)

DesktopFrees(d) ==
    /\ ~calm
    /\ \E c \in Court : \E m \in Leaves(c) :
          Asks(d, "writing", m, c, NoCourt, FALSE)

\* A result frees the court its match has in the snapshot (free_court_id).
EnterResult(d) ==
    \E m \in Match \ snapshot.finished :
        /\ Undisputed(m)
        /\ snapshot.court[m] # NoCourt
        /\ Asks(d, "writing", m, snapshot.court[m], NoCourt, TRUE)

\* Requests have no names: the next one takes any free place.
FreePlace == CHOOSE d \in Desk : ~Open(d)

Decides(d) ==
    /\ ~Open(d) /\ d = FreePlace
    /\ ops < IF Quiet THEN MaxCalm ELSE MaxRough
    /\ ops' = ops + 1
    /\ \/ AssignCourt(d) \/ MoveMatch(d) \/ FreeCourt(d)
       \/ DesktopAssigns(d) \/ DesktopFrees(d) \/ EnterResult(d)
    /\ UNCHANGED <<btpVars, snapshot, pendingAssign, assigned, loopVars, dayVars>>

\* Since the request looked, its match was claimed or has moved, or its court
\* was given away, by a snapshot or by a loop that is about to claim.
Crosses(t) ==
    /\ t.to \in Court
    /\ \/ t.match \in ClaimedMatches
       \/ snapshot.court[t.match] # t.from
       \/ Occupant(snapshot, t.to) # {}
       \/ phase = "picked" /\ (picks[t.to] # NoMatch \/ \E c \in Court : picks[c] = t.match)

\* The claim of the court a request frees is given back, whoever holds it, and
\* that of the other one is made; then the request goes out.
Claims(d) ==
    LET t == task[d]
        claims == Release(pendingAssign, t.from)
    IN /\ t.at = "looked"
       /\ \/ t.to = NoCourt /\ pendingAssign' = claims
          \/ /\ t.to \in Court /\ MayReserve(claims, t.to, t.match)
             /\ pendingAssign' = [claims EXCEPT ![t.to] = t.match]
       /\ crossed' = (crossed \/ (calm /\ Crosses(t)))
       /\ task' = [task EXCEPT ![d].at = "writing"]
       /\ UNCHANGED <<btpVars, snapshot, assigned, loopVars, ops, calm>>

\* Refused by what reserved_courts shows, or by the claim itself: then that of
\* the source is given back already.
Refused(d) ==
    LET t == task[d]
        claims == Release(pendingAssign, t.from)
    IN /\ t.at = "looked" /\ t.to \in Court
       /\ ~MayReserve(claims, t.to, t.match)
       /\ pendingAssign' \in {pendingAssign, claims}
       /\ task' = [task EXCEPT ![d] = IdleTask]
       /\ UNCHANGED <<btpVars, snapshot, assigned, loopVars, ops, dayVars>>

\* BTP sets both sides in one go.
BtpExecutes(t) ==
    /\ courtMatch' = [c \in Court |-> IF c = t.to THEN t.match
                                      ELSE IF c = t.from THEN NoMatch
                                      ELSE courtMatch[c]]
    /\ matchCourt' = [m \in Match |-> IF m = t.match /\ ~t.ends THEN t.to
                                      ELSE matchCourt[m]]
    /\ finished' = finished \cup {m \in {t.match} : t.ends}
    /\ umpires' = umpires \cup t.called

Executes(d) ==
    /\ task[d].at = "writing"
    /\ BtpExecutes(task[d])
    /\ task' = [task EXCEPT ![d].at = "executed"]
    /\ UNCHANGED <<snapshot, pendingAssign, assigned, loopVars, ops, dayVars>>

Ends(d) == task' = [task EXCEPT ![d] = IdleTask]

\* Ok: the claims stay until a snapshot shows the assignment.  After a result
\* clear_court gives back the claim of the court.
Answered(d) ==
    /\ task[d].at = "executed"
    /\ pendingAssign' = IF task[d].ends
                        THEN Release(pendingAssign, task[d].from)
                        ELSE pendingAssign
    /\ Ends(d)
    /\ UNCHANGED <<btpVars, snapshot, assigned, loopVars, ops, dayVars>>

\* Refused, or executed and the answer lost, or timed out, and BTP may still
\* execute it: the claims go back.
Fails(d) ==
    /\ ~calm /\ task[d].at \in {"writing", "executed"}
    /\ pendingAssign' = IF task[d].claimed
                        THEN Release(pendingAssign, task[d].to)
                        ELSE pendingAssign
    /\ \/ Ends(d)
       \/ /\ task[d].at = "writing"
          /\ task' = [task EXCEPT ![d].at = "late"]
    /\ UNCHANGED <<btpVars, snapshot, assigned, loopVars, ops, dayVars>>

ExecutesLate(d) ==
    /\ task[d].at = "late"
    /\ BtpExecutes(task[d])
    /\ Ends(d)
    /\ UNCHANGED <<snapshot, pendingAssign, assigned, loopVars, ops, dayVars>>

\* The connection of the device ends and its handler is dropped: the claims
\* stay, nobody gives them back.
Dropped(d) ==
    /\ ~calm /\ task[d].at \in {"writing", "executed"}
    /\ Ends(d)
    /\ UNCHANGED <<btpVars, snapshot, pendingAssign, assigned, loopVars, ops,
                   dayVars>>

DeskStep(d) ==
    \/ Decides(d) \/ Claims(d) \/ Refused(d) \/ Executes(d) \/ Answered(d)
    \/ Fails(d) \/ ExecutesLate(d) \/ Dropped(d)

-----------------------------------------------------------------------------
(* The sync loop. *)

Fetches ==
    /\ phase = "idle"
    /\ calm => \A d \in Desk : task[d].at = "executed" => ~task[d].ends
    /\ phase' = "assign" /\ fetched' = View
    /\ UNCHANGED <<btpVars, snapshot, pendingAssign, assigned, pendingAuto,
                   picks, officialsWritten, task, ops, dayVars>>

NoPicks == [c \in Court |-> NoMatch]

\* auto_assign picks from the top of the queue for every free court, as long
\* as there are matches.
Picks(courts, matches) ==
    {f \in [Court -> matches \cup {NoMatch}] :
        /\ \A c \in Court \ courts : f[c] = NoMatch
        /\ \A c, d \in Court : f[c] = f[d] /\ f[c] # NoMatch => c = d
        /\ (\E c \in courts : f[c] = NoMatch)
               => \A m \in matches : \E c \in courts : f[c] = m}

Picked(f) == {f[c] : c \in Court} \ {NoMatch}

UmpiredHere == IF calm THEN {} ELSE Umpired

\* officials_entries: umpires assigned here that BTP does not show yet.
OfficialsEntries == (assigned \ fetched.umpires) \ officialsWritten

\* Courts and matches of the automatic assignment: what is claimed, or was
\* assigned by a cycle before and is not shown yet, is left alone.
StillPending == [c \in Court |-> IF Occupant(fetched, c) = {}
                                 THEN pendingAuto[c] ELSE NoMatch]

\* Mutant: only its own assignments are looked at, not the claims.
CourtsNotPending(pending) ==
    {c \in Court : Occupant(fetched, c) = {} /\ pending[c] = NoMatch}

FreeCourts(pending) ==
    {c \in Court : /\ Occupant(fetched, c) = {}
                   /\ pending[c] = NoMatch
                   /\ pendingAssign[c] = NoMatch}

Waiting(pending) ==
    Ready(fetched) \ ({pending[c] : c \in Court} \cup ClaimedMatches)

\* auto_assign reads the claims and picks.
AutoLooks ==
    LET pending == StillPending
    IN /\ phase = "assign"
       /\ picks' \in Picks(FreeCourts(pending), Waiting(pending))
       /\ pendingAuto' = [c \in Court |->
              IF picks'[c] # NoMatch THEN picks'[c] ELSE pending[c]]
       /\ phase' = IF picks' = NoPicks THEN "publish" ELSE "picked"
       /\ UNCHANGED <<btpVars, snapshot, pendingAssign, assigned, fetched,
                      officialsWritten, task, ops, dayVars>>

\* Its own claims, court by court; what try_reserve_court answers is not
\* looked at.  A picked match adopts its provisional umpire
\* (uebernimm_vorab_sr).
AutoClaims ==
    /\ phase = "picked"
    /\ pendingAssign' = [c \in Court |->
           IF picks[c] # NoMatch /\ MayReserve(pendingAssign, c, picks[c])
           THEN picks[c] ELSE pendingAssign[c]]
    /\ assigned' = assigned \cup ((Picked(picks) \cap UmpiredHere)
                                      \ fetched.umpires)
    /\ phase' = "writing"
    /\ UNCHANGED <<btpVars, snapshot, fetched, pendingAuto, picks,
                   officialsWritten, task, ops, dayVars>>

\* Mutant: an own assignment is forgotten only when a snapshot shows it.
PendingStays(c) == FALSE /\ UNCHANGED vars

\* PENDING_AUTO_TTL: 30 s have passed since an own assignment.
PendingLapses(c) ==
    /\ ~Quiet /\ pendingAuto[c] # NoMatch
    /\ pendingAuto' = [pendingAuto EXCEPT ![c] = NoMatch]
    /\ UNCHANGED <<btpVars, snapshot, pendingAssign, assigned, phase, fetched,
                   picks, officialsWritten, task, ops, dayVars>>

AutoExecutes ==
    /\ phase = "writing"
    /\ courtMatch' = [c \in Court |-> IF picks[c] # NoMatch THEN picks[c]
                                      ELSE courtMatch[c]]
    /\ matchCourt' = [m \in Match |->
          IF m \in Picked(picks) THEN CHOOSE c \in Court : picks[c] = m
          ELSE matchCourt[m]]
    /\ umpires' = umpires \cup (Picked(picks) \cap assigned)
    /\ phase' = "written"
    /\ UNCHANGED <<finished, snapshot, pendingAssign, assigned, fetched,
                   pendingAuto, picks, officialsWritten, task, ops, dayVars>>

\* Mutant: the picks are kept.
AutoEndsOnly ==
    /\ phase' = "publish"
    /\ UNCHANGED <<btpVars, snapshot, pendingAssign, assigned, fetched,
                   pendingAuto, picks, officialsWritten, task, ops, dayVars>>

AutoEnds ==
    /\ phase' = "publish"
    /\ picks' = NoPicks
    /\ UNCHANGED <<btpVars, snapshot, pendingAssign, assigned, fetched,
                   pendingAuto, officialsWritten, task, ops, dayVars>>

AutoAnswered ==
    /\ phase = "written"
    /\ AutoEnds

\* Only logged: the claims and pendingAuto stay.
AutoFails ==
    /\ ~calm /\ phase \in {"writing", "written"}
    /\ AutoEnds

\* set_snapshot, and track_officials: a match new on a court gets an umpire.
Publishes ==
    LET newOnCourt == {m \in UmpiredHere \ (fetched.finished \cup fetched.umpires) :
                         fetched.court[m] \notin {NoCourt, snapshot.court[m]}}
    IN /\ phase = "publish"
       /\ snapshot' = fetched
       /\ assigned' = (assigned \cup newOnCourt) \ fetched.umpires
       /\ phase' = "confirm"
       /\ UNCHANGED <<btpVars, pendingAssign, fetched, pendingAuto, picks,
                      officialsWritten, task, ops, dayVars>>

\* release_confirmed_reservations: what the snapshot shows needs no claim.
Confirms ==
    /\ phase = "confirm"
    /\ pendingAssign' = [c \in Court |->
           IF pendingAssign[c] # NoMatch /\ snapshot.court[pendingAssign[c]] = c
           THEN NoMatch ELSE pendingAssign[c]]
    /\ phase' = IF OfficialsEntries = {} THEN "idle" ELSE "officials"
    /\ UNCHANGED <<btpVars, snapshot, assigned, fetched, pendingAuto, picks,
                   officialsWritten, task, ops, dayVars>>

\* write_officials_to_btp: every entry repeats the court of the snapshot the
\* cycle began with.
OfficialsExecute ==
    /\ phase = "officials"
    /\ matchCourt' = [m \in Match |-> IF m \in OfficialsEntries
                                      THEN fetched.court[m] ELSE matchCourt[m]]
    /\ umpires' = umpires \cup OfficialsEntries
    /\ phase' = "officialsDone"
    /\ UNCHANGED <<courtMatch, finished, snapshot, pendingAssign, assigned,
                   fetched, pendingAuto, picks, officialsWritten, task, ops,
                   dayVars>>

OfficialsAnswered ==
    /\ phase = "officialsDone"
    /\ officialsWritten' = officialsWritten \cup OfficialsEntries
    /\ phase' = "idle"
    /\ UNCHANGED <<btpVars, snapshot, pendingAssign, assigned, fetched,
                   pendingAuto, picks, task, ops, dayVars>>

\* Mutant: a failed write counts as written, too.
OfficialsFailForGood ==
    /\ phase \in {"officials", "officialsDone"}
    /\ officialsWritten' = officialsWritten \cup OfficialsEntries
    /\ phase' = "idle"
    /\ UNCHANGED <<btpVars, snapshot, pendingAssign, assigned, fetched,
                   pendingAuto, picks, task, ops, dayVars>>

\* Only logged, and not remembered: the next cycle writes again.
OfficialsFail ==
    /\ phase \in {"officials", "officialsDone"}
    /\ phase' = "idle"
    /\ UNCHANGED <<btpVars, snapshot, pendingAssign, assigned, fetched,
                   pendingAuto, picks, officialsWritten, task, ops, dayVars>>

LoopStep ==
    \/ Fetches \/ AutoLooks \/ AutoClaims \/ AutoExecutes \/ AutoAnswered
    \/ AutoFails \/ Publishes \/ Confirms
    \/ OfficialsExecute \/ OfficialsAnswered \/ OfficialsFail

-----------------------------------------------------------------------------

\* A cycle has just ended; BTP may already have matches on courts.
Init ==
    /\ matchCourt \in [Match -> Court \cup {NoCourt}]
    /\ \A m, n \in Match :
          matchCourt[m] = matchCourt[n] /\ matchCourt[m] # NoCourt => m = n
    /\ courtMatch = [c \in Court |->
          IF \E m \in Match : matchCourt[m] = c
          THEN CHOOSE m \in Match : matchCourt[m] = c ELSE NoMatch]
    /\ finished = {} /\ umpires = {}
    /\ snapshot = View /\ fetched = View
    /\ pendingAssign = NoPicks /\ pendingAuto = NoPicks /\ picks = NoPicks
    /\ assigned = {} /\ officialsWritten = {}
    /\ phase = "idle"
    /\ task = [d \in Desk |-> IdleTask]
    /\ ops = 0
    /\ calm \in BOOLEAN /\ crossed = FALSE

Next ==
    \/ LoopStep
    \/ \E d \in Desk : DeskStep(d)
    \/ \E c \in Court : ClaimLapses(c) \/ PendingLapses(c)

Spec == Init /\ [][Next]_vars

-----------------------------------------------------------------------------

\* Types; a cycle has picks exactly until its write is over.
TypeOK ==
    /\ matchCourt \in [Match -> Court \cup {NoCourt}]
    /\ courtMatch \in [Court -> Match \cup {NoMatch}]
    /\ finished \subseteq Match /\ umpires \subseteq Match
    /\ snapshot \in Snapshot /\ fetched \in Snapshot
    /\ pendingAssign \in [Court -> Match \cup {NoMatch}]
    /\ pendingAuto \in [Court -> Match \cup {NoMatch}]
    /\ picks \in [Court -> Match \cup {NoMatch}]
    /\ assigned \subseteq Match /\ officialsWritten \subseteq Match
    /\ task \in [Desk -> Task]
    /\ phase \in {"idle", "assign", "picked", "writing", "written",
                  "publish", "confirm", "officials", "officialsDone"}
    /\ phase \in {"picked", "writing", "written"} <=> picks # NoPicks
    /\ ops \in Nat /\ calm \in BOOLEAN /\ crossed \in BOOLEAN

\* try_reserve_court: no match is ever claimed for two courts.
ClaimsExclusive ==
    \A c, d \in Court :
        pendingAssign[c] = pendingAssign[d] /\ pendingAssign[c] # NoMatch
            => c = d

\* As long as only assignments, moves and results are asked for, BTP answers in
\* time and no desk was overtaken between its look and its claim, the two sides
\* of BTP agree: no court has two matches, no match two courts, none is pushed
\* out, by whatever snapshots desk and automatic assignment decide from.
SidesAgree ==
    Quiet => \A m \in Match \ finished, c \in Court :
                matchCourt[m] = c <=> courtMatch[c] = m

-----------------------------------------------------------------------------
(* Liveness: the loop goes on, and time passes. *)

Fairness ==
    /\ WF_vars(LoopStep)
    /\ \A c \in Court : WF_vars(ClaimLapses(c)) /\ WF_vars(PendingLapses(c))
    /\ \A d \in Desk : WF_vars(Claims(d) \/ Refused(d) \/ Executes(d) \/ Answered(d)
                               \/ Fails(d) \/ ExecutesLate(d))

FairSpec == Spec /\ Fairness

FreeCourtWaits ==
    /\ \E c \in Court : Occupant(View, c) = {}
    /\ Ready(View) # {}

\* No court stays free while a match is ready, unless the writes of the
\* automatic assignment fail again and again.
AutoKeepsGoing ==
    []<>(~FreeCourtWaits) \/ []<><<AutoFails>>_vars

\* An umpire assigned here gets to BTP, unless the officials' writes fail
\* again and again: a failed write is repeated, an answered one was executed.
UmpireArrives ==
    \/ \A m \in Umpired : m \in assigned ~> m \in umpires
    \/ []<><<OfficialsFail>>_vars

-----------------------------------------------------------------------------
(* What the code does not keep: see the README. *)

\* "damit dieser eigenstaendige Write nie eine gerade erst angekommene
\* Feldzuweisung ueberschreiben kann" (server.rs:3701): the court an entry
\* repeats is that of the cycle's snapshot, older than its own assignments.
OfficialsKeepCourts == [][OfficialsExecute => UNCHANGED matchCourt]_vars

\* "Der Schutz muss in BEIDE Richtungen wirken, sonst ist er keiner"
\* (sync.rs:2260), and "Wer den Anspruch nicht bekommt, schreibt gar nicht
\* erst" (tl.rs:1835): the automatic assignment writes without its claim, too.
AutoWritesItsClaims ==
    [][AutoExecutes => \A c \in Court :
           picks[c] # NoMatch => pendingAssign[c] \in {picks[c], NoMatch}]_vars
=============================================================================
