---------------------------- MODULE CourtSession ----------------------------
(***************************************************************************)
(* One court, the tablets that may count on it, and the host that lets one *)
(* of them in at a time.                                                   *)
(*                                                                         *)
(*   page     the tablet page of a device: its match and stand, which the  *)
(*            browser's localStorage keeps over a reload, and what it was  *)
(*            told about the court (locked, occupied, finalized)           *)
(*   conn     a WebSocket with its handler on the host (handle_socket):    *)
(*            frames on their way in both directions and the handler's     *)
(*            locals.  A connection whose page is gone may live on at the  *)
(*            host and still hold frames (state "cut")                     *)
(*   host     TabletState: the holder, the mirrored stand, the match BTP   *)
(*            has on the court and the mark of a match just finished       *)
(*                                                                         *)
(* A stand is a match and a number of points; what the page keeps with it  *)
(* (sides, sets, serve, history) moves along and is left out, and so is    *)
(* undo: a stand of one page only grows.  Unset is a match whose sides are *)
(* not chosen yet.  localStorage always equals the page's stand (every     *)
(* change is followed by persistState), so it has no variable of its own.  *)
(* The court is the one of the page's URL; its devices all have an id.     *)
(* The rev rule of reconnect_legacy_rev (off by default) is left out.      *)
(***************************************************************************)
EXTENDS Integers, Sequences, FiniteSets

CONSTANTS
    Device,      \* tablets that open the page of this court
    Match,       \* matches BTP may put on the court
    NoMatch,
    MaxPoints,   \* a stand of MaxPoints is a finished match
    MaxConns,    \* bound: WebSockets opened
    MaxCut,      \* bound: WebSockets whose page is gone, at a time
    MaxQueue,    \* bound: frames of a page under way when it acts
    MaxPolls,    \* bound: changes of the court in BTP
    MaxResults,  \* bound: results posted by tablets
    MaxEvents,   \* bound: changes of the court and results together
    Scenario     \* what was spent of the bounds

ASSUME SessionAssumption ==
    /\ NoMatch \notin Match
    /\ MaxPoints \in Nat \ {0}
    /\ MaxConns \in Nat /\ MaxCut \in Nat /\ MaxQueue \in Nat
    /\ MaxPolls \in Nat /\ MaxResults \in Nat /\ MaxEvents \in Nat
    /\ Scenario \subseteq [conns : 0 .. MaxConns, polls : 0 .. MaxPolls,
                          results : 0 .. MaxResults]

VARIABLES
    field,    \* match_for_court: the match on the court in the snapshot
    marker,   \* recently_finalized: the match just finished in BTP
    polled,   \* sync loop: the court in the poll at hand, or Idle
    active,   \* TabletState.active: the connection holding the court, or 0
    scored,   \* scored_since_claim
    score,    \* courts[court]: the stand shown on monitors and live ticker
    mirror,   \* court_state: the stand kept for the next tablet
    conns,    \* the WebSockets
    pages,    \* the tablet pages
    writing,  \* process_result tasks that are writing to BTP
    inBtp,    \* BTP: matches whose result a tablet has brought in
    author,   \* history: the device that set score, see OwnStandOnlyGrows
    polls, results   \* counters for the bounds

hostVars == <<active, scored, score, mirror>>
btpVars  == <<field, marker, polled, polls>>
postVars == <<writing, inBtp, results>>
vars == <<hostVars, btpVars, postVars, conns, pages, author>>

-----------------------------------------------------------------------------
(* Values. *)

Idle   == "idle"
Nobody == "nobody"
Unset  == -1
Points == Unset .. MaxPoints
Conn   == 1 .. MaxConns

ASSUME NamesAssumption == Idle \notin Match \cup {NoMatch} /\ Nobody \notin Device

StandType == [match : Match \cup {NoMatch}, points : Points]
NoStand   == [match |-> NoMatch, points |-> Unset]

Key     == [match : Match \cup {NoMatch}, finalized : BOOLEAN]
NoKey   == [match |-> NoMatch, finalized |-> FALSE]   \* None in the code
NotSent == [match |-> NoMatch, finalized |-> TRUE]    \* Some((i64::MIN, ..))

UpFrame   == [type : {"identify", "take_over", "score_update", "state_sync"},
              stand : StandType]
DownFrame == [type : {"state_restore", "match_assigned", "match_cleared",
                      "court_occupied", "session_superseded"},
              stand : StandType, flag : BOOLEAN]

ToHost(type, stand)       == [type |-> type, stand |-> stand]
ToPage(type, stand, flag) == [type |-> type, stand |-> stand, flag |-> flag]

ConnType ==
    [dev : Device \cup {Nobody}, state : {"new", "open", "cut", "closed"},
     court : BOOLEAN, token : BOOLEAN, superseded : BOOLEAN, last : Key,
     up : Seq(UpFrame), down : Seq(DownFrame)]

New == [dev |-> Nobody, state |-> "new", court |-> FALSE, token |-> FALSE,
        superseded |-> FALSE, last |-> NotSent, up |-> <<>>, down |-> <<>>]
Closed == [New EXCEPT !.state = "closed"]

PageType ==
    [conn : 0 .. MaxConns, match : Match \cup {NoMatch}, points : Points,
     locked : BOOLEAN, occupied : BOOLEAN, finalized : BOOLEAN,
     retry : BOOLEAN, asked : Match \cup {NoMatch}]

FreshPage == [conn |-> 0, match |-> NoMatch, points |-> Unset,
              locked |-> FALSE, occupied |-> FALSE, finalized |-> FALSE,
              retry |-> FALSE, asked |-> NoMatch]

Stand(p) == [match |-> p.match, points |-> p.points]

TypeOK ==
    /\ field \in Match \cup {NoMatch}
    /\ marker \in Match \cup {NoMatch}
    /\ polled \in Match \cup {NoMatch, Idle}
    /\ active \in 0 .. MaxConns
    /\ scored \in BOOLEAN
    /\ score \in StandType /\ mirror \in StandType
    /\ conns \in [Conn -> ConnType]
    /\ pages \in [Device -> PageType]
    /\ writing \subseteq Match /\ inBtp \subseteq Match
    /\ author \in Device \cup {Nobody}
    /\ polls \in 0 .. MaxPolls /\ results \in 0 .. MaxResults

Init ==
    /\ \E s \in Scenario :
          /\ polls = s.polls /\ results = s.results
          /\ conns = [c \in Conn |-> IF c > s.conns THEN New ELSE Closed]
    /\ field \in Match \cup {NoMatch}
    /\ marker = NoMatch /\ polled = Idle
    /\ active = 0 /\ scored = FALSE
    /\ score = NoStand /\ mirror = NoStand
    /\ pages = [d \in Device |-> FreshPage]
    /\ writing = {} /\ inBtp = {}
    /\ author = Nobody

-----------------------------------------------------------------------------
(* The page.  What it sends about its stand, given its state p. *)

\* Says nothing without a match or sides, nor for a finalized match.
ScoreUpdate(p) ==
    IF p.finalized \/ p.match = NoMatch \/ p.points = Unset THEN <<>>
    ELSE <<ToHost("score_update", Stand(p))>>

\* The part of persistState that goes to the host.
PersistState(p) ==
    IF p.match = NoMatch \/ p.locked \/ p.occupied \/ p.finalized THEN <<>>
    ELSE <<ToHost("state_sync", Stand(p))>>

\* The page of d becomes p and sends frames, if it has a connection.
PageSends(d, p, frames) ==
    /\ pages' = [pages EXCEPT ![d] = p]
    /\ conns' = IF p.conn = 0 THEN conns
                ELSE [conns EXCEPT ![p.conn].up = @ \o frames]

\* The page has room to act: a bound on the frames under way.
Roomy(d) ==
    pages[d].conn # 0 => Len(conns[pages[d].conn].up) <= MaxQueue

\* connect and onopen: a new socket, the identity, then the own stand.
Connect(d) ==
    \E c \in Conn :
        LET p == [pages[d] EXCEPT !.conn = c, !.locked = FALSE,
                                  !.occupied = FALSE]
        IN /\ pages[d].conn = 0
           /\ conns[c].state = "new"
           /\ \A b \in 1 .. c - 1 : conns[b].state # "new"
           /\ pages' = [pages EXCEPT ![d] = p]
           /\ conns' = [conns EXCEPT ![c] =
                [New EXCEPT !.dev = d, !.state = "open",
                    !.up = <<ToHost("identify", NoStand)>>
                            \o ScoreUpdate(p) \o PersistState(p)]]
           /\ UNCHANGED <<hostVars, btpVars, postVars, author>>

\* The sides and the server are chosen: the match can be counted.
FinalizeSetup(d) ==
    LET p == [pages[d] EXCEPT !.points = 0]
    IN /\ pages[d].match # NoMatch /\ pages[d].points = Unset
       /\ ~pages[d].locked /\ ~pages[d].occupied
       /\ Roomy(d)
       /\ PageSends(d, p, PersistState(p) \o ScoreUpdate(p))
       /\ UNCHANGED <<hostVars, btpVars, postVars, author>>

\* Mutant: a finished match can still be counted.
AddPointAfterEnd(d) ==
    LET p == [pages[d] EXCEPT !.points = @ + 1]
    IN /\ pages[d].match # NoMatch /\ pages[d].points \in 0 .. MaxPoints
       /\ ~pages[d].locked /\ ~pages[d].occupied
       /\ Roomy(d)
       /\ PageSends(d, p, PersistState(p) \o ScoreUpdate(p))
       /\ UNCHANGED <<hostVars, btpVars, postVars, author>>

\* A point; also without a connection.
AddPoint(d) ==
    LET p == [pages[d] EXCEPT !.points = @ + 1]
    IN /\ pages[d].match # NoMatch
       /\ pages[d].points \in 0 .. MaxPoints - 1
       /\ ~pages[d].locked /\ ~pages[d].occupied
       /\ Roomy(d)
       /\ PageSends(d, p, PersistState(p) \o ScoreUpdate(p))
       /\ UNCHANGED <<hostVars, btpVars, postVars, author>>

\* startReidentifyRetry's timer (4 s); the last answer has come by then.
Reidentify(d) ==
    /\ pages[d].retry /\ pages[d].conn # 0
    /\ conns[pages[d].conn].up = <<>> /\ conns[pages[d].conn].down = <<>>
    /\ PageSends(d, pages[d], <<ToHost("identify", NoStand)>>)
    /\ UNCHANGED <<hostVars, btpVars, postVars, author>>

\* The button of the "court is occupied" overlay, which the lock overlay
\* hides.
TakeOver(d) ==
    LET p == [pages[d] EXCEPT !.retry = FALSE, !.occupied = FALSE,
                              !.locked = FALSE]
    IN /\ pages[d].occupied /\ ~pages[d].locked /\ pages[d].conn # 0
       /\ Roomy(d)
       /\ PageSends(d, p, <<ToHost("take_over", NoStand)>>)
       /\ UNCHANGED <<hostVars, btpVars, postVars, author>>

MayCut == Cardinality({c \in Conn : conns[c].state = "cut"}) < MaxCut

\* The page is gone from its connection: the network is down, or the socket
\* was replaced.  Of the frames under way the handler gets those it handles
\* before it ends.
DropLink(d) ==
    /\ pages[d].conn # 0 /\ MayCut
    /\ pages' = [pages EXCEPT ![d].conn = 0, ![d].retry = FALSE]
    /\ conns' = [conns EXCEPT ![pages[d].conn].state = "cut",
                              ![pages[d].conn].down = <<>>]
    /\ UNCHANGED <<hostVars, btpVars, postVars, author>>

\* A reload or a restart of the browser: the stand and an open result come
\* back from localStorage, what the host said about the court does not.
Reload(d) ==
    /\ pages[d].conn # 0 /\ MayCut
    /\ conns' = [conns EXCEPT ![pages[d].conn].state = "cut",
                              ![pages[d].conn].down = <<>>]
    /\ pages' = [pages EXCEPT ![d] =
            [FreshPage EXCEPT !.match = pages[d].match,
                              !.points = pages[d].points,
                              !.asked = IF pages[d].match = NoMatch
                                        THEN NoMatch ELSE pages[d].asked]]
    /\ UNCHANGED <<hostVars, btpVars, postVars, author>>

-----------------------------------------------------------------------------
(* The page, receiving.  Got is the frame, p the page before. *)

LoadMatch(p, m) ==
    IF p.match = m THEN p
    ELSE [p EXCEPT !.match = m, !.points = Unset, !.finalized = FALSE]

ClearMatch(p) ==
    [p EXCEPT !.match = NoMatch, !.points = Unset, !.finalized = FALSE]

ApplyPersistedState(p, stand) ==
    [p EXCEPT !.match = stand.match, !.points = stand.points,
              !.asked = NoMatch]

Received(d, type) ==
    /\ pages[d].conn # 0
    /\ conns[pages[d].conn].down # <<>>
    /\ Head(conns[pages[d].conn].down).type = type
    /\ Roomy(d)

Got(d) == Head(conns[pages[d].conn].down)

\* The page of d becomes p in answer to the frame and sends frames.
PageAnswers(d, p, frames) ==
    /\ pages' = [pages EXCEPT ![d] = p]
    /\ conns' = [conns EXCEPT ![p.conn].down = Tail(@),
                              ![p.conn].up = @ \o frames]
    /\ UNCHANGED <<hostVars, btpVars, postVars, author>>

\* Mutant: the overlay stays although the court was granted.
AssignedKeepsOverlay(d) ==
    LET m    == Got(d).stand.match
        done == [LoadMatch([pages[d] EXCEPT !.retry = FALSE], m)
                    EXCEPT !.finalized = Got(d).flag]
    IN /\ Received(d, "match_assigned")
       /\ PageAnswers(d, done, ScoreUpdate(done) \o PersistState(done))

\* Mutant: the stand of a match the page has already is not sent again.
AssignedIsNoNews(d) ==
    LET m    == Got(d).stand.match
        told == [pages[d] EXCEPT !.retry = FALSE, !.occupied = FALSE]
        done == [LoadMatch(told, m) EXCEPT !.finalized = Got(d).flag]
    IN /\ Received(d, "match_assigned")
       /\ PageAnswers(d, done,
            IF told.match = m THEN <<>> ELSE PersistState(done))

ReceiveAssigned(d) ==
    LET m      == Got(d).stand.match
        told   == [pages[d] EXCEPT !.retry = FALSE, !.occupied = FALSE]
        loaded == LoadMatch(told, m)
        done   == [loaded EXCEPT !.finalized = Got(d).flag,
                     !.asked = IF Got(d).flag /\ @ = m THEN NoMatch ELSE @]
    IN /\ Received(d, "match_assigned")
       /\ PageAnswers(d, done,
            IF Got(d).flag
            THEN IF told.match = m THEN <<>> ELSE PersistState(loaded)
            ELSE ScoreUpdate(done) \o PersistState(done))

ReceiveCleared(d) ==
    /\ Received(d, "match_cleared")
    /\ PageAnswers(d, ClearMatch([pages[d] EXCEPT !.retry = FALSE]), <<>>)

\* Mutant: a page that has a match does not look at the court any more.
OccupiedWhenEmptyOnly(d) ==
    /\ Received(d, "court_occupied")
    /\ PageAnswers(d, [pages[d] EXCEPT
                           !.occupied = @ \/ pages[d].match = NoMatch,
                           !.retry = @ \/ pages[d].match # NoMatch], <<>>)

ReceiveOccupied(d) ==
    /\ Received(d, "court_occupied")
    /\ PageAnswers(d, [pages[d] EXCEPT !.occupied = TRUE,
                           !.retry = @ \/ pages[d].match # NoMatch], <<>>)

ReceiveSuperseded(d) ==
    /\ Received(d, "session_superseded")
    /\ PageAnswers(d, [pages[d] EXCEPT !.retry = FALSE, !.locked = TRUE,
                                       !.occupied = FALSE], <<>>)

\* authoritative: the own stand stands and is sent; else the host's counts.
ReceiveRestore(d) ==
    LET adopted == ApplyPersistedState(pages[d], Got(d).stand)
    IN /\ Received(d, "state_restore")
       /\ IF Got(d).flag
          THEN PageAnswers(d, pages[d],
                    PersistState(pages[d]) \o ScoreUpdate(pages[d]))
          ELSE PageAnswers(d, adopted, PersistState(adopted))

Receive(d) ==
    \/ ReceiveAssigned(d) \/ ReceiveCleared(d) \/ ReceiveOccupied(d)
    \/ ReceiveSuperseded(d) \/ ReceiveRestore(d)

-----------------------------------------------------------------------------
(* The host: one handler per connection, which outlives its page. *)

Alive(c) == conns[c].state \in {"open", "cut"}

Heard(c, type) ==
    /\ Alive(c) /\ conns[c].up # <<>>
    /\ Head(conns[c].up).type = type

Says(c) == Head(conns[c].up).stand

\* The handler's locals become r and it sends frames.  With the page gone no
\* one hears them and what was last reported no longer matters.
HandlerSends(c, r, frames) ==
    conns' = [conns EXCEPT ![c] =
                IF r.state = "open" THEN [r EXCEPT !.down = @ \o frames]
                ELSE [r EXCEPT !.last = NotSent]]

IsCourtActive(c)  == active = c
CourtOccupied     == active # 0
HeldByDevice(dev) == active # 0 /\ conns[active].dev = dev

\* Mutant: the own device is no exception once it has counted.
KeepLocalUnlessScored(dev, owner) ==
    marker = NoMatch /\ (owner = 0 \/ ~scored)

\* reconnect_decision, for a device and the holder before its claim.
KeepLocal(dev, owner) ==
    /\ marker = NoMatch
    /\ \/ owner = 0
       \/ conns[owner].dev = dev
       \/ ~scored

\* What push_match reports: the match, or one just finished, or nothing.
PushKey ==
    CASE field # NoMatch  -> [match |-> field, finalized |-> FALSE]
      [] field = NoMatch /\ marker # NoMatch
                          -> [match |-> marker, finalized |-> TRUE]
      [] OTHER            -> NoKey

\* Mutant: a match that was reported once is not reported again.
PushDedupsByMatch(last) ==
    CASE PushKey.match = last.match -> <<>>
      [] PushKey.match # last.match /\ PushKey = NoKey
                         -> <<ToPage("match_cleared", NoStand, FALSE)>>
      [] OTHER           -> <<ToPage("match_assigned",
                                [match |-> PushKey.match, points |-> Unset],
                                PushKey.finalized)>>

PushMatch(last) ==
    CASE PushKey = last  -> <<>>
      [] PushKey # last /\ PushKey = NoKey
                         -> <<ToPage("match_cleared", NoStand, FALSE)>>
      [] OTHER           -> <<ToPage("match_assigned",
                                [match |-> PushKey.match, points |-> Unset],
                                PushKey.finalized)>>

StateRestore(authoritative) ==
    IF mirror = NoStand THEN <<>>
    ELSE <<ToPage("state_restore", mirror, authoritative)>>

ClaimCourt(c) == active' = c /\ scored' = FALSE

\* Mutant: the mirrored stand is sent after the match.
IdentifyRestoresLast(c) ==
    LET dev == conns[c].dev
        r   == [conns[c] EXCEPT !.up = Tail(@), !.court = TRUE,
                                !.last = NoKey]
    IN /\ Heard(c, "identify")
       /\ IF CourtOccupied /\ ~HeldByDevice(dev)
          THEN /\ HandlerSends(c, r,
                    <<ToPage("court_occupied", NoStand, FALSE)>>)
               /\ UNCHANGED <<active, scored>>
          ELSE /\ ClaimCourt(c)
               /\ HandlerSends(c,
                    [r EXCEPT !.token = TRUE, !.last = PushKey],
                    PushMatch(NoKey)
                        \o StateRestore(KeepLocal(dev, active)))
       /\ UNCHANGED <<score, mirror, btpVars, postVars, pages, author>>

\* identify sets last_match to None, which is what an empty court reports.
HandleIdentify(c) ==
    LET dev == conns[c].dev
        r   == [conns[c] EXCEPT !.up = Tail(@), !.court = TRUE,
                                !.last = NoKey]
    IN /\ Heard(c, "identify")
       /\ IF CourtOccupied /\ ~HeldByDevice(dev)
          THEN /\ HandlerSends(c, r,
                    <<ToPage("court_occupied", NoStand, FALSE)>>)
               /\ UNCHANGED <<active, scored>>
          ELSE /\ ClaimCourt(c)
               /\ HandlerSends(c,
                    [r EXCEPT !.token = TRUE, !.last = PushKey],
                    StateRestore(KeepLocal(dev, active))
                        \o PushMatch(NoKey))
       /\ UNCHANGED <<score, mirror, btpVars, postVars, pages, author>>

\* A take-over adopts the mirrored stand.
HandleTakeOver(c) ==
    LET r == [conns[c] EXCEPT !.up = Tail(@)]
    IN /\ Heard(c, "take_over")
       /\ IF r.court /\ ~r.token /\ ~r.superseded
          THEN /\ ClaimCourt(c)
               /\ author' = IF mirror = score /\ author # conns[c].dev
                            THEN author ELSE Nobody
               /\ HandlerSends(c,
                    [r EXCEPT !.token = TRUE, !.last = PushKey],
                    StateRestore(FALSE) \o PushMatch(NoKey))
          ELSE /\ HandlerSends(c, r, <<>>)
               /\ UNCHANGED <<active, scored, author>>
       /\ UNCHANGED <<score, mirror, btpVars, postVars, pages>>

\* Mutant: whoever once held the court is believed.
BelievedByToken(c) == conns[c].token

\* Is this connection's stand to be believed?
Believed(c) == conns[c].token /\ IsCourtActive(c)

\* handle_score: the finalized gate and the stale filter.
Countable(stand) == stand.match # marker /\ stand.match = field

\* For the history: the page of c has read everything, and no stand but its
\* own is under way from it.
InStep(c) ==
    /\ conns[c].down = <<>>
    /\ \A i \in DOMAIN conns[c].up :
          conns[c].up[i].type = "score_update"
              => conns[c].up[i].stand = Stand(pages[conns[c].dev])

HandleScore(c) ==
    /\ Heard(c, "score_update")
    /\ HandlerSends(c, [conns[c] EXCEPT !.up = Tail(@)], <<>>)
    /\ IF Believed(c) /\ Countable(Says(c))
       THEN /\ score' = Says(c) /\ scored' = TRUE
            /\ author' = IF /\ conns[c].state = "open"
                            /\ InStep(c) \/ author = conns[c].dev
                         THEN conns[c].dev ELSE Nobody
       ELSE UNCHANGED <<score, scored, author>>
    /\ UNCHANGED <<active, mirror, btpVars, postVars, pages>>

\* A stand of another match than the court's is stale; an empty court takes
\* any.
HandleSync(c) ==
    /\ Heard(c, "state_sync")
    /\ HandlerSends(c, [conns[c] EXCEPT !.up = Tail(@)], <<>>)
    /\ mirror' = IF Believed(c) /\ field \in {NoMatch, Says(c).match}
                 THEN Says(c) ELSE mirror
    /\ UNCHANGED <<active, scored, score, btpVars, postVars, pages, author>>

HandleFrame(c) ==
    HandleIdentify(c) \/ HandleTakeOver(c) \/ HandleScore(c) \/ HandleSync(c)

\* Mutant: a replaced holder is not told.
TickKeepsQuiet(c) ==
    LET r == conns[c]
    IN /\ Alive(c) /\ r.token
       /\ IF IsCourtActive(c)
          THEN /\ r.state = "open" /\ PushKey # r.last
               /\ HandlerSends(c, [r EXCEPT !.last = PushKey],
                               PushMatch(r.last))
          ELSE HandlerSends(c, [r EXCEPT !.token = FALSE,
                                         !.superseded = TRUE], <<>>)
       /\ UNCHANGED <<hostVars, btpVars, postVars, pages, author>>

\* Mutant: who holds the court is looked up only for a new match.
TickOnNewsOnly(c) ==
    LET r == conns[c]
    IN /\ Alive(c) /\ r.token /\ PushKey # r.last
       /\ IF IsCourtActive(c)
          THEN /\ r.state = "open"
               /\ HandlerSends(c, [r EXCEPT !.last = PushKey],
                               PushMatch(r.last))
          ELSE HandlerSends(c, [r EXCEPT !.token = FALSE,
                                         !.superseded = TRUE],
                    <<ToPage("session_superseded", NoStand, FALSE)>>)
       /\ UNCHANGED <<hostVars, btpVars, postVars, pages, author>>

\* The ticker: a replaced holder is told, the holder hears of its match.
Tick(c) ==
    LET r == conns[c]
    IN /\ Alive(c) /\ r.token
       /\ IF IsCourtActive(c)
          THEN /\ r.state = "open" /\ PushKey # r.last
               /\ HandlerSends(c, [r EXCEPT !.last = PushKey],
                               PushMatch(r.last))
          ELSE HandlerSends(c, [r EXCEPT !.token = FALSE,
                                         !.superseded = TRUE],
                    <<ToPage("session_superseded", NoStand, FALSE)>>)
       /\ UNCHANGED <<hostVars, btpVars, postVars, pages, author>>

\* The handler ends: a close, a failed ping, or silence for STALE_AFTER,
\* which a page that lives may run into as well.
HandlerEnds(c) ==
    /\ Alive(c)
    /\ conns' = [conns EXCEPT ![c] = Closed]
    /\ pages' = [d \in Device |->
                    IF pages[d].conn = c
                    THEN [pages[d] EXCEPT !.conn = 0, !.retry = FALSE]
                    ELSE pages[d]]
    /\ IF conns[c].token /\ IsCourtActive(c)
       THEN active' = 0 /\ author' = Nobody
       ELSE UNCHANGED <<active, author>>
    /\ UNCHANGED <<scored, score, mirror, btpVars, postVars>>

-----------------------------------------------------------------------------
(* BTP and the sync loop, which sees the court change. *)

\* The ticker (2 s) has been there since the last poll (5 s).
Ticked == active # 0 /\ conns[active].state = "open"
            => conns[active].last = PushKey

\* track_scorekeepers, before the snapshot is handed to the handlers.  A
\* match that leaves the court has a result or was taken off it.
SyncTracks ==
    \E next \in Match \cup {NoMatch}, finished \in BOOLEAN :
        /\ polled = Idle /\ Ticked
        /\ polls < MaxPolls /\ polls + results < MaxEvents
        /\ next # field /\ next \notin inBtp
        /\ field \in inBtp => finished
        /\ field = NoMatch => ~finished
        /\ polled' = next
        /\ polls' = polls + 1
        /\ marker' = CASE next # NoMatch -> NoMatch
                       [] next = NoMatch /\ finished -> field
                       [] OTHER -> marker
        /\ UNCHANGED <<field, hostVars, postVars, conns, pages, author>>

\* set_snapshot.  Who counted the match that was there no longer matters.
SyncStores ==
    /\ polled # Idle
    /\ field' = polled
    /\ polled' = Idle
    /\ author' = Nobody
    /\ UNCHANGED <<marker, polls, hostVars, postVars, conns, pages>>

\* FINALIZED_TTL (5 minutes) has passed, never within a poll.
MarkerExpires ==
    /\ marker # NoMatch /\ polled = Idle
    /\ marker' = NoMatch
    /\ UNCHANGED <<field, polled, polls, hostVars, postVars, conns, pages,
                   author>>

\* submit and process_result up to the write: the match is on the court.
PostResult(d) ==
    LET p == pages[d]
    IN /\ p.match # NoMatch /\ p.points = MaxPoints
       /\ ~p.finalized /\ p.asked = NoMatch
       /\ p.match = field /\ p.match \notin inBtp
       /\ results < MaxResults /\ polls + results < MaxEvents
       /\ results' = results + 1
       /\ writing' = writing \cup {p.match}
       /\ PageSends(d, [p EXCEPT !.asked = p.match],
                    PersistState(p))
       /\ UNCHANGED <<hostVars, btpVars, inBtp, author>>

\* process_result after the write: clear_court, whatever is there by now.
ResultWritten(m) ==
    /\ m \in writing
    /\ writing' = writing \ {m}
    /\ inBtp' = inBtp \cup {m}
    /\ score' = NoStand /\ mirror' = NoStand /\ author' = Nobody
    /\ UNCHANGED <<active, scored, btpVars, results, conns, pages>>

\* trySubmitPending hears ok and persists it.
ResultConfirmed(d) ==
    LET p == pages[d]
    IN /\ p.asked \in inBtp
       /\ PageSends(d, [p EXCEPT !.asked = NoMatch], PersistState(p))
       /\ UNCHANGED <<hostVars, btpVars, postVars, author>>

-----------------------------------------------------------------------------

PageStep(d) ==
    \/ Connect(d) \/ FinalizeSetup(d) \/ AddPoint(d) \/ Reidentify(d)
    \/ TakeOver(d) \/ DropLink(d) \/ Reload(d) \/ Receive(d)
    \/ PostResult(d) \/ ResultConfirmed(d)

HostStep(c) == HandleFrame(c) \/ Tick(c) \/ HandlerEnds(c)

SyncStep == SyncTracks \/ SyncStores \/ MarkerExpires

Next ==
    \/ \E d \in Device : PageStep(d)
    \/ \E c \in Conn : HostStep(c)
    \/ \E m \in Match : ResultWritten(m)
    \/ SyncStep

Spec == Init /\ [][Next]_vars

\* The handlers run, their tickers tick, and a page reads what it is sent.
Fairness ==
    /\ \A c \in Conn : WF_vars(HandleFrame(c)) /\ WF_vars(Tick(c))
    /\ \A d \in Device : WF_vars(Receive(d))

FairSpec == Spec /\ Fairness

-----------------------------------------------------------------------------
(* Properties. *)

PageOf(c) == pages[conns[c].dev]

\* Nothing is under way on connection c, nor is a tick due on it.
AtRest(c) ==
    /\ conns[c].state = "open" /\ conns[c].court
    /\ conns[c].up = <<>> /\ conns[c].down = <<>>
    /\ conns[c].token => IsCourtActive(c) /\ conns[c].last = PushKey

Owns(c) == AtRest(c) /\ IsCourtActive(c)

\* One tablet per court counts: once the frames have arrived, the page of
\* every other connection shows an overlay, whoever took the court from whom
\* and in whatever order they came back (identify, take_over, the ticker).
OneTabletCounts ==
    \A c \in Conn : AtRest(c) /\ ~IsCourtActive(c)
                        => PageOf(c).locked \/ PageOf(c).occupied

\* The tablet that holds the court has the match BTP has there, knows whether
\* it is finished, and is not told that another one has the court: no push is
\* lost to the dedup of push_match or to the stand of the match before.
HolderSeesItsMatch ==
    \A c \in Conn : Owns(c) /\ PushKey # NoKey
        => /\ PageOf(c).match = PushKey.match
           /\ PageOf(c).finalized = PushKey.finalized
           /\ ~PageOf(c).occupied

\* What the holder has counted is what monitors and the live ticker show and
\* what a replacement would get, although either may reject frames of a
\* match it does not know yet and tablets count on while they are offline.
\* (A page that was locked and gets its court back by an identify under way
\* stays locked: it sends its score, but nothing to mirror.)
HolderStandIsShown ==
    \A c \in Conn :
        (/\ Owns(c) /\ field # NoMatch /\ marker # field /\ inBtp = {}
         /\ PageOf(c).points # Unset)
        => /\ score = Stand(PageOf(c))
           /\ ~PageOf(c).locked => mirror = Stand(PageOf(c))

StandFalls == score'.match = score.match /\ score'.points < score.points

\* The stand a tablet has brought to the monitors never falls back to an
\* older one of its own, over any number of lost connections, as long as the
\* court was not free in between: the returning device's stand prevails over
\* the mirrored one.  (What a page that is gone had sent before may still
\* come, and makes no author.)
OwnStandOnlyGrows ==
    [][StandFalls /\ author # Nobody => author' # author]_vars

\* A tablet whose court was taken is locked, unless it is gone or has the
\* court back: the ticker finds it, also without any frame of its page.
TakenOverIsTold ==
    \A c \in Conn :
        conns[c].state = "open" /\ conns[c].token /\ ~IsCourtActive(c)
            ~> conns[c].state # "open" \/ PageOf(c).locked
                \/ IsCourtActive(c)

(* What the repository says of the program, and the code does not keep. *)

\* A tablet that comes back to an empty court lets go of the match it had:
\* the first push_match always fires, also a match_cleared (handle_socket).
EmptyCourtIsReported ==
    \A c \in Conn : Owns(c) /\ PushKey = NoKey
                        => PageOf(c).match = NoMatch

\* A replacement tablet does not start from 0:0: the mirrored stand of the
\* match is not replaced by one whose sides are not even chosen.
NoStartFromZero ==
    [][mirror.points > 0 /\ mirror'.match = mirror.match
        => mirror'.points # Unset]_vars

\* A tablet that returns after another one has counted on stands down, it is
\* not told that its own, older stand is to prevail.
ReturnerStandsDown ==
    [][\A c \in Conn :
        (/\ active' = c /\ active # c
         /\ PageOf(c).match = score.match
         /\ PageOf(c).points \in 0 .. score.points - 1)
        => ToPage("state_restore", mirror, TRUE)
             \notin {conns'[c].down[i] : i \in DOMAIN conns'[c].down}]_vars

\* Nor does it fall back because another tablet took the court over, with a
\* stand that was mirrored, and has read the answer: it continues the match.
OthersStandOnlyGrows ==
    [][StandFalls /\ author # Nobody
        => \/ author' = author \/ conns[active].state = "cut"
           \/ conns[active].down # <<>>]_vars

\* A tablet that takes the court over continues the running match: what the
\* monitors show of it is what it is given.
ShownIsContinued ==
    [][(/\ active # 0 /\ active' # active /\ active' # 0
        /\ conns[active'].dev # conns[active].dev
        /\ score.match = field /\ score.points > 0)
        => mirror.match = field /\ mirror.points >= score.points]_vars

\* After its result was taken, the final stand of a match is not kept for the
\* next tablet (clear_court).
EndedStandIsGone ==
    mirror.points = MaxPoints => mirror.match \notin inBtp

\* clear_court wipes the stand of the match whose result was taken and never
\* that of a running one.
ClearsOnlyEndedStand ==
    [][mirror' = NoStand /\ mirror.points > 0 => mirror.match \in inBtp']_vars

=============================================================================
