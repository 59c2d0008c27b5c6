-------------------------------- MODULE Relay --------------------------------
(***************************************************************************)
(* The cloud relay (relay/src/main.rs) and its client on the tournament PC *)
(* (relay_client.rs), for one namespace with one court: the host slot and  *)
(* its connections, the match and the stand the relay mirrors, the tablet  *)
(* that holds the court, and the calls (results of tablets, commands of    *)
(* desk pages) that wait in the relay for the PC's answer.                 *)
(*                                                                         *)
(* A connection may die without either end noticing for 15 s.  The client  *)
(* then comes back on a new one while the relay still serves the old one.  *)
(***************************************************************************)
EXTENDS Naturals, Sequences, FiniteSets

CONSTANTS
    Conn,           \* host connections under way at a time
    Session,        \* WebSocket sessions of tablets
    Device(_),      \* the device of a session
    Match,
    Call,           \* HTTP requests that wait for the PC
    DeskCall,       \* those that are commands of a desk page, not results
    NoConn, NoSession, NoMatch, NoCall,
    Unknown,        \* nothing has been told yet
    MaxPending,     \* MAX_PENDING_PER_NS, for each of the two kinds
    MaxStand,       \* bound: stands of a match, 0 is "no sets"
    Scenario        \* bound: what may happen, see Budget

Budget == [cuts : Nat, changes : Nat, joins : Nat, calls : Nat]

ASSUME NotAmong == /\ NoConn \notin Conn /\ NoSession \notin Session
                   /\ NoMatch \notin Match /\ NoCall \notin Call
                   /\ Unknown \notin Match \cup {NoMatch}
ASSUME Bounds == /\ DeskCall \subseteq Call /\ MaxPending \in Nat
                 /\ MaxStand \in Nat /\ Scenario \subseteq Budget

VARIABLES
    \* the network: frames under way, and lines that are dead
    up, down, cut,
    \* the PC: the match of the court, the last stand counted there
    pcMatch, live,
    \* the PC's client: its connection (serve), what it last sent on it, the
    \* result it is processing, its tasks for commands of desk pages
    link, lastMatch, scoreFp, busy, running,
    \* the relay: the connections it serves, and the namespace
    served, host, silent, courtMatch, courtScore, holder, pending, nextReq,
    \* tablets: state of a session, the match it was told, the match it shows
    at, told, page,
    \* calls: state of the request, its number, whether the PC has executed it
    call, req, executed,
    budget

netVars == <<up, down, cut>>
pcVars == <<pcMatch, live>>
clientVars == <<link, lastMatch, scoreFp, busy, running>>
mirrorVars == <<courtMatch, courtScore>>
slotVars == <<served, host, silent>>
tabletVars == <<holder, at, told, page>>
callVars == <<pending, nextReq, call, req, executed>>
vars == <<netVars, pcVars, clientVars, mirrorVars, slotVars, tabletVars,
          callVars, budget>>

Spend(what) == /\ budget[what] > 0
               /\ budget' = [budget EXCEPT ![what] = @ - 1]

-----------------------------------------------------------------------------
(* Frames and stands. *)

Stand == [match : Match \cup {NoMatch}, n : 0 .. MaxStand]
NoStand == [match |-> NoMatch, n |-> 0]

\* HostFrame: MatchAssigned and MatchCleared, ScoreUpdate, ResultAck and TlAck
CourtFrame(m) == [kind |-> "court", match |-> m]
StandFrame(s) == [kind |-> "stand", stand |-> s]
AckFrame(x) == [kind |-> "ack", desk |-> x \in DeskCall, req |-> req[x]]
HostFrame == [kind : {"court"}, match : Match \cup {NoMatch}]
                \cup [kind : {"stand"}, stand : Stand]
                \cup [kind : {"ack"}, desk : BOOLEAN, req : Nat]

\* RelayFrame: TabletConnected, ScoreUpdate, Result and TlCommand
ConnectedFrame == [kind |-> "connected"]
CallFrame(x) == [kind |-> "call", call |-> x]
RelayFrame == [kind : {"connected"}] \cup [kind : {"stand"}, stand : Stand]
                \cup [kind : {"call"}, call : Call]

\* Only what the other end can still read is kept.
Up(frames) == IF link \in served \ cut
              THEN [up EXCEPT ![link] = @ \o frames] ELSE up
Down(frames) == IF link = host /\ host \in Conn \ cut
                THEN [down EXCEPT ![host] = @ \o frames] ELSE down

-----------------------------------------------------------------------------
(* The network. *)

\* A line dies; neither end is told.
Cut(c) ==
    /\ c \in Conn \ cut /\ (c \in served \/ link = c)
    /\ Spend("cuts")
    /\ cut' = cut \cup {c}
    /\ up' = [up EXCEPT ![c] = <<>>]
    /\ down' = [down EXCEPT ![c] = <<>>]
    /\ UNCHANGED <<pcVars, clientVars, mirrorVars, slotVars, tabletVars,
                   callVars>>

\* HOST_STALE: no sign of the host for 15 s.  A client that processes a
\* result answers no ping, and a line may stall for that long.
Silence ==
    /\ host # NoConn /\ ~silent
    /\ silent' = TRUE
    /\ \/ /\ host \in cut \/ link # host \/ busy # NoCall
          /\ UNCHANGED budget
       \/ Spend("cuts")
    /\ UNCHANGED <<netVars, pcVars, clientVars, mirrorVars, served, host,
                   tabletVars, callVars>>

\* The answer to a ping.
Pong ==
    /\ silent /\ link = host /\ host \notin cut /\ busy = NoCall
    /\ silent' = FALSE
    /\ UNCHANGED <<netVars, pcVars, clientVars, mirrorVars, served, host,
                   tabletVars, callVars, budget>>

-----------------------------------------------------------------------------
(* The host slot. *)

\* try_claim_host
MayClaim == host = NoConn \/ silent

\* run and serve up to its loop, host_conn up to its loop: what was sent on
\* the last connection is forgotten, tablets that are there are reported.
\* A refused connection changes nothing.
Connect ==
    /\ link = NoConn
    /\ \E c \in Conn \ served :
        /\ c = CHOOSE d \in Conn \ served : TRUE
        /\ MayClaim
        /\ link' = c /\ host' = c
        /\ served' = served \cup {c}
        /\ cut' = cut \ {c}
        /\ up' = [up EXCEPT ![c] = <<>>]
        /\ down' = [down EXCEPT ![c] = IF holder = NoSession THEN <<>>
                                       ELSE <<ConnectedFrame>>]
    /\ silent' = FALSE
    /\ lastMatch' = Unknown /\ scoreFp' = NoStand
    /\ UNCHANGED <<pcVars, busy, running, mirrorVars, tabletVars, callVars,
                   budget>>

\* namespace_aufraeumen: without host, tablets and open results the namespace
\* is removed and the next one starts afresh, unless a desk page listens.
TidyUp ==
    \/ /\ host' = NoConn /\ holder' = NoSession
       /\ courtMatch' = NoMatch /\ courtScore' = NoStand /\ nextReq' = 1
    \/ UNCHANGED <<mirrorVars, nextReq>>

\* Mutant: no look at whose slot it is.
ReleasesAny(c) == TRUE

\* Mutant: the slot is not given back.
ReleasesNone(c) == FALSE

\* release_host_slot
Releases(c) == host = c

\* Mutant: a connection that lost its slot leaves the results waiting.
DrainedWithSlot(c) == IF Releases(c) THEN pending ELSE {}

\* The end of host_conn answers all results; forget_tl_access the commands.
Drained(c) == {x \in pending : x \in DeskCall => Releases(c)}

Answer(calls, answer) ==
    call' = [x \in Call |-> IF x \in calls /\ call[x] = "waiting"
                            THEN answer ELSE call[x]]

HostConnEnds(c) ==
    /\ served' = served \ {c}
    /\ host' = IF Releases(c) THEN NoConn ELSE host
    /\ silent' = (silent /\ ~Releases(c))
    /\ up' = [up EXCEPT ![c] = <<>>]
    /\ pending' = pending \ Drained(c)
    /\ Answer(Drained(c), "lost")
    /\ holder' = holder
    /\ TidyUp
    /\ UNCHANGED <<down, cut, pcVars, clientVars, at, told, page, req,
                   executed, budget>>

\* The loop of host_conn ends: 15 s without a sign (a connection that lost
\* its slot has had them), or the socket is closed and all is read.
RelayDrops(c) ==
    /\ c \in served
    /\ \/ c \in cut \/ c # host \/ silent
       \/ link # c /\ up[c] = <<>>
    /\ HostConnEnds(c)

\* Mutant: the client does not watch for silence.
SeesEndOnlyByClose == link \notin served \cup cut /\ down[link] = <<>>

\* The socket is closed, or nothing came for 15 s (RELAY_READ_IDLE).
SeesEnd == \/ link \in cut
           \/ link = host /\ silent
           \/ link \notin served /\ down[link] = <<>>

\* The end of serve.  Frames it had not written yet are gone, and so is the
\* way back for its tasks.
ServeEnds ==
    /\ link # NoConn /\ busy = NoCall
    /\ SeesEnd
    /\ link' = NoConn
    /\ \E k \in 0 .. Len(up[link]) :
        up' = [up EXCEPT ![link] = SubSeq(@, 1, k)]
    /\ down' = [down EXCEPT ![link] = <<>>]
    /\ running' = [x \in Call |-> IF running[x] = "task" THEN "orphan"
                                  ELSE running[x]]
    /\ UNCHANGED <<cut, pcVars, lastMatch, scoreFp, busy, mirrorVars,
                   slotVars, tabletVars, callVars, budget>>

-----------------------------------------------------------------------------
(* What the PC sends. *)

\* score_mirror_of: the live stand if it is the match's, else no sets.
Mirror == [match |-> pcMatch,
           n |-> IF live.match = pcMatch THEN live.n ELSE 0]

\* Mutant: the last stand sent stays known over a new assignment.
StandStaysKnown == scoreFp

\* push_court drops the fingerprint of the stand with every assignment.
StandKnown == IF lastMatch = pcMatch THEN scoreFp ELSE NoStand

\* push_all_courts, then the sweep of score_mirror_frame on the same wire.
Tick ==
    LET court == IF lastMatch = pcMatch THEN <<>> ELSE <<CourtFrame(pcMatch)>>
        sweep == pcMatch # NoMatch /\ StandKnown # Mirror
    IN /\ link # NoConn /\ busy = NoCall
       /\ lastMatch # pcMatch \/ sweep
       /\ lastMatch' = pcMatch
       /\ scoreFp' = IF sweep THEN Mirror ELSE StandKnown
       /\ up' = Up(court \o IF sweep THEN <<StandFrame(Mirror)>> ELSE <<>>)
       /\ UNCHANGED <<down, cut, pcVars, link, busy, running, mirrorVars,
                      slotVars, tabletVars, callVars, budget>>

\* The monitor nudge of the court: the stand alone, maybe ahead of its match.
Nudge ==
    /\ link # NoConn /\ busy = NoCall
    /\ pcMatch # NoMatch /\ scoreFp # Mirror
    /\ scoreFp' = Mirror
    /\ up' = Up(<<StandFrame(Mirror)>>)
    /\ UNCHANGED <<down, cut, pcVars, link, lastMatch, busy, running,
                   mirrorVars, slotVars, tabletVars, callVars, budget>>

\* BTP, the desk: another match on the court, or none.
PcMatch ==
    /\ Spend("changes")
    /\ pcMatch' \in (Match \cup {NoMatch}) \ {pcMatch}
    /\ UNCHANGED <<netVars, live, clientVars, mirrorVars, slotVars,
                   tabletVars, callVars>>

\* A tablet of the hall counts past the relay.
PcCounts ==
    /\ Spend("changes")
    /\ pcMatch # NoMatch
    /\ \E n \in (1 .. MaxStand) \ {Mirror.n} :
        live' = [match |-> pcMatch, n |-> n]
    /\ UNCHANGED <<netVars, pcMatch, clientVars, mirrorVars, slotVars,
                   tabletVars, callVars>>

-----------------------------------------------------------------------------
(* What the PC receives (handle_frame). *)

Receives(kind) ==
    /\ link \in Conn \ cut /\ busy = NoCall
    /\ down[link] # <<>> /\ Head(down[link]).kind = kind

Received == [down EXCEPT ![link] = Tail(@)]

\* Mutant: a tablet that comes is not told a match it may have missed.
ConnectedIsNoNews == lastMatch

\* last_match.remove
ForgetsMatch == Unknown

\* A tablet has come: the match is sent at once, whatever was sent before.
TabletConnected ==
    /\ Receives("connected")
    /\ down' = Received
    /\ lastMatch' = pcMatch
    /\ IF ForgetsMatch = pcMatch
       THEN UNCHANGED <<scoreFp, up>>
       ELSE scoreFp' = NoStand /\ up' = Up(<<CourtFrame(pcMatch)>>)
    /\ UNCHANGED <<cut, pcVars, link, busy, running, mirrorVars, slotVars,
                   tabletVars, callVars, budget>>

\* handle_score drops the stand of another match.
PcTakesStand ==
    /\ Receives("stand")
    /\ down' = Received
    /\ LET s == Head(down[link]).stand
       IN live' = IF s.match = pcMatch THEN s ELSE live
    /\ UNCHANGED <<up, cut, pcMatch, clientVars, mirrorVars, slotVars,
                   tabletVars, callVars, budget>>

\* A result is processed inside the loop of serve, which meanwhile neither
\* reads nor sends; a command of a desk page gets a task.
PcTakesCall ==
    /\ Receives("call")
    /\ down' = Received
    /\ LET x == Head(down[link]).call
       IN IF x \in DeskCall
          THEN running' = [running EXCEPT ![x] = "task"] /\ busy' = busy
          ELSE busy' = x /\ UNCHANGED running
    /\ UNCHANGED <<up, cut, pcVars, link, lastMatch, scoreFp, mirrorVars,
                   slotVars, tabletVars, callVars, budget>>

ResultProcessed ==
    /\ busy # NoCall
    /\ executed' = executed \cup {busy}
    /\ up' = Up(<<AckFrame(busy)>>)
    /\ busy' = NoCall
    /\ UNCHANGED <<down, cut, pcVars, link, lastMatch, scoreFp, running,
                   mirrorVars, slotVars, tabletVars, pending, nextReq, call,
                   req, budget>>

\* The answer leaves when the loop is free; that of a task of an earlier
\* session goes nowhere.
CommandExecuted(x) ==
    /\ running[x] # "no" /\ busy = NoCall
    /\ executed' = executed \cup {x}
    /\ up' = IF running[x] = "task" THEN Up(<<AckFrame(x)>>) ELSE up
    /\ running' = [running EXCEPT ![x] = "no"]
    /\ UNCHANGED <<down, cut, pcVars, link, lastMatch, scoreFp, busy,
                   mirrorVars, slotVars, tabletVars, pending, nextReq, call,
                   req, budget>>

-----------------------------------------------------------------------------
(* What the relay receives (handle_host_frame). *)

Arrives(c, kind) ==
    /\ c \in served \ cut /\ up[c] # <<>>
    /\ c = host /\ Head(up[c]).kind = kind
    /\ up' = [up EXCEPT ![c] = Tail(@)]
    /\ silent' = FALSE

\* A connection that lost its slot speaks again: its frame is not looked at,
\* and it is closed.
SupersededSpeaks(c) ==
    /\ c \in served \ cut /\ up[c] # <<>>
    /\ c # host
    /\ HostConnEnds(c)

\* MatchAssigned, MatchCleared: another match has no stand yet.
CourtArrives(c) ==
    /\ Arrives(c, "court")
    /\ LET m == Head(up[c]).match
       IN /\ courtMatch' = m
          /\ courtScore' = IF m = courtMatch THEN courtScore ELSE NoStand
          /\ told' = IF holder = NoSession THEN told
                     ELSE [told EXCEPT ![holder] = m]
    /\ UNCHANGED <<down, cut, pcVars, clientVars, served, host, holder, at,
                   page, callVars, budget>>

\* Mutant: a stand is taken for whatever match is on the court.
FitsAnyMatch(m) == TRUE

\* match_id_matches_court
FitsCourt(m) == courtMatch # NoMatch /\ courtMatch = m

\* The mirrored stand; one without sets does not replace one with sets.
StandArrives(c) ==
    /\ Arrives(c, "stand")
    /\ LET s == Head(up[c]).stand
       IN courtScore' = IF FitsCourt(s.match) /\ (s.n > 0 \/ courtScore.n = 0)
                        THEN s ELSE courtScore
    /\ UNCHANGED <<down, cut, pcVars, clientVars, served, host, courtMatch,
                   tabletVars, callVars, budget>>

\* An answer goes to the call that has its number and its kind.
AckArrives(c) ==
    /\ Arrives(c, "ack")
    /\ LET f == Head(up[c])
           hit == {x \in pending : req[x] = f.req /\ (x \in DeskCall) = f.desk}
       IN pending' = pending \ hit /\ Answer(hit, "answered")
    /\ UNCHANGED <<down, cut, pcVars, clientVars, mirrorVars, served, host,
                   tabletVars, nextReq, req, executed, budget>>

-----------------------------------------------------------------------------
(* Calls: result, tl_forward. *)

\* Mutant: a number that is free again is given out again.
SmallestFree == CHOOSE i \in 1 .. nextReq :
                    \A x \in pending : req[x] # i

\* next_req
FreshNumber == nextReq

SameKind(x) == {y \in pending : (y \in DeskCall) = (x \in DeskCall)}

Submit(x) ==
    /\ call[x] = "idle"
    /\ Spend("calls")
    /\ IF host = NoConn \/ Cardinality(SameKind(x)) >= MaxPending
       THEN /\ call' = [call EXCEPT ![x] = "refused"]
            /\ UNCHANGED <<down, pending, nextReq, req>>
       ELSE /\ call' = [call EXCEPT ![x] = "waiting"]
            /\ req' = [req EXCEPT ![x] = FreshNumber]
            /\ nextReq' = nextReq + 1
            /\ pending' = pending \cup {x}
            /\ down' = Down(<<CallFrame(x)>>)
    /\ UNCHANGED <<up, cut, pcVars, clientVars, mirrorVars, slotVars,
                   tabletVars, executed>>

\* RESULT_TIMEOUT, TL_TIMEOUT
TimesOut(x) ==
    /\ call[x] = "waiting"
    /\ call' = [call EXCEPT ![x] = "timeout"]
    /\ pending' = pending \ {x}
    /\ UNCHANGED <<netVars, pcVars, clientVars, mirrorVars, slotVars,
                   tabletVars, nextReq, req, executed, budget>>

\* The page has given up: the handler is dropped, its place stays taken.
GivenUp(x) ==
    /\ call[x] = "waiting"
    /\ call' = [call EXCEPT ![x] = "gone"]
    /\ UNCHANGED <<netVars, pcVars, clientVars, mirrorVars, slotVars,
                   tabletVars, pending, nextReq, req, executed, budget>>

-----------------------------------------------------------------------------
(* Tablets. *)

\* attach_tablet: the same device replaces its own session, another one
\* waits; take_over_court: the waiting one replaces whoever holds the court.
Holds(s) ==
    /\ holder' = s
    /\ at' = [at EXCEPT ![s] = "active"]
    /\ down' = Down(<<ConnectedFrame>>)

Identify(s) ==
    /\ at[s] = "off"
    /\ Spend("joins")
    /\ IF holder = NoSession \/ Device(s) = Device(holder)
       THEN Holds(s)
       ELSE at' = [at EXCEPT ![s] = "waiting"] /\ UNCHANGED <<down, holder>>
    /\ UNCHANGED <<up, cut, pcVars, clientVars, mirrorVars, slotVars, told,
                   page, callVars>>

TakeOver(s) ==
    /\ at[s] = "waiting"
    /\ Holds(s)
    /\ UNCHANGED <<up, cut, pcVars, clientVars, mirrorVars, slotVars, told,
                   page, callVars, budget>>

\* The page comes to show what it was told.
PageShows(s) ==
    /\ page[s] # told[s]
    /\ page' = [page EXCEPT ![s] = told[s]]
    /\ UNCHANGED <<netVars, pcVars, clientVars, mirrorVars, slotVars, holder,
                   at, told, callVars, budget>>

\* forward_score: of the holder only, and only for the match on the court.
ForwardScore(s) ==
    /\ at[s] = "active" /\ holder = s
    /\ page[s] \in Match /\ FitsCourt(page[s])
    /\ Spend("changes")
    /\ \E n \in 1 .. MaxStand :
        /\ courtScore' = [match |-> page[s], n |-> n]
        /\ down' = Down(<<StandFrame(courtScore')>>)
    /\ UNCHANGED <<up, cut, pcVars, clientVars, courtMatch, slotVars,
                   tabletVars, callVars>>

\* abraeumen and detach_tablet
Leave(s) ==
    /\ at[s] # "off"
    /\ at' = [at EXCEPT ![s] = "off"]
    /\ told' = [told EXCEPT ![s] = Unknown]
    /\ page' = [page EXCEPT ![s] = Unknown]
    /\ holder' = IF holder = s THEN NoSession ELSE holder
    /\ host' = host
    /\ TidyUp
    /\ UNCHANGED <<netVars, pcVars, clientVars, served, silent, pending,
                   call, req, executed, budget>>

-----------------------------------------------------------------------------
(* Specification. *)

Init ==
    /\ up = [c \in Conn |-> <<>>] /\ down = [c \in Conn |-> <<>>] /\ cut = {}
    /\ pcMatch = NoMatch /\ live = NoStand
    /\ link = NoConn /\ lastMatch = Unknown /\ scoreFp = NoStand
    /\ busy = NoCall /\ running = [x \in Call |-> "no"]
    /\ served = {} /\ host = NoConn /\ silent = FALSE
    /\ courtMatch = NoMatch /\ courtScore = NoStand
    /\ holder = NoSession
    /\ at = [s \in Session |-> "off"]
    /\ told = [s \in Session |-> Unknown]
    /\ page = [s \in Session |-> Unknown]
    /\ pending = {} /\ nextReq = 1
    /\ call = [x \in Call |-> "idle"] /\ req = [x \in Call |-> 0]
    /\ executed = {}
    /\ budget \in Scenario

PcStep == \/ Tick \/ Nudge \/ TabletConnected \/ PcTakesStand \/ PcTakesCall
          \/ ResultProcessed \/ \E x \in Call : CommandExecuted(x)

RelayStep == \E c \in Conn : \/ RelayDrops(c) \/ SupersededSpeaks(c)
                             \/ CourtArrives(c) \/ StandArrives(c)
                             \/ AckArrives(c)

Next ==
    \/ Silence \/ Pong \/ Connect \/ ServeEnds \/ PcMatch \/ PcCounts
    \/ PcStep \/ RelayStep
    \/ \E c \in Conn : Cut(c)
    \/ \E x \in Call : Submit(x) \/ TimesOut(x) \/ GivenUp(x)
    \/ \E s \in Session : \/ Identify(s) \/ TakeOver(s) \/ PageShows(s)
                          \/ ForwardScore(s) \/ Leave(s)

Spec == Init /\ [][Next]_vars

\* Both programs keep running; a connection that can be made is made, one
\* that is dead is given up at both ends.
Fairness ==
    /\ WF_vars(Pong) /\ WF_vars(Connect) /\ WF_vars(ServeEnds)
    /\ WF_vars(Tick) /\ WF_vars(TabletConnected) /\ WF_vars(PcTakesStand)
    /\ WF_vars(PcTakesCall) /\ WF_vars(ResultProcessed)
    /\ \A c \in Conn : WF_vars(RelayDrops(c)) /\ WF_vars(SupersededSpeaks(c))
    /\ \A c \in Conn : WF_vars(CourtArrives(c) \/ StandArrives(c)
                               \/ AckArrives(c))

FairSpec == Spec /\ Fairness

-----------------------------------------------------------------------------
(* Properties. *)

\* Every variable has its type; the slot belongs to a connection that is
\* served and the court to a session that has identified itself, and only a
\* client with a connection processes a result (namespaces of main.rs, serve
\* of relay_client.rs).
TypeOK ==
    /\ up \in [Conn -> Seq(HostFrame)] /\ down \in [Conn -> Seq(RelayFrame)]
    /\ served \subseteq Conn /\ cut \subseteq Conn
    /\ host \in served \cup {NoConn} /\ link \in Conn \cup {NoConn}
    /\ silent \in BOOLEAN /\ (silent => host # NoConn)
    /\ pcMatch \in Match \cup {NoMatch} /\ live \in Stand
    /\ lastMatch \in Match \cup {NoMatch, Unknown} /\ scoreFp \in Stand
    /\ busy \in Call \cup {NoCall} /\ (busy # NoCall => link # NoConn)
    /\ running \in [Call -> {"no", "task", "orphan"}]
    /\ courtMatch \in Match \cup {NoMatch} /\ courtScore \in Stand
    /\ holder \in Session \cup {NoSession}
    /\ at \in [Session -> {"off", "waiting", "active"}]
    /\ holder # NoSession => at[holder] = "active"
    /\ told \in [Session -> Match \cup {NoMatch, Unknown}]
    /\ page \in [Session -> Match \cup {NoMatch, Unknown}]
    /\ pending \subseteq Call /\ nextReq \in Nat
    /\ call \in [Call -> {"idle", "waiting", "gone", "answered", "lost",
                          "timeout", "refused"}]
    /\ req \in [Call -> Nat] /\ executed \subseteq Call
    /\ budget \in Budget

\* The stand the relay shows was counted for the match it shows, whatever
\* stands and assignments cross on the way (match_id_matches_court, and
\* MatchAssigned clearing the stand).
ScoreOfItsMatch == courtScore # NoStand => courtScore.match = courtMatch

\* A call is answered by the PC only if the PC has executed it: no late answer
\* to an earlier call, and none of another connection, reaches it (next_req,
\* handle_host_frame).
AnswersFit == \A x \in Call : call[x] = "answered" => x \in executed

\* A host loses the slot only by the end of its own connection, or silent to
\* a new one: the late end of an old connection takes it from nobody
\* (release_host_slot, try_claim_host).
SlotNotStolen == [][host # NoConn /\ host' # host =>
                        host \notin served' \/ silent]_vars

\* Once no line is cut any more, the PC's client is back and stays the host.
HostComesBack == <>[](link # NoConn /\ host = link)

\* In the end the cloud shows the match and the stand of the PC; one without
\* sets may leave a stand the tablet has sent (push_court, sweep, mirror).
CloudShowsCourt ==
    <>[](/\ courtMatch = pcMatch
         /\ pcMatch # NoMatch /\ Mirror.n > 0 => courtScore = Mirror)

\* In the end the tablet that holds the court has been told the PC's match,
\* whenever it came and whatever was lost (TabletConnected on both sides).
HolderIsTold == <>[](holder # NoSession => told[holder] = pcMatch)

\* The place of a result becomes free again, also if its page gave up and its
\* connection died (the end of host_conn).
PlacesComeFree ==
    \A x \in Call \ DeskCall : x \in pending ~> x \notin pending
=============================================================================
