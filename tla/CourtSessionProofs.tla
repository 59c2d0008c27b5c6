------------------------- MODULE CourtSessionProofs -------------------------
(***************************************************************************)
(* One tablet counts, the holder has its match, what it counts is shown,   *)
(* and a stand never falls back to an older one of its own device - for    *)
(* any number of devices, matches, connections, frames under way and       *)
(* changes of the court.                                                   *)
(*                                                                         *)
(* The properties speak of connections at rest.  What makes them inductive *)
(* says of every frame under way what it will do to whoever reads it.      *)
(***************************************************************************)
EXTENDS CourtSession, SequenceTheorems, TLAPS

Has(q, type) == \E i \in DOMAIN q : q[i].type = type

(* A page and its connection know each other; only a living handler holds the *)
(* court.                                                                    *)
LinkInv ==
    /\ \A d \in Device : pages[d].conn # 0 =>
          conns[pages[d].conn].dev = d /\ conns[pages[d].conn].state = "open"
    /\ \A c \in Conn : conns[c].state = "open" =>
          conns[c].dev \in Device /\ pages[conns[c].dev].conn = c
    /\ \A c \in Conn : conns[c].state = "cut" =>
          conns[c].dev \in Device /\ conns[c].down = <<>>
    /\ \A c \in Conn : conns[c].state = "new" => ~conns[c].token
    /\ active # 0 => Alive(active) /\ conns[active].token

(* A page whose connection does not hold the court has an overlay, or will   *)
(* have: the frame is under way, or it is asking for the court.              *)
Covered(c) ==
    LET r == conns[c]
        p == PageOf(c)
    IN  /\ r.superseded => p.locked \/ Has(r.down, "session_superseded")
        /\ ~r.token /\ ~r.superseded =>
              /\ \A i \in DOMAIN r.down : r.down[i].type = "court_occupied"
              /\ r.court => \/ p.occupied \/ r.down # <<>>
                            \/ Has(r.up, "take_over")

AwayInv == \A c \in Conn : conns[c].state = "open" => Covered(c)

(* What was last reported to a page is what it reads last, or what it has.   *)
Assigned(key) == ToPage("match_assigned",
                        [match |-> key.match, points |-> Unset], key.finalized)

Informed(c) ==
    LET r == conns[c]
        p == PageOf(c)
    IN  IF r.down # <<>> THEN r.down[Len(r.down)] = Assigned(r.last)
        ELSE /\ p.match = r.last.match /\ p.finalized = r.last.finalized
             /\ ~p.occupied

SeenInv ==
    \A c \in Conn :
        conns[c].state = "open" /\ conns[c].token /\ conns[c].last.match # NoMatch
            => Informed(c)

(* A match on the court has a finished mark only while the poll at hand takes *)
(* it off, and the holder was not yet told of the match that comes.          *)
MarkInv ==
    /\ field # NoMatch /\ polled = Idle => marker = NoMatch
    /\ field # NoMatch => marker \in {NoMatch, field}
    /\ polled \in Match => marker = NoMatch
    /\ polled # Idle => polled # field
    /\ \A c \in Conn :
          active = c /\ conns[c].state = "open" /\ polled \in Match
              => conns[c].last # [match |-> polled, finalized |-> FALSE]

(* The stand s was brought to shown, or the last frame of that type does so. *)
Brought(q, type, shown, s) ==
    \/ /\ \A j \in DOMAIN q : q[j].type # type
       /\ shown = s
    \/ \E i \in DOMAIN q :
          /\ q[i].type = type /\ q[i].stand = s
          /\ \A j \in DOMAIN q : j > i /\ q[j].type = type => q[j].stand = s

Showing(c) ==
    /\ active = c /\ conns[c].state = "open" /\ conns[c].down = <<>>
    /\ field # NoMatch /\ marker # field /\ inBtp = {}
    /\ conns[c].last = [match |-> field, finalized |-> FALSE]
    /\ PageOf(c).points # Unset

Shown(c) ==
    /\ Brought(conns[c].up, "score_update", score, Stand(PageOf(c)))
    /\ ~PageOf(c).locked =>
          Brought(conns[c].up, "state_sync", mirror, Stand(PageOf(c)))

ShownInv == \A c \in Conn : Showing(c) => Shown(c)

(* No page brings the stand of no match. *)
FrameInv ==
    \A c \in Conn : \A i \in DOMAIN conns[c].up :
        conns[c].up[i].type = "score_update" => conns[c].up[i].stand.match # NoMatch

(* The author's page is not behind what it has brought, nothing it will read *)
(* sets it back, and the stands under way from it lie in between, in order.  *)
HarmlessDown(f) ==
    /\ f.type # "match_cleared"
    /\ f.type = "match_assigned" => f.stand.match = field
    /\ f.type = "state_restore" => f.flag

InOrder(q, low, high) ==
    /\ \A i \in DOMAIN q : q[i].type = "score_update" =>
          q[i].stand.match = field /\ low <= q[i].stand.points
          /\ q[i].stand.points <= high
    /\ \A i, j \in DOMAIN q :
          i < j /\ q[i].type = "score_update" /\ q[j].type = "score_update"
              => q[i].stand.points <= q[j].stand.points

Ahead(d) ==
    LET p == pages[d] IN
    /\ p.match = field /\ score.points <= p.points
    /\ p.conn # 0 =>
          /\ \A i \in DOMAIN conns[p.conn].down : HarmlessDown(conns[p.conn].down[i])
          /\ InOrder(conns[p.conn].up, score.points, p.points)

GrowInv ==
    author # Nobody =>
        /\ author \in Device
        /\ field # NoMatch /\ score.match = field
        /\ marker # field => Ahead(author)

-----------------------------------------------------------------------------
(* Types. *)

BoardTyped == pages \in [Device -> PageType] /\ conns \in [Conn -> ConnType]

HostTyped ==
    /\ active \in 0 .. MaxConns
    /\ scored \in BOOLEAN
    /\ score \in StandType /\ mirror \in StandType
    /\ author \in Device \cup {Nobody}

BtpTyped ==
    /\ field \in Match \cup {NoMatch}
    /\ marker \in Match \cup {NoMatch}
    /\ polled \in Match \cup {NoMatch, Idle}
    /\ writing \subseteq Match /\ inBtp \subseteq Match
    /\ polls \in 0 .. MaxPolls /\ results \in 0 .. MaxResults

LEMMA Bounds ==
    /\ 0 \in 0 .. MaxConns /\ Conn \subseteq 0 .. MaxConns /\ 0 \notin Conn
    /\ Unset \in Points /\ 0 \in Points /\ MaxPoints \in Points
    /\ NoStand \in StandType
<1>1. 0 \in 0 .. MaxConns /\ Conn \subseteq 0 .. MaxConns /\ 0 \notin Conn
  BY SessionAssumption DEF Conn
<1>2. Unset \in Points /\ 0 \in Points /\ MaxPoints \in Points
  BY SessionAssumption DEF Points, Unset
<1> QED  BY <1>1, <1>2 DEF NoStand, StandType

LEMMA TypeParts == TypeOK <=> BoardTyped /\ HostTyped /\ BtpTyped
  BY DEF TypeOK, BoardTyped, HostTyped, BtpTyped

LEMMA StandTyped == ASSUME NEW p \in PageType PROVE Stand(p) \in StandType
  BY DEF Stand, StandType, PageType

LEMMA PageSaysTyped ==
    ASSUME NEW p \in PageType
    PROVE  ScoreUpdate(p) \in Seq(UpFrame) /\ PersistState(p) \in Seq(UpFrame)
<1>1. \A t \in {"score_update", "state_sync"} : ToHost(t, Stand(p)) \in UpFrame
  BY StandTyped DEF ToHost, UpFrame
<1>2. \A x \in UpFrame : <<x>> \in Seq(UpFrame)
  OBVIOUS
<1> QED  BY <1>1, <1>2, EmptySeq DEF ScoreUpdate, PersistState

LEMMA JoinTyped ==
    ASSUME NEW S, NEW q \in Seq(S), NEW f \in Seq(S)
    PROVE  q \o f \in Seq(S)
  BY ConcatProperties

LEMMA JoinElements ==
    ASSUME NEW S, NEW q \in Seq(S), NEW f \in Seq(S)
    PROVE  /\ \A i \in DOMAIN (q \o f) :
                 \/ i \in DOMAIN q /\ (q \o f)[i] = q[i]
                 \/ \E j \in DOMAIN f : i = Len(q) + j /\ (q \o f)[i] = f[j]
           /\ \A j \in DOMAIN q : j \in DOMAIN (q \o f) /\ (q \o f)[j] = q[j]
           /\ \A j \in DOMAIN f :
                 Len(q) + j \in DOMAIN (q \o f) /\ (q \o f)[Len(q) + j] = f[j]
<1>1. /\ q \o f \in Seq(S) /\ Len(q \o f) = Len(q) + Len(f)
      /\ \A i \in 1 .. Len(q) + Len(f) :
            (q \o f)[i] = IF i <= Len(q) THEN q[i] ELSE f[i - Len(q)]
  BY ConcatProperties
<1>2. /\ DOMAIN q = 1 .. Len(q) /\ DOMAIN f = 1 .. Len(f)
      /\ DOMAIN (q \o f) = 1 .. Len(q) + Len(f)
      /\ Len(q) \in Nat /\ Len(f) \in Nat
  BY <1>1
<1> DEFINE x == q \o f
<1> HIDE DEF x
<1>3. ASSUME NEW i \in 1 .. Len(q) + Len(f)
      PROVE  \/ i \in DOMAIN q /\ x[i] = q[i]
             \/ \E j \in DOMAIN f : i = Len(q) + j /\ x[i] = f[j]
  <2>1. CASE i <= Len(q)
    BY <1>1, <1>2, <2>1 DEF x
  <2>2. CASE ~(i <= Len(q))
    <3>1. i - Len(q) \in DOMAIN f /\ x[i] = f[i - Len(q)]
          /\ i = Len(q) + (i - Len(q))
      BY <1>1, <1>2, <2>2 DEF x
    <3> QED  BY <3>1
  <2> QED  BY <2>1, <2>2
<1>4. ASSUME NEW j \in DOMAIN q PROVE j \in DOMAIN x /\ x[j] = q[j]
  BY <1>1, <1>2 DEF x
<1>5. ASSUME NEW j \in DOMAIN f
      PROVE  Len(q) + j \in DOMAIN x /\ x[Len(q) + j] = f[j]
  <2>1. /\ Len(q) + j \in 1 .. Len(q) + Len(f) /\ ~(Len(q) + j <= Len(q))
        /\ (Len(q) + j) - Len(q) = j
    BY <1>2
  <2> QED  BY <1>1, <1>2, <2>1 DEF x
<1> QED  BY <1>2, <1>3, <1>4, <1>5 DEF x

LEMMA TailElements ==
    ASSUME NEW S, NEW q \in Seq(S), q # <<>>
    PROVE  /\ Head(q) = q[1] /\ 1 \in DOMAIN q /\ Tail(q) \in Seq(S)
           /\ \A i \in DOMAIN Tail(q) :
                 i \in Nat /\ i + 1 \in DOMAIN q /\ Tail(q)[i] = q[i + 1]
           /\ \A j \in DOMAIN q : j # 1 =>
                 j \in Nat /\ j - 1 \in DOMAIN Tail(q) /\ Tail(q)[j - 1] = q[j]
<1>1. /\ Tail(q) \in Seq(S) /\ Len(Tail(q)) = Len(q) - 1 /\ Len(q) \in Nat \ {0}
      /\ \A i \in 1 .. Len(Tail(q)) : Tail(q)[i] = q[i + 1]
  BY HeadTailProperties, EmptySeq
<1>2. DOMAIN q = 1 .. Len(q) /\ DOMAIN Tail(q) = 1 .. Len(q) - 1
  BY <1>1
<1> QED  BY <1>1, <1>2

LEMMA PageSendsTyped ==
    ASSUME TypeOK, NEW d \in Device, NEW p \in PageType,
           NEW f \in Seq(UpFrame), PageSends(d, p, f)
    PROVE  BoardTyped'
<1>1. pages' \in [Device -> PageType]
  BY DEF PageSends, TypeOK
<1>2. CASE p.conn = 0
  BY <1>1, <1>2 DEF PageSends, TypeOK, BoardTyped
<1>3. CASE p.conn # 0
  <2> DEFINE r == conns[p.conn]
             s == [r EXCEPT !.up = r.up \o f]
  <2>1. p.conn \in Conn /\ r \in ConnType
    BY <1>3 DEF PageType, Conn, TypeOK
  <2>2. r.up \o f \in Seq(UpFrame)
    BY <2>1, JoinTyped DEF ConnType
  <2>3. s \in ConnType
    BY <2>1, <2>2 DEF ConnType
  <2>4. conns' = [conns EXCEPT ![p.conn] = s]
    BY <1>3 DEF PageSends
  <2> HIDE DEF s
  <2> QED  BY <1>1, <2>1, <2>3, <2>4 DEF TypeOK, BoardTyped
<1> QED  BY <1>2, <1>3

LEMMA PageAnswersTyped ==
    ASSUME TypeOK, NEW d \in Device, NEW p \in PageType,
           NEW f \in Seq(UpFrame), PageAnswers(d, p, f), p.conn \in Conn,
           conns[p.conn].down # <<>>
    PROVE  BoardTyped'
<1>1. pages' \in [Device -> PageType]
  BY DEF PageAnswers, TypeOK
<1> DEFINE r == conns[p.conn]
           s == [r EXCEPT !.down = Tail(r.down), !.up = r.up \o f]
<1>2. r \in ConnType
  BY DEF TypeOK
<1>3. r.up \o f \in Seq(UpFrame)
  BY <1>2, JoinTyped DEF ConnType
<1>4. Tail(r.down) \in Seq(DownFrame)
  BY <1>2, HeadTailProperties DEF ConnType
<1>5. s \in ConnType
  BY <1>2, <1>3, <1>4 DEF ConnType
<1>6. conns' = [conns EXCEPT ![p.conn] = s]
  BY DEF PageAnswers
<1> HIDE DEF s
<1> QED  BY <1>1, <1>5, <1>6 DEF TypeOK, BoardTyped

LEMMA HandlerSendsTyped ==
    ASSUME TypeOK, NEW c \in Conn, NEW r \in ConnType,
           NEW f \in Seq(DownFrame), HandlerSends(c, r, f), UNCHANGED pages
    PROVE  BoardTyped'
<1> DEFINE s == IF r.state = "open" THEN [r EXCEPT !.down = r.down \o f]
                ELSE [r EXCEPT !.last = NotSent]
<1>1. r.down \o f \in Seq(DownFrame)
  BY JoinTyped DEF ConnType
<1>2. s \in ConnType
  BY <1>1 DEF ConnType, NotSent, Key
<1>3. conns' = [conns EXCEPT ![c] = s]
  BY DEF HandlerSends
<1> HIDE DEF s
<1> QED  BY <1>2, <1>3 DEF TypeOK, BoardTyped

LEMMA HostSaysTyped ==
    ASSUME TypeOK
    PROVE  /\ PushKey \in Key
           /\ \A k : PushMatch(k) \in Seq(DownFrame)
           /\ \A b \in BOOLEAN : StateRestore(b) \in Seq(DownFrame)
           /\ <<ToPage("court_occupied", NoStand, FALSE)>> \in Seq(DownFrame)
           /\ <<ToPage("session_superseded", NoStand, FALSE)>> \in Seq(DownFrame)
           /\ <<>> \in Seq(DownFrame)
<1>1. \A x \in DownFrame : <<x>> \in Seq(DownFrame)
  OBVIOUS
<1>2. <<>> \in Seq(DownFrame)
  OBVIOUS
<1>3. PushKey \in Key
  BY DEF PushKey, Key, NoKey, TypeOK
<1>4. Unset \in Points /\ NoStand \in StandType
  BY SessionAssumption DEF Unset, Points, NoStand, StandType
<1>5. \A s \in StandType, b \in BOOLEAN,
         t \in {"state_restore", "match_assigned", "match_cleared",
                "court_occupied", "session_superseded"} :
         ToPage(t, s, b) \in DownFrame
  BY DEF ToPage, DownFrame
<1>6. ASSUME NEW k PROVE PushMatch(k) \in Seq(DownFrame)
  <2>1. [match |-> PushKey.match, points |-> Unset] \in StandType
        /\ PushKey.finalized \in BOOLEAN
    BY <1>3, <1>4 DEF StandType, Key
  <2>2. <<ToPage("match_assigned", [match |-> PushKey.match, points |-> Unset],
                 PushKey.finalized)>> \in Seq(DownFrame)
    BY <1>1, <1>5, <2>1
  <2>3. <<ToPage("match_cleared", NoStand, FALSE)>> \in Seq(DownFrame)
    BY <1>1, <1>4, <1>5
  <2> QED  BY <1>2, <2>2, <2>3 DEF PushMatch
<1>7. ASSUME NEW b \in BOOLEAN PROVE StateRestore(b) \in Seq(DownFrame)
  <2>1. mirror \in StandType
    BY DEF TypeOK
  <2> QED  BY <1>1, <1>2, <1>5, <2>1 DEF StateRestore
<1> QED  BY <1>1, <1>2, <1>3, <1>4, <1>5, <1>6, <1>7

(* What a page does of its own, without being told anything: it keeps its    *)
(* match, its points do not fall, and every stand it sends is its own.       *)
PageActs(d) ==
    \E p \in PageType, f \in Seq(UpFrame) :
        /\ PageSends(d, p, f)
        /\ p.conn = pages[d].conn
        /\ p.match = pages[d].match /\ p.finalized = pages[d].finalized
        /\ pages[d].points <= p.points
        /\ \A i \in DOMAIN f : f[i].type \in {"score_update", "state_sync"}
                => f[i].stand = Stand(p) /\ p.match # NoMatch
        /\ \/ /\ p.locked = pages[d].locked /\ p.occupied = pages[d].occupied
              /\ p.points # pages[d].points =>
                    /\ ~p.finalized => Has(f, "score_update")
                    /\ ~p.finalized => Has(f, "state_sync")
           \/ /\ pages[d].occupied /\ ~pages[d].locked /\ Has(f, "take_over")
              /\ p.points = pages[d].points

LEMMA CountingActs ==
    ASSUME TypeOK, NEW d \in Device, NEW p \in PageType,
           PageSends(d, p, PersistState(p) \o ScoreUpdate(p)),
           p.conn = pages[d].conn, p.match = pages[d].match, p.match # NoMatch,
           p.finalized = pages[d].finalized, p.points # Unset,
           pages[d].points <= p.points, ~p.locked, ~p.occupied,
           p.locked = pages[d].locked, p.occupied = pages[d].occupied
    PROVE  PageActs(d)
<1> DEFINE f == PersistState(p) \o ScoreUpdate(p)
<1>1. f \in Seq(UpFrame)
  BY PageSaysTyped, JoinTyped
<1>2. CASE p.finalized
  <2>1. f = <<>>
    BY <1>2 DEF PersistState, ScoreUpdate
  <2>2. DOMAIN f = {}
    BY <2>1
  <2> HIDE DEF f
  <2>3. PageSends(d, p, f)
    BY DEF f
  <2> QED  BY <1>1, <1>2, <2>2, <2>3 DEF PageActs
<1>3. CASE ~p.finalized
  <2>1. /\ PersistState(p) = <<ToHost("state_sync", Stand(p))>>
        /\ ScoreUpdate(p) = <<ToHost("score_update", Stand(p))>>
    BY <1>3 DEF PersistState, ScoreUpdate
  <2>2. DOMAIN f = 1 .. 2 /\ f[1] = ToHost("state_sync", Stand(p))
          /\ f[2] = ToHost("score_update", Stand(p))
    BY <2>1, PageSaysTyped, ConcatProperties
  <2>3. /\ \A i \in DOMAIN f : f[i].stand = Stand(p)
        /\ f[1].type = "state_sync" /\ f[2].type = "score_update"
    BY <2>2 DEF ToHost
  <2>4. Has(f, "score_update") /\ Has(f, "state_sync")
    BY <2>2, <2>3 DEF Has
  <2> HIDE DEF f
  <2> QED  BY <1>1, <2>3, <2>4 DEF PageActs, f
<1> QED  BY <1>2, <1>3

LEMMA FinalizeSetupActs ==
    ASSUME TypeOK, NEW d \in Device, FinalizeSetup(d)
    PROVE  PageActs(d)
<1> DEFINE p == [pages[d] EXCEPT !.points = 0]
<1>1. pages[d] \in PageType /\ 0 \in Points
  BY SessionAssumption DEF TypeOK, Points, Unset
<1>2. p \in PageType /\ p.points = 0 /\ pages[d].points = Unset
  BY <1>1 DEF PageType, FinalizeSetup
<1>3. PageSends(d, p, PersistState(p) \o ScoreUpdate(p))
  BY DEF FinalizeSetup
<1>4. /\ p.conn = pages[d].conn /\ p.match = pages[d].match
      /\ p.finalized = pages[d].finalized /\ p.locked = pages[d].locked
      /\ p.occupied = pages[d].occupied
  BY <1>1 DEF PageType
<1>5. p.match # NoMatch /\ ~p.locked /\ ~p.occupied
  BY <1>4 DEF FinalizeSetup
<1>6. p.points # Unset /\ pages[d].points <= p.points
  BY <1>2 DEF Unset
<1> HIDE DEF p
<1> QED  BY <1>2, <1>3, <1>4, <1>5, <1>6, CountingActs

LEMMA AddPointActs ==
    ASSUME TypeOK, NEW d \in Device, AddPoint(d)
    PROVE  PageActs(d)
<1> DEFINE p == [pages[d] EXCEPT !.points = @ + 1]
<1>1. pages[d] \in PageType /\ MaxPoints \in Nat
  BY SessionAssumption DEF TypeOK
<1>2. pages[d].points \in 0 .. MaxPoints - 1
  BY DEF AddPoint
<1>3. pages[d].points + 1 \in Points
  BY <1>1, <1>2 DEF Points, Unset
<1>4. p \in PageType /\ p.points = pages[d].points + 1
  BY <1>1, <1>3 DEF PageType
<1>5. PageSends(d, p, PersistState(p) \o ScoreUpdate(p))
  BY DEF AddPoint
<1>6. /\ p.conn = pages[d].conn /\ p.match = pages[d].match
      /\ p.finalized = pages[d].finalized /\ p.locked = pages[d].locked
      /\ p.occupied = pages[d].occupied
  BY <1>1 DEF PageType
<1>7. p.match # NoMatch /\ ~p.locked /\ ~p.occupied
  BY <1>6 DEF AddPoint
<1>8. p.points # Unset /\ pages[d].points <= p.points
  BY <1>1, <1>2, <1>4 DEF Unset
<1> HIDE DEF p
<1> QED  BY <1>4, <1>5, <1>6, <1>7, <1>8, CountingActs

LEMMA AskingActs ==
    ASSUME TypeOK, NEW d \in Device, Reidentify(d) \/ TakeOver(d)
    PROVE  PageActs(d)
<1>1. pages[d] \in PageType /\ pages[d].points <= pages[d].points
  BY DEF TypeOK, PageType, Points, Unset
<1>2. \A t \in {"identify", "take_over"} :
          /\ <<ToHost(t, NoStand)>> \in Seq(UpFrame)
          /\ \A i \in DOMAIN <<ToHost(t, NoStand)>> :
                <<ToHost(t, NoStand)>>[i].type = t
  <2>1. ASSUME NEW t \in {"identify", "take_over"}
        PROVE  ToHost(t, NoStand) \in UpFrame /\ ToHost(t, NoStand).type = t
    BY SessionAssumption DEF ToHost, UpFrame, NoStand, StandType, Points, Unset
  <2> QED  BY <2>1
<1>3. CASE Reidentify(d)
  <2>1. PageSends(d, pages[d], <<ToHost("identify", NoStand)>>)
    BY <1>3 DEF Reidentify
  <2> QED  BY <1>1, <1>2, <2>1 DEF PageActs
<1>4. CASE TakeOver(d)
  <2> DEFINE p == [pages[d] EXCEPT !.retry = FALSE, !.occupied = FALSE,
                                   !.locked = FALSE]
             f == <<ToHost("take_over", NoStand)>>
  <2>1. p \in PageType
    BY <1>1 DEF PageType
  <2>2. PageSends(d, p, f) /\ pages[d].occupied /\ ~pages[d].locked
    BY <1>4 DEF TakeOver
  <2>3. p.conn = pages[d].conn /\ p.match = pages[d].match
        /\ p.finalized = pages[d].finalized /\ p.points = pages[d].points
    BY <1>1 DEF PageType
  <2>4. f \in Seq(UpFrame) /\ \A i \in DOMAIN f : f[i].type = "take_over"
    BY <1>2
  <2>5. Has(f, "take_over")
    BY <2>4 DEF Has
  <2> HIDE DEF p, f
  <2> QED  BY <1>1, <2>1, <2>2, <2>3, <2>4, <2>5 DEF PageActs
<1> QED  BY <1>3, <1>4

LEMMA ResultActs ==
    ASSUME TypeOK, NEW d \in Device, PostResult(d) \/ ResultConfirmed(d)
    PROVE  PageActs(d)
<1>1. pages[d] \in PageType /\ pages[d].points <= pages[d].points
  BY DEF TypeOK, PageType, Points, Unset
<1>2. PICK m \in Match \cup {NoMatch} :
          PageSends(d, [pages[d] EXCEPT !.asked = m], PersistState(pages[d]))
  <2>1. CASE PostResult(d)
    BY <2>1, <1>1 DEF PostResult, PageType
  <2>2. CASE ResultConfirmed(d)
    BY <2>2, <1>1 DEF ResultConfirmed, PageType
  <2> QED  BY <2>1, <2>2
<1> DEFINE p == [pages[d] EXCEPT !.asked = m]
           f == PersistState(pages[d])
<1>3. p \in PageType
  BY <1>1 DEF PageType
<1>4. p.conn = pages[d].conn /\ p.match = pages[d].match
      /\ p.finalized = pages[d].finalized /\ p.points = pages[d].points
      /\ p.locked = pages[d].locked /\ p.occupied = pages[d].occupied
  BY <1>1 DEF PageType
<1>5. Stand(p) = Stand(pages[d])
  BY <1>4 DEF Stand
<1>6. f \in Seq(UpFrame) /\ \A i \in DOMAIN f : f[i].stand = Stand(p)
                                               /\ p.match # NoMatch
  BY <1>1, <1>4, <1>5, PageSaysTyped DEF PersistState, ToHost
<1>7. PageSends(d, p, f)
  BY <1>2
<1> HIDE DEF p, f
<1> QED  BY <1>1, <1>3, <1>4, <1>6, <1>7 DEF PageActs

-----------------------------------------------------------------------------
(* The board - pages and connections - after a step of each kind. *)

SameLocals(c) ==
    /\ conns'[c].dev = conns[c].dev /\ conns'[c].state = conns[c].state
    /\ conns'[c].court = conns[c].court /\ conns'[c].token = conns[c].token
    /\ conns'[c].superseded = conns[c].superseded
    /\ conns'[c].last = conns[c].last

OtherPagesKept(d) == \A e \in Device : e # d => pages'[e] = pages[e]

LEMMA SendsBoard ==
    ASSUME TypeOK, NEW d \in Device, NEW p \in PageType,
           NEW f \in Seq(UpFrame), PageSends(d, p, f)
    PROVE  /\ BoardTyped'
           /\ pages'[d] = p /\ OtherPagesKept(d)
           /\ \A c \in Conn :
                 /\ SameLocals(c) /\ conns'[c].down = conns[c].down
                 /\ conns'[c].up = IF c = p.conn THEN conns[c].up \o f
                                   ELSE conns[c].up
<1>1. BoardTyped'
  BY PageSendsTyped
<1>2. pages'[d] = p /\ OtherPagesKept(d)
  BY DEF PageSends, TypeOK, OtherPagesKept
<1>3. ASSUME NEW c \in Conn
      PROVE  /\ SameLocals(c) /\ conns'[c].down = conns[c].down
             /\ conns'[c].up = IF c = p.conn THEN conns[c].up \o f
                               ELSE conns[c].up
  <2>1. conns[c] \in ConnType /\ c # 0
    BY SessionAssumption DEF TypeOK, Conn
  <2>2. CASE c = p.conn
    <3>1. conns'[c] = [conns[c] EXCEPT !.up = conns[c].up \o f]
      BY <2>1, <2>2 DEF PageSends, TypeOK
    <3> QED  BY <2>1, <2>2, <3>1 DEF ConnType, SameLocals
  <2>3. CASE c # p.conn
    <3>1. conns'[c] = conns[c]
      BY <2>3 DEF PageSends, TypeOK
    <3> QED  BY <2>3, <3>1 DEF SameLocals
  <2> QED  BY <2>2, <2>3
<1> QED  BY <1>1, <1>2, <1>3

LEMMA AnswersBoard ==
    ASSUME TypeOK, NEW d \in Device, NEW p \in PageType,
           NEW f \in Seq(UpFrame), PageAnswers(d, p, f), p.conn \in Conn,
           conns[p.conn].down # <<>>
    PROVE  /\ BoardTyped'
           /\ pages'[d] = p /\ OtherPagesKept(d)
           /\ \A c \in Conn :
                 /\ SameLocals(c)
                 /\ conns'[c].down = IF c = p.conn THEN Tail(conns[c].down)
                                     ELSE conns[c].down
                 /\ conns'[c].up = IF c = p.conn THEN conns[c].up \o f
                                   ELSE conns[c].up
<1>1. BoardTyped'
  BY PageAnswersTyped
<1>2. pages'[d] = p /\ OtherPagesKept(d)
  BY DEF PageAnswers, TypeOK, OtherPagesKept
<1>3. ASSUME NEW c \in Conn
      PROVE  /\ SameLocals(c)
             /\ conns'[c].down = IF c = p.conn THEN Tail(conns[c].down)
                                 ELSE conns[c].down
             /\ conns'[c].up = IF c = p.conn THEN conns[c].up \o f
                               ELSE conns[c].up
  <2>1. conns[c] \in ConnType
    BY DEF TypeOK
  <2>2. CASE c = p.conn
    <3>1. conns'[c] = [conns[c] EXCEPT !.down = Tail(conns[c].down),
                                       !.up = conns[c].up \o f]
      BY <2>1, <2>2 DEF PageAnswers, TypeOK
    <3> QED  BY <2>1, <2>2, <3>1 DEF ConnType, SameLocals
  <2>3. CASE c # p.conn
    <3>1. conns'[c] = conns[c]
      BY <2>3 DEF PageAnswers, TypeOK
    <3> QED  BY <2>3, <3>1 DEF SameLocals
  <2> QED  BY <2>2, <2>3
<1> QED  BY <1>1, <1>2, <1>3

LEMMA HandlerBoard ==
    ASSUME TypeOK, NEW c \in Conn, NEW r \in ConnType,
           NEW f \in Seq(DownFrame), HandlerSends(c, r, f), UNCHANGED pages
    PROVE  /\ BoardTyped'
           /\ \A b \in Conn : b # c => conns'[b] = conns[b]
           /\ conns'[c].dev = r.dev /\ conns'[c].state = r.state
           /\ conns'[c].court = r.court /\ conns'[c].token = r.token
           /\ conns'[c].superseded = r.superseded /\ conns'[c].up = r.up
           /\ r.state = "open" => /\ conns'[c].last = r.last
                                  /\ conns'[c].down = r.down \o f
           /\ r.state # "open" => conns'[c].down = r.down
<1>1. BoardTyped'
  BY HandlerSendsTyped
<1>2. \A b \in Conn : b # c => conns'[b] = conns[b]
  BY DEF HandlerSends, TypeOK
<1>3. conns'[c] = IF r.state = "open" THEN [r EXCEPT !.down = r.down \o f]
                  ELSE [r EXCEPT !.last = NotSent]
  BY DEF HandlerSends, TypeOK
<1> QED  BY <1>1, <1>2, <1>3 DEF ConnType

(* The page of d has left its connection, with the stand it had. *)
PageLeaves(d) ==
    /\ BoardTyped' /\ OtherPagesKept(d)
    /\ pages[d].conn \in Conn
    /\ pages'[d].conn = 0 /\ Stand(pages'[d]) = Stand(pages[d])
    /\ \A c \in Conn :
          IF c = pages[d].conn
          THEN /\ conns'[c].state = "cut" /\ conns'[c].down = <<>>
               /\ conns'[c].dev = conns[c].dev /\ conns'[c].token = conns[c].token
               /\ conns'[c].up = conns[c].up
          ELSE conns'[c] = conns[c]

LEMMA LeavingBoard ==
    ASSUME TypeOK, NEW d \in Device, DropLink(d) \/ Reload(d)
    PROVE  PageLeaves(d)
<1> DEFINE b == pages[d].conn
           r == [conns[b] EXCEPT !.state = "cut", !.down = <<>>]
<1>1. pages[d] \in PageType /\ b \in Conn
  BY DEF DropLink, Reload, TypeOK, PageType, Conn
<1>2. conns[b] \in ConnType
  BY <1>1 DEF TypeOK
<1>3. r \in ConnType
  BY <1>2, EmptySeq DEF ConnType
<1>4. conns' = [conns EXCEPT ![b] = r]
  BY DEF DropLink, Reload
<1>5. PICK q \in PageType : /\ pages' = [pages EXCEPT ![d] = q]
                            /\ q.conn = 0 /\ Stand(q) = Stand(pages[d])
  <2>1. CASE DropLink(d)
    <3> DEFINE q == [pages[d] EXCEPT !.conn = 0, !.retry = FALSE]
    <3>1. q \in PageType /\ q.conn = 0 /\ Stand(q) = Stand(pages[d])
      BY <1>1, Bounds DEF PageType, Stand
    <3>2. pages' = [pages EXCEPT ![d] = q]
      BY <2>1 DEF DropLink
    <3> HIDE DEF q
    <3> QED  BY <3>1, <3>2
  <2>2. CASE Reload(d)
    <3> DEFINE k == IF pages[d].match = NoMatch THEN NoMatch ELSE pages[d].asked
               q == [FreshPage EXCEPT !.match = pages[d].match,
                                      !.points = pages[d].points, !.asked = k]
    <3>1. k \in Match \cup {NoMatch}
      BY <1>1 DEF PageType
    <3> HIDE DEF k
    <3>2. q \in PageType /\ q.conn = 0 /\ Stand(q) = Stand(pages[d])
      BY <1>1, <3>1, Bounds DEF PageType, Stand, FreshPage
    <3>3. pages' = [pages EXCEPT ![d] = q]
      BY <2>2 DEF Reload, k
    <3> HIDE DEF q
    <3> QED  BY <3>2, <3>3
  <2> QED  BY <2>1, <2>2
<1>6. r.state = "cut" /\ r.down = <<>> /\ r.dev = conns[b].dev
      /\ r.token = conns[b].token /\ r.up = conns[b].up
  BY <1>2 DEF ConnType
<1> HIDE DEF r
<1>7. BoardTyped' /\ OtherPagesKept(d) /\ pages'[d] = q
  BY <1>1, <1>3, <1>4, <1>5 DEF TypeOK, BoardTyped, OtherPagesKept
<1>8. conns'[b] = r /\ \A c \in Conn : c # b => conns'[c] = conns[c]
  BY <1>1, <1>4 DEF TypeOK
<1> QED  BY <1>1, <1>5, <1>6, <1>7, <1>8 DEF PageLeaves

(* The page of d, with the stand it had, is on a new connection, brings that *)
(* stand and is told nothing yet.                                           *)
PageJoins(d) ==
    \E c \in Conn, p \in PageType :
        /\ BoardTyped' /\ OtherPagesKept(d) /\ pages'[d] = p
        /\ pages[d].conn = 0 /\ p.conn = c /\ Stand(p) = Stand(pages[d])
        /\ conns[c].state = "new"
        /\ \A b \in Conn : b # c => conns'[b] = conns[b]
        /\ conns'[c].dev = d /\ conns'[c].state = "open"
        /\ ~conns'[c].court /\ ~conns'[c].token /\ ~conns'[c].superseded
        /\ conns'[c].down = <<>>
        /\ \A i \in DOMAIN conns'[c].up :
              conns'[c].up[i].type = "score_update"
                  => conns'[c].up[i].stand = Stand(p) /\ p.match # NoMatch

LEMMA JoiningBoard ==
    ASSUME TypeOK, NEW d \in Device, Connect(d)
    PROVE  PageJoins(d)
<1> DEFINE P(c) == [pages[d] EXCEPT !.conn = c, !.locked = FALSE, !.occupied = FALSE]
           F(c) == <<ToHost("identify", NoStand)>>
                       \o ScoreUpdate(P(c)) \o PersistState(P(c))
           R(c) == [New EXCEPT !.dev = d, !.state = "open", !.up = F(c)]
<1>1. PICK c \in Conn :
          /\ pages[d].conn = 0 /\ conns[c].state = "new"
          /\ pages' = [pages EXCEPT ![d] = P(c)]
          /\ conns' = [conns EXCEPT ![c] = R(c)]
  BY DEF Connect
<1> DEFINE p == P(c)
           f == F(c)
           r == R(c)
<1>2. pages[d] \in PageType
  BY DEF TypeOK
<1>3. p \in PageType /\ p.conn = c /\ Stand(p) = Stand(pages[d])
  BY <1>2, Bounds DEF PageType, Stand
<1> DEFINE g == ToHost("identify", NoStand)
           h == <<g>> \o ScoreUpdate(p)
<1>4. g \in UpFrame /\ g.type = "identify"
  BY Bounds DEF ToHost, UpFrame
<1>5. <<g>> \in Seq(UpFrame) /\ h \in Seq(UpFrame) /\ f \in Seq(UpFrame)
  <2> HIDE DEF p, g
  <2>1. ScoreUpdate(p) \in Seq(UpFrame) /\ PersistState(p) \in Seq(UpFrame)
    BY <1>3, PageSaysTyped
  <2>2. <<g>> \in Seq(UpFrame)
    BY <1>4
  <2>3. h \in Seq(UpFrame)
    BY <2>1, <2>2, JoinTyped
  <2>4. h \o PersistState(p) \in Seq(UpFrame)
    <3> HIDE DEF h
    <3> QED  BY <2>1, <2>3, JoinTyped
  <2> QED  BY <2>2, <2>3, <2>4 DEF g, p
<1>6. \A i \in DOMAIN f : f[i].type = "score_update"
                             => f[i].stand = Stand(p) /\ p.match # NoMatch
  <2>1. \A x \in {ScoreUpdate(p), PersistState(p)} : \A i \in DOMAIN x :
            x[i].stand = Stand(p) /\ p.match # NoMatch
    BY DEF ScoreUpdate, PersistState, ToHost
  <2>2. f = h \o PersistState(p)
    OBVIOUS
  <2> HIDE DEF p, f, g
  <2>3. \A i \in DOMAIN <<g>> : <<g>>[i] = g
    OBVIOUS
  <2>4. \A i \in DOMAIN h :
            h[i] = g \/ \E j \in DOMAIN ScoreUpdate(p) : h[i] = ScoreUpdate(p)[j]
    BY <1>3, <1>5, <2>3, PageSaysTyped, JoinElements
  <2> HIDE DEF h
  <2>5. \A i \in DOMAIN f :
            \/ \E j \in DOMAIN h : f[i] = h[j]
            \/ \E j \in DOMAIN PersistState(p) : f[i] = PersistState(p)[j]
    BY <1>3, <1>5, <2>2, PageSaysTyped, JoinElements
  <2> QED  BY <1>4, <2>1, <2>4, <2>5
<1>7. NotSent \in Key /\ <<>> \in Seq(DownFrame)
  BY DEF NotSent, Key
<1> HIDE DEF f, F
<1>8. r \in ConnType
  BY <1>5, <1>7 DEF f, ConnType, New
<1>9. r.dev = d /\ r.state = "open" /\ ~r.court /\ ~r.token /\ ~r.superseded
      /\ r.down = <<>> /\ r.up = f
  BY DEF New, f
<1> HIDE DEF p, r, P, R
<1>10. pages' = [pages EXCEPT ![d] = p] /\ conns' = [conns EXCEPT ![c] = r]
  BY <1>1 DEF p, r
<1>11. BoardTyped' /\ OtherPagesKept(d) /\ pages'[d] = p
  BY <1>3, <1>8, <1>10 DEF TypeOK, BoardTyped, OtherPagesKept
<1>12. conns'[c] = r /\ \A b \in Conn : b # c => conns'[b] = conns[b]
  BY <1>10 DEF TypeOK
<1> QED  BY <1>1, <1>3, <1>6, <1>9, <1>11, <1>12 DEF PageJoins

(* The handler of c is gone, and its page, if any, has no connection. *)
LEMMA EndingBoard ==
    ASSUME TypeOK, NEW c \in Conn, HandlerEnds(c)
    PROVE  /\ BoardTyped'
           /\ \A d \in Device : pages[d].conn # c => pages'[d] = pages[d]
           /\ \A d \in Device : pages[d].conn = c =>
                 pages'[d].conn = 0 /\ Stand(pages'[d]) = Stand(pages[d])
           /\ \A b \in Conn : b # c => conns'[b] = conns[b]
           /\ conns'[c].state = "closed" /\ ~conns'[c].token /\ conns'[c].up = <<>>
<1>1. Closed \in ConnType /\ Closed.state = "closed" /\ ~Closed.token
      /\ Closed.up = <<>>
  <2>1. NotSent \in Key /\ <<>> \in Seq(DownFrame) /\ <<>> \in Seq(UpFrame)
    BY DEF NotSent, Key
  <2> QED  BY <2>1 DEF Closed, New, ConnType
<1>2. conns' = [conns EXCEPT ![c] = Closed]
  BY DEF HandlerEnds
<1>3. ASSUME NEW d \in Device
      PROVE  /\ pages'[d] \in PageType
             /\ pages[d].conn # c => pages'[d] = pages[d]
             /\ pages[d].conn = c =>
                   pages'[d].conn = 0 /\ Stand(pages'[d]) = Stand(pages[d])
  <2>1. pages[d] \in PageType
    BY DEF TypeOK
  <2>2. CASE pages[d].conn = c
    <3> DEFINE q == [pages[d] EXCEPT !.conn = 0, !.retry = FALSE]
    <3>1. q \in PageType /\ q.conn = 0 /\ Stand(q) = Stand(pages[d])
      BY <2>1, Bounds DEF PageType, Stand
    <3>2. pages'[d] = q
      BY <2>2 DEF HandlerEnds
    <3> HIDE DEF q
    <3> QED  BY <2>2, <3>1, <3>2
  <2> QED  BY <2>1, <2>2 DEF HandlerEnds
<1>4. pages' \in [Device -> PageType]
  <2>1. pages' = [d \in Device |-> pages'[d]]
    BY DEF HandlerEnds
  <2> QED  BY <1>3, <2>1
<1> QED  BY <1>1, <1>2, <1>3, <1>4 DEF TypeOK, BoardTyped

OwnFrames(f, p) ==
    \A i \in DOMAIN f : /\ f[i].type \in {"score_update", "state_sync"}
                       /\ f[i].stand = Stand(p) /\ p.match # NoMatch

LEMMA PageSaysOwn ==
    ASSUME NEW p \in PageType,
           NEW f \in {<<>>, PersistState(p), ScoreUpdate(p) \o PersistState(p),
                      PersistState(p) \o ScoreUpdate(p)}
    PROVE  f \in Seq(UpFrame) /\ OwnFrames(f, p)
<1> DEFINE x == ScoreUpdate(p)
           y == PersistState(p)
<1>1. x \in Seq(UpFrame) /\ y \in Seq(UpFrame) /\ <<>> \in Seq(UpFrame)
  BY PageSaysTyped
<1>2. OwnFrames(x, p) /\ OwnFrames(y, p) /\ OwnFrames(<<>>, p)
  BY DEF ScoreUpdate, PersistState, ToHost, OwnFrames
<1> HIDE DEF x, y
<1>3. \A a, b \in Seq(UpFrame) : OwnFrames(a, p) /\ OwnFrames(b, p)
          => a \o b \in Seq(UpFrame) /\ OwnFrames(a \o b, p)
  <2>1. ASSUME NEW a \in Seq(UpFrame), NEW b \in Seq(UpFrame),
               OwnFrames(a, p), OwnFrames(b, p)
        PROVE  OwnFrames(a \o b, p)
    <3>1. \A i \in DOMAIN (a \o b) :
            \/ i \in DOMAIN a /\ (a \o b)[i] = a[i]
            \/ \E j \in DOMAIN b : (a \o b)[i] = b[j]
      BY JoinElements
    <3> QED  BY <2>1, <3>1 DEF OwnFrames
  <2> QED  BY <2>1, JoinTyped
<1>4. f \in {<<>>, y, x \o y, y \o x}
  BY DEF x, y
<1> QED  BY <1>1, <1>2, <1>3, <1>4

LEMMA PageSaysAll ==
    ASSUME NEW p \in PageType, p.match # NoMatch, p.points # Unset,
           ~p.finalized, ~p.occupied
    PROVE  /\ Has(ScoreUpdate(p) \o PersistState(p), "score_update")
           /\ ~p.locked => Has(ScoreUpdate(p) \o PersistState(p), "state_sync")
<1>1. /\ ScoreUpdate(p) = <<ToHost("score_update", Stand(p))>>
      /\ ~p.locked => PersistState(p) = <<ToHost("state_sync", Stand(p))>>
  BY DEF ScoreUpdate, PersistState
<1>2. /\ 1 \in DOMAIN ScoreUpdate(p) /\ ScoreUpdate(p)[1].type = "score_update"
      /\ ~p.locked => 1 \in DOMAIN PersistState(p)
                       /\ PersistState(p)[1].type = "state_sync"
  BY <1>1 DEF ToHost
<1> DEFINE x == ScoreUpdate(p)
           y == PersistState(p)
<1>3. x \in Seq(UpFrame) /\ y \in Seq(UpFrame)
  BY PageSaysTyped
<1> HIDE DEF x, y
<1>4. /\ \A j \in DOMAIN x : j \in DOMAIN (x \o y) /\ (x \o y)[j] = x[j]
      /\ \A j \in DOMAIN y :
            Len(x) + j \in DOMAIN (x \o y) /\ (x \o y)[Len(x) + j] = y[j]
  BY <1>3, JoinElements
<1>5. Has(x \o y, "score_update")
  BY <1>2, <1>4 DEF Has, x
<1>6. ~p.locked => Has(x \o y, "state_sync")
  BY <1>2, <1>4 DEF Has, y
<1> QED  BY <1>5, <1>6 DEF x, y

(* What a page does when it is told something. *)
Answers(d) ==
    \E p \in PageType, f \in Seq(UpFrame), g \in DownFrame :
        /\ g = Got(d) /\ Received(d, g.type)
        /\ PageAnswers(d, p, f) /\ p.conn = pages[d].conn
        /\ OwnFrames(f, p)
        /\ pages[d].locked \/ g.type = "session_superseded" => p.locked
        /\ g.type = "court_occupied" => p.occupied
        /\ g.type = "match_assigned" =>
              /\ p.match = g.stand.match /\ p.finalized = g.flag /\ ~p.occupied
              /\ ~p.finalized /\ p.match # NoMatch /\ p.points # Unset =>
                    /\ Has(f, "score_update")
                    /\ ~p.locked => Has(f, "state_sync")
        /\ (/\ g.type # "match_cleared"
            /\ g.type = "match_assigned" => g.stand.match = pages[d].match
            /\ g.type = "state_restore" => g.flag)
              => Stand(p) = Stand(pages[d])

LEMMA GotTyped ==
    ASSUME TypeOK, NEW d \in Device, NEW t, Received(d, t)
    PROVE  /\ pages[d] \in PageType /\ pages[d].conn \in Conn
           /\ Got(d) \in DownFrame /\ Got(d).type = t
<1>1. pages[d] \in PageType /\ pages[d].conn \in Conn
  BY DEF Received, TypeOK, PageType, Conn
<1>2. conns[pages[d].conn].down \in Seq(DownFrame)
  BY <1>1 DEF TypeOK, ConnType
<1> QED  BY <1>1, <1>2, HeadTailProperties DEF Received, Got

LEMMA AssignedAnswers ==
    ASSUME TypeOK, NEW d \in Device, ReceiveAssigned(d)
    PROVE  Answers(d)
<1> DEFINE m == Got(d).stand.match
           told == [pages[d] EXCEPT !.retry = FALSE, !.occupied = FALSE]
           loaded == LoadMatch(told, m)
           k == IF Got(d).flag /\ loaded.asked = m THEN NoMatch ELSE loaded.asked
           done == [loaded EXCEPT !.finalized = Got(d).flag, !.asked = k]
           f == IF Got(d).flag
                THEN IF told.match = m THEN <<>> ELSE PersistState(loaded)
                ELSE ScoreUpdate(done) \o PersistState(done)
<1>1. Received(d, "match_assigned")
  BY DEF ReceiveAssigned
<1>2. /\ pages[d] \in PageType /\ pages[d].conn \in Conn
      /\ Got(d) \in DownFrame /\ Got(d).type = "match_assigned"
  BY <1>1, GotTyped
<1>3. m \in Match \cup {NoMatch} /\ Got(d).flag \in BOOLEAN
  BY <1>2 DEF DownFrame, StandType
<1> HIDE DEF m
<1>4. /\ told \in PageType /\ told.conn = pages[d].conn
      /\ told.locked = pages[d].locked /\ ~told.occupied
      /\ told.match = pages[d].match /\ told.points = pages[d].points
  BY <1>2 DEF PageType
<1> HIDE DEF told
<1>5. /\ loaded \in PageType /\ loaded.conn = pages[d].conn
      /\ loaded.locked = pages[d].locked /\ ~loaded.occupied
      /\ loaded.match = m
      /\ m = pages[d].match => loaded.points = pages[d].points
  BY <1>3, <1>4, Bounds DEF PageType, LoadMatch
<1> HIDE DEF loaded
<1>6. k \in Match \cup {NoMatch}
  BY <1>5 DEF PageType
<1> HIDE DEF k
<1>7. /\ done \in PageType /\ done.conn = pages[d].conn
      /\ done.locked = pages[d].locked /\ ~done.occupied
      /\ done.match = m /\ done.finalized = Got(d).flag
      /\ done.points = loaded.points
  BY <1>3, <1>5, <1>6 DEF PageType
<1> HIDE DEF done
<1>8. m = pages[d].match => Stand(done) = Stand(pages[d])
  BY <1>5, <1>7 DEF Stand
<1>9. f \in Seq(UpFrame) /\ OwnFrames(f, done)
  <2>1. Stand(loaded) = Stand(done)
    BY <1>5, <1>7 DEF Stand
  <2>2. PersistState(loaded) \in Seq(UpFrame) /\ OwnFrames(PersistState(loaded), loaded)
    BY <1>5, PageSaysOwn
  <2>3. OwnFrames(PersistState(loaded), done)
    BY <1>5, <1>7, <2>1, <2>2 DEF OwnFrames
  <2>4. /\ ScoreUpdate(done) \o PersistState(done) \in Seq(UpFrame)
        /\ OwnFrames(ScoreUpdate(done) \o PersistState(done), done)
        /\ <<>> \in Seq(UpFrame) /\ OwnFrames(<<>>, done)
    BY <1>7, PageSaysOwn
  <2> QED  BY <2>2, <2>3, <2>4
<1>10. ~done.finalized /\ done.match # NoMatch /\ done.points # Unset
          => Has(f, "score_update") /\ (~done.locked => Has(f, "state_sync"))
  <2>1. SUFFICES ASSUME ~done.finalized, done.match # NoMatch, done.points # Unset
                 PROVE  Has(f, "score_update") /\ (~done.locked => Has(f, "state_sync"))
    OBVIOUS
  <2>2. f = ScoreUpdate(done) \o PersistState(done)
    BY <1>7, <2>1
  <2> QED  BY <1>7, <2>1, <2>2, PageSaysAll
<1>11. PageAnswers(d, done, f)
  BY DEF ReceiveAssigned, done, k, loaded, told, m
<1> HIDE DEF f
<1> DEFINE g == Got(d)
<1>12. /\ g \in DownFrame /\ g = Got(d) /\ Received(d, g.type)
       /\ pages[d].locked \/ g.type = "session_superseded" => done.locked
       /\ g.type = "court_occupied" => done.occupied
       /\ g.stand.match = m /\ done.finalized = g.flag
  BY <1>1, <1>2, <1>7 DEF m
<1>13. g.type = "match_assigned" /\ ~done.occupied /\ done.match = m
  BY <1>2, <1>7
<1> HIDE DEF g
<1> QED  BY <1>7, <1>8, <1>9, <1>10, <1>11, <1>12, <1>13 DEF Answers

LEMMA ToldAnswers ==
    ASSUME TypeOK, NEW d \in Device,
           ReceiveCleared(d) \/ ReceiveOccupied(d) \/ ReceiveSuperseded(d)
    PROVE  Answers(d)
<1>1. PICK t \in {"match_cleared", "court_occupied", "session_superseded"} :
          /\ Received(d, t)
          /\ t = "match_cleared" => ReceiveCleared(d)
          /\ t = "court_occupied" => ReceiveOccupied(d)
          /\ t = "session_superseded" => ReceiveSuperseded(d)
  BY DEF ReceiveCleared, ReceiveOccupied, ReceiveSuperseded
<1> DEFINE g == Got(d)
<1>2. /\ pages[d] \in PageType /\ pages[d].conn \in Conn
      /\ g \in DownFrame /\ g.type = t
  BY <1>1, GotTyped
<1>3. Received(d, g.type) /\ g = Got(d)
  BY <1>1, <1>2
<1> HIDE DEF g
<1>4. <<>> \in Seq(UpFrame) /\ \A p : OwnFrames(<<>>, p)
  BY DEF OwnFrames
<1>5. CASE t = "match_cleared"
  <2> DEFINE q == [pages[d] EXCEPT !.retry = FALSE]
             p == ClearMatch(q)
  <2>1. q \in PageType /\ q.conn = pages[d].conn /\ q.locked = pages[d].locked
    BY <1>2 DEF PageType
  <2> HIDE DEF q
  <2>2. p \in PageType /\ p.conn = pages[d].conn /\ p.locked = pages[d].locked
    BY <2>1, Bounds DEF PageType, ClearMatch
  <2>3. PageAnswers(d, p, <<>>)
    BY <1>1, <1>5 DEF ReceiveCleared, q
  <2> HIDE DEF p
  <2>4. /\ g.type # "court_occupied" /\ g.type # "match_assigned"
        /\ g.type = "match_cleared"
        /\ pages[d].locked \/ g.type = "session_superseded" => p.locked
    BY <1>2, <1>5, <2>2
  <2> QED  BY <1>2, <1>3, <1>4, <2>2, <2>3, <2>4 DEF Answers
<1>6. CASE t = "court_occupied"
  <2> DEFINE k == pages[d].retry \/ pages[d].match # NoMatch
             p == [pages[d] EXCEPT !.occupied = TRUE, !.retry = k]
  <2>1. k \in BOOLEAN
    BY <1>2 DEF PageType
  <2> HIDE DEF k
  <2>2. /\ p \in PageType /\ p.conn = pages[d].conn /\ p.locked = pages[d].locked
        /\ p.occupied /\ Stand(p) = Stand(pages[d])
    BY <1>2, <2>1 DEF PageType, Stand
  <2>3. PageAnswers(d, p, <<>>)
    BY <1>1, <1>2, <1>6 DEF ReceiveOccupied, k, PageType
  <2> HIDE DEF p
  <2> QED  BY <1>2, <1>3, <1>4, <1>6, <2>2, <2>3 DEF Answers
<1>7. CASE t = "session_superseded"
  <2> DEFINE p == [pages[d] EXCEPT !.retry = FALSE, !.locked = TRUE,
                                   !.occupied = FALSE]
  <2>1. /\ p \in PageType /\ p.conn = pages[d].conn /\ p.locked
        /\ Stand(p) = Stand(pages[d])
    BY <1>2 DEF PageType, Stand
  <2>2. PageAnswers(d, p, <<>>)
    BY <1>1, <1>7 DEF ReceiveSuperseded
  <2> HIDE DEF p
  <2> QED  BY <1>2, <1>3, <1>4, <1>7, <2>1, <2>2 DEF Answers
<1> QED  BY <1>5, <1>6, <1>7

LEMMA RestoredAnswers ==
    ASSUME TypeOK, NEW d \in Device, ReceiveRestore(d)
    PROVE  Answers(d)
<1> DEFINE g == Got(d)
<1>1. /\ Received(d, "state_restore") /\ pages[d] \in PageType
      /\ g \in DownFrame /\ g.type = "state_restore"
  BY GotTyped DEF ReceiveRestore
<1>2. Received(d, g.type) /\ g = Got(d)
  BY <1>1
<1>3. CASE g.flag
  <2> DEFINE f == PersistState(pages[d]) \o ScoreUpdate(pages[d])
  <2>1. f \in Seq(UpFrame) /\ OwnFrames(f, pages[d])
    BY <1>1, PageSaysOwn
  <2>2. PageAnswers(d, pages[d], f)
    BY <1>3 DEF ReceiveRestore
  <2>3. pages[d].locked \/ g.type = "session_superseded" => pages[d].locked
    BY <1>1
  <2> HIDE DEF f, g
  <2> QED  BY <1>1, <1>2, <2>1, <2>2, <2>3 DEF Answers
<1>4. CASE ~g.flag
  <2> DEFINE p == ApplyPersistedState(pages[d], g.stand)
             f == PersistState(p)
  <2>1. g.stand \in StandType
    BY <1>1 DEF DownFrame
  <2>2. p \in PageType /\ p.conn = pages[d].conn /\ p.locked = pages[d].locked
    BY <1>1, <2>1 DEF ApplyPersistedState, PageType, StandType
  <2>3. f \in Seq(UpFrame) /\ OwnFrames(f, p)
    BY <2>2, PageSaysOwn
  <2>4. PageAnswers(d, p, f)
    BY <1>4 DEF ReceiveRestore
  <2> HIDE DEF f, p
  <2>5. pages[d].locked \/ g.type = "session_superseded" => p.locked
    BY <1>1, <2>2
  <2> HIDE DEF g
  <2> QED  BY <1>1, <1>2, <1>4, <2>2, <2>3, <2>4, <2>5 DEF Answers
<1> QED  BY <1>3, <1>4

LEMMA ReceiveAnswers ==
    ASSUME TypeOK, NEW d \in Device, Receive(d)
    PROVE  Answers(d)
  BY AssignedAnswers, ToldAnswers, RestoredAnswers DEF Receive

(* What a handler does: a turn of its loop leaves everyone else's connection *)
(* and all pages alone.                                                      *)
Serves(c) ==
    /\ Alive(c) /\ BoardTyped' /\ pages' = pages
    /\ \A b \in Conn : b # c => conns'[b] = conns[b]
    /\ conns'[c].dev = conns[c].dev /\ conns'[c].state = conns[c].state

Reads(c) ==
    /\ conns[c].up # <<>> /\ conns'[c].up = Tail(conns[c].up)

Sends(c, f) ==
    conns'[c].down = IF conns[c].state = "open" THEN conns[c].down \o f
                     ELSE conns[c].down

Remembers(c, key) == conns[c].state = "open" => conns'[c].last = key

KeepsToken(c) ==
    conns'[c].token = conns[c].token /\ conns'[c].superseded = conns[c].superseded

LEMMA ServingBoard ==
    ASSUME TypeOK, NEW c \in Conn, NEW r \in ConnType, NEW f \in Seq(DownFrame),
           HandlerSends(c, r, f), UNCHANGED pages, Alive(c),
           r.dev = conns[c].dev, r.state = conns[c].state, r.down = conns[c].down
    PROVE  /\ Serves(c) /\ Sends(c, f) /\ Remembers(c, r.last)
           /\ conns'[c].court = r.court /\ conns'[c].token = r.token
           /\ conns'[c].superseded = r.superseded /\ conns'[c].up = r.up
<1>1. /\ BoardTyped'
      /\ \A b \in Conn : b # c => conns'[b] = conns[b]
      /\ conns'[c].dev = r.dev /\ conns'[c].state = r.state
      /\ conns'[c].court = r.court /\ conns'[c].token = r.token
      /\ conns'[c].superseded = r.superseded /\ conns'[c].up = r.up
  BY HandlerBoard
<1>2. r.state = "open" => /\ conns'[c].last = r.last
                          /\ conns'[c].down = r.down \o f
  BY HandlerBoard
<1>3. r.state # "open" => conns'[c].down = r.down
  BY HandlerBoard
<1>4. Serves(c)
  BY <1>1 DEF Serves
<1>5. Sends(c, f)
  BY <1>2, <1>3 DEF Sends
<1>6. Remembers(c, r.last)
  BY <1>2 DEF Remembers
<1> QED  BY <1>1, <1>4, <1>5, <1>6

(* The court is claimed for c, by an identify or by a take-over. *)
Claims(c) ==
    /\ Serves(c) /\ Reads(c)
    /\ Head(conns[c].up).type \in {"identify", "take_over"}
    /\ active' = c /\ conns'[c].token
    /\ conns'[c].superseded = conns[c].superseded
    /\ Remembers(c, PushKey)
    /\ \E b \in BOOLEAN :
          /\ Sends(c, StateRestore(b) \o PushMatch(NoKey))
          /\ Head(conns[c].up).type = "identify" =>
                /\ marker = NoMatch => b
                /\ active = 0 \/ conns[active].dev = conns[c].dev
    /\ UNCHANGED <<score, mirror>>
    /\ \/ author' = author
             /\ (Head(conns[c].up).type = "take_over" => author # conns[c].dev)
       \/ author' = Nobody

Refuses(c) ==
    /\ Serves(c) /\ Reads(c) /\ Head(conns[c].up).type = "identify"
    /\ KeepsToken(c) /\ Remembers(c, NoKey)
    /\ Sends(c, <<ToPage("court_occupied", NoStand, FALSE)>>)
    /\ UNCHANGED <<active, score, mirror, author>>

(* A frame is read that changes nothing about who holds the court. *)
Hears(c) ==
    /\ Serves(c) /\ Reads(c) /\ Head(conns[c].up).type # "identify"
    /\ KeepsToken(c) /\ Remembers(c, conns[c].last)
    /\ conns'[c].court = conns[c].court /\ conns'[c].down = conns[c].down
    /\ Head(conns[c].up).type = "take_over" =>
          ~conns[c].court \/ conns[c].token \/ conns[c].superseded
    /\ active' = active
    /\ (score' = score /\ author' = author) \/ HandleScore(c)
    /\ Head(conns[c].up).type = "score_update" => HandleScore(c)
    /\ mirror' = mirror \/ HandleSync(c)
    /\ Head(conns[c].up).type = "state_sync" => HandleSync(c)

(* The ticker of the holder, with news for its page. *)
Reports(c) ==
    /\ Serves(c) /\ active = c /\ PushKey # conns[c].last
    /\ KeepsToken(c) /\ Remembers(c, PushKey)
    /\ conns'[c].court = conns[c].court /\ conns'[c].up = conns[c].up
    /\ Sends(c, PushMatch(conns[c].last))
    /\ UNCHANGED <<active, score, mirror, author>>

(* The ticker of a replaced holder. *)
Loses(c) ==
    /\ Serves(c) /\ active # c
    /\ ~conns'[c].token /\ conns'[c].superseded
    /\ conns'[c].up = conns[c].up
    /\ Sends(c, <<ToPage("session_superseded", NoStand, FALSE)>>)
    /\ UNCHANGED <<active, score, mirror, author>>

LEMMA HeardTyped ==
    ASSUME TypeOK, NEW c \in Conn, NEW t, Heard(c, t)
    PROVE  /\ conns[c] \in ConnType /\ Tail(conns[c].up) \in Seq(UpFrame)
           /\ conns[c].up # <<>> /\ Head(conns[c].up).type = t /\ Alive(c)
           /\ Head(conns[c].up) \in UpFrame
           /\ conns[c].down \in Seq(DownFrame)
           /\ conns[c].down \o <<>> = conns[c].down
<1>1. conns[c] \in ConnType
  BY DEF TypeOK
<1>2. conns[c].up \in Seq(UpFrame) /\ conns[c].down \in Seq(DownFrame)
  BY <1>1 DEF ConnType
<1> QED  BY <1>1, <1>2, HeadTailProperties, ConcatEmptySeq DEF Heard

LEMMA IdentifyServes ==
    ASSUME TypeOK, NEW c \in Conn, HandleIdentify(c)
    PROVE  Claims(c) \/ Refuses(c)
<1> DEFINE dev == conns[c].dev
           r == [conns[c] EXCEPT !.up = Tail(conns[c].up), !.court = TRUE,
                                 !.last = NoKey]
           g == [r EXCEPT !.token = TRUE, !.last = PushKey]
<1>1. /\ conns[c] \in ConnType /\ Tail(conns[c].up) \in Seq(UpFrame)
      /\ conns[c].up # <<>> /\ Head(conns[c].up).type = "identify" /\ Alive(c)
  BY HeardTyped DEF HandleIdentify
<1>2. PushKey \in Key /\ NoKey \in Key
  BY HostSaysTyped DEF NoKey, Key
<1>3. /\ r \in ConnType /\ r.dev = dev /\ r.state = conns[c].state
      /\ r.down = conns[c].down /\ r.up = Tail(conns[c].up)
      /\ r.token = conns[c].token /\ r.superseded = conns[c].superseded
      /\ r.last = NoKey /\ r.court
  BY <1>1, <1>2 DEF ConnType
<1>4. /\ g \in ConnType /\ g.dev = dev /\ g.state = conns[c].state
      /\ g.down = conns[c].down /\ g.up = Tail(conns[c].up)
      /\ g.token /\ g.superseded = conns[c].superseded /\ g.last = PushKey
  <2> HIDE DEF r
  <2> QED  BY <1>2, <1>3 DEF ConnType
<1>5. CASE CourtOccupied /\ ~HeldByDevice(dev)
  <2> DEFINE f == <<ToPage("court_occupied", NoStand, FALSE)>>
  <2>1. HandlerSends(c, r, f) /\ UNCHANGED pages
        /\ UNCHANGED <<active, score, mirror, author>>
    BY <1>5 DEF HandleIdentify
  <2>2. f \in Seq(DownFrame)
    BY HostSaysTyped
  <2> HIDE DEF r, f
  <2>3. /\ Serves(c) /\ Sends(c, f) /\ Remembers(c, r.last)
        /\ conns'[c].token = r.token
        /\ conns'[c].superseded = r.superseded /\ conns'[c].up = r.up
    BY <1>1, <1>3, <2>1, <2>2, ServingBoard
  <2>4. Refuses(c)
    BY <1>1, <1>3, <2>1, <2>3 DEF Refuses, Reads, KeepsToken, f
  <2> QED  BY <2>4
<1>6. CASE ~(CourtOccupied /\ ~HeldByDevice(dev))
  <2> DEFINE b == KeepLocal(dev, active)
             f == StateRestore(b) \o PushMatch(NoKey)
  <2>1. /\ HandlerSends(c, g, f) /\ ClaimCourt(c)
        /\ UNCHANGED pages /\ UNCHANGED <<score, mirror, author>>
    BY <1>6 DEF HandleIdentify
  <2>2. b \in BOOLEAN
    BY DEF KeepLocal
  <2>3. active = 0 \/ conns[active].dev = conns[c].dev
    BY <1>6 DEF CourtOccupied, HeldByDevice
  <2>4. marker = NoMatch => b
    BY <2>3 DEF KeepLocal
  <2> HIDE DEF b, g
  <2>5. f \in Seq(DownFrame)
    BY <2>2, HostSaysTyped, JoinTyped
  <2>6. /\ Serves(c) /\ Sends(c, f) /\ Remembers(c, g.last)
        /\ conns'[c].token = g.token
        /\ conns'[c].superseded = g.superseded /\ conns'[c].up = g.up
    BY <1>1, <1>4, <2>1, <2>5, ServingBoard
  <2>7. Claims(c)
    BY <1>1, <1>4, <2>1, <2>2, <2>3, <2>4, <2>6
    DEF Claims, Reads, ClaimCourt
  <2> QED  BY <2>7
<1> QED  BY <1>5, <1>6

LEMMA TakeOverServes ==
    ASSUME TypeOK, NEW c \in Conn, HandleTakeOver(c)
    PROVE  Claims(c) \/ Hears(c)
<1> DEFINE r == [conns[c] EXCEPT !.up = Tail(conns[c].up)]
           g == [r EXCEPT !.token = TRUE, !.last = PushKey]
<1>1. /\ conns[c] \in ConnType /\ Tail(conns[c].up) \in Seq(UpFrame)
      /\ conns[c].up # <<>> /\ Head(conns[c].up).type = "take_over" /\ Alive(c)
      /\ conns[c].down \o <<>> = conns[c].down
  BY HeardTyped DEF HandleTakeOver
<1>2. PushKey \in Key
  BY HostSaysTyped
<1>3. /\ r \in ConnType /\ r.dev = conns[c].dev /\ r.state = conns[c].state
      /\ r.down = conns[c].down /\ r.up = Tail(conns[c].up)
      /\ r.token = conns[c].token /\ r.superseded = conns[c].superseded
      /\ r.last = conns[c].last /\ r.court = conns[c].court
  BY <1>1 DEF ConnType
<1>4. /\ g \in ConnType /\ g.dev = conns[c].dev /\ g.state = conns[c].state
      /\ g.down = conns[c].down /\ g.up = Tail(conns[c].up)
      /\ g.token /\ g.superseded = conns[c].superseded /\ g.last = PushKey
  <2> HIDE DEF r
  <2> QED  BY <1>2, <1>3 DEF ConnType
<1>5. CASE r.court /\ ~r.token /\ ~r.superseded
  <2> DEFINE f == StateRestore(FALSE) \o PushMatch(NoKey)
  <2>1. /\ HandlerSends(c, g, f) /\ ClaimCourt(c)
        /\ UNCHANGED pages /\ UNCHANGED <<score, mirror>>
        /\ (author' = author /\ author # conns[c].dev) \/ author' = Nobody
    BY <1>5 DEF HandleTakeOver
  <2>2. f \in Seq(DownFrame)
    BY HostSaysTyped, JoinTyped
  <2> HIDE DEF g, r, f
  <2>3. /\ Serves(c) /\ Sends(c, f) /\ Remembers(c, g.last)
        /\ conns'[c].token = g.token
        /\ conns'[c].superseded = g.superseded /\ conns'[c].up = g.up
    BY <1>1, <1>4, <2>1, <2>2, ServingBoard
  <2>4. Claims(c)
    BY <1>1, <1>4, <2>1, <2>3 DEF Claims, Reads, ClaimCourt, f
  <2> QED  BY <2>4
<1>6. CASE ~(r.court /\ ~r.token /\ ~r.superseded)
  <2>1. /\ HandlerSends(c, r, <<>>) /\ UNCHANGED pages
        /\ UNCHANGED <<active, score, mirror, author>>
    BY <1>6 DEF HandleTakeOver
  <2>2. <<>> \in Seq(DownFrame)
    BY HostSaysTyped
  <2> HIDE DEF g, r
  <2>3. /\ Serves(c) /\ Sends(c, <<>>) /\ Remembers(c, r.last)
        /\ conns'[c].court = r.court /\ conns'[c].token = r.token
        /\ conns'[c].superseded = r.superseded /\ conns'[c].up = r.up
    BY <1>1, <1>3, <2>1, <2>2, ServingBoard
  <2>4. conns'[c].down = conns[c].down
    BY <1>1, <2>3 DEF Sends
  <2>5. Hears(c)
    BY <1>1, <1>3, <1>6, <2>1, <2>3, <2>4 DEF Hears, Reads, KeepsToken
  <2> QED  BY <2>5
<1> QED  BY <1>5, <1>6

LEMMA StandServes ==
    ASSUME TypeOK, NEW c \in Conn, HandleScore(c) \/ HandleSync(c)
    PROVE  Hears(c)
<1> DEFINE r == [conns[c] EXCEPT !.up = Tail(conns[c].up)]
<1>1. PICK t \in {"score_update", "state_sync"} :
          /\ Heard(c, t) /\ HandlerSends(c, r, <<>>) /\ UNCHANGED pages
          /\ t = "score_update" => HandleScore(c)
          /\ t = "state_sync" => HandleSync(c)
  BY DEF HandleScore, HandleSync
<1>2. /\ conns[c] \in ConnType /\ Tail(conns[c].up) \in Seq(UpFrame)
      /\ conns[c].up # <<>> /\ Head(conns[c].up).type = t /\ Alive(c)
      /\ conns[c].down \o <<>> = conns[c].down
  BY <1>1, HeardTyped
<1>3. /\ r \in ConnType /\ r.dev = conns[c].dev /\ r.state = conns[c].state
      /\ r.down = conns[c].down /\ r.up = Tail(conns[c].up)
      /\ r.token = conns[c].token /\ r.superseded = conns[c].superseded
      /\ r.last = conns[c].last /\ r.court = conns[c].court
  BY <1>2 DEF ConnType
<1>4. <<>> \in Seq(DownFrame)
  BY HostSaysTyped
<1> HIDE DEF r
<1>5. /\ Serves(c) /\ Sends(c, <<>>) /\ Remembers(c, r.last)
      /\ conns'[c].court = r.court /\ conns'[c].token = r.token
      /\ conns'[c].superseded = r.superseded /\ conns'[c].up = r.up
  BY <1>1, <1>2, <1>3, <1>4, ServingBoard
<1>6. conns'[c].down = conns[c].down
  BY <1>2, <1>5 DEF Sends
<1>7. active' = active
  BY <1>1 DEF HandleScore, HandleSync
<1>8. (score' = score /\ author' = author) \/ HandleScore(c)
  BY <1>1 DEF HandleSync
<1>9. mirror' = mirror \/ HandleSync(c)
  BY <1>1 DEF HandleScore
<1> QED
  BY <1>1, <1>2, <1>3, <1>5, <1>6, <1>7, <1>8, <1>9 DEF Hears, Reads, KeepsToken

LEMMA TickServes ==
    ASSUME TypeOK, NEW c \in Conn, Tick(c)
    PROVE  Reports(c) \/ Loses(c)
<1>1. /\ conns[c] \in ConnType /\ Alive(c) /\ UNCHANGED pages
      /\ UNCHANGED <<active, score, mirror, author>>
  BY DEF Tick, TypeOK, hostVars
<1>2. PushKey \in Key
  BY HostSaysTyped
<1>3. CASE active = c
  <2> DEFINE r == [conns[c] EXCEPT !.last = PushKey]
             f == PushMatch(conns[c].last)
  <2>1. HandlerSends(c, r, f) /\ PushKey # conns[c].last
    BY <1>3 DEF Tick, IsCourtActive
  <2>2. f \in Seq(DownFrame)
    BY HostSaysTyped
  <2>3. /\ r \in ConnType /\ r.dev = conns[c].dev /\ r.state = conns[c].state
        /\ r.down = conns[c].down /\ r.up = conns[c].up
        /\ r.token = conns[c].token /\ r.superseded = conns[c].superseded
        /\ r.last = PushKey /\ r.court = conns[c].court
    BY <1>1, <1>2 DEF ConnType
  <2> HIDE DEF r, f
  <2>4. /\ Serves(c) /\ Sends(c, f) /\ Remembers(c, r.last)
        /\ conns'[c].court = r.court /\ conns'[c].token = r.token
        /\ conns'[c].superseded = r.superseded /\ conns'[c].up = r.up
    BY <1>1, <2>1, <2>2, <2>3, ServingBoard
  <2>5. Reports(c)
    BY <1>1, <1>3, <2>1, <2>3, <2>4 DEF Reports, KeepsToken, f
  <2> QED  BY <2>5
<1>4. CASE active # c
  <2> DEFINE r == [conns[c] EXCEPT !.token = FALSE, !.superseded = TRUE]
             f == <<ToPage("session_superseded", NoStand, FALSE)>>
  <2>1. HandlerSends(c, r, f)
    BY <1>4 DEF Tick, IsCourtActive
  <2>2. f \in Seq(DownFrame)
    BY HostSaysTyped
  <2>3. /\ r \in ConnType /\ r.dev = conns[c].dev /\ r.state = conns[c].state
        /\ r.down = conns[c].down /\ r.up = conns[c].up
        /\ ~r.token /\ r.superseded
    BY <1>1 DEF ConnType
  <2> HIDE DEF r, f
  <2>4. /\ Serves(c) /\ Sends(c, f) /\ conns'[c].token = r.token
        /\ conns'[c].superseded = r.superseded /\ conns'[c].up = r.up
    BY <1>1, <2>1, <2>2, <2>3, ServingBoard
  <2>5. Loses(c)
    BY <1>1, <1>4, <2>3, <2>4 DEF Loses, f
  <2> QED  BY <2>5
<1> QED  BY <1>3, <1>4

-----------------------------------------------------------------------------
(* Every step is of one of these kinds. *)

PageKind(d) == PageActs(d) \/ PageJoins(d) \/ PageLeaves(d) \/ Answers(d)

HandlerKind(c) ==
    Claims(c) \/ Refuses(c) \/ Hears(c) \/ Reports(c) \/ Loses(c) \/ HandlerEnds(c)

BoardKept == UNCHANGED <<active, conns, pages>>
HostKept  == UNCHANGED <<active, score, mirror, author>>
CourtKept == UNCHANGED <<field, marker, polled, inBtp>>

StepKind ==
    \/ \E d \in Device : PageKind(d) /\ HostKept /\ CourtKept
    \/ \E c \in Conn : HandlerKind(c) /\ CourtKept
    \/ BoardKept /\ (SyncTracks \/ SyncStores \/ MarkerExpires)
    \/ BoardKept /\ \E m \in Match : ResultWritten(m)
    \/ UNCHANGED vars

LEMMA PageStepKind ==
    ASSUME TypeOK, NEW d \in Device, PageStep(d)
    PROVE  PageKind(d) /\ HostKept /\ CourtKept
<1>1. CASE FinalizeSetup(d)
  BY <1>1, FinalizeSetupActs
  DEF PageKind, FinalizeSetup, HostKept, CourtKept, hostVars, btpVars, postVars
<1>2. CASE AddPoint(d)
  BY <1>2, AddPointActs
  DEF PageKind, AddPoint, HostKept, CourtKept, hostVars, btpVars, postVars
<1>3. CASE Reidentify(d) \/ TakeOver(d)
  BY <1>3, AskingActs
  DEF PageKind, Reidentify, TakeOver, HostKept, CourtKept, hostVars, btpVars,
      postVars
<1>4. CASE PostResult(d) \/ ResultConfirmed(d)
  BY <1>4, ResultActs
  DEF PageKind, PostResult, ResultConfirmed, HostKept, CourtKept, hostVars,
      btpVars, postVars
<1>5. CASE Connect(d)
  BY <1>5, JoiningBoard
  DEF PageKind, Connect, HostKept, CourtKept, hostVars, btpVars, postVars
<1>6. CASE DropLink(d) \/ Reload(d)
  BY <1>6, LeavingBoard
  DEF PageKind, DropLink, Reload, HostKept, CourtKept, hostVars, btpVars,
      postVars
<1>7. CASE Receive(d)
  <2>1. Answers(d)
    BY <1>7, ReceiveAnswers
  <2>2. HostKept /\ CourtKept
    BY <2>1 DEF Answers, PageAnswers, HostKept, CourtKept, hostVars, btpVars,
                postVars
  <2> QED  BY <2>1, <2>2 DEF PageKind
<1> QED  BY <1>1, <1>2, <1>3, <1>4, <1>5, <1>6, <1>7 DEF PageStep

LEMMA HostStepKind ==
    ASSUME TypeOK, NEW c \in Conn, HostStep(c)
    PROVE  HandlerKind(c) /\ CourtKept
<1>1. CASE HandleIdentify(c)
  BY <1>1, IdentifyServes
  DEF HandlerKind, HandleIdentify, CourtKept, btpVars, postVars
<1>2. CASE HandleTakeOver(c)
  BY <1>2, TakeOverServes
  DEF HandlerKind, HandleTakeOver, CourtKept, btpVars, postVars
<1>3. CASE HandleScore(c) \/ HandleSync(c)
  BY <1>3, StandServes
  DEF HandlerKind, HandleScore, HandleSync, CourtKept, btpVars, postVars
<1>4. CASE Tick(c)
  BY <1>4, TickServes DEF HandlerKind, Tick, CourtKept, btpVars, postVars
<1>5. CASE HandlerEnds(c)
  BY <1>5 DEF HandlerKind, HandlerEnds, CourtKept, btpVars, postVars
<1> QED  BY <1>1, <1>2, <1>3, <1>4, <1>5 DEF HostStep, HandleFrame

LEMMA NextIsAKind == ASSUME TypeOK, [Next]_vars PROVE StepKind
<1>1. ASSUME NEW d \in Device, PageStep(d) PROVE StepKind
  BY <1>1, PageStepKind DEF StepKind
<1>2. ASSUME NEW c \in Conn, HostStep(c) PROVE StepKind
  BY <1>2, HostStepKind DEF StepKind
<1>3. ASSUME NEW m \in Match, ResultWritten(m) PROVE StepKind
  BY <1>3 DEF StepKind, ResultWritten, BoardKept
<1>4. CASE SyncStep
  BY <1>4 DEF StepKind, SyncStep, SyncTracks, SyncStores, MarkerExpires,
              BoardKept, hostVars
<1>5. CASE UNCHANGED vars
  BY <1>5 DEF StepKind
<1> QED  BY <1>1, <1>2, <1>3, <1>4, <1>5 DEF Next

LEMMA BoardStaysTyped == ASSUME TypeOK, StepKind PROVE BoardTyped'
<1>0. BoardTyped
  BY TypeParts
<1>1. ASSUME NEW d \in Device, PageActs(d) PROVE BoardTyped'
  BY <1>1, PageSendsTyped DEF PageActs
<1>2. ASSUME NEW d \in Device, PageJoins(d) \/ PageLeaves(d) PROVE BoardTyped'
  BY <1>2 DEF PageJoins, PageLeaves
<1>3. ASSUME NEW d \in Device, Answers(d) PROVE BoardTyped'
  <2>1. PICK p \in PageType, f \in Seq(UpFrame), g \in DownFrame :
            g = Got(d) /\ Received(d, g.type) /\ PageAnswers(d, p, f)
            /\ p.conn = pages[d].conn
    BY <1>3 DEF Answers
  <2>2. p.conn \in Conn /\ conns[p.conn].down # <<>>
    BY <2>1, GotTyped DEF Received
  <2> QED  BY <2>1, <2>2, PageAnswersTyped
<1>4. ASSUME NEW c \in Conn,
             Claims(c) \/ Refuses(c) \/ Hears(c) \/ Reports(c) \/ Loses(c)
      PROVE  BoardTyped'
  BY <1>4 DEF Claims, Refuses, Hears, Reports, Loses, Serves
<1>5. ASSUME NEW c \in Conn, HandlerEnds(c) PROVE BoardTyped'
  BY <1>5, EndingBoard
<1>6. CASE BoardKept \/ UNCHANGED vars
  BY <1>0, <1>6 DEF BoardTyped, BoardKept, vars
<1> QED
  BY <1>1, <1>2, <1>3, <1>4, <1>5, <1>6 DEF StepKind, PageKind, HandlerKind

LEMMA HostStaysTyped == ASSUME TypeOK, Next PROVE HostTyped'
<1>0. HostTyped /\ NoStand \in StandType
  BY TypeParts, Bounds
<1>1. ASSUME NEW d \in Device, PageStep(d) PROVE HostTyped'
  <2>1. UNCHANGED <<hostVars, author>>
    BY <1>1 DEF PageStep, Connect, FinalizeSetup, AddPoint, Reidentify, TakeOver,
        DropLink, Reload, Receive, PostResult, ResultConfirmed, ReceiveAssigned,
        ReceiveCleared, ReceiveOccupied, ReceiveSuperseded, ReceiveRestore,
        PageAnswers
  <2> QED  BY <1>0, <2>1 DEF hostVars, HostTyped
<1>2. ASSUME NEW c \in Conn, HostStep(c) PROVE HostTyped'
  <2>0. /\ conns[c] \in ConnType /\ c \in 0 .. MaxConns /\ 0 \in 0 .. MaxConns
        /\ conns[c].dev \in Device \cup {Nobody}
    BY Bounds DEF TypeOK, ConnType
  <2>1. CASE HandleIdentify(c)
    BY <1>0, <2>0, <2>1 DEF HandleIdentify, ClaimCourt, HostTyped
  <2>2. CASE HandleTakeOver(c)
    BY <1>0, <2>0, <2>2 DEF HandleTakeOver, ClaimCourt, HostTyped
  <2>3. CASE HandleScore(c)
    <3>1. Says(c) \in StandType
      BY <2>3, HeardTyped DEF HandleScore, Says, UpFrame
    <3> QED  BY <1>0, <2>0, <2>3, <3>1 DEF HandleScore, HostTyped
  <2>4. CASE HandleSync(c)
    <3>1. Says(c) \in StandType
      BY <2>4, HeardTyped DEF HandleSync, Says, UpFrame
    <3> QED  BY <1>0, <2>0, <2>4, <3>1 DEF HandleSync, HostTyped
  <2>5. CASE Tick(c)
    BY <1>0, <2>5 DEF Tick, hostVars, HostTyped
  <2>6. CASE HandlerEnds(c)
    BY <1>0, <2>0, <2>6 DEF HandlerEnds, HostTyped
  <2> QED
    BY <1>2, <2>1, <2>2, <2>3, <2>4, <2>5, <2>6 DEF HostStep, HandleFrame
<1>3. ASSUME NEW m \in Match, ResultWritten(m) PROVE HostTyped'
  BY <1>0, <1>3 DEF ResultWritten, HostTyped
<1>4. CASE SyncStep
  BY <1>0, <1>4 DEF SyncStep, SyncTracks, SyncStores, MarkerExpires, hostVars,
                    HostTyped
<1> QED  BY <1>1, <1>2, <1>3, <1>4 DEF Next

LEMMA BtpStaysTyped == ASSUME TypeOK, Next PROVE BtpTyped'
<1>0. BtpTyped
  BY TypeParts
<1>1. ASSUME NEW d \in Device, PageStep(d) PROVE BtpTyped'
  <2>1. CASE PostResult(d)
    <3>1. pages[d].match \in Match
      BY <2>1 DEF PostResult, TypeOK, PageType
    <3>2. results' \in 0 .. MaxResults
      BY <2>1, SessionAssumption DEF PostResult, TypeOK
    <3> QED  BY <1>0, <2>1, <3>1, <3>2 DEF PostResult, btpVars, BtpTyped
  <2>2. CASE ~PostResult(d)
    <3>1. UNCHANGED <<btpVars, postVars>>
      BY <1>1, <2>2 DEF PageStep, Connect, FinalizeSetup, AddPoint, Reidentify,
          TakeOver, DropLink, Reload, Receive, ResultConfirmed, ReceiveAssigned,
          ReceiveCleared, ReceiveOccupied, ReceiveSuperseded, ReceiveRestore,
          PageAnswers
    <3> QED  BY <1>0, <3>1 DEF btpVars, postVars, BtpTyped
  <2> QED  BY <2>1, <2>2
<1>2. ASSUME NEW c \in Conn, HostStep(c) PROVE BtpTyped'
  <2>1. UNCHANGED <<btpVars, postVars>>
    BY <1>2 DEF HostStep, HandleFrame, HandleIdentify, HandleTakeOver,
        HandleScore, HandleSync, Tick, HandlerEnds
  <2> QED  BY <1>0, <2>1 DEF btpVars, postVars, BtpTyped
<1>3. ASSUME NEW m \in Match, ResultWritten(m) PROVE BtpTyped'
  BY <1>0, <1>3 DEF ResultWritten, btpVars, BtpTyped
<1>4. CASE SyncTracks
  <2>1. polls' \in 0 .. MaxPolls
    BY <1>4, SessionAssumption DEF SyncTracks, TypeOK
  <2>2. marker' \in Match \cup {NoMatch} /\ polled' \in Match \cup {NoMatch, Idle}
    BY <1>0, <1>4 DEF SyncTracks, BtpTyped
  <2> QED  BY <1>0, <1>4, <2>1, <2>2 DEF SyncTracks, postVars, BtpTyped
<1>5. CASE SyncStores \/ MarkerExpires
  BY <1>0, <1>5 DEF SyncStores, MarkerExpires, postVars, BtpTyped
<1> QED  BY <1>1, <1>2, <1>3, <1>4, <1>5 DEF Next, SyncStep

LEMMA TypeStep == ASSUME TypeOK, [Next]_vars PROVE TypeOK'
<1>1. BoardTyped'
  BY NextIsAKind, BoardStaysTyped
<1>2. CASE Next
  <2>1. HostTyped' /\ BtpTyped'
    BY <1>2, HostStaysTyped, BtpStaysTyped
  <2> QED  BY <1>1, <2>1 DEF TypeOK, BoardTyped, HostTyped, BtpTyped
<1>3. CASE UNCHANGED vars
  BY <1>3 DEF vars, hostVars, btpVars, postVars, TypeOK
<1> QED  BY <1>2, <1>3

LEMMA TypeInit == ASSUME Init PROVE TypeOK
<1>1. BoardTyped
  <2>1. New \in ConnType /\ Closed \in ConnType
    <3>1. NotSent \in Key /\ <<>> \in Seq(DownFrame) /\ <<>> \in Seq(UpFrame)
      BY DEF NotSent, Key
    <3> QED  BY <3>1 DEF Closed, New, ConnType
  <2>2. FreshPage \in PageType
    BY Bounds DEF FreshPage, PageType
  <2> QED  BY <2>1, <2>2 DEF Init, BoardTyped
<1>2. HostTyped
  BY Bounds DEF Init, HostTyped
<1>3. BtpTyped
  BY SessionAssumption DEF Init, BtpTyped
<1> QED  BY <1>1, <1>2, <1>3, TypeParts

(* Every value stays in its range: frames, pages, handlers and the host's    *)
(* state, with any number of connections and frames under way.               *)
THEOREM SessionIsTyped == Spec => []TypeOK
<1>1. Init => TypeOK
  BY TypeInit
<1>2. TypeOK /\ [Next]_vars => TypeOK'
  BY TypeStep
<1> QED  BY <1>1, <1>2, PTL DEF Spec

-----------------------------------------------------------------------------
(* Pages and connections know each other. *)

LEMMA ActiveIsConn == ASSUME TypeOK, active # 0 PROVE active \in Conn
  BY SessionAssumption DEF TypeOK, Conn

LEMMA PageConn ==
    ASSUME TypeOK, NEW d \in Device, pages[d].conn # 0
    PROVE  pages[d].conn \in Conn
  BY SessionAssumption DEF TypeOK, PageType, Conn

(* What LinkInv speaks of, if a step changes only frames and locals. *)
LEMMA LinkSame ==
    ASSUME TypeOK, LinkInv, active' = active,
           \A d \in Device : pages'[d].conn = pages[d].conn,
           \A c \in Conn : /\ conns'[c].dev = conns[c].dev
                           /\ conns'[c].state = conns[c].state
                           /\ conns'[c].token = conns[c].token
                           /\ conns[c].state = "cut" => conns'[c].down = conns[c].down
    PROVE  LinkInv'
<1>1. \A d \in Device : pages'[d].conn # 0 =>
          conns'[pages'[d].conn].dev = d /\ conns'[pages'[d].conn].state = "open"
  BY PageConn DEF LinkInv
<1>2. /\ \A c \in Conn : conns'[c].state = "open" =>
             conns'[c].dev \in Device /\ pages'[conns'[c].dev].conn = c
      /\ \A c \in Conn : conns'[c].state = "cut" =>
             conns'[c].dev \in Device /\ conns'[c].down = <<>>
      /\ \A c \in Conn : conns'[c].state = "new" => ~conns'[c].token
  BY DEF LinkInv
<1>3. active' # 0 => Alive(active)' /\ conns'[active'].token
  BY ActiveIsConn DEF LinkInv, Alive
<1> QED  BY <1>1, <1>2, <1>3 DEF LinkInv

LEMMA LinkPage ==
    ASSUME TypeOK, LinkInv, NEW d \in Device, PageKind(d), HostKept
    PROVE  LinkInv'
<1>1. CASE PageActs(d)
  <2>1. PICK p \in PageType, f \in Seq(UpFrame) :
            PageSends(d, p, f) /\ p.conn = pages[d].conn
    BY <1>1 DEF PageActs
  <2>2. /\ pages'[d] = p /\ OtherPagesKept(d)
        /\ \A c \in Conn : SameLocals(c) /\ conns'[c].down = conns[c].down
    BY <2>1, SendsBoard
  <2>3. \A e \in Device : pages'[e].conn = pages[e].conn
    BY <2>1, <2>2 DEF OtherPagesKept
  <2> QED  BY <2>2, <2>3, LinkSame DEF SameLocals, HostKept
<1>2. CASE Answers(d)
  <2>1. PICK p \in PageType, f \in Seq(UpFrame), g \in DownFrame :
            g = Got(d) /\ Received(d, g.type) /\ PageAnswers(d, p, f)
            /\ p.conn = pages[d].conn
    BY <1>2 DEF Answers
  <2>2. p.conn \in Conn /\ conns[p.conn].down # <<>> /\ p.conn # 0
    BY <2>1, GotTyped, Bounds DEF Received
  <2>3. /\ pages'[d] = p /\ OtherPagesKept(d)
        /\ \A c \in Conn :
              /\ SameLocals(c)
              /\ conns'[c].down = IF c = p.conn THEN Tail(conns[c].down)
                                  ELSE conns[c].down
    BY <2>1, <2>2, AnswersBoard
  <2>4. \A e \in Device : pages'[e].conn = pages[e].conn
    BY <2>1, <2>3 DEF OtherPagesKept
  <2>5. conns[p.conn].state = "open"
    BY <2>1, <2>2 DEF LinkInv
  <2>6. \A c \in Conn : conns[c].state = "cut" => conns'[c].down = conns[c].down
    BY <2>3, <2>5
  <2> QED  BY <2>3, <2>4, <2>6, LinkSame DEF SameLocals, HostKept
<1>3. CASE PageJoins(d)
  <2>1. PICK c \in Conn, p \in PageType :
            /\ OtherPagesKept(d) /\ pages'[d] = p /\ pages[d].conn = 0 /\ p.conn = c
            /\ conns[c].state = "new"
            /\ \A b \in Conn : b # c => conns'[b] = conns[b]
            /\ conns'[c].dev = d /\ conns'[c].state = "open"
    BY <1>3 DEF PageJoins
  <2>2. /\ \A e \in Device : e # d => pages'[e] = pages[e]
        /\ \A e \in Device : e # d => pages[e].conn # c
    BY <2>1, Bounds DEF OtherPagesKept, LinkInv
  <2>3. active' = active /\ active # c
    BY <2>1, Bounds DEF LinkInv, Alive, HostKept
  <2>4. \A e \in Device : pages'[e].conn # 0 =>
            conns'[pages'[e].conn].dev = e /\ conns'[pages'[e].conn].state = "open"
    <3> TAKE e \in Device
    <3>1. CASE e = d
      BY <2>1, <3>1
    <3>2. CASE e # d
      BY <2>1, <2>2, <3>2, PageConn DEF LinkInv
    <3> QED  BY <3>1, <3>2
  <2>5. \A b \in Conn : conns'[b].state = "open" =>
            conns'[b].dev \in Device /\ pages'[conns'[b].dev].conn = b
    <3> TAKE b \in Conn
    <3>1. CASE b = c
      BY <2>1, <3>1
    <3>2. CASE b # c
      BY <2>1, <2>2, <3>2, Bounds DEF LinkInv
    <3> QED  BY <3>1, <3>2
  <2>6. /\ \A b \in Conn : conns'[b].state = "cut" =>
               conns'[b].dev \in Device /\ conns'[b].down = <<>>
        /\ \A b \in Conn : conns'[b].state = "new" => ~conns'[b].token
    BY <2>1 DEF LinkInv
  <2>7. active' # 0 => Alive(active)' /\ conns'[active'].token
    BY <2>1, <2>3, ActiveIsConn DEF LinkInv, Alive
  <2> QED  BY <2>4, <2>5, <2>6, <2>7 DEF LinkInv
<1>4. CASE PageLeaves(d)
  <2> DEFINE b == pages[d].conn
  <2>1. /\ OtherPagesKept(d) /\ b \in Conn /\ pages'[d].conn = 0
        /\ conns'[b].state = "cut" /\ conns'[b].down = <<>>
        /\ conns'[b].dev = conns[b].dev /\ conns'[b].token = conns[b].token
        /\ \A c \in Conn : c # b => conns'[c] = conns[c]
    BY <1>4 DEF PageLeaves
  <2>2. conns[b].dev = d /\ conns[b].state = "open"
    BY <2>1, Bounds DEF LinkInv
  <2>3. \A e \in Device : e # d => pages'[e] = pages[e] /\ pages[e].conn # b
    BY <2>1, <2>2, Bounds DEF OtherPagesKept, LinkInv
  <2> HIDE DEF b
  <2>4. \A e \in Device : pages'[e].conn # 0 =>
            conns'[pages'[e].conn].dev = e /\ conns'[pages'[e].conn].state = "open"
    BY <2>1, <2>3, PageConn DEF LinkInv
  <2>5. \A c \in Conn : conns'[c].state = "open" =>
            conns'[c].dev \in Device /\ pages'[conns'[c].dev].conn = c
    <3> TAKE c \in Conn
    <3>1. CASE c = b
      BY <2>1, <3>1
    <3>2. CASE c # b
      BY <2>1, <2>2, <2>3, <3>2 DEF LinkInv, b
    <3> QED  BY <3>1, <3>2
  <2>6. /\ \A c \in Conn : conns'[c].state = "cut" =>
               conns'[c].dev \in Device /\ conns'[c].down = <<>>
        /\ \A c \in Conn : conns'[c].state = "new" => ~conns'[c].token
    <3>1. conns'[b].state # "new"
      BY <2>1
    <3> QED  BY <2>1, <2>2, <3>1 DEF LinkInv
  <2>7. active' # 0 => Alive(active)' /\ conns'[active'].token
    BY <2>1, <2>2, ActiveIsConn DEF LinkInv, Alive, HostKept
  <2> QED  BY <2>4, <2>5, <2>6, <2>7 DEF LinkInv
<1> QED  BY <1>1, <1>2, <1>3, <1>4 DEF PageKind

LEMMA LinkHandler ==
    ASSUME TypeOK, LinkInv, NEW c \in Conn, HandlerKind(c)
    PROVE  LinkInv'
<1>1. CASE Claims(c)
  <2>1. /\ Alive(c) /\ pages' = pages /\ active' = c /\ conns'[c].token
        /\ \A b \in Conn : b # c => conns'[b] = conns[b]
        /\ conns'[c].dev = conns[c].dev /\ conns'[c].state = conns[c].state
        /\ conns[c].state = "cut" => conns'[c].down = conns[c].down
    BY <1>1 DEF Claims, Serves, Sends
  <2>2. \A d \in Device : pages'[d].conn # 0 =>
          conns'[pages'[d].conn].dev = d /\ conns'[pages'[d].conn].state = "open"
    BY <2>1, PageConn DEF LinkInv
  <2>3. /\ \A b \in Conn : conns'[b].state = "open" =>
               conns'[b].dev \in Device /\ pages'[conns'[b].dev].conn = b
        /\ \A b \in Conn : conns'[b].state = "cut" =>
               conns'[b].dev \in Device /\ conns'[b].down = <<>>
        /\ \A b \in Conn : conns'[b].state = "new" => ~conns'[b].token
    BY <2>1 DEF LinkInv, Alive
  <2>4. active' # 0 => Alive(active)' /\ conns'[active'].token
    BY <2>1 DEF Alive
  <2> QED  BY <2>2, <2>3, <2>4 DEF LinkInv
<1>2. CASE Refuses(c) \/ Hears(c) \/ Reports(c)
  <2>1. /\ pages' = pages /\ active' = active
        /\ \A b \in Conn : b # c => conns'[b] = conns[b]
        /\ conns'[c].dev = conns[c].dev /\ conns'[c].state = conns[c].state
        /\ conns'[c].token = conns[c].token
        /\ conns[c].state = "cut" => conns'[c].down = conns[c].down
    BY <1>2 DEF Refuses, Hears, Reports, Serves, Sends, KeepsToken
  <2> QED  BY <2>1, LinkSame
<1>3. CASE Loses(c)
  <2>1. /\ pages' = pages /\ active' = active /\ active # c /\ Alive(c)
        /\ \A b \in Conn : b # c => conns'[b] = conns[b]
        /\ conns'[c].dev = conns[c].dev /\ conns'[c].state = conns[c].state
        /\ ~conns'[c].token
        /\ conns[c].state = "cut" => conns'[c].down = conns[c].down
    BY <1>3 DEF Loses, Serves, Sends
  <2>2. \A d \in Device : pages'[d].conn # 0 =>
          conns'[pages'[d].conn].dev = d /\ conns'[pages'[d].conn].state = "open"
    BY <2>1, PageConn DEF LinkInv
  <2>3. /\ \A b \in Conn : conns'[b].state = "open" =>
               conns'[b].dev \in Device /\ pages'[conns'[b].dev].conn = b
        /\ \A b \in Conn : conns'[b].state = "cut" =>
               conns'[b].dev \in Device /\ conns'[b].down = <<>>
        /\ \A b \in Conn : conns'[b].state = "new" => ~conns'[b].token
    BY <2>1 DEF LinkInv
  <2>4. active' # 0 => Alive(active)' /\ conns'[active'].token
    BY <2>1, ActiveIsConn DEF LinkInv, Alive
  <2> QED  BY <2>2, <2>3, <2>4 DEF LinkInv
<1>4. CASE HandlerEnds(c)
  <2>1. /\ \A d \in Device : pages[d].conn # c => pages'[d] = pages[d]
        /\ \A d \in Device : pages[d].conn = c => pages'[d].conn = 0
        /\ \A b \in Conn : b # c => conns'[b] = conns[b]
        /\ conns'[c].state = "closed" /\ ~conns'[c].token
    BY <1>4, EndingBoard
  <2>2. \A d \in Device : pages'[d].conn # 0 =>
          conns'[pages'[d].conn].dev = d /\ conns'[pages'[d].conn].state = "open"
    BY <2>1, PageConn DEF LinkInv
  <2>3. \A b \in Conn : conns'[b].state = "open" =>
               conns'[b].dev \in Device /\ pages'[conns'[b].dev].conn = b
    BY <2>1 DEF LinkInv
  <2>4. /\ \A b \in Conn : conns'[b].state = "cut" =>
               conns'[b].dev \in Device /\ conns'[b].down = <<>>
        /\ \A b \in Conn : conns'[b].state = "new" => ~conns'[b].token
    BY <2>1 DEF LinkInv
  <2>5. active' # 0 => active' = active /\ active # c
    <3>1. active = c => conns[c].token
      BY Bounds DEF LinkInv
    <3>2. conns[c].token /\ active = c => active' = 0
      BY <1>4 DEF HandlerEnds, IsCourtActive
    <3>3. ~(conns[c].token /\ active = c) => active' = active
      BY <1>4 DEF HandlerEnds, IsCourtActive
    <3> QED  BY <3>1, <3>2, <3>3
  <2>6. active' # 0 => Alive(active)' /\ conns'[active'].token
    BY <2>1, <2>5, ActiveIsConn DEF LinkInv, Alive
  <2> QED  BY <2>2, <2>3, <2>4, <2>6 DEF LinkInv
<1> QED  BY <1>1, <1>2, <1>3, <1>4 DEF HandlerKind

LEMMA LinkStep == ASSUME TypeOK, LinkInv, StepKind PROVE LinkInv'
<1>1. CASE BoardKept
  BY <1>1 DEF BoardKept, LinkInv, Alive
<1>2. CASE UNCHANGED vars
  BY <1>1, <1>2 DEF vars, hostVars, BoardKept
<1> QED  BY <1>1, <1>2, LinkPage, LinkHandler DEF StepKind

LEMMA LinkInit == ASSUME Init PROVE LinkInv
<1>1. /\ active = 0 /\ \A d \in Device : pages[d].conn = 0
      /\ \A c \in Conn : conns[c].state \in {"new", "closed"} /\ ~conns[c].token
  <2>1. \A r \in {New, Closed} : r.state \in {"new", "closed"} /\ ~r.token
    BY DEF New, Closed
  <2>2. \A c \in Conn : conns[c] \in {New, Closed}
    BY DEF Init
  <2> QED  BY <2>1, <2>2 DEF Init, FreshPage
<1> QED  BY <1>1 DEF LinkInv

-----------------------------------------------------------------------------
(* Whoever does not hold the court has an overlay. *)

LEMMA HasJoin ==
    ASSUME NEW S, NEW q \in Seq(S), NEW f \in Seq(S), NEW t,
           Has(q, t) \/ Has(f, t)
    PROVE  Has(q \o f, t)
<1>1. CASE Has(q, t)
  BY <1>1, JoinElements DEF Has
<1>2. CASE Has(f, t)
  <2>1. PICK j \in DOMAIN f : f[j].type = t
    BY <1>2 DEF Has
  <2>2. Len(q) + j \in DOMAIN (q \o f) /\ (q \o f)[Len(q) + j] = f[j]
    BY JoinElements
  <2> QED  BY <2>1, <2>2 DEF Has
<1> QED  BY <1>1, <1>2

LEMMA HasTail ==
    ASSUME NEW S, NEW q \in Seq(S), q # <<>>, NEW t, Has(q, t), Head(q).type # t
    PROVE  Has(Tail(q), t)
<1>1. PICK j \in DOMAIN q : q[j].type = t
  BY DEF Has
<1>2. j # 1
  BY <1>1, TailElements
<1>3. j - 1 \in DOMAIN Tail(q) /\ Tail(q)[j - 1] = q[j]
  BY <1>2, TailElements
<1> QED  BY <1>1, <1>3 DEF Has

LEMMA ConnFrames ==
    ASSUME TypeOK, NEW c \in Conn
    PROVE  conns[c].up \in Seq(UpFrame) /\ conns[c].down \in Seq(DownFrame)
  BY DEF TypeOK, ConnType

LEMMA OwnConn ==
    ASSUME TypeOK, LinkInv, NEW d \in Device, NEW c \in Conn, conns[c].state = "open"
    PROVE  /\ c = pages[d].conn => conns[c].dev = d
           /\ c # pages[d].conn => conns[c].dev \in Device /\ conns[c].dev # d
           /\ conns[c].up \in Seq(UpFrame) /\ conns[c].down \in Seq(DownFrame)
  BY Bounds DEF LinkInv, TypeOK, ConnType

(* Nothing that Covered speaks of gets worse. *)
LEMMA StaysCovered ==
    ASSUME NEW c \in Conn, Covered(c),
           conns'[c].superseded = conns[c].superseded,
           conns'[c].token = conns[c].token, conns'[c].court = conns[c].court,
           conns'[c].down = conns[c].down,
           Has(conns[c].up, "take_over") => Has(conns'[c].up, "take_over"),
           PageOf(c).locked => PageOf(c)'.locked,
           PageOf(c).occupied => PageOf(c)'.occupied
    PROVE  Covered(c)'
  BY DEF Covered, Has

LEMMA AwayPage ==
    ASSUME TypeOK, LinkInv, AwayInv, NEW d \in Device, PageKind(d),
           NEW c \in Conn, conns'[c].state = "open"
    PROVE  Covered(c)'
<1>1. CASE PageActs(d)
  <2>1. PICK p \in PageType, f \in Seq(UpFrame) :
          /\ PageSends(d, p, f) /\ p.conn = pages[d].conn
          /\ \/ p.locked = pages[d].locked /\ p.occupied = pages[d].occupied
             \/ pages[d].occupied /\ ~pages[d].locked /\ Has(f, "take_over")
    BY <1>1 DEF PageActs
  <2>2. /\ pages'[d] = p /\ OtherPagesKept(d)
        /\ SameLocals(c) /\ conns'[c].down = conns[c].down
        /\ conns'[c].up = IF c = p.conn THEN conns[c].up \o f ELSE conns[c].up
    BY <2>1, SendsBoard
  <2>3. conns[c].state = "open" /\ Covered(c)
    BY <2>2 DEF SameLocals, AwayInv
  <2>4. CASE c = pages[d].conn
    <3>1. PageOf(c) = pages[d] /\ PageOf(c)' = p
      BY <2>2, <2>3, <2>4, OwnConn DEF PageOf, SameLocals
    <3>2. \A t : Has(conns[c].up, t) \/ Has(f, t) => Has(conns'[c].up, t)
      BY <2>1, <2>2, <2>3, <2>4, OwnConn, HasJoin
    <3>3. CASE p.locked = pages[d].locked /\ p.occupied = pages[d].occupied
      BY <2>2, <2>3, <3>1, <3>2, <3>3, StaysCovered DEF SameLocals
    <3>4. CASE pages[d].occupied /\ ~pages[d].locked /\ Has(f, "take_over")
      <4>1. Has(conns'[c].up, "take_over")
        BY <3>2, <3>4
      <4>2. conns[c].superseded => Has(conns[c].down, "session_superseded")
        BY <2>3, <3>1, <3>4 DEF Covered
      <4>3. ~conns[c].token /\ ~conns[c].superseded =>
              \A i \in DOMAIN conns[c].down : conns[c].down[i].type = "court_occupied"
        BY <2>3 DEF Covered
      <4> QED  BY <2>2, <4>1, <4>2, <4>3 DEF Covered, SameLocals, Has
    <3> QED  BY <2>1, <3>3, <3>4
  <2>5. CASE c # pages[d].conn
    <3>1. PageOf(c)' = PageOf(c)
      BY <2>2, <2>3, <2>5, OwnConn DEF PageOf, SameLocals, OtherPagesKept
    <3> QED  BY <2>1, <2>2, <2>3, <2>5, <3>1, StaysCovered DEF SameLocals
  <2> QED  BY <2>4, <2>5
<1>2. CASE Answers(d)
  <2>1. PICK p \in PageType, f \in Seq(UpFrame), g \in DownFrame :
          /\ g = Got(d) /\ Received(d, g.type)
          /\ PageAnswers(d, p, f) /\ p.conn = pages[d].conn
          /\ pages[d].locked \/ g.type = "session_superseded" => p.locked
          /\ g.type = "court_occupied" => p.occupied
    BY <1>2 DEF Answers
  <2>2. p.conn \in Conn /\ conns[p.conn].down # <<>>
    BY <2>1, GotTyped DEF Received
  <2>3. /\ pages'[d] = p /\ OtherPagesKept(d) /\ SameLocals(c)
        /\ conns'[c].down = IF c = p.conn THEN Tail(conns[c].down)
                            ELSE conns[c].down
        /\ conns'[c].up = IF c = p.conn THEN conns[c].up \o f ELSE conns[c].up
    BY <2>1, <2>2, AnswersBoard
  <2>4. conns[c].state = "open" /\ Covered(c)
    BY <2>3 DEF SameLocals, AwayInv
  <2>5. CASE c = pages[d].conn
    <3>1. PageOf(c) = pages[d] /\ PageOf(c)' = p
      BY <2>3, <2>4, <2>5, OwnConn DEF PageOf, SameLocals
    <3>2. /\ conns[c].down \in Seq(DownFrame) /\ conns[c].down # <<>>
          /\ g = Head(conns[c].down) /\ conns'[c].down = Tail(conns[c].down)
      BY <2>1, <2>2, <2>3, <2>4, <2>5, OwnConn DEF Got
    <3>3. conns[c].superseded => p.locked \/ Has(conns'[c].down, "session_superseded")
      <4>1. CASE g.type = "session_superseded"
        BY <2>1, <4>1
      <4>2. CASE g.type # "session_superseded" /\ Has(conns[c].down, "session_superseded")
        BY <3>2, <4>2, HasTail
      <4>3. CASE pages[d].locked
        BY <2>1, <4>3
      <4> QED  BY <2>4, <3>1, <4>1, <4>2, <4>3 DEF Covered
    <3>4. ASSUME ~conns[c].token, ~conns[c].superseded
          PROVE  /\ p.occupied
                 /\ \A i \in DOMAIN conns'[c].down :
                       conns'[c].down[i].type = "court_occupied"
      <4>1. \A i \in DOMAIN conns[c].down : conns[c].down[i].type = "court_occupied"
        BY <2>4, <3>4 DEF Covered
      <4>2. g.type = "court_occupied"
        BY <3>2, <4>1, TailElements
      <4>3. \A i \in DOMAIN Tail(conns[c].down) :
              i + 1 \in DOMAIN conns[c].down
              /\ Tail(conns[c].down)[i] = conns[c].down[i + 1]
        BY <3>2, TailElements
      <4> QED  BY <2>1, <3>2, <4>1, <4>2, <4>3
    <3> QED  BY <2>3, <3>1, <3>3, <3>4 DEF Covered, SameLocals, Has
  <2>6. CASE c # pages[d].conn
    <3>1. PageOf(c)' = PageOf(c)
      BY <2>3, <2>4, <2>6, OwnConn DEF PageOf, SameLocals, OtherPagesKept
    <3> QED  BY <2>1, <2>3, <2>4, <2>6, <3>1, StaysCovered DEF SameLocals
  <2> QED  BY <2>5, <2>6
<1>3. CASE PageJoins(d)
  <2>1. PICK b \in Conn, p \in PageType :
          /\ OtherPagesKept(d) /\ pages[d].conn = 0
          /\ \A e \in Conn : e # b => conns'[e] = conns[e]
          /\ ~conns'[b].court /\ ~conns'[b].superseded /\ conns'[b].down = <<>>
    BY <1>3 DEF PageJoins
  <2>2. CASE c = b
    BY <2>1, <2>2 DEF Covered
  <2>3. CASE c # b
    <3>1. conns'[c] = conns[c] /\ conns[c].state = "open" /\ Covered(c)
      BY <2>1, <2>3 DEF AwayInv
    <3>2. PageOf(c)' = PageOf(c)
      BY <2>1, <3>1, OwnConn, Bounds DEF PageOf, OtherPagesKept
    <3> QED  BY <3>1, <3>2, StaysCovered
  <2> QED  BY <2>2, <2>3
<1>4. CASE PageLeaves(d)
  <2>1. /\ OtherPagesKept(d) /\ c # pages[d].conn /\ conns'[c] = conns[c]
        /\ conns[c].state = "open"
    BY <1>4 DEF PageLeaves
  <2>2. PageOf(c)' = PageOf(c) /\ Covered(c)
    BY <2>1, OwnConn DEF PageOf, OtherPagesKept, AwayInv
  <2> QED  BY <2>1, <2>2, StaysCovered
<1> QED  BY <1>1, <1>2, <1>3, <1>4 DEF PageKind

LEMMA AwayHandler ==
    ASSUME TypeOK, LinkInv, AwayInv, NEW b \in Conn, HandlerKind(b),
           NEW c \in Conn, conns'[c].state = "open"
    PROVE  Covered(c)'
<1>1. CASE HandlerEnds(b)
  <2>1. c # b /\ conns'[c] = conns[c] /\ conns[c].state = "open"
    BY <1>1, EndingBoard
  <2>2. pages[conns[c].dev].conn # b /\ conns[c].dev \in Device
    BY <2>1 DEF LinkInv
  <2>3. PageOf(c)' = PageOf(c) /\ Covered(c)
    BY <1>1, <2>1, <2>2, EndingBoard DEF PageOf, AwayInv
  <2> QED  BY <2>1, <2>3, StaysCovered
<1>2. CASE ~HandlerEnds(b)
  <2>1. Claims(b) \/ Refuses(b) \/ Hears(b) \/ Reports(b) \/ Loses(b)
    BY <1>2 DEF HandlerKind
  <2>2. /\ pages' = pages
        /\ c # b => conns'[c] = conns[c]
        /\ conns'[c].dev = conns[c].dev /\ conns'[c].state = conns[c].state
    BY <2>1 DEF Claims, Refuses, Hears, Reports, Loses, Serves
  <2>3. conns[c].state = "open" /\ PageOf(c)' = PageOf(c) /\ Covered(c)
    BY <2>2 DEF PageOf, AwayInv
  <2>4. CASE c # b
    BY <2>2, <2>3, <2>4, StaysCovered
  <2>5. CASE c = b
    <3>1. conns[c].up \in Seq(UpFrame) /\ conns[c].down \in Seq(DownFrame)
      BY ConnFrames
    <3>2. \A f \in Seq(DownFrame) : Has(conns[c].down, "session_superseded")
              => Has(conns[c].down \o f, "session_superseded")
      BY <3>1, HasJoin
    <3>3. CASE Claims(c)
      <4>1. PICK k \in BOOLEAN : Sends(c, StateRestore(k) \o PushMatch(NoKey))
        BY <3>3 DEF Claims
      <4>2. StateRestore(k) \o PushMatch(NoKey) \in Seq(DownFrame)
        BY HostSaysTyped, JoinTyped
      <4>3. Has(conns[c].down, "session_superseded")
              => Has(conns'[c].down, "session_superseded")
        BY <2>3, <3>2, <4>1, <4>2 DEF Sends
      <4> QED  BY <2>3, <3>3, <4>3 DEF Claims, Covered
    <3>4. CASE Refuses(c)
      <4> DEFINE x == ToPage("court_occupied", NoStand, FALSE)
                 f == <<x>>
      <4>1. f \in Seq(DownFrame) /\ x.type = "court_occupied"
        BY HostSaysTyped DEF ToPage
      <4>2. conns'[c].down = conns[c].down \o f
        BY <2>3, <3>4 DEF Refuses, Sends
      <4>3. /\ \A i \in DOMAIN f : f[i] = x
            /\ 1 \in DOMAIN f
        <5> HIDE DEF x
        <5> QED  OBVIOUS
      <4> HIDE DEF x, f
      <4>4. \A i \in DOMAIN conns'[c].down :
              \/ i \in DOMAIN conns[c].down /\ conns'[c].down[i] = conns[c].down[i]
              \/ conns'[c].down[i] = x
        BY <3>1, <4>1, <4>2, <4>3, JoinElements
      <4>5. conns'[c].down # <<>>
        <5>1. Len(conns[c].down) + 1 \in DOMAIN conns'[c].down
          BY <3>1, <4>1, <4>2, <4>3, JoinElements
        <5> QED  BY <5>1
      <4>6. Has(conns[c].down, "session_superseded")
              => Has(conns'[c].down, "session_superseded")
        BY <3>2, <4>1, <4>2
      <4> QED
        BY <2>3, <3>4, <4>1, <4>4, <4>5, <4>6 DEF Refuses, KeepsToken, Covered
    <3>5. CASE Hears(c)
      <4>1. /\ conns[c].up # <<>> /\ conns'[c].up = Tail(conns[c].up)
            /\ conns'[c].down = conns[c].down /\ conns'[c].court = conns[c].court
            /\ conns'[c].token = conns[c].token
            /\ conns'[c].superseded = conns[c].superseded
            /\ Head(conns[c].up).type = "take_over" =>
                  ~conns[c].court \/ conns[c].token \/ conns[c].superseded
        BY <3>5 DEF Hears, Reads, KeepsToken
      <4>2. Head(conns[c].up).type # "take_over" /\ Has(conns[c].up, "take_over")
              => Has(conns'[c].up, "take_over")
        BY <3>1, <4>1, HasTail
      <4> QED  BY <2>3, <4>1, <4>2 DEF Covered
    <3>6. CASE Reports(c)
      <4>1. PushMatch(conns[c].last) \in Seq(DownFrame)
        BY HostSaysTyped
      <4>2. Has(conns[c].down, "session_superseded")
              => Has(conns'[c].down, "session_superseded")
        BY <2>3, <3>2, <3>6, <4>1 DEF Reports, Sends
      <4>3. conns[c].token
        BY <3>6, ActiveIsConn, Bounds DEF Reports, LinkInv
      <4> QED  BY <2>3, <3>6, <4>2, <4>3 DEF Reports, KeepsToken, Covered
    <3>7. CASE Loses(c)
      <4> DEFINE x == ToPage("session_superseded", NoStand, FALSE)
      <4>1. <<x>> \in Seq(DownFrame) /\ x.type = "session_superseded"
        BY HostSaysTyped DEF ToPage
      <4> HIDE DEF x
      <4>2. Has(<<x>>, "session_superseded")
        BY <4>1 DEF Has
      <4>3. Has(conns[c].down \o <<x>>, "session_superseded")
        BY <3>1, <4>1, <4>2, HasJoin
      <4>4. conns'[c].down = conns[c].down \o <<x>> /\ conns'[c].superseded
        BY <2>3, <3>7 DEF Loses, Sends, x
      <4> QED  BY <4>3, <4>4 DEF Covered
    <3> QED  BY <2>1, <2>5, <3>3, <3>4, <3>5, <3>6, <3>7
  <2> QED  BY <2>4, <2>5
<1> QED  BY <1>1, <1>2

LEMMA AwayStep == ASSUME TypeOK, LinkInv, AwayInv, StepKind PROVE AwayInv'
<1>1. CASE BoardKept
  BY <1>1 DEF BoardKept, AwayInv, Covered, PageOf, Has
<1>2. CASE UNCHANGED vars
  BY <1>1, <1>2 DEF vars, hostVars, BoardKept
<1> QED  BY <1>1, <1>2, AwayPage, AwayHandler DEF StepKind, AwayInv

LEMMA AwayShows == ASSUME TypeOK, LinkInv, AwayInv PROVE OneTabletCounts
<1> SUFFICES ASSUME NEW c \in Conn, AtRest(c), ~IsCourtActive(c)
             PROVE  PageOf(c).locked \/ PageOf(c).occupied
  BY DEF OneTabletCounts
<1>1. /\ conns[c].state = "open" /\ conns[c].court /\ ~conns[c].token
      /\ conns[c].up = <<>> /\ conns[c].down = <<>>
  BY DEF AtRest
<1>2. \A t : ~Has(<<>>, t)
  BY DEF Has
<1> QED  BY <1>1, <1>2 DEF AwayInv, Covered

-----------------------------------------------------------------------------
(* The holder has the match it was last told of. *)

LEMMA InformedKept ==
    ASSUME NEW c \in Conn, Informed(c), conns'[c].last = conns[c].last,
           conns'[c].down = conns[c].down,
           PageOf(c)'.match = PageOf(c).match,
           PageOf(c)'.finalized = PageOf(c).finalized,
           conns[c].down = <<>> /\ ~PageOf(c).occupied => ~PageOf(c)'.occupied
    PROVE  Informed(c)'
  BY DEF Informed, Assigned

(* The frame of a push is the last one under way, and tells the match. *)
LEMMA PushInforms ==
    ASSUME TypeOK, NEW c \in Conn, NEW q \in Seq(DownFrame), NEW k, k # PushKey,
           PushKey.match # NoMatch, conns'[c].last = PushKey,
           conns'[c].down = q \o PushMatch(k)
    PROVE  Informed(c)'
<1> DEFINE x == Assigned(PushKey)
<1>1. PushKey # NoKey /\ PushMatch(k) = <<x>>
  <2>1. PushKey # NoKey
    BY DEF NoKey
  <2> QED  BY <2>1 DEF PushMatch, Assigned
<1>2. <<x>> \in Seq(DownFrame) /\ Len(<<x>>) = 1 /\ <<x>>[1] = x
  <2>1. PushMatch(k) \in Seq(DownFrame)
    BY HostSaysTyped
  <2> HIDE DEF x
  <2> QED  BY <1>1, <2>1
<1> HIDE DEF x
<1>3. /\ Len(q \o <<x>>) = Len(q) + 1 /\ (q \o <<x>>)[Len(q) + 1] = x
      /\ q \o <<x>> # <<>>
  <2>1. Len(q) \in Nat
    OBVIOUS
  <2>2. Len(q \o <<x>>) = Len(q) + 1
    BY <1>2, ConcatProperties
  <2>3. 1 \in DOMAIN <<x>>
    BY <1>2
  <2>4. Len(q) + 1 \in DOMAIN (q \o <<x>>) /\ (q \o <<x>>)[Len(q) + 1] = <<x>>[1]
    BY <1>2, <2>3, JoinElements
  <2> QED  BY <1>2, <2>1, <2>2, <2>4
<1>4. conns'[c].down = q \o <<x>>
  BY <1>1
<1>5. conns'[c].down # <<>> /\ conns'[c].down[Len(conns'[c].down)] = x
  BY <1>3, <1>4
<1>6. x = Assigned(conns'[c].last)
  BY DEF x
<1> QED  BY <1>5, <1>6 DEF Informed, Assigned

LEMMA SeenPage ==
    ASSUME TypeOK, LinkInv, SeenInv, NEW d \in Device, PageKind(d), NEW c \in Conn,
           conns'[c].state = "open", conns'[c].token, conns'[c].last.match # NoMatch
    PROVE  Informed(c)'
<1>1. CASE PageActs(d)
  <2>1. PICK p \in PageType, f \in Seq(UpFrame) :
          /\ PageSends(d, p, f) /\ p.conn = pages[d].conn
          /\ p.match = pages[d].match /\ p.finalized = pages[d].finalized
          /\ \/ p.locked = pages[d].locked /\ p.occupied = pages[d].occupied
             \/ pages[d].occupied /\ ~pages[d].locked /\ Has(f, "take_over")
    BY <1>1 DEF PageActs
  <2>2. /\ pages'[d] = p /\ OtherPagesKept(d)
        /\ SameLocals(c) /\ conns'[c].down = conns[c].down
    BY <2>1, SendsBoard
  <2>3. conns[c].state = "open" /\ Informed(c)
    BY <2>2 DEF SameLocals, SeenInv
  <2>4. CASE c = pages[d].conn
    <3>1. PageOf(c) = pages[d] /\ PageOf(c)' = p
      BY <2>2, <2>3, <2>4, OwnConn DEF PageOf, SameLocals
    <3>2. ~PageOf(c).occupied => ~PageOf(c)'.occupied
      BY <2>1, <3>1
    <3> QED  BY <2>1, <2>2, <2>3, <3>1, <3>2, InformedKept DEF SameLocals
  <2>5. CASE c # pages[d].conn
    <3>1. PageOf(c)' = PageOf(c)
      BY <2>2, <2>3, <2>5, OwnConn DEF PageOf, SameLocals, OtherPagesKept
    <3> QED  BY <2>2, <2>3, <3>1, InformedKept DEF SameLocals
  <2> QED  BY <2>4, <2>5
<1>2. CASE Answers(d)
  <2>1. PICK p \in PageType, f \in Seq(UpFrame), g \in DownFrame :
          /\ g = Got(d) /\ Received(d, g.type)
          /\ PageAnswers(d, p, f) /\ p.conn = pages[d].conn
          /\ g.type = "match_assigned" =>
                p.match = g.stand.match /\ p.finalized = g.flag /\ ~p.occupied
    BY <1>2 DEF Answers
  <2>2. p.conn \in Conn /\ conns[p.conn].down # <<>>
    BY <2>1, GotTyped DEF Received
  <2>3. /\ pages'[d] = p /\ OtherPagesKept(d) /\ SameLocals(c)
        /\ conns'[c].down = IF c = p.conn THEN Tail(conns[c].down)
                            ELSE conns[c].down
    BY <2>1, <2>2, AnswersBoard
  <2>4. conns[c].state = "open" /\ Informed(c)
    BY <2>3 DEF SameLocals, SeenInv
  <2>5. CASE c = pages[d].conn
    <3>1. PageOf(c)' = p
      BY <2>3, <2>4, <2>5, OwnConn DEF PageOf, SameLocals
    <3> DEFINE q == conns[c].down
    <3>2. /\ q \in Seq(DownFrame) /\ q # <<>>
          /\ g = Head(q) /\ conns'[c].down = Tail(q)
      BY <2>1, <2>2, <2>3, <2>5, ConnFrames DEF Got
    <3>3. q[Len(q)] = Assigned(conns[c].last) /\ conns'[c].last = conns[c].last
      BY <2>3, <2>4, <3>2 DEF Informed, SameLocals
    <3> HIDE DEF q
    <3>4. /\ Len(Tail(q)) = Len(q) - 1 /\ Len(q) \in Nat \ {0} /\ Head(q) = q[1]
          /\ \A i \in 1 .. Len(Tail(q)) : Tail(q)[i] = q[i + 1]
          /\ Tail(q) \in Seq(DownFrame)
      <4>1. /\ Len(Tail(q)) = Len(q) - 1 /\ Len(q) \in Nat \ {0}
            /\ \A i \in 1 .. Len(Tail(q)) : Tail(q)[i] = q[i + 1]
            /\ Tail(q) \in Seq(DownFrame)
        BY <3>2, HeadTailProperties, EmptySeq
      <4>2. Head(q) = q[1]
        BY <3>2, TailElements
      <4> QED  BY <4>1, <4>2
    <3>7. Tail(q) = <<>> <=> Len(q) = 1
      <4>1. \A x \in Seq(DownFrame) : x = <<>> <=> Len(x) = 0
        BY EmptySeq
      <4>2. Tail(q) = <<>> <=> Len(Tail(q)) = 0
        BY <3>4, <4>1
      <4> QED  BY <3>4, <4>2
    <3>5. CASE Tail(q) = <<>>
      <4>1. g = Assigned(conns[c].last)
        BY <3>2, <3>3, <3>4, <3>5, <3>7
      <4>2. g.type = "match_assigned" /\ g.stand.match = conns[c].last.match
            /\ g.flag = conns[c].last.finalized
        BY <4>1 DEF Assigned, ToPage
      <4> QED  BY <2>1, <3>1, <3>2, <3>3, <3>5, <4>2 DEF Informed
    <3>6. CASE Tail(q) # <<>>
      <4>1. Tail(q)[Len(Tail(q))] = q[Len(q)]
        BY <3>4, <3>6, <3>7
      <4> QED  BY <3>2, <3>3, <3>6, <4>1 DEF Informed, Assigned
    <3> QED  BY <3>5, <3>6
  <2>6. CASE c # pages[d].conn
    <3>1. PageOf(c)' = PageOf(c)
      BY <2>3, <2>4, <2>6, OwnConn DEF PageOf, SameLocals, OtherPagesKept
    <3> QED  BY <2>1, <2>3, <2>4, <2>6, <3>1, InformedKept DEF SameLocals
  <2> QED  BY <2>5, <2>6
<1>3. CASE PageJoins(d)
  <2>1. PICK b \in Conn : /\ OtherPagesKept(d) /\ pages[d].conn = 0
                          /\ \A e \in Conn : e # b => conns'[e] = conns[e]
                          /\ ~conns'[b].token
    BY <1>3 DEF PageJoins
  <2>2. conns'[c] = conns[c] /\ conns[c].state = "open" /\ Informed(c)
    BY <2>1 DEF SeenInv
  <2>3. PageOf(c)' = PageOf(c)
    BY <2>1, <2>2, OwnConn, Bounds DEF PageOf, OtherPagesKept
  <2> QED  BY <2>2, <2>3, InformedKept
<1>4. CASE PageLeaves(d)
  <2>1. /\ OtherPagesKept(d) /\ c # pages[d].conn /\ conns'[c] = conns[c]
        /\ conns[c].state = "open"
    BY <1>4 DEF PageLeaves
  <2>2. PageOf(c)' = PageOf(c) /\ Informed(c)
    BY <2>1, OwnConn DEF PageOf, OtherPagesKept, SeenInv
  <2> QED  BY <2>1, <2>2, InformedKept
<1> QED  BY <1>1, <1>2, <1>3, <1>4 DEF PageKind

LEMMA SeenHandler ==
    ASSUME TypeOK, LinkInv, SeenInv, NEW b \in Conn, HandlerKind(b), NEW c \in Conn,
           conns'[c].state = "open", conns'[c].token, conns'[c].last.match # NoMatch
    PROVE  Informed(c)'
<1>1. CASE HandlerEnds(b)
  <2>1. c # b /\ conns'[c] = conns[c] /\ conns[c].state = "open"
    BY <1>1, EndingBoard
  <2>2. pages[conns[c].dev].conn # b /\ conns[c].dev \in Device
    BY <2>1 DEF LinkInv
  <2>3. PageOf(c)' = PageOf(c) /\ Informed(c)
    BY <1>1, <2>1, <2>2, EndingBoard DEF PageOf, SeenInv
  <2> QED  BY <2>1, <2>3, InformedKept
<1>2. CASE ~HandlerEnds(b)
  <2>1. Claims(b) \/ Refuses(b) \/ Hears(b) \/ Reports(b) \/ Loses(b)
    BY <1>2 DEF HandlerKind
  <2>2. /\ pages' = pages
        /\ c # b => conns'[c] = conns[c]
        /\ conns'[c].dev = conns[c].dev /\ conns'[c].state = conns[c].state
    BY <2>1 DEF Claims, Refuses, Hears, Reports, Loses, Serves
  <2>3. conns[c].state = "open" /\ PageOf(c)' = PageOf(c)
    BY <2>2 DEF PageOf
  <2>4. CASE c # b
    BY <2>2, <2>3, <2>4, InformedKept DEF SeenInv
  <2>5. CASE c = b
    <3>1. conns[c].down \in Seq(DownFrame)
      BY ConnFrames
    <3>2. CASE Claims(c)
      <4>1. PICK k \in BOOLEAN :
              conns'[c].down = conns[c].down \o (StateRestore(k) \o PushMatch(NoKey))
        BY <2>3, <3>2 DEF Claims, Sends
      <4>2. /\ StateRestore(k) \in Seq(DownFrame) /\ PushMatch(NoKey) \in Seq(DownFrame)
            /\ conns[c].down \o StateRestore(k) \in Seq(DownFrame)
        BY <3>1, HostSaysTyped, JoinTyped
      <4>3. conns'[c].down = (conns[c].down \o StateRestore(k)) \o PushMatch(NoKey)
        <5> DEFINE x == conns[c].down
                   y == StateRestore(k)
                   z == PushMatch(NoKey)
        <5>1. x \in Seq(DownFrame) /\ y \in Seq(DownFrame) /\ z \in Seq(DownFrame)
          BY <3>1, <4>2
        <5> HIDE DEF x, y, z
        <5>2. (x \o y) \o z = x \o (y \o z)
          BY <5>1, ConcatAssociative
        <5> QED  BY <4>1, <5>2 DEF x, y, z
      <4>4. conns'[c].last = PushKey
        BY <2>3, <3>2 DEF Claims, Remembers
      <4>5. NoKey # PushKey
        BY <4>4 DEF NoKey
      <4> QED  BY <4>2, <4>3, <4>4, <4>5, PushInforms
    <3>3. CASE Refuses(c)
      BY <2>3, <3>3 DEF Refuses, Remembers, NoKey
    <3>4. CASE Hears(c)
      <4>1. conns'[c].last = conns[c].last /\ conns'[c].down = conns[c].down
            /\ conns'[c].token = conns[c].token
        BY <2>3, <3>4 DEF Hears, Remembers, KeepsToken
      <4> QED  BY <2>3, <4>1, InformedKept DEF SeenInv
    <3>5. CASE Reports(c)
      <4>1. /\ conns'[c].last = PushKey /\ conns[c].last # PushKey
            /\ conns'[c].down = conns[c].down \o PushMatch(conns[c].last)
        BY <2>3, <3>5 DEF Reports, Remembers, Sends
      <4> QED  BY <3>1, <4>1, PushInforms
    <3>6. CASE Loses(c)
      BY <3>6 DEF Loses
    <3> QED  BY <2>1, <2>5, <3>2, <3>3, <3>4, <3>5, <3>6
  <2> QED  BY <2>4, <2>5
<1> QED  BY <1>1, <1>2

LEMMA SeenStep == ASSUME TypeOK, LinkInv, SeenInv, StepKind PROVE SeenInv'
<1>1. CASE BoardKept
  BY <1>1 DEF BoardKept, SeenInv, Informed, Assigned, PageOf
<1>2. CASE UNCHANGED vars
  BY <1>1, <1>2 DEF vars, hostVars, BoardKept
<1> QED  BY <1>1, <1>2, SeenPage, SeenHandler DEF StepKind, SeenInv

LEMMA SeenShows == ASSUME TypeOK, LinkInv, SeenInv PROVE HolderSeesItsMatch
<1> SUFFICES ASSUME NEW c \in Conn, Owns(c), PushKey # NoKey
             PROVE  /\ PageOf(c).match = PushKey.match
                    /\ PageOf(c).finalized = PushKey.finalized
                    /\ ~PageOf(c).occupied
  BY DEF HolderSeesItsMatch
<1>1. active = c /\ conns[c].token
  BY ActiveIsConn, Bounds DEF Owns, IsCourtActive, LinkInv
<1>2. /\ conns[c].state = "open" /\ conns[c].down = <<>> /\ conns[c].last = PushKey
  BY <1>1 DEF Owns, AtRest, IsCourtActive
<1>3. PushKey.match # NoMatch
  BY DEF PushKey, NoKey
<1> QED  BY <1>1, <1>2, <1>3 DEF SeenInv, Informed

-----------------------------------------------------------------------------
(* The mark of a finished match, and the match that comes. *)

Comes(m) == [match |-> m, finalized |-> FALSE]

LEMMA ComingIsNews == ASSUME MarkInv, polled \in Match PROVE PushKey # Comes(polled)
<1>1. polled # field /\ polled # NoMatch
  <2>1. polled # Idle /\ polled # NoMatch
    BY SessionAssumption, NamesAssumption
  <2> QED  BY <2>1 DEF MarkInv
<1>2. PushKey.match = polled => PushKey.finalized = TRUE
  BY <1>1 DEF PushKey, NoKey
<1> QED  BY <1>2 DEF Comes

LEMMA MarkStep == ASSUME TypeOK, LinkInv, MarkInv, StepKind PROVE MarkInv'
<1> DEFINE Hard == \A c \in Conn :
                     active = c /\ conns[c].state = "open" /\ polled \in Match
                         => conns[c].last # Comes(polled)
<1>0. Hard
  BY DEF MarkInv, Comes
<1>1. CASE CourtKept
  <2>1. ASSUME Hard' PROVE MarkInv'
    BY <1>1, <2>1 DEF CourtKept, MarkInv, Comes
  <2> HIDE DEF Hard
  <2>2. ASSUME NEW d \in Device, PageKind(d), HostKept PROVE Hard'
    <3> SUFFICES ASSUME NEW c \in Conn, active = c, conns'[c].state = "open",
                        polled \in Match
                 PROVE  conns'[c].last # Comes(polled)
      BY <1>1, <2>2 DEF Hard, CourtKept, HostKept, Comes
    <3>1. ASSUME conns'[c].state = conns[c].state, conns'[c].last = conns[c].last
          PROVE  conns'[c].last # Comes(polled)
      BY <1>0, <3>1 DEF Hard
    <3>2. CASE PageActs(d)
      <4>1. SameLocals(c)
        BY <3>2, SendsBoard DEF PageActs
      <4> QED  BY <3>1, <4>1 DEF SameLocals
    <3>3. CASE Answers(d)
      <4>1. PICK p \in PageType, f \in Seq(UpFrame), g \in DownFrame :
              /\ g = Got(d) /\ Received(d, g.type)
              /\ PageAnswers(d, p, f) /\ p.conn = pages[d].conn
        BY <3>3 DEF Answers
      <4>2. p.conn \in Conn /\ conns[p.conn].down # <<>>
        BY <4>1, GotTyped DEF Received
      <4>3. SameLocals(c)
        BY <4>1, <4>2, AnswersBoard
      <4> QED  BY <3>1, <4>3 DEF SameLocals
    <3>4. CASE PageJoins(d)
      <4>1. PICK b \in Conn : conns[b].state = "new"
                 /\ \A e \in Conn : e # b => conns'[e] = conns[e]
        BY <3>4 DEF PageJoins
      <4>2. c # b
        BY <4>1, Bounds DEF LinkInv, Alive
      <4> QED  BY <3>1, <4>1, <4>2
    <3>5. CASE PageLeaves(d)
      BY <3>1, <3>5 DEF PageLeaves
    <3> QED  BY <2>2, <3>2, <3>3, <3>4, <3>5 DEF PageKind
  <2>3. ASSUME NEW b \in Conn, HandlerKind(b) PROVE Hard'
    <3> SUFFICES ASSUME NEW c \in Conn, active' = c, conns'[c].state = "open",
                        polled \in Match
                 PROVE  conns'[c].last # Comes(polled)
      BY <1>1 DEF Hard, CourtKept, Comes
    <3>1. ASSUME active = c, conns'[c] = conns[c]
          PROVE  conns'[c].last # Comes(polled)
      BY <1>0, <3>1 DEF Hard
    <3>2. PushKey # Comes(polled) /\ NoKey # Comes(polled)
      BY ComingIsNews, SessionAssumption DEF NoKey, Comes
    <3>3. CASE Claims(b)
      BY <3>2, <3>3 DEF Claims, Serves, Remembers
    <3>4. CASE Refuses(b)
      <4>1. CASE c = b
        BY <3>2, <3>4, <4>1 DEF Refuses, Serves, Remembers
      <4>2. CASE c # b
        BY <3>1, <3>4, <4>2 DEF Refuses, Serves
      <4> QED  BY <4>1, <4>2
    <3>5. CASE Hears(b)
      <4>1. CASE c = b
        BY <1>0, <3>5, <4>1 DEF Hears, Serves, Remembers, Hard
      <4>2. CASE c # b
        BY <3>1, <3>5, <4>2 DEF Hears, Serves
      <4> QED  BY <4>1, <4>2
    <3>6. CASE Reports(b)
      BY <3>2, <3>6 DEF Reports, Serves, Remembers
    <3>7. CASE Loses(b)
      BY <3>1, <3>7 DEF Loses, Serves
    <3>8. CASE HandlerEnds(b)
      <4>1. c # b /\ conns'[c] = conns[c]
        BY <3>8, EndingBoard
      <4>2. active' = 0 \/ active' = active
        BY <3>8 DEF HandlerEnds
      <4> QED  BY <3>1, <4>1, <4>2, Bounds
    <3> QED  BY <2>3, <3>3, <3>4, <3>5, <3>6, <3>7, <3>8 DEF HandlerKind
  <2>4. CASE BoardKept
    BY <1>1, <2>4 DEF BoardKept, CourtKept, MarkInv
  <2>5. CASE UNCHANGED vars
    BY <2>4, <2>5 DEF vars, hostVars, BoardKept
  <2> QED  BY <2>1, <2>2, <2>3, <2>4, <2>5 DEF StepKind
<1>2. CASE BoardKept /\ SyncTracks
  <2>1. PICK next \in Match \cup {NoMatch}, finished \in BOOLEAN :
          /\ polled = Idle /\ Ticked /\ next # field /\ polled' = next
          /\ marker' = CASE next # NoMatch -> NoMatch
                         [] next = NoMatch /\ finished -> field
                         [] OTHER -> marker
          /\ field' = field
    BY <1>2 DEF SyncTracks
  <2>2. next # Idle
    BY NamesAssumption
  <2>3. marker' \in {NoMatch, field, marker} /\ (next \in Match => marker' = NoMatch)
    <3>1. next \in Match => next # NoMatch
      BY SessionAssumption
    <3> QED  BY <2>1, <3>1
  <2>4. ASSUME NEW c \in Conn, active' = c, conns'[c].state = "open", polled' \in Match
        PROVE  conns'[c].last # Comes(polled')
    <3>1. conns[c].last = PushKey
      BY <1>2, <2>1, <2>4, Bounds DEF Ticked, BoardKept
    <3>2. PushKey # Comes(next)
      <4>1. next # NoMatch /\ next # field
        BY <2>1, <2>4, SessionAssumption
      <4>2. PushKey.match = next => PushKey.finalized = TRUE
        BY <4>1 DEF PushKey, NoKey
      <4> QED  BY <4>2 DEF Comes
    <3> QED  BY <1>2, <2>1, <3>1, <3>2 DEF BoardKept
  <2>5. field' # NoMatch => marker' \in {NoMatch, field'}
    BY <2>1, <2>3 DEF MarkInv
  <2>6. \A c \in Conn : active' = c /\ conns'[c].state = "open" /\ polled' \in Match
                       => conns'[c].last # [match |-> polled', finalized |-> FALSE]
    BY <2>4 DEF Comes
  <2>7. polled' # Idle /\ polled' # field' /\ (polled' \in Match => marker' = NoMatch)
    BY <2>1, <2>2, <2>3
  <2> QED  BY <2>5, <2>6, <2>7 DEF MarkInv
<1>3. CASE BoardKept /\ SyncStores
  <2>1. polled # Idle /\ field' = polled /\ polled' = Idle /\ marker' = marker
    BY <1>3 DEF SyncStores
  <2>2. Idle \notin Match /\ polled \in Match \cup {NoMatch}
    BY <2>1, NamesAssumption DEF TypeOK
  <2> QED  BY <2>1, <2>2 DEF MarkInv
<1>4. CASE BoardKept /\ MarkerExpires
  <2>1. polled = Idle /\ marker' = NoMatch /\ field' = field /\ polled' = polled
    BY <1>4 DEF MarkerExpires
  <2>2. Idle \notin Match
    BY NamesAssumption
  <2> QED  BY <2>1, <2>2 DEF MarkInv
<1>5. CASE BoardKept /\ \E m \in Match : ResultWritten(m)
  <2>1. UNCHANGED <<field, marker, polled>>
    BY <1>5 DEF ResultWritten, btpVars
  <2> QED  BY <1>5, <2>1 DEF BoardKept, MarkInv
<1>6. CASE UNCHANGED vars
  BY <1>6 DEF vars, hostVars, btpVars, MarkInv
<1> QED  BY <1>1, <1>2, <1>3, <1>4, <1>5, <1>6 DEF StepKind

LEMMA FrameStep == ASSUME TypeOK, FrameInv, StepKind PROVE FrameInv'
<1> DEFINE Good(q) == \A i \in DOMAIN q :
                         q[i].type = "score_update" => q[i].stand.match # NoMatch
<1>1. FrameInv <=> \A c \in Conn : Good(conns[c].up)
  BY DEF FrameInv
<1>2. FrameInv' <=> \A c \in Conn : Good(conns'[c].up)
  BY DEF FrameInv
<1>3. ASSUME NEW q \in Seq(UpFrame), NEW f \in Seq(UpFrame), Good(q), Good(f)
      PROVE  Good(q \o f)
  <2> DEFINE x == q \o f
  <2>1. \A i \in DOMAIN x : \/ i \in DOMAIN q /\ x[i] = q[i]
                            \/ \E j \in DOMAIN f : x[i] = f[j]
    BY JoinElements
  <2> HIDE DEF x
  <2>2. Good(x)
    BY <1>3, <2>1
  <2> QED  BY <2>2 DEF x
<1>4. ASSUME NEW p, NEW f, \A i \in DOMAIN f :
               f[i].type \in {"score_update", "state_sync"}
                   => f[i].stand = Stand(p) /\ p.match # NoMatch
      PROVE  Good(f)
  BY <1>4 DEF Stand
<1>5. ASSUME NEW q \in Seq(UpFrame), q # <<>>, Good(q) PROVE Good(Tail(q))
  BY <1>5, TailElements
<1> HIDE DEF Good
<1>6. ASSUME NEW d \in Device, PageActs(d) \/ Answers(d)
      PROVE  \A c \in Conn : Good(conns'[c].up)
  <2>1. PICK p \in PageType, f \in Seq(UpFrame) :
          /\ \A i \in DOMAIN f : f[i].type \in {"score_update", "state_sync"}
                   => f[i].stand = Stand(p) /\ p.match # NoMatch
          /\ \A c \in Conn : conns'[c].up = IF c = p.conn THEN conns[c].up \o f
                                             ELSE conns[c].up
    <3>1. CASE PageActs(d)
      <4>1. PICK p \in PageType, f \in Seq(UpFrame) :
              /\ PageSends(d, p, f)
              /\ \A i \in DOMAIN f : f[i].type \in {"score_update", "state_sync"}
                   => f[i].stand = Stand(p) /\ p.match # NoMatch
        BY <3>1 DEF PageActs
      <4>2. \A c \in Conn : conns'[c].up = IF c = p.conn THEN conns[c].up \o f
                                           ELSE conns[c].up
        BY <4>1, SendsBoard
      <4> QED  BY <4>1, <4>2
    <3>2. CASE Answers(d)
      <4>1. PICK p \in PageType, f \in Seq(UpFrame), g \in DownFrame :
              /\ g = Got(d) /\ Received(d, g.type)
              /\ PageAnswers(d, p, f) /\ p.conn = pages[d].conn /\ OwnFrames(f, p)
        BY <3>2 DEF Answers
      <4>2. p.conn \in Conn /\ conns[p.conn].down # <<>>
        BY <4>1, GotTyped DEF Received
      <4>3. \A c \in Conn : conns'[c].up = IF c = p.conn THEN conns[c].up \o f
                                           ELSE conns[c].up
        BY <4>1, <4>2, AnswersBoard
      <4> QED  BY <4>1, <4>3 DEF OwnFrames
    <3> QED  BY <1>6, <3>1, <3>2
  <2> QED  BY <1>1, <1>3, <1>4, <2>1, ConnFrames
<1>7. ASSUME NEW d \in Device, PageJoins(d) PROVE \A c \in Conn : Good(conns'[c].up)
  <2>1. PICK c \in Conn, p \in PageType :
          /\ \A b \in Conn : b # c => conns'[b] = conns[b]
          /\ \A i \in DOMAIN conns'[c].up :
              conns'[c].up[i].type = "score_update"
                  => conns'[c].up[i].stand = Stand(p) /\ p.match # NoMatch
    BY <1>7 DEF PageJoins
  <2>2. Good(conns'[c].up)
    BY <2>1 DEF Good, Stand
  <2> QED  BY <1>1, <2>1, <2>2
<1>8. ASSUME NEW d \in Device, PageLeaves(d) PROVE \A c \in Conn : Good(conns'[c].up)
  BY <1>1, <1>8 DEF PageLeaves
<1>9. ASSUME NEW b \in Conn, HandlerKind(b) PROVE \A c \in Conn : Good(conns'[c].up)
  <2>1. CASE Claims(b) \/ Refuses(b) \/ Hears(b)
    <3>1. Serves(b) /\ Reads(b)
      BY <2>1 DEF Claims, Refuses, Hears
    <3> QED  BY <1>1, <1>5, <3>1, ConnFrames DEF Serves, Reads
  <2>2. CASE Reports(b) \/ Loses(b)
    <3>1. Serves(b) /\ conns'[b].up = conns[b].up
      BY <2>2 DEF Reports, Loses
    <3> QED  BY <1>1, <3>1 DEF Serves
  <2>3. CASE HandlerEnds(b)
    <3>1. Good(<<>>)
      BY DEF Good
    <3> QED  BY <1>1, <2>3, <3>1, EndingBoard
  <2> QED  BY <1>9, <2>1, <2>2, <2>3 DEF HandlerKind
<1>10. CASE BoardKept \/ UNCHANGED vars
  BY <1>10 DEF BoardKept, vars, FrameInv
<1> QED
  BY <1>2, <1>6, <1>7, <1>8, <1>9, <1>10 DEF StepKind, PageKind

-----------------------------------------------------------------------------
(* What the holder has counted is shown, or on its way. *)

LEMMA BroughtJoin ==
    ASSUME NEW q \in Seq(UpFrame), NEW f \in Seq(UpFrame), NEW t, NEW x, NEW s,
           \A i \in DOMAIN f : f[i].type = t => f[i].stand = s,
           Brought(q, t, x, s) \/ Has(f, t)
    PROVE  Brought(q \o f, t, x, s)
<1> DEFINE z == q \o f
<1>1. /\ \A i \in DOMAIN z : \/ i \in DOMAIN q /\ z[i] = q[i]
                            \/ \E j \in DOMAIN f : i = Len(q) + j /\ z[i] = f[j]
      /\ \A j \in DOMAIN q : j \in DOMAIN z /\ z[j] = q[j]
      /\ \A j \in DOMAIN f : Len(q) + j \in DOMAIN z /\ z[Len(q) + j] = f[j]
  BY JoinElements
<1>2. Len(q) \in Nat /\ DOMAIN q = 1 .. Len(q) /\ DOMAIN f = 1 .. Len(f)
      /\ Len(f) \in Nat
  OBVIOUS
<1> HIDE DEF z
<1>3. CASE Has(f, t)
  <2>1. PICK j \in DOMAIN f : f[j].type = t
    BY <1>3 DEF Has
  <2>2. z[Len(q) + j].type = t /\ z[Len(q) + j].stand = s
        /\ Len(q) + j \in DOMAIN z
    BY <1>1, <2>1
  <2>3. \A k \in DOMAIN z : k > Len(q) + j /\ z[k].type = t => z[k].stand = s
    <3> SUFFICES ASSUME NEW k \in DOMAIN z, k > Len(q) + j, z[k].type = t
                 PROVE  z[k].stand = s
      OBVIOUS
    <3>1. k \notin DOMAIN q
      BY <1>2
    <3>2. PICK i \in DOMAIN f : z[k] = f[i]
      BY <1>1, <3>1
    <3> QED  BY <3>2
  <2>4. Brought(z, t, x, s)
    BY <2>2, <2>3 DEF Brought
  <2> QED  BY <2>4 DEF z
<1>4. CASE ~Has(f, t)
  <2>1. \A i \in DOMAIN f : f[i].type # t
    BY <1>4 DEF Has
  <2>2. \A k \in DOMAIN z : z[k].type = t => k \in DOMAIN q /\ z[k] = q[k]
    BY <1>1, <2>1
  <2>3. Brought(q, t, x, s)
    BY <1>4
  <2>4. Brought(z, t, x, s)
    BY <1>1, <2>2, <2>3 DEF Brought
  <2> QED  BY <2>4 DEF z
<1> QED  BY <1>3, <1>4

(* The host reads a frame: shows its stand, or need not. *)
LEMMA BroughtTail ==
    ASSUME NEW q \in Seq(UpFrame), q # <<>>, NEW t, NEW x, NEW y, NEW s,
           Brought(q, t, x, s),
           IF Head(q).type = t THEN y = Head(q).stand \/ (y = x /\ Head(q).stand # s)
           ELSE y = x
    PROVE  Brought(Tail(q), t, y, s)
<1> DEFINE z == Tail(q)
<1>1. /\ Head(q) = q[1] /\ 1 \in DOMAIN q
      /\ \A i \in DOMAIN z : i \in Nat /\ i + 1 \in DOMAIN q /\ z[i] = q[i + 1]
      /\ \A j \in DOMAIN q : j # 1 =>
            j \in Nat /\ j - 1 \in DOMAIN z /\ z[j - 1] = q[j]
  BY TailElements
<1> HIDE DEF z
<1>2. CASE \E i \in DOMAIN q : i # 1 /\ q[i].type = t /\ q[i].stand = s
              /\ \A j \in DOMAIN q : j > i /\ q[j].type = t => q[j].stand = s
  <2>1. PICK i \in DOMAIN q : i # 1 /\ q[i].type = t /\ q[i].stand = s
              /\ \A j \in DOMAIN q : j > i /\ q[j].type = t => q[j].stand = s
    BY <1>2
  <2>2. i \in Nat /\ i - 1 \in DOMAIN z /\ z[i - 1] = q[i]
    BY <1>1, <2>1
  <2>3. \A j \in DOMAIN z : j > i - 1 /\ z[j].type = t => z[j].stand = s
    <3> SUFFICES ASSUME NEW j \in DOMAIN z, j > i - 1, z[j].type = t
                 PROVE  z[j].stand = s
      OBVIOUS
    <3>1. j \in Nat /\ j + 1 \in DOMAIN q /\ z[j] = q[j + 1]
      BY <1>1
    <3>2. j + 1 > i
      BY <2>2, <3>1
    <3> QED  BY <2>1, <3>1, <3>2
  <2>4. Brought(z, t, y, s)
    BY <2>1, <2>2, <2>3 DEF Brought
  <2> QED  BY <2>4 DEF z
<1>3. CASE q[1].type = t /\ q[1].stand = s
              /\ \A j \in DOMAIN q : j > 1 /\ q[j].type = t => q[j].stand = s
  <2>1. y = s
    BY <1>1, <1>3
  <2>2. \A j \in DOMAIN z : z[j].type = t => z[j].stand = s
    <3> SUFFICES ASSUME NEW j \in DOMAIN z, z[j].type = t PROVE z[j].stand = s
      OBVIOUS
    <3>1. j \in Nat /\ j + 1 \in DOMAIN q /\ z[j] = q[j + 1]
      BY <1>1
    <3>2. j + 1 > 1
      <4>1. j # 0
        BY DEF z
      <4> QED  BY <3>1, <4>1
    <3> QED  BY <1>3, <3>1, <3>2
  <2>3. Brought(z, t, y, s)
    BY <2>1, <2>2 DEF Brought
  <2> QED  BY <2>3 DEF z
<1>4. CASE (\A j \in DOMAIN q : q[j].type # t) /\ x = s
  <2>1. \A j \in DOMAIN z : z[j].type # t
    BY <1>1, <1>4
  <2>2. y = s
    BY <1>1, <1>4
  <2>3. Brought(z, t, y, s)
    BY <2>1, <2>2 DEF Brought
  <2> QED  BY <2>3 DEF z
<1> QED
  <2>1. CASE \E i \in DOMAIN q : q[i].type = t /\ q[i].stand = s
                /\ \A j \in DOMAIN q : j > i /\ q[j].type = t => q[j].stand = s
    <3>1. PICK i \in DOMAIN q : q[i].type = t /\ q[i].stand = s
                /\ \A j \in DOMAIN q : j > i /\ q[j].type = t => q[j].stand = s
      BY <2>1
    <3>2. CASE i = 1
      <4>1. q[1].type = t /\ q[1].stand = s
              /\ \A j \in DOMAIN q : j > 1 /\ q[j].type = t => q[j].stand = s
        BY <3>1, <3>2
      <4> QED  BY <1>3, <4>1
    <3>3. CASE i # 1
      BY <1>2, <3>1, <3>3
    <3> QED  BY <3>2, <3>3
  <2>2. CASE ~\E i \in DOMAIN q : q[i].type = t /\ q[i].stand = s
                /\ \A j \in DOMAIN q : j > i /\ q[j].type = t => q[j].stand = s
    <3>1. (\A j \in DOMAIN q : q[j].type # t) /\ x = s
      BY <2>2 DEF Brought
    <3> QED  BY <1>4, <3>1
  <2> QED  BY <2>1, <2>2

LEMMA ShowingHolder ==
    ASSUME TypeOK, LinkInv, NEW c \in Conn, active = c
    PROVE  Alive(c) /\ conns[c].token
  BY Bounds DEF LinkInv

(* A holder that has read everything has the match on the court, unfinished. *)
LEMMA ShowingSees ==
    ASSUME TypeOK, LinkInv, SeenInv, NEW c \in Conn, active = c,
           conns[c].state = "open", field # NoMatch, conns[c].last = Comes(field)
    PROVE  Informed(c) /\ conns[c].last.match = field /\ ~conns[c].last.finalized
  BY ShowingHolder DEF SeenInv, Comes

LEMMA ShownNext ==
    ASSUME NEW c \in Conn, NEW q, NEW p, NEW s, conns'[c].up = q, PageOf(c)' = p,
           s = Stand(p), Brought(q, "score_update", score', s),
           ~p.locked => Brought(q, "state_sync", mirror', s)
    PROVE  Shown(c)'
<1>1. Stand(PageOf(c))' = s
  BY DEF Stand
<1> QED  BY <1>1 DEF Shown, Brought

LEMMA SameShown ==
    ASSUME ShownInv, NEW c \in Conn, Showing(c), UNCHANGED <<score, mirror>>,
           conns'[c].up = conns[c].up, PageOf(c)' = PageOf(c)
    PROVE  Shown(c)'
<1>1. Shown(c)
  BY DEF ShownInv
<1>2. Stand(PageOf(c))' = Stand(PageOf(c))
  BY DEF Stand
<1> QED  BY <1>1, <1>2 DEF Shown, Brought

LEMMA ShownPage ==
    ASSUME TypeOK, LinkInv, SeenInv, ShownInv, NEW d \in Device, PageKind(d),
           HostKept, CourtKept, NEW c \in Conn, Showing(c)'
    PROVE  Shown(c)'
<1>0. /\ active = c /\ conns'[c].state = "open" /\ conns'[c].down = <<>>
      /\ field # NoMatch /\ marker # field /\ inBtp = {}
      /\ conns'[c].last = Comes(field) /\ PageOf(c)'.points # Unset
  BY DEF Showing, HostKept, CourtKept, Comes
<1>1. ASSUME conns[c].state = "open", conns[c].down = <<>>,
             conns[c].last = conns'[c].last, conns'[c].up = conns[c].up,
             PageOf(c)' = PageOf(c)
      PROVE  Shown(c)'
  BY <1>0, <1>1, SameShown DEF Showing, Comes, HostKept
<1>2. CASE PageActs(d)
  <2>1. PICK p \in PageType, f \in Seq(UpFrame) :
        /\ PageSends(d, p, f)
        /\ p.conn = pages[d].conn
        /\ p.match = pages[d].match /\ p.finalized = pages[d].finalized
        /\ \A i \in DOMAIN f : f[i].type \in {"score_update", "state_sync"}
                => f[i].stand = Stand(p) /\ p.match # NoMatch
        /\ \/ /\ p.locked = pages[d].locked /\ p.occupied = pages[d].occupied
              /\ p.points # pages[d].points =>
                    /\ ~p.finalized => Has(f, "score_update")
                    /\ ~p.finalized => Has(f, "state_sync")
           \/ /\ pages[d].occupied /\ ~pages[d].locked /\ Has(f, "take_over")
              /\ p.points = pages[d].points
    BY <1>2 DEF PageActs
  <2>2. /\ pages'[d] = p /\ OtherPagesKept(d)
        /\ SameLocals(c) /\ conns'[c].down = conns[c].down
        /\ conns'[c].up = IF c = p.conn THEN conns[c].up \o f ELSE conns[c].up
    BY <2>1, SendsBoard
  <2>3. conns[c].state = "open" /\ conns[c].last = Comes(field) /\ conns[c].down = <<>>
    BY <1>0, <2>2 DEF SameLocals
  <2>4. CASE c = pages[d].conn
    <3>1. PageOf(c) = pages[d] /\ PageOf(c)' = p
      BY <2>2, <2>3, <2>4, OwnConn DEF PageOf, SameLocals
    <3>2. ~p.finalized /\ ~pages[d].occupied
      BY <1>0, <2>1, <2>3, <3>1, ShowingSees DEF Informed
    <3>3. /\ p.locked = pages[d].locked
          /\ p.points # pages[d].points => Has(f, "score_update") /\ Has(f, "state_sync")
      BY <2>1, <3>2
    <3>4. conns[c].up \in Seq(UpFrame) /\ conns'[c].up = conns[c].up \o f
      BY <2>1, <2>2, <2>4, ConnFrames
    <3> DEFINE s == Stand(p)
    <3>5. \A t \in {"score_update", "state_sync"} :
            \A i \in DOMAIN f : f[i].type = t => f[i].stand = s
      BY <2>1
    <3>6. CASE p.points # pages[d].points
      <4> HIDE DEF s
      <4>1. /\ Brought(conns[c].up \o f, "score_update", score, s)
            /\ Brought(conns[c].up \o f, "state_sync", mirror, s)
        BY <3>3, <3>4, <3>5, <3>6, BroughtJoin
      <4> QED  BY <3>1, <3>4, <4>1, ShownNext DEF HostKept, s
    <3>7. CASE p.points = pages[d].points
      <4>1. Stand(PageOf(c)) = s
        BY <2>1, <3>1, <3>7 DEF Stand
      <4>2. Showing(c)
        BY <1>0, <2>3, <3>1, <3>7 DEF Showing, Comes
      <4>3. /\ Brought(conns[c].up, "score_update", score, s)
            /\ ~p.locked => Brought(conns[c].up, "state_sync", mirror, s)
        BY <3>1, <3>3, <4>1, <4>2 DEF ShownInv, Shown
      <4> HIDE DEF s
      <4>4. /\ Brought(conns[c].up \o f, "score_update", score, s)
            /\ ~p.locked => Brought(conns[c].up \o f, "state_sync", mirror, s)
        BY <3>4, <3>5, <4>3, BroughtJoin
      <4> QED  BY <3>1, <3>4, <4>4, ShownNext DEF HostKept, s
    <3> QED  BY <3>6, <3>7
  <2>5. CASE c # pages[d].conn
    <3>1. PageOf(c)' = PageOf(c)
      BY <2>2, <2>3, <2>5, OwnConn DEF PageOf, SameLocals, OtherPagesKept
    <3> QED  BY <1>1, <2>1, <2>2, <2>3, <2>5, <3>1 DEF SameLocals
  <2> QED  BY <2>4, <2>5
<1>3. CASE Answers(d)
  <2>1. PICK p \in PageType, f \in Seq(UpFrame), g \in DownFrame :
        /\ g = Got(d) /\ Received(d, g.type)
        /\ PageAnswers(d, p, f) /\ p.conn = pages[d].conn
        /\ OwnFrames(f, p)
        /\ g.type = "match_assigned" =>
              /\ p.match = g.stand.match /\ p.finalized = g.flag /\ ~p.occupied
              /\ ~p.finalized /\ p.match # NoMatch /\ p.points # Unset =>
                    /\ Has(f, "score_update")
                    /\ ~p.locked => Has(f, "state_sync")
    BY <1>3 DEF Answers
  <2>2. p.conn \in Conn /\ conns[p.conn].down # <<>>
    BY <2>1, GotTyped DEF Received
  <2>3. /\ pages'[d] = p /\ OtherPagesKept(d) /\ SameLocals(c)
        /\ conns'[c].down = IF c = p.conn THEN Tail(conns[c].down)
                            ELSE conns[c].down
        /\ conns'[c].up = IF c = p.conn THEN conns[c].up \o f ELSE conns[c].up
    BY <2>1, <2>2, AnswersBoard
  <2>4. conns[c].state = "open" /\ conns[c].last = Comes(field)
    BY <1>0, <2>3 DEF SameLocals
  <2>5. CASE c = pages[d].conn
    <3> DEFINE q == conns[c].down
    <3>1. PageOf(c)' = p
      BY <2>3, <2>4, <2>5, OwnConn DEF PageOf, SameLocals
    <3>2. /\ q \in Seq(DownFrame) /\ q # <<>> /\ g = Head(q) /\ Tail(q) = <<>>
      BY <1>0, <2>1, <2>2, <2>3, <2>5, ConnFrames DEF Got
    <3>3. q[Len(q)] = Assigned(conns[c].last) /\ conns[c].last.match = field
          /\ ~conns[c].last.finalized
      BY <1>0, <2>4, <3>2, ShowingSees DEF Informed
    <3> HIDE DEF q
    <3>4. Len(q) = 1 /\ g = q[1]
      <4>1. Len(Tail(q)) = Len(q) - 1 /\ Len(q) \in Nat \ {0} /\ Len(Tail(q)) = 0
        BY <3>2, HeadTailProperties, EmptySeq
      <4> QED  BY <3>2, <4>1, TailElements
    <3>5. g.type = "match_assigned" /\ g.stand.match = field /\ ~g.flag
      BY <3>3, <3>4 DEF Assigned, ToPage
    <3>6. Has(f, "score_update") /\ (~p.locked => Has(f, "state_sync"))
      BY <1>0, <2>1, <3>1, <3>5
    <3> DEFINE s == Stand(p)
    <3>7. \A t \in {"score_update", "state_sync"} :
            \A i \in DOMAIN f : f[i].type = t => f[i].stand = s
      BY <2>1 DEF OwnFrames
    <3>8. conns[c].up \in Seq(UpFrame) /\ conns'[c].up = conns[c].up \o f
      BY <2>1, <2>3, <2>5, ConnFrames
    <3> HIDE DEF s
    <3>9. /\ Brought(conns[c].up \o f, "score_update", score, s)
          /\ ~p.locked => Brought(conns[c].up \o f, "state_sync", mirror, s)
      BY <3>6, <3>7, <3>8, BroughtJoin
    <3> QED  BY <3>1, <3>8, <3>9, ShownNext DEF HostKept, s
  <2>6. CASE c # pages[d].conn
    <3>1. PageOf(c)' = PageOf(c)
      BY <2>3, <2>4, <2>6, OwnConn DEF PageOf, SameLocals, OtherPagesKept
    <3> QED  BY <1>0, <1>1, <2>1, <2>3, <2>4, <2>6, <3>1 DEF SameLocals
  <2> QED  BY <2>5, <2>6
<1>4. CASE PageJoins(d)
  <2>1. PICK b \in Conn : /\ OtherPagesKept(d) /\ pages[d].conn = 0
                          /\ conns[b].state = "new"
                          /\ \A e \in Conn : e # b => conns'[e] = conns[e]
    BY <1>4 DEF PageJoins
  <2>2. conns'[c] = conns[c]
    BY <1>0, <2>1, ShowingHolder DEF Alive
  <2>3. PageOf(c)' = PageOf(c)
    BY <1>0, <2>1, <2>2, OwnConn, Bounds DEF PageOf, OtherPagesKept
  <2> QED  BY <1>0, <1>1, <2>2, <2>3
<1>5. CASE PageLeaves(d)
  <2>1. /\ OtherPagesKept(d) /\ c # pages[d].conn /\ conns'[c] = conns[c]
    BY <1>0, <1>5 DEF PageLeaves
  <2>2. PageOf(c)' = PageOf(c)
    BY <1>0, <2>1, OwnConn DEF PageOf, OtherPagesKept
  <2> QED  BY <1>0, <1>1, <2>1, <2>2
<1> QED  BY <1>2, <1>3, <1>4, <1>5 DEF PageKind

LEMMA PushSays ==
    ASSUME TypeOK, NEW k, k # PushKey, field # NoMatch
    PROVE  PushMatch(k) # <<>>
  BY DEF PushMatch, PushKey, NoKey

LEMMA ShownHandler ==
    ASSUME TypeOK, LinkInv, SeenInv, ShownInv, NEW b \in Conn, HandlerKind(b),
           CourtKept, NEW c \in Conn, Showing(c)'
    PROVE  Shown(c)'
<1>0. /\ active' = c /\ conns'[c].state = "open" /\ conns'[c].down = <<>>
      /\ field # NoMatch /\ marker # field /\ inBtp = {}
      /\ conns'[c].last = Comes(field) /\ PageOf(c)'.points # Unset
  BY DEF Showing, CourtKept, Comes
<1>1. ASSUME active = c, conns'[c] = conns[c], PageOf(c)' = PageOf(c),
             UNCHANGED <<score, mirror>>
      PROVE  Shown(c)'
  BY <1>0, <1>1, SameShown DEF Showing, Comes
<1>2. \A q \in Seq(DownFrame), f \in Seq(DownFrame) : f # <<>> => q \o f # <<>>
  <2> SUFFICES ASSUME NEW q \in Seq(DownFrame), NEW f \in Seq(DownFrame), f # <<>>
               PROVE  q \o f # <<>>
    OBVIOUS
  <2>1. Len(q \o f) = Len(q) + Len(f) /\ Len(f) \in Nat \ {0} /\ Len(q) \in Nat
    BY ConcatProperties, EmptySeq
  <2>2. Len(q \o f) # 0
    BY <2>1
  <2> QED  BY <2>2, EmptySeq
<1>3. CASE Claims(b)
  <2>1. c = b /\ conns[c].state = "open"
    BY <1>0, <1>3 DEF Claims, Serves
  <2>2. PICK k \in BOOLEAN :
          conns'[c].down = conns[c].down \o (StateRestore(k) \o PushMatch(NoKey))
    BY <1>3, <2>1 DEF Claims, Sends
  <2>3. PushMatch(NoKey) # <<>>
    <3>1. PushKey # NoKey
      BY <1>0 DEF PushKey, NoKey
    <3> QED  BY <1>0, <3>1, PushSays
  <2>4. /\ StateRestore(k) \in Seq(DownFrame) /\ PushMatch(NoKey) \in Seq(DownFrame)
        /\ conns[c].down \in Seq(DownFrame)
        /\ StateRestore(k) \o PushMatch(NoKey) \in Seq(DownFrame)
    BY HostSaysTyped, JoinTyped, ConnFrames
  <2>5. StateRestore(k) \o PushMatch(NoKey) # <<>>
    BY <1>2, <2>3, <2>4
  <2>6. conns[c].down \o (StateRestore(k) \o PushMatch(NoKey)) # <<>>
    BY <1>2, <2>4, <2>5
  <2> QED  BY <1>0, <2>2, <2>6
<1>4. CASE Refuses(b)
  <2>1. CASE c = b
    <3> DEFINE f == <<ToPage("court_occupied", NoStand, FALSE)>>
    <3>1. f \in Seq(DownFrame) /\ f # <<>> /\ conns[c].down \in Seq(DownFrame)
      BY HostSaysTyped, ConnFrames
    <3>2. conns'[c].down = conns[c].down \o f
      BY <1>0, <1>4, <2>1 DEF Refuses, Serves, Sends
    <3> HIDE DEF f
    <3> QED  BY <1>0, <1>2, <3>1, <3>2
  <2>2. CASE c # b
    BY <1>0, <1>1, <1>4, <2>2 DEF Refuses, Serves, PageOf
  <2> QED  BY <2>1, <2>2
<1>5. CASE Hears(b)
  <2>1. /\ active = c /\ pages' = pages /\ \A e \in Conn : e # b => conns'[e] = conns[e]
        /\ conns'[b].dev = conns[b].dev /\ conns'[b].state = conns[b].state
        /\ conns[b].up # <<>> /\ conns'[b].up = Tail(conns[b].up)
        /\ conns'[b].down = conns[b].down
        /\ conns[b].state = "open" => conns'[b].last = conns[b].last
    BY <1>0, <1>5 DEF Hears, Serves, Reads, Remembers
  <2>2. CASE c # b
    <3>1. score' = score
      BY <1>5, <2>1, <2>2 DEF Hears, HandleScore, Believed, IsCourtActive
    <3>2. mirror' = mirror
      BY <1>5, <2>1, <2>2 DEF Hears, HandleSync, Believed, IsCourtActive
    <3> QED  BY <1>1, <2>1, <2>2, <3>1, <3>2 DEF PageOf
  <2>3. CASE c = b
    <3> DEFINE s == Stand(PageOf(c))
               q == conns[c].up
    <3>1. /\ PageOf(c)' = PageOf(c) /\ conns[c].state = "open" /\ conns[c].down = <<>>
          /\ conns[c].last = Comes(field) /\ q \in Seq(UpFrame) /\ q # <<>>
          /\ conns'[c].up = Tail(q)
      BY <1>0, <2>1, <2>3, ConnFrames DEF PageOf
    <3>2. s.match = field
      <4>1. PageOf(c).match = field
        BY <1>0, <2>1, <3>1, ShowingSees DEF Informed
      <4> QED  BY <4>1 DEF Stand
    <3>3. Showing(c)
      BY <1>0, <2>1, <3>1 DEF Showing, Comes
    <3>4. /\ Brought(q, "score_update", score, s)
          /\ ~PageOf(c).locked => Brought(q, "state_sync", mirror, s)
      BY <3>3 DEF ShownInv, Shown
    <3>5. Believed(c)
      BY <2>1, ShowingHolder DEF Believed, IsCourtActive
    <3>6. IF Head(q).type = "score_update"
          THEN score' = Head(q).stand \/ (score' = score /\ Head(q).stand # s)
          ELSE score' = score
      <4>1. CASE Head(q).type = "score_update"
        <5>1. HandleScore(c)
          BY <1>5, <2>3, <4>1 DEF Hears
        <5>2. CASE Countable(Says(c))
          BY <3>5, <4>1, <5>1, <5>2 DEF HandleScore, Says
        <5>3. CASE ~Countable(Says(c))
          BY <1>0, <3>2, <4>1, <5>1, <5>3 DEF HandleScore, Says, Countable
        <5> QED  BY <5>2, <5>3
      <4>2. CASE Head(q).type # "score_update"
        BY <1>5, <2>3, <4>2 DEF Hears, HandleScore, Heard
      <4> QED  BY <4>1, <4>2
    <3>7. IF Head(q).type = "state_sync"
          THEN mirror' = Head(q).stand \/ (mirror' = mirror /\ Head(q).stand # s)
          ELSE mirror' = mirror
      <4>1. CASE Head(q).type = "state_sync"
        <5>1. HandleSync(c)
          BY <1>5, <2>3, <4>1 DEF Hears
        <5> QED  BY <3>2, <3>5, <4>1, <5>1 DEF HandleSync, Says
      <4>2. CASE Head(q).type # "state_sync"
        BY <1>5, <2>3, <4>2 DEF Hears, HandleSync, Heard
      <4> QED  BY <4>1, <4>2
    <3> HIDE DEF s, q
    <3>8. /\ Brought(Tail(q), "score_update", score', s)
          /\ ~PageOf(c).locked => Brought(Tail(q), "state_sync", mirror', s)
      BY <3>1, <3>4, <3>6, <3>7, BroughtTail
    <3>9. s = Stand(PageOf(c))'
      BY <3>1 DEF s, Stand
    <3> QED  BY <3>1, <3>8, <3>9 DEF Shown, Brought
  <2> QED  BY <2>2, <2>3
<1>6. CASE Reports(b)
  <2>1. /\ c = b /\ PushKey # conns[c].last
        /\ conns'[c].down = conns[c].down \o PushMatch(conns[c].last)
    BY <1>0, <1>6 DEF Reports, Serves, Sends
  <2>2. PushMatch(conns[c].last) # <<>>
    BY <1>0, <2>1, PushSays
  <2>3. conns[c].down \in Seq(DownFrame) /\ PushMatch(conns[c].last) \in Seq(DownFrame)
    BY HostSaysTyped, ConnFrames
  <2> QED  BY <1>0, <1>2, <2>1, <2>2, <2>3
<1>7. CASE Loses(b)
  BY <1>0, <1>1, <1>7 DEF Loses, Serves, PageOf
<1>8. CASE HandlerEnds(b)
  <2>1. c # b /\ conns'[c] = conns[c] /\ conns[c].state = "open"
    BY <1>0, <1>8, EndingBoard
  <2>2. pages[conns[c].dev].conn # b /\ conns[c].dev \in Device
    BY <2>1 DEF LinkInv
  <2>3. PageOf(c)' = PageOf(c)
    BY <1>8, <2>1, <2>2, EndingBoard DEF PageOf
  <2>4. active = c /\ UNCHANGED <<score, mirror>>
    <3>1. active' = 0 \/ active' = active
      BY <1>8 DEF HandlerEnds
    <3> QED  BY <1>0, <1>8, <3>1, Bounds DEF HandlerEnds
  <2> QED  BY <1>1, <2>1, <2>3, <2>4
<1> QED  BY <1>3, <1>4, <1>5, <1>6, <1>7, <1>8 DEF HandlerKind

LEMMA ShownStep ==
    ASSUME TypeOK, LinkInv, SeenInv, MarkInv, ShownInv, StepKind
    PROVE  ShownInv'
<1> SUFFICES ASSUME NEW c \in Conn, Showing(c)' PROVE Shown(c)'
  BY DEF ShownInv
<1>1. ASSUME BoardKept, UNCHANGED <<score, mirror>>, Showing(c)
      PROVE  Shown(c)'
  BY <1>1, SameShown DEF BoardKept, PageOf
<1>2. CASE BoardKept /\ SyncTracks
  <2>1. /\ polled = Idle /\ field' = field /\ inBtp' = inBtp
        /\ UNCHANGED <<score, mirror>>
    BY <1>2 DEF SyncTracks, hostVars, postVars
  <2>2. Showing(c)
    BY <1>2, <2>1 DEF Showing, MarkInv, BoardKept, PageOf
  <2> QED  BY <1>1, <1>2, <2>1, <2>2
<1>3. CASE BoardKept /\ SyncStores
  <2>1. polled \in Match \cup {NoMatch} /\ field' = polled
    BY <1>3 DEF SyncStores, TypeOK
  <2>2. /\ polled \in Match /\ active = c /\ conns[c].state = "open"
        /\ conns[c].last = [match |-> polled, finalized |-> FALSE]
    BY <1>3, <2>1 DEF Showing, BoardKept
  <2> QED  BY <2>2 DEF MarkInv
<1>4. CASE BoardKept /\ MarkerExpires
  <2>1. polled = Idle /\ marker # NoMatch /\ field' = field
    BY <1>4 DEF MarkerExpires
  <2>2. field # NoMatch
    BY <2>1 DEF Showing
  <2> QED  BY <2>1, <2>2 DEF MarkInv
<1>5. CASE \E m \in Match : ResultWritten(m)
  <2>1. inBtp' # {}
    BY <1>5 DEF ResultWritten
  <2> QED  BY <2>1 DEF Showing
<1>6. CASE UNCHANGED vars
  <2>1. Showing(c)
    BY <1>6 DEF vars, hostVars, btpVars, postVars, Showing, PageOf
  <2> QED  BY <1>1, <1>6, <2>1 DEF vars, hostVars, BoardKept
<1> QED
  BY <1>2, <1>3, <1>4, <1>5, <1>6, ShownPage, ShownHandler DEF StepKind

LEMMA ShownShows ==
    ASSUME TypeOK, LinkInv, ShownInv PROVE HolderStandIsShown
<1> SUFFICES ASSUME NEW c \in Conn, Owns(c), field # NoMatch, marker # field,
                    inBtp = {}, PageOf(c).points # Unset
             PROVE  /\ score = Stand(PageOf(c))
                    /\ ~PageOf(c).locked => mirror = Stand(PageOf(c))
  BY DEF HolderStandIsShown
<1>1. /\ active = c /\ conns[c].state = "open" /\ conns[c].down = <<>>
      /\ conns[c].up = <<>> /\ conns[c].last = PushKey
  <2>1. active = c
    BY DEF Owns, IsCourtActive
  <2>2. conns[c].token
    BY <2>1, ShowingHolder
  <2> QED  BY <2>1, <2>2 DEF Owns, AtRest
<1>2. Showing(c)
  BY <1>1 DEF Showing, PushKey
<1>3. \A t, x, s : Brought(<<>>, t, x, s) => x = s
  BY DEF Brought
<1> QED  BY <1>1, <1>2, <1>3 DEF ShownInv, Shown

-----------------------------------------------------------------------------
(* No stand falls back to an older one of its own device. *)

LEMMA InOrderJoin ==
    ASSUME NEW q \in Seq(UpFrame), NEW f \in Seq(UpFrame), NEW m, NEW low \in Points,
           NEW mid \in Points, NEW high \in Points, low <= mid, mid <= high,
           InOrder(q, low, mid), field = m,
           \A i \in DOMAIN f : f[i].type = "score_update"
                => f[i].stand.match = m /\ f[i].stand.points = high
    PROVE  InOrder(q \o f, low, high)
<1> DEFINE z == q \o f
<1>1. \A i \in DOMAIN z : \/ i \in DOMAIN q /\ z[i] = q[i]
                          \/ \E j \in DOMAIN f : i = Len(q) + j /\ z[i] = f[j]
  BY JoinElements
<1>2. /\ Len(q) \in Nat /\ DOMAIN q = 1 .. Len(q) /\ DOMAIN f = 1 .. Len(f)
      /\ Len(f) \in Nat
      /\ Points \subseteq Int
      /\ \A i \in DOMAIN q : q[i].stand.points \in Points
  <2>1. \A i \in DOMAIN q : q[i] \in UpFrame
    OBVIOUS
  <2> QED  BY <2>1 DEF Points, Unset, UpFrame, StandType
<1> HIDE DEF z
<1>3. \A i \in DOMAIN z : z[i].type = "score_update" =>
          /\ z[i].stand.match = field /\ low <= z[i].stand.points
          /\ z[i].stand.points <= high
          /\ i \notin DOMAIN q => z[i].stand.points = high
  <2> SUFFICES ASSUME NEW i \in DOMAIN z, z[i].type = "score_update"
               PROVE  /\ z[i].stand.match = field /\ low <= z[i].stand.points
                      /\ z[i].stand.points <= high
                      /\ i \notin DOMAIN q => z[i].stand.points = high
    OBVIOUS
  <2>1. low \in Int /\ mid \in Int /\ high \in Int
    BY <1>2
  <2>2. CASE i \in DOMAIN q /\ z[i] = q[i]
    <3>1. /\ q[i].stand.match = field /\ low <= q[i].stand.points
          /\ q[i].stand.points <= mid /\ q[i].stand.points \in Int
      BY <1>2, <2>2 DEF InOrder
    <3> QED  BY <2>1, <2>2, <3>1
  <2>3. CASE \E j \in DOMAIN f : i = Len(q) + j /\ z[i] = f[j]
    <3>1. z[i].stand.match = m /\ z[i].stand.points = high
      BY <2>3
    <3> QED  BY <2>1, <3>1
  <2> QED  BY <1>1, <2>2, <2>3
<1>4. ASSUME NEW i \in DOMAIN z, NEW j \in DOMAIN z, i < j,
             z[i].type = "score_update", z[j].type = "score_update"
      PROVE  z[i].stand.points <= z[j].stand.points
  <2>1. CASE j \in DOMAIN q
    <3>1. i \in DOMAIN q
      <4>1. i \in Nat \ {0}
        BY <1>1, <1>2
      <4> QED  BY <1>2, <1>4, <2>1, <4>1
    <3>2. z[i] = q[i] /\ z[j] = q[j]
      BY <1>1, <1>2, <2>1, <3>1
    <3> QED  BY <1>4, <2>1, <3>1, <3>2 DEF InOrder
  <2>2. CASE j \notin DOMAIN q
    BY <1>3, <1>4, <2>2
  <2> QED  BY <2>1, <2>2
<1>5. InOrder(z, low, high)
  BY <1>3, <1>4 DEF InOrder
<1> QED  BY <1>5 DEF z

LEMMA InOrderTail ==
    ASSUME NEW q \in Seq(UpFrame), q # <<>>, NEW low, NEW high, InOrder(q, low, high)
    PROVE  /\ InOrder(Tail(q), low, high)
           /\ Head(q).type = "score_update" =>
                 /\ InOrder(Tail(q), Head(q).stand.points, high)
                 /\ Head(q).stand.match = field
                 /\ low <= Head(q).stand.points /\ Head(q).stand.points <= high
<1> DEFINE z == Tail(q)
<1>1. /\ Head(q) = q[1] /\ 1 \in DOMAIN q
      /\ \A i \in DOMAIN z : i \in Nat /\ i + 1 \in DOMAIN q /\ z[i] = q[i + 1]
  BY TailElements
<1>2. \A i \in DOMAIN z : i + 1 > 1
  <2>1. \A i \in DOMAIN z : i # 0
    OBVIOUS
  <2> QED  BY <1>1, <2>1
<1> HIDE DEF z
<1>3. \A i \in DOMAIN z : z[i].type = "score_update" =>
          z[i].stand.match = field /\ low <= z[i].stand.points
          /\ z[i].stand.points <= high
  BY <1>1 DEF InOrder
<1>4. \A i, j \in DOMAIN z :
          i < j /\ z[i].type = "score_update" /\ z[j].type = "score_update"
              => z[i].stand.points <= z[j].stand.points
  <2> SUFFICES ASSUME NEW i \in DOMAIN z, NEW j \in DOMAIN z, i < j,
                      z[i].type = "score_update", z[j].type = "score_update"
               PROVE  z[i].stand.points <= z[j].stand.points
    OBVIOUS
  <2>1. i + 1 < j + 1
    BY <1>1
  <2> QED  BY <1>1, <2>1 DEF InOrder
<1>5. q[1].type = "score_update" =>
        \A i \in DOMAIN z : z[i].type = "score_update"
            => q[1].stand.points <= z[i].stand.points
  <2> SUFFICES ASSUME NEW i \in DOMAIN z, z[i].type = "score_update",
                      q[1].type = "score_update"
               PROVE  q[1].stand.points <= z[i].stand.points
    OBVIOUS
  <2>1. 1 < i + 1 /\ i + 1 \in DOMAIN q /\ z[i] = q[i + 1]
    BY <1>1, <1>2
  <2> QED  BY <1>1, <2>1 DEF InOrder
<1>6. InOrder(z, low, high)
  BY <1>3, <1>4 DEF InOrder
<1>7. Head(q).type = "score_update" =>
         /\ InOrder(z, Head(q).stand.points, high)
         /\ Head(q).stand.match = field
         /\ low <= Head(q).stand.points /\ Head(q).stand.points <= high
  BY <1>1, <1>3, <1>4, <1>5 DEF InOrder
<1> QED  BY <1>6, <1>7 DEF z

LEMMA AheadNext ==
    ASSUME NEW a \in Device, NEW p, field' = field, pages'[a] = p, p.match = field,
           score'.points <= p.points,
           p.conn # 0 =>
              /\ \A i \in DOMAIN conns'[p.conn].down :
                    HarmlessDown(conns'[p.conn].down[i])
              /\ InOrder(conns'[p.conn].up, score'.points, p.points)
    PROVE  Ahead(a)'
  BY DEF Ahead, HarmlessDown, InOrder

(* The page of a keeps its stand and, if it has one, its connection. *)
LEMMA AheadSame ==
    ASSUME NEW a \in Device, Ahead(a), field' = field, score' = score,
           Stand(pages'[a]) = Stand(pages[a]),
           pages'[a].conn # 0 =>
              /\ pages'[a].conn = pages[a].conn
              /\ conns'[pages[a].conn].down = conns[pages[a].conn].down
              /\ conns'[pages[a].conn].up = conns[pages[a].conn].up
    PROVE  Ahead(a)'
<1>1. pages'[a].match = pages[a].match /\ pages'[a].points = pages[a].points
  BY DEF Stand
<1> QED  BY <1>1, AheadNext DEF Ahead

LEMMA PointsAreInts ==
    ASSUME TypeOK
    PROVE  /\ Points \subseteq Int /\ score.points \in Points
           /\ \A d \in Device : pages[d].points \in Points
  BY SessionAssumption DEF TypeOK, PageType, StandType, Points, Unset

LEMMA OtherPageConn ==
    ASSUME TypeOK, LinkInv, NEW a \in Device, NEW d \in Device, a # d,
           pages[a].conn # 0
    PROVE  pages[a].conn \in Conn /\ pages[a].conn # pages[d].conn
  BY PageConn DEF LinkInv

LEMMA GrowPage ==
    ASSUME TypeOK, LinkInv, NEW d \in Device, PageKind(d), HostKept, CourtKept,
           NEW a \in Device, Ahead(a)
    PROVE  Ahead(a)'
<1>0. field' = field /\ score' = score
  BY DEF HostKept, CourtKept
<1>1. CASE PageActs(d)
  <2>1. PICK p \in PageType, f \in Seq(UpFrame) :
        /\ PageSends(d, p, f)
        /\ p.conn = pages[d].conn
        /\ p.match = pages[d].match /\ pages[d].points <= p.points
        /\ \A i \in DOMAIN f : f[i].type \in {"score_update", "state_sync"}
                => f[i].stand = Stand(p) /\ p.match # NoMatch
    BY <1>1 DEF PageActs
  <2>2. /\ pages'[d] = p /\ OtherPagesKept(d)
        /\ \A c \in Conn :
              /\ conns'[c].down = conns[c].down
              /\ conns'[c].up = IF c = p.conn THEN conns[c].up \o f ELSE conns[c].up
    BY <2>1, SendsBoard
  <2>3. CASE a # d
    <3>1. pages'[a] = pages[a]
      BY <2>2, <2>3 DEF OtherPagesKept
    <3> QED  BY <1>0, <2>1, <2>2, <2>3, <3>1, OtherPageConn, AheadSame
  <2>4. CASE a = d
    <3>1. p.match = field /\ score'.points <= p.points /\ p.points \in Points
          /\ score.points <= pages[d].points
      BY <1>0, <2>1, <2>4, PointsAreInts DEF Ahead, PageType
    <3>2. ASSUME p.conn # 0
          PROVE  /\ \A i \in DOMAIN conns'[p.conn].down :
                       HarmlessDown(conns'[p.conn].down[i])
                 /\ InOrder(conns'[p.conn].up, score'.points, p.points)
      <4>1. p.conn \in Conn /\ conns[p.conn].up \in Seq(UpFrame)
        BY <2>1, <3>2, PageConn, ConnFrames
      <4>2. /\ \A i \in DOMAIN conns[p.conn].down :
                  HarmlessDown(conns[p.conn].down[i])
            /\ InOrder(conns[p.conn].up, score.points, pages[d].points)
        BY <2>1, <2>4, <3>2 DEF Ahead
      <4>3. \A i \in DOMAIN f : f[i].type = "score_update"
                => f[i].stand.match = field /\ f[i].stand.points = p.points
        BY <2>1, <3>1 DEF Stand
      <4>4. InOrder(conns[p.conn].up \o f, score.points, p.points)
        BY <2>1, <3>1, <4>1, <4>2, <4>3, PointsAreInts, InOrderJoin
      <4> QED  BY <1>0, <2>2, <4>1, <4>2, <4>4
    <3> QED  BY <1>0, <2>2, <2>4, <3>1, <3>2, AheadNext
  <2> QED  BY <2>3, <2>4
<1>2. CASE Answers(d)
  <2>1. PICK p \in PageType, f \in Seq(UpFrame), g \in DownFrame :
        /\ g = Got(d) /\ Received(d, g.type)
        /\ PageAnswers(d, p, f) /\ p.conn = pages[d].conn
        /\ OwnFrames(f, p)
        /\ (/\ g.type # "match_cleared"
            /\ g.type = "match_assigned" => g.stand.match = pages[d].match
            /\ g.type = "state_restore" => g.flag)
              => Stand(p) = Stand(pages[d])
    BY <1>2 DEF Answers
  <2>2. p.conn \in Conn /\ conns[p.conn].down # <<>> /\ p.conn # 0
    BY <2>1, GotTyped, Bounds DEF Received
  <2>3. /\ pages'[d] = p /\ OtherPagesKept(d)
        /\ \A c \in Conn :
              /\ conns'[c].down = IF c = p.conn THEN Tail(conns[c].down)
                                  ELSE conns[c].down
              /\ conns'[c].up = IF c = p.conn THEN conns[c].up \o f ELSE conns[c].up
    BY <2>1, <2>2, AnswersBoard
  <2>4. CASE a # d
    <3>1. pages'[a] = pages[a]
      BY <2>3, <2>4 DEF OtherPagesKept
    <3> QED  BY <1>0, <2>1, <2>3, <2>4, <3>1, OtherPageConn, AheadSame
  <2>5. CASE a = d
    <3> DEFINE q == conns[p.conn].down
    <3>1. /\ q \in Seq(DownFrame) /\ q # <<>> /\ g = Head(q)
          /\ conns'[p.conn].down = Tail(q)
      BY <2>1, <2>2, <2>3, ConnFrames DEF Got
    <3>2. /\ \A i \in DOMAIN q : HarmlessDown(q[i])
          /\ InOrder(conns[p.conn].up, score.points, pages[d].points)
          /\ pages[d].match = field /\ score.points <= pages[d].points
      BY <2>1, <2>2, <2>5 DEF Ahead
    <3> HIDE DEF q
    <3>3. HarmlessDown(g) /\ \A i \in DOMAIN Tail(q) : HarmlessDown(Tail(q)[i])
      BY <3>1, <3>2, TailElements
    <3>4. Stand(p) = Stand(pages[d])
      BY <2>1, <3>2, <3>3 DEF HarmlessDown
    <3>5. p.match = pages[d].match /\ p.points = pages[d].points
      BY <3>4 DEF Stand
    <3>6. \A i \in DOMAIN f : f[i].type = "score_update"
                => f[i].stand.match = field /\ f[i].stand.points = p.points
      BY <2>1, <3>2, <3>5 DEF Stand, OwnFrames
    <3>7. p.points <= p.points
      BY <3>5, PointsAreInts
    <3>8. InOrder(conns[p.conn].up \o f, score.points, p.points)
      BY <2>2, <3>2, <3>5, <3>6, <3>7, PointsAreInts, InOrderJoin, ConnFrames
    <3> QED
      BY <1>0, <2>2, <2>3, <2>5, <3>1, <3>2, <3>3, <3>5, <3>8, AheadNext
  <2> QED  BY <2>4, <2>5
<1>3. CASE PageJoins(d)
  <2>1. PICK c \in Conn, p \in PageType :
        /\ OtherPagesKept(d) /\ pages'[d] = p
        /\ pages[d].conn = 0 /\ p.conn = c /\ Stand(p) = Stand(pages[d])
        /\ conns[c].state = "new"
        /\ \A b \in Conn : b # c => conns'[b] = conns[b]
        /\ conns'[c].down = <<>>
        /\ \A i \in DOMAIN conns'[c].up :
              conns'[c].up[i].type = "score_update"
                  => conns'[c].up[i].stand = Stand(p) /\ p.match # NoMatch
    BY <1>3 DEF PageJoins
  <2>2. CASE a # d
    <3>1. pages'[a] = pages[a] /\ (pages[a].conn # 0 => pages[a].conn # c)
      BY <2>1, <2>2 DEF OtherPagesKept, LinkInv
    <3> QED  BY <1>0, <2>1, <3>1, PageConn, AheadSame
  <2>3. CASE a = d
    <3>1. /\ p.match = field /\ score'.points <= p.points /\ p.points \in Points
      BY <1>0, <2>1, <2>3 DEF Ahead, Stand, PageType
    <3>2. \A i \in DOMAIN conns'[c].up : conns'[c].up[i].type = "score_update"
              => /\ conns'[c].up[i].stand.match = field
                 /\ conns'[c].up[i].stand.points = p.points
      BY <2>1, <3>1 DEF Stand
    <3>3. InOrder(conns'[c].up, score'.points, p.points)
      <4>1. p.points <= p.points
        BY <3>1, PointsAreInts
      <4> QED  BY <3>1, <3>2, <4>1 DEF InOrder
    <3> QED  BY <1>0, <2>1, <2>3, <3>1, <3>3, AheadNext
  <2> QED  BY <2>2, <2>3
<1>4. CASE PageLeaves(d)
  <2>1. /\ OtherPagesKept(d) /\ pages'[d].conn = 0
        /\ Stand(pages'[d]) = Stand(pages[d])
        /\ \A c \in Conn : c # pages[d].conn => conns'[c] = conns[c]
    BY <1>4 DEF PageLeaves
  <2>2. CASE a # d
    <3>1. pages'[a] = pages[a]
      BY <2>1, <2>2 DEF OtherPagesKept
    <3> QED  BY <1>0, <2>1, <2>2, <3>1, OtherPageConn, AheadSame
  <2>3. CASE a = d
    BY <1>0, <2>1, <2>3, AheadSame
  <2> QED  BY <2>2, <2>3
<1> QED  BY <1>1, <1>2, <1>3, <1>4 DEF PageKind

LEMMA PushIsHarmless ==
    ASSUME TypeOK, field # NoMatch, NEW k
    PROVE  \A i \in DOMAIN PushMatch(k) : HarmlessDown(PushMatch(k)[i])
<1>1. PushKey # NoKey /\ PushKey.match = field
  BY DEF PushKey, NoKey
<1>2. \/ PushMatch(k) = <<>>
      \/ PushMatch(k) = <<Assigned(PushKey)>>
  BY <1>1 DEF PushMatch, Assigned
<1>3. HarmlessDown(Assigned(PushKey))
  BY <1>1 DEF HarmlessDown, Assigned, ToPage
<1> HIDE DEF Assigned
<1>4. \A x : \A i \in DOMAIN <<x>> : <<x>>[i] = x
  OBVIOUS
<1> QED  BY <1>2, <1>3, <1>4

LEMMA RestoreIsHarmless ==
    \A i \in DOMAIN StateRestore(TRUE) : HarmlessDown(StateRestore(TRUE)[i])
<1> DEFINE x == ToPage("state_restore", mirror, TRUE)
<1>1. HarmlessDown(x)
  BY DEF HarmlessDown, ToPage
<1>2. StateRestore(TRUE) \in {<<>>, <<x>>}
  BY DEF StateRestore
<1> HIDE DEF x
<1>3. \A q \in {<<>>, <<x>>} : \A i \in DOMAIN q : q[i] = x
  OBVIOUS
<1> QED  BY <1>1, <1>2, <1>3

LEMMA HarmlessJoin ==
    ASSUME NEW q \in Seq(DownFrame), NEW f \in Seq(DownFrame),
           \A i \in DOMAIN q : HarmlessDown(q[i]),
           \A i \in DOMAIN f : HarmlessDown(f[i])
    PROVE  \A i \in DOMAIN (q \o f) : HarmlessDown((q \o f)[i])
<1> DEFINE z == q \o f
<1>1. \A i \in DOMAIN z : \/ i \in DOMAIN q /\ z[i] = q[i]
                          \/ \E j \in DOMAIN f : z[i] = f[j]
  BY JoinElements
<1> HIDE DEF z
<1>2. \A i \in DOMAIN z : HarmlessDown(z[i])
  BY <1>1
<1> QED  BY <1>2 DEF z

(* The page of a is the one handler b talks to, and b takes no stand in. *)
LEMMA AheadServed ==
    ASSUME TypeOK, NEW b \in Conn, NEW a \in Device, Ahead(a), pages' = pages,
           \A c \in Conn : c # b => conns'[c] = conns[c],
           field' = field, score' = score,
           conns'[b].up = conns[b].up
             \/ (conns[b].up # <<>> /\ conns'[b].up = Tail(conns[b].up)),
           NEW f \in Seq(DownFrame),
           pages[a].conn = b =>
             /\ conns'[b].down = conns[b].down \/ conns'[b].down = conns[b].down \o f
             /\ \A i \in DOMAIN f : HarmlessDown(f[i])
    PROVE  Ahead(a)'
<1>1. CASE pages[a].conn # b
  BY <1>1, PageConn, AheadSame
<1>2. CASE pages[a].conn = b
  <2>1. /\ \A i \in DOMAIN conns[b].down : HarmlessDown(conns[b].down[i])
        /\ InOrder(conns[b].up, score.points, pages[a].points)
    BY <1>2, Bounds DEF Ahead
  <2>2. \A i \in DOMAIN (conns[b].down \o f) : HarmlessDown((conns[b].down \o f)[i])
    BY <1>2, <2>1, ConnFrames, HarmlessJoin
  <2>3. \A i \in DOMAIN conns'[b].down : HarmlessDown(conns'[b].down[i])
    BY <1>2, <2>1, <2>2
  <2>4. InOrder(conns'[b].up, score.points, pages[a].points)
    BY <2>1, ConnFrames, InOrderTail
  <2> QED  BY <1>2, <2>3, <2>4, AheadNext DEF Ahead
<1> QED  BY <1>1, <1>2

(* The handler b takes in a stand of its page, which is that of a. *)
LEMMA GrowScored ==
    ASSUME TypeOK, LinkInv, FrameInv, GrowInv, NEW b \in Conn, Hears(b),
           HandleScore(b), NEW a \in Device, CourtKept, author' = a,
           ~(score' = score /\ author' = author)
    PROVE  /\ field # NoMatch /\ score'.match = field /\ marker # field
           /\ Ahead(a)'
           /\ StandFalls => author # a
<1>0. /\ pages' = pages /\ \A c \in Conn : c # b => conns'[c] = conns[c]
      /\ conns[b].up # <<>> /\ conns'[b].up = Tail(conns[b].up)
      /\ conns'[b].down = conns[b].down /\ Alive(b)
      /\ field' = field /\ marker' = marker
  BY DEF Hears, Serves, Reads, CourtKept
<1> DEFINE h == Head(conns[b].up)
           p == pages[a]
<1>1. /\ h.type = "score_update" /\ Countable(h.stand) /\ score' = h.stand
      /\ conns[b].state = "open" /\ conns[b].dev = a
      /\ InStep(b) \/ author = a
  BY NamesAssumption DEF HandleScore, Heard, Says
<1>2. p.conn = b /\ b # 0 /\ p.points \in Points /\ p.points <= p.points
  BY <1>1, Bounds, PointsAreInts DEF LinkInv
<1>3. /\ h = conns[b].up[1] /\ 1 \in DOMAIN conns[b].up
      /\ \A i \in DOMAIN conns'[b].up :
            i + 1 \in DOMAIN conns[b].up /\ conns'[b].up[i] = conns[b].up[i + 1]
  BY <1>0, ConnFrames, TailElements
<1>4. h.stand.match = field /\ field # NoMatch /\ marker # field
  BY <1>1, <1>3 DEF Countable, FrameInv
<1>5. CASE author = a
  <2>1. Ahead(a) /\ score.match = field
    BY <1>4, <1>5, NamesAssumption DEF GrowInv
  <2>2. /\ InOrder(conns[b].up, score.points, p.points)
        /\ \A i \in DOMAIN conns[b].down : HarmlessDown(conns[b].down[i])
        /\ p.match = field
    BY <1>2, <2>1 DEF Ahead
  <2>3. /\ InOrder(conns'[b].up, h.stand.points, p.points)
        /\ score.points <= h.stand.points /\ h.stand.points <= p.points
    BY <1>0, <1>1, <2>2, ConnFrames, InOrderTail
  <2>4. ~StandFalls
    <3>1. h.stand.points \in Int /\ score.points \in Int
      <4>1. h \in UpFrame
        BY <1>0, ConnFrames, HeadTailProperties
      <4> QED  BY <4>1, PointsAreInts DEF UpFrame, StandType
    <3> QED  BY <1>1, <2>3, <3>1 DEF StandFalls
  <2>5. Ahead(a)'
    <3> HIDE DEF h
    <3> QED  BY <1>0, <1>1, <1>2, <2>2, <2>3, AheadNext
  <2> QED  BY <1>1, <1>4, <2>4, <2>5
<1>6. CASE author # a
  <2>1. /\ conns[b].down = <<>>
        /\ \A i \in DOMAIN conns[b].up : conns[b].up[i].type = "score_update"
              => conns[b].up[i].stand = Stand(p)
    BY <1>1, <1>6 DEF InStep
  <2>2. p.match = field /\ p.points = h.stand.points
    BY <1>1, <1>3, <1>4, <2>1 DEF Stand
  <2>3. \A i \in DOMAIN conns'[b].up : conns'[b].up[i].type = "score_update"
            => /\ conns'[b].up[i].stand.match = field
               /\ conns'[b].up[i].stand.points = p.points
    BY <1>3, <2>1, <2>2 DEF Stand
  <2>4. InOrder(conns'[b].up, p.points, p.points)
    BY <1>2, <2>3 DEF InOrder
  <2>5. Ahead(a)'
    <3>1. /\ score'.points = p.points
          /\ \A i \in DOMAIN conns'[b].down : HarmlessDown(conns'[b].down[i])
      BY <1>0, <1>1, <2>1, <2>2
    <3> HIDE DEF h
    <3> QED  BY <1>0, <1>2, <2>2, <2>4, <3>1, AheadNext
  <2> QED  BY <1>1, <1>4, <1>6, <2>5
<1> QED  BY <1>5, <1>6

LEMMA GrowHears ==
    ASSUME TypeOK, LinkInv, FrameInv, GrowInv, NEW b \in Conn, Hears(b), CourtKept,
           NEW a, a # Nobody, author' = a
    PROVE  /\ a \in Device /\ field # NoMatch /\ score'.match = field
           /\ marker # field => Ahead(a)'
           /\ StandFalls => author # a
<1>0. /\ pages' = pages /\ \A c \in Conn : c # b => conns'[c] = conns[c]
      /\ conns[b].up # <<>> /\ conns'[b].up = Tail(conns[b].up)
      /\ conns'[b].down = conns[b].down
      /\ field' = field
  BY DEF Hears, Serves, Reads, CourtKept
<1>1. CASE score' = score /\ author' = author
  <2>1. a \in Device /\ field # NoMatch /\ score.match = field
        /\ (marker # field => Ahead(a))
    BY <1>1 DEF GrowInv
  <2>2. <<>> \in Seq(DownFrame) /\ \A i \in DOMAIN <<>> : HarmlessDown(<<>>[i])
    BY HostSaysTyped
  <2>3. marker # field => Ahead(a)'
    BY <1>0, <1>1, <2>1, <2>2, AheadServed
  <2>4. ~StandFalls
    BY <1>1, PointsAreInts DEF StandFalls
  <2> QED  BY <1>1, <2>1, <2>3, <2>4
<1>2. CASE HandleScore(b) /\ ~(score' = score /\ author' = author)
  <2>1. a \in Device
    <3>1. conns[b].state = "open" /\ a = conns[b].dev
      BY <1>2 DEF HandleScore
    <3> QED  BY <3>1 DEF LinkInv
  <2> QED  BY <1>2, <2>1, GrowScored
<1> QED  BY <1>1, <1>2 DEF Hears

LEMMA GrowHandler ==
    ASSUME TypeOK, LinkInv, MarkInv, FrameInv, GrowInv, NEW b \in Conn,
           HandlerKind(b), CourtKept, NEW a, a # Nobody, author' = a
    PROVE  /\ a \in Device /\ field # NoMatch /\ score'.match = field
           /\ marker # field => Ahead(a)'
           /\ StandFalls => author # a
<1>0. field' = field /\ marker' = marker
  BY DEF CourtKept
<1>1. ASSUME author = a PROVE a \in Device /\ field # NoMatch /\ score.match = field
                              /\ (marker # field => Ahead(a) /\ marker = NoMatch)
  BY <1>1 DEF GrowInv, MarkInv
<1>2. ASSUME score' = score PROVE ~StandFalls
  BY <1>2, PointsAreInts DEF StandFalls
<1>3. CASE Hears(b)
  BY <1>3, GrowHears
<1>4. ASSUME Serves(b), author = a, score' = score,
             conns'[b].up = conns[b].up
               \/ (conns[b].up # <<>> /\ conns'[b].up = Tail(conns[b].up)),
             NEW f \in Seq(DownFrame), Sends(b, f),
             conns[b].dev = a /\ marker = NoMatch
                => \A i \in DOMAIN f : HarmlessDown(f[i])
      PROVE  marker # field => Ahead(a)'
  <2> SUFFICES ASSUME marker # field PROVE Ahead(a)'
    OBVIOUS
  <2>1. a \in Device /\ Ahead(a) /\ marker = NoMatch
    BY <1>1, <1>4
  <2>2. pages[a].conn = b => conns[b].dev = a
    BY <2>1, Bounds DEF LinkInv
  <2>3. /\ pages' = pages
        /\ \A c \in Conn : c # b => conns'[c] = conns[c]
        /\ conns'[b].down = conns[b].down \/ conns'[b].down = conns[b].down \o f
    BY <1>4 DEF Serves, Sends
  <2> QED  BY <1>0, <1>4, <2>1, <2>2, <2>3, AheadServed
<1>5. CASE Claims(b)
  <2>1. PICK k \in BOOLEAN :
          /\ Sends(b, StateRestore(k) \o PushMatch(NoKey))
          /\ Head(conns[b].up).type = "identify" /\ marker = NoMatch => k
    BY <1>5 DEF Claims
  <2>2. author = a /\ score' = score
        /\ (Head(conns[b].up).type = "take_over" => a # conns[b].dev)
    BY <1>5 DEF Claims
  <2>3. StateRestore(k) \in Seq(DownFrame) /\ PushMatch(NoKey) \in Seq(DownFrame)
    BY HostSaysTyped
  <2>4. StateRestore(k) \o PushMatch(NoKey) \in Seq(DownFrame)
    BY <2>3, JoinTyped
  <2>5. ASSUME conns[b].dev = a, marker = NoMatch
        PROVE  \A i \in DOMAIN (StateRestore(k) \o PushMatch(NoKey)) :
                  HarmlessDown((StateRestore(k) \o PushMatch(NoKey))[i])
    <3>1. k = TRUE
      BY <1>5, <2>1, <2>2, <2>5 DEF Claims
    <3>2. /\ \A i \in DOMAIN StateRestore(k) : HarmlessDown(StateRestore(k)[i])
          /\ \A i \in DOMAIN PushMatch(NoKey) : HarmlessDown(PushMatch(NoKey)[i])
      BY <1>1, <2>2, <3>1, PushIsHarmless, RestoreIsHarmless
    <3> QED  BY <2>3, <3>2, HarmlessJoin
  <2>6. Serves(b) /\ conns[b].up # <<>> /\ conns'[b].up = Tail(conns[b].up)
    BY <1>5 DEF Claims, Reads
  <2>7. marker # field => Ahead(a)'
    BY <1>4, <2>1, <2>2, <2>4, <2>5, <2>6
  <2> QED  BY <1>1, <1>2, <2>2, <2>7
<1>6. CASE Refuses(b)
  <2> DEFINE f == <<ToPage("court_occupied", NoStand, FALSE)>>
  <2>1. f \in Seq(DownFrame)
    BY HostSaysTyped
  <2>2. \A i \in DOMAIN f : HarmlessDown(f[i])
    BY DEF HarmlessDown, ToPage
  <2>3. Sends(b, f)
    BY <1>6 DEF Refuses
  <2> HIDE DEF f
  <2>4. /\ author = a /\ score' = score /\ Serves(b)
        /\ conns[b].up # <<>> /\ conns'[b].up = Tail(conns[b].up)
    BY <1>6 DEF Refuses, Reads
  <2>5. marker # field => Ahead(a)'
    BY <1>4, <2>1, <2>2, <2>3, <2>4
  <2> QED  BY <1>1, <1>2, <2>4, <2>5
<1>7. CASE Reports(b)
  <2>1. /\ author = a /\ score' = score /\ Serves(b) /\ conns'[b].up = conns[b].up
        /\ Sends(b, PushMatch(conns[b].last))
    BY <1>7 DEF Reports
  <2>2. PushMatch(conns[b].last) \in Seq(DownFrame)
    BY HostSaysTyped
  <2>3. \A i \in DOMAIN PushMatch(conns[b].last) :
            HarmlessDown(PushMatch(conns[b].last)[i])
    BY <1>1, <2>1, PushIsHarmless
  <2>4. author = a /\ score' = score /\ Serves(b)
        /\ (conns'[b].up = conns[b].up
               \/ (conns[b].up # <<>> /\ conns'[b].up = Tail(conns[b].up)))
    BY <2>1
  <2> DEFINE f == PushMatch(conns[b].last)
  <2>5. f \in Seq(DownFrame) /\ Sends(b, f)
    BY <2>1, <2>2
  <2>6. conns[b].dev = a /\ marker = NoMatch
            => \A i \in DOMAIN f : HarmlessDown(f[i])
    BY <2>3
  <2> HIDE DEF f
  <2>7. marker # field => Ahead(a)'
    BY <1>4, <2>4, <2>5, <2>6
  <2> QED  BY <1>1, <1>2, <2>1, <2>7
<1>8. CASE Loses(b)
  <2> DEFINE f == <<ToPage("session_superseded", NoStand, FALSE)>>
  <2>1. f \in Seq(DownFrame)
    BY HostSaysTyped
  <2>2. \A i \in DOMAIN f : HarmlessDown(f[i])
    BY DEF HarmlessDown, ToPage
  <2>3. Sends(b, f)
    BY <1>8 DEF Loses
  <2> HIDE DEF f
  <2>4. author = a /\ score' = score /\ Serves(b)
        /\ (conns'[b].up = conns[b].up
               \/ (conns[b].up # <<>> /\ conns'[b].up = Tail(conns[b].up)))
    BY <1>8 DEF Loses
  <2>5. marker # field => Ahead(a)'
    BY <1>4, <2>1, <2>2, <2>3, <2>4
  <2> QED  BY <1>1, <1>2, <2>4, <2>5
<1>9. CASE HandlerEnds(b)
  <2>1. author = a /\ score' = score
    BY <1>9 DEF HandlerEnds
  <2>2. ASSUME marker # field PROVE Ahead(a)'
    <3>1. a \in Device /\ Ahead(a)
      BY <1>1, <2>1, <2>2
    <3>2. /\ \A c \in Conn : c # b => conns'[c] = conns[c]
          /\ pages'[a] = IF pages[a].conn = b
                         THEN [pages[a] EXCEPT !.conn = 0, !.retry = FALSE]
                         ELSE pages[a]
      BY <1>9, <3>1, EndingBoard DEF HandlerEnds
    <3>3. pages[a] \in PageType
      BY <3>1 DEF TypeOK
    <3>4. Stand(pages'[a]) = Stand(pages[a])
          /\ (pages'[a].conn # 0 => pages'[a].conn = pages[a].conn
                                    /\ pages[a].conn # b)
      BY <3>2, <3>3, Bounds DEF Stand, PageType
    <3> QED  BY <1>0, <2>1, <3>1, <3>2, <3>4, PageConn, AheadSame
  <2> QED  BY <1>1, <1>2, <2>1, <2>2
<1> QED  BY <1>3, <1>5, <1>6, <1>7, <1>8, <1>9 DEF HandlerKind

LEMMA GrowStep ==
    ASSUME TypeOK, LinkInv, MarkInv, FrameInv, GrowInv, StepKind
    PROVE  GrowInv' /\ (StandFalls /\ author # Nobody => author' # author)
<1>1. ASSUME score' = score PROVE ~StandFalls
  BY <1>1, PointsAreInts DEF StandFalls
<1>2. ASSUME NEW a, author' = a, a # Nobody,
             a \in Device, field' # NoMatch, score'.match = field',
             marker' # field' => Ahead(a)'
      PROVE  GrowInv'
  <2>1. Ahead(a)' => Ahead(author)'
    BY <1>2 DEF Ahead, HarmlessDown, InOrder
  <2> QED  BY <1>2, <2>1 DEF GrowInv
<1>3. ASSUME author' = Nobody
      PROVE  GrowInv' /\ (StandFalls /\ author # Nobody => author' # author)
  BY <1>3 DEF GrowInv
<1>4. ASSUME NEW a, author' = a, author = a, a # Nobody
      PROVE  a \in Device /\ field # NoMatch /\ score.match = field
             /\ (marker # field => Ahead(a))
  BY <1>4 DEF GrowInv
<1>5. ASSUME NEW d \in Device, PageKind(d), HostKept, CourtKept
      PROVE  GrowInv' /\ (StandFalls /\ author # Nobody => author' # author)
  <2>1. /\ author' = author /\ score' = score /\ field' = field /\ marker' = marker
        /\ ~StandFalls
    BY <1>1, <1>5 DEF HostKept, CourtKept
  <2>2. ASSUME NEW a, a = author, a # Nobody PROVE GrowInv'
    <3>1. marker # field => Ahead(a)'
      BY <1>4, <1>5, <2>1, <2>2, GrowPage
    <3> QED  BY <1>2, <1>4, <2>1, <2>2, <3>1
  <2> QED  BY <1>3, <2>1, <2>2
<1>6. ASSUME NEW b \in Conn, HandlerKind(b), CourtKept
      PROVE  GrowInv' /\ (StandFalls /\ author # Nobody => author' # author)
  <2>1. ASSUME NEW a, a = author', a # Nobody
        PROVE  GrowInv' /\ (StandFalls => author # a)
    <3>1. /\ a \in Device /\ field # NoMatch /\ score'.match = field
          /\ marker # field => Ahead(a)'
          /\ StandFalls => author # a
      BY <1>6, <2>1, GrowHandler
    <3> QED  BY <1>2, <1>6, <2>1, <3>1 DEF CourtKept
  <2> QED  BY <1>3, <2>1
<1>7. ASSUME BoardKept, UNCHANGED <<author, score, field>>,
             marker' # field => marker # field
      PROVE  GrowInv' /\ (StandFalls /\ author # Nobody => author' # author)
  <2>1. ASSUME NEW a, a = author, a # Nobody PROVE GrowInv'
    <3>1. a \in Device /\ field # NoMatch /\ score.match = field
          /\ (marker # field => Ahead(a))
      BY <1>4, <1>7, <2>1
    <3>2. Ahead(a) => Ahead(a)'
      BY <1>7, <3>1, AheadSame DEF BoardKept
    <3> QED  BY <1>2, <1>7, <2>1, <3>1, <3>2
  <2> QED  BY <1>1, <1>3, <1>7, <2>1
<1>8. CASE BoardKept /\ SyncTracks
  <2>1. /\ UNCHANGED <<author, score, field>> /\ polled = Idle
    BY <1>8 DEF SyncTracks, hostVars
  <2>2. CASE author = Nobody
    BY <1>1, <1>3, <2>1, <2>2
  <2>3. CASE author # Nobody
    <3>1. field # NoMatch /\ marker = NoMatch
      BY <2>1, <2>3 DEF GrowInv, MarkInv
    <3> QED  BY <1>7, <1>8, <2>1, <3>1
  <2> QED  BY <2>2, <2>3
<1>9. CASE BoardKept /\ SyncStores
  BY <1>3, <1>9 DEF SyncStores
<1>10. CASE BoardKept /\ MarkerExpires
  <2>1. /\ UNCHANGED <<author, score, field>> /\ polled = Idle /\ marker # NoMatch
    BY <1>10 DEF MarkerExpires, hostVars
  <2>2. CASE author = Nobody
    BY <1>1, <1>3, <2>1, <2>2
  <2>3. CASE author # Nobody
    BY <2>1, <2>3 DEF GrowInv, MarkInv
  <2> QED  BY <2>2, <2>3
<1>11. CASE \E m \in Match : ResultWritten(m)
  BY <1>3, <1>11 DEF ResultWritten
<1>12. CASE UNCHANGED vars
  BY <1>7, <1>12 DEF vars, hostVars, btpVars, BoardKept
<1> QED  BY <1>5, <1>6, <1>8, <1>9, <1>10, <1>11, <1>12 DEF StepKind

-----------------------------------------------------------------------------
(* The four properties, for any number of devices, matches and connections. *)

SessionInv == LinkInv /\ AwayInv /\ SeenInv /\ MarkInv /\ FrameInv /\ ShownInv /\ GrowInv

LEMMA SessionInit == ASSUME Init PROVE SessionInv
<1>1. TypeOK
  BY TypeInit
<1>2. \A c \in Conn : /\ conns[c].state \in {"new", "closed"}
                      /\ conns[c].up = <<>> /\ conns[c].down = <<>>
  BY DEF Init, New, Closed
<1>3. LinkInv
  BY LinkInit
<1>4. AwayInv /\ SeenInv /\ FrameInv /\ ShownInv
  BY <1>2 DEF AwayInv, SeenInv, FrameInv, ShownInv, Showing
<1>5. MarkInv
  BY NamesAssumption DEF Init, MarkInv
<1>6. GrowInv
  BY DEF Init, GrowInv
<1> QED  BY <1>3, <1>4, <1>5, <1>6 DEF SessionInv

LEMMA SessionStep ==
    ASSUME TypeOK, SessionInv, [Next]_vars
    PROVE  SessionInv' /\ (StandFalls /\ author # Nobody => author' # author)
<1>1. StepKind
  BY NextIsAKind
<1>2. LinkInv' /\ AwayInv' /\ SeenInv' /\ MarkInv'
  BY <1>1, LinkStep, AwayStep, SeenStep, MarkStep DEF SessionInv
<1>3. FrameInv' /\ ShownInv'
  BY <1>1, FrameStep, ShownStep DEF SessionInv
<1>4. GrowInv' /\ (StandFalls /\ author # Nobody => author' # author)
  BY <1>1, GrowStep DEF SessionInv
<1> QED  BY <1>2, <1>3, <1>4 DEF SessionInv

THEOREM SessionIsInvariant == Spec => [](TypeOK /\ SessionInv)
<1>1. Init => TypeOK /\ SessionInv
  BY TypeInit, SessionInit
<1>2. TypeOK /\ SessionInv /\ [Next]_vars => (TypeOK /\ SessionInv)'
  BY TypeStep, SessionStep
<1> QED  BY <1>1, <1>2, PTL DEF Spec

(* Of the tablets whose page has read everything, only the one of the holder *)
(* (TabletState.active) can count: every other one shows an overlay, in       *)
(* whatever order identify, take_over and the tickers of several handlers     *)
(* came, and however many connections a device has left behind.              *)
THEOREM OnlyOneTabletCounts == Spec => []OneTabletCounts
<1>1. TypeOK /\ SessionInv => OneTabletCounts
  BY AwayShows DEF SessionInv
<1> QED  BY <1>1, SessionIsInvariant, PTL

(* No push of the court's match to its holder is lost: not to the dedup of    *)
(* push_match, not to a match the page has kept over a reload, and not to the *)
(* mirrored stand that is sent with it.                                       *)
THEOREM HolderHasItsMatch == Spec => []HolderSeesItsMatch
<1>1. TypeOK /\ SessionInv => HolderSeesItsMatch
  BY SeenShows DEF SessionInv
<1> QED  BY <1>1, SessionIsInvariant, PTL

(* What the holder has counted is on the monitors and, unless its page is     *)
(* locked, kept for the next tablet: handle_score and handle_sync drop frames, *)
(* but never the last one of the holder's stand.                              *)
THEOREM HolderIsShown == Spec => []HolderStandIsShown
<1>1. TypeOK /\ SessionInv => HolderStandIsShown
  BY ShownShows DEF SessionInv
<1> QED  BY <1>1, SessionIsInvariant, PTL

(* The shown stand of a match never falls back to an older one of the tablet  *)
(* that has brought it: what reconnect_decision sends back, what the page     *)
(* keeps and what is under way between them leave it no way to.               *)
THEOREM OwnStandNeverFalls == Spec => OwnStandOnlyGrows
<1>1. TypeOK /\ SessionInv /\ [Next]_vars
        => [StandFalls /\ author # Nobody => author' # author]_vars
  BY SessionStep
<1> QED  BY <1>1, SessionIsInvariant, PTL DEF Spec, OwnStandOnlyGrows

=============================================================================
