----------------------------- MODULE RelayProofs -----------------------------
(* Theorems about Relay, for every number of connections, tablets and calls. *)
EXTENDS Relay, TLAPS

\* A host loses the slot only by the end of its own connection, or silent to a
\* new one (release_host_slot, try_claim_host).
THEOREM SlotIsNotStolen == Spec => SlotNotStolen
<1> DEFINE Kept == host # NoConn /\ host' # host => host \notin served' \/ silent
<1>1. ASSUME NEW c \in Conn, HostConnEnds(c)
      PROVE  Kept
  BY <1>1 DEF HostConnEnds, Releases
<1>2. ASSUME Connect
      PROVE  Kept
  BY <1>2 DEF Connect, MayClaim
<1>3. ASSUME [Next]_vars
      PROVE  Kept
  <2>1. CASE \E c \in Conn : RelayDrops(c) \/ SupersededSpeaks(c)
    BY <1>1, <2>1 DEF RelayDrops, SupersededSpeaks
  <2>2. CASE Connect
    BY <1>2, <2>2
  <2>3. ASSUME ~(\E c \in Conn : RelayDrops(c) \/ SupersededSpeaks(c)), ~Connect
        PROVE  host' = host
    BY <1>3, <2>3 DEF Next, PcStep, RelayStep, Silence, Pong, ServeEnds, Cut,
       PcMatch, PcCounts, Tick, Nudge, TabletConnected, PcTakesStand,
       PcTakesCall, ResultProcessed, CommandExecuted, CourtArrives,
       StandArrives, AckArrives, Submit, TimesOut, GivenUp, Identify,
       TakeOver, PageShows, ForwardScore, Leave, vars, slotVars
  <2> QED
    BY <2>1, <2>2, <2>3
<1> QED
  BY <1>3, PTL DEF Spec, SlotNotStolen

\* The stand the relay shows was counted for the match it shows
\* (match_id_matches_court, and MatchAssigned clearing the stand).
THEOREM ScoreFitsMatch == Spec => []ScoreOfItsMatch
<1>1. Init => ScoreOfItsMatch
  BY DEF Init, ScoreOfItsMatch
<1>2. ASSUME ScoreOfItsMatch, [Next]_vars
      PROVE  ScoreOfItsMatch'
  <2>1. ASSUME NEW c \in Conn, HostConnEnds(c)
        PROVE  ScoreOfItsMatch'
    BY <1>2, <2>1 DEF HostConnEnds, TidyUp, ScoreOfItsMatch, mirrorVars
  <2>2. ASSUME NEW s \in Session, Leave(s)
        PROVE  ScoreOfItsMatch'
    BY <1>2, <2>2 DEF Leave, TidyUp, ScoreOfItsMatch, mirrorVars
  <2>3. ASSUME NEW c \in Conn, CourtArrives(c) \/ StandArrives(c)
        PROVE  ScoreOfItsMatch'
    BY <1>2, <2>3 DEF CourtArrives, StandArrives, FitsCourt, ScoreOfItsMatch
  <2>4. ASSUME NEW s \in Session, ForwardScore(s)
        PROVE  ScoreOfItsMatch'
    BY <1>2, <2>4 DEF ForwardScore, FitsCourt, ScoreOfItsMatch
  <2>5. CASE UNCHANGED mirrorVars
    BY <1>2, <2>5 DEF ScoreOfItsMatch, mirrorVars
  <2>6. CASE \E c \in Conn : RelayDrops(c) \/ SupersededSpeaks(c)
    BY <2>1, <2>6 DEF RelayDrops, SupersededSpeaks
  <2> QED
    BY <1>2, <2>2, <2>3, <2>4, <2>5, <2>6 DEF Next, PcStep, RelayStep,
       Silence, Pong, Connect, ServeEnds, Cut, PcMatch, PcCounts, Tick, Nudge,
       TabletConnected, PcTakesStand, PcTakesCall, ResultProcessed,
       CommandExecuted, AckArrives, Submit, TimesOut, GivenUp, Identify,
       TakeOver, PageShows, vars
<1> QED
  BY <1>1, <1>2, PTL DEF Spec

-----------------------------------------------------------------------------
(* Types. *)

LEMMA HeadOfQueue ==
    ASSUME NEW S, NEW q \in Seq(S), q # <<>>
    PROVE  Head(q) \in S /\ Tail(q) \in Seq(S)
OBVIOUS

LEMMA FramesAreTyped ==
    ASSUME TypeOK
    PROVE  /\ \A m \in Match \cup {NoMatch} : CourtFrame(m) \in HostFrame
           /\ \A s \in Stand : StandFrame(s) \in HostFrame \cap RelayFrame
           /\ \A x \in Call : AckFrame(x) \in HostFrame
           /\ \A x \in Call : CallFrame(x) \in RelayFrame
           /\ ConnectedFrame \in RelayFrame
  BY DEF TypeOK, CourtFrame, StandFrame, AckFrame, CallFrame, ConnectedFrame,
     HostFrame, RelayFrame

LEMMA UpIsTyped ==
    ASSUME TypeOK, NEW frames \in Seq(HostFrame)
    PROVE  Up(frames) \in [Conn -> Seq(HostFrame)]
  BY DEF TypeOK, Up

LEMMA DownIsTyped ==
    ASSUME TypeOK, NEW frames \in Seq(RelayFrame)
    PROVE  Down(frames) \in [Conn -> Seq(RelayFrame)]
  BY DEF TypeOK, Down

LEMMA StandsAreTyped ==
    ASSUME TypeOK
    PROVE  NoStand \in Stand /\ Mirror \in Stand
<1>1. NoStand \in Stand
  BY Bounds DEF NoStand, Stand
<1>2. Mirror \in Stand
  BY Bounds DEF TypeOK, Mirror, Stand
<1> QED
  BY <1>1, <1>2

LEMMA BudgetIsTyped ==
    ASSUME TypeOK, NEW what \in {"cuts", "changes", "joins", "calls"},
           Spend(what)
    PROVE  budget' \in Budget
  BY DEF TypeOK, Spend, Budget

LEMMA CallsAreTyped ==
    ASSUME TypeOK, NEW calls, NEW answer \in {"answered", "lost"},
           Answer(calls, answer)
    PROVE  call' \in [Call -> {"idle", "waiting", "gone", "answered", "lost",
                               "timeout", "refused"}]
  BY DEF TypeOK, Answer

LEMMA TypeInit == Init => TypeOK
<1> SUFFICES ASSUME Init PROVE TypeOK
  OBVIOUS
<1>1. NoStand \in Stand
  BY Bounds DEF NoStand, Stand
<1>2. budget \in Budget
  BY Bounds DEF Init
<1>3. up \in [Conn -> Seq(HostFrame)] /\ down \in [Conn -> Seq(RelayFrame)]
  <2>1. <<>> \in Seq(HostFrame) /\ <<>> \in Seq(RelayFrame)
    OBVIOUS
  <2> QED
    BY <2>1 DEF Init
<1>4. /\ running \in [Call -> {"no", "task", "orphan"}]
      /\ call \in [Call -> {"idle", "waiting", "gone", "answered", "lost",
                            "timeout", "refused"}]
      /\ req \in [Call -> Nat]
  BY DEF Init
<1>5. /\ at \in [Session -> {"off", "waiting", "active"}]
      /\ told \in [Session -> Match \cup {NoMatch, Unknown}]
      /\ page \in [Session -> Match \cup {NoMatch, Unknown}]
  BY DEF Init
<1> QED
  BY <1>1, <1>2, <1>3, <1>4, <1>5 DEF Init, TypeOK

LEMMA TypeNetwork ==
    ASSUME TypeOK,
           \/ \E c \in Conn : Cut(c)
           \/ Silence \/ Pong \/ Connect \/ ServeEnds
    PROVE  TypeOK'
<1>1. ASSUME NEW c \in Conn, Cut(c) PROVE TypeOK'
  BY <1>1, BudgetIsTyped DEF TypeOK, Cut, pcVars, clientVars, mirrorVars,
     slotVars, tabletVars, callVars
<1>2. CASE Silence
  <2>1. budget' \in Budget
    BY <1>2, BudgetIsTyped DEF Silence, TypeOK
  <2> QED
    BY <1>2, <2>1 DEF TypeOK, Silence, netVars, pcVars, clientVars,
       mirrorVars, tabletVars, callVars
<1>3. CASE Pong
  BY <1>3 DEF TypeOK, Pong, netVars, pcVars, clientVars, mirrorVars,
     tabletVars, callVars
<1>4. CASE Connect
  <2>1. ConnectedFrame \in RelayFrame /\ NoStand \in Stand
    BY FramesAreTyped, StandsAreTyped
  <2>2. PICK c \in Conn \ served :
            /\ link' = c /\ host' = c
            /\ served' = served \cup {c}
            /\ cut' = cut \ {c}
            /\ up' = [up EXCEPT ![c] = <<>>]
            /\ down' = [down EXCEPT ![c] = IF holder = NoSession THEN <<>>
                                           ELSE <<ConnectedFrame>>]
    BY <1>4 DEF Connect
  <2>3. up' \in [Conn -> Seq(HostFrame)] /\ down' \in [Conn -> Seq(RelayFrame)]
    <3>1. /\ <<>> \in Seq(HostFrame) /\ <<>> \in Seq(RelayFrame)
          /\ <<ConnectedFrame>> \in Seq(RelayFrame)
      BY <2>1
    <3> QED
      BY <2>2, <3>1 DEF TypeOK
  <2> QED
    BY <1>4, <2>1, <2>2, <2>3, NotAmong DEF TypeOK, Connect, pcVars,
       mirrorVars, tabletVars, callVars
<1>5. CASE ServeEnds
  <2>1. up' \in [Conn -> Seq(HostFrame)]
    <3>1. PICK k \in 0 .. Len(up[link]) :
              up' = [up EXCEPT ![link] = SubSeq(@, 1, k)]
      BY <1>5 DEF ServeEnds
    <3>2. up[link] \in Seq(HostFrame)
      BY <1>5 DEF TypeOK, ServeEnds
    <3>3. SubSeq(up[link], 1, k) \in Seq(HostFrame)
      BY <3>2
    <3> QED
      BY <3>1, <3>3 DEF TypeOK
  <2> QED
    BY <1>5, <2>1 DEF TypeOK, ServeEnds, pcVars, mirrorVars, slotVars,
       tabletVars, callVars
<1> QED
  BY <1>1, <1>2, <1>3, <1>4, <1>5

LEMMA TypeHostConnEnds ==
    ASSUME TypeOK, NEW c \in Conn, HostConnEnds(c)
    PROVE  TypeOK'
<1>1. call' \in [Call -> {"idle", "waiting", "gone", "answered", "lost",
                          "timeout", "refused"}]
  BY CallsAreTyped DEF HostConnEnds
<1>2. courtMatch' \in Match \cup {NoMatch} /\ courtScore' \in Stand
      /\ nextReq' \in Nat
  BY StandsAreTyped DEF HostConnEnds, TidyUp, TypeOK, mirrorVars
<1>3. up' \in [Conn -> Seq(HostFrame)]
  <2>1. <<>> \in Seq(HostFrame)
    OBVIOUS
  <2> QED
    BY <2>1 DEF HostConnEnds, TypeOK
<1>4. /\ served' \subseteq Conn /\ host' \in served' \cup {NoConn}
      /\ silent' \in BOOLEAN /\ (silent' => host' # NoConn)
  BY NotAmong DEF HostConnEnds, Releases, TypeOK
<1> QED
  BY <1>1, <1>2, <1>3, <1>4 DEF HostConnEnds, Drained, TypeOK, pcVars,
     clientVars

LEMMA TypePc ==
    ASSUME TypeOK, PcMatch \/ PcCounts \/ Tick \/ Nudge
    PROVE  TypeOK'
<1> USE StandsAreTyped, FramesAreTyped
<1>1. CASE PcMatch
  BY <1>1, BudgetIsTyped DEF TypeOK, PcMatch, netVars, clientVars,
     mirrorVars, slotVars, tabletVars, callVars
<1>2. CASE PcCounts
  <2>1. live' \in Stand
    BY <1>2 DEF PcCounts, TypeOK, Stand
  <2> QED
    BY <1>2, <2>1, BudgetIsTyped DEF TypeOK, PcCounts, netVars, clientVars,
       mirrorVars, slotVars, tabletVars, callVars
<1>3. CASE Tick
  <2>1. up' \in [Conn -> Seq(HostFrame)]
    <3>1. /\ <<>> \in Seq(HostFrame)
          /\ <<CourtFrame(pcMatch)>> \in Seq(HostFrame)
          /\ <<StandFrame(Mirror)>> \in Seq(HostFrame)
      BY DEF TypeOK
    <3>2. ASSUME NEW a \in Seq(HostFrame), NEW b \in Seq(HostFrame)
          PROVE  Up(a \o b) \in [Conn -> Seq(HostFrame)]
      <4>1. a \o b \in Seq(HostFrame)
        OBVIOUS
      <4> QED
        BY <4>1, UpIsTyped
    <3> QED
      BY <1>3, <3>1, <3>2 DEF Tick
  <2>2. scoreFp' \in Stand
    BY <1>3 DEF Tick, StandKnown, TypeOK
  <2> QED
    BY <1>3, <2>1, <2>2 DEF TypeOK, Tick, pcVars, mirrorVars, slotVars,
       tabletVars, callVars
<1>4. CASE Nudge
  <2>1. up' \in [Conn -> Seq(HostFrame)]
    <3>1. <<StandFrame(Mirror)>> \in Seq(HostFrame)
      BY DEF TypeOK
    <3> QED
      BY <1>4, <3>1, UpIsTyped DEF Nudge
  <2> QED
    BY <1>4, <2>1 DEF TypeOK, Nudge, pcVars, mirrorVars, slotVars,
       tabletVars, callVars
<1> QED
  BY <1>1, <1>2, <1>3, <1>4

LEMMA FrameOfItsKind ==
    ASSUME TypeOK
    PROVE  /\ \A f \in HostFrame :
                 /\ f.kind = "court" => f.match \in Match \cup {NoMatch}
                 /\ f.kind = "stand" => f.stand \in Stand
           /\ \A f \in RelayFrame :
                 /\ f.kind = "stand" => f.stand \in Stand
                 /\ f.kind = "call" => f.call \in Call
<1>1. ASSUME NEW f \in HostFrame
      PROVE  /\ f.kind = "court" => f.match \in Match \cup {NoMatch}
             /\ f.kind = "stand" => f.stand \in Stand
  BY DEF HostFrame
<1>2. ASSUME NEW f \in RelayFrame
      PROVE  /\ f.kind = "stand" => f.stand \in Stand
             /\ f.kind = "call" => f.call \in Call
  BY DEF RelayFrame
<1> QED
  BY <1>1, <1>2

LEMMA TypeReceived ==
    ASSUME TypeOK, NEW kind, Receives(kind)
    PROVE  /\ Received \in [Conn -> Seq(RelayFrame)]
           /\ Head(down[link]) \in RelayFrame
           /\ Head(down[link]).kind = kind
<1>1. link \in Conn /\ down[link] \in Seq(RelayFrame) /\ down[link] # <<>>
  BY DEF Receives, TypeOK
<1>2. Tail(down[link]) \in Seq(RelayFrame) /\ Head(down[link]) \in RelayFrame
  BY <1>1, HeadOfQueue
<1> QED
  BY <1>1, <1>2 DEF Receives, Received, TypeOK

LEMMA TypePcReceives ==
    ASSUME TypeOK, TabletConnected \/ PcTakesStand \/ PcTakesCall
    PROVE  TypeOK'
<1>1. CASE TabletConnected
  <2>1. Received \in [Conn -> Seq(RelayFrame)]
    BY <1>1, TypeReceived DEF TabletConnected
  <2>2. up' \in [Conn -> Seq(HostFrame)] /\ scoreFp' \in Stand
    <3>1. <<CourtFrame(pcMatch)>> \in Seq(HostFrame)
      BY FramesAreTyped DEF TypeOK
    <3> QED
      BY <1>1, <3>1, UpIsTyped, StandsAreTyped DEF TabletConnected, TypeOK
  <2> QED
    BY <1>1, <2>1, <2>2 DEF TypeOK, TabletConnected, pcVars, mirrorVars,
       slotVars, tabletVars, callVars
<1>2. CASE PcTakesStand
  <2>1. Received \in [Conn -> Seq(RelayFrame)] /\ live' \in Stand
    BY <1>2, TypeReceived, FrameOfItsKind DEF PcTakesStand, TypeOK
  <2> QED
    BY <1>2, <2>1 DEF TypeOK, PcTakesStand, clientVars, mirrorVars,
       slotVars, tabletVars, callVars
<1>3. CASE PcTakesCall
  <2>1. /\ Received \in [Conn -> Seq(RelayFrame)]
        /\ Head(down[link]).call \in Call
    BY <1>3, TypeReceived, FrameOfItsKind DEF PcTakesCall
  <2>2. link # NoConn
    BY <1>3, NotAmong DEF PcTakesCall, Receives
  <2>3. /\ busy' \in Call \cup {NoCall}
        /\ running' \in [Call -> {"no", "task", "orphan"}]
    BY <1>3, <2>1 DEF PcTakesCall, TypeOK
  <2> QED
    BY <1>3, <2>1, <2>2, <2>3 DEF TypeOK, PcTakesCall, pcVars, mirrorVars,
       slotVars, tabletVars, callVars
<1> QED
  BY <1>1, <1>2, <1>3

LEMMA TypePcAnswers ==
    ASSUME TypeOK, ResultProcessed \/ \E x \in Call : CommandExecuted(x)
    PROVE  TypeOK'
<1>1. ASSUME NEW x \in Call
      PROVE  Up(<<AckFrame(x)>>) \in [Conn -> Seq(HostFrame)]
  <2>1. <<AckFrame(x)>> \in Seq(HostFrame)
    BY FramesAreTyped
  <2> QED
    BY <2>1, UpIsTyped
<1>2. CASE ResultProcessed
  BY <1>1, <1>2 DEF TypeOK, ResultProcessed, pcVars, mirrorVars, slotVars,
     tabletVars
<1>3. ASSUME NEW x \in Call, CommandExecuted(x)
      PROVE  TypeOK'
  BY <1>1, <1>3 DEF TypeOK, CommandExecuted, pcVars, mirrorVars, slotVars,
     tabletVars
<1> QED
  BY <1>2, <1>3

LEMMA TypeArrives ==
    ASSUME TypeOK, NEW c \in Conn, NEW kind, Arrives(c, kind)
    PROVE  /\ up' \in [Conn -> Seq(HostFrame)]
           /\ Head(up[c]) \in HostFrame /\ Head(up[c]).kind = kind
           /\ host # NoConn /\ silent' = FALSE
<1>1. up[c] \in Seq(HostFrame) /\ up[c] # <<>>
  BY DEF Arrives, TypeOK
<1>2. Tail(up[c]) \in Seq(HostFrame) /\ Head(up[c]) \in HostFrame
  BY <1>1, HeadOfQueue
<1> QED
  BY <1>1, <1>2, NotAmong DEF Arrives, TypeOK

LEMMA TypeRelayReceives ==
    ASSUME TypeOK, NEW c \in Conn,
           CourtArrives(c) \/ StandArrives(c) \/ AckArrives(c)
    PROVE  TypeOK'
<1>1. CASE CourtArrives(c)
  <2>1. /\ up' \in [Conn -> Seq(HostFrame)] /\ silent' = FALSE
        /\ Head(up[c]).match \in Match \cup {NoMatch}
    BY <1>1, TypeArrives, FrameOfItsKind DEF CourtArrives
  <2>2. courtScore' \in Stand
    BY <1>1, StandsAreTyped DEF CourtArrives, TypeOK
  <2>3. told' \in [Session -> Match \cup {NoMatch, Unknown}]
    BY <1>1, <2>1 DEF CourtArrives, TypeOK
  <2> QED
    BY <1>1, <2>1, <2>2, <2>3 DEF TypeOK, CourtArrives, pcVars, clientVars,
       callVars
<1>2. CASE StandArrives(c)
  <2>1. /\ up' \in [Conn -> Seq(HostFrame)] /\ silent' = FALSE
        /\ Head(up[c]).stand \in Stand
    BY <1>2, TypeArrives, FrameOfItsKind DEF StandArrives
  <2> QED
    BY <1>2, <2>1 DEF TypeOK, StandArrives, pcVars, clientVars, tabletVars,
       callVars
<1>3. CASE AckArrives(c)
  <2>1. up' \in [Conn -> Seq(HostFrame)] /\ silent' = FALSE
    BY <1>3, TypeArrives DEF AckArrives
  <2>2. /\ pending' \subseteq Call
        /\ call' \in [Call -> {"idle", "waiting", "gone", "answered", "lost",
                               "timeout", "refused"}]
    BY <1>3, CallsAreTyped DEF AckArrives, TypeOK
  <2> QED
    BY <1>3, <2>1, <2>2 DEF TypeOK, AckArrives, pcVars, clientVars,
       mirrorVars, tabletVars
<1> QED
  BY <1>1, <1>2, <1>3

LEMMA TypeCalls ==
    ASSUME TypeOK, NEW x \in Call, Submit(x) \/ TimesOut(x) \/ GivenUp(x)
    PROVE  TypeOK'
<1>1. CASE Submit(x)
  <2>1. Down(<<CallFrame(x)>>) \in [Conn -> Seq(RelayFrame)]
    <3>1. <<CallFrame(x)>> \in Seq(RelayFrame)
      BY FramesAreTyped
    <3> QED
      BY <3>1, DownIsTyped
  <2>2. budget' \in Budget
    BY <1>1, BudgetIsTyped DEF Submit
  <2> QED
    <3>1. /\ down' \in [Conn -> Seq(RelayFrame)]
          /\ pending' \subseteq Call /\ nextReq' \in Nat
          /\ req' \in [Call -> Nat]
          /\ call' \in [Call -> {"idle", "waiting", "gone", "answered",
                                 "lost", "timeout", "refused"}]
      <4>1. CASE call' = [call EXCEPT ![x] = "refused"]
                 /\ UNCHANGED <<down, pending, nextReq, req>>
        BY <4>1 DEF TypeOK
      <4>2. CASE /\ call' = [call EXCEPT ![x] = "waiting"]
                 /\ req' = [req EXCEPT ![x] = FreshNumber]
                 /\ nextReq' = nextReq + 1
                 /\ pending' = pending \cup {x}
                 /\ down' = Down(<<CallFrame(x)>>)
        <5>1. nextReq' \in Nat /\ req' \in [Call -> Nat]
          BY <4>2 DEF TypeOK, FreshNumber
        <5>2. call' \in [Call -> {"idle", "waiting", "gone", "answered",
                                "lost", "timeout", "refused"}]
          BY <4>2 DEF TypeOK
        <5> QED
          BY <2>1, <4>2, <5>1, <5>2 DEF TypeOK
      <4> QED
        BY <1>1, <4>1, <4>2 DEF Submit
    <3> QED
      BY <1>1, <2>2, <3>1 DEF TypeOK, Submit, pcVars, clientVars,
         mirrorVars, slotVars, tabletVars
<1>2. CASE TimesOut(x)
  BY <1>2 DEF TypeOK, TimesOut, netVars, pcVars, clientVars, mirrorVars,
     slotVars, tabletVars
<1>3. CASE GivenUp(x)
  BY <1>3 DEF TypeOK, GivenUp, netVars, pcVars, clientVars, mirrorVars,
     slotVars, tabletVars
<1> QED
  BY <1>1, <1>2, <1>3

LEMMA TypeTablets ==
    ASSUME TypeOK, NEW s \in Session,
           \/ Identify(s) \/ TakeOver(s) \/ PageShows(s)
           \/ ForwardScore(s) \/ Leave(s)
    PROVE  TypeOK'
<1>1. Down(<<ConnectedFrame>>) \in [Conn -> Seq(RelayFrame)]
  <2>1. <<ConnectedFrame>> \in Seq(RelayFrame)
    BY FramesAreTyped
  <2> QED
    BY <2>1, DownIsTyped
<1>2. CASE Identify(s)
  <2>1. budget' \in Budget
    BY <1>2, BudgetIsTyped DEF Identify
  <2> QED
    <3>1. /\ down' \in [Conn -> Seq(RelayFrame)]
          /\ holder' \in Session \cup {NoSession}
          /\ at' \in [Session -> {"off", "waiting", "active"}]
          /\ holder' # NoSession => at'[holder'] = "active"
      <4>1. CASE Holds(s)
        BY <1>1, <4>1 DEF TypeOK, Holds
      <4>2. CASE at' = [at EXCEPT ![s] = "waiting"] /\ UNCHANGED <<down, holder>>
        BY <1>2, <4>2 DEF TypeOK, Identify
      <4> QED
        BY <1>2, <4>1, <4>2 DEF Identify
    <3> QED
      BY <1>2, <2>1, <3>1 DEF TypeOK, Identify, pcVars, clientVars,
         mirrorVars, slotVars, callVars
<1>3. CASE TakeOver(s)
  BY <1>1, <1>3 DEF TypeOK, TakeOver, Holds, pcVars, clientVars, mirrorVars,
     slotVars, callVars
<1>4. CASE PageShows(s)
  BY <1>4 DEF TypeOK, PageShows, netVars, pcVars, clientVars, mirrorVars,
     slotVars, callVars
<1>5. CASE ForwardScore(s)
  <2>1. courtScore' \in Stand
    BY <1>5 DEF ForwardScore, Stand
  <2>2. down' \in [Conn -> Seq(RelayFrame)]
    <3>1. StandFrame(courtScore') \in RelayFrame
      BY <2>1, FramesAreTyped
    <3>2. <<StandFrame(courtScore')>> \in Seq(RelayFrame)
      BY <3>1
    <3> QED
      BY <1>5, <3>2, DownIsTyped DEF ForwardScore
  <2> QED
    BY <1>5, <2>1, <2>2, BudgetIsTyped DEF TypeOK, ForwardScore, pcVars,
       clientVars, slotVars, tabletVars, callVars
<1>6. CASE Leave(s)
  <2>1. courtMatch' \in Match \cup {NoMatch} /\ courtScore' \in Stand
        /\ nextReq' \in Nat
    BY <1>6, StandsAreTyped DEF Leave, TidyUp, TypeOK, mirrorVars
  <2>2. holder' # NoSession => at'[holder'] = "active"
    BY <1>6, NotAmong DEF Leave, TypeOK
  <2> QED
    BY <1>6, <2>1, <2>2 DEF TypeOK, Leave, netVars, pcVars, clientVars
<1> QED
  BY <1>2, <1>3, <1>4, <1>5, <1>6

LEMMA TypeStep == TypeOK /\ [Next]_vars => TypeOK'
<1> SUFFICES ASSUME TypeOK, [Next]_vars PROVE TypeOK'
  OBVIOUS
<1>1. CASE UNCHANGED vars
  BY <1>1 DEF TypeOK, vars, netVars, pcVars, clientVars, mirrorVars,
     slotVars, tabletVars, callVars
<1>2. CASE \E c \in Conn : RelayDrops(c) \/ SupersededSpeaks(c)
  BY <1>2, TypeHostConnEnds DEF RelayDrops, SupersededSpeaks
<1> QED
  BY <1>1, <1>2, TypeNetwork, TypePc, TypePcReceives, TypePcAnswers,
     TypeRelayReceives, TypeCalls, TypeTablets DEF Next, PcStep, RelayStep

\* In every state the variables have their types, the slot belongs to a
\* connection that is served, and the court to a session that has identified
\* itself.
THEOREM TypeCorrect == Spec => []TypeOK
  BY TypeInit, TypeStep, PTL DEF Spec

-----------------------------------------------------------------------------
(* Answers.  The numbers of requests start afresh with every namespace, so   *)
(* the argument is about those of the present host only: what travels on its *)
(* connection has a number of its own among those that wait.                 *)

Carried(x) ==
    /\ link = host /\ link # NoConn
    /\ \/ \E i \in 1 .. Len(down[link]) : down[link][i] = CallFrame(x)
       \/ busy = x
       \/ running[x] = "task"

NumbersApart ==
    /\ \A x \in Call, y \in pending :
          (x \in pending \/ Carried(x)) /\ req[x] = req[y] => x = y
    /\ \A x \in Call : x \in pending \/ Carried(x) => req[x] < nextReq

\* An answer under way is, for whoever waits under its number, true.
TrueAnswer(f) ==
    f.kind = "ack" => /\ f.req < nextReq
                      /\ \A x \in pending : req[x] = f.req => x \in executed

TrueAfter(f) ==
    f.kind = "ack" => /\ f.req < nextReq'
                      /\ \A x \in pending' : req'[x] = f.req => x \in executed'

AnswersTrue == host # NoConn =>
                   \A i \in 1 .. Len(up[host]) : TrueAnswer(up[host][i])

NoHostNobodyWaits == host = NoConn => pending = {}

TasksHaveTheirWay == \A x \in Call : running[x] = "task" => link # NoConn

AnswersInv == /\ TypeOK /\ NumbersApart /\ AnswersTrue /\ NoHostNobodyWaits
              /\ TasksHaveTheirWay /\ AnswersFit

LEMMA InConcatenation ==
    ASSUME NEW S, NEW a \in Seq(S), NEW b \in Seq(S), NEW i \in 1 .. Len(a \o b)
    PROVE  \/ \E j \in 1 .. Len(a) : (a \o b)[i] = a[j]
           \/ \E j \in 1 .. Len(b) : (a \o b)[i] = b[j]
<1>1. CASE i \in 1 .. Len(a)
  BY <1>1
<1>2. CASE i \notin 1 .. Len(a)
  <2>1. i - Len(a) \in 1 .. Len(b) /\ (a \o b)[i] = b[i - Len(a)]
    BY <1>2
  <2> QED
    BY <2>1
<1> QED
  BY <1>1, <1>2

LEMMA InTail ==
    ASSUME NEW S, NEW q \in Seq(S), q # <<>>, NEW i \in 1 .. Len(Tail(q))
    PROVE  i + 1 \in 1 .. Len(q) /\ Tail(q)[i] = q[i + 1]
OBVIOUS

\* What is sent adds to the host's queue of answers at most what is sent.
LEMMA SentUp ==
    ASSUME TypeOK, AnswersTrue, NEW frames \in Seq(HostFrame), host # NoConn,
           NEW i \in 1 .. Len(Up(frames)[host])
    PROVE  \/ \E j \in 1 .. Len(up[host]) : Up(frames)[host][i] = up[host][j]
           \/ /\ link = host
              /\ \E j \in 1 .. Len(frames) : Up(frames)[host][i] = frames[j]
<1>1. /\ up \in [Conn -> Seq(HostFrame)] /\ host \in Conn /\ link \in Conn \cup {NoConn}
      /\ up[host] \in Seq(HostFrame)
  BY DEF TypeOK
<1>2. CASE Up(frames)[host] = up[host]
  BY <1>1, <1>2
<1>3. CASE link = host /\ Up(frames)[host] = up[host] \o frames
  <2>1. i \in 1 .. Len(up[host] \o frames)
    BY <1>3
  <2>2. \/ \E j \in 1 .. Len(up[host]) : (up[host] \o frames)[i] = up[host][j]
        \/ \E j \in 1 .. Len(frames) : (up[host] \o frames)[i] = frames[j]
    BY <1>1, <2>1, InConcatenation
  <2> QED
    BY <1>3, <2>2
<1>4. Up(frames) = up \/ Up(frames) = [up EXCEPT ![link] = @ \o frames]
  BY DEF Up
<1>5. \/ Up(frames)[host] = up[host]
      \/ link = host /\ Up(frames)[host] = up[host] \o frames
  BY <1>1, <1>4
<1> QED
  BY <1>2, <1>3, <1>5

\* What the relay sends carries no other call than those sent.
LEMMA SentDown ==
    ASSUME TypeOK, NEW frames \in Seq(RelayFrame), link \in Conn,
           NEW i \in 1 .. Len(Down(frames)[link])
    PROVE  \/ \E j \in 1 .. Len(down[link]) : Down(frames)[link][i] = down[link][j]
           \/ \E j \in 1 .. Len(frames) : Down(frames)[link][i] = frames[j]
<1>1. down \in [Conn -> Seq(RelayFrame)] /\ down[link] \in Seq(RelayFrame)
  BY DEF TypeOK
<1>2. CASE Down(frames)[link] = down[link]
  BY <1>1, <1>2
<1>3. CASE Down(frames)[link] = down[link] \o frames
  <2>1. i \in 1 .. Len(down[link] \o frames)
    BY <1>3
  <2>2. \/ \E j \in 1 .. Len(down[link]) : (down[link] \o frames)[i] = down[link][j]
        \/ \E j \in 1 .. Len(frames) : (down[link] \o frames)[i] = frames[j]
    BY <1>1, <2>1, InConcatenation
  <2> QED
    BY <1>3, <2>2
<1>4. Down(frames) = down \/ Down(frames) = [down EXCEPT ![link] = @ \o frames]
  BY DEF Down
<1>5. \/ Down(frames)[link] = down[link]
      \/ Down(frames)[link] = down[link] \o frames
  BY <1>1, <1>4
<1> QED
  BY <1>2, <1>3, <1>5

AnswersCore == /\ NumbersApart /\ AnswersTrue /\ NoHostNobodyWaits
               /\ TasksHaveTheirWay /\ AnswersFit

\* Steps that leave the calls alone need a look at the queues only.
LEMMA QuietStep ==
    ASSUME AnswersInv, UNCHANGED <<pending, nextReq, req, call, executed>>,
           host' = NoConn => host = NoConn,
           \A x \in Call : Carried(x)' => Carried(x),
           AnswersTrue', TasksHaveTheirWay'
    PROVE  AnswersCore'
  BY DEF AnswersInv, AnswersCore, NumbersApart, NoHostNobodyWaits, AnswersFit

LEMMA QuietTruth ==
    ASSUME AnswersTrue, UNCHANGED <<up, pending, nextReq, req, executed>>,
           host' = host
    PROVE  AnswersTrue'
  BY DEF AnswersTrue, TrueAnswer

LEMMA QuietCarried ==
    ASSUME UNCHANGED <<down, link, host, busy, running>>
    PROVE  \A x \in Call : Carried(x)' => Carried(x)
  BY DEF Carried, CallFrame

\* The steps of the PC that send no answer.
LEMMA AnswersPcSends ==
    ASSUME AnswersInv, Tick \/ Nudge
    PROVE  AnswersCore'
<1> DEFINE Said == {CourtFrame(pcMatch), StandFrame(Mirror)}
<1>1. PICK frames \in Seq(HostFrame) :
          /\ up' = Up(frames)
          /\ \A j \in 1 .. Len(frames) : frames[j] \in Said
  <2>1. /\ <<>> \in Seq(HostFrame)
        /\ <<CourtFrame(pcMatch)>> \in Seq(HostFrame)
        /\ <<StandFrame(Mirror)>> \in Seq(HostFrame)
    BY FramesAreTyped, StandsAreTyped DEF AnswersInv, TypeOK
  <2>2. CASE Nudge
    <3>1. <<StandFrame(Mirror)>>[1] \in Said /\ Len(<<StandFrame(Mirror)>>) = 1
      OBVIOUS
    <3> QED
      BY <2>1, <2>2, <3>1 DEF Nudge
  <2>3. CASE Tick
    <3>1. PICK a \in {<<>>, <<CourtFrame(pcMatch)>>},
               b \in {<<>>, <<StandFrame(Mirror)>>} : up' = Up(a \o b)
      BY <2>3 DEF Tick
    <3>2. a \in Seq(HostFrame) /\ b \in Seq(HostFrame)
      BY <2>1
    <3>3. \A j \in 1 .. Len(a \o b) : (a \o b)[j] \in Said
      <4>1. ASSUME NEW j \in 1 .. Len(a \o b)
            PROVE  (a \o b)[j] \in Said
        <5>1. \/ \E k \in 1 .. Len(a) : (a \o b)[j] = a[k]
              \/ \E k \in 1 .. Len(b) : (a \o b)[j] = b[k]
          BY <3>2, InConcatenation
        <5>2. /\ \A k \in 1 .. Len(a) : a[k] \in Said
              /\ \A k \in 1 .. Len(b) : b[k] \in Said
          OBVIOUS
        <5> QED
          BY <5>1, <5>2
      <4> QED
        BY <4>1
    <3>4. a \o b \in Seq(HostFrame)
      BY <3>2
    <3> QED
      BY <3>1, <3>3, <3>4
  <2> QED
    BY <2>2, <2>3
<1>2. UNCHANGED <<down, link, host, busy, running, pending, nextReq, req, call,
                 executed>>
  BY DEF Tick, Nudge, slotVars, callVars
<1>3. AnswersTrue'
  <2>1. ASSUME host # NoConn, NEW i \in 1 .. Len(up'[host])
        PROVE  TrueAnswer(up'[host][i])
    <3>1. \A f \in Said : TrueAnswer(f)
      BY DEF TrueAnswer, CourtFrame, StandFrame
    <3> QED
      BY <1>1, <2>1, <3>1, SentUp DEF AnswersInv, AnswersTrue
  <2> QED
    BY <1>2, <2>1 DEF AnswersTrue, TrueAnswer
<1>4. TasksHaveTheirWay'
  BY <1>2 DEF AnswersInv, TasksHaveTheirWay
<1> QED
  BY <1>2, <1>3, <1>4, QuietStep, QuietCarried

\* What the PC has read was carried before.
LEMMA ReceivedWasCarried ==
    ASSUME TypeOK, NEW kind, Receives(kind), NEW x \in Call,
           NEW i \in 1 .. Len(Received[link]), Received[link][i] = CallFrame(x)
    PROVE  \E j \in 1 .. Len(down[link]) : down[link][j] = CallFrame(x)
<1>1. /\ down[link] \in Seq(RelayFrame) /\ down[link] # <<>>
      /\ Received[link] = Tail(down[link])
  BY DEF Receives, Received, TypeOK
<1>2. i \in 1 .. Len(Tail(down[link]))
  BY <1>1
<1>3. i + 1 \in 1 .. Len(down[link]) /\ Tail(down[link])[i] = down[link][i + 1]
  BY <1>1, <1>2, InTail
<1> QED
  BY <1>1, <1>3

LEMMA AnswersPcReceives ==
    ASSUME AnswersInv, TabletConnected \/ PcTakesStand \/ PcTakesCall
    PROVE  AnswersCore'
<1> USE DEF AnswersInv
<1>1. UNCHANGED <<link, host, pending, nextReq, req, call, executed>>
      /\ down' = Received /\ \E kind : Receives(kind)
  BY DEF TabletConnected, PcTakesStand, PcTakesCall, clientVars, slotVars,
     callVars
<1>2. CASE TabletConnected \/ PcTakesStand
  <2>1. UNCHANGED <<busy, running>>
    BY <1>2 DEF TabletConnected, PcTakesStand, clientVars
  <2>2. \A x \in Call : Carried(x)' => Carried(x)
    BY <1>1, <2>1, ReceivedWasCarried DEF Carried, CallFrame
  <2>3. AnswersTrue'
    <3>1. CASE up' = up
      BY <1>1, <3>1, QuietTruth
    <3>2. CASE up' = Up(<<CourtFrame(pcMatch)>>)
      <4>1. <<CourtFrame(pcMatch)>> \in Seq(HostFrame)
        BY FramesAreTyped DEF TypeOK
      <4>2. TrueAnswer(CourtFrame(pcMatch))
        BY DEF TrueAnswer, CourtFrame
      <4>3. ASSUME host # NoConn, NEW i \in 1 .. Len(up'[host])
            PROVE  TrueAnswer(up'[host][i])
        <5>1. \/ \E j \in 1 .. Len(up[host]) : up'[host][i] = up[host][j]
              \/ \E j \in 1 .. Len(<<CourtFrame(pcMatch)>>) :
                     up'[host][i] = <<CourtFrame(pcMatch)>>[j]
          BY <3>2, <4>1, <4>3, SentUp
        <5>2. \A j \in 1 .. Len(<<CourtFrame(pcMatch)>>) :
                 <<CourtFrame(pcMatch)>>[j] = CourtFrame(pcMatch)
          OBVIOUS
        <5> QED
          BY <4>2, <4>3, <5>1, <5>2 DEF AnswersTrue
      <4> QED
        BY <1>1, <4>3 DEF AnswersTrue, TrueAnswer
    <3> QED
      BY <1>2, <3>1, <3>2 DEF TabletConnected, PcTakesStand
  <2>4. TasksHaveTheirWay'
    BY <1>1, <2>1 DEF TasksHaveTheirWay
  <2> QED
    BY <1>1, <2>2, <2>3, <2>4, QuietStep
<1>3. CASE PcTakesCall
  <2> DEFINE y == Head(down[link]).call
  <2>1. /\ y \in Call /\ CallFrame(y) = Head(down[link])
        /\ Head(down[link]) = down[link][1] /\ 1 \in 1 .. Len(down[link])
        /\ link # NoConn
    <3>1. Receives("call")
      BY <1>3 DEF PcTakesCall
    <3>2. /\ Head(down[link]) \in RelayFrame
          /\ Head(down[link]).kind = "call" /\ y \in Call
      BY <3>1, TypeReceived, FrameOfItsKind
    <3>3. CallFrame(y) = Head(down[link])
      BY <3>2 DEF RelayFrame, CallFrame
    <3>4. down[link] \in Seq(RelayFrame) /\ down[link] # <<>> /\ link # NoConn
      BY <3>1, NotAmong DEF TypeOK, Receives
    <3> QED
      BY <3>2, <3>3, <3>4
  <2>2. ASSUME NEW x \in Call, Carried(x)'
        PROVE  Carried(x)
    <3>1. CASE x = y
      BY <1>1, <2>1, <2>2, <3>1 DEF Carried
    <3>2. CASE x # y
      <4>1. busy' = x => busy = x
        BY <1>3, <3>2 DEF PcTakesCall
      <4>2. running'[x] = "task" => running[x] = "task"
        BY <1>3, <3>2 DEF PcTakesCall, TypeOK
      <4> QED
        BY <1>1, <2>2, <4>1, <4>2, ReceivedWasCarried DEF Carried, CallFrame
    <3> QED
      BY <3>1, <3>2
  <2>3. AnswersTrue'
    BY <1>1, <1>3, QuietTruth DEF PcTakesCall
  <2>4. TasksHaveTheirWay'
    BY <1>1, <2>1 DEF TasksHaveTheirWay
  <2> QED
    BY <1>1, <2>2, <2>3, <2>4, QuietStep
<1> QED
  BY <1>2, <1>3

\* Steps that end waits, execute calls or read what has arrived.
LEMMA ShrinkingStep ==
    ASSUME AnswersInv, pending' \subseteq pending, UNCHANGED <<nextReq, req>>,
           host' = NoConn => pending' = {},
           \A x \in Call : Carried(x)' => Carried(x),
           AnswersTrue', TasksHaveTheirWay', AnswersFit'
    PROVE  AnswersCore'
  BY DEF AnswersInv, AnswersCore, NumbersApart, NoHostNobodyWaits

\* An answer is sent by who carried the call, which is executed by then.
LEMMA AnsweringStep ==
    ASSUME AnswersInv, NEW x \in Call, x \in executed',
           executed \subseteq executed',
           UNCHANGED <<pending, nextReq, req, host>>,
           up' = Up(<<AckFrame(x)>>), link = host => Carried(x)
    PROVE  AnswersTrue'
<1> USE DEF AnswersInv
<1>1. <<AckFrame(x)>> \in Seq(HostFrame)
  BY FramesAreTyped
<1>2. ASSUME host # NoConn, NEW i \in 1 .. Len(up'[host])
      PROVE  TrueAfter(up'[host][i])
  <2>1. \/ \E j \in 1 .. Len(up[host]) : up'[host][i] = up[host][j]
        \/ /\ link = host
           /\ \E j \in 1 .. Len(<<AckFrame(x)>>) :
                  up'[host][i] = <<AckFrame(x)>>[j]
    BY <1>1, <1>2, SentUp
  <2>2. CASE \E j \in 1 .. Len(up[host]) : up'[host][i] = up[host][j]
    BY <1>2, <2>2 DEF AnswersTrue, TrueAnswer, TrueAfter
  <2>3. CASE link = host /\ up'[host][i] = AckFrame(x)
    <3>1. req[x] < nextReq /\ \A y \in pending : req[x] = req[y] => x = y
      BY <2>3 DEF NumbersApart
    <3>2. AckFrame(x).req = req[x]
      BY DEF AckFrame
    <3> QED
      BY <2>3, <3>1, <3>2 DEF TrueAfter
  <2> QED
    BY <2>1, <2>2, <2>3
<1> QED
  BY <1>2 DEF AnswersTrue, TrueAnswer, TrueAfter

LEMMA AnswersPcAnswers ==
    ASSUME AnswersInv, ResultProcessed \/ \E x \in Call : CommandExecuted(x)
    PROVE  AnswersCore'
<1> USE DEF AnswersInv
<1>1. CASE ResultProcessed
  <2>1. /\ busy \in Call /\ link # NoConn /\ busy' = NoCall
        /\ UNCHANGED <<down, link, running, host, pending, nextReq, req, call>>
        /\ executed' = executed \cup {busy} /\ up' = Up(<<AckFrame(busy)>>)
    BY <1>1 DEF ResultProcessed, TypeOK, slotVars
  <2>2. AnswersTrue'
    BY <2>1, AnsweringStep DEF Carried
  <2>3. \A x \in Call : Carried(x)' => Carried(x)
    BY <2>1, NotAmong DEF Carried, CallFrame
  <2>4. TasksHaveTheirWay' /\ AnswersFit'
    BY <2>1 DEF TasksHaveTheirWay, AnswersFit
  <2> QED
    BY <2>1, <2>2, <2>3, <2>4, ShrinkingStep DEF NoHostNobodyWaits
<1>2. ASSUME NEW x \in Call, CommandExecuted(x)
      PROVE  AnswersCore'
  <2>1. /\ running[x] # "no"
        /\ running' = [running EXCEPT ![x] = "no"]
        /\ UNCHANGED <<down, link, busy, host, pending, nextReq, req, call>>
        /\ executed' = executed \cup {x}
        /\ up' = IF running[x] = "task" THEN Up(<<AckFrame(x)>>) ELSE up
    BY <1>2 DEF CommandExecuted, slotVars
  <2>2. AnswersTrue'
    <3>1. CASE running[x] = "task"
      BY <2>1, <3>1, AnsweringStep DEF Carried, TasksHaveTheirWay
    <3>2. CASE running[x] # "task"
      BY <2>1, <3>2 DEF AnswersTrue, TrueAnswer, TrueAfter
    <3> QED
      BY <3>1, <3>2
  <2>3. \A y \in Call : running'[y] = "task" => running[y] = "task"
    BY <2>1 DEF TypeOK
  <2>4. \A y \in Call : Carried(y)' => Carried(y)
    BY <2>1, <2>3 DEF Carried, CallFrame
  <2>5. TasksHaveTheirWay' /\ AnswersFit'
    BY <2>1, <2>3 DEF TasksHaveTheirWay, AnswersFit
  <2> QED
    BY <2>1, <2>2, <2>4, <2>5, ShrinkingStep DEF NoHostNobodyWaits
<1> QED
  BY <1>1, <1>2

LEMMA AnswersArrive ==
    ASSUME AnswersInv, NEW c \in Conn,
           CourtArrives(c) \/ StandArrives(c) \/ AckArrives(c)
    PROVE  AnswersCore'
<1> USE DEF AnswersInv
<1>1. /\ c = host /\ host # NoConn /\ up[c] # <<>> /\ up[c] \in Seq(HostFrame)
      /\ up' = [up EXCEPT ![c] = Tail(@)]
      /\ UNCHANGED <<down, link, busy, running, host, nextReq, req, executed>>
  BY NotAmong DEF CourtArrives, StandArrives, AckArrives, Arrives, TypeOK,
     clientVars, callVars
<1>2. pending' \subseteq pending
  BY DEF CourtArrives, StandArrives, AckArrives, callVars
<1>3. AnswersTrue'
  <2>1. ASSUME NEW i \in 1 .. Len(up'[host])
        PROVE  TrueAfter(up'[host][i])
    <3>1. up'[host] = Tail(up[host])
      BY <1>1 DEF TypeOK
    <3>2. i + 1 \in 1 .. Len(up[host]) /\ Tail(up[host])[i] = up[host][i + 1]
      BY <1>1, <3>1, InTail
    <3> QED
      BY <1>1, <1>2, <3>1, <3>2 DEF AnswersTrue, TrueAnswer, TrueAfter
  <2> QED
    BY <1>1, <2>1 DEF AnswersTrue, TrueAnswer, TrueAfter
<1>4. AnswersFit'
  <2>1. CASE AckArrives(c)
    <3> DEFINE f == Head(up[c])
               hit == {x \in pending : req[x] = f.req /\ (x \in DeskCall) = f.desk}
    <3>1. f.kind = "ack" /\ Answer(hit, "answered")
      BY <2>1 DEF AckArrives, Arrives
    <3>2. f = up[host][1] /\ 1 \in 1 .. Len(up[host])
      BY <1>1
    <3>3. hit \subseteq executed
      BY <1>1, <3>1, <3>2 DEF AnswersTrue, TrueAnswer, TrueAfter
    <3> QED
      BY <1>1, <3>1, <3>3 DEF Answer, AnswersFit, TypeOK
  <2>2. CASE CourtArrives(c) \/ StandArrives(c)
    BY <2>2 DEF CourtArrives, StandArrives, callVars, AnswersFit
  <2> QED
    BY <2>1, <2>2
<1>5. TasksHaveTheirWay'
  BY <1>1 DEF TasksHaveTheirWay
<1> QED
  BY <1>1, <1>2, <1>3, <1>4, <1>5, ShrinkingStep, QuietCarried

\* When nobody holds the slot afterwards, nothing is carried or waited for,
\* and the numbers may start afresh.
LEMMA HostlessStep ==
    ASSUME host' = NoConn, pending' = {}, TasksHaveTheirWay', AnswersFit'
    PROVE  AnswersCore'
  BY DEF AnswersCore, NumbersApart, AnswersTrue, NoHostNobodyWaits, Carried

LEMMA AnswersHostConnEnds ==
    ASSUME AnswersInv, NEW c \in Conn, HostConnEnds(c)
    PROVE  AnswersCore'
<1> USE DEF AnswersInv
<1>1. /\ pending' \subseteq pending
      /\ UNCHANGED <<down, link, busy, running, req, executed>>
      /\ up' = [up EXCEPT ![c] = <<>>]
  BY DEF HostConnEnds, clientVars
<1>2. TasksHaveTheirWay' /\ AnswersFit'
  BY <1>1 DEF HostConnEnds, Answer, TasksHaveTheirWay, AnswersFit, TypeOK
<1>3. CASE host = c \/ host = NoConn
  <2>1. host' = NoConn /\ pending' = {}
    BY <1>3 DEF HostConnEnds, Releases, Drained, NoHostNobodyWaits
  <2> QED
    BY <1>2, <2>1, HostlessStep
<1>4. CASE host # c /\ host # NoConn
  <2>1. host' = host /\ nextReq' = nextReq /\ up'[host] = up[host]
    BY <1>1, <1>4 DEF HostConnEnds, Releases, TidyUp, TypeOK
  <2>2. AnswersTrue'
    BY <1>1, <2>1 DEF AnswersTrue, TrueAnswer
  <2> QED
    BY <1>1, <1>2, <1>4, <2>1, <2>2, ShrinkingStep, QuietCarried
<1> QED
  BY <1>3, <1>4

LEMMA AnswersNetwork ==
    ASSUME AnswersInv,
           \/ \E c \in Conn : Cut(c)
           \/ Silence \/ Pong \/ Connect \/ ServeEnds
    PROVE  AnswersCore'
<1> USE DEF AnswersInv
<1>1. UNCHANGED <<pending, nextReq, req, call, executed, busy>>
  BY DEF Cut, Silence, Pong, Connect, ServeEnds, clientVars, callVars
<1>2. ASSUME NEW c \in Conn, Cut(c)
      PROVE  AnswersCore'
  <2>1. /\ UNCHANGED <<link, host, running>>
        /\ up' = [up EXCEPT ![c] = <<>>] /\ down' = [down EXCEPT ![c] = <<>>]
    BY <1>2 DEF Cut, clientVars, slotVars
  <2>2. \A x \in Call : Carried(x)' => Carried(x)
    BY <1>1, <2>1 DEF Carried, CallFrame, TypeOK
  <2>3. AnswersTrue'
    BY <1>1, <2>1 DEF AnswersTrue, TrueAnswer, TypeOK
  <2> QED
    BY <1>1, <2>1, <2>2, <2>3, QuietStep DEF TasksHaveTheirWay
<1>3. CASE Silence \/ Pong
  <2>1. UNCHANGED <<up, down, link, host, running>>
    BY <1>3 DEF Silence, Pong, netVars, clientVars
  <2> QED
    BY <1>1, <2>1, QuietCarried, QuietTruth, QuietStep DEF TasksHaveTheirWay
<1>4. CASE Connect
  <2>1. PICK c \in Conn :
            /\ link' = c /\ host' = c
            /\ up' = [up EXCEPT ![c] = <<>>]
            /\ down' = [down EXCEPT ![c] = IF holder = NoSession THEN <<>>
                                           ELSE <<ConnectedFrame>>]
    BY <1>4 DEF Connect
  <2>2. link = NoConn /\ running' = running /\ c # NoConn
    BY <1>4, NotAmong DEF Connect
  <2>3. busy = NoCall /\ \A x \in Call : running[x] # "task"
    BY <2>2 DEF TypeOK, TasksHaveTheirWay
  <2>4. \A x \in Call : ~Carried(x)'
    <3>1. down'[c] = <<>> \/ down'[c] = <<ConnectedFrame>>
      BY <2>1 DEF TypeOK
    <3>2. ASSUME NEW x \in Call, NEW i \in 1 .. Len(down'[c])
          PROVE  down'[c][i] # CallFrame(x)
      <4>1. down'[c][i] = ConnectedFrame
        BY <3>1
      <4> QED
        BY <4>1 DEF ConnectedFrame, CallFrame
    <3> QED
      BY <1>1, <2>1, <2>2, <2>3, <3>2, NotAmong DEF Carried, CallFrame
  <2>5. AnswersTrue'
    <3>1. up'[c] = <<>>
      BY <2>1 DEF TypeOK
    <3> QED
      BY <2>1, <3>1 DEF AnswersTrue
  <2> QED
    BY <1>1, <2>1, <2>2, <2>4, <2>5, QuietStep DEF TasksHaveTheirWay
<1>5. CASE ServeEnds
  <2>1. /\ link' = NoConn /\ host' = host /\ link \in Conn
        /\ \A x \in Call : running'[x] # "task"
    BY <1>5 DEF ServeEnds, slotVars, TypeOK
  <2>2. AnswersTrue'
    <3>1. PICK k \in 0 .. Len(up[link]) :
              up' = [up EXCEPT ![link] = SubSeq(@, 1, k)]
      BY <1>5 DEF ServeEnds
    <3>2. up[link] \in Seq(HostFrame)
      BY <2>1 DEF TypeOK
    <3>3. Len(SubSeq(up[link], 1, k)) = k
      BY <3>2
    <3>4. ASSUME host # NoConn, NEW i \in 1 .. Len(up'[host])
          PROVE  i \in 1 .. Len(up[host]) /\ up'[host][i] = up[host][i]
      BY <3>1, <3>2, <3>3, <3>4 DEF TypeOK
    <3> QED
      BY <1>1, <2>1, <3>4 DEF AnswersTrue, TrueAnswer
  <2> QED
    BY <1>1, <2>1, <2>2, QuietStep DEF TasksHaveTheirWay, Carried
<1> QED
  BY <1>2, <1>3, <1>4, <1>5

LEMMA AnswersSubmit ==
    ASSUME AnswersInv, NEW x \in Call, Submit(x)
    PROVE  AnswersCore'
<1> USE DEF AnswersInv
<1>1. UNCHANGED <<up, link, busy, running, host, executed>>
  BY DEF Submit, clientVars, slotVars
<1>2. CASE call' = [call EXCEPT ![x] = "refused"]
           /\ UNCHANGED <<down, pending, nextReq, req>>
  <2>1. AnswersFit' /\ TasksHaveTheirWay'
    BY <1>1, <1>2 DEF AnswersFit, TasksHaveTheirWay, TypeOK
  <2> QED
    BY <1>1, <1>2, <2>1, QuietCarried, QuietTruth, ShrinkingStep
       DEF NoHostNobodyWaits
<1>3. CASE /\ call' = [call EXCEPT ![x] = "waiting"]
           /\ req' = [req EXCEPT ![x] = FreshNumber]
           /\ nextReq' = nextReq + 1
           /\ pending' = pending \cup {x}
           /\ down' = Down(<<CallFrame(x)>>)
           /\ host # NoConn
  <2>1. /\ \A y \in Call \ {x} : req'[y] = req[y]
        /\ req'[x] = nextReq /\ nextReq \in Nat /\ nextReq' = nextReq + 1
        /\ \A y \in Call : req[y] \in Nat
    BY <1>3 DEF TypeOK, FreshNumber
  <2>2. ASSUME NEW y \in Call \ {x}, Carried(y)'
        PROVE  Carried(y)
    <3>1. CASE \E i \in 1 .. Len(down'[link]) : down'[link][i] = CallFrame(y)
      <4>1. PICK i \in 1 .. Len(Down(<<CallFrame(x)>>)[link]) :
                Down(<<CallFrame(x)>>)[link][i] = CallFrame(y)
        BY <1>3, <3>1
      <4>2. <<CallFrame(x)>> \in Seq(RelayFrame) /\ link \in Conn
        BY <1>1, <2>2, FramesAreTyped DEF Carried, TypeOK
      <4>3. \A j \in 1 .. Len(<<CallFrame(x)>>) : <<CallFrame(x)>>[j] = CallFrame(x)
        OBVIOUS
      <4>4. CallFrame(x) # CallFrame(y)
        BY DEF CallFrame
      <4>5. \E j \in 1 .. Len(down[link]) : down[link][j] = CallFrame(y)
        BY <4>1, <4>2, <4>3, <4>4, SentDown
      <4> QED
        BY <1>1, <2>2, <4>5 DEF Carried
    <3>2. CASE busy' = y \/ running'[y] = "task"
      BY <1>1, <2>2, <3>2 DEF Carried
    <3> QED
      BY <1>1, <2>2, <3>1, <3>2 DEF Carried, CallFrame
  <2>3. NumbersApart'
    <3>1. ASSUME NEW y \in Call, y \in pending' \/ Carried(y)'
          PROVE  req'[y] < nextReq'
      BY <1>3, <2>1, <2>2, <3>1 DEF NumbersApart
    <3>2. ASSUME NEW y \in Call, NEW z \in pending',
                 y \in pending' \/ Carried(y)', req'[y] = req'[z]
          PROVE  y = z
      <4>1. CASE y # x /\ z # x
        BY <1>3, <2>1, <2>2, <3>2, <4>1 DEF NumbersApart, TypeOK
      <4>2. CASE y # x /\ z = x
        <5>1. req[y] < nextReq
          BY <1>3, <2>2, <3>2, <4>2 DEF NumbersApart
        <5> QED
          BY <2>1, <3>2, <4>2, <5>1
      <4>3. CASE y = x /\ z # x
        <5>1. z \in pending /\ z \in Call
          BY <1>3, <3>2, <4>3 DEF TypeOK
        <5>2. req[z] < nextReq
          BY <5>1 DEF NumbersApart
        <5> QED
          BY <2>1, <3>2, <4>3, <5>1, <5>2
      <4> QED
        BY <4>1, <4>2, <4>3
    <3> QED
      BY <3>1, <3>2 DEF NumbersApart
  <2>4. AnswersTrue'
    <3>1. ASSUME NEW i \in 1 .. Len(up[host])
          PROVE  TrueAfter(up[host][i])
      <4>1. TrueAnswer(up[host][i])
        BY <1>3 DEF AnswersTrue
      <4>2. up[host][i] \in HostFrame
        BY <1>3 DEF TypeOK
      <4>3. up[host][i].kind = "ack" => up[host][i].req \in Nat
        BY <4>2 DEF HostFrame
      <4> QED
        BY <1>1, <1>3, <2>1, <4>1, <4>3 DEF TrueAnswer, TrueAfter, TypeOK
    <3> QED
      BY <1>1, <3>1 DEF AnswersTrue, TrueAnswer, TrueAfter
  <2>5. NoHostNobodyWaits' /\ TasksHaveTheirWay' /\ AnswersFit'
    BY <1>1, <1>3 DEF NoHostNobodyWaits, TasksHaveTheirWay, AnswersFit, TypeOK
  <2> QED
    BY <2>3, <2>4, <2>5 DEF AnswersCore
<1> QED
  BY <1>2, <1>3 DEF Submit

LEMMA AnswersWaitsEnd ==
    ASSUME AnswersInv, NEW x \in Call, TimesOut(x) \/ GivenUp(x)
    PROVE  AnswersCore'
<1> USE DEF AnswersInv
<1>1. /\ pending' \subseteq pending
      /\ UNCHANGED <<up, down, link, busy, running, host, nextReq, req, executed>>
  BY DEF TimesOut, GivenUp, netVars, clientVars, slotVars
<1>2. AnswersFit' /\ TasksHaveTheirWay'
  BY <1>1 DEF TimesOut, GivenUp, AnswersFit, TasksHaveTheirWay, TypeOK
<1>3. AnswersTrue'
  BY <1>1 DEF AnswersTrue, TrueAnswer
<1> QED
  BY <1>1, <1>2, <1>3, QuietCarried, ShrinkingStep DEF NoHostNobodyWaits

\* What is sent to the PC for a tablet carries no call.
LEMMA AnswersTabletSends ==
    ASSUME AnswersInv, NEW f \in RelayFrame, f.kind # "call",
           down' = down \/ down' = Down(<<f>>),
           UNCHANGED <<up, link, busy, running, host, callVars>>
    PROVE  AnswersCore'
<1> USE DEF AnswersInv
<1>1. ASSUME NEW x \in Call, Carried(x)'
      PROVE  Carried(x)
  <2>1. CASE \E i \in 1 .. Len(down'[link]) : down'[link][i] = CallFrame(x)
    <3>1. CASE down' = down
      BY <1>1, <2>1, <3>1 DEF Carried
    <3>2. CASE down' = Down(<<f>>)
      <4>1. PICK i \in 1 .. Len(Down(<<f>>)[link]) :
                Down(<<f>>)[link][i] = CallFrame(x)
        BY <2>1, <3>2
      <4>2. <<f>> \in Seq(RelayFrame) /\ link \in Conn
        BY <1>1 DEF Carried, TypeOK
      <4>3. \A j \in 1 .. Len(<<f>>) : <<f>>[j] # CallFrame(x)
        BY DEF CallFrame
      <4>4. \E j \in 1 .. Len(down[link]) : down[link][j] = CallFrame(x)
        BY <4>1, <4>2, <4>3, SentDown
      <4> QED
        BY <1>1, <4>4 DEF Carried
    <3> QED
      BY <3>1, <3>2
  <2>2. CASE busy' = x \/ running'[x] = "task"
    BY <1>1, <2>2 DEF Carried
  <2> QED
    BY <1>1, <2>1, <2>2 DEF Carried, CallFrame
<1>2. AnswersTrue' /\ TasksHaveTheirWay'
  BY QuietTruth DEF TasksHaveTheirWay, callVars
<1> QED
  BY <1>1, <1>2, QuietStep DEF callVars

LEMMA AnswersTablets ==
    ASSUME AnswersInv, NEW s \in Session,
           \/ Identify(s) \/ TakeOver(s) \/ PageShows(s) \/ ForwardScore(s)
    PROVE  AnswersCore'
<1> USE DEF AnswersInv
<1>1. UNCHANGED <<up, link, busy, running, host, callVars>>
  BY DEF Identify, TakeOver, PageShows, ForwardScore, netVars, clientVars,
     slotVars
<1>2. CASE Identify(s) \/ TakeOver(s) \/ PageShows(s)
  <2>1. ConnectedFrame \in RelayFrame /\ ConnectedFrame.kind # "call"
    BY FramesAreTyped DEF ConnectedFrame
  <2>2. down' = down \/ down' = Down(<<ConnectedFrame>>)
    BY <1>2 DEF Identify, TakeOver, PageShows, Holds, netVars
  <2> QED
    BY <1>1, <2>1, <2>2, AnswersTabletSends
<1>3. CASE ForwardScore(s)
  <2>1. courtScore' \in Stand
    BY <1>3 DEF ForwardScore, Stand
  <2>2. StandFrame(courtScore') \in RelayFrame
        /\ StandFrame(courtScore').kind # "call"
    BY <2>1, FramesAreTyped DEF StandFrame
  <2>3. down' = Down(<<StandFrame(courtScore')>>)
    BY <1>3 DEF ForwardScore
  <2> QED
    BY <1>1, <2>2, <2>3, AnswersTabletSends
<1> QED
  BY <1>2, <1>3

LEMMA AnswersLeave ==
    ASSUME AnswersInv, NEW s \in Session, Leave(s)
    PROVE  AnswersCore'
<1> USE DEF AnswersInv
<1>1. UNCHANGED <<up, down, link, busy, running, host, pending, call, req, executed>>
  BY DEF Leave, netVars, clientVars
<1>2. TasksHaveTheirWay' /\ AnswersFit'
  BY <1>1 DEF TasksHaveTheirWay, AnswersFit
<1>3. CASE host = NoConn
  BY <1>1, <1>2, <1>3, HostlessStep DEF NoHostNobodyWaits
<1>4. CASE host # NoConn
  <2>1. nextReq' = nextReq
    BY <1>1, <1>4 DEF Leave, TidyUp
  <2> QED
    BY <1>1, <1>2, <2>1, QuietCarried, QuietTruth, QuietStep
<1> QED
  BY <1>3, <1>4

LEMMA AnswersStep == AnswersInv /\ [Next]_vars => AnswersInv'
<1> SUFFICES ASSUME AnswersInv, [Next]_vars PROVE AnswersCore'
  BY TypeStep DEF AnswersInv, AnswersCore
<1>1. CASE UNCHANGED vars \/ PcMatch \/ PcCounts
  <2>1. UNCHANGED <<up, down, link, busy, running, host, pending, nextReq, req,
                   call, executed>>
    BY <1>1 DEF vars, PcMatch, PcCounts, netVars, clientVars, slotVars, callVars
  <2>2. TasksHaveTheirWay'
    BY <2>1 DEF AnswersInv, TasksHaveTheirWay
  <2> QED
    BY <2>1, <2>2, QuietCarried, QuietTruth, QuietStep DEF AnswersInv
<1>2. CASE \E c \in Conn : RelayDrops(c) \/ SupersededSpeaks(c)
  BY <1>2, AnswersHostConnEnds DEF RelayDrops, SupersededSpeaks
<1> QED
  BY <1>1, <1>2, AnswersNetwork, AnswersPcSends, AnswersPcReceives,
     AnswersPcAnswers, AnswersArrive, AnswersSubmit, AnswersWaitsEnd,
     AnswersTablets, AnswersLeave DEF Next, PcStep, RelayStep

LEMMA AnswersInit == Init => AnswersInv
<1> SUFFICES ASSUME Init PROVE AnswersInv
  OBVIOUS
<1>1. TypeOK
  BY TypeInit
<1>2. \A x \in Call : ~Carried(x)
  BY DEF Init, Carried
<1> QED
  BY <1>1, <1>2 DEF Init, AnswersInv, NumbersApart, AnswersTrue,
     NoHostNobodyWaits, TasksHaveTheirWay, AnswersFit

\* A call is answered by the PC only if the PC has executed it, through any
\* number of connections, timeouts and namespaces that start their numbers
\* afresh (next_req, result, tl_forward, handle_host_frame).
THEOREM AnswersFitTheirCalls == Spec => []AnswersFit
<1>1. Spec => []AnswersInv
  BY AnswersInit, AnswersStep, PTL DEF Spec
<1>2. AnswersInv => AnswersFit
  BY DEF AnswersInv
<1> QED
  BY <1>1, <1>2, PTL
=============================================================================
