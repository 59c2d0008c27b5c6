-------------------------- MODULE LiveTickerProofs --------------------------
(* Theorems about LiveTicker, for every number of matches, courts and starts *)
(* of the sync, and every budget of troubles.                                *)
EXTENDS LiveTicker, TLAPS

-----------------------------------------------------------------------------
(* The score queues. *)

\* busy holds the courts that have a worker, exactly.
QueueInv ==
    /\ workers \subseteq [queue : Queue, court : Court, sending : Message]
    /\ pending \in [Queue \X Court -> Message]
    /\ \A q \in Queue, c \in Court :
        pending[<<q, c>>] # Nothing => <<q, c>> \in busy
    /\ \A q \in Queue, c \in Court :
        <<q, c>> \in busy <=> \E w \in workers : w.queue = q /\ w.court = c
    /\ \A v, w \in workers :
        v.queue = w.queue /\ v.court = w.court => v = w

LEMMA StandIsMessage ==
    ASSUME NEW m \in Match, NEW n \in Stand
    PROVE  Nothing \in Message /\ Tupdate(m, n) \in Message
BY DEF Nothing, Tupdate, Message

LEMMA QueueByPoint ==
    ASSUME QueueInv, NEW c \in Court, NEW m \in Match, NEW n \in Stand,
           NEW q \in Queue, HandleScore(c, m, n, q)
    PROVE  QueueInv'
<1> DEFINE new == [queue |-> q, court |-> c, sending |-> Nothing]
<1>1. new \in [queue : Queue, court : Court, sending : Message]
  BY StandIsMessage
<1>2. pending' = [pending EXCEPT ![<<q, c>>] = Tupdate(m, n)]
      /\ busy' = busy \cup {<<q, c>>}
      /\ workers' = IF <<q, c>> \in busy THEN workers ELSE workers \cup {new}
  BY DEF HandleScore
<1>3. pending' \in [Queue \X Court -> Message]
  BY <1>2, StandIsMessage DEF QueueInv
<1>4. \A r \in Queue, d \in Court : <<r, d>> # <<q, c>> =>
        pending'[<<r, d>>] = pending[<<r, d>>]
  BY <1>2 DEF QueueInv
<1>5. \A r \in Queue, d \in Court :
        <<r, d>> \in busy' <=> <<r, d>> \in busy \/ (r = q /\ d = c)
  BY <1>2
<1>6. new.queue = q /\ new.court = c
  OBVIOUS
<1>7. CASE <<q, c>> \in busy
  <2>1. workers' = workers
    BY <1>2, <1>7
  <2> QED
    BY <1>3, <1>4, <1>5, <1>7, <2>1 DEF QueueInv
<1>8. CASE <<q, c>> \notin busy
  <2>1. workers' = workers \cup {new}
    BY <1>2, <1>8
  <2>2. \A w \in workers : ~(w.queue = q /\ w.court = c)
    BY <1>8 DEF QueueInv
  <2> HIDE DEF new
  <2>3. \A v, w \in workers' : v.queue = w.queue /\ v.court = w.court => v = w
    BY <1>6, <2>1, <2>2 DEF QueueInv
  <2>4. \A r \in Queue, d \in Court :
          <<r, d>> \in busy' <=> \E w \in workers' : w.queue = r /\ w.court = d
    <3> SUFFICES ASSUME NEW r \in Queue, NEW d \in Court
                 PROVE  <<r, d>> \in busy'
                          <=> \E w \in workers' : w.queue = r /\ w.court = d
      OBVIOUS
    <3>1. (\E w \in workers' : w.queue = r /\ w.court = d)
            <=> (\E w \in workers : w.queue = r /\ w.court = d)
                  \/ (r = q /\ d = c)
      BY <1>6, <2>1
    <3>2. <<r, d>> \in busy <=> \E w \in workers : w.queue = r /\ w.court = d
      BY DEF QueueInv
    <3>3. <<r, d>> \in busy' <=> <<r, d>> \in busy \/ (r = q /\ d = c)
      BY <1>5
    <3> QED
      BY <3>1, <3>2, <3>3
  <2>5. workers' \subseteq [queue : Queue, court : Court, sending : Message]
    BY <1>1, <2>1 DEF QueueInv
  <2>6. \A r \in Queue, d \in Court :
          pending'[<<r, d>>] # Nothing => <<r, d>> \in busy'
    BY <1>4, <1>5 DEF QueueInv
  <2> QED
    BY <1>3, <2>3, <2>4, <2>5, <2>6 DEF QueueInv
<1> QED
  BY <1>7, <1>8

LEMMA QueueByWorker ==
    ASSUME QueueInv, NEW w \in workers,
           WorkerEnds(w) \/ WorkerTakes(w) \/ WorkerSent(w)
    PROVE  QueueInv'
<1>1. w.queue \in Queue /\ w.court \in Court
  BY DEF QueueInv
<1>2. CASE WorkerEnds(w)
  <2>1. /\ pending' = pending /\ workers' = workers \ {w}
        /\ busy' = busy \ {<<w.queue, w.court>>}
        /\ pending[<<w.queue, w.court>>] = Nothing
    BY <1>2 DEF WorkerEnds, WorkerIs
  <2>2. \A q \in Queue, c \in Court :
          <<q, c>> \in busy' <=> <<q, c>> \in busy /\ ~(q = w.queue /\ c = w.court)
    BY <2>1
  <2> QED
    BY <1>1, <2>1, <2>2 DEF QueueInv
<1>3. ASSUME NEW v \in [queue : Queue, court : Court, sending : Message],
             v.queue = w.queue, v.court = w.court,
             workers' = (workers \ {w}) \cup {v}, busy' = busy,
             pending' \in [Queue \X Court -> Message],
             \A q \in Queue, c \in Court :
                pending'[<<q, c>>] # Nothing => pending[<<q, c>>] # Nothing
      PROVE  QueueInv'
  <2>1. \A q \in Queue, c \in Court :
          (\E x \in workers' : x.queue = q /\ x.court = c)
            <=> (\E x \in workers : x.queue = q /\ x.court = c)
    BY <1>3
  <2>2. \A x, y \in workers' : x.queue = y.queue /\ x.court = y.court => x = y
    BY <1>3 DEF QueueInv
  <2> QED
    BY <1>3, <2>1, <2>2 DEF QueueInv
<1>4. CASE WorkerTakes(w)
  <2> DEFINE next == pending[<<w.queue, w.court>>]
             v == IF Stale(w.court, next.match) THEN w
                  ELSE [w EXCEPT !.sending = next]
  <2>1. next \in Message /\ Nothing \in Message
    BY <1>1 DEF QueueInv, Message, Nothing
  <2>2. /\ v \in [queue : Queue, court : Court, sending : Message]
        /\ v.queue = w.queue /\ v.court = w.court
    BY <2>1 DEF QueueInv
  <2>3. /\ pending' = [pending EXCEPT ![<<w.queue, w.court>>] = Nothing]
        /\ workers' = (workers \ {w}) \cup {v} /\ busy' = busy
    BY <1>4 DEF WorkerTakes, WorkerIs
  <2>4. pending' \in [Queue \X Court -> Message]
        /\ \A q \in Queue, c \in Court :
                pending'[<<q, c>>] # Nothing => pending[<<q, c>>] # Nothing
    BY <2>1, <2>3 DEF QueueInv
  <2> HIDE DEF v
  <2> QED
    BY <1>3, <2>2, <2>3, <2>4
<1>5. CASE WorkerSent(w)
  <2> DEFINE v == [w EXCEPT !.sending = Nothing]
  <2>1. Nothing \in Message
    BY DEF Message, Nothing
  <2>2. /\ v \in [queue : Queue, court : Court, sending : Message]
        /\ v.queue = w.queue /\ v.court = w.court
    BY <2>1 DEF QueueInv
  <2>3. pending' = pending /\ workers' = (workers \ {w}) \cup {v} /\ busy' = busy
    BY <1>5 DEF WorkerSent, WorkerIs
  <2> HIDE DEF v
  <2> QED
    BY <1>3, <2>2, <2>3 DEF QueueInv
<1> QED
  BY <1>2, <1>4, <1>5

\* A queued stand has a worker, and one at most works for a court
\* (ScorePushQueue: einstellen and naechster under one lock).
THEOREM StandsAreServed == Spec => []QueueServed
<1>1. Init => QueueInv
  BY DEF Init, QueueInv, Message, Nothing
<1>2. ASSUME QueueInv, [Next]_vars
      PROVE  QueueInv'
  <2>1. CASE \E c \in Court, m \in Match, n \in Stand, q \in Queue :
                HandleScore(c, m, n, q)
    BY <1>2, <2>1, QueueByPoint
  <2>2. CASE WorkerStep
    BY <1>2, <2>2, QueueByWorker DEF WorkerStep
  <2>3. CASE UNCHANGED <<pending, busy, workers>>
    BY <1>2, <2>3 DEF QueueInv
  <2> QED
    BY <1>2, <2>1, <2>2, <2>3 DEF Next, BtpChanges, BtpIs, BtpCloses,
       BtpAssigns, BtpTypes, BtpEnds, BtpCorrects, BtpReopens, LateArrives,
       SyncStep, Fetch, Publish, CycleEnds, PushSucceeds, PushFails,
       MinutePasses, NewEngine, ClearCourt, MarkExpires, CallMit, Retract,
       CallsAre, queueVars, vars
<1>3. QueueInv => QueueServed
  BY DEF QueueInv, QueueServed
<1> QED
  BY <1>1, <1>2, <1>3, PTL DEF Spec

-----------------------------------------------------------------------------
(* The marks of finished matches. *)

\* The courts of a snapshot that is about to be published have no mark.
MarksInv ==
    /\ phase = "fetched" =>
        \A c \in Court : MatchOn(snap, c) # NoMatch => finalized[c] = NoMatch
    /\ RunningIsNotFinal

\* No running match counts as finished (track_scorekeepers, clear_finalized).
THEOREM RunningMatchIsNotFinal == Spec => []RunningIsNotFinal
<1>1. Init => MarksInv
  BY DEF Init, MarksInv, RunningIsNotFinal
<1>2. ASSUME MarksInv, [Next]_vars
      PROVE  MarksInv'
  <2>1. ASSUME NEW s, Fetch(s)
        PROVE  MarksInv'
    <3>1. CASE Suspects(s)
      BY <1>2, <2>1, <3>1 DEF Fetch, Suspects, MarksInv, RunningIsNotFinal,
         MatchOn, OnCourt
    <3>2. CASE ~Suspects(s)
      BY <2>1, <3>2 DEF Fetch, Marks, ClearsMark, MarksInv, RunningIsNotFinal,
         MatchOn, OnCourt
    <3> QED
      BY <3>1, <3>2
  <2>2. CASE Publish
    BY <1>2, <2>2 DEF Publish, MarksInv, RunningIsNotFinal, MatchOn, OnCourt
  <2>3. CASE \E c \in Court : MarkExpires(c)
    BY <1>2, <2>3 DEF MarkExpires, guardVars, pushVars, MarksInv,
       RunningIsNotFinal, MatchOn, OnCourt
  <2>4. CASE NewEngine
    BY <1>2, <2>4 DEF NewEngine, tabletVars, MarksInv, RunningIsNotFinal
  <2>5. CASE PushSucceeds \/ PushFails
    BY <1>2, <2>5 DEF PushSucceeds, PushFails, CycleEnds, tabletVars,
       guardVars, MarksInv, RunningIsNotFinal, MatchOn, OnCourt
  <2>6. CASE UNCHANGED <<known, finalized, phase, snap, seen>>
    BY <1>2, <2>6 DEF MarksInv, RunningIsNotFinal, MatchOn, OnCourt
  <2> QED
    BY <1>2, <2>1, <2>2, <2>3, <2>4, <2>5, <2>6 DEF Next, BtpChanges, BtpIs,
       BtpCloses, BtpAssigns, BtpTypes, BtpEnds, BtpCorrects, BtpReopens,
       LateArrives, WorkerStep, WorkerEnds, WorkerTakes, WorkerSent, SyncStep,
       HandleScore, ClearCourt, MinutePasses, CallMit, Retract, CallsAre,
       tabletVars, guardVars, pushVars, vars
<1>3. MarksInv => RunningIsNotFinal
  BY DEF MarksInv
<1> QED
  BY <1>1, <1>2, <1>3, PTL DEF Spec
-----------------------------------------------------------------------------
(* Types. *)

LEMMA EmptyIsSnapshot == Empty \in Snapshot /\ DOMAIN Empty = {}
BY DEF Snapshot, Empty

LEMMA DomainInMatch ==
    ASSUME NEW s \in Snapshot
    PROVE  /\ DOMAIN s \subseteq Match
           /\ \A m \in DOMAIN s : s[m] \in Entry
BY EmptyIsSnapshot DEF Snapshot

LEMMA MatchOnIsMatch ==
    ASSUME NEW s \in Snapshot, NEW c \in Court
    PROVE  MatchOn(s, c) \in Match \cup {NoMatch}
BY DomainInMatch DEF MatchOn, OnCourt

LEMMA ChangedIsSnapshot ==
    ASSUME NEW s \in Snapshot, NEW m \in DOMAIN s, NEW e \in Entry
    PROVE  [s EXCEPT ![m] = e] \in Snapshot
BY EmptyIsSnapshot DEF Snapshot

LEMMA EntryTypes ==
    ASSUME NEW e \in Entry, NEW n \in Stand, NEW c \in Court \cup {NoCourt},
           NEW b \in BOOLEAN
    PROVE  /\ [e EXCEPT !.sets = n] \in Entry
           /\ [e EXCEPT !.court = c] \in Entry
           /\ [e EXCEPT !.ended = b] \in Entry
           /\ [e EXCEPT !.ended = b, !.sets = n] \in Entry
           /\ [e EXCEPT !.sets = n, !.called = b] \in Entry
BY DEF Entry

LEMMA StampedIsSnapshot ==
    ASSUME NEW s \in Snapshot, session \in [Court -> Session]
    PROVE  Stamped(s) \in Snapshot
<1>1. ASSUME NEW m \in DOMAIN s
      PROVE  StandOf(s, m) \in Stand
  <2>1. s[m] \in Entry
    BY DomainInMatch
  <2>2. s[m].court # NoCourt => session[s[m].court] \in Session
    BY <2>1 DEF Entry
  <2>3. 0 \in Stand
    BY Bounds DEF Stand
  <2>4. \A x \in Session : x.stand \in Stand
    BY <2>3 DEF Session, NoSession
  <2> QED
    BY <2>1, <2>2, <2>4 DEF StandOf, Entry
<1>2. \A m \in DOMAIN s :
        [s[m] EXCEPT !.sets = StandOf(s, m),
                     !.called = CallsAfter(s)[m] = "active"] \in Entry
  BY <1>1, DomainInMatch, EntryTypes
<1>3. CASE s = Empty
  BY <1>3, EmptyIsSnapshot DEF Stamped, Empty
<1>4. CASE DOMAIN s = Match
  BY <1>2, <1>4 DEF Stamped, Snapshot
<1> QED
  BY <1>3, <1>4 DEF Snapshot

LEMMA MessageTypes ==
    /\ Nothing \in Message
    /\ \A s \in Snapshot : Tset(s) \in Message /\ Tset(s) # Nothing
    /\ \A m \in Match, n \in Stand :
        Tupdate(m, n) \in Message /\ Tupdate(m, n) # Nothing
    /\ Gone # Nothing
BY DEF Message, Nothing, Tset, Tupdate, Gone

LEMMA AppliedIsSnapshot ==
    ASSUME shown \in Snapshot, NEW msg \in Message
    PROVE  Applied(msg) \in Snapshot
<1>1. CASE msg.kind = "tset"
  BY <1>1 DEF Applied, Message
<1>2. CASE msg.kind = "tupdate" /\ msg.match \in DOMAIN shown
  <2>1. msg.sets \in Stand
    BY <1>2 DEF Message
  <2>2. [shown[msg.match] EXCEPT !.sets = msg.sets] \in Entry
    BY <1>2, <2>1, DomainInMatch, EntryTypes
  <2> QED
    BY <1>2, <2>2, ChangedIsSnapshot DEF Applied
<1> QED
  BY <1>1, <1>2 DEF Applied

LEMMA DueNowIsMessage ==
    ASSUME NEW s \in Snapshot
    PROVE  DueNow(s) \in Message
<1>1. ASSUME Changed(s) # {}
      PROVE  Tupdate(CHOOSE m \in Changed(s) : TRUE,
                     s[CHOOSE m \in Changed(s) : TRUE].sets) \in Message
  BY <1>1, DomainInMatch, MessageTypes DEF Changed, OnCourt, Entry
<1> QED
  BY <1>1, MessageTypes DEF DueNow, Diff

LEMMA SpendKeepsBudget ==
    ASSUME budget \in Budget, NEW what \in {"points", "typed", "moves", "ends",
           "calls", "hiccups", "failures", "delays", "restarts"}, Spend(what)
    PROVE  budget' \in Budget
BY DEF Spend, Budget

LEMMA GivenUpTypes ==
    ASSUME TypeOK, NEW msg \in Message, GivenUp(msg)
    PROVE  /\ shown' \in Snapshot
           /\ late' \in Message \cup {Gone}
           /\ budget' \in Budget
BY AppliedIsSnapshot, SpendKeepsBudget DEF TypeOK, GivenUp, badhubVars

\* What happens in BTP reaches the program by its next poll only.
LEMMA BtpLeavesTheRest ==
    ASSUME BtpChanges
    PROVE  UNCHANGED <<hiccup, known, session, finalized, call, off, queueVars,
                       guardVars, pushVars, badhubVars>>
BY DEF BtpChanges, BtpCloses, BtpAssigns, BtpTypes, BtpEnds, BtpCorrects,
   BtpReopens, BtpIs

LEMMA TypeByBtp ==
    ASSUME TypeOK, BtpChanges
    PROVE  TypeOK'
<1>1. budget' \in Budget
  BY SpendKeepsBudget DEF TypeOK, BtpChanges, BtpCloses, BtpAssigns, BtpTypes,
     BtpEnds, BtpCorrects, BtpReopens
<1>2. btp' \in Snapshot
  <2>1. CASE BtpCloses
    BY <2>1, EmptyIsSnapshot DEF BtpCloses, BtpIs
  <2>2. ASSUME NEW m \in Match, NEW c \in Court \cup {NoCourt}, BtpAssigns(m, c)
        PROVE  btp' \in Snapshot
    <3>1. m \in DOMAIN btp
      BY <2>2 DEF BtpAssigns, OnCourt, Scheduled
    <3>2. btp[m] \in Entry
      BY <3>1, DomainInMatch DEF TypeOK
    <3>3. btp' = [btp EXCEPT ![m] = [btp[m] EXCEPT !.court = c]]
      BY <2>2 DEF BtpAssigns, BtpIs
    <3>4. [btp[m] EXCEPT !.court = c] \in Entry
      BY <3>2 DEF Entry
    <3> QED
      BY <3>1, <3>3, <3>4, ChangedIsSnapshot DEF TypeOK
  <2>3. ASSUME NEW m \in Match, NEW n \in Stand,
               BtpTypes(m, n) \/ BtpCorrects(m, n)
        PROVE  btp' \in Snapshot
    <3>1. m \in DOMAIN btp
      BY <2>3 DEF BtpTypes, BtpCorrects, OnCourt, Ended
    <3>2. btp[m] \in Entry
      BY <3>1, DomainInMatch DEF TypeOK
    <3>3. btp' = [btp EXCEPT ![m] = [btp[m] EXCEPT !.sets = n]]
      BY <2>3 DEF BtpTypes, BtpCorrects, BtpIs
    <3>4. [btp[m] EXCEPT !.sets = n] \in Entry
      BY <3>2 DEF Entry
    <3> QED
      BY <3>1, <3>3, <3>4, ChangedIsSnapshot DEF TypeOK
  <2>4. ASSUME NEW m \in Match, NEW n \in Stand, NEW byHost \in BOOLEAN,
               BtpEnds(m, n, byHost)
        PROVE  btp' \in Snapshot
    <3>1. m \in DOMAIN btp
      BY <2>4 DEF BtpEnds, OnCourt
    <3>2. btp[m] \in Entry
      BY <3>1, DomainInMatch DEF TypeOK
    <3>3. btp' = [btp EXCEPT ![m] = [btp[m] EXCEPT !.ended = TRUE, !.sets = n]]
      BY <2>4, <3>1, <3>2, DomainInMatch DEF BtpEnds, BtpIs, TypeOK, Entry
    <3>4. [btp[m] EXCEPT !.ended = TRUE, !.sets = n] \in Entry
      BY <3>2 DEF Entry
    <3> QED
      BY <3>1, <3>3, <3>4, ChangedIsSnapshot DEF TypeOK
  <2>5. ASSUME NEW m \in Match, BtpReopens(m)
        PROVE  btp' \in Snapshot
    <3>1. m \in DOMAIN btp
      BY <2>5 DEF BtpReopens, Ended
    <3>2. btp[m] \in Entry
      BY <3>1, DomainInMatch DEF TypeOK
    <3>3. btp' = [btp EXCEPT ![m] = [btp[m] EXCEPT !.ended = FALSE]]
      BY <2>5 DEF BtpReopens, BtpIs
    <3>4. [btp[m] EXCEPT !.ended = FALSE] \in Entry
      BY <3>2 DEF Entry
    <3> QED
      BY <3>1, <3>3, <3>4, ChangedIsSnapshot DEF TypeOK
  <2> QED
    BY <2>1, <2>2, <2>3, <2>4, <2>5 DEF BtpChanges
<1>3. clearing' \subseteq Court
  <2>1. ASSUME NEW m \in Match, NEW n \in Stand, NEW byHost \in BOOLEAN,
               BtpEnds(m, n, byHost)
        PROVE  clearing' \subseteq Court
    <3>1. btp[m] \in Entry /\ btp[m].court # NoCourt
      BY <2>1, DomainInMatch DEF BtpEnds, OnCourt, TypeOK
    <3> QED
      BY <2>1, <3>1 DEF BtpEnds, TypeOK, Entry
  <2>2. CASE BtpCloses
    BY <2>2 DEF BtpCloses, TypeOK
  <2>3. ASSUME NEW m \in Match,
               \/ \E c \in Court \cup {NoCourt} : BtpAssigns(m, c)
               \/ \E n \in Stand : BtpTypes(m, n) \/ BtpCorrects(m, n)
               \/ BtpReopens(m)
        PROVE  clearing' \subseteq Court
    BY <2>3 DEF BtpAssigns, BtpTypes, BtpCorrects, BtpReopens, TypeOK
  <2> QED
    BY <2>1, <2>2, <2>3 DEF BtpChanges
<1> QED
  BY <1>1, <1>2, <1>3, BtpLeavesTheRest DEF TypeOK, queueVars, guardVars,
     pushVars, badhubVars

LEMMA TypeByPoint ==
    ASSUME TypeOK, NEW c \in Court, NEW m \in Match, NEW n \in Stand,
           NEW q \in Queue, HandleScore(c, m, n, q)
    PROVE  TypeOK'
<1>1. budget' \in Budget
  BY SpendKeepsBudget DEF TypeOK, HandleScore
<1>2. session' \in [Court -> Session]
  BY DEF TypeOK, HandleScore, Session
<1>3. pending' \in [Queue \X Court -> Message]
  BY MessageTypes DEF TypeOK, HandleScore
<1>4. busy' \subseteq Queue \X Court
      /\ workers' \subseteq [queue : Queue, court : Court, sending : Message]
  BY MessageTypes DEF TypeOK, HandleScore
<1> QED
  BY <1>1, <1>2, <1>3, <1>4 DEF TypeOK, HandleScore, guardVars, pushVars,
     badhubVars

LEMMA TypeByCourt ==
    ASSUME TypeOK, NEW c \in Court, ClearCourt(c) \/ MarkExpires(c)
    PROVE  TypeOK'
<1>1. session' \in [Court -> Session] /\ clearing' \subseteq Court
      /\ finalized' \in [Court -> Match \cup {NoMatch}]
  BY DEF TypeOK, ClearCourt, MarkExpires, Session
<1> QED
  BY <1>1 DEF TypeOK, ClearCourt, MarkExpires, queueVars, guardVars, pushVars,
     badhubVars

LEMMA TypeByCalls ==
    ASSUME TypeOK, NEW m \in Match, CallMit(m) \/ Retract(m)
    PROVE  TypeOK'
<1>1. PICK what \in {"none", "active"} : CallsAre(m, what)
  BY DEF CallMit, Retract
<1>2. budget' \in Budget
  BY <1>1, SpendKeepsBudget DEF TypeOK, CallsAre
<1>3. /\ call' \in [Match -> {"none", "active", "parked"}]
      /\ off' \in [Match -> 0 .. DEASSIGN_CONFIRM_POLLS - 1]
      /\ \A x \in Match : off'[x] > 0 => call'[x] = "parked"
  BY <1>1, Bounds DEF TypeOK, CallsAre
<1> QED
  BY <1>1, <1>2, <1>3 DEF TypeOK, CallsAre, queueVars, guardVars, pushVars,
     badhubVars

LEMMA TypeByBadhub ==
    ASSUME TypeOK, LateArrives \/ MinutePasses \/ NewEngine
    PROVE  TypeOK'
<1>1. CASE LateArrives
  <2>1. shown' \in Snapshot /\ late' = Gone
    BY <1>1, AppliedIsSnapshot DEF TypeOK, LateArrives
  <2> QED
    BY <1>1, <2>1 DEF TypeOK, LateArrives, tabletVars, queueVars, guardVars,
       pushVars
<1>2. CASE MinutePasses
  BY <1>2 DEF TypeOK, MinutePasses, tabletVars, queueVars, guardVars, badhubVars
<1>3. CASE NewEngine
  <2>1. budget' \in Budget
    BY <1>3, SpendKeepsBudget DEF TypeOK, NewEngine
  <2>2. shown' \in Snapshot /\ late' \in Message \cup {Gone}
    BY <1>3, AppliedIsSnapshot DEF TypeOK, NewEngine, badhubVars
  <2>3. queue' \in Queue
    BY <1>3, Bounds DEF TypeOK, NewEngine, Queue
  <2>4. suspect' \in 0 .. EMPTY_CONFIRM_POLLS - 1 /\ ~(suspect' > 0)
    BY <1>3, Bounds DEF NewEngine
  <2>5. oncourtPrev' \in [Court -> Match \cup {NoMatch}]
    BY <1>3 DEF NewEngine
  <2>6. /\ phase' = "idle" /\ snap' = NoSnapshot /\ update' = Nothing
        /\ lastPushed' = NoSnapshot /\ aged' \in BOOLEAN /\ seen' \in BOOLEAN
    BY <1>3 DEF NewEngine
  <2>7. UNCHANGED <<btp, hiccup, tabletVars, pending, busy, workers>>
    BY <1>3 DEF NewEngine
  <2> QED
    BY <2>1, <2>2, <2>3, <2>4, <2>5, <2>6, <2>7, MessageTypes DEF TypeOK,
       tabletVars
<1> QED
  BY <1>1, <1>2, <1>3

LEMMA TypeByWorker ==
    ASSUME TypeOK, NEW w \in workers,
           WorkerEnds(w) \/ WorkerTakes(w) \/ WorkerSent(w)
    PROVE  TypeOK'
<1> USE MessageTypes
<1>1. w \in [queue : Queue, court : Court, sending : Message]
  BY DEF TypeOK
<1>2. CASE WorkerEnds(w)
  BY <1>2 DEF TypeOK, WorkerEnds, WorkerIs, tabletVars, guardVars, pushVars,
     badhubVars
<1>3. CASE WorkerTakes(w)
  <2>1. pending[<<w.queue, w.court>>] \in Message
    BY <1>1 DEF TypeOK
  <2>2. /\ pending' \in [Queue \X Court -> Message]
        /\ workers' \subseteq [queue : Queue, court : Court, sending : Message]
    BY <1>1, <1>3, <2>1 DEF TypeOK, WorkerTakes, WorkerIs
  <2> QED
    BY <1>3, <2>2 DEF TypeOK, WorkerTakes, tabletVars, guardVars, pushVars,
       badhubVars
<1>4. CASE WorkerSent(w)
  <2>1. workers' \subseteq [queue : Queue, court : Court, sending : Message]
    BY <1>1, <1>4 DEF TypeOK, WorkerSent, WorkerIs
  <2>2. /\ shown' \in Snapshot /\ late' \in Message \cup {Gone}
        /\ budget' \in Budget
    BY <1>1, <1>4, AppliedIsSnapshot, GivenUpTypes DEF TypeOK, WorkerSent
  <2> QED
    BY <1>4, <2>1, <2>2 DEF TypeOK, WorkerSent, tabletVars, guardVars, pushVars
<1> QED
  BY <1>2, <1>3, <1>4

LEMMA TypeBySync ==
    ASSUME TypeOK, SyncStep
    PROVE  TypeOK'
<1>1. ASSUME NEW s \in {btp, Empty}, Fetch(s)
      PROVE  TypeOK'
  <2>1. s \in Snapshot
    BY EmptyIsSnapshot DEF TypeOK
  <2>2. hiccup' \in BOOLEAN /\ budget' \in Budget
    BY <1>1, SpendKeepsBudget DEF TypeOK, Fetch
  <2>3. /\ suspect' \in 0 .. EMPTY_CONFIRM_POLLS - 1 /\ seen' \in BOOLEAN
        /\ suspect' > 0 => seen'
    BY <1>1, Bounds DEF TypeOK, Fetch, Suspects, SuspectPolls, Seen
  <2>4. finalized' \in [Court -> Match \cup {NoMatch}]
    BY <1>1, <2>1, DomainInMatch DEF TypeOK, Fetch, Marks, Ended
  <2>5. oncourtPrev' \in [Court -> Match \cup {NoMatch}]
    BY <1>1, <2>1, MatchOnIsMatch DEF TypeOK, Fetch
  <2>6. /\ phase' \in {"idle", "fetched"} /\ snap' \in Snapshot \cup {NoSnapshot}
        /\ phase' = "idle" <=> snap' = NoSnapshot
    BY <1>1, <2>1, NoSnapshotIsNone DEF TypeOK, Fetch
  <2> QED
    BY <1>1, <2>2, <2>3, <2>4, <2>5, <2>6 DEF TypeOK, Fetch, queueVars,
       badhubVars
<1>2. CASE Publish
  <2> DEFINE s == Stamped(snap)
  <2>1. snap \in Snapshot /\ snap # NoSnapshot
    BY <1>2 DEF TypeOK, Publish
  <2>2. s \in Snapshot /\ s # NoSnapshot
    BY <2>1, StampedIsSnapshot, NoSnapshotIsNone DEF TypeOK
  <2>3. DueNow(s) \in Message
    BY <2>2, DueNowIsMessage
  <2>4. /\ call' \in [Match -> {"none", "active", "parked"}]
        /\ off' \in [Match -> 0 .. DEASSIGN_CONFIRM_POLLS - 1]
        /\ \A m \in Match : off'[m] > 0 => call'[m] = "parked"
    BY <1>2, Bounds DEF TypeOK, Publish, CallsAfter, OffAfter, Revives,
       OnCourt, Scheduled
  <2> HIDE DEF s
  <2>5. CASE DueNow(s) = Nothing
    <3>1. /\ lastPushed' = s /\ snap' = NoSnapshot /\ phase' = "idle"
          /\ update' = update
      BY <1>2, <2>5 DEF Publish, s
    <3> QED
      BY <1>2, <2>1, <2>2, <2>4, <3>1 DEF TypeOK, Publish, queueVars,
         guardVars, badhubVars
  <2>6. CASE DueNow(s) # Nothing
    <3>1. /\ snap' = s /\ update' = DueNow(s) /\ phase' = "sending"
          /\ lastPushed' = lastPushed
      BY <1>2, <2>6 DEF Publish, s
    <3> QED
      BY <1>2, <2>1, <2>2, <2>3, <2>4, <2>6, <3>1 DEF TypeOK, Publish,
         queueVars, guardVars, badhubVars
  <2> QED
    BY <2>5, <2>6
<1>3. CASE PushSucceeds
  <2>1. shown' \in Snapshot
    BY <1>3, AppliedIsSnapshot DEF TypeOK, PushSucceeds
  <2> QED
    BY <1>3, <2>1, MessageTypes DEF TypeOK, PushSucceeds, CycleEnds,
       tabletVars, queueVars, guardVars
<1>4. CASE PushFails
  <2>1. /\ shown' \in Snapshot /\ late' \in Message \cup {Gone}
        /\ budget' \in Budget
    BY <1>4, GivenUpTypes DEF TypeOK, PushFails
  <2> QED
    BY <1>4, <2>1, MessageTypes DEF TypeOK, PushFails, BaseAfterFailure,
       CycleEnds, tabletVars, queueVars, guardVars
<1> QED
  BY <1>1, <1>2, <1>3, <1>4 DEF SyncStep

\* Every variable keeps its type, a suspicion is only held while there was a
\* snapshot, and the polls of a call only while it is parked.
THEOREM TypeCorrect == Spec => []TypeOK
<1>1. Init => TypeOK
  <2> SUFFICES ASSUME Init PROVE TypeOK
    OBVIOUS
  <2>1. btp \in Snapshot
    BY Bounds DEF Init, Snapshot, Entry, Stand
  <2>2. budget \in Budget
    BY Bounds DEF Init
  <2>3. /\ queue \in Queue
        /\ suspect \in 0 .. EMPTY_CONFIRM_POLLS - 1 /\ ~(suspect > 0)
    BY Bounds DEF Init, Queue
  <2>4. /\ call \in [Match -> {"none", "active", "parked"}]
        /\ off \in [Match -> 0 .. DEASSIGN_CONFIRM_POLLS - 1]
        /\ \A m \in Match : ~(off[m] > 0)
    BY Bounds DEF Init
  <2>5. /\ session \in [Court -> Session] /\ clearing \subseteq Court
        /\ finalized \in [Court -> Match \cup {NoMatch}]
        /\ oncourtPrev \in [Court -> Match \cup {NoMatch}]
    BY DEF Init, Session
  <2>6. /\ pending \in [Queue \X Court -> Message]
        /\ busy = {} /\ workers = {}
    BY MessageTypes DEF Init
  <2>7. /\ phase = "idle" /\ snap = NoSnapshot /\ update = Nothing
        /\ lastPushed = NoSnapshot /\ aged \in BOOLEAN /\ seen \in BOOLEAN
        /\ shown = Empty /\ late = Nothing /\ known = Empty /\ hiccup = FALSE
    BY DEF Init
  <2> QED
    BY <2>1, <2>2, <2>3, <2>4, <2>5, <2>6, <2>7, EmptyIsSnapshot, MessageTypes
    DEF TypeOK
<1>2. ASSUME TypeOK, [Next]_vars
      PROVE  TypeOK'
  <2>1. CASE UNCHANGED vars
    BY <1>2, <2>1 DEF TypeOK, vars, tabletVars, queueVars, guardVars,
       pushVars, badhubVars
  <2> QED
    BY <1>2, <2>1, TypeByBtp, TypeByPoint, TypeByCourt, TypeByCalls,
       TypeByBadhub, TypeByWorker, TypeBySync DEF Next, WorkerStep
<1> QED
  BY <1>1, <1>2, PTL DEF Spec

-----------------------------------------------------------------------------
(* What the loop compares with. *)

SameBase(s, t) == /\ CourtAssignment(s) = CourtAssignment(t)
                  /\ PreparationCalls(s) = PreparationCalls(t)

\* Workers send single stands only; the loop sends what it will compare with,
\* or one stand of it to a badhub that has the rest.
BaseInv ==
    /\ \A w \in workers : w.sending.kind # "tset"
    /\ \A x \in Queue \X Court : pending[x].kind # "tset"
    /\ phase = "sending" =>
        \/ update = Tset(snap)
        \/ /\ update.kind = "tupdate" /\ lastPushed # NoSnapshot
           /\ SameBase(lastPushed, snap)
    /\ BaseIsThere

LEMMA StandKeepsBase ==
    ASSUME shown \in Snapshot, NEW msg \in Message, msg.kind # "tset"
    PROVE  /\ SameBase(Applied(msg), shown)
           /\ DOMAIN Applied(msg) = DOMAIN shown
<1>1. CASE msg.kind = "tupdate" /\ msg.match \in DOMAIN shown
  <2> DEFINE t == [shown EXCEPT ![msg.match].sets = msg.sets]
  <2>1. Applied(msg) = t
    BY <1>1 DEF Applied
  <2>2. /\ DOMAIN t = DOMAIN shown
        /\ \A m \in DOMAIN shown : /\ t[m].court = shown[m].court
                                   /\ t[m].ended = shown[m].ended
                                   /\ t[m].called = shown[m].called
    BY DomainInMatch DEF Entry
  <2> HIDE DEF t
  <2>3. OnCourt(t) = OnCourt(shown) /\ PreparationCalls(t) = PreparationCalls(shown)
    BY <2>2 DEF OnCourt, PreparationCalls
  <2>4. CourtAssignment(t) = CourtAssignment(shown)
    BY <2>2, <2>3 DEF CourtAssignment, OnCourt
  <2> QED
    BY <2>1, <2>2, <2>3, <2>4 DEF SameBase
<1> QED
  BY <1>1 DEF Applied, SameBase

LEMMA BaseByWorker ==
    ASSUME TypeOK, BaseInv, NEW w \in workers,
           WorkerEnds(w) \/ WorkerTakes(w) \/ WorkerSent(w)
    PROVE  BaseInv'
<1>1. w.queue \in Queue /\ w.court \in Court /\ w.sending \in Message
  BY DEF TypeOK
<1>2. Nothing.kind # "tset" /\ Gone.kind # "tset" /\ Gone # Nothing
  BY DEF Nothing, Gone
<1>3. CASE WorkerEnds(w)
  BY <1>3 DEF BaseInv, BaseIsThere, WorkerEnds, WorkerIs, pushVars, badhubVars
<1>4. CASE WorkerTakes(w)
  <2> DEFINE next == pending[<<w.queue, w.court>>]
             v == IF Stale(w.court, next.match) THEN w
                  ELSE [w EXCEPT !.sending = next]
  <2>1. next.kind # "tset"
    BY <1>1 DEF BaseInv
  <2>2. v.sending.kind # "tset"
    BY <2>1 DEF BaseInv, TypeOK
  <2>3. /\ pending' = [pending EXCEPT ![<<w.queue, w.court>>] = Nothing]
        /\ workers' = (workers \ {w}) \cup {v}
        /\ UNCHANGED <<pushVars, badhubVars>>
    BY <1>4 DEF WorkerTakes, WorkerIs
  <2> HIDE DEF v
  <2>4. \A x \in Queue \X Court : pending'[x].kind # "tset"
    BY <1>2, <2>3 DEF BaseInv, TypeOK
  <2> QED
    BY <2>2, <2>3, <2>4 DEF BaseInv, BaseIsThere, pushVars, badhubVars
<1>5. CASE WorkerSent(w)
  <2> DEFINE v == [w EXCEPT !.sending = Nothing]
  <2>1. v.sending.kind # "tset"
    BY <1>2 DEF TypeOK
  <2>2. w.sending.kind # "tset" /\ w.sending # Nothing
    BY <1>5 DEF BaseInv, WorkerSent
  <2>3. /\ workers' = (workers \ {w}) \cup {v}
        /\ UNCHANGED <<pending, pushVars>>
    BY <1>5 DEF WorkerSent, WorkerIs
  <2> HIDE DEF v
  <2>4. \/ shown' = shown \/ shown' = Applied(w.sending)
    BY <1>5 DEF WorkerSent, GivenUp, badhubVars
  <2>5. late' = late \/ late' # Nothing
    BY <1>5, <2>2 DEF WorkerSent, GivenUp, badhubVars
  <2>6. SameBase(shown', shown)
    BY <1>1, <2>2, <2>4, StandKeepsBase DEF TypeOK, SameBase
  <2>7. BaseIsThere'
    BY <2>3, <2>5, <2>6 DEF BaseInv, BaseIsThere, SameBase, pushVars
  <2> QED
    BY <2>1, <2>3, <2>7 DEF BaseInv, pushVars
<1> QED
  BY <1>3, <1>4, <1>5

LEMMA BaseByPublish ==
    ASSUME TypeOK, BaseInv, Publish
    PROVE  BaseInv'
<1> DEFINE s == Stamped(snap)
<1>1. snap \in Snapshot
  BY DEF TypeOK, Publish
<1>2. s \in Snapshot
  BY <1>1, StampedIsSnapshot DEF TypeOK
<1>3. UNCHANGED <<pending, workers, shown, late>>
  BY DEF Publish, queueVars, badhubVars
<1>4. \/ DueNow(s) = Tset(s)
      \/ /\ lastPushed # NoSnapshot /\ SameBase(lastPushed, s)
         /\ DueNow(s) = Nothing \/ DueNow(s).kind = "tupdate"
  BY DEF DueNow, Diff, Differs, SameBase, Tupdate
<1> HIDE DEF s
<1>5. CASE DueNow(s) = Nothing
  <2>1. lastPushed' = s /\ phase' = "idle"
    BY <1>5 DEF Publish, s
  <2>2. lastPushed # NoSnapshot /\ SameBase(lastPushed, s)
    BY <1>2, <1>4, <1>5, MessageTypes
  <2> QED
    BY <1>3, <2>1, <2>2 DEF BaseInv, BaseIsThere, SameBase
<1>6. CASE DueNow(s) # Nothing
  <2>1. snap' = s /\ update' = DueNow(s) /\ lastPushed' = lastPushed
    BY <1>6 DEF Publish, s
  <2> QED
    BY <1>3, <1>4, <1>6, <2>1 DEF BaseInv, BaseIsThere, SameBase
<1> QED
  BY <1>5, <1>6

LEMMA BaseByPush ==
    ASSUME TypeOK, BaseInv, PushSucceeds \/ PushFails
    PROVE  BaseInv'
<1>1. CASE PushSucceeds
  <2>1. snap \in Snapshot /\ update \in Message
    BY <1>1 DEF TypeOK, PushSucceeds
  <2>2. /\ phase' = "idle" /\ lastPushed' = snap /\ shown' = Applied(update)
        /\ UNCHANGED <<pending, workers, late>>
    BY <1>1 DEF PushSucceeds, CycleEnds, queueVars
  <2>3. CASE update = Tset(snap)
    <3>1. Applied(update) = snap
      BY <2>3 DEF Applied, Tset
    <3> QED
      BY <2>2, <3>1 DEF BaseInv, BaseIsThere
  <2>4. CASE update.kind = "tupdate" /\ lastPushed # NoSnapshot
             /\ SameBase(lastPushed, snap)
    <3>1. SameBase(Applied(update), shown)
      BY <2>1, <2>4, StandKeepsBase DEF TypeOK
    <3> QED
      BY <2>2, <2>4, <3>1 DEF BaseInv, BaseIsThere, SameBase
  <2> QED
    BY <1>1, <2>3, <2>4 DEF BaseInv, PushSucceeds
<1>2. CASE PushFails
  BY <1>2 DEF PushFails, BaseAfterFailure, CycleEnds, queueVars, BaseInv,
     BaseIsThere
<1> QED
  BY <1>1, <1>2

LEMMA BaseInvHolds == Spec => []BaseInv
<1>1. Init => BaseInv
  BY DEF Init, BaseInv, BaseIsThere, Nothing
<1>2. ASSUME TypeOK, BaseInv, [Next]_vars
      PROVE  BaseInv'
  <2>1. ASSUME NEW c \in Court, NEW m \in Match, NEW n \in Stand, NEW q \in Queue,
               HandleScore(c, m, n, q)
        PROVE  BaseInv'
    <3>1. Nothing.kind # "tset" /\ Tupdate(m, n).kind # "tset"
      BY DEF Nothing, Tupdate
    <3>2. \A x \in Queue \X Court : pending'[x].kind # "tset"
      BY <1>2, <2>1, <3>1 DEF HandleScore, BaseInv, TypeOK
    <3>3. \A w \in workers' : w.sending.kind # "tset"
      BY <1>2, <2>1, <3>1 DEF HandleScore, BaseInv
    <3> QED
      BY <1>2, <2>1, <3>2, <3>3 DEF HandleScore, BaseInv, BaseIsThere,
         pushVars, badhubVars
  <2>2. CASE NewEngine
    BY <1>2, <2>2 DEF NewEngine, BaseInv, BaseIsThere
  <2>3. CASE LateArrives
    BY <1>2, <2>3 DEF LateArrives, BaseInv, BaseIsThere, queueVars, pushVars,
       Gone, Nothing
  <2>4. ASSUME NEW s \in {btp, Empty}, Fetch(s)
        PROVE  BaseInv'
    BY <1>2, <2>4 DEF Fetch, BaseInv, BaseIsThere, queueVars, badhubVars
  <2>5. CASE UNCHANGED <<pending, workers, phase, update, snap, lastPushed,
                         shown, late>>
    BY <1>2, <2>5 DEF BaseInv, BaseIsThere
  <2>6. CASE BtpChanges \/ MinutePasses \/ UNCHANGED vars
    BY <2>5, <2>6, BtpLeavesTheRest DEF MinutePasses, queueVars, pushVars,
       badhubVars, vars
  <2>7. ASSUME NEW c \in Court, ClearCourt(c) \/ MarkExpires(c)
        PROVE  BaseInv'
    BY <2>5, <2>7 DEF ClearCourt, MarkExpires, queueVars, pushVars, badhubVars
  <2>8. ASSUME NEW m \in Match, CallMit(m) \/ Retract(m)
         PROVE  BaseInv'
    BY <2>5, <2>8 DEF CallMit, Retract, CallsAre, queueVars, pushVars,
       badhubVars
  <2>9. CASE WorkerStep
    BY <1>2, <2>9, BaseByWorker DEF WorkerStep
  <2>10. CASE SyncStep
    BY <1>2, <2>4, <2>10, BaseByPublish, BaseByPush DEF SyncStep
  <2> QED
    BY <1>2, <2>1, <2>2, <2>3, <2>6, <2>9, <2>10, <2>7, <2>8 DEF Next
<1> QED
  BY <1>1, <1>2, TypeCorrect, PTL DEF Spec

\* A single stand is only sent to a badhub that has its match on the court:
\* after a failed push the base is dropped (on_failure).
THEOREM BaseStaysThere == Spec => []BaseIsThere
<1>1. BaseInv => BaseIsThere
  BY DEF BaseInv
<1> QED
  BY <1>1, BaseInvHolds, PTL

-----------------------------------------------------------------------------
(* Wrongly empty answers. *)

Full(s) == s \notin {Empty, NoSnapshot}

\* In the first engine's life: one empty answer at most is suspected, and only
\* an engine that has seen nothing but empty answers takes one over.
HiddenInv ==
    queue = 1 /\ btp # Empty =>
        /\ suspect > 0 => hiccup
        /\ seen /\ phase # "idle" => snap # Empty
        /\ ~seen => /\ known = Empty /\ ~Full(snap)
                    /\ late = Nothing => shown = Empty

LEMMA OnlyEmptyHasNothing ==
    ASSUME NEW s \in Snapshot, NEW t \in Snapshot, DOMAIN s = DOMAIN t
    PROVE  s = Empty <=> t = Empty
<1>1. ASSUME NEW x \in Snapshot, DOMAIN x = {}
      PROVE  x = Empty
  BY <1>1 DEF Snapshot, Empty
<1> QED
  BY <1>1, EmptyIsSnapshot

LEMMA NeverReopened ==
    ASSUME btp = Empty, BtpChanges
    PROVE  btp' = Empty
BY EmptyIsSnapshot DEF BtpChanges, BtpCloses, BtpAssigns, BtpTypes, BtpEnds,
   BtpCorrects, BtpReopens, BtpIs, OnCourt, Scheduled, Ended

\* An empty answer is taken over by an engine that has seen none but such.
LEMMA EmptyIsSuspected ==
    ASSUME EMPTY_CONFIRM_POLLS > 1, TypeOK, HiddenInv,
           queue = 1, btp # Empty, NEW s \in {btp, Empty}, Fetch(s)
    PROVE  /\ s # Empty => seen' /\ suspect' = 0
           /\ s = Empty /\ seen => Suspects(s) /\ seen' /\ hiccup'
           /\ s = Empty /\ ~seen => ~seen' /\ suspect' = 0
<1>1. s = Empty => ~hiccup /\ hiccup'
  BY DEF Fetch
<1>2. s = Empty => suspect = 0
  BY <1>1 DEF HiddenInv, TypeOK
<1>3. suspect' = SuspectPolls(s) /\ seen' = Seen(s)
  BY DEF Fetch
<1>4. CASE s # Empty
  BY <1>3, <1>4 DEF Suspects, SuspectPolls, Seen
<1>5. CASE s = Empty /\ seen
  <2>1. Suspects(s)
    BY <1>2, <1>5 DEF Suspects
  <2> QED
    BY <1>1, <1>3, <1>5, <2>1 DEF Seen
<1>6. CASE s = Empty /\ ~seen
  BY <1>3, <1>6 DEF Suspects, SuspectPolls, Seen
<1> QED
  BY <1>4, <1>5, <1>6

LEMMA HiddenByFetch ==
    ASSUME EMPTY_CONFIRM_POLLS > 1, TypeOK, HiddenInv,
           NEW s \in {btp, Empty}, Fetch(s)
    PROVE  HiddenInv'
<1> SUFFICES ASSUME queue' = 1, btp' # Empty
             PROVE  HiddenInv'
  BY DEF HiddenInv
<1>1. queue = 1 /\ btp # Empty
  BY DEF Fetch, queueVars
<1>2. UNCHANGED <<known, shown, late>> /\ phase = "idle" /\ snap = NoSnapshot
  BY DEF Fetch, badhubVars, TypeOK
<1>3. IF Suspects(s) THEN snap' = snap /\ phase' = phase
                     ELSE snap' = s /\ phase' = "fetched"
  BY DEF Fetch
<1>4. CASE s # Empty
  BY <1>1, <1>2, <1>3, <1>4, EmptyIsSuspected DEF HiddenInv, Suspects
<1>5. CASE s = Empty /\ seen
  BY <1>1, <1>2, <1>3, <1>5, EmptyIsSuspected DEF HiddenInv
<1>6. CASE s = Empty /\ ~seen
  BY <1>1, <1>2, <1>3, <1>6, EmptyIsSuspected DEF HiddenInv, Full, Suspects
<1> QED
  BY <1>4, <1>5, <1>6

\* What a step of the loop or a worker shows is empty only if it was so or if
\* nothing but empty answers was seen.
LEMMA ShownStaysFull ==
    ASSUME TypeOK, BaseInv, HiddenInv, queue = 1, btp # Empty, late = Nothing,
           SyncStep \/ WorkerStep
    PROVE  /\ ~seen => shown' = Empty
           /\ shown # Empty => shown' # Empty
<1>1. ASSUME NEW msg \in Message, msg.kind # "tset"
      PROVE  Applied(msg) = Empty <=> shown = Empty
  BY <1>1, StandKeepsBase, OnlyEmptyHasNothing, AppliedIsSnapshot DEF TypeOK
<1>2. ~seen => shown = Empty
  BY DEF HiddenInv
<1>3. CASE shown' = shown
  BY <1>2, <1>3
<1>4. CASE (PushSucceeds \/ PushFails) /\ shown' = Applied(update)
  <2>1. /\ shown' = Applied(update) /\ update \in Message
        /\ phase = "sending" /\ snap \in Snapshot
    BY <1>4 DEF PushSucceeds, PushFails, TypeOK
  <2>2. CASE update = Tset(snap)
    <3>1. shown' = snap
      BY <2>1, <2>2 DEF Applied, Tset
    <3> QED
      BY <1>2, <2>1, <3>1, NoSnapshotIsNone DEF HiddenInv, Full
  <2>3. CASE update.kind = "tupdate"
    BY <1>1, <1>2, <2>1, <2>3
  <2> QED
    BY <2>1, <2>2, <2>3 DEF BaseInv
<1>5. ASSUME NEW w \in workers, WorkerSent(w), shown' = Applied(w.sending)
      PROVE  /\ ~seen => shown' = Empty
             /\ shown # Empty => shown' # Empty
  BY <1>1, <1>2, <1>5 DEF BaseInv, TypeOK
<1>6. ASSUME NEW w \in workers, WorkerEnds(w) \/ WorkerTakes(w)
      PROVE  shown' = shown
  BY <1>6 DEF WorkerEnds, WorkerTakes, badhubVars
<1>7. ASSUME NEW s \in {btp, Empty}, Fetch(s) \/ Publish
      PROVE  shown' = shown
  BY <1>7 DEF Fetch, Publish, badhubVars
<1>8. ASSUME NEW w \in workers, WorkerSent(w)
      PROVE  shown' = shown \/ shown' = Applied(w.sending)
  BY <1>8 DEF WorkerSent, GivenUp, badhubVars
<1>9. CASE PushSucceeds \/ PushFails
  <2>1. shown' = shown \/ shown' = Applied(update)
    BY <1>9 DEF PushSucceeds, PushFails, GivenUp, badhubVars
  <2> QED
    BY <1>3, <1>4, <1>9, <2>1
<1>10. CASE WorkerStep
  BY <1>3, <1>5, <1>6, <1>8, <1>10 DEF WorkerStep
<1> QED
  BY <1>3, <1>7, <1>9, <1>10 DEF SyncStep

LEMMA HiddenSteps ==
    ASSUME EMPTY_CONFIRM_POLLS > 1, TypeOK, BaseInv, HiddenInv, [Next]_vars
    PROVE  HiddenInv'
<1>1. CASE \E s \in {btp, Empty} : Fetch(s)
  BY <1>1, HiddenByFetch
<1>2. CASE NewEngine
  <2>1. queue' # 1
    BY <1>2 DEF NewEngine, TypeOK, Queue
  <2> QED
    BY <2>1 DEF HiddenInv
<1>3. CASE Publish
  <2>1. snap \in Snapshot /\ phase = "fetched"
    BY <1>3 DEF Publish, TypeOK
  <2>2. Stamped(snap) \in Snapshot /\ DOMAIN Stamped(snap) = DOMAIN snap
    BY <2>1, StampedIsSnapshot DEF TypeOK, Stamped
  <2>3. Stamped(snap) = Empty <=> snap = Empty
    BY <2>1, <2>2, OnlyEmptyHasNothing
  <2>4. /\ known' = snap
        /\ \/ snap' = NoSnapshot /\ phase' = "idle"
           \/ snap' = Stamped(snap) /\ phase' = "sending"
        /\ UNCHANGED <<btp, hiccup, queue, suspect, seen, shown, late>>
    BY <1>3 DEF Publish, queueVars, guardVars, badhubVars
  <2> QED
    BY <2>1, <2>3, <2>4, NoSnapshotIsNone DEF HiddenInv, Full
<1>4. CASE PushSucceeds \/ PushFails \/ WorkerStep
  <2>1. UNCHANGED <<btp, hiccup, queue, known, seen, suspect>>
    BY <1>4 DEF PushSucceeds, PushFails, CycleEnds, WorkerStep, WorkerEnds,
       WorkerTakes, WorkerSent, tabletVars, queueVars, guardVars
  <2>2. \/ phase' = "idle" /\ snap' = NoSnapshot
        \/ phase' = phase /\ snap' = snap
    BY <1>4 DEF PushSucceeds, PushFails, CycleEnds, WorkerStep, WorkerEnds,
       WorkerTakes, WorkerSent, pushVars
  <2>3. late' = Nothing => late = Nothing
    BY <1>4, MessageTypes DEF PushSucceeds, PushFails, WorkerStep, WorkerEnds,
       WorkerTakes, WorkerSent, GivenUp, badhubVars
  <2>4. queue = 1 /\ btp # Empty /\ ~seen /\ late' = Nothing => shown' = Empty
    BY <1>4, <2>3, ShownStaysFull DEF SyncStep
  <2> QED
    BY <2>1, <2>2, <2>4 DEF HiddenInv, Full
<1>5. CASE LateArrives
  BY <1>5 DEF LateArrives, HiddenInv, Gone, Nothing, tabletVars, queueVars,
     guardVars, pushVars
<1>6. CASE BtpChanges
  BY <1>6, NeverReopened, BtpLeavesTheRest DEF HiddenInv, queueVars, guardVars,
     pushVars, badhubVars
<1>7. CASE UNCHANGED <<btp, hiccup, queue, known, seen, suspect, phase, snap,
                       shown, late>>
  BY <1>7 DEF HiddenInv, Full
<1>8. ASSUME NEW c \in Court,
             \/ \E m \in Match, n \in Stand, q \in Queue : HandleScore(c, m, n, q)
             \/ ClearCourt(c) \/ MarkExpires(c)
      PROVE  HiddenInv'
  BY <1>7, <1>8 DEF HandleScore, ClearCourt, MarkExpires, queueVars, guardVars,
     pushVars, badhubVars
<1>9. ASSUME NEW m \in Match, CallMit(m) \/ Retract(m)
      PROVE  HiddenInv'
  BY <1>7, <1>9 DEF CallMit, Retract, CallsAre, queueVars, guardVars, pushVars,
     badhubVars
<1>10. CASE MinutePasses \/ UNCHANGED vars
  BY <1>7, <1>10 DEF MinutePasses, tabletVars, queueVars, guardVars, pushVars,
     badhubVars, vars
<1> QED
  BY <1>1, <1>2, <1>3, <1>4, <1>5, <1>6, <1>8, <1>9, <1>10 DEF Next, SyncStep

\* A single wrongly empty answer empties neither the courts nor the ticker, if
\* an empty answer must be confirmed at all (empty_snapshot_is_suspect).
THEOREM HiccupsStayHidden ==
    ASSUME EMPTY_CONFIRM_POLLS > 1
    PROVE  Spec => HiccupsAreHidden
<1>1. Init => HiddenInv
  BY DEF Init, HiddenInv, Full
<1>2. TypeOK /\ BaseInv /\ HiddenInv /\ [Next]_vars => HiddenInv'
  BY HiddenSteps
<1>3. ASSUME TypeOK, BaseInv, HiddenInv, [Next]_vars,
             btp # Empty, queue' = 1, late = Nothing
      PROVE  /\ known # Empty => known' # Empty
             /\ shown # Empty => shown' # Empty
  <2>1. queue = 1
    <3>1. queue' # queue => NewEngine
      BY <1>3, BtpLeavesTheRest DEF Next, LateArrives, WorkerStep, WorkerEnds,
         WorkerTakes, WorkerSent, SyncStep, Fetch, Publish, PushSucceeds,
         PushFails, CycleEnds, MinutePasses, HandleScore, ClearCourt,
         MarkExpires, CallMit, Retract, CallsAre, queueVars, vars
    <3>2. NewEngine => queue' # 1
      BY <1>3 DEF NewEngine, TypeOK, Queue
    <3> QED
      BY <1>3, <3>1, <3>2
  <2>2. known' # known => Publish
    BY <1>3, BtpLeavesTheRest DEF Next, LateArrives, WorkerStep, WorkerEnds,
       WorkerTakes, WorkerSent, SyncStep, Fetch, PushSucceeds, PushFails,
       CycleEnds, MinutePasses, NewEngine, HandleScore, ClearCourt,
       MarkExpires, CallMit, Retract, CallsAre, tabletVars, vars
  <2>3. shown' # shown => SyncStep \/ WorkerStep
    <3>1. NewEngine => queue' # 1
      BY <1>3 DEF NewEngine, TypeOK, Queue
    <3> QED
      BY <1>3, <3>1, BtpLeavesTheRest DEF Next, LateArrives, MinutePasses,
         HandleScore, ClearCourt, MarkExpires, CallMit, Retract, CallsAre,
         badhubVars, vars
  <2>4. Publish => (known # Empty => known' # Empty)
    BY <1>3, <2>1, NoSnapshotIsNone DEF Publish, HiddenInv, TypeOK
  <2>5. SyncStep \/ WorkerStep => (shown # Empty => shown' # Empty)
    BY <1>3, <2>1, ShownStaysFull
  <2> QED
    BY <2>2, <2>3, <2>4, <2>5
<1>4. TypeOK /\ BaseInv /\ HiddenInv /\ [Next]_vars =>
        [btp # Empty /\ queue' = 1 /\ late = Nothing =>
            /\ known # Empty => known' # Empty
            /\ shown # Empty => shown' # Empty]_vars
  BY <1>3
<1> QED
  BY <1>1, <1>2, <1>4, TypeCorrect, BaseInvHolds, PTL DEF Spec, HiccupsAreHidden

=============================================================================
