-------------------------- MODULE CourtAssignProofs --------------------------
(* Theorems about CourtAssign, for every number of matches, courts and        *)
(* requests of the desk.                                                      *)
EXTENDS CourtAssign, TLAPS

-----------------------------------------------------------------------------
(* Types. *)

\* A result is about a match; a court may be freed of nobody.
ResultsHaveMatch == \A d \in Desk : task[d].ends => task[d].match \in Match

Typed == TypeOK /\ ResultsHaveMatch

\* What a decided request changes is of the declared types.
LEMMA DecidesTyped ==
    ASSUME Typed, NEW d \in Desk, Decides(d)
    PROVE  task' \in [Desk -> Task] /\ ResultsHaveMatch' /\ ops' \in Nat
<1> USE DEF Typed, TypeOK, ResultsHaveMatch, Asks, Task
<1>1. CASE AssignCourt(d)
  BY <1>1 DEF AssignCourt, Ready, Decides
<1>2. CASE MoveMatch(d)
  BY <1>2 DEF MoveMatch, Decides
<1>3. CASE FreeCourt(d)
  BY <1>3 DEF FreeCourt, Leaves, Occupant, Decides
<1>4. CASE DesktopAssigns(d)
  BY <1>4 DEF DesktopAssigns, Decides
<1>5. CASE DesktopFrees(d)
  BY <1>5 DEF DesktopFrees, Leaves, Occupant, Decides
<1>6. CASE EnterResult(d)
  BY <1>6, NotAmong DEF EnterResult, Decides, Snapshot
<1> QED
  BY <1>1, <1>2, <1>3, <1>4, <1>5, <1>6 DEF Decides

\* BTP keeps its types when it executes a request of the desk.
LEMMA BtpTyped ==
    ASSUME TypeOK, NEW t \in Task, t.ends => t.match \in Match, BtpExecutes(t)
    PROVE  /\ matchCourt' \in [Match -> Court \cup {NoCourt}]
           /\ courtMatch' \in [Court -> Match \cup {NoMatch}]
           /\ finished' \subseteq Match /\ umpires' \subseteq Match
<1>1. matchCourt' \in [Match -> Court \cup {NoCourt}]
  BY DEF TypeOK, BtpExecutes, Task
<1>2. courtMatch' \in [Court -> Match \cup {NoMatch}]
  BY DEF TypeOK, BtpExecutes, Task
<1>3. t.called \subseteq Match
  BY DEF Task
<1>4. finished' \subseteq Match /\ umpires' \subseteq Match
  BY <1>3 DEF TypeOK, BtpExecutes
<1> QED
  BY <1>1, <1>2, <1>4

\* A claim is one of a match, whoever makes it or gives it back.
LEMMA ClaimsTyped ==
    ASSUME TypeOK, NEW d \in Desk, Claims(d) \/ Refused(d)
    PROVE  pendingAssign' \in [Court -> Match \cup {NoMatch}]
<1>1. task[d] \in Task
  BY DEF TypeOK
<1>2. Release(pendingAssign, task[d].from) \in [Court -> Match \cup {NoMatch}]
  BY DEF Release, TypeOK
<1>3. CASE Claims(d)
  BY <1>1, <1>2, <1>3 DEF Claims, Task
<1>4. CASE Refused(d)
  BY <1>2, <1>4 DEF Refused, TypeOK
<1> QED
  BY <1>3, <1>4

\* The automatic assignment picks matches for courts that are free.
LEMMA PicksTyped ==
    ASSUME TypeOK, AutoLooks
    PROVE  /\ picks' \in [Court -> Match \cup {NoMatch}]
           /\ pendingAuto' \in [Court -> Match \cup {NoMatch}]
<1>1. Waiting(StillPending) \subseteq Match
  BY DEF Waiting, Ready
<1>2. picks' \in [Court -> Match \cup {NoMatch}]
  BY <1>1 DEF AutoLooks, Picks
<1>3. StillPending \in [Court -> Match \cup {NoMatch}]
  BY DEF TypeOK, StillPending
<1> QED
  BY <1>2, <1>3 DEF AutoLooks

\* A request goes on, or its place becomes free.
LEMMA ReplacedTask ==
    ASSUME Typed, NEW d \in Desk,
           \/ task' = [task EXCEPT ![d] = IdleTask]
           \/ \E at \in {"writing", "executed", "late"} :
                 task' = [task EXCEPT ![d].at = at]
    PROVE  task' \in [Desk -> Task] /\ ResultsHaveMatch'
<1> USE DEF Typed, TypeOK, ResultsHaveMatch
<1>1. CASE task' = [task EXCEPT ![d] = IdleTask]
  <2>1. IdleTask \in Task /\ IdleTask.ends = FALSE
    BY DEF IdleTask, Task
  <2> QED
    BY <1>1, <2>1
<1>2. ASSUME NEW at \in {"writing", "executed", "late"},
             task' = [task EXCEPT ![d].at = at]
      PROVE  task' \in [Desk -> Task] /\ ResultsHaveMatch'
  <2>1. [task[d] EXCEPT !.at = at] \in Task
    BY DEF Task
  <2>2. task' = [task EXCEPT ![d] = [task[d] EXCEPT !.at = at]]
    BY <1>2
  <2>3. /\ [task[d] EXCEPT !.at = at].ends = task[d].ends
        /\ [task[d] EXCEPT !.at = at].match = task[d].match
    BY DEF Task
  <2> QED
    BY <2>1, <2>2, <2>3
<1> QED
  BY <1>1, <1>2

\* The steps of the loop, and time passing.
LEMMA LoopTyped ==
    ASSUME Typed,
           LoopStep \/ \E c \in Court : ClaimLapses(c) \/ PendingLapses(c)
    PROVE  Typed'
<1> USE DEF Typed, dayVars
<1>1. CASE Fetches
  BY <1>1 DEF Fetches, TypeOK, ResultsHaveMatch, Snapshot, View, btpVars
<1>2. CASE AutoLooks
  BY <1>2, PicksTyped DEF AutoLooks, TypeOK, ResultsHaveMatch, btpVars
<1>3. CASE AutoClaims
  <2>1. pendingAssign' \in [Court -> Match \cup {NoMatch}]
    BY <1>3 DEF AutoClaims, TypeOK
  <2>2. Picked(picks) \subseteq Match
    BY DEF Picked, TypeOK
  <2>3. assigned' \subseteq Match
    BY <1>3, <2>2 DEF AutoClaims, TypeOK
  <2> QED
    BY <1>3, <2>1, <2>3 DEF AutoClaims, TypeOK, ResultsHaveMatch, btpVars
<1>4. CASE AutoExecutes
  <2>1. matchCourt' \in [Match -> Court \cup {NoCourt}]
    BY <1>4 DEF AutoExecutes, TypeOK, Picked
  <2>2. courtMatch' \in [Court -> Match \cup {NoMatch}]
    BY <1>4 DEF AutoExecutes, TypeOK
  <2>3. umpires' \subseteq Match
    BY <1>4 DEF AutoExecutes, TypeOK
  <2> QED
    BY <1>4, <2>1, <2>2, <2>3 DEF AutoExecutes, TypeOK, ResultsHaveMatch
<1>5. CASE AutoAnswered \/ AutoFails
  <2>1. NoPicks \in [Court -> Match \cup {NoMatch}]
    BY DEF NoPicks
  <2> QED
    BY <1>5, <2>1 DEF AutoAnswered, AutoFails, AutoEnds, TypeOK,
       ResultsHaveMatch, btpVars
<1>6. CASE Publishes
  <2>1. UmpiredHere \subseteq Match
    BY Bounds DEF UmpiredHere
  <2> QED
    BY <1>6, <2>1 DEF Publishes, TypeOK, ResultsHaveMatch, btpVars
<1>7. CASE Confirms
  BY <1>7 DEF Confirms, TypeOK, ResultsHaveMatch, btpVars
<1>8. CASE OfficialsExecute
  <2>1. matchCourt' \in [Match -> Court \cup {NoCourt}]
    BY <1>8 DEF OfficialsExecute, TypeOK, Snapshot
  <2>2. umpires' \subseteq Match
    BY <1>8 DEF OfficialsExecute, OfficialsEntries, TypeOK
  <2> QED
    BY <1>8, <2>1, <2>2 DEF OfficialsExecute, TypeOK, ResultsHaveMatch
<1>9. CASE OfficialsAnswered \/ OfficialsFail
  BY <1>9 DEF OfficialsAnswered, OfficialsFail, OfficialsEntries, TypeOK,
     ResultsHaveMatch, btpVars
<1>10. ASSUME NEW c \in Court, ClaimLapses(c) \/ PendingLapses(c)
       PROVE  Typed'
  BY <1>10 DEF ClaimLapses, PendingLapses, Release, TypeOK, ResultsHaveMatch,
     btpVars, loopVars
<1> QED
  BY <1>1, <1>2, <1>3, <1>4, <1>5, <1>6, <1>7, <1>8, <1>9, <1>10 DEF LoopStep

LEMMA TypedSteps == Typed /\ [Next]_vars => Typed'
<1> SUFFICES ASSUME Typed, [Next]_vars
             PROVE  Typed'
  OBVIOUS
<1> USE DEF Typed, dayVars
<1>1. ASSUME NEW d \in Desk, Decides(d)
      PROVE  Typed'
  BY <1>1, DecidesTyped DEF Decides, TypeOK, btpVars, loopVars
<1>2. ASSUME NEW d \in Desk, Claims(d) \/ Refused(d)
      PROVE  Typed'
  <2>1. task' \in [Desk -> Task] /\ ResultsHaveMatch'
    BY <1>2, ReplacedTask DEF Claims, Refused
  <2>2. pendingAssign' \in [Court -> Match \cup {NoMatch}]
    BY <1>2, ClaimsTyped
  <2>3. crossed' \in BOOLEAN
    BY <1>2 DEF Claims, Refused, TypeOK
  <2> QED
    BY <1>2, <2>1, <2>2, <2>3 DEF Claims, Refused, TypeOK, btpVars, loopVars
<1>3. ASSUME NEW d \in Desk, Executes(d) \/ ExecutesLate(d)
      PROVE  Typed'
  <2>1. task[d] \in Task /\ BtpExecutes(task[d])
    BY <1>3 DEF Executes, ExecutesLate, TypeOK
  <2>2. /\ matchCourt' \in [Match -> Court \cup {NoCourt}]
        /\ courtMatch' \in [Court -> Match \cup {NoMatch}]
        /\ finished' \subseteq Match /\ umpires' \subseteq Match
    BY <2>1, BtpTyped DEF ResultsHaveMatch
  <2>3. task' \in [Desk -> Task] /\ ResultsHaveMatch'
    BY <1>3, ReplacedTask DEF Executes, ExecutesLate, Ends
  <2> QED
    BY <1>3, <2>2, <2>3 DEF Executes, ExecutesLate, TypeOK, loopVars
<1>4. ASSUME NEW d \in Desk, Answered(d) \/ Fails(d) \/ Dropped(d)
      PROVE  Typed'
  <2>1. task' \in [Desk -> Task] /\ ResultsHaveMatch'
    BY <1>4, ReplacedTask DEF Answered, Fails, Dropped, Ends
  <2>2. pendingAssign' \in [Court -> Match \cup {NoMatch}]
    BY <1>4 DEF Answered, Fails, Dropped, Release, TypeOK
  <2> QED
    BY <1>4, <2>1, <2>2 DEF Answered, Fails, Dropped, TypeOK, btpVars,
       loopVars
<1>5. CASE UNCHANGED vars
  BY <1>5 DEF vars, btpVars, loopVars, TypeOK, ResultsHaveMatch
<1> QED
  BY <1>1, <1>2, <1>3, <1>4, <1>5, LoopTyped DEF Next, DeskStep

LEMMA TypedInit == Init => Typed
<1> SUFFICES ASSUME Init
             PROVE  Typed
  OBVIOUS
<1>1. NoPicks \in [Court -> Match \cup {NoMatch}]
  BY DEF NoPicks
<1>2. courtMatch \in [Court -> Match \cup {NoMatch}]
  BY DEF Init
<1>3. View \in Snapshot
  BY DEF Init, View, Snapshot
<1>4. IdleTask \in Task
  BY DEF IdleTask, Task
<1>5. ResultsHaveMatch
  BY DEF Init, ResultsHaveMatch, IdleTask
<1> QED
  BY <1>1, <1>2, <1>3, <1>4, <1>5 DEF Init, Typed, TypeOK

\* Courts, claims, picks, requests and snapshots stay of their types, and the
\* loop has picks exactly from its look until they are written.
THEOREM TypeCorrect == Spec => []TypeOK
<1>1. Spec => []Typed
  BY TypedInit, TypedSteps, PTL DEF Spec
<1> QED
  BY <1>1, PTL DEF Typed

-----------------------------------------------------------------------------
(* Claims. *)

\* The automatic assignment picks no match for two courts.
PicksDistinct ==
    \A c, d \in Court : picks[c] = picks[d] /\ picks[c] # NoMatch => c = d

\* Claims that are given back are no trouble.
LEMMA FewerClaims ==
    ASSUME ClaimsExclusive,
           \A c \in Court : pendingAssign'[c] \in {pendingAssign[c], NoMatch}
    PROVE  ClaimsExclusive'
BY DEF ClaimsExclusive

\* Neither is one that try_reserve_court admits.
LEMMA OneMoreClaim ==
    ASSUME ClaimsExclusive, NEW claims, NEW c \in Court, NEW m,
           \A d \in Court : claims[d] \in {pendingAssign[d], NoMatch},
           MayReserve(claims, c, m),
           \A d \in Court : pendingAssign'[d] = IF d = c THEN m ELSE claims[d]
    PROVE  ClaimsExclusive'
BY DEF ClaimsExclusive, MayReserve

LEMMA ClaimsExclusively ==
    ASSUME TypeOK, ClaimsExclusive, NEW d \in Desk, Claims(d)
    PROVE  ClaimsExclusive'
<1> DEFINE t == task[d]
           claims == Release(pendingAssign, t.from)
<1>1. \A c \in Court : claims[c] \in {pendingAssign[c], NoMatch}
  BY DEF Release
<1>2. CASE pendingAssign' = claims
  BY <1>1, <1>2, FewerClaims
<1>3. CASE /\ t.to \in Court /\ MayReserve(claims, t.to, t.match)
           /\ pendingAssign' = [claims EXCEPT ![t.to] = t.match]
  <2>1. \A c \in Court :
            pendingAssign'[c] = IF c = t.to THEN t.match ELSE claims[c]
    BY <1>3 DEF Release
  <2> HIDE DEF claims, t
  <2> QED
    BY <1>1, <1>3, <2>1, OneMoreClaim
<1> QED
  BY <1>2, <1>3 DEF Claims

\* The automatic assignment asks for every claim, too.
LEMMA AutoExclusive ==
    ASSUME TypeOK, ClaimsExclusive, PicksDistinct, AutoClaims
    PROVE  ClaimsExclusive'
<1>1. \A c \in Court :
          pendingAssign'[c] =
              IF picks[c] # NoMatch /\ MayReserve(pendingAssign, c, picks[c])
              THEN picks[c] ELSE pendingAssign[c]
  BY DEF AutoClaims
<1> QED
  BY <1>1 DEF ClaimsExclusive, PicksDistinct, MayReserve

LEMMA ExclusiveSteps ==
    TypeOK /\ ClaimsExclusive /\ PicksDistinct /\ [Next]_vars
        => ClaimsExclusive' /\ PicksDistinct'
<1> SUFFICES ASSUME TypeOK, ClaimsExclusive, PicksDistinct, [Next]_vars
             PROVE  ClaimsExclusive' /\ PicksDistinct'
  OBVIOUS
<1>1. ASSUME NEW d \in Desk, DeskStep(d)
      PROVE  ClaimsExclusive' /\ picks' = picks
  <2>1. picks' = picks
    BY <1>1 DEF DeskStep, Decides, Claims, Refused, Executes, Answered, Fails,
       ExecutesLate, Dropped, loopVars
  <2>2. CASE Claims(d)
    BY <2>1, <2>2, ClaimsExclusively
  <2>3. CASE UNCHANGED pendingAssign
    BY <2>1, <2>3 DEF ClaimsExclusive
  <2>4. CASE Refused(d) \/ Answered(d) \/ Fails(d)
    BY <2>1, <2>4, FewerClaims DEF Refused, Answered, Fails, Release, TypeOK
  <2> QED
    BY <1>1, <2>1, <2>2, <2>3, <2>4 DEF DeskStep, Decides, Executes,
       ExecutesLate, Dropped
<1>2. CASE AutoLooks
  BY <1>2 DEF AutoLooks, Picks, PicksDistinct, ClaimsExclusive
<1>3. CASE AutoClaims
  BY <1>3, AutoExclusive DEF AutoClaims, PicksDistinct
<1>4. CASE AutoAnswered \/ AutoFails
  BY <1>4 DEF AutoAnswered, AutoFails, AutoEnds, NoPicks, PicksDistinct,
     ClaimsExclusive
<1>5. CASE Confirms
  BY <1>5, FewerClaims DEF Confirms, PicksDistinct
<1>6. ASSUME NEW c \in Court, ClaimLapses(c)
      PROVE  ClaimsExclusive' /\ PicksDistinct'
  BY <1>6, FewerClaims DEF ClaimLapses, Release, TypeOK, loopVars,
     PicksDistinct
<1>7. CASE UNCHANGED <<pendingAssign, picks>>
  BY <1>7 DEF ClaimsExclusive, PicksDistinct
<1> QED
  BY <1>1, <1>2, <1>3, <1>4, <1>5, <1>6, <1>7 DEF Next, LoopStep, Fetches,
     AutoExecutes, Publishes, OfficialsExecute, OfficialsAnswered,
     OfficialsFail, PendingLapses, vars, loopVars, PicksDistinct

LEMMA ExclusiveInit == Init => ClaimsExclusive /\ PicksDistinct
BY DEF Init, ClaimsExclusive, PicksDistinct, NoPicks

\* No match is claimed for two courts, whoever claims, gives back, lets lapse
\* or confirms, and whatever was read before (try_reserve_court, auto_assign).
THEOREM ClaimsStayExclusive == Spec => []ClaimsExclusive
<1>1. TypeOK /\ ClaimsExclusive /\ PicksDistinct /\ [Next]_vars
          => ClaimsExclusive' /\ PicksDistinct'
  BY ExclusiveSteps
<1> QED
  BY <1>1, ExclusiveInit, TypeCorrect, PTL DEF Spec

-----------------------------------------------------------------------------
(* The two sides of BTP on a quiet day.  The inductive invariant says what a  *)
(* claim means: until a snapshot shows it, the claim stands for a request on  *)
(* its way or for an assignment BTP already has; a match without a claim is   *)
(* where both snapshots say.  What was only looked at is about matches that   *)
(* are not over, and what the loop has picked nobody has claimed since.       *)

Unclaimed(m) == \A c \in Court : pendingAssign[c] # m

Writing(d) == task[d].at = "writing"

\* Nobody assigns umpires, nothing comes late.
NothingLate == /\ assigned = {} /\ phase \notin {"officials", "officialsDone"}
               /\ \A d \in Desk : task[d].at # "late"

\* The snapshots know no winner BTP does not know, and a match that was
\* finished since has its court there.
Past == /\ snapshot.finished \subseteq finished
        /\ fetched.finished \subseteq finished
        /\ \A m \in finished \ fetched.finished : fetched.court[m] # NoCourt
        /\ phase = "confirm" => snapshot = fetched

Shown == \A m \in Match \ finished :
             Unclaimed(m) => /\ snapshot.court[m] = matchCourt[m]
                             /\ fetched.court[m] = matchCourt[m]

Gives(d, m, c) == Writing(d) /\ task[d].match = m /\ task[d].to = c

ClaimsMeant ==
    \A c \in Claimed :
        LET m == pendingAssign[c]
        IN /\ m \notin finished
           /\ \/ matchCourt[m] = c
              \/ \E d \in Desk : Gives(d, m, c)
              \/ phase = "writing" /\ picks[c] = m

ClaimedFree ==
    \A c \in Claimed, n \in Match \ finished :
        matchCourt[n] = c => n = pendingAssign[c]

\* A request between its look and its claim.
Looking ==
    \A d \in Desk :
        LET t == task[d]
        IN t.at = "looked" =>
               /\ t.match \in Match \ finished /\ t.to \in Court
               /\ t.from # t.to /\ ~t.ends
               /\ t.from \in Court => /\ Unclaimed(t.match)
                                      /\ matchCourt[t.match] = t.from

\* A request that gives a match a court.
Assigning ==
    \A d \in Desk :
        LET t == task[d]
        IN Writing(d) /\ ~t.ends =>
               /\ t.match \in Match \ finished /\ t.to \in Court
               /\ t.from # t.to
               /\ pendingAssign[t.to] = t.match
               /\ matchCourt[t.match] = t.from
               /\ snapshot.court[t.match] = t.from
               /\ fetched.court[t.match] = t.from

\* A result, until it is answered.
Finishing ==
    \A d \in Desk :
        LET t == task[d]
        IN Open(d) /\ t.ends =>
               /\ t.match \in Match \ (snapshot.finished \cup fetched.finished)
               /\ t.from \in Court /\ t.to = NoCourt
               /\ pendingAssign[t.from] = NoMatch
               /\ snapshot.court[t.match] = t.from
               /\ fetched.court[t.match] = t.from
               /\ Writing(d) => /\ t.match \notin finished
                                /\ matchCourt[t.match] = t.from

\* What the automatic assignment has picked and not yet claimed.
PickedMeant ==
    phase = "picked" =>
        \A c \in Court : picks[c] # NoMatch =>
            /\ pendingAssign[c] = NoMatch /\ Occupant(fetched, c) = {}
            /\ picks[c] \in Match \ fetched.finished
            /\ fetched.court[picks[c]] = NoCourt
            /\ Unclaimed(picks[c])

PicksMeant ==
    phase = "writing" =>
        \A c \in Court : picks[c] # NoMatch =>
            /\ pendingAssign[c] = picks[c]
            /\ picks[c] \notin finished
            /\ matchCourt[picks[c]] = NoCourt
            /\ \A d \in Desk : Writing(d) => task[d].match # picks[c]

OneEach == \A d, e \in Desk : Open(d) /\ Open(e) /\ task[d].match = task[e].match
                                  => d = e

Agree == \A m \in Match \ finished, c \in Court :
             matchCourt[m] = c <=> courtMatch[c] = m

CalmInv == /\ NothingLate /\ Past /\ Shown /\ ClaimsMeant /\ ClaimedFree
           /\ Looking /\ Assigning /\ Finishing /\ PickedMeant /\ PicksMeant
           /\ OneEach /\ Agree

\* Whoever is on a court in BTP is there in both snapshots, or has a claim.
LEMMA ShownOrClaimed ==
    ASSUME TypeOK, CalmInv, NEW n \in Match \ finished, NEW c \in Court,
           matchCourt[n] = c, pendingAssign[c] # n
    PROVE  snapshot.court[n] = c /\ fetched.court[n] = c
<1>1. CASE Unclaimed(n)
  BY <1>1 DEF CalmInv, Shown
<1>2. ASSUME NEW other \in Court, pendingAssign[other] = n
      PROVE  snapshot.court[n] = c /\ fetched.court[n] = c
  <2>1. other \in Claimed /\ other # c
    BY <1>2, NotAmong DEF Claimed
  <2>2. matchCourt[n] # other
    BY <2>1
  <2>3. CASE \E d \in Desk : Gives(d, n, other)
    <3>1. PICK d \in Desk : Gives(d, n, other)
      BY <2>3
    <3>2. ~task[d].ends
      BY <3>1, NotAmong DEF CalmInv, Finishing, Gives, Writing, Open
    <3> QED
      BY <3>1, <3>2 DEF CalmInv, Assigning, Gives
  <2>4. CASE phase = "writing" /\ picks[other] = n
    BY <2>4, <1>2, NotAmong DEF CalmInv, PicksMeant
  <2> QED
    BY <2>1, <2>2, <2>3, <2>4, <1>2 DEF CalmInv, ClaimsMeant
<1> QED
  BY <1>1, <1>2 DEF Unclaimed

\* A court that a snapshot shows empty and nobody else claims is free in BTP.
LEMMA EmptyIsFree ==
    ASSUME TypeOK, CalmInv, NEW snap \in {snapshot, fetched},
           NEW c \in Court, NEW m \in Match, pendingAssign[c] \in {NoMatch, m},
           Occupant(snap, c) = {}, NEW n \in Match \ finished, n # m
    PROVE  matchCourt[n] # c
<1> SUFFICES ASSUME matchCourt[n] = c
             PROVE  FALSE
  OBVIOUS
<1>1. snap.court[n] = c
  BY ShownOrClaimed, NotAmong
<1>2. n \notin snap.finished
  BY DEF CalmInv, Past
<1> QED
  BY <1>1, <1>2 DEF Occupant

\* A request that has only looked changes nothing yet.
LEMMA LookTaken ==
    ASSUME Typed, CalmInv, NEW d \in Desk, task[d].at = "idle",
           NEW m \in Match \ finished, Unclaimed(m),
           \A e \in Desk : Open(e) => task[e].match # m,
           NEW from, NEW to \in Court, from # to, snapshot.court[m] = from,
           Asks(d, "looked", m, from, to, FALSE),
           UNCHANGED <<btpVars, snapshot, pendingAssign, assigned, loopVars>>
    PROVE  CalmInv'
<1> USE DEF Typed, TypeOK, btpVars, loopVars
<1>1. /\ task'[d].at = "looked" /\ task'[d].match = m
      /\ task'[d].from = from /\ task'[d].to = to /\ ~task'[d].ends
      /\ \A e \in Desk \ {d} : task'[e] = task[e]
  BY DEF Asks
<1>2. matchCourt[m] = from
  BY DEF CalmInv, Shown
<1>3. \A e \in Desk : Open(e) => e # d
  BY DEF Open
<1>4. NothingLate' /\ Past' /\ Shown' /\ ClaimedFree' /\ PickedMeant' /\ Agree'
  BY <1>1 DEF CalmInv, NothingLate, Past, Shown, Unclaimed, ClaimedFree,
     Claimed, PickedMeant, Occupant, Agree
<1>5. ClaimsMeant'
  <2>1. \A e \in Desk : \A n, c : Gives(e, n, c) => Gives(e, n, c)'
    BY <1>1, <1>3 DEF Gives, Writing, Open
  <2> QED
    BY <2>1 DEF CalmInv, ClaimsMeant, Claimed
<1>6. Looking'
  <2>1. Unclaimed(m)'
    BY DEF Unclaimed
  <2> QED
    BY <1>1, <1>2, <2>1 DEF CalmInv, Looking, Unclaimed
<1>7. \A e \in Desk : Writing(e)' => e # d /\ Writing(e)
  BY <1>1 DEF Writing
<1>8. Assigning' /\ Finishing'
  <2>1. Assigning'
    BY <1>1, <1>7 DEF CalmInv, Assigning
  <2>2. Finishing'
    BY <1>1, <1>3, <1>7 DEF CalmInv, Finishing, Open
  <2> QED
    BY <2>1, <2>2
<1>9. PicksMeant' /\ OneEach'
  <2>1. PicksMeant'
    BY <1>1, <1>7 DEF CalmInv, PicksMeant
  <2>2. OneEach'
    BY <1>1 DEF CalmInv, OneEach, Open
  <2> QED
    BY <2>1, <2>2
<1> QED
  BY <1>4, <1>5, <1>6, <1>8, <1>9 DEF CalmInv

\* A result is entered.
LEMMA FinishAsked ==
    ASSUME Typed, CalmInv, NEW d \in Desk, task[d].at = "idle",
           NEW m \in Match \ finished, Unclaimed(m), m \notin snapshot.finished,
           \A e \in Desk : Open(e) => task[e].match # m,
           snapshot.court[m] # NoCourt,
           Asks(d, "writing", m, snapshot.court[m], NoCourt, TRUE),
           UNCHANGED <<btpVars, snapshot, assigned, loopVars, pendingAssign>>
    PROVE  CalmInv'
<1> USE DEF Typed, TypeOK, btpVars, loopVars
<1> DEFINE from == snapshot.court[m]
<1>1. /\ task'[d].at = "writing" /\ task'[d].match = m
      /\ task'[d].from = from /\ task'[d].to = NoCourt /\ task'[d].ends
      /\ \A e \in Desk \ {d} : task'[e] = task[e]
  BY DEF Asks
<1>2. matchCourt[m] = from /\ fetched.court[m] = from /\ from \in Court
  BY DEF CalmInv, Shown, Snapshot
<1>3. pendingAssign[from] = NoMatch
  BY <1>2 DEF CalmInv, ClaimedFree, Claimed, Unclaimed
<1>4. \A e \in Desk : Open(e) => e # d
  BY DEF Open
<1>5. NothingLate' /\ Past' /\ Agree' /\ Shown' /\ ClaimedFree' /\ PickedMeant'
  BY <1>1 DEF CalmInv, NothingLate, Past, Agree, Shown, Unclaimed, ClaimedFree,
     Claimed, PickedMeant, Occupant
<1>6. ClaimsMeant'
  <2>1. \A e \in Desk : \A n, c : Gives(e, n, c) => Gives(e, n, c)'
    BY <1>1, <1>4 DEF Gives, Writing, Open
  <2> QED
    BY <2>1 DEF CalmInv, ClaimsMeant, Claimed
<1>7. Looking' /\ Assigning'
  BY <1>1 DEF CalmInv, Looking, Unclaimed, Assigning, Writing
<1>8. Finishing'
  <2>1. m \notin fetched.finished
    BY DEF CalmInv, Past
  <2> HIDE DEF from
  <2>2. snapshot.court[m] = from
    BY DEF from
  <2> QED
    BY <1>1, <1>2, <1>3, <1>4, <2>1, <2>2 DEF CalmInv, Finishing, Open, Writing
<1>9. PicksMeant'
  BY <1>1 DEF CalmInv, PicksMeant, Writing, Unclaimed
<1>10. OneEach'
  BY <1>1 DEF CalmInv, OneEach, Open
<1> QED
  BY <1>5, <1>6, <1>7, <1>8, <1>9, <1>10 DEF CalmInv

LEMMA DecidesCalm ==
    ASSUME Typed, CalmInv, calm, NEW d \in Desk, Decides(d)
    PROVE  CalmInv'
<1> USE DEF Decides, Typed, TypeOK
<1>1. \A m \in Match :
          Undisputed(m) => /\ Unclaimed(m) /\ m \notin finished
                           /\ \A e \in Desk : Open(e) => task[e].match # m
  BY NotAmong DEF Undisputed, Unclaimed, ClaimedMatches, Claimed
<1>2. task[d].at = "idle"
  BY DEF Open
<1>3. CASE AssignCourt(d)
  <2>1. PICK m \in Ready(snapshot), c \in Court :
            /\ Undisputed(m)
            /\ Asks(d, "looked", m, NoCourt, c, FALSE)
    BY <1>3 DEF AssignCourt
  <2>2. m \in Match /\ snapshot.court[m] = NoCourt
    BY DEF Ready
  <2> QED
    BY <2>1, <2>2, <1>1, <1>2, NotAmong, LookTaken
<1>4. CASE MoveMatch(d)
  <2>1. PICK m \in Match \ snapshot.finished, to \in Court :
            /\ Undisputed(m)
            /\ snapshot.court[m] \in Court \ {to}
            /\ Asks(d, "looked", m, snapshot.court[m], to, FALSE)
    BY <1>4 DEF MoveMatch
  <2> DEFINE from == snapshot.court[m]
  <2>2. snapshot.court[m] = from /\ from # to
    BY <2>1
  <2>3. Asks(d, "looked", m, from, to, FALSE)
    BY <2>1
  <2> HIDE DEF from
  <2> QED
    BY <2>1, <2>2, <2>3, <1>1, <1>2, LookTaken
<1>5. CASE EnterResult(d)
  BY <1>5, <1>1, <1>2, FinishAsked DEF EnterResult
<1> QED
  BY <1>3, <1>4, <1>5 DEF FreeCourt, DesktopAssigns, DesktopFrees

\* Nobody claims a court a match on its way leaves.
LEMMA SourceUnclaimed ==
    ASSUME Typed, CalmInv, NEW d \in Desk, task[d].at = "looked"
    PROVE  Release(pendingAssign, task[d].from) = pendingAssign
<1>1. task[d].from \in Court => pendingAssign[task[d].from] = NoMatch
  BY DEF CalmInv, Looking, ClaimedFree, Claimed, Unclaimed
<1> QED
  BY <1>1 DEF Release, Typed, TypeOK

\* A request that nobody has overtaken claims a court that is free, for a match
\* that is where it was.
LEMMA ClaimsCalm ==
    ASSUME Typed, CalmInv, NEW d \in Desk, Claims(d), ~Crosses(task[d])
    PROVE  CalmInv'
<1> USE DEF Typed, TypeOK, Claims, btpVars, loopVars
<1> DEFINE m == task[d].match
           from == task[d].from
           to == task[d].to
<1>1. m \in Match \ finished /\ to \in Court /\ from # to /\ ~task[d].ends
  BY DEF CalmInv, Looking
<1>2. /\ snapshot.court[m] = from /\ Occupant(snapshot, to) = {}
      /\ phase = "picked" => /\ picks[to] = NoMatch
                             /\ \A c \in Court : picks[c] # m
  BY <1>1 DEF Crosses
<1>3. Unclaimed(m)
  BY <1>1, NotAmong DEF Crosses, ClaimedMatches, Claimed, Unclaimed
<1>4. /\ MayReserve(pendingAssign, to, m)
      /\ \A c \in Court : pendingAssign'[c] = IF c = to THEN m
                                             ELSE pendingAssign[c]
  BY <1>1, NotAmong, SourceUnclaimed
<1>5. pendingAssign[to] = NoMatch
  BY <1>1, <1>3, <1>4 DEF MayReserve, Unclaimed
<1>6. /\ task'[d].at = "writing" /\ task'[d].match = m /\ task'[d].from = from
      /\ task'[d].to = to /\ ~task'[d].ends
      /\ \A e \in Desk \ {d} : task'[e] = task[e]
  BY <1>1
<1>7. matchCourt[m] = from /\ fetched.court[m] = from
  BY <1>1, <1>2, <1>3 DEF CalmInv, Shown
<1>8. Open(d) /\ \A e \in Desk : Open(e) /\ e # d => task[e].match # m
  BY DEF CalmInv, OneEach, Open
<1>9. ~Writing(d) /\ task[d].ends = FALSE
  BY <1>1 DEF Writing, Task
<1> HIDE DEF m, from, to
<1>10. NothingLate' /\ Past' /\ Agree'
  BY <1>6 DEF CalmInv, NothingLate, Past, Agree
<1>11. Shown'
  <2>1. \A n \in Match : Unclaimed(n)' => Unclaimed(n)
    BY <1>4, <1>5, NotAmong DEF Unclaimed
  <2> QED
    BY <2>1 DEF CalmInv, Shown
<1>12. ClaimsMeant'
  <2>1. \A e \in Desk : \A n, c : Gives(e, n, c) => Gives(e, n, c)'
    BY <1>6, <1>9 DEF Gives, Writing
  <2>2. \A n, c : n = m /\ c = to => Gives(d, n, c)'
    BY <1>6 DEF Gives, Writing
  <2>3. ASSUME NEW c \in Court, c # to, pendingAssign[c] # NoMatch,
               NEW n, n = pendingAssign[c]
        PROVE  /\ n \notin finished
               /\ \/ matchCourt[n] = c
                  \/ \E e \in Desk : Gives(e, n, c)'
                  \/ phase = "writing" /\ picks[c] = n
    BY <2>1, <2>3 DEF CalmInv, ClaimsMeant, Claimed
  <2> QED
    BY <2>2, <2>3, <1>1, <1>4 DEF ClaimsMeant, Claimed
<1>13. ClaimedFree'
  <2>1. \A n \in Match \ finished : matchCourt[n] = to => n = m
    BY <1>1, <1>2, <1>5, EmptyIsFree
  <2>2. \A c \in Claimed' : c \in Court /\ (c = to \/ c \in Claimed)
    BY <1>4 DEF Claimed
  <2> QED
    BY <2>1, <2>2, <1>4 DEF CalmInv, ClaimedFree
<1>14. Looking'
  <2>1. ASSUME NEW e \in Desk, task'[e].at = "looked"
        PROVE  e # d /\ task'[e] = task[e] /\ task[e].match # m
    BY <2>1, <1>6, <1>8 DEF Open
  <2> QED
    BY <2>1, <1>4 DEF CalmInv, Looking, Unclaimed
<1>15. Assigning'
  <2>1. ASSUME NEW e \in Desk, e # d, Writing(e), ~task[e].ends
        PROVE  task[e].to # to
    BY <2>1, <1>5, NotAmong DEF CalmInv, Assigning
  <2> QED
    BY <2>1, <1>1, <1>2, <1>4, <1>6, <1>7 DEF CalmInv, Assigning, Writing
<1>16. Finishing'
  <2>1. ASSUME NEW e \in Desk, Open(e), task[e].ends
        PROVE  task[e].from # to
    BY <2>1, <1>2 DEF CalmInv, Finishing, Occupant
  <2> QED
    BY <2>1, <1>1, <1>4, <1>6, <1>9 DEF CalmInv, Finishing, Open, Writing
<1>17. PickedMeant'
  BY <1>2, <1>4 DEF CalmInv, PickedMeant, Occupant, Unclaimed
<1>18. PicksMeant'
  BY <1>3, <1>4, <1>5, <1>6 DEF CalmInv, PicksMeant, Writing, Unclaimed
<1>19. OneEach'
  <2>1. \A e \in Desk : task'[e].match = task[e].match /\ (Open(e)' <=> Open(e))
    BY <1>6, <1>8 DEF Open, m
  <2> QED
    BY <2>1 DEF CalmInv, OneEach
<1> QED
  BY <1>10, <1>11, <1>12, <1>13, <1>14, <1>15, <1>16, <1>17, <1>18, <1>19
     DEF CalmInv

\* A refused request gives nothing back but its own place.
LEMMA RefusedCalm ==
    ASSUME Typed, CalmInv, NEW d \in Desk, Refused(d)
    PROVE  CalmInv'
<1> USE DEF Typed, TypeOK, Refused, btpVars, loopVars
<1>1. pendingAssign' = pendingAssign
  BY SourceUnclaimed
<1>2. /\ \A e \in Desk : Open(e)' <=> Open(e) /\ e # d
      /\ \A e \in Desk : Writing(e)' <=> Writing(e)
      /\ \A e \in Desk \ {d} : task'[e] = task[e]
      /\ task'[d].at = "idle"
  BY DEF IdleTask, Open, Writing
<1>3. ~Writing(d)
  BY DEF Writing
<1>4. NothingLate' /\ Past' /\ Shown' /\ ClaimedFree' /\ Agree' /\ PickedMeant'
  BY <1>1, <1>2 DEF CalmInv, NothingLate, Past, Shown, Unclaimed,
     ClaimedFree, Claimed, Agree, PickedMeant, Occupant
<1>5. ClaimsMeant'
  <2>1. \A e \in Desk : \A n, c : Gives(e, n, c) => Gives(e, n, c)'
    BY <1>2, <1>3 DEF Gives
  <2> QED
    BY <1>1, <2>1 DEF CalmInv, ClaimsMeant, Claimed
<1>6. Looking' /\ Assigning' /\ Finishing'
  <2>1. Looking'
    BY <1>1, <1>2 DEF CalmInv, Looking, Unclaimed
  <2>2. Assigning' /\ Finishing'
    BY <1>1, <1>2, <1>3 DEF CalmInv, Assigning, Finishing
  <2> QED
    BY <2>1, <2>2
<1>7. PicksMeant' /\ OneEach'
  <2>1. PicksMeant'
    BY <1>1, <1>2, <1>3 DEF CalmInv, PicksMeant
  <2>2. OneEach'
    BY <1>2 DEF CalmInv, OneEach
  <2> QED
    BY <2>1, <2>2
<1> QED
  BY <1>4, <1>5, <1>6, <1>7 DEF CalmInv

\* BTP executes an assignment or a move.
LEMMA AssignExecuted ==
    ASSUME Typed, ClaimsExclusive, CalmInv, NEW d \in Desk, Executes(d),
           ~task[d].ends
    PROVE  CalmInv'
<1> USE DEF Typed, TypeOK, Executes, loopVars
<1> DEFINE m == task[d].match
           from == task[d].from
           to == task[d].to
<1>1. /\ m \in Match \ finished /\ to \in Court /\ from # to
      /\ pendingAssign[to] = m /\ matchCourt[m] = from
  BY DEF CalmInv, Assigning, Writing
<1>2. /\ finished' = finished
      /\ \A n \in Match : matchCourt'[n] = IF n = m THEN to ELSE matchCourt[n]
      /\ \A c \in Court : courtMatch'[c] = IF c = to THEN m
                                          ELSE IF c = from THEN NoMatch
                                          ELSE courtMatch[c]
  BY <1>1 DEF BtpExecutes
<1>3. /\ \A e \in Desk : Open(e)' <=> Open(e)
      /\ \A e \in Desk : Writing(e)' <=> Writing(e) /\ e # d
      /\ \A e \in Desk : /\ task'[e].match = task[e].match
                         /\ task'[e].from = task[e].from
                         /\ task'[e].to = task[e].to
                         /\ task'[e].ends = task[e].ends
                         /\ task'[e].at # "late"
                         /\ task'[e].at = "looked" => task[e].at = "looked" /\ e # d
  BY DEF Open, Writing, CalmInv, NothingLate, Task
<1>4. \A e \in Desk : Open(e) /\ e # d => task[e].match # m
  BY DEF CalmInv, OneEach, Open
<1>5. \A e \in Desk : Writing(e) => Open(e)
  BY DEF Writing, Open
<1> HIDE DEF m, from, to
<1>6. NothingLate' /\ Past' /\ PickedMeant'
  BY <1>2, <1>3 DEF CalmInv, NothingLate, Past, PickedMeant, Occupant, Unclaimed
<1>7. Shown'
  <2>1. ~Unclaimed(m)
    BY <1>1 DEF Unclaimed
  <2> QED
    BY <1>2, <2>1 DEF CalmInv, Shown, Unclaimed
<1>8. ClaimsMeant'
  <2>1. ASSUME NEW c \in Court, pendingAssign[c] # NoMatch, c # to,
               NEW n, n = pendingAssign[c]
        PROVE  /\ n # m
               /\ \A e \in Desk : Gives(e, n, c) => Gives(e, n, c)'
    <3>1. n # m
      BY <2>1, <1>1 DEF ClaimsExclusive
    <3> QED
      BY <3>1, <1>3 DEF Gives, m
  <2>2. ASSUME NEW c \in Court, pendingAssign[c] # NoMatch, c # to,
               NEW n, n = pendingAssign[c]
        PROVE  /\ n \notin finished
               /\ \/ matchCourt'[n] = c
                  \/ \E e \in Desk : Gives(e, n, c)'
                  \/ phase = "writing" /\ picks[c] = n
    BY <2>1, <2>2, <1>2 DEF CalmInv, ClaimsMeant, Claimed
  <2> QED
    BY <2>2, <1>1, <1>2 DEF ClaimsMeant, Claimed
<1>9. ClaimedFree'
  BY <1>1, <1>2 DEF CalmInv, ClaimedFree, Claimed
<1>10. Looking' /\ Assigning'
  <2>1. Looking'
    BY <1>2, <1>3, <1>4 DEF CalmInv, Looking, Open, Unclaimed
  <2>2. Assigning'
    BY <1>2, <1>3, <1>4, <1>5 DEF CalmInv, Assigning
  <2> QED
    BY <2>1, <2>2
<1>11. Finishing'
  BY <1>2, <1>3, <1>4, <1>5 DEF CalmInv, Finishing
<1>12. PicksMeant'
  <2>1. \A c \in Court : phase = "writing" /\ picks[c] # NoMatch => picks[c] # m
    BY DEF CalmInv, PicksMeant, Writing, m
  <2> QED
    BY <2>1, <1>2, <1>3 DEF CalmInv, PicksMeant
<1>13. OneEach'
  BY <1>3 DEF CalmInv, OneEach
<1>14. Agree'
  <2>1. ASSUME NEW n \in Match \ finished, NEW c \in Court
        PROVE  matchCourt'[n] = c <=> courtMatch'[c] = n
    <3>1. matchCourt[n] = c <=> courtMatch[c] = n
      BY DEF CalmInv, Agree
    <3>2. matchCourt[n] = to => n = m
      BY <1>1, NotAmong DEF CalmInv, ClaimedFree, Claimed
    <3>3. c = from => courtMatch[c] = m
      BY <1>1 DEF CalmInv, Agree
    <3>4. n # NoMatch
      BY NotAmong
    <3> QED
      BY <1>1, <1>2, <3>1, <3>2, <3>3, <3>4
  <2> QED
    BY <2>1, <1>2 DEF Agree
<1> QED
  BY <1>6, <1>7, <1>8, <1>9, <1>10, <1>11, <1>12, <1>13, <1>14 DEF CalmInv

\* BTP executes a result.
LEMMA FinishExecuted ==
    ASSUME Typed, CalmInv, NEW d \in Desk, Executes(d), task[d].ends
    PROVE  CalmInv'
<1> USE DEF Typed, TypeOK, Executes, loopVars
<1> DEFINE m == task[d].match
           from == task[d].from
<1>1. /\ m \in Match \ finished /\ from \in Court /\ matchCourt[m] = from
      /\ fetched.court[m] = from /\ pendingAssign[from] = NoMatch
      /\ task[d].to = NoCourt
  BY DEF CalmInv, Finishing, Writing, Open
<1>2. /\ finished' = finished \cup {m}
      /\ matchCourt' = matchCourt
      /\ \A c \in Court : courtMatch'[c] = IF c = from THEN NoMatch
                                          ELSE courtMatch[c]
  BY <1>1, NotAmong DEF BtpExecutes
<1>3. /\ \A e \in Desk : Open(e)' <=> Open(e)
      /\ \A e \in Desk : Writing(e)' <=> Writing(e) /\ e # d
      /\ \A e \in Desk : /\ task'[e].match = task[e].match
                         /\ task'[e].from = task[e].from
                         /\ task'[e].to = task[e].to
                         /\ task'[e].ends = task[e].ends
                         /\ task'[e].at # "late"
                         /\ task'[e].at = "looked" => task[e].at = "looked" /\ e # d
  BY DEF Open, Writing, CalmInv, NothingLate, Task
<1>4. \A e \in Desk : Open(e) /\ e # d => task[e].match # m
  BY DEF CalmInv, OneEach, Open
<1>5. \A e \in Desk : Writing(e) => Open(e)
  BY DEF Writing, Open
<1>6. Unclaimed(m)
  <2>1. ASSUME NEW c \in Court, pendingAssign[c] = m
        PROVE  FALSE
    <3>1. c \in Claimed /\ c # from
      BY <2>1, <1>1, NotAmong DEF Claimed
    <3>2. \A e \in Desk : ~Gives(e, m, c)
      BY <1>1, <1>4, <1>5, NotAmong DEF Gives
    <3>3. ~(phase = "writing" /\ picks[c] = m)
      BY <1>1, NotAmong DEF CalmInv, PicksMeant
    <3> QED
      BY <2>1, <3>1, <3>2, <3>3, <1>1 DEF CalmInv, ClaimsMeant
  <2> QED
    BY <2>1 DEF Unclaimed
<1>7. task[d].match = m /\ task[d].from = from
  OBVIOUS
<1> HIDE DEF m, from
<1>8. NothingLate' /\ Past' /\ PickedMeant'
  <2>1. NothingLate' /\ Past'
    BY <1>1, <1>2, <1>3, NotAmong DEF CalmInv, NothingLate, Past
  <2>2. PickedMeant'
    BY DEF CalmInv, PickedMeant, Occupant, Unclaimed
  <2> QED
    BY <2>1, <2>2
<1>9. Shown' /\ ClaimedFree'
  BY <1>2 DEF CalmInv, Shown, Unclaimed, ClaimedFree, Claimed
<1>10. ClaimsMeant'
  <2>1. \A c \in Claimed : pendingAssign[c] # m
    BY <1>6 DEF Unclaimed, Claimed
  <2>2. \A e \in Desk, c \in Court : \A n : Gives(e, n, c) => Gives(e, n, c)'
    BY <1>1, <1>3, NotAmong DEF Gives
  <2>3. ASSUME NEW c \in Court, pendingAssign[c] # NoMatch,
               NEW n, n = pendingAssign[c]
        PROVE  /\ n \notin finished'
               /\ \/ matchCourt'[n] = c
                  \/ \E e \in Desk : Gives(e, n, c)'
                  \/ phase = "writing" /\ picks[c] = n
    BY <2>1, <2>2, <2>3, <1>2 DEF CalmInv, ClaimsMeant, Claimed
  <2> QED
    BY <2>3, <1>2 DEF ClaimsMeant, Claimed
<1>11. Looking' /\ Assigning'
  <2>1. Looking'
    BY <1>2, <1>3, <1>4 DEF CalmInv, Looking, Open, Unclaimed
  <2>2. Assigning'
    BY <1>2, <1>3, <1>4, <1>5 DEF CalmInv, Assigning
  <2> QED
    BY <2>1, <2>2
<1>12. Finishing'
  BY <1>2, <1>3, <1>4, <1>5 DEF CalmInv, Finishing
<1>13. PicksMeant'
  BY <1>2, <1>3, <1>6 DEF CalmInv, PicksMeant, Unclaimed
<1>14. OneEach'
  BY <1>3 DEF CalmInv, OneEach
<1>15. Agree'
  <2>1. ASSUME NEW n \in Match \ finished', NEW c \in Court
        PROVE  matchCourt'[n] = c <=> courtMatch'[c] = n
    <3>1. matchCourt[n] = c <=> courtMatch[c] = n
      BY <1>2 DEF CalmInv, Agree
    <3>2. courtMatch[from] = m /\ n # m
      BY <1>1, <1>2 DEF CalmInv, Agree
    <3>3. n # NoMatch
      BY NotAmong
    <3> QED
      BY <1>1, <1>2, <3>1, <3>2, <3>3
  <2> QED
    BY <2>1 DEF Agree
<1> QED
  BY <1>8, <1>9, <1>10, <1>11, <1>12, <1>13, <1>14, <1>15 DEF CalmInv

\* The answer changes nothing but the request: a court that a result has
\* freed is not claimed.
LEMMA AnsweredCalm ==
    ASSUME Typed, CalmInv, NEW d \in Desk, Answered(d)
    PROVE  CalmInv'
<1> USE DEF Typed, TypeOK, Answered, btpVars, loopVars
<1>1. pendingAssign' = pendingAssign
  BY DEF CalmInv, Finishing, Open, Release
<1>2. /\ \A e \in Desk : Open(e)' <=> Open(e) /\ e # d
      /\ \A e \in Desk : Writing(e)' <=> Writing(e)
      /\ \A e \in Desk \ {d} : task'[e] = task[e]
      /\ task'[d].at = "idle" /\ ~Writing(d)
  BY DEF Ends, IdleTask, Open, Writing
<1>3. NothingLate' /\ Past' /\ Shown' /\ ClaimedFree' /\ Agree' /\ PickedMeant'
  BY <1>1, <1>2 DEF CalmInv, NothingLate, Past, Shown, Unclaimed,
     ClaimedFree, Claimed, Agree, PickedMeant, Occupant
<1>4. ClaimsMeant'
  <2>1. \A e \in Desk : \A n, c : Gives(e, n, c) => Gives(e, n, c)'
    BY <1>2 DEF Gives
  <2> QED
    BY <1>1, <2>1 DEF CalmInv, ClaimsMeant, Claimed
<1>5. Looking' /\ Assigning' /\ Finishing'
  <2>1. Looking'
    BY <1>1, <1>2 DEF CalmInv, Looking, Unclaimed
  <2>2. Assigning' /\ Finishing'
    BY <1>1, <1>2 DEF CalmInv, Assigning, Finishing
  <2> QED
    BY <2>1, <2>2
<1>6. PicksMeant' /\ OneEach'
  BY <1>1, <1>2 DEF CalmInv, PicksMeant, OneEach
<1> QED
  BY <1>3, <1>4, <1>5, <1>6 DEF CalmInv

\* No result is between BTP and its answer when a snapshot is fetched.
LEMMA FetchesCalm ==
    ASSUME Typed, calm, CalmInv, Fetches
    PROVE  CalmInv'
<1> USE DEF Typed, TypeOK, Fetches, btpVars
<1>1. fetched'.court = matchCourt /\ fetched'.finished = finished
  BY DEF View
<1>2. NothingLate' /\ Past' /\ Shown' /\ ClaimedFree' /\ Agree' /\ OneEach'
  BY <1>1 DEF CalmInv, NothingLate, Past, Shown, Unclaimed, ClaimedFree,
     Claimed, Agree, OneEach, Open
<1>3. ClaimsMeant' /\ PicksMeant' /\ PickedMeant' /\ Looking'
  BY DEF CalmInv, ClaimsMeant, Claimed, Gives, Writing, PicksMeant,
     PickedMeant, Looking, Unclaimed
<1>4. Assigning'
  BY <1>1 DEF CalmInv, Assigning, Writing
<1>5. Finishing'
  <2>1. \A d \in Desk : Open(d) /\ task[d].ends => Writing(d)
    BY DEF CalmInv, NothingLate, Looking, Open, Writing, Task
  <2> QED
    BY <1>1, <2>1 DEF CalmInv, Finishing, Open, Writing
<1> QED
  BY <1>2, <1>3, <1>4, <1>5 DEF CalmInv

\* BTP executes them.
LEMMA PicksExecuted ==
    ASSUME Typed, ClaimsExclusive, CalmInv, AutoExecutes
    PROVE  CalmInv'
<1> USE DEF Typed, TypeOK, AutoExecutes
<1>1. \A c \in Court : picks[c] # NoMatch =>
          /\ picks[c] \in Match \ finished
          /\ pendingAssign[c] = picks[c] /\ matchCourt[picks[c]] = NoCourt
          /\ \A d \in Desk : Writing(d) => task[d].match # picks[c]
  BY DEF CalmInv, PicksMeant
<1>2. \A b, c \in Court : picks[b] = picks[c] /\ picks[b] # NoMatch => b = c
  BY <1>1 DEF ClaimsExclusive
<1>3. ASSUME NEW c \in Court, picks[c] # NoMatch
      PROVE  matchCourt'[picks[c]] = c
  <2>1. picks[c] \in Match /\ picks[c] \in Picked(picks)
    BY <1>3 DEF Picked
  <2>2. (CHOOSE b \in Court : picks[b] = picks[c]) = c
    BY <1>2, <1>3
  <2> QED
    BY <2>1, <2>2
<1>4. ASSUME NEW n \in Match, \A c \in Court : picks[c] # n
      PROVE  matchCourt'[n] = matchCourt[n]
  BY <1>4 DEF Picked
<1>5. \A c \in Court : courtMatch'[c] = IF picks[c] # NoMatch THEN picks[c]
                                       ELSE courtMatch[c]
  OBVIOUS
<1>6. /\ phase = "writing" /\ phase' = "written" /\ finished' = finished
      /\ UNCHANGED <<snapshot, pendingAssign, assigned, fetched, task>>
  OBVIOUS
<1>7. NothingLate' /\ Past' /\ OneEach' /\ PickedMeant' /\ PicksMeant'
  BY <1>6 DEF CalmInv, NothingLate, Past, OneEach, Open, PickedMeant, PicksMeant
<1>8. Shown'
  <2>1. ASSUME NEW n \in Match, Unclaimed(n)
        PROVE  matchCourt'[n] = matchCourt[n]
    BY <2>1, <1>1, <1>4, NotAmong DEF Unclaimed
  <2> QED
    BY <1>6, <2>1 DEF CalmInv, Shown, Unclaimed
<1>9. ClaimsMeant'
  <2>1. ASSUME NEW c \in Court, pendingAssign[c] # NoMatch, picks[c] = NoMatch,
               NEW n, n = pendingAssign[c]
        PROVE  n \in Match /\ matchCourt'[n] = matchCourt[n]
    <3>1. \A b \in Court : picks[b] # n
      BY <2>1, <1>1 DEF ClaimsExclusive
    <3> QED
      BY <2>1, <3>1, <1>4
  <2>2. \A d \in Desk : \A n, c : Gives(d, n, c) => Gives(d, n, c)'
    BY <1>6 DEF Gives, Writing
  <2>3. ASSUME NEW c \in Court, pendingAssign[c] # NoMatch,
               NEW n, n = pendingAssign[c]
        PROVE  /\ n \notin finished
               /\ matchCourt'[n] = c \/ \E d \in Desk : Gives(d, n, c)'
    <3>1. CASE picks[c] # NoMatch
      BY <2>3, <3>1, <1>1, <1>3
    <3>2. CASE picks[c] = NoMatch
      BY <2>1, <2>2, <2>3, <3>2 DEF CalmInv, ClaimsMeant, Claimed
    <3> QED
      BY <3>1, <3>2
  <2> QED
    BY <1>6, <2>3 DEF ClaimsMeant, Claimed
<1>10. ClaimedFree'
  <2>1. ASSUME NEW c \in Court, pendingAssign[c] # NoMatch,
               NEW n \in Match \ finished, matchCourt'[n] = c
        PROVE  n = pendingAssign[c]
    <3>1. CASE \A b \in Court : picks[b] # n
      BY <2>1, <3>1, <1>4 DEF CalmInv, ClaimedFree, Claimed
    <3>2. ASSUME NEW b \in Court, picks[b] = n
          PROVE  n = pendingAssign[c]
      BY <2>1, <3>2, <1>1, <1>3, NotAmong
    <3> QED
      BY <3>1, <3>2
  <2> QED
    BY <1>6, <2>1 DEF ClaimedFree, Claimed
<1>11. ASSUME NEW d \in Desk, Writing(d), NEW n \in Match, n = task[d].match
       PROVE  matchCourt'[n] = matchCourt[n]
  <2>1. \A c \in Court : picks[c] # n
    BY <1>1, <1>11, NotAmong
  <2> QED
    BY <2>1, <1>4
<1>12. Looking' /\ Assigning' /\ Finishing'
  <2>1. Assigning'
    BY <1>6, <1>11 DEF CalmInv, Assigning, Writing
  <2>2. Looking'
    <3>1. ASSUME NEW n \in Match, Unclaimed(n)
          PROVE  matchCourt'[n] = matchCourt[n] /\ Unclaimed(n)'
      BY <3>1, <1>1, <1>4, <1>6, NotAmong DEF Unclaimed
    <3>2. task' = task /\ finished' = finished
      BY <1>6
    <3>3. Looking
      BY DEF CalmInv
    <3> HIDE DEF Typed, TypeOK, AutoExecutes
    <3> QED
      BY <3>1, <3>2, <3>3 DEF Looking
  <2>3. ASSUME NEW d \in Desk, Writing(d), task[d].ends
        PROVE  matchCourt'[task[d].match] = matchCourt[task[d].match]
    BY <1>11, <2>3 DEF CalmInv, Finishing, Open, Writing
  <2>4. Finishing'
    BY <1>6, <2>3 DEF CalmInv, Finishing, Open, Writing
  <2> QED
    BY <2>1, <2>2, <2>4
<1>13. Agree'
  <2>1. ASSUME NEW n \in Match \ finished, NEW c \in Court
        PROVE  matchCourt'[n] = c <=> courtMatch'[c] = n
    <3>1. matchCourt[n] = c <=> courtMatch[c] = n
      BY DEF CalmInv, Agree
    <3>2. ASSUME NEW b \in Court, picks[b] = n
          PROVE  matchCourt'[n] = c <=> courtMatch'[c] = n
      <4>1. matchCourt'[n] = b /\ matchCourt[n] = NoCourt
        BY <3>2, <1>1, <1>3, NotAmong
      <4>2. picks[c] = n <=> c = b
        BY <3>2, <1>2, NotAmong
      <4> QED
        BY <4>1, <4>2, <3>1, <1>5, NotAmong
    <3>3. ASSUME \A b \in Court : picks[b] # n
          PROVE  matchCourt'[n] = c <=> courtMatch'[c] = n
      <4>1. matchCourt'[n] = matchCourt[n] /\ picks[c] # n
        BY <3>3, <1>4
      <4>2. picks[c] # NoMatch => matchCourt[n] # c
        BY <1>1, <4>1 DEF CalmInv, ClaimedFree, Claimed
      <4> QED
        BY <4>1, <4>2, <3>1, <1>5
    <3> QED
      BY <3>2, <3>3
  <2> QED
    BY <1>6, <2>1 DEF Agree
<1> QED
  BY <1>7, <1>8, <1>9, <1>10, <1>12, <1>13 DEF CalmInv

\* The automatic assignment looks for free courts and for matches that wait.
LEMMA LooksCalm ==
    ASSUME Typed, CalmInv, AutoLooks
    PROVE  CalmInv'
<1> USE DEF Typed, TypeOK, AutoLooks, btpVars
<1>1. /\ phase = "assign" /\ phase' \in {"publish", "picked"}
      /\ UNCHANGED <<btpVars, snapshot, pendingAssign, assigned, fetched, task>>
  OBVIOUS
<1>2. \A c \in Court : picks'[c] # NoMatch =>
          /\ pendingAssign[c] = NoMatch /\ Occupant(fetched, c) = {}
          /\ picks'[c] \in Match \ fetched.finished
          /\ fetched.court[picks'[c]] = NoCourt
          /\ Unclaimed(picks'[c])
  BY NotAmong DEF Picks, FreeCourts, Waiting, Ready, ClaimedMatches, Claimed,
     Unclaimed
<1>3. PickedMeant'
  BY <1>1, <1>2 DEF PickedMeant, Unclaimed, Occupant
<1>4. NothingLate' /\ Past' /\ Shown' /\ ClaimedFree' /\ Agree' /\ OneEach'
  BY <1>1 DEF CalmInv, NothingLate, Past, Shown, Unclaimed, ClaimedFree,
     Claimed, Agree, OneEach, Open
<1>5. ClaimsMeant'
  BY <1>1 DEF CalmInv, ClaimsMeant, Claimed, Gives, Writing
<1>6. Looking' /\ Assigning' /\ Finishing' /\ PicksMeant'
  BY <1>1 DEF CalmInv, Looking, Unclaimed, Assigning, Finishing, Open, Writing,
     PicksMeant
<1> QED
  BY <1>3, <1>4, <1>5, <1>6 DEF CalmInv

\* It gets every claim it asks for: nobody has claimed since it looked.
LEMMA PicksClaimed ==
    ASSUME Typed, calm, CalmInv, PicksDistinct, AutoClaims
    PROVE  CalmInv'
<1> USE DEF Typed, TypeOK, AutoClaims, btpVars
<1>1. /\ assigned' = {} /\ phase = "picked" /\ phase' = "writing"
      /\ UNCHANGED <<btpVars, snapshot, fetched, task, picks>>
  BY DEF CalmInv, NothingLate, UmpiredHere
<1>2. \A c \in Court : picks[c] # NoMatch =>
          /\ pendingAssign[c] = NoMatch /\ Occupant(fetched, c) = {}
          /\ picks[c] \in Match \ fetched.finished
          /\ fetched.court[picks[c]] = NoCourt
          /\ Unclaimed(picks[c])
  BY DEF CalmInv, PickedMeant
<1>3. \A c \in Court : pendingAssign'[c] = IF picks[c] # NoMatch THEN picks[c]
                                          ELSE pendingAssign[c]
  BY <1>2 DEF MayReserve, Unclaimed
<1>4. \A c \in Court : picks[c] # NoMatch =>
          /\ picks[c] \notin finished
          /\ matchCourt[picks[c]] = NoCourt
  BY <1>2 DEF CalmInv, Past, Shown
<1>5. ASSUME NEW c \in Court, picks[c] # NoMatch, NEW d \in Desk, Writing(d)
      PROVE  task[d].match # picks[c]
  <2>1. CASE task[d].ends
    BY <1>2, <1>5, <2>1, NotAmong DEF CalmInv, Finishing, Open, Writing
  <2>2. CASE ~task[d].ends
    BY <1>2, <1>5, <2>2 DEF CalmInv, Assigning, Unclaimed
  <2> QED
    BY <2>1, <2>2
<1>6. NothingLate' /\ Past' /\ Agree' /\ OneEach' /\ PickedMeant'
  BY <1>1 DEF CalmInv, NothingLate, Past, Agree, OneEach, Open, PickedMeant
<1>7. Shown'
  <2>1. \A n \in Match : Unclaimed(n)' => Unclaimed(n)
    BY <1>2, <1>3, NotAmong DEF Unclaimed
  <2> QED
    BY <1>1, <2>1 DEF CalmInv, Shown
<1>8. ClaimsMeant'
  <2>1. \A d \in Desk : \A n, c : Gives(d, n, c) => Gives(d, n, c)'
    BY <1>1 DEF Gives, Writing
  <2>2. ASSUME NEW c \in Court, pendingAssign'[c] # NoMatch,
               NEW n, n = pendingAssign'[c]
        PROVE  /\ n \notin finished
               /\ \/ matchCourt[n] = c
                  \/ \E d \in Desk : Gives(d, n, c)'
                  \/ picks[c] = n
    <3>1. CASE picks[c] # NoMatch
      BY <2>2, <3>1, <1>3, <1>4
    <3>2. CASE picks[c] = NoMatch
      BY <2>1, <2>2, <3>2, <1>1, <1>3 DEF CalmInv, ClaimsMeant, Claimed
    <3> QED
      BY <3>1, <3>2
  <2> QED
    BY <2>2, <1>1 DEF ClaimsMeant, Claimed
<1>9. ClaimedFree'
  <2>1. ASSUME NEW c \in Court, picks[c] # NoMatch, NEW n \in Match \ finished,
               matchCourt[n] = c
        PROVE  n = picks[c]
    BY <2>1, <1>2, EmptyIsFree
  <2> QED
    BY <1>1, <1>3, <2>1 DEF CalmInv, ClaimedFree, Claimed
<1>10. Looking'
  <2>1. ASSUME NEW m \in Match, Unclaimed(m), matchCourt[m] # NoCourt
        PROVE  Unclaimed(m)'
    BY <2>1, <1>3, <1>4 DEF Unclaimed
  <2> QED
    BY <1>1, <2>1, NotAmong DEF CalmInv, Looking
<1>11. Assigning'
  BY <1>1, <1>2, <1>3, NotAmong DEF CalmInv, Assigning, Writing
<1>12. Finishing'
  <2>1. ASSUME NEW d \in Desk, Open(d), task[d].ends
        PROVE  picks[task[d].from] = NoMatch
    BY <2>1, <1>2 DEF CalmInv, Finishing, Occupant
  <2> QED
    BY <1>1, <1>3, <2>1 DEF CalmInv, Finishing, Open, Writing
<1>13. PicksMeant'
  BY <1>1, <1>3, <1>4, <1>5 DEF PicksMeant, Writing
<1> QED
  BY <1>6, <1>7, <1>8, <1>9, <1>10, <1>11, <1>12, <1>13 DEF CalmInv

\* The answer ends the write of the loop.
LEMMA AutoEndsCalm ==
    ASSUME Typed, CalmInv, AutoAnswered
    PROVE  CalmInv'
<1> USE DEF AutoAnswered, AutoEnds, btpVars
<1>1. /\ phase = "written" /\ phase' = "publish"
      /\ UNCHANGED <<btpVars, snapshot, pendingAssign, assigned, fetched, task>>
  OBVIOUS
<1>2. NothingLate' /\ Past' /\ Shown' /\ ClaimedFree' /\ Agree' /\ OneEach'
  BY <1>1 DEF CalmInv, NothingLate, Past, Shown, Unclaimed, ClaimedFree,
     Claimed, Agree, OneEach, Open
<1>3. ClaimsMeant'
  BY <1>1 DEF CalmInv, ClaimsMeant, Claimed, Gives, Writing
<1>4. /\ Looking' /\ Assigning' /\ Finishing' /\ PicksMeant' /\ PickedMeant'
  BY <1>1 DEF CalmInv, Looking, Unclaimed, Assigning, Finishing, Open, Writing,
     PicksMeant, PickedMeant
<1> QED
  BY <1>2, <1>3, <1>4 DEF CalmInv

\* The new snapshot shows unclaimed matches where the fetched one does.
LEMMA PublishesCalm ==
    ASSUME Typed, calm, CalmInv, Publishes
    PROVE  CalmInv'
<1> USE DEF Typed, TypeOK, Publishes, btpVars
<1>1. assigned' = {} /\ phase' = "confirm" /\ snapshot' = fetched
  BY DEF UmpiredHere, CalmInv, NothingLate
<1>2. NothingLate' /\ Past' /\ Shown' /\ ClaimedFree' /\ Agree' /\ OneEach'
  BY <1>1 DEF CalmInv, NothingLate, Past, Shown, Unclaimed, ClaimedFree,
     Claimed, Agree, OneEach, Open
<1>3. ClaimsMeant'
  BY <1>1 DEF CalmInv, ClaimsMeant, Claimed, Gives, Writing
<1>4. Looking' /\ Assigning' /\ PicksMeant' /\ PickedMeant'
  BY <1>1 DEF CalmInv, Looking, Unclaimed, Assigning, Writing, PicksMeant,
     PickedMeant
<1>5. Finishing'
  BY <1>1 DEF CalmInv, Finishing, Open, Writing
<1> QED
  BY <1>2, <1>3, <1>4, <1>5 DEF CalmInv

\* Only what BTP already has is taken for confirmed.
LEMMA ConfirmsCalm ==
    ASSUME Typed, CalmInv, Confirms
    PROVE  CalmInv'
<1> USE DEF Typed, TypeOK, btpVars
<1>1. /\ phase = "confirm" /\ phase' = "idle" /\ snapshot = fetched
      /\ UNCHANGED <<btpVars, snapshot, assigned, fetched, task>>
  BY DEF Confirms, OfficialsEntries, CalmInv, NothingLate, Past
<1>2. \A c \in Court :
          pendingAssign'[c] = IF /\ pendingAssign[c] # NoMatch
                                 /\ fetched.court[pendingAssign[c]] = c
                              THEN NoMatch ELSE pendingAssign[c]
  BY <1>1 DEF Confirms
<1>3. NothingLate' /\ Past' /\ Agree' /\ OneEach' /\ PicksMeant' /\ PickedMeant'
  BY <1>1 DEF CalmInv, NothingLate, Past, Agree, OneEach, Open, PicksMeant,
     PickedMeant
<1>4. Shown'
  <2>1. ASSUME NEW n \in Match \ finished, NEW c \in Court,
               pendingAssign[c] = n, fetched.court[n] = c
        PROVE  matchCourt[n] = c
    <3>1. c \in Claimed
      BY <2>1, NotAmong DEF Claimed
    <3>2. \A d \in Desk : ~Gives(d, n, c)
      BY <2>1, NotAmong DEF CalmInv, Assigning, Finishing, Gives, Writing, Open
    <3> QED
      BY <2>1, <3>1, <3>2, <1>1 DEF CalmInv, ClaimsMeant
  <2>2. ASSUME NEW n \in Match \ finished, Unclaimed(n)'
        PROVE  fetched.court[n] = matchCourt[n]
    <3>1. CASE Unclaimed(n)
      BY <3>1 DEF CalmInv, Shown
    <3>2. ASSUME NEW c \in Court, pendingAssign[c] = n
          PROVE  fetched.court[n] = c
      BY <2>2, <3>2, <1>2 DEF Unclaimed
    <3> QED
      BY <3>1, <3>2, <2>1 DEF Unclaimed
  <2> QED
    BY <1>1, <2>2 DEF Shown
<1>5. ClaimsMeant'
  BY <1>1, <1>2 DEF CalmInv, ClaimsMeant, Claimed, Gives, Writing
<1>6. ClaimedFree'
  BY <1>1, <1>2 DEF CalmInv, ClaimedFree, Claimed
<1>7. Looking'
  <2>1. \A n \in Match : Unclaimed(n) => Unclaimed(n)'
    BY <1>2, NotAmong DEF Unclaimed
  <2> QED
    BY <1>1, <2>1 DEF CalmInv, Looking
<1>8. Assigning'
  BY <1>1, <1>2 DEF CalmInv, Assigning, Writing
<1>9. Finishing'
  BY <1>1, <1>2 DEF CalmInv, Finishing, Open, Writing
<1> QED
  BY <1>3, <1>4, <1>5, <1>6, <1>7, <1>8, <1>9 DEF CalmInv

LEMMA CalmSteps ==
    Typed /\ ClaimsExclusive /\ PicksDistinct /\ CalmInv /\ Quiet' /\ Quiet
        /\ [Next]_vars => CalmInv'
<1> SUFFICES ASSUME Typed, ClaimsExclusive, PicksDistinct, CalmInv, Quiet',
                    Quiet, [Next]_vars
             PROVE  CalmInv'
  OBVIOUS
<1>1. calm /\ ~crossed /\ ~crossed'
  BY DEF Quiet
<1>2. ASSUME NEW d \in Desk, DeskStep(d)
      PROVE  CalmInv'
  <2>1. ~ExecutesLate(d)
    BY DEF ExecutesLate, CalmInv, NothingLate
  <2>2. CASE Claims(d)
    <3>1. ~Crosses(task[d])
      BY <1>1, <2>2 DEF Claims
    <3> QED
      BY <2>2, <3>1, ClaimsCalm
  <2> QED
    BY <1>1, <1>2, <2>1, <2>2, DecidesCalm, RefusedCalm, AssignExecuted,
       FinishExecuted, AnsweredCalm DEF DeskStep, Fails, Dropped
<1>3. CASE Fetches
  BY <1>1, <1>3, FetchesCalm
<1>4. CASE AutoLooks
  BY <1>4, LooksCalm
<1>5. CASE AutoClaims
  BY <1>1, <1>5, PicksClaimed
<1>6. CASE AutoExecutes
  BY <1>6, PicksExecuted
<1>7. CASE AutoAnswered
  BY <1>7, AutoEndsCalm
<1>8. CASE Publishes
  BY <1>1, <1>8, PublishesCalm
<1>9. CASE Confirms
  BY <1>9, ConfirmsCalm
<1>10. ~(OfficialsExecute \/ OfficialsAnswered \/ OfficialsFail)
  BY DEF OfficialsExecute, OfficialsAnswered, OfficialsFail, CalmInv,
     NothingLate
<1>11. CASE UNCHANGED vars
  BY <1>11 DEF vars, btpVars, loopVars, CalmInv, NothingLate, Past, Shown,
     Unclaimed, ClaimsMeant, Claimed, Gives, Writing, ClaimedFree, Looking,
     Assigning, Finishing, Open, PickedMeant, Occupant, PicksMeant, OneEach,
     Agree
<1> QED
  BY <1>1, <1>2, <1>3, <1>4, <1>5, <1>6, <1>7, <1>8, <1>9, <1>10, <1>11
     DEF Next, LoopStep, AutoFails, ClaimLapses, PendingLapses, Quiet

LEMMA CalmInit == Init => CalmInv
<1> SUFFICES ASSUME Init
             PROVE  CalmInv
  OBVIOUS
<1>1. \A d \in Desk : task[d].at = "idle"
  BY DEF Init, IdleTask
<1>2. Claimed = {} /\ finished = {}
  BY DEF Init, NoPicks, Claimed
<1>3. NothingLate /\ Past /\ Shown /\ PickedMeant /\ PicksMeant
  BY <1>1 DEF Init, NothingLate, Past, Shown, View, PickedMeant, PicksMeant
<1>4. ClaimsMeant /\ ClaimedFree /\ Looking /\ Assigning /\ Finishing /\ OneEach
  BY <1>1, <1>2 DEF ClaimsMeant, ClaimedFree, Looking, Assigning, Finishing,
     OneEach, Writing, Open
<1>5. Agree
  <2>1. ASSUME NEW m \in Match, NEW c \in Court, matchCourt[m] = c
        PROVE  courtMatch[c] = m
    <3>1. (CHOOSE n \in Match : matchCourt[n] = c) = m
      BY <2>1, NotAmong DEF Init
    <3> QED
      BY <2>1, <3>1 DEF Init
  <2>2. ASSUME NEW m \in Match, NEW c \in Court, courtMatch[c] = m
        PROVE  matchCourt[m] = c
    BY <2>2, NotAmong DEF Init
  <2> QED
    BY <2>1, <2>2 DEF Agree
<1> QED
  BY <1>3, <1>4, <1>5 DEF CalmInv

\* A day that is quiet now has been quiet before.
LEMMA QuietBefore == [Next]_vars /\ Quiet' => Quiet
<1> SUFFICES ASSUME [Next]_vars, Quiet'
             PROVE  Quiet
  OBVIOUS
<1>1. CASE UNCHANGED dayVars
  BY <1>1, Zenon DEF Quiet, dayVars
<1>2. ASSUME NEW d \in Desk, Claims(d)
      PROVE  Quiet
  <2>1. calm' = calm /\ crossed' = (crossed \/ (calm /\ Crosses(task[d])))
    BY <1>2 DEF Claims
  <2> QED
    BY <2>1 DEF Quiet
<1>3. ASSUME NEW d \in Desk, DeskStep(d), ~Claims(d)
      PROVE  UNCHANGED dayVars
  BY <1>3 DEF DeskStep, Decides, Refused, Executes, Answered, Fails,
     ExecutesLate, Dropped
<1>4. LoopStep => UNCHANGED dayVars
  BY DEF LoopStep, Fetches, AutoLooks, AutoClaims, AutoExecutes, AutoAnswered,
     AutoFails, AutoEnds, Publishes, Confirms, OfficialsExecute,
     OfficialsAnswered, OfficialsFail
<1> QED
  BY <1>1, <1>2, <1>3, <1>4 DEF Next, ClaimLapses, PendingLapses, vars

\* On a day on which BTP answers in time, nobody frees a court by hand and
\* nobody overtakes a desk between its look and its claim, no court has two
\* matches in BTP and no match two courts, for any number of requests, results
\* and cycles and whatever old snapshots they decide from (try_reserve_court,
\* auto_assign, release_confirmed_reservations).
THEOREM SidesStayInAgreement == Spec => []SidesAgree
<1> DEFINE IInv == /\ Typed /\ ClaimsExclusive /\ PicksDistinct
                   /\ Quiet => CalmInv
<1>1. Init => IInv
  BY TypedInit, CalmInit, ExclusiveInit
<1>2. IInv /\ [Next]_vars => IInv'
  <2> SUFFICES ASSUME IInv, [Next]_vars
               PROVE  IInv'
    OBVIOUS
  <2>1. Typed' /\ ClaimsExclusive' /\ PicksDistinct'
    BY TypedSteps, ExclusiveSteps DEF Typed
  <2>2. Quiet' => CalmInv'
    BY QuietBefore, CalmSteps
  <2> QED
    BY <2>1, <2>2
<1>3. IInv => SidesAgree
  BY DEF CalmInv, Agree, SidesAgree
<1> QED
  BY <1>1, <1>2, <1>3, PTL DEF Spec
=============================================================================
