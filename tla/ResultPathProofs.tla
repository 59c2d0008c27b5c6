-------------------------- MODULE ResultPathProofs --------------------------
(***************************************************************************)
(* Theorems about ResultPath for every set of matches, results, tasks and  *)
(* every cap: type correctness, and - as long as one tournament stays      *)
(* open - that no acknowledged match is ever lost.                         *)
(***************************************************************************)
EXTENDS ResultPath, SequenceTheorems, TLAPS

-----------------------------------------------------------------------------
(* The operators on queues. *)

LEMMA CutIsSeq ==
    ASSUME NEW S, NEW q \in Seq(S), NEW i \in 1 .. Len(q)
    PROVE  LET a == SubSeq(q, 1, i - 1)
               b == SubSeq(q, i + 1, Len(q))
           IN  /\ a \o b \in Seq(S)
               /\ Len(a \o b) = Len(q) - 1
               /\ \A k \in 1 .. i - 1 : (a \o b)[k] = q[k]
               /\ \A k \in i + 1 .. Len(q) : (a \o b)[k - 1] = q[k]
<1> DEFINE a == SubSeq(q, 1, i - 1)
           b == SubSeq(q, i + 1, Len(q))
           n == Len(q)
<1>1. n \in Nat /\ i \in Int /\ 1 <= i /\ i <= n
  BY LenProperties
<1>2. /\ \A k \in 1 .. i - 1 : q[k] \in S
      /\ \A k \in i + 1 .. n : q[k] \in S
  BY <1>1, ElementOfSeq
<1>3. /\ a \in Seq(S) /\ Len(a) = i - 1
      /\ \A k \in 1 .. i - 1 : a[k] = q[k]
  <2>1. i - 1 \in Int /\ 1 \in Int
    BY <1>1
  <2>2. \A k \in 1 .. (i - 1) - 1 + 1 : a[k] = q[1 + k - 1]
    BY <1>2, <2>1, SubSeqProperties
  <2>3. \A k \in 1 .. i - 1 : a[k] = q[k]
    BY <1>1, <2>2
  <2>4. a \in Seq(S) /\ Len(a) = i - 1
    BY <1>1, <1>2, <2>1, SubSeqProperties
  <2> QED  BY <2>3, <2>4
<1>4. /\ b \in Seq(S) /\ Len(b) = n - i
      /\ \A k \in 1 .. n - i : b[k] = q[k + i]
  <2>1. i + 1 \in Int /\ n \in Int
    BY <1>1
  <2>2. \A k \in 1 .. n - (i + 1) + 1 : b[k] = q[(i + 1) + k - 1]
    BY <1>2, <2>1, SubSeqProperties
  <2>3. \A k \in 1 .. n - i : b[k] = q[k + i]
    BY <1>1, <2>2
  <2>4. b \in Seq(S) /\ Len(b) = n - i
    BY <1>1, <1>2, <2>1, SubSeqProperties
  <2> QED  BY <2>3, <2>4
<1> HIDE DEF a, b, n
<1>5. /\ a \o b \in Seq(S)
      /\ Len(a \o b) = n - 1
      /\ \A k \in 1 .. n - 1 :
           (a \o b)[k] = IF k <= i - 1 THEN a[k] ELSE b[k - (i - 1)]
  <2>1. /\ a \o b \in Seq(S)
        /\ Len(a \o b) = Len(a) + Len(b)
        /\ \A k \in 1 .. Len(a) + Len(b) :
             (a \o b)[k] = IF k <= Len(a) THEN a[k] ELSE b[k - Len(a)]
    BY <1>3, <1>4, ConcatProperties
  <2>2. Len(a) + Len(b) = n - 1 /\ Len(a) = i - 1
    BY <1>1, <1>3, <1>4
  <2> QED  BY <2>1, <2>2
<1>6. \A k \in 1 .. i - 1 : (a \o b)[k] = q[k]
  BY <1>1, <1>3, <1>5
<1>7. ASSUME NEW k \in i + 1 .. n
      PROVE  (a \o b)[k - 1] = q[k]
  <2>1. /\ k - 1 \in 1 .. n - 1 /\ ~(k - 1 <= i - 1)
        /\ k - i \in 1 .. n - i
        /\ (k - 1) - (i - 1) = k - i /\ (k - i) + i = k
    BY <1>1
  <2>2. (a \o b)[k - 1] = b[k - i]
    BY <1>5, <2>1
  <2>3. b[k - i] = q[(k - i) + i]
    BY <1>4, <2>1
  <2> QED  BY <2>1, <2>2, <2>3
<1> QED  BY <1>5, <1>6, <1>7 DEF a, b, n

\* Clearing the entry of one match leaves every other match queued.
LEMMA WithoutIsSeq ==
    ASSUME NEW q \in Seq(Entry), NEW m
    PROVE  /\ Without(q, m) \in Seq(Entry)
           /\ Len(Without(q, m)) <= Len(q)
           /\ \A x : x # m /\ Positions(q, x) # {}
                   => Positions(Without(q, m), x) # {}
<1>1. CASE Positions(q, m) = {}
  BY <1>1, LenProperties DEF Without
<1>2. CASE Positions(q, m) # {}
  <2> DEFINE i == CHOOSE i \in Positions(q, m) : TRUE
             c == SubSeq(q, 1, i - 1) \o SubSeq(q, i + 1, Len(q))
  <2>1. i \in 1 .. Len(q) /\ q[i].match = m
    BY <1>2 DEF Positions
  <2>2. Without(q, m) = c
    BY <1>2 DEF Without
  <2> HIDE DEF i
  <2>3. /\ c \in Seq(Entry)
        /\ Len(c) = Len(q) - 1
        /\ \A k \in 1 .. i - 1 : c[k] = q[k]
        /\ \A k \in i + 1 .. Len(q) : c[k - 1] = q[k]
    BY <2>1, CutIsSeq
  <2> HIDE DEF c
  <2>4. Len(q) \in Nat /\ DOMAIN c = 1 .. Len(q) - 1
    BY <2>3, LenProperties
  <2>5. ASSUME NEW x, x # m, Positions(q, x) # {}
        PROVE  Positions(c, x) # {}
    <3>1. PICK j \in 1 .. Len(q) : q[j].match = x
      BY <2>5 DEF Positions
    <3>2. j # i
      BY <2>1, <2>5, <3>1
    <3>3. CASE j < i
      <4>1. j \in DOMAIN c /\ c[j] = q[j]
        BY <2>1, <2>3, <2>4, <3>3
      <4> QED  BY <3>1, <4>1 DEF Positions
    <3>4. CASE j > i
      <4>1. j - 1 \in DOMAIN c /\ c[j - 1] = q[j]
        BY <2>1, <2>3, <2>4, <3>4
      <4> QED  BY <3>1, <4>1 DEF Positions
    <3> QED  BY <2>1, <3>2, <3>3, <3>4
  <2> QED  BY <2>2, <2>3, <2>4, <2>5
<1> QED  BY <1>1, <1>2

\* A replacement keeps the length of the queue and whose entries it holds.
LEMMA ReplacedIsSeq ==
    ASSUME NEW q \in Seq(Entry), NEW m, NEW r \in Result
    PROVE  /\ Replaced(q, m, r) \in Seq(Entry)
           /\ Len(Replaced(q, m, r)) = Len(q)
           /\ \A x : Positions(Replaced(q, m, r), x) = Positions(q, x)
<1> DEFINE new(i) == IF q[i].match = m THEN [q[i] EXCEPT !.result = r] ELSE q[i]
<1>1. \A i \in 1 .. Len(q) : q[i] \in Entry
  BY ElementOfSeq
<1>2. \A i \in 1 .. Len(q) : new(i) \in Entry /\ new(i).match = q[i].match
  BY <1>1 DEF Entry
<1>3. Replaced(q, m, r) = [i \in 1 .. Len(q) |-> new(i)]
  BY DEF Replaced
<1> HIDE DEF new
<1>4. Len(q) \in Nat
  BY LenProperties
<1>5. /\ Replaced(q, m, r) \in Seq(Entry)
      /\ Len(Replaced(q, m, r)) = Len(q)
  BY <1>2, <1>3, <1>4, IsASeq
<1>6. \A x : Positions(Replaced(q, m, r), x) = Positions(q, x)
  BY <1>2, <1>3 DEF Positions
<1> QED  BY <1>5, <1>6

LEMMA RotateIsSeq ==
    ASSUME NEW q \in Seq(Entry), NEW k \in 0 .. Len(q)
    PROVE  Rotate(q, k) \in Seq(Entry)
<1>1. SubSeq(q, k + 1, Len(q)) \in Seq(Entry) /\ SubSeq(q, 1, k) \in Seq(Entry)
  BY SubSeqProperties
<1> QED  BY <1>1, ConcatProperties DEF Rotate

-----------------------------------------------------------------------------
(* Type correctness.  TypeOK alone is not inductive: a task that works has a *)
(* match and a result (the idle record has neither), so does the flush while *)
(* it has an entry in hand, and the file is read while the queue is empty.   *)

Working == {"writing", "applied", "persistCleared", "healing", "rewriting",
            "rewritten"}

WorkInv ==
    /\ phase \in Working => entry \in Entry
    /\ \A a \in Request : request[a].at # "idle" =>
          request[a].match \in Match /\ request[a].result \in Result
    /\ \A m \in Match : lastDirect[m].sinceStart \/ lastDirect[m].inTtl =>
          lastDirect[m].result \in Result

BootInv ==
    /\ phase # "idle" => fetched \in Snapshot
    /\ ~Loaded => /\ btpRetry = <<>>
                  /\ phase \in {"idle", "fetched", "flushed"}
                  /\ \A a \in Request : request[a].at \in
                        {"idle", "sent", "ok", "refused", "invalid"}

TypeInv == TypeOK /\ WorkInv /\ BootInv

-----------------------------------------------------------------------------
(* What protects an acknowledged match: BTP has a result (or the entry was   *)
(* given up), or the queue holds it and the file was written after that.     *)

Settled(m) == btp[m] # NoResult \/ m \in dropped

SameTournament ==
    /\ file.entries # <<>> => file.tournament = tournament
    /\ Loaded => snapshot.tournament = tournament
    /\ fetched # NoSnapshot => fetched.tournament = tournament

WithinCap ==
    /\ Len(btpRetry) <= BTP_RETRY_CAP
    /\ Len(file.entries) <= BTP_RETRY_CAP

WrittenInv ==
    /\ \A a \in Request :
          request[a].at \in {"applied", "persistCleared", "noting"}
          => btp[request[a].match] # NoResult
    /\ phase = "applied" => btp[entry.match] # NoResult
    /\ \A m \in Match : lastDirect[m].inTtl => btp[m] # NoResult
    /\ \A m \in fetched.decided : btp[m] # NoResult

CoveredInv ==
    /\ \A m \in Match : Loaded /\ OnFile(m) => Queued(m) \/ Settled(m)
    /\ \A a \in Request :
          request[a].at = "persistQueued"
          => Queued(request[a].match) \/ Settled(request[a].match)

ToldInv ==
    /\ \A a \in Request : request[a].at = "ok" => Safe(request[a].match)
    /\ PromisedIsSafe

SafeInv == SameTournament /\ WithinCap /\ WrittenInv /\ CoveredInv /\ ToldInv

-----------------------------------------------------------------------------
(* Type correctness, step by step. *)

LEMMA QueueTypes ==
    ASSUME TypeOK, NEW m \in Match, NEW r \in Result, QueueBtpRetry(m, r)
    PROVE  /\ btpRetry' \in Seq(Entry)
           /\ kept' \subseteq Match \X Result
           /\ dropped' \subseteq Match
<1>1. NewEntry(m, r) \in Entry
  BY DEF NewEntry, Entry
<1>2. btpRetry \in Seq(Entry) /\ dropped \subseteq Match
  BY DEF TypeOK
<1>3. kept' \subseteq Match \X Result
  BY DEF QueueBtpRetry, TypeOK
<1>4. CASE Queued(m)
  BY <1>2, <1>3, <1>4, ReplacedIsSeq DEF QueueBtpRetry
<1>5. CASE ~Queued(m) /\ Len(btpRetry) < BTP_RETRY_CAP
  BY <1>1, <1>2, <1>3, <1>5, AppendProperties, ConstantsAssumption
  DEF QueueBtpRetry
<1>6. CASE ~Queued(m) /\ Len(btpRetry) >= BTP_RETRY_CAP
  <2>1. btpRetry # <<>>
    BY <1>6, ConstantsAssumption, EmptySeq
  <2>2. Tail(btpRetry) \in Seq(Entry) /\ Head(btpRetry) \in Entry
    BY <1>2, <2>1, HeadTailProperties
  <2>3. Head(btpRetry).match \in Match
    BY <2>2 DEF Entry
  <2>4. /\ btpRetry' = Append(Tail(btpRetry), NewEntry(m, r))
        /\ dropped' = dropped \cup {Head(btpRetry).match}
    BY <1>2, <1>6, LenProperties, ConstantsAssumption DEF QueueBtpRetry
  <2>5. btpRetry' \in Seq(Entry)
    BY <1>1, <2>2, <2>4, AppendProperties
  <2> QED  BY <1>2, <1>3, <2>3, <2>4, <2>5
<1> QED  BY <1>2, <1>4, <1>5, <1>6, LenProperties, ConstantsAssumption

LEMMA LoadTypes ==
    ASSUME TypeInv, LoadBtpRetry(fetched)
    PROVE  btpRetry' \in Seq(Entry)
<1>1. btpRetry \in Seq(Entry) /\ file.entries \in Seq(Entry)
  BY DEF TypeInv, TypeOK
<1>2. CASE Loaded \/ file.tournament # fetched.tournament
  BY <1>1, <1>2 DEF LoadBtpRetry
<1>3. CASE ~Loaded /\ file.tournament = fetched.tournament
  <2> DEFINE q == file.entries
             n == IF Len(q) < BTP_RETRY_CAP THEN Len(q) ELSE BTP_RETRY_CAP
  <2>1. btpRetry = <<>>
    BY <1>3 DEF TypeInv, BootInv
  <2>2. btpRetry \o q = q
    BY <1>1, <2>1, ConcatEmptySeq
  <2>3. btpRetry' = SubSeq(q, 1, n)
    BY <1>3, <2>1, <2>2 DEF LoadBtpRetry
  <2>4. n \in Int /\ n <= Len(q) /\ Len(q) \in Nat
    BY <1>1, LenProperties, ConstantsAssumption
  <2>5. \A i \in 1 .. n : q[i] \in Entry
    BY <1>1, <2>4, ElementOfSeq
  <2> HIDE DEF q, n
  <2> QED  BY <2>3, <2>4, <2>5, SubSeqProperties
<1> QED  BY <1>2, <1>3

LEMMA PersistTypes ==
    ASSUME TypeInv, PersistBtpRetry
    PROVE  file' \in [tournament : Tournament \cup {NoTournament},
                      entries : Seq(Entry)]
  BY DEF PersistBtpRetry, TypeInv, TypeOK, Loaded, Snapshot, NoSnapshot

\* What the three ways to change the tasks do.
LEMMA GotoFacts ==
    ASSUME TypeOK, NEW a \in Request, NEW at \in RequestStates, Goto(a, at)
    PROVE  /\ request' \in [Request -> RequestRecord]
           /\ \A b \in Request :
                /\ request'[b].at = IF b = a THEN at ELSE request[b].at
                /\ request'[b].match = request[b].match
                /\ request'[b].result = request[b].result
<1>1. request \in [Request -> RequestRecord]
  BY DEF TypeOK
<1> QED  BY <1>1 DEF Goto, RequestRecord

LEMMA SetTaskFacts ==
    ASSUME TypeOK, NEW a \in Request, NEW task \in RequestRecord,
           request' = [request EXCEPT ![a] = task]
    PROVE  /\ request' \in [Request -> RequestRecord]
           /\ \A b \in Request :
                request'[b] = IF b = a THEN task ELSE request[b]
<1>1. request \in [Request -> RequestRecord]
  BY DEF TypeOK
<1> QED  BY <1>1

LEMMA StopFacts ==
    ASSUME TypeOK, NEW m, StopListening(m)
    PROVE  /\ request' \in [Request -> RequestRecord]
           /\ \A b \in Request :
                /\ request'[b].at = request[b].at
                /\ request'[b].match = request[b].match
                /\ request'[b].result = request[b].result
<1>1. request \in [Request -> RequestRecord]
  BY DEF TypeOK
<1>2. \A b \in Request : [request[b] EXCEPT !.listening = FALSE] \in RequestRecord
  BY <1>1 DEF RequestRecord
<1> QED  BY <1>1, <1>2 DEF StopListening, RequestRecord

LEMMA IdleIsTask == IdleRequest \in RequestRecord
  BY DEF IdleRequest, RequestRecord, RequestStates

LEMMA CountTypes ==
    ASSUME TypeOK, NEW m \in Match, CountEntered(m)
    PROVE  budget' \in Budget
<1>1. budget \in Budget
  BY DEF TypeOK
<1>2. [budget.entered EXCEPT ![m] = @ + 1] \in [Match -> Nat]
  BY <1>1 DEF Budget
<1>3. budget' = [budget EXCEPT !.entered = [budget.entered EXCEPT ![m] = @ + 1]]
  BY DEF CountEntered
<1> QED  BY <1>1, <1>2, <1>3 DEF Budget

LEMMA TabletTypes ==
    ASSUME TypeInv, NEW m \in Match, TabletStep(m)
    PROVE  TypeInv'
<1>1. CASE Submit(m)
  <2>1. PICK r \in Result : pendingResult' = [pendingResult EXCEPT ![m] = r]
    BY <1>1, ConstantsAssumption DEF Submit, Enterable, TypeInv, TypeOK
  <2>2. budget' \in Budget
    BY <1>1, CountTypes DEF Submit, TypeInv
  <2> QED  BY <1>1, <2>1, <2>2 DEF Submit, TypeInv, TypeOK, WorkInv,
           BootInv, hostVars, syncVars, history, Loaded
<1>2. CASE Reopen(m)
  BY <1>2, StopFacts DEF Reopen, TypeInv, TypeOK, WorkInv,
           BootInv, hostVars, syncVars, history, Loaded
<1>3. CASE ReleaseFinalized(m)
  BY <1>3, StopFacts DEF ReleaseFinalized, TypeInv, TypeOK, WorkInv,
           BootInv, hostVars, syncVars, history, Loaded
<1>4. CASE TrySubmitPending(m)
  <2> DEFINE task == [at |-> "sent", match |-> m, result |-> pendingResult[m],
                      from |-> "tablet", listening |-> TRUE]
  <2>1. PICK a \in Request : request' = [request EXCEPT ![a] = task]
    BY <1>4 DEF TrySubmitPending
  <2>2. task \in RequestRecord /\ task.result \in Result
    BY <1>4 DEF TrySubmitPending, RequestRecord, RequestStates, TypeInv, TypeOK
  <2> QED  BY <1>4, <2>1, <2>2, SetTaskFacts DEF TrySubmitPending, TypeInv, TypeOK, WorkInv,
           BootInv, hostVars, syncVars, history, Loaded
<1> QED  BY <1>1, <1>2, <1>3, <1>4 DEF TabletStep

LEMMA RequestTypes ==
    ASSUME TypeInv, NEW a \in Request, RequestStep(a)
    PROVE  TypeInv'
<1> DEFINE Moved(at) ==
             /\ request' \in [Request -> RequestRecord]
             /\ \A b \in Request :
                  /\ request'[b].at = IF b = a THEN at ELSE request[b].at
                  /\ request'[b].match = request[b].match
                  /\ request'[b].result = request[b].result
           Became(task) ==
             /\ request' \in [Request -> RequestRecord]
             /\ \A b \in Request :
                  request'[b] = IF b = a THEN task ELSE request[b]
<1>a. \A at \in RequestStates : Goto(a, at) => Moved(at)
  BY GotoFacts DEF TypeInv
<1>b. \A task \in RequestRecord :
         request' = [request EXCEPT ![a] = task] => Became(task)
  BY SetTaskFacts DEF TypeInv
<1>c. request' = [request EXCEPT ![a] = IdleRequest] => Became(IdleRequest)
  BY <1>b, IdleIsTask
<1>1. CASE AbortFetch(a)
  <2> DEFINE task == [request[a] EXCEPT !.listening = FALSE]
  <2>1. request[a] \in RequestRecord
    BY DEF TypeInv, TypeOK
  <2>2. /\ task \in RequestRecord
        /\ task.at = request[a].at
        /\ task.match = request[a].match
        /\ task.result = request[a].result
    BY <2>1 DEF RequestRecord
  <2>3. request' = [request EXCEPT ![a] = task]
    BY <1>1 DEF AbortFetch
  <2> HIDE DEF task
  <2>4. Became(task)
    BY <1>b, <2>2, <2>3
  <2> QED  BY <1>1, <2>2, <2>4 DEF AbortFetch, TypeInv, TypeOK,
           WorkInv, BootInv, hostVars, syncVars, history, Loaded
<1>2. CASE AnswerOffCourt(a)
  BY <1>2, <1>a DEF AnswerOffCourt, RequestStates, TypeInv, TypeOK,
           WorkInv, BootInv, hostVars, syncVars, history, Loaded
<1>3. CASE RejectPayload(a)
  BY <1>3, <1>a DEF RejectPayload, RequestStates, TypeInv, TypeOK,
           WorkInv, BootInv, hostVars, syncVars, history, Loaded
<1>4. CASE BeginWrite(a)
  BY <1>4, <1>a DEF BeginWrite, OnCourt, RequestStates, TypeInv, TypeOK,
           WorkInv, BootInv, hostVars, syncVars, history, Loaded
<1>5. CASE DeskEntersResult(a)
  <2>1. PICK m \in Match, r \in Result :
           /\ request' = [request EXCEPT ![a] =
                [at |-> "writing", match |-> m, result |-> r,
                 from |-> "desk", listening |-> TRUE]]
           /\ CountEntered(m)
    BY <1>5, ConstantsAssumption DEF DeskEntersResult, Enterable, TypeInv, TypeOK
  <2>2. budget' \in Budget
    BY <2>1, CountTypes DEF TypeInv
  <2>3. [at |-> "writing", match |-> m, result |-> r,
         from |-> "desk", listening |-> TRUE] \in RequestRecord
    BY DEF RequestRecord, RequestStates
  <2>4. Became([at |-> "writing", match |-> m, result |-> r,
                from |-> "desk", listening |-> TRUE])
    BY <1>b, <2>1, <2>3
  <2> QED  BY <1>5, <2>2, <2>4 DEF DeskEntersResult, TypeInv, TypeOK,
           WorkInv, BootInv, hostVars, syncVars, history, Loaded
<1>6. CASE BtpApplies(a)
  <2>1. Moved("applied")
    BY <1>6, <1>a DEF BtpApplies, RequestStates
  <2>2. btp' \in [Match -> Result \cup {NoResult, Hand}] /\ kept' \subseteq Match \X Result
    BY <1>6 DEF BtpApplies, TypeInv, TypeOK, WorkInv
  <2> QED  BY <1>6, <2>1, <2>2 DEF BtpApplies, TypeInv, TypeOK,
           WorkInv, BootInv, hostVars, syncVars, history, Loaded
<1>7. CASE WriteFails(a)
  <2>1. Moved("persistQueued")
    BY <1>7, <1>a DEF WriteFails, RequestStates
  <2>2. request[a].match \in Match /\ request[a].result \in Result
    BY <1>7 DEF WriteFails, TypeInv, WorkInv
  <2>3. /\ btpRetry' \in Seq(Entry)
        /\ kept' \subseteq Match \X Result
        /\ dropped' \subseteq Match
    BY <1>7, <2>2, QueueTypes DEF WriteFails, TypeInv
  <2> QED  BY <1>7, <2>1, <2>3 DEF WriteFails, TypeInv, TypeOK,
           WorkInv, BootInv, hostVars, syncVars, history, Loaded
<1>8. CASE WriteSucceeds(a)
  <2>1. Moved("persistCleared")
    BY <1>8, <1>a DEF WriteSucceeds, RequestStates
  <2>2. btpRetry' \in Seq(Entry)
    BY <1>8, WithoutIsSeq DEF WriteSucceeds, ClearBtpRetry, TypeInv, TypeOK
  <2> QED  BY <1>8, <2>1, <2>2 DEF WriteSucceeds, TypeInv, TypeOK,
           WorkInv, BootInv, hostVars, syncVars, history, Loaded
<1>9. CASE PersistRequest(a)
  <2>1. PICK at \in {"ok", "noting"} : Moved(at)
    BY <1>9, <1>a DEF PersistRequest, RequestStates
  <2>2. file' \in [tournament : Tournament \cup {NoTournament},
                   entries : Seq(Entry)]
    BY <1>9, PersistTypes DEF PersistRequest
  <2>3. request[a].at \in {"persistQueued", "persistCleared"}
    BY <1>9 DEF PersistRequest
  <2> QED  BY <1>9, <2>1, <2>2, <2>3 DEF PersistRequest, TypeInv, TypeOK,
           WorkInv, BootInv, hostVars, syncVars, history, Loaded
<1>10. CASE NoteDirectWrite(a)
  <2>1. Moved("ok")
    BY <1>10, <1>a DEF NoteDirectWrite, RequestStates
  <2>2. request[a].match \in Match /\ request[a].result \in Result
    BY <1>10 DEF NoteDirectWrite, TypeInv, WorkInv
  <2>3. /\ lastDirect' \in [Match -> Direct]
        /\ \A m \in Match : lastDirect'[m] = IF m = request[a].match
             THEN [result |-> request[a].result, sinceStart |-> TRUE, inTtl |-> TRUE]
             ELSE lastDirect[m]
    BY <1>10, <2>2 DEF NoteDirectWrite, TypeInv, TypeOK, Direct
  <2> QED  BY <1>10, <2>1, <2>2, <2>3 DEF NoteDirectWrite, TypeInv, TypeOK,
           WorkInv, BootInv, hostVars, syncVars, history, Loaded
<1>11. CASE Answer(a)
  <2>1. Became(IdleRequest)
    BY <1>11, <1>c DEF Answer
  <2>2. request[a].match \in Match /\ request[a].result \in Result
    BY <1>11 DEF Answer, Answered, TypeInv, WorkInv
  <2>3. /\ promised' \in [Match -> Result \cup {NoResult}]
        /\ pendingResult' \in [Match -> Result \cup {NoResult}]
    BY <1>11, <2>2 DEF Answer, TypeInv, TypeOK
  <2> QED  BY <1>11, <2>1, <2>3 DEF Answer, IdleRequest, TypeInv, TypeOK,
           WorkInv, BootInv, hostVars, syncVars, history, Loaded
<1>12. CASE LoseMessage(a)
  BY <1>12, <1>c DEF LoseMessage, IdleRequest, TypeInv, TypeOK,
           WorkInv, BootInv, hostVars, syncVars, history, Loaded
<1>13. CASE DropTask(a)
  BY <1>13, <1>c DEF DropTask, IdleRequest, TypeInv, TypeOK,
           WorkInv, BootInv, hostVars, syncVars, history, Loaded
<1> QED  BY <1>1, <1>2, <1>3, <1>4, <1>5, <1>6, <1>7, <1>8, <1>9, <1>10,
            <1>11, <1>12, <1>13 DEF RequestStep

LEMMA SyncTypes ==
    ASSUME TypeInv, SyncStep
    PROVE  TypeInv'
<1>a. btpRetry \in Seq(Entry) /\ rest \in Seq(Entry)
  BY DEF TypeInv, TypeOK
<1>b. rest # <<>> => /\ Head(rest) \in Entry
                     /\ Head(rest).match \in Match
                     /\ Tail(rest) \in Seq(Entry)
  <2>1. rest # <<>> => Head(rest) \in Entry /\ Tail(rest) \in Seq(Entry)
    BY <1>a, HeadTailProperties
  <2> QED  BY <2>1 DEF Entry
<1>c. \A m : Without(btpRetry, m) \in Seq(Entry)
  BY <1>a, WithoutIsSeq
<1>d. PersistBtpRetry =>
        file' \in [tournament : Tournament \cup {NoTournament}, entries : Seq(Entry)]
  BY PersistTypes
<1>e. \A m \in Match, r \in Result : QueueBtpRetry(m, r) =>
        /\ btpRetry' \in Seq(Entry)
        /\ kept' \subseteq Match \X Result
        /\ dropped' \subseteq Match
  BY QueueTypes DEF TypeInv
<1>f. entry \in Entry => entry.match \in Match /\ entry.result \in Result
  BY DEF Entry
<1>1. CASE FetchSnapshot
  <2>1. fetched' \in Snapshot
    BY <1>1 DEF FetchSnapshot, Snapshot, TypeInv, TypeOK
  <2> QED  BY <1>1, <2>1 DEF FetchSnapshot, TypeInv, TypeOK,
           WorkInv, BootInv, hostVars, syncVars, history, Loaded, Phases, Working
<1>2. CASE FlushBegins
  <2>1. rest' \in Seq(Entry) /\ retryStart' \in Nat
    <3>1. Len(btpRetry) \in Nat \ {0}
      BY <1>2, <1>a, EmptySeq DEF FlushBegins
    <3>2. retryStart % Len(btpRetry) \in 0 .. Len(btpRetry)
      BY <3>1 DEF TypeInv, TypeOK
    <3>3. rest' \in Seq(Entry)
      BY <1>2, <1>a, <3>2, RotateIsSeq DEF FlushBegins
    <3> QED  BY <1>2, <3>3, ConstantsAssumption DEF FlushBegins, TypeInv, TypeOK
  <2> QED  BY <1>2, <2>1 DEF FlushBegins, TypeInv, TypeOK,
           WorkInv, BootInv, hostVars, syncVars, history, Loaded, Phases, Working
<1>3. CASE FlushIsSkipped
  BY <1>3 DEF FlushIsSkipped, TypeInv, TypeOK,
           WorkInv, BootInv, hostVars, syncVars, history, Loaded, Phases, Working
<1>4. CASE FlushPasses
  BY <1>4, <1>b DEF FlushPasses, Choosing, TypeInv, TypeOK,
           WorkInv, BootInv, hostVars, syncVars, history, Loaded, Phases, Working
<1>5. CASE FlushDrops
  BY <1>5, <1>b, <1>c DEF FlushDrops, Choosing, ClearBtpRetry, TypeInv, TypeOK,
           WorkInv, BootInv, hostVars, syncVars, history, Loaded, Phases, Working
<1>6. CASE FlushWrites
  <2> DEFINE m == Head(rest).match
  <2>1. m \in Match
    BY <1>6, <1>b DEF FlushWrites, Choosing
  <2>2. lastDirect' = [lastDirect EXCEPT ![m].sinceStart = FALSE]
    BY <1>6 DEF FlushWrites
  <2> HIDE DEF m
  <2>d. lastDirect \in [Match -> Direct]
    BY DEF TypeInv, TypeOK
  <2>3. /\ lastDirect' \in [Match -> Direct]
        /\ \A x \in Match :
             /\ lastDirect'[x].result = lastDirect[x].result
             /\ lastDirect'[x].inTtl = lastDirect[x].inTtl
             /\ lastDirect'[x].sinceStart => lastDirect[x].sinceStart
    BY <2>1, <2>2, <2>d DEF Direct
  <2> QED  BY <1>6, <1>b, <2>3 DEF FlushWrites, Choosing, TypeInv, TypeOK,
           WorkInv, BootInv, hostVars, syncVars, history, Loaded, Phases, Working
<1>7. CASE FlushEnds
  BY <1>7 DEF FlushEnds, TypeInv, TypeOK,
           WorkInv, BootInv, hostVars, syncVars, history, Loaded, Phases, Working
<1>8. CASE FlushApplies
  <2>1. entry \in Entry /\ phase' \in {"applied", "rewritten"}
    BY <1>8 DEF FlushApplies, TypeInv, WorkInv, Working
  <2>2. /\ btp' \in [Match -> Result \cup {NoResult, Hand}]
        /\ kept' \subseteq Match \X Result
    BY <1>8, <1>f, <2>1 DEF FlushApplies, TypeInv, TypeOK
  <2> QED  BY <1>8, <2>1, <2>2 DEF FlushApplies, TypeInv, TypeOK,
           WorkInv, BootInv, hostVars, syncVars, history, Loaded, Phases, Working
<1>9. CASE FlushFails
  BY <1>9 DEF FlushFails, TypeInv, TypeOK,
           WorkInv, BootInv, hostVars, syncVars, history, Loaded, Phases, Working
<1>10. CASE FlushSucceeds
  BY <1>10, <1>c DEF FlushSucceeds, ClearBtpRetry, TypeInv, TypeOK,
           WorkInv, BootInv, hostVars, syncVars, history, Loaded, Phases, Working
<1>11. CASE PersistFlush
  BY <1>11, <1>d DEF PersistFlush, TypeInv, TypeOK,
           WorkInv, BootInv, hostVars, syncVars, history, Loaded, Phases, Working
<1>12. CASE FlushHeals
  <2>1. entry \in Entry
    BY <1>12 DEF FlushHeals, TypeInv, WorkInv, Working
  <2>2. CASE lastDirect[entry.match].sinceStart
    <3>1. lastDirect[entry.match].result \in Result
      BY <1>f, <2>1, <2>2 DEF TypeInv, WorkInv
    <3>2. /\ entry' = [entry EXCEPT !.result = lastDirect[entry.match].result]
          /\ phase' = "rewriting"
      BY <1>12, <2>2 DEF FlushHeals
    <3>3. entry' \in Entry
      BY <2>1, <3>1, <3>2 DEF Entry
    <3> QED  BY <1>12, <3>2, <3>3 DEF FlushHeals, TypeInv, TypeOK,
           WorkInv, BootInv, hostVars, syncVars, history, Loaded, Phases, Working
  <2>3. CASE ~lastDirect[entry.match].sinceStart
    BY <1>12, <2>3 DEF FlushHeals, TypeInv, TypeOK,
           WorkInv, BootInv, hostVars, syncVars, history, Loaded, Phases, Working
  <2> QED  BY <2>2, <2>3
<1>13. CASE RewriteFails
  <2>1. entry.match \in Match /\ entry.result \in Result
    BY <1>13, <1>f DEF RewriteFails, TypeInv, WorkInv, Working
  <2> QED  BY <1>13, <1>e, <2>1 DEF RewriteFails, TypeInv, TypeOK,
           WorkInv, BootInv, hostVars, syncVars, history, Loaded, Phases, Working
<1>14. CASE RewriteSucceeds
  BY <1>14 DEF RewriteSucceeds, TypeInv, TypeOK,
           WorkInv, BootInv, hostVars, syncVars, history, Loaded, Phases, Working
<1>15. CASE PublishSnapshot
  <2>1. fetched \in Snapshot /\ fetched # NoSnapshot
    BY <1>15, ConstantsAssumption DEF PublishSnapshot, TypeInv, BootInv, Snapshot, NoSnapshot
  <2>2. btpRetry' \in Seq(Entry)
    BY <1>15, LoadTypes DEF PublishSnapshot
  <2> QED  BY <1>15, <2>1, <2>2 DEF PublishSnapshot, TypeInv, TypeOK,
           WorkInv, BootInv, hostVars, syncVars, history, Loaded, Phases, Working
<1> QED  BY <1>1, <1>2, <1>3, <1>4, <1>5, <1>6, <1>7, <1>8, <1>9, <1>10,
            <1>11, <1>12, <1>13, <1>14, <1>15 DEF SyncStep

LEMMA EnvironmentTypes ==
    ASSUME TypeInv, EnvironmentStep
    PROVE  TypeInv'
<1>b. budget \in Budget
  BY DEF TypeInv, TypeOK
<1>1. ASSUME NEW m \in Match, DirectWriteExpires(m)
      PROVE  TypeInv'
  <2>1. /\ lastDirect' \in [Match -> Direct]
        /\ \A x \in Match :
             /\ lastDirect'[x].result = lastDirect[x].result
             /\ lastDirect'[x].sinceStart = lastDirect[x].sinceStart
             /\ lastDirect'[x].inTtl => lastDirect[x].inTtl
    BY <1>1 DEF DirectWriteExpires, TypeInv, TypeOK, Direct
  <2> QED  BY <1>1, <2>1 DEF DirectWriteExpires, TypeInv, TypeOK,
           WorkInv, BootInv, hostVars, syncVars, history, Loaded, Phases, Working
<1>2. ASSUME NEW m \in Match, HandEntry(m)
      PROVE  TypeInv'
  BY <1>2 DEF HandEntry, TypeInv, TypeOK,
           WorkInv, BootInv, hostVars, syncVars, history, Loaded, Phases, Working
<1>3. CASE EntryAges
  <2>1. PICK i \in DOMAIN btpRetry :
           btpRetry' = [btpRetry EXCEPT ![i].old = TRUE]
    BY <1>3 DEF EntryAges
  <2>2. btpRetry \in Seq(Entry) /\ i \in 1 .. Len(btpRetry) /\ btpRetry # <<>>
    BY <2>1, LenProperties DEF TypeInv, TypeOK
  <2>3. btpRetry[i] \in Entry
    BY <2>2, ElementOfSeq
  <2>4. [btpRetry[i] EXCEPT !.old = TRUE] \in Entry
    BY <2>3 DEF Entry
  <2>5. btpRetry' \in Seq(Entry)
    BY <2>1, <2>2, <2>4, ExceptSeq
  <2> QED  BY <1>3, <2>2, <2>5 DEF EntryAges, TypeInv, TypeOK,
           WorkInv, BootInv, hostVars, syncVars, history, Loaded, Phases, Working
<1>4. CASE SwitchTournament
  <2>1. tournament' \in Tournament
    BY <1>4 DEF SwitchTournament
  <2>2. budget' \in Budget
    <3>1. budget' = [budget EXCEPT !.switches = @ + 1]
      BY <1>4 DEF SwitchTournament
    <3> QED  BY <3>1, <1>b DEF Budget
  <2> QED  BY <1>4, <2>1, <2>2 DEF SwitchTournament, TypeInv, TypeOK,
           WorkInv, BootInv, hostVars, syncVars, history, Loaded, Phases, Working
<1>5. CASE Restart
  <2>1. budget' \in Budget
    <3>1. budget' = [budget EXCEPT !.restarts = @ + 1]
      BY <1>5 DEF Restart
    <3> QED  BY <3>1, <1>b DEF Budget
  <2>2. /\ request' \in [Request -> RequestRecord]
        /\ \A a \in Request : request'[a].at = "idle"
    BY <1>5, IdleIsTask DEF Restart, IdleRequest
  <2>3. /\ lastDirect' \in [Match -> Direct]
        /\ \A m \in Match : ~lastDirect'[m].sinceStart /\ ~lastDirect'[m].inTtl
    BY <1>5 DEF Restart, NoDirect, Direct
  <2>4. <<>> \in Seq(Entry)
    OBVIOUS
  <2> QED  BY <1>5, <2>1, <2>2, <2>3, <2>4 DEF Restart, TypeInv, TypeOK,
           WorkInv, BootInv, hostVars, syncVars, history, Loaded, Phases, Working
<1> QED  BY <1>1, <1>2, <1>3, <1>4, <1>5 DEF EnvironmentStep

LEMMA TypeInit ==
    ASSUME Init
    PROVE  TypeInv
<1>1. request \in [Request -> RequestRecord] /\ \A a \in Request : request[a].at = "idle"
  BY IdleIsTask DEF Init, IdleRequest
<1>2. /\ lastDirect \in [Match -> Direct]
      /\ \A m \in Match : ~lastDirect[m].sinceStart /\ ~lastDirect[m].inTtl
  BY DEF Init, NoDirect, Direct
<1>3. <<>> \in Seq(Entry)
  OBVIOUS
<1>4. /\ budget \in Budget
      /\ file \in [tournament : Tournament \cup {NoTournament}, entries : Seq(Entry)]
  BY <1>3, ScenarioAssumption DEF Init
<1> QED  BY <1>1, <1>2, <1>3, <1>4 DEF Init, TypeInv, TypeOK,
           WorkInv, BootInv, hostVars, syncVars, history, Loaded, Phases, Working

LEMMA TypeStep ==
    ASSUME TypeInv, [Next]_vars
    PROVE  TypeInv'
<1>1. CASE Next
  BY <1>1, TabletTypes, RequestTypes, SyncTypes, EnvironmentTypes DEF Next
<1>2. CASE UNCHANGED vars
  BY <1>2 DEF vars, TypeInv, TypeOK,
           WorkInv, BootInv, hostVars, syncVars, history, Loaded, Phases, Working
<1> QED  BY <1>1, <1>2

\* Every variable keeps its type whatever is interleaved: in particular no
\* task and no flush ever writes "no result" into BTP (write_result_to_btp,
\* flush_btp_retries), and the queue only holds results of real matches.
THEOREM TypeCorrect == Spec => []TypeOK
<1>1. Init => TypeInv
  BY TypeInit
<1>2. TypeInv /\ [Next]_vars => TypeInv'
  BY TypeStep
<1>3. TypeInv => TypeOK
  BY DEF TypeInv
<1> QED  BY <1>1, <1>2, <1>3, PTL DEF Spec

-----------------------------------------------------------------------------
(* No acknowledged match is lost, step by step. *)

\* Queueing a result of m: m is queued, and only the cap costs another match
\* its place, which `dropped' records.
LEMMA QueueKeeps ==
    ASSUME TypeInv, WithinCap, NEW m \in Match, NEW r \in Result,
           QueueBtpRetry(m, r)
    PROVE  /\ Len(btpRetry') <= BTP_RETRY_CAP
           /\ Positions(btpRetry', m) # {}
           /\ dropped \subseteq dropped'
           /\ \A x \in Match : Positions(btpRetry, x) # {} =>
                Positions(btpRetry', x) # {} \/ x \in dropped'
<1> DEFINE q == btpRetry
           e == NewEntry(m, r)
<1>1. q \in Seq(Entry) /\ e \in Entry /\ e.match = m
  BY DEF TypeInv, TypeOK, NewEntry, Entry
<1>2. Len(q) \in Nat /\ DOMAIN q = 1 .. Len(q) /\ Len(q) <= BTP_RETRY_CAP
  BY <1>1, LenProperties DEF WithinCap
<1>3. CASE Queued(m)
  BY <1>1, <1>2, <1>3, ReplacedIsSeq DEF QueueBtpRetry, Queued
<1> HIDE DEF e
<1>4. ASSUME NEW s \in Seq(Entry)
      PROVE  /\ Len(Append(s, e)) = Len(s) + 1
             /\ Positions(Append(s, e), m) # {}
             /\ \A x : Positions(s, x) # {} => Positions(Append(s, e), x) # {}
  <2> DEFINE t == Append(s, e)
  <2>1. /\ t \in Seq(Entry) /\ Len(t) = Len(s) + 1 /\ Len(s) \in Nat
        /\ \A i \in 1 .. Len(s) : t[i] = s[i]
        /\ t[Len(s) + 1] = e
    BY <1>1, AppendProperties, LenProperties
  <2> HIDE DEF t
  <2>2. DOMAIN t = 1 .. Len(s) + 1 /\ DOMAIN s = 1 .. Len(s)
    BY <2>1, LenProperties
  <2>3. Positions(t, m) # {}
    BY <1>1, <2>1, <2>2 DEF Positions
  <2>4. \A x : Positions(s, x) # {} => Positions(t, x) # {}
    BY <2>1, <2>2 DEF Positions
  <2> QED  BY <2>1, <2>3, <2>4 DEF t
<1>5. CASE ~Queued(m) /\ Len(q) < BTP_RETRY_CAP
  <2>1. btpRetry' = Append(q, e) /\ dropped' = dropped
    BY <1>2, <1>5, ConstantsAssumption DEF QueueBtpRetry, e
  <2> QED  BY <1>1, <1>2, <1>4, <1>5, <2>1, ConstantsAssumption
<1>6. CASE ~Queued(m) /\ Len(q) >= BTP_RETRY_CAP
  <2>1. /\ btpRetry' = Append(Tail(q), e)
        /\ dropped' = dropped \cup {Head(q).match}
    BY <1>2, <1>6, ConstantsAssumption DEF QueueBtpRetry, e
  <2>2. q # <<>>
    BY <1>6, ConstantsAssumption, EmptySeq
  <2>3. /\ Tail(q) \in Seq(Entry) /\ Len(Tail(q)) = Len(q) - 1
        /\ \A i \in 1 .. Len(Tail(q)) : Tail(q)[i] = q[i + 1]
    BY <1>1, <2>2, HeadTailProperties
  <2>4. Head(q) = q[1]
    BY <1>1, <2>2
  <2>5. DOMAIN Tail(q) = 1 .. Len(q) - 1
    BY <2>3, LenProperties
  <2>6. ASSUME NEW x \in Match, Positions(q, x) # {}, x # Head(q).match
        PROVE  Positions(Tail(q), x) # {}
    <3>1. PICK i \in 1 .. Len(q) : q[i].match = x
      BY <1>2, <2>6 DEF Positions
    <3>2. i - 1 \in 1 .. Len(q) - 1 /\ (i - 1) + 1 = i
      BY <1>2, <2>4, <2>6, <3>1
    <3>3. Tail(q)[i - 1] = q[i]
      BY <2>3, <3>2
    <3> QED  BY <2>5, <3>1, <3>2, <3>3 DEF Positions
  <2>7. Len(btpRetry') = Len(q) /\ Positions(btpRetry', m) # {}
    <3>1. /\ Len(Append(Tail(q), e)) = Len(Tail(q)) + 1
          /\ Positions(Append(Tail(q), e), m) # {}
      BY <1>4, <2>3
    <3> HIDE DEF q
    <3>2. Len(Tail(q)) + 1 = Len(q)
      BY <1>2, <2>3
    <3> QED  BY <2>1, <3>1, <3>2
  <2>8. \A x \in Match : Positions(q, x) # {} =>
           Positions(btpRetry', x) # {} \/ x \in dropped'
    BY <1>4, <2>1, <2>3, <2>6
  <2> QED  BY <1>2, <2>1, <2>7, <2>8
<1> QED  BY <1>2, <1>3, <1>5, <1>6, ConstantsAssumption

\* The first snapshot after a start brings the whole file back.
LEMMA LoadKeeps ==
    ASSUME TypeInv, SafeInv, ~Loaded, fetched \in Snapshot,
           LoadBtpRetry(fetched)
    PROVE  file.entries # <<>> => btpRetry' = file.entries
<1> DEFINE q == file.entries
<1>1. q \in Seq(Entry) /\ Len(q) \in Nat /\ Len(q) <= BTP_RETRY_CAP
  BY LenProperties DEF TypeInv, TypeOK, SafeInv, WithinCap
<1>2. btpRetry = <<>> /\ fetched # NoSnapshot
  BY ConstantsAssumption DEF TypeInv, BootInv, Snapshot, NoSnapshot
<1>3. SUFFICES ASSUME q # <<>>
               PROVE  btpRetry' = q
  OBVIOUS
<1>4. file.tournament = fetched.tournament
  BY <1>2, <1>3 DEF SafeInv, SameTournament
<1>5. btpRetry \o q = q
  BY <1>1, <1>2, ConcatEmptySeq
<1>6. btpRetry' = SubSeq(q, 1, Len(q))
  BY <1>1, <1>2, <1>4, <1>5, ConstantsAssumption DEF LoadBtpRetry
<1> QED  BY <1>1, <1>6

\* Whoever writes the file leaves in it every match that was in it, unless
\* the match is settled.
LEMMA PersistKeeps ==
    ASSUME TypeInv, SafeInv, PersistBtpRetry,
           UNCHANGED <<btp, dropped, snapshot, btpRetry, tournament>>
    PROVE  /\ \A m \in Match : Safe(m) => Safe(m)'
           /\ \A m \in Match : Loaded /\ Queued(m) => Safe(m)'
           /\ \A m \in Match : (Loaded /\ OnFile(m))' => Queued(m)' \/ Settled(m)'
           /\ Len(file'.entries) <= BTP_RETRY_CAP
           /\ file'.entries # <<>> => file'.tournament = tournament'
<1>1. CASE Loaded
  <2>1. file' = [tournament |-> snapshot.tournament, entries |-> btpRetry]
    BY <1>1 DEF PersistBtpRetry
  <2> QED  BY <1>1, <2>1 DEF SafeInv, SameTournament,
           WithinCap, WrittenInv, CoveredInv, ToldInv, PromisedIsSafe, Safe, Settled,
           Queued, OnFile, hostVars, syncVars, history, Loaded
<1>2. CASE ~Loaded
  BY <1>2 DEF PersistBtpRetry, SafeInv, SameTournament,
           WithinCap, WrittenInv, CoveredInv, ToldInv, PromisedIsSafe, Safe, Settled,
           Queued, OnFile, hostVars, syncVars, history, Loaded
<1> QED  BY <1>1, <1>2

LEMMA TabletSafe ==
    ASSUME TypeInv, SafeInv, NEW m \in Match, TabletStep(m)
    PROVE  SafeInv'
<1>1. CASE Submit(m)
  BY <1>1 DEF Submit, SafeInv, SameTournament,
           WithinCap, WrittenInv, CoveredInv, ToldInv, PromisedIsSafe, Safe, Settled,
           Queued, OnFile, hostVars, syncVars, history, Loaded
<1>2. CASE Reopen(m)
  BY <1>2, StopFacts DEF Reopen, TypeInv, SafeInv, SameTournament,
           WithinCap, WrittenInv, CoveredInv, ToldInv, PromisedIsSafe, Safe, Settled,
           Queued, OnFile, hostVars, syncVars, history, Loaded
<1>3. CASE ReleaseFinalized(m)
  BY <1>3, StopFacts DEF ReleaseFinalized, TypeInv, SafeInv, SameTournament,
           WithinCap, WrittenInv, CoveredInv, ToldInv, PromisedIsSafe, Safe, Settled,
           Queued, OnFile, hostVars, syncVars, history, Loaded
<1>4. CASE TrySubmitPending(m)
  <2>1. PICK a \in Request : request' = [request EXCEPT ![a] =
           [at |-> "sent", match |-> m, result |-> pendingResult[m],
            from |-> "tablet", listening |-> TRUE]]
    BY <1>4 DEF TrySubmitPending
  <2>2. \A b \in Request : \/ request'[b].at = "sent"
                           \/ request'[b] = request[b]
    BY <2>1 DEF TypeInv, TypeOK
  <2> QED  BY <1>4, <2>2 DEF TrySubmitPending, SafeInv, SameTournament,
           WithinCap, WrittenInv, CoveredInv, ToldInv, PromisedIsSafe, Safe, Settled,
           Queued, OnFile, hostVars, syncVars, history, Loaded
<1> QED  BY <1>1, <1>2, <1>3, <1>4 DEF TabletStep

LEMMA RequestSafe ==
    ASSUME TypeInv, SafeInv, NEW a \in Request, RequestStep(a)
    PROVE  SafeInv'
<1> DEFINE Moved(at) ==
             \A b \in Request :
               /\ request'[b].at = IF b = a THEN at ELSE request[b].at
               /\ request'[b].match = request[b].match
               /\ request'[b].result = request[b].result
           IdleOrSame ==
             \A b \in Request : request'[b].at = "idle" \/ request'[b] = request[b]
<1>a. \A at \in RequestStates : Goto(a, at) => Moved(at)
  BY GotoFacts DEF TypeInv
<1>b. request' = [request EXCEPT ![a] = IdleRequest] => IdleOrSame
  BY DEF IdleRequest, TypeInv, TypeOK
<1>c. request[a].at # "idle" =>
        request[a].match \in Match /\ request[a].result \in Result
  BY DEF TypeInv, WorkInv
<1>1. CASE AbortFetch(a)
  <2>1. /\ \A b \in Request : request[b] \in RequestRecord
        /\ request' = [request EXCEPT ![a] = [request[a] EXCEPT !.listening = FALSE]]
        /\ request \in [Request -> RequestRecord]
    BY <1>1 DEF AbortFetch, TypeInv, TypeOK
  <2>2. Moved(request[a].at)
    BY <2>1 DEF RequestRecord
  <2> QED  BY <1>1, <2>2 DEF AbortFetch, SafeInv, SameTournament,
           WithinCap, WrittenInv, CoveredInv, ToldInv, PromisedIsSafe, Safe, Settled,
           Queued, OnFile, hostVars, syncVars, history, Loaded
<1>2. CASE AnswerOffCourt(a)
  <2>1. PICK at \in {"ok", "refused"} : Moved(at) /\ (at = "ok" => SettledOk(a))
    BY <1>2, <1>a DEF AnswerOffCourt, RequestStates
  <2>2. SettledOk(a) => Safe(request[a].match)
    BY <1>2, <1>c DEF AnswerOffCourt, SettledOk, SafeInv, SameTournament,
           WithinCap, WrittenInv, CoveredInv, ToldInv, PromisedIsSafe, Safe, Settled,
           Queued, OnFile, hostVars, syncVars, history, Loaded
  <2> QED  BY <1>2, <2>1, <2>2 DEF AnswerOffCourt, SafeInv, SameTournament,
           WithinCap, WrittenInv, CoveredInv, ToldInv, PromisedIsSafe, Safe, Settled,
           Queued, OnFile, hostVars, syncVars, history, Loaded
<1>3. CASE RejectPayload(a)
  <2>1. Moved("invalid")
    BY <1>3, <1>a DEF RejectPayload, RequestStates
  <2> QED  BY <1>3, <2>1 DEF RejectPayload, SafeInv, SameTournament,
           WithinCap, WrittenInv, CoveredInv, ToldInv, PromisedIsSafe, Safe, Settled,
           Queued, OnFile, hostVars, syncVars, history, Loaded
<1>4. CASE BeginWrite(a)
  <2>1. Moved("writing")
    BY <1>4, <1>a DEF BeginWrite, RequestStates
  <2> QED  BY <1>4, <2>1 DEF BeginWrite, SafeInv, SameTournament,
           WithinCap, WrittenInv, CoveredInv, ToldInv, PromisedIsSafe, Safe, Settled,
           Queued, OnFile, hostVars, syncVars, history, Loaded
<1>5. CASE DeskEntersResult(a)
  <2>1. \A b \in Request : \/ request'[b].at = "writing"
                           \/ request'[b] = request[b]
    BY <1>5 DEF DeskEntersResult, TypeInv, TypeOK
  <2> QED  BY <1>5, <2>1 DEF DeskEntersResult, SafeInv, SameTournament,
           WithinCap, WrittenInv, CoveredInv, ToldInv, PromisedIsSafe, Safe, Settled,
           Queued, OnFile, hostVars, syncVars, history, Loaded
<1>6. CASE BtpApplies(a)
  <2>1. Moved("applied")
    BY <1>6, <1>a DEF BtpApplies, RequestStates
  <2>2. /\ btp'[request[a].match] # NoResult
        /\ \A m \in Match : btp[m] # NoResult => btp'[m] # NoResult
    BY <1>6, <1>c, ConstantsAssumption DEF BtpApplies, TypeInv, TypeOK
  <2>3. fetched.decided \subseteq Match
    BY DEF TypeInv, TypeOK, Snapshot, NoSnapshot
  <2>4. phase = "applied" => entry.match \in Match
    BY DEF TypeInv, WorkInv, Working, Entry
  <2>5. \A b \in Request : request[b].at # "idle" => request[b].match \in Match
    BY DEF TypeInv, WorkInv
  <2> QED  BY <1>6, <2>1, <2>2, <2>3, <2>4, <2>5 DEF BtpApplies, SafeInv, SameTournament,
           WithinCap, WrittenInv, CoveredInv, ToldInv, PromisedIsSafe, Safe, Settled,
           Queued, OnFile, hostVars, syncVars, history, Loaded
<1>7. CASE WriteFails(a)
  <2>1. Moved("persistQueued")
    BY <1>7, <1>a DEF WriteFails, RequestStates
  <2>2. request[a].match \in Match /\ request[a].result \in Result
    BY <1>7, <1>c DEF WriteFails
  <2>3. /\ Len(btpRetry') <= BTP_RETRY_CAP
        /\ Positions(btpRetry', request[a].match) # {}
        /\ dropped \subseteq dropped'
        /\ \A x \in Match : Positions(btpRetry, x) # {} =>
             Positions(btpRetry', x) # {} \/ x \in dropped'
    BY <1>7, <2>2, QueueKeeps DEF WriteFails, SafeInv
  <2>4. \A b \in Request : request[b].at # "idle" => request[b].match \in Match
    BY DEF TypeInv, WorkInv
  <2> QED  BY <1>7, <2>1, <2>3, <2>4 DEF WriteFails, SafeInv, SameTournament,
           WithinCap, WrittenInv, CoveredInv, ToldInv, PromisedIsSafe, Safe, Settled,
           Queued, OnFile, hostVars, syncVars, history, Loaded
<1>8. CASE WriteSucceeds(a)
  <2>1. Moved("persistCleared")
    BY <1>8, <1>a DEF WriteSucceeds, RequestStates
  <2>2. btp[request[a].match] # NoResult
    BY <1>8 DEF WriteSucceeds, SafeInv, WrittenInv
  <2>3. /\ Len(btpRetry') <= Len(btpRetry)
        /\ \A x : x # request[a].match /\ Positions(btpRetry, x) # {}
             => Positions(btpRetry', x) # {}
    BY <1>8, WithoutIsSeq DEF WriteSucceeds, ClearBtpRetry, TypeInv, TypeOK
  <2>4. Len(btpRetry') <= BTP_RETRY_CAP
    BY <1>8, <2>3, WithoutIsSeq, LenProperties, ConstantsAssumption
    DEF WriteSucceeds, ClearBtpRetry, SafeInv, WithinCap, TypeInv, TypeOK
  <2> QED  BY <1>8, <2>1, <2>2, <2>3, <2>4 DEF WriteSucceeds, SafeInv, SameTournament,
           WithinCap, WrittenInv, CoveredInv, ToldInv, PromisedIsSafe, Safe, Settled,
           Queued, OnFile, hostVars, syncVars, history, Loaded
<1>9. CASE PersistRequest(a)
  <2>1. \/ request[a].at = "persistQueued" /\ Moved("ok")
        \/ request[a].at = "persistCleared" /\ Moved("noting")
    BY <1>9, <1>a DEF PersistRequest, RequestStates
  <2>2. Loaded /\ request[a].match \in Match
    BY <1>9, <1>c DEF PersistRequest, TypeInv, BootInv
  <2>3. UNCHANGED <<btp, dropped, snapshot, btpRetry, tournament, fetched,
                    phase, entry, lastDirect, promised>>
    BY <1>9 DEF PersistRequest, hostVars, syncVars, history
  <2>4. /\ \A m \in Match : Safe(m) => Safe(m)'
        /\ \A m \in Match : Loaded /\ Queued(m) => Safe(m)'
        /\ \A m \in Match : (Loaded /\ OnFile(m))' => Queued(m)' \/ Settled(m)'
        /\ Len(file'.entries) <= BTP_RETRY_CAP
        /\ file'.entries # <<>> => file'.tournament = tournament'
    BY <1>9, <2>3, PersistKeeps DEF PersistRequest
  <2> DEFINE SafeThen(m) == \/ btp'[m] # NoResult
                            \/ Positions(file'.entries, m) # {}
                            \/ m \in dropped'
  <2>5. /\ \A m \in Match : Safe(m) => SafeThen(m)
        /\ \A m \in Match : Queued(m) \/ Settled(m) => SafeThen(m)
    BY <2>2, <2>3, <2>4 DEF Safe, Settled, OnFile
  <2>6. /\ \A b \in Request : request[b].at # "idle" => request[b].match \in Match
        /\ request[a].at = "persistQueued" => SafeThen(request[a].match)
    BY <2>5, <1>c DEF TypeInv, WorkInv, SafeInv, CoveredInv
  <2>7. SameTournament' /\ WithinCap'
    BY <2>3, <2>4 DEF SafeInv, SameTournament, WithinCap, Loaded
  <2>8. WrittenInv'
    BY <2>1, <2>3 DEF SafeInv, WrittenInv
  <2>9. CoveredInv'
    BY <2>1, <2>3, <2>4 DEF SafeInv, CoveredInv, Queued, Settled
  <2>10. /\ \A b \in Request : request'[b].at = "ok" => SafeThen(request'[b].match)
         /\ \A m \in Match : promised'[m] # NoResult => SafeThen(m)
    BY <2>1, <2>3, <2>5, <2>6 DEF SafeInv, ToldInv, PromisedIsSafe
  <2>11. ToldInv'
    BY <2>10 DEF ToldInv, PromisedIsSafe, Safe, OnFile
  <2> QED  BY <2>7, <2>8, <2>9, <2>11 DEF SafeInv
<1>10. CASE NoteDirectWrite(a)
  <2>1. Moved("ok")
    BY <1>10, <1>a DEF NoteDirectWrite, RequestStates
  <2>2. request[a].match \in Match /\ btp[request[a].match] # NoResult
    BY <1>10, <1>c DEF NoteDirectWrite, SafeInv, WrittenInv
  <2>3. \A m \in Match : m # request[a].match => lastDirect'[m] = lastDirect[m]
    BY <1>10 DEF NoteDirectWrite, TypeInv, TypeOK
  <2> QED  BY <1>10, <2>1, <2>2, <2>3 DEF NoteDirectWrite, SafeInv, SameTournament,
           WithinCap, WrittenInv, CoveredInv, ToldInv, PromisedIsSafe, Safe, Settled,
           Queued, OnFile, hostVars, syncVars, history, Loaded
<1>11. CASE Answer(a)
  <2>1. IdleOrSame
    BY <1>11, <1>b DEF Answer
  <2>2. request[a].match \in Match
    BY <1>11, <1>c DEF Answer, Answered
  <2>3. \A m \in Match : promised'[m] # NoResult =>
          \/ promised[m] # NoResult
          \/ m = request[a].match /\ request[a].at = "ok"
    BY <1>11, <2>2 DEF Answer, TypeInv, TypeOK
  <2> QED  BY <1>11, <2>1, <2>2, <2>3 DEF Answer, SafeInv, SameTournament,
           WithinCap, WrittenInv, CoveredInv, ToldInv, PromisedIsSafe, Safe, Settled,
           Queued, OnFile, hostVars, syncVars, history, Loaded
<1>12. CASE LoseMessage(a)
  BY <1>12, <1>b DEF LoseMessage, SafeInv, SameTournament,
           WithinCap, WrittenInv, CoveredInv, ToldInv, PromisedIsSafe, Safe, Settled,
           Queued, OnFile, hostVars, syncVars, history, Loaded
<1>13. CASE DropTask(a)
  BY <1>13, <1>b DEF DropTask, SafeInv, SameTournament,
           WithinCap, WrittenInv, CoveredInv, ToldInv, PromisedIsSafe, Safe, Settled,
           Queued, OnFile, hostVars, syncVars, history, Loaded
<1> QED  BY <1>1, <1>2, <1>3, <1>4, <1>5, <1>6, <1>7, <1>8, <1>9, <1>10,
            <1>11, <1>12, <1>13 DEF RequestStep

LEMMA SyncSafe ==
    ASSUME TypeInv, SafeInv, SyncStep
    PROVE  SafeInv'
<1>a. /\ btpRetry \in Seq(Entry) /\ rest \in Seq(Entry)
      /\ Len(btpRetry) \in Nat /\ Len(btpRetry) <= BTP_RETRY_CAP
  BY LenProperties DEF TypeInv, TypeOK, SafeInv, WithinCap
<1>b. \A b \in Request : request[b].at # "idle" => request[b].match \in Match
  BY DEF TypeInv, WorkInv
<1>c. phase \in Working => entry.match \in Match /\ entry.result \in Result
  BY DEF TypeInv, WorkInv, Entry
<1>d. \A m : ClearBtpRetry(m) =>
        /\ Len(btpRetry') <= BTP_RETRY_CAP
        /\ \A x : x # m /\ Positions(btpRetry, x) # {} => Positions(btpRetry', x) # {}
  <2>1. ASSUME NEW m, ClearBtpRetry(m)
        PROVE  /\ Len(btpRetry') <= Len(btpRetry) /\ Len(btpRetry') \in Nat
               /\ \A x : x # m /\ Positions(btpRetry, x) # {}
                    => Positions(btpRetry', x) # {}
    BY <1>a, <2>1, WithoutIsSeq, LenProperties DEF ClearBtpRetry
  <2> QED  BY <1>a, <2>1, ConstantsAssumption
<1>1. CASE FetchSnapshot
  BY <1>1 DEF FetchSnapshot, SafeInv, SameTournament,
           WithinCap, WrittenInv, CoveredInv, ToldInv, PromisedIsSafe, Safe, Settled,
           Queued, OnFile, hostVars, syncVars, history, Loaded
<1>2. CASE FlushBegins
  BY <1>2 DEF FlushBegins, SafeInv, SameTournament,
           WithinCap, WrittenInv, CoveredInv, ToldInv, PromisedIsSafe, Safe, Settled,
           Queued, OnFile, hostVars, syncVars, history, Loaded
<1>3. CASE FlushIsSkipped
  BY <1>3 DEF FlushIsSkipped, SafeInv, SameTournament,
           WithinCap, WrittenInv, CoveredInv, ToldInv, PromisedIsSafe, Safe, Settled,
           Queued, OnFile, hostVars, syncVars, history, Loaded
<1>4. CASE FlushPasses
  BY <1>4 DEF FlushPasses, SafeInv, SameTournament,
           WithinCap, WrittenInv, CoveredInv, ToldInv, PromisedIsSafe, Safe, Settled,
           Queued, OnFile, hostVars, syncVars, history, Loaded
<1>5. CASE FlushDrops
  <2> DEFINE m == Head(rest).match
  <2>1. m \in fetched.decided \/ m \in dropped'
    BY <1>5 DEF FlushDrops
  <2>2. dropped \subseteq dropped'
    BY <1>5 DEF FlushDrops
  <2>3. /\ Len(btpRetry') <= BTP_RETRY_CAP
        /\ \A x : x # m /\ Positions(btpRetry, x) # {} => Positions(btpRetry', x) # {}
    BY <1>5, <1>d DEF FlushDrops
  <2>4. btp[m] # NoResult \/ m \in dropped'
    BY <2>1 DEF SafeInv, WrittenInv
  <2> HIDE DEF m
  <2> QED  BY <1>5, <2>2, <2>3, <2>4 DEF FlushDrops, SafeInv, SameTournament,
           WithinCap, WrittenInv, CoveredInv, ToldInv, PromisedIsSafe, Safe, Settled,
           Queued, OnFile, hostVars, syncVars, history, Loaded
<1>6. CASE FlushWrites
  <2>1. \A m \in Match : lastDirect'[m].inTtl => lastDirect[m].inTtl
    BY <1>6 DEF FlushWrites, TypeInv, TypeOK, Direct
  <2> QED  BY <1>6, <2>1 DEF FlushWrites, SafeInv, SameTournament,
           WithinCap, WrittenInv, CoveredInv, ToldInv, PromisedIsSafe, Safe, Settled,
           Queued, OnFile, hostVars, syncVars, history, Loaded
<1>7. CASE FlushEnds
  BY <1>7 DEF FlushEnds, SafeInv, SameTournament,
           WithinCap, WrittenInv, CoveredInv, ToldInv, PromisedIsSafe, Safe, Settled,
           Queued, OnFile, hostVars, syncVars, history, Loaded
<1>8. CASE FlushApplies
  <2>1. entry.match \in Match /\ entry.result \in Result
    BY <1>8, <1>c DEF FlushApplies, Working
  <2>2. /\ btp'[entry.match] # NoResult
        /\ \A m \in Match : btp[m] # NoResult => btp'[m] # NoResult
    BY <1>8, <2>1, ConstantsAssumption DEF FlushApplies, TypeInv, TypeOK
  <2>3. fetched.decided \subseteq Match
    BY DEF TypeInv, TypeOK, Snapshot, NoSnapshot
  <2> QED  BY <1>8, <1>b, <2>1, <2>2, <2>3 DEF FlushApplies, SafeInv, SameTournament,
           WithinCap, WrittenInv, CoveredInv, ToldInv, PromisedIsSafe, Safe, Settled,
           Queued, OnFile, hostVars, syncVars, history, Loaded
<1>9. CASE FlushFails
  BY <1>9 DEF FlushFails, SafeInv, SameTournament,
           WithinCap, WrittenInv, CoveredInv, ToldInv, PromisedIsSafe, Safe, Settled,
           Queued, OnFile, hostVars, syncVars, history, Loaded
<1>10. CASE FlushSucceeds
  <2>1. btp[entry.match] # NoResult
    BY <1>10 DEF FlushSucceeds, SafeInv, WrittenInv
  <2>2. /\ Len(btpRetry') <= BTP_RETRY_CAP
        /\ \A x : x # entry.match /\ Positions(btpRetry, x) # {}
             => Positions(btpRetry', x) # {}
    BY <1>10, <1>d DEF FlushSucceeds
  <2> QED  BY <1>10, <2>1, <2>2 DEF FlushSucceeds, SafeInv, SameTournament,
           WithinCap, WrittenInv, CoveredInv, ToldInv, PromisedIsSafe, Safe, Settled,
           Queued, OnFile, hostVars, syncVars, history, Loaded
<1>11. CASE PersistFlush
  <2>1. UNCHANGED <<btp, dropped, snapshot, btpRetry, tournament, fetched,
                    request, lastDirect, promised>>
    BY <1>11 DEF PersistFlush, history
  <2>2. phase' # "applied"
    BY <1>11 DEF PersistFlush
  <2>3. /\ \A m \in Match : Safe(m) => Safe(m)'
        /\ \A m \in Match : (Loaded /\ OnFile(m))' => Queued(m)' \/ Settled(m)'
        /\ Len(file'.entries) <= BTP_RETRY_CAP
        /\ file'.entries # <<>> => file'.tournament = tournament'
    BY <1>11, <2>1, PersistKeeps DEF PersistFlush
  <2>4. SameTournament' /\ WithinCap'
    BY <2>1, <2>3 DEF SafeInv, SameTournament, WithinCap, Loaded
  <2>5. WrittenInv'
    BY <2>1, <2>2 DEF SafeInv, WrittenInv
  <2>6. CoveredInv'
    BY <2>1, <2>3 DEF SafeInv, CoveredInv, Queued, Settled
  <2>7. \A m \in Match : Safe(m) =>
          \/ btp'[m] # NoResult \/ Positions(file'.entries, m) # {} \/ m \in dropped'
    BY <2>3 DEF Safe, OnFile
  <2>8. ToldInv'
    BY <1>b, <2>1, <2>7 DEF SafeInv, ToldInv, PromisedIsSafe, Safe, OnFile
  <2> QED  BY <2>4, <2>5, <2>6, <2>8 DEF SafeInv
<1>12. CASE FlushHeals
  BY <1>12 DEF FlushHeals, SafeInv, SameTournament,
           WithinCap, WrittenInv, CoveredInv, ToldInv, PromisedIsSafe, Safe, Settled,
           Queued, OnFile, hostVars, syncVars, history, Loaded
<1>13. CASE RewriteFails
  <2>1. entry.match \in Match /\ entry.result \in Result
    BY <1>13, <1>c DEF RewriteFails, Working
  <2>2. /\ Len(btpRetry') <= BTP_RETRY_CAP
        /\ dropped \subseteq dropped'
        /\ \A x \in Match : Positions(btpRetry, x) # {} =>
             Positions(btpRetry', x) # {} \/ x \in dropped'
    BY <1>13, <2>1, QueueKeeps DEF RewriteFails, SafeInv
  <2> QED  BY <1>13, <1>b, <2>2 DEF RewriteFails, SafeInv, SameTournament,
           WithinCap, WrittenInv, CoveredInv, ToldInv, PromisedIsSafe, Safe, Settled,
           Queued, OnFile, hostVars, syncVars, history, Loaded
<1>14. CASE RewriteSucceeds
  BY <1>14 DEF RewriteSucceeds, SafeInv, SameTournament,
           WithinCap, WrittenInv, CoveredInv, ToldInv, PromisedIsSafe, Safe, Settled,
           Queued, OnFile, hostVars, syncVars, history, Loaded
<1>15. CASE PublishSnapshot
  <2>1. /\ fetched \in Snapshot /\ fetched # NoSnapshot
        /\ snapshot' = fetched /\ fetched' = NoSnapshot
        /\ LoadBtpRetry(fetched)
    BY <1>15, ConstantsAssumption
    DEF PublishSnapshot, TypeInv, BootInv, Snapshot, NoSnapshot
  <2>2. CASE Loaded
    <3>1. btpRetry' = btpRetry
      BY <2>1, <2>2 DEF LoadBtpRetry
    <3> QED  BY <1>15, <2>1, <2>2, <3>1 DEF PublishSnapshot, NoSnapshot, SafeInv, SameTournament,
           WithinCap, WrittenInv, CoveredInv, ToldInv, PromisedIsSafe, Safe, Settled,
           Queued, OnFile, hostVars, syncVars, history, Loaded
  <2>3. CASE ~Loaded
    <3>1. file.entries # <<>> => btpRetry' = file.entries
      BY <2>1, <2>3, LoadKeeps
    <3>2. file.entries = <<>> => \A m : Positions(file.entries, m) = {}
      BY DEF Positions
    <3>3. Len(btpRetry') <= BTP_RETRY_CAP
      <4>1. CASE file.entries # <<>>
        BY <3>1, <4>1 DEF SafeInv, WithinCap
      <4>2. CASE file.entries = <<>>
        <5>1. btpRetry = <<>>
          BY <2>3 DEF TypeInv, BootInv
        <5>2. btpRetry' = <<>>
          BY <2>1, <4>2, <5>1, ConstantsAssumption, SubSeqEmpty DEF LoadBtpRetry
        <5> QED  BY <5>2, EmptySeq, ConstantsAssumption
      <4> QED  BY <4>1, <4>2
    <3>4. \A b \in Request : request[b].at # "persistQueued"
      BY <2>3 DEF TypeInv, BootInv
    <3> QED  BY <1>15, <2>1, <3>1, <3>2, <3>3, <3>4 DEF PublishSnapshot, NoSnapshot, SafeInv, SameTournament,
           WithinCap, WrittenInv, CoveredInv, ToldInv, PromisedIsSafe, Safe, Settled,
           Queued, OnFile, hostVars, syncVars, history, Loaded
  <2> QED  BY <2>2, <2>3
<1> QED  BY <1>1, <1>2, <1>3, <1>4, <1>5, <1>6, <1>7, <1>8, <1>9, <1>10,
            <1>11, <1>12, <1>13, <1>14, <1>15 DEF SyncStep

LEMMA EnvironmentSafe ==
    ASSUME TypeInv, SafeInv, EnvironmentStep, MaxSwitches = 0
    PROVE  SafeInv'
<1>b. \A b \in Request : request[b].at # "idle" => request[b].match \in Match
  BY DEF TypeInv, WorkInv
<1>c. phase = "applied" => entry.match \in Match
  BY DEF TypeInv, WorkInv, Working, Entry
<1>1. ASSUME NEW m \in Match, DirectWriteExpires(m)
      PROVE  SafeInv'
  <2>1. \A x \in Match : lastDirect'[x].inTtl => lastDirect[x].inTtl
    BY <1>1 DEF DirectWriteExpires, TypeInv, TypeOK, Direct
  <2> QED  BY <1>1, <2>1 DEF DirectWriteExpires, SafeInv, SameTournament,
           WithinCap, WrittenInv, CoveredInv, ToldInv, PromisedIsSafe, Safe, Settled,
           Queued, OnFile, hostVars, syncVars, history, Loaded
<1>2. ASSUME NEW m \in Match, HandEntry(m)
      PROVE  SafeInv'
  <2>1. \A x \in Match : btp[x] # NoResult => btp'[x] # NoResult
    BY <1>2, ConstantsAssumption DEF HandEntry, TypeInv, TypeOK
  <2>2. fetched.decided \subseteq Match
    BY DEF TypeInv, TypeOK, Snapshot, NoSnapshot
  <2> QED  BY <1>2, <1>b, <1>c, <2>1, <2>2 DEF HandEntry, SafeInv, SameTournament,
           WithinCap, WrittenInv, CoveredInv, ToldInv, PromisedIsSafe, Safe, Settled,
           Queued, OnFile, hostVars, syncVars, history, Loaded
<1>3. CASE EntryAges
  <2>1. PICK i \in DOMAIN btpRetry :
           btpRetry' = [btpRetry EXCEPT ![i].old = TRUE]
    BY <1>3 DEF EntryAges
  <2>2. btpRetry \in Seq(Entry) /\ i \in 1 .. Len(btpRetry)
    BY <2>1, LenProperties DEF TypeInv, TypeOK
  <2>3. btpRetry[i] \in Entry
    BY <2>2, ElementOfSeq
  <2>4. /\ [btpRetry[i] EXCEPT !.old = TRUE] \in Entry
        /\ [btpRetry[i] EXCEPT !.old = TRUE].match = btpRetry[i].match
    BY <2>3 DEF Entry
  <2>5. /\ Len(btpRetry') = Len(btpRetry)
        /\ DOMAIN btpRetry' = DOMAIN btpRetry
        /\ \A j \in DOMAIN btpRetry : btpRetry'[j].match = btpRetry[j].match
    <3> DEFINE e == [btpRetry[i] EXCEPT !.old = TRUE]
    <3>1. btpRetry' = [btpRetry EXCEPT ![i] = e]
      BY <2>1
    <3>2. e \in Entry /\ e.match = btpRetry[i].match
      BY <2>4
    <3> HIDE DEF e
    <3> QED  BY <2>2, <3>1, <3>2, ExceptSeq, LenProperties
  <2>6. \A m : Positions(btpRetry', m) = Positions(btpRetry, m)
    BY <2>5 DEF Positions
  <2> QED  BY <1>3, <2>5, <2>6 DEF EntryAges, SafeInv, SameTournament,
           WithinCap, WrittenInv, CoveredInv, ToldInv, PromisedIsSafe, Safe, Settled,
           Queued, OnFile, hostVars, syncVars, history, Loaded
<1>4. ~SwitchTournament
  BY DEF SwitchTournament, TypeInv, TypeOK, Budget
<1>5. CASE Restart
  <2>1. \A a \in Request : request'[a].at = "idle"
    BY <1>5 DEF Restart, IdleRequest
  <2>2. \A m \in Match : ~lastDirect'[m].inTtl
    BY <1>5 DEF Restart, NoDirect
  <2>3. Len(btpRetry') <= BTP_RETRY_CAP
    BY <1>5, EmptySeq, ConstantsAssumption DEF Restart
  <2> QED  BY <1>5, <2>1, <2>2, <2>3 DEF Restart, NoSnapshot, SafeInv, SameTournament,
           WithinCap, WrittenInv, CoveredInv, ToldInv, PromisedIsSafe, Safe, Settled,
           Queued, OnFile, hostVars, syncVars, history, Loaded
<1> QED  BY <1>1, <1>2, <1>3, <1>4, <1>5 DEF EnvironmentStep

LEMMA SafeInit ==
    ASSUME Init
    PROVE  SafeInv
<1>1. \A a \in Request : request[a].at = "idle"
  BY DEF Init, IdleRequest
<1>2. \A m \in Match : ~lastDirect[m].inTtl /\ promised[m] = NoResult
  BY DEF Init, NoDirect
<1>3. Len(btpRetry) <= BTP_RETRY_CAP /\ Len(file.entries) <= BTP_RETRY_CAP
  BY EmptySeq, ConstantsAssumption DEF Init
<1> QED  BY <1>1, <1>2, <1>3 DEF Init, NoSnapshot, SafeInv, SameTournament,
           WithinCap, WrittenInv, CoveredInv, ToldInv, PromisedIsSafe, Safe, Settled,
           Queued, OnFile, hostVars, syncVars, history, Loaded

LEMMA SafeStep ==
    ASSUME TypeInv, SafeInv, [Next]_vars, MaxSwitches = 0
    PROVE  SafeInv'
<1>1. CASE Next
  BY <1>1, TabletSafe, RequestSafe, SyncSafe, EnvironmentSafe DEF Next
<1>2. CASE UNCHANGED vars
  BY <1>2 DEF vars, SafeInv, SameTournament,
           WithinCap, WrittenInv, CoveredInv, ToldInv, PromisedIsSafe, Safe, Settled,
           Queued, OnFile, hostVars, syncVars, history, Loaded
<1> QED  BY <1>1, <1>2

\* "Eingereiht heisst angenommen": as long as one tournament stays open, a
\* match about which the tablet or the desk was told ok has a result in BTP or
\* an entry in the file, unless the cap or the age cost it its place - for
\* every number of matches, tasks, restarts, and every cap.
THEOREM NoPromiseIsLost == MaxSwitches = 0 /\ Spec => []PromisedIsSafe
<1>1. SUFFICES ASSUME MaxSwitches = 0
               PROVE  Spec => []PromisedIsSafe
  OBVIOUS
<1>2. Init => TypeInv /\ SafeInv
  BY TypeInit, SafeInit
<1>3. TypeInv /\ SafeInv /\ [Next]_vars => (TypeInv /\ SafeInv)'
  BY <1>1, TypeStep, SafeStep
<1>4. TypeInv /\ SafeInv => PromisedIsSafe
  BY DEF SafeInv, ToldInv
<1> QED  BY <1>2, <1>3, <1>4, PTL DEF Spec

=============================================================================
