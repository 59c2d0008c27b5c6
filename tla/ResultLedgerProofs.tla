------------------------- MODULE ResultLedgerProofs -------------------------
(***************************************************************************)
(* More theorems about ResultPath: the retry queue and its file, what an   *)
(* "ok" stands for, what a flush leaves alone, and that the result path    *)
(* implements ResultLedger.                                                *)
(***************************************************************************)
EXTENDS ResultPathProofs, FiniteSetTheorems

-----------------------------------------------------------------------------
(* What the operations of the queue do to its entries. *)

\* Every entry of p was an entry of q, and no two of them the same one.
Embeds(p, q) ==
    \E f \in [DOMAIN p -> DOMAIN q] :
        /\ \A i \in DOMAIN p : p[i] = q[f[i]]
        /\ \A i, j \in DOMAIN p : f[i] = f[j] => i = j

LEMMA EmbeddedIsDistinct ==
    ASSUME NEW p, NEW q, Embeds(p, q), Distinct(q)
    PROVE  Distinct(p)
<1>1. PICK f \in [DOMAIN p -> DOMAIN q] :
         /\ \A i \in DOMAIN p : p[i] = q[f[i]]
         /\ \A i, j \in DOMAIN p : f[i] = f[j] => i = j
  BY DEF Embeds
<1>2. SUFFICES ASSUME NEW i \in DOMAIN p, NEW j \in DOMAIN p,
                      p[i].match = p[j].match
               PROVE  i = j
  BY DEF Distinct
<1>3. f[i] \in DOMAIN q /\ f[j] \in DOMAIN q
  BY <1>1
<1>4. q[f[i]].match = q[f[j]].match
  BY <1>1, <1>2
<1>5. f[i] = f[j]
  BY <1>3, <1>4 DEF Distinct
<1> QED  BY <1>1, <1>5

LEMMA WithoutEmbeds ==
    ASSUME NEW q \in Seq(Entry), NEW m
    PROVE  Embeds(Without(q, m), q)
<1>1. CASE Positions(q, m) = {}
  <2>1. Without(q, m) = q
    BY <1>1 DEF Without
  <2> DEFINE f == [i \in DOMAIN q |-> i]
  <2>2. /\ f \in [DOMAIN q -> DOMAIN q]
        /\ \A i \in DOMAIN q : q[i] = q[f[i]]
        /\ \A i, j \in DOMAIN q : f[i] = f[j] => i = j
    OBVIOUS
  <2> QED  BY <2>1, <2>2 DEF Embeds
<1>2. CASE Positions(q, m) # {}
  <2> DEFINE i == CHOOSE i \in Positions(q, m) : TRUE
             c == SubSeq(q, 1, i - 1) \o SubSeq(q, i + 1, Len(q))
             f == [k \in 1 .. Len(q) - 1 |-> IF k < i THEN k ELSE k + 1]
  <2>1. i \in 1 .. Len(q)
    BY <1>2 DEF Positions
  <2>2. Without(q, m) = c
    BY <1>2 DEF Without
  <2> HIDE DEF i
  <2>3. /\ c \in Seq(Entry)
        /\ Len(c) = Len(q) - 1
        /\ \A k \in 1 .. i - 1 : c[k] = q[k]
        /\ \A k \in i + 1 .. Len(q) : c[k - 1] = q[k]
    BY <2>1, CutIsSeq
  <2> HIDE DEF c
  <2>4. Len(q) \in Nat /\ DOMAIN c = 1 .. Len(q) - 1 /\ DOMAIN q = 1 .. Len(q)
    BY <2>3, LenProperties
  <2>5. f \in [DOMAIN c -> DOMAIN q]
    BY <2>1, <2>4
  <2>6. ASSUME NEW k \in DOMAIN c
        PROVE  c[k] = q[f[k]]
    <3>1. CASE k < i
      BY <2>1, <2>3, <2>4, <3>1
    <3>2. CASE ~(k < i)
      <4>1. k + 1 \in i + 1 .. Len(q) /\ (k + 1) - 1 = k
        BY <2>1, <2>4, <3>2
      <4> QED  BY <2>3, <2>4, <3>2, <4>1
    <3> QED  BY <3>1, <3>2
  <2>7. ASSUME NEW k \in DOMAIN c, NEW l \in DOMAIN c, f[k] = f[l]
        PROVE  k = l
    BY <2>1, <2>4, <2>7
  <2> HIDE DEF f
  <2> QED  BY <2>2, <2>5, <2>6, <2>7 DEF Embeds
<1> QED  BY <1>1, <1>2

LEMMA TailEmbeds ==
    ASSUME NEW q \in Seq(Entry), q # <<>>
    PROVE  Embeds(Tail(q), q)
<1> DEFINE f == [k \in 1 .. Len(q) - 1 |-> k + 1]
<1>1. /\ Tail(q) \in Seq(Entry) /\ Len(Tail(q)) = Len(q) - 1
      /\ \A i \in 1 .. Len(Tail(q)) : Tail(q)[i] = q[i + 1]
  BY HeadTailProperties
<1>2. /\ Len(q) \in Nat /\ DOMAIN q = 1 .. Len(q)
      /\ DOMAIN Tail(q) = 1 .. Len(q) - 1
  BY <1>1, LenProperties
<1>3. /\ f \in [DOMAIN Tail(q) -> DOMAIN q]
      /\ \A i \in DOMAIN Tail(q) : Tail(q)[i] = q[f[i]]
      /\ \A i, j \in DOMAIN Tail(q) : f[i] = f[j] => i = j
  BY <1>1, <1>2
<1> QED  BY <1>3 DEF Embeds

LEMMA PrefixEmbeds ==
    ASSUME NEW q \in Seq(Entry), NEW n \in Int, n <= Len(q)
    PROVE  Embeds(SubSeq(q, 1, n), q)
<1> DEFINE p == SubSeq(q, 1, n)
           f == [k \in DOMAIN p |-> k]
<1>1. Len(q) \in Nat /\ DOMAIN q = 1 .. Len(q)
  BY LenProperties
<1>2. \A i \in 1 .. n : q[i] \in Entry
  BY <1>1, ElementOfSeq
<1>3. /\ p \in Seq(Entry)
      /\ Len(p) = IF 1 <= n THEN n ELSE 0
      /\ \A i \in 1 .. n : p[i] = q[i]
  <2>1. /\ p \in Seq(Entry)
        /\ Len(p) = IF 1 <= n THEN n - 1 + 1 ELSE 0
        /\ \A i \in 1 .. n - 1 + 1 : p[i] = q[1 + i - 1]
    BY <1>2, SubSeqProperties
  <2>2. \A i \in 1 .. n : p[i] = q[i]
    <3> SUFFICES ASSUME NEW i \in 1 .. n
                 PROVE  p[i] = q[i]
      OBVIOUS
    <3>1. i \in 1 .. n - 1 + 1 /\ 1 + i - 1 = i
      OBVIOUS
    <3> HIDE DEF p
    <3> QED  BY <2>1, <3>1
  <2> QED  BY <2>1, <2>2
<1>4. DOMAIN p \subseteq 1 .. n
  BY <1>3, LenProperties
<1> HIDE DEF p
<1>5. /\ f \in [DOMAIN p -> DOMAIN q]
      /\ \A i \in DOMAIN p : p[i] = q[f[i]]
      /\ \A i, j \in DOMAIN p : f[i] = f[j] => i = j
  BY <1>1, <1>3, <1>4
<1> QED  BY <1>5 DEF Embeds, p

LEMMA AppendIsDistinct ==
    ASSUME NEW q \in Seq(Entry), NEW e \in Entry, Distinct(q),
           Positions(q, e.match) = {}
    PROVE  Distinct(Append(q, e))
<1> DEFINE t == Append(q, e)
<1>1. /\ t \in Seq(Entry) /\ Len(t) = Len(q) + 1 /\ Len(q) \in Nat
      /\ \A i \in 1 .. Len(q) : t[i] = q[i]
      /\ t[Len(q) + 1] = e
  BY AppendProperties, LenProperties
<1>2. DOMAIN t = 1 .. Len(q) + 1 /\ DOMAIN q = 1 .. Len(q)
  BY <1>1, LenProperties
<1> HIDE DEF t
<1>3. \A i \in 1 .. Len(q) : t[i].match # e.match
  BY <1>1, <1>2 DEF Positions
<1>4. \A i, j \in 1 .. Len(q) : t[i].match = t[j].match => i = j
  BY <1>1, <1>2 DEF Distinct
<1> QED  BY <1>1, <1>2, <1>3, <1>4 DEF Distinct, t

LEMMA ReplacedIsDistinct ==
    ASSUME NEW q \in Seq(Entry), NEW m, NEW r \in Result, Distinct(q)
    PROVE  Distinct(Replaced(q, m, r))
<1> DEFINE p == Replaced(q, m, r)
<1>1. \A i \in DOMAIN q : q[i] \in Entry
  BY ElementOfSeq, LenProperties
<1>2. DOMAIN p = DOMAIN q
  BY DEF Replaced
<1>3. \A i \in DOMAIN q : p[i].match = q[i].match
  BY <1>1 DEF Replaced, Entry
<1> HIDE DEF p
<1> QED  BY <1>2, <1>3 DEF Distinct, p

-----------------------------------------------------------------------------
(* Who changes the queue and its file, and how. *)

Aged ==
    /\ budget.aging
    /\ \E i \in DOMAIN btpRetry : btpRetry' = [btpRetry EXCEPT ![i].old = TRUE]

\* The queue changes in memory: an entry is cleared or queued, the file comes
\* back, an entry grows old, or the process starts again.
QueueChanges ==
    \/ \E m \in Match : ClearBtpRetry(m)
    \/ \E m \in Match, r \in Result : QueueBtpRetry(m, r)
    \/ LoadBtpRetry(fetched)
    \/ Aged
    \/ btpRetry' = <<>>

LEMMA QueueSteps ==
    ASSUME TypeInv, [Next]_vars
    PROVE  \/ UNCHANGED <<btpRetry, file>>
           \/ UNCHANGED btpRetry /\ PersistBtpRetry
           \/ UNCHANGED file /\ QueueChanges
<1>a. /\ \A a \in Request : request[a].at # "idle" =>
            request[a].match \in Match /\ request[a].result \in Result
      /\ phase \in Working => entry.match \in Match /\ entry.result \in Result
  BY DEF TypeInv, WorkInv, Entry
<1>b. rest # <<>> => Head(rest).match \in Match
  <2>1. rest # <<>> => Head(rest) \in Entry
    BY HeadTailProperties DEF TypeInv, TypeOK
  <2> QED  BY <2>1 DEF Entry
<1>1. ASSUME NEW m \in Match, TabletStep(m)
      PROVE  UNCHANGED <<btpRetry, file>>
  BY <1>1 DEF TabletStep, Submit, Reopen, ReleaseFinalized, TrySubmitPending,
              hostVars
<1>2. ASSUME NEW a \in Request, RequestStep(a)
      PROVE  \/ UNCHANGED <<btpRetry, file>>
             \/ UNCHANGED btpRetry /\ PersistBtpRetry
             \/ UNCHANGED file /\ QueueChanges
  <2>1. CASE WriteFails(a)
    BY <1>a, <2>1 DEF WriteFails, QueueChanges
  <2>2. CASE WriteSucceeds(a)
    BY <1>a, <2>2 DEF WriteSucceeds, QueueChanges
  <2>3. CASE PersistRequest(a)
    BY <2>3 DEF PersistRequest
  <2>4. CASE ~WriteFails(a) /\ ~WriteSucceeds(a) /\ ~PersistRequest(a)
    BY <1>2, <2>4 DEF RequestStep, AbortFetch, AnswerOffCourt, RejectPayload,
       BeginWrite, DeskEntersResult, BtpApplies, NoteDirectWrite, Answer,
       LoseMessage, DropTask, hostVars
  <2> QED  BY <2>1, <2>2, <2>3, <2>4
<1>3. CASE SyncStep
  <2>1. CASE FlushDrops
    BY <1>b, <2>1 DEF FlushDrops, Choosing, QueueChanges
  <2>2. CASE FlushSucceeds
    BY <1>a, <2>2 DEF FlushSucceeds, QueueChanges, Working
  <2>3. CASE RewriteFails
    BY <1>a, <2>3 DEF RewriteFails, QueueChanges, Working
  <2>4. CASE PersistFlush
    BY <2>4 DEF PersistFlush
  <2>5. CASE PublishSnapshot
    BY <2>5 DEF PublishSnapshot, QueueChanges
  <2>6. CASE /\ ~FlushDrops /\ ~FlushSucceeds /\ ~RewriteFails
             /\ ~PersistFlush /\ ~PublishSnapshot
    BY <1>3, <2>6 DEF SyncStep, FetchSnapshot, FlushBegins, FlushIsSkipped,
       FlushPasses, FlushWrites, FlushEnds, FlushApplies, FlushFails,
       FlushHeals, RewriteSucceeds, hostVars
  <2> QED  BY <2>1, <2>2, <2>3, <2>4, <2>5, <2>6
<1>4. CASE EnvironmentStep
  BY <1>4 DEF EnvironmentStep, DirectWriteExpires, HandEntry, EntryAges,
     SwitchTournament, Restart, QueueChanges, Aged, hostVars
<1>5. CASE UNCHANGED vars
  BY <1>5 DEF vars, hostVars
<1> QED  BY <1>1, <1>2, <1>3, <1>4, <1>5 DEF Next

-----------------------------------------------------------------------------
(* At most one entry per match.  The file is part of the invariant, because  *)
(* what it holds comes back into the queue.                                  *)

QueueInv == Distinct(btpRetry) /\ Distinct(file.entries) /\ WithinCap

LEMMA QueueIsDistinct ==
    ASSUME TypeInv, Distinct(btpRetry), NEW m \in Match, NEW r \in Result,
           QueueBtpRetry(m, r)
    PROVE  Distinct(btpRetry')
<1> DEFINE q == btpRetry
           e == NewEntry(m, r)
<1>1. q \in Seq(Entry) /\ e \in Entry /\ e.match = m
  BY DEF TypeInv, TypeOK, NewEntry, Entry
<1>2. CASE Queued(m)
  <2>1. btpRetry' = Replaced(q, m, r)
    BY <1>2 DEF QueueBtpRetry
  <2> QED  BY <1>1, <2>1, ReplacedIsDistinct
<1>3. CASE ~Queued(m) /\ btpRetry' = Append(q, e)
  BY <1>1, <1>3, AppendIsDistinct DEF Queued
<1>4. CASE ~Queued(m) /\ Len(q) >= BTP_RETRY_CAP /\ btpRetry' = Append(Tail(q), e)
  <2>1. q # <<>>
    BY <1>4, ConstantsAssumption, EmptySeq
  <2>2. Tail(q) \in Seq(Entry) /\ Embeds(Tail(q), q)
    BY <1>1, <2>1, HeadTailProperties, TailEmbeds
  <2>3. Distinct(Tail(q))
    BY <2>2, EmbeddedIsDistinct
  <2>4. Positions(Tail(q), m) = {}
    BY <1>4, <2>2 DEF Embeds, Positions, Queued
  <2> QED  BY <1>1, <1>4, <2>2, <2>3, <2>4, AppendIsDistinct
<1> QED  BY <1>2, <1>3, <1>4 DEF QueueBtpRetry

LEMMA LoadIsPrefix ==
    ASSUME TypeInv, LoadBtpRetry(fetched)
    PROVE  \/ btpRetry' = btpRetry
           \/ \E n \in Int : /\ n <= Len(file.entries) /\ n <= BTP_RETRY_CAP
                             /\ btpRetry' = SubSeq(file.entries, 1, n)
<1> DEFINE q == file.entries
           n == IF Len(q) < BTP_RETRY_CAP THEN Len(q) ELSE BTP_RETRY_CAP
<1>1. CASE Loaded \/ file.tournament # fetched.tournament
  BY <1>1 DEF LoadBtpRetry
<1>2. CASE ~Loaded /\ file.tournament = fetched.tournament
  <2>1. btpRetry = <<>> /\ q \in Seq(Entry)
    BY <1>2 DEF TypeInv, TypeOK, BootInv
  <2>2. btpRetry \o q = q
    BY <2>1, ConcatEmptySeq
  <2>3. btpRetry' = SubSeq(q, 1, n)
    BY <1>2, <2>1, <2>2 DEF LoadBtpRetry
  <2>4. n \in Int /\ n <= Len(q) /\ n <= BTP_RETRY_CAP
    BY <2>1, LenProperties, ConstantsAssumption
  <2> QED  BY <2>3, <2>4
<1> QED  BY <1>1, <1>2

LEMMA AgedIsSeq ==
    ASSUME NEW q \in Seq(Entry), NEW i \in DOMAIN q
    PROVE  LET p == [q EXCEPT ![i].old = TRUE]
           IN  /\ p \in Seq(Entry) /\ Len(p) = Len(q) /\ DOMAIN p = DOMAIN q
               /\ \A j \in DOMAIN q : /\ p[j].match = q[j].match
                                      /\ p[j].result = q[j].result
<1> DEFINE e == [q[i] EXCEPT !.old = TRUE]
           p == [q EXCEPT ![i] = e]
<1>1. i \in 1 .. Len(q) /\ DOMAIN q = 1 .. Len(q)
  BY LenProperties
<1>2. q[i] \in Entry
  BY <1>1, ElementOfSeq
<1>3. e \in Entry /\ e.match = q[i].match /\ e.result = q[i].result
  BY <1>2 DEF Entry
<1>4. [q EXCEPT ![i].old = TRUE] = p
  OBVIOUS
<1> HIDE DEF e
<1>5. /\ p \in Seq(Entry) /\ Len(p) = Len(q)
      /\ \A j \in 1 .. Len(q) : p[j] = IF j = i THEN e ELSE q[j]
  BY <1>1, <1>3, ExceptSeq
<1> HIDE DEF p
<1>6. DOMAIN p = DOMAIN q
  BY <1>1, <1>5, LenProperties
<1> QED  BY <1>1, <1>3, <1>4, <1>5, <1>6

LEMMA QueueStep ==
    ASSUME TypeInv, TypeInv', QueueInv, [Next]_vars
    PROVE  QueueInv'
<1>a. /\ btpRetry \in Seq(Entry) /\ file.entries \in Seq(Entry)
      /\ Len(btpRetry) \in Nat /\ Len(btpRetry) <= BTP_RETRY_CAP
  BY LenProperties DEF TypeInv, TypeOK, QueueInv, WithinCap
<1>1. CASE UNCHANGED <<btpRetry, file>>
  BY <1>1 DEF QueueInv, WithinCap
<1>2. CASE UNCHANGED btpRetry /\ PersistBtpRetry
  BY <1>2 DEF PersistBtpRetry, QueueInv, WithinCap
<1>3. CASE UNCHANGED file /\ QueueChanges
  <2>1. SUFFICES Distinct(btpRetry') /\ Len(btpRetry') <= BTP_RETRY_CAP
    BY <1>3 DEF QueueInv, WithinCap
  <2>2. ASSUME NEW m \in Match, ClearBtpRetry(m)
        PROVE  Distinct(btpRetry') /\ Len(btpRetry') <= BTP_RETRY_CAP
    <3>1. /\ btpRetry' = Without(btpRetry, m)
          /\ Embeds(btpRetry', btpRetry)
          /\ btpRetry' \in Seq(Entry) /\ Len(btpRetry') <= Len(btpRetry)
      BY <1>a, <2>2, WithoutEmbeds, WithoutIsSeq DEF ClearBtpRetry
    <3>2. Distinct(btpRetry')
      BY <3>1, EmbeddedIsDistinct DEF QueueInv
    <3> QED  BY <1>a, <3>1, <3>2, LenProperties, ConstantsAssumption
  <2>3. ASSUME NEW m \in Match, NEW r \in Result, QueueBtpRetry(m, r)
        PROVE  Distinct(btpRetry') /\ Len(btpRetry') <= BTP_RETRY_CAP
    BY <2>3, QueueIsDistinct, QueueKeeps DEF QueueInv
  <2>4. CASE LoadBtpRetry(fetched)
    <3>1. CASE btpRetry' = btpRetry
      BY <1>a, <3>1 DEF QueueInv
    <3>2. ASSUME NEW n \in Int, n <= Len(file.entries), n <= BTP_RETRY_CAP,
                 btpRetry' = SubSeq(file.entries, 1, n)
          PROVE  Distinct(btpRetry') /\ Len(btpRetry') <= BTP_RETRY_CAP
      <4>1. Embeds(btpRetry', file.entries)
        BY <1>a, <3>2, PrefixEmbeds
      <4>2. Distinct(btpRetry')
        BY <4>1, EmbeddedIsDistinct DEF QueueInv
      <4>3. \A i \in 1 .. n : file.entries[i] \in Entry
        BY <1>a, <3>2, ElementOfSeq, LenProperties
      <4>4. Len(btpRetry') = IF 1 <= n THEN n - 1 + 1 ELSE 0
        BY <3>2, <4>3, SubSeqProperties
      <4> QED  BY <3>2, <4>2, <4>4, ConstantsAssumption
    <3> QED  BY <2>4, <3>1, <3>2, LoadIsPrefix
  <2>5. CASE Aged
    <3>1. PICK i \in DOMAIN btpRetry :
             btpRetry' = [btpRetry EXCEPT ![i].old = TRUE]
      BY <2>5 DEF Aged
    <3>2. /\ Len(btpRetry') = Len(btpRetry) /\ DOMAIN btpRetry' = DOMAIN btpRetry
          /\ \A j \in DOMAIN btpRetry : btpRetry'[j].match = btpRetry[j].match
      BY <1>a, <3>1, AgedIsSeq
    <3> QED  BY <1>a, <3>2 DEF QueueInv, Distinct
  <2>6. CASE btpRetry' = <<>>
    BY <2>6, EmptySeq, ConstantsAssumption DEF Distinct
  <2> QED  BY <1>3, <2>2, <2>3, <2>4, <2>5, <2>6 DEF QueueChanges
<1> QED  BY <1>1, <1>2, <1>3, QueueSteps

-----------------------------------------------------------------------------
(* Entries grow old only where the scenario says so.                         *)

Fresh(q) == \A i \in DOMAIN q : ~q[i].old

FreshInv ==
    /\ ~budget.aging
    /\ Fresh(btpRetry) /\ Fresh(file.entries) /\ Fresh(rest)

LEMMA EmbeddedIsFresh ==
    ASSUME NEW p, NEW q, Embeds(p, q), Fresh(q)
    PROVE  Fresh(p)
  BY DEF Embeds, Fresh

\* What is in the queue after a result was queued: the new entry, and entries
\* of matches that had one.
LEMMA QueuedComesFrom ==
    ASSUME TypeInv, NEW m \in Match, NEW r \in Result, QueueBtpRetry(m, r),
           NEW i \in DOMAIN btpRetry'
    PROVE  \/ btpRetry'[i] = NewEntry(m, r)
           \/ \E j \in DOMAIN btpRetry : /\ btpRetry'[i].match = btpRetry[j].match
                                         /\ btpRetry'[i].old = btpRetry[j].old
<1> DEFINE q == btpRetry
           e == NewEntry(m, r)
<1>1. q \in Seq(Entry) /\ e \in Entry
  BY DEF TypeInv, TypeOK, NewEntry, Entry
<1>2. CASE btpRetry' = Replaced(q, m, r)
  <2>1. i \in DOMAIN q /\ q[i] \in Entry
    BY <1>1, <1>2, ElementOfSeq, LenProperties DEF Replaced
  <2>2. btpRetry'[i].match = q[i].match /\ btpRetry'[i].old = q[i].old
    BY <1>2, <2>1 DEF Replaced, Entry
  <2> QED  BY <2>1, <2>2
<1>3. ASSUME NEW p \in Seq(Entry), btpRetry' = Append(p, e)
      PROVE  btpRetry'[i] = e \/ (i \in DOMAIN p /\ btpRetry'[i] = p[i])
  <2> HIDE DEF e
  <2>1. /\ Append(p, e) \in Seq(Entry) /\ Len(Append(p, e)) = Len(p) + 1
        /\ \A k \in 1 .. Len(p) : Append(p, e)[k] = p[k]
        /\ Append(p, e)[Len(p) + 1] = e
    BY <1>1, AppendProperties
  <2>2. /\ Len(p) \in Nat
        /\ DOMAIN Append(p, e) = 1 .. Len(p) + 1 /\ DOMAIN p = 1 .. Len(p)
    BY <2>1, LenProperties
  <2> QED  BY <1>3, <2>1, <2>2
<1>4. CASE btpRetry' = Append(q, e)
  BY <1>1, <1>3, <1>4
<1>5. CASE Len(q) >= BTP_RETRY_CAP /\ btpRetry' = Append(Tail(q), e)
  <2>1. q # <<>>
    BY <1>5, ConstantsAssumption, EmptySeq
  <2>2. Tail(q) \in Seq(Entry) /\ Embeds(Tail(q), q)
    BY <1>1, <2>1, HeadTailProperties, TailEmbeds
  <2>3. btpRetry'[i] = e \/ (i \in DOMAIN Tail(q) /\ btpRetry'[i] = Tail(q)[i])
    BY <1>3, <1>5, <2>2
  <2> QED  BY <2>2, <2>3 DEF Embeds
<1> QED  BY <1>2, <1>4, <1>5 DEF QueueBtpRetry

LEMMA RotatedIsFresh ==
    ASSUME NEW q \in Seq(Entry), NEW k \in 0 .. Len(q), Fresh(q)
    PROVE  Fresh(Rotate(q, k))
<1> DEFINE n == Len(q)
           a == SubSeq(q, k + 1, n)
           b == SubSeq(q, 1, k)
<1>1. n \in Nat /\ DOMAIN q = 1 .. n /\ \A i \in 1 .. n : q[i] \in Entry
  BY LenProperties, ElementOfSeq
<1>0. k \in 0 .. n
  OBVIOUS
<1>2. /\ a \in Seq(Entry) /\ Len(a) = n - k
      /\ \A i \in 1 .. n - k : a[i] = q[k + i]
  <2>1. /\ a \in Seq(Entry)
        /\ Len(a) = IF k + 1 <= n THEN n - (k + 1) + 1 ELSE 0
        /\ \A i \in 1 .. n - (k + 1) + 1 : a[i] = q[(k + 1) + i - 1]
    BY <1>1, SubSeqProperties
  <2> HIDE DEF a, n
  <2>2. n - (k + 1) + 1 = n - k
    BY <1>1
  <2>3. \A i \in 1 .. n - k : (k + 1) + i - 1 = k + i
    BY <1>1
  <2>4. \A i \in 1 .. n - k : a[i] = q[k + i]
    BY <2>1, <2>2, <2>3
  <2>5. Len(a) = n - k
    <3>1. n \in Nat /\ k \in Int /\ 0 <= k /\ k <= n
      BY <1>0, <1>1
    <3>2. CASE k + 1 <= n
      BY <2>1, <2>2, <3>2
    <3>3. CASE ~(k + 1 <= n)
      <4>1. n = k
        BY <3>1, <3>3
      <4> QED  BY <2>1, <3>1, <3>3, <4>1
    <3> QED  BY <3>2, <3>3
  <2> QED  BY <2>1, <2>4, <2>5
<1>3. /\ b \in Seq(Entry) /\ Len(b) = k
      /\ \A i \in 1 .. k : b[i] = q[i]
  <2>1. /\ b \in Seq(Entry)
        /\ Len(b) = IF 1 <= k THEN k - 1 + 1 ELSE 0
        /\ \A i \in 1 .. k - 1 + 1 : b[i] = q[1 + i - 1]
    BY <1>1, SubSeqProperties
  <2> HIDE DEF b
  <2>2. \A i \in 1 .. k : 1 + i - 1 = i
    BY <1>1
  <2> QED  BY <1>1, <2>1, <2>2
<1> HIDE DEF a, b
<1>4. /\ a \o b \in Seq(Entry)
      /\ Len(a \o b) = (n - k) + k
      /\ \A i \in 1 .. (n - k) + k :
           (a \o b)[i] = IF i <= n - k THEN a[i] ELSE b[i - (n - k)]
  BY <1>2, <1>3, ConcatProperties
<1>5. DOMAIN (a \o b) = 1 .. (n - k) + k
  BY <1>4, LenProperties
<1>6. ASSUME NEW i \in 1 .. (n - k) + k
      PROVE  ~(a \o b)[i].old
  <2>1. CASE i <= n - k
    <3>1. (a \o b)[i] = q[k + i] /\ k + i \in 1 .. n
      BY <1>1, <1>2, <1>4, <2>1
    <3> QED  BY <1>1, <3>1 DEF Fresh
  <2>2. CASE ~(i <= n - k)
    <3>1. (a \o b)[i] = q[i - (n - k)] /\ i - (n - k) \in 1 .. n
      BY <1>1, <1>3, <1>4, <2>2
    <3> QED  BY <1>1, <3>1 DEF Fresh
  <2> QED  BY <2>1, <2>2
<1> QED  BY <1>5, <1>6 DEF Fresh, Rotate, a, b

LEMMA AgingIsFixed ==
    ASSUME TypeInv, [Next]_vars
    PROVE  budget'.aging = budget.aging
<1> USE DEF TypeInv, TypeOK, Budget
<1>1. ASSUME NEW m \in Match, TabletStep(m)
      PROVE  budget'.aging = budget.aging
  BY <1>1 DEF TabletStep, Submit, Reopen, ReleaseFinalized,
              TrySubmitPending, CountEntered
<1>2. ASSUME NEW a \in Request, RequestStep(a)
      PROVE  budget'.aging = budget.aging
  BY <1>2 DEF RequestStep, AbortFetch, AnswerOffCourt, RejectPayload,
     BeginWrite, DeskEntersResult, BtpApplies, WriteFails, WriteSucceeds,
     PersistRequest, NoteDirectWrite, Answer, LoseMessage, DropTask,
     CountEntered
<1>3. CASE SyncStep
  BY <1>3 DEF SyncStep, FetchSnapshot, FlushBegins, FlushIsSkipped,
     FlushPasses, FlushDrops, FlushWrites, FlushEnds, FlushApplies,
     FlushFails, FlushSucceeds, PersistFlush, FlushHeals, RewriteFails,
     RewriteSucceeds, PublishSnapshot
<1>4. CASE EnvironmentStep
  BY <1>4 DEF EnvironmentStep, DirectWriteExpires, HandEntry, EntryAges,
     SwitchTournament, Restart
<1>5. CASE UNCHANGED vars
  BY <1>5 DEF vars
<1> QED  BY <1>1, <1>2, <1>3, <1>4, <1>5 DEF Next

LEMMA FreshStep ==
    ASSUME TypeInv, FreshInv, [Next]_vars
    PROVE  FreshInv'
<1>a. /\ btpRetry \in Seq(Entry) /\ rest \in Seq(Entry)
      /\ file.entries \in Seq(Entry)
  BY DEF TypeInv, TypeOK
<1>c. rest # <<>> => /\ ~Head(rest).old
                     /\ Fresh(Tail(rest))
  <2>1. CASE rest # <<>>
    <3>1. Head(rest) = rest[1] /\ 1 \in DOMAIN rest
      BY <1>a, <2>1, EmptySeq, LenProperties
    <3>2. Embeds(Tail(rest), rest)
      BY <1>a, <2>1, TailEmbeds
    <3> QED  BY <3>1, <3>2, EmbeddedIsFresh DEF FreshInv, Fresh
  <2> QED  BY <2>1
<1>1. budget'.aging = budget.aging
  BY AgingIsFixed
<1>2. Fresh(btpRetry')
  <2>1. ASSUME NEW m \in Match, ClearBtpRetry(m)
        PROVE  Fresh(btpRetry')
    BY <1>a, <2>1, WithoutEmbeds, EmbeddedIsFresh DEF ClearBtpRetry, FreshInv
  <2>2. ASSUME NEW m \in Match, NEW r \in Result, QueueBtpRetry(m, r)
        PROVE  Fresh(btpRetry')
    BY <2>2, QueuedComesFrom DEF NewEntry, Fresh, FreshInv
  <2>3. CASE LoadBtpRetry(fetched)
    BY <1>a, <2>3, LoadIsPrefix, PrefixEmbeds, EmbeddedIsFresh,
       ConstantsAssumption DEF FreshInv
  <2>4. CASE btpRetry' = <<>>
    BY <2>4 DEF Fresh
  <2>5. ~Aged
    BY DEF Aged, FreshInv
  <2>6. CASE btpRetry' = btpRetry
    BY <2>6 DEF FreshInv
  <2> QED  BY <2>1, <2>2, <2>3, <2>4, <2>5, <2>6, QueueSteps DEF QueueChanges
<1>3. Fresh(file'.entries)
  <2>1. CASE PersistBtpRetry
    BY <2>1 DEF PersistBtpRetry, FreshInv
  <2>2. CASE file' = file
    BY <2>2 DEF FreshInv
  <2> QED  BY <2>1, <2>2, QueueSteps
<1>4. Fresh(rest')
  <2>1. ASSUME NEW m \in Match, TabletStep(m)
        PROVE  rest' = rest
    BY <2>1 DEF TabletStep, Submit, Reopen, ReleaseFinalized,
                TrySubmitPending, syncVars
  <2>2. ASSUME NEW a \in Request, RequestStep(a)
        PROVE  rest' = rest
    BY <2>2 DEF RequestStep, AbortFetch, AnswerOffCourt, RejectPayload,
       BeginWrite, DeskEntersResult, BtpApplies, WriteFails, WriteSucceeds,
       PersistRequest, NoteDirectWrite, Answer, LoseMessage, DropTask, syncVars
  <2>3. CASE SyncStep
    <3>1. CASE FlushBegins
      <4>1. Len(btpRetry) \in Nat \ {0} /\ retryStart \in Nat
        BY <1>a, <3>1, EmptySeq, LenProperties DEF FlushBegins, TypeInv, TypeOK
      <4>2. retryStart % Len(btpRetry) \in 0 .. Len(btpRetry)
        BY <4>1
      <4> QED  BY <1>a, <3>1, <4>2, RotatedIsFresh DEF FlushBegins, FreshInv
    <3>2. CASE FlushPasses \/ FlushDrops \/ FlushWrites
      BY <1>c, <3>2 DEF FlushPasses, FlushDrops, FlushWrites, Choosing
    <3>3. CASE FlushEnds
      BY <3>3 DEF FlushEnds, Fresh
    <3>4. CASE /\ ~FlushBegins /\ ~FlushPasses /\ ~FlushDrops
               /\ ~FlushWrites /\ ~FlushEnds
      <4>1. rest' = rest
        BY <2>3, <3>4 DEF SyncStep, FetchSnapshot, FlushIsSkipped,
           FlushApplies, FlushFails, FlushSucceeds, PersistFlush, FlushHeals,
           RewriteFails, RewriteSucceeds, PublishSnapshot, syncVars
      <4> QED  BY <4>1 DEF FreshInv
    <3> QED  BY <3>1, <3>2, <3>3, <3>4
  <2>4. CASE EnvironmentStep
    BY <2>4 DEF EnvironmentStep, DirectWriteExpires, HandEntry, EntryAges,
       SwitchTournament, Restart, syncVars, FreshInv, Fresh
  <2>5. CASE UNCHANGED vars
    BY <2>5 DEF vars, syncVars, FreshInv
  <2> QED  BY <2>1, <2>2, <2>3, <2>4, <2>5 DEF Next, FreshInv
<1> QED  BY <1>1, <1>2, <1>3, <1>4 DEF FreshInv

LEMMA DroppedSteps ==
    ASSUME TypeInv, FreshInv, [Next]_vars
    PROVE  \/ UNCHANGED dropped
           \/ \E m \in Match, r \in Result : QueueBtpRetry(m, r)
<1>a. /\ \A a \in Request : request[a].at # "idle" =>
            request[a].match \in Match /\ request[a].result \in Result
      /\ phase \in Working => entry.match \in Match /\ entry.result \in Result
  BY DEF TypeInv, WorkInv, Entry
<1>b. rest # <<>> => ~Head(rest).old
  <2>1. rest \in Seq(Entry)
    BY DEF TypeInv, TypeOK
  <2>2. rest # <<>> => Head(rest) = rest[1] /\ 1 \in DOMAIN rest
    BY <2>1, EmptySeq, LenProperties
  <2> QED  BY <2>2 DEF FreshInv, Fresh
<1>1. ASSUME NEW m \in Match, TabletStep(m)
      PROVE  UNCHANGED dropped
  BY <1>1 DEF TabletStep, Submit, Reopen, ReleaseFinalized,
              TrySubmitPending, history
<1>2. ASSUME NEW a \in Request, RequestStep(a), ~WriteFails(a)
      PROVE  UNCHANGED dropped
  BY <1>2 DEF RequestStep, AbortFetch, AnswerOffCourt, RejectPayload,
     BeginWrite, DeskEntersResult, BtpApplies, WriteSucceeds, PersistRequest,
     NoteDirectWrite, Answer, LoseMessage, DropTask, history
<1>3. ASSUME NEW a \in Request, WriteFails(a)
      PROVE  \E m \in Match, r \in Result : QueueBtpRetry(m, r)
  BY <1>a, <1>3 DEF WriteFails
<1>4. CASE FlushDrops
  BY <1>b, <1>4 DEF FlushDrops, DropReason, Choosing
<1>5. CASE RewriteFails
  BY <1>a, <1>5 DEF RewriteFails, Working
<1>6. CASE SyncStep /\ ~FlushDrops /\ ~RewriteFails
  BY <1>6 DEF SyncStep, FetchSnapshot, FlushBegins, FlushIsSkipped,
     FlushPasses, FlushWrites, FlushEnds, FlushApplies, FlushFails,
     FlushSucceeds, PersistFlush, FlushHeals, RewriteSucceeds,
     PublishSnapshot, history
<1>7. CASE EnvironmentStep
  BY <1>7 DEF EnvironmentStep, DirectWriteExpires, HandEntry, EntryAges,
     SwitchTournament, Restart, history
<1>8. CASE UNCHANGED vars
  BY <1>8 DEF vars, history
<1> QED  BY <1>1, <1>2, <1>3, <1>4, <1>5, <1>6, <1>7, <1>8 DEF Next

-----------------------------------------------------------------------------
(* Matches whose results were written or queued at any time: a queue that is *)
(* full without one of them shows that there are more than places.           *)

KnownInv ==
    /\ IsFiniteSet(MatchesOf(kept))
    /\ \A i \in DOMAIN btpRetry : btpRetry[i].match \in MatchesOf(kept)
    /\ \A i \in DOMAIN file.entries : file.entries[i].match \in MatchesOf(kept)

RoomInv ==
    dropped # {} /\ ~budget.aging => Cardinality(MatchesOf(kept)) > BTP_RETRY_CAP

LEMMA KeptSteps ==
    ASSUME [Next]_vars
    PROVE  \/ UNCHANGED kept
           \/ \E m, r : kept' = kept \cup {<<m, r>>}
<1>1. ASSUME NEW m \in Match, TabletStep(m)
      PROVE  UNCHANGED kept
  BY <1>1 DEF TabletStep, Submit, Reopen, ReleaseFinalized, TrySubmitPending,
              history
<1>2. ASSUME NEW a \in Request, BtpApplies(a) \/ WriteFails(a)
      PROVE  \E m, r : kept' = kept \cup {<<m, r>>}
  BY <1>2 DEF BtpApplies, WriteFails, QueueBtpRetry
<1>3. ASSUME NEW a \in Request, RequestStep(a), ~BtpApplies(a), ~WriteFails(a)
      PROVE  UNCHANGED kept
  BY <1>3 DEF RequestStep, AbortFetch, AnswerOffCourt, RejectPayload,
     BeginWrite, DeskEntersResult, WriteSucceeds, PersistRequest,
     NoteDirectWrite, Answer, LoseMessage, DropTask, history
<1>4. CASE FlushApplies \/ RewriteFails
  BY <1>4 DEF FlushApplies, RewriteFails, QueueBtpRetry
<1>5. CASE SyncStep /\ ~FlushApplies /\ ~RewriteFails
  BY <1>5 DEF SyncStep, FetchSnapshot, FlushBegins, FlushIsSkipped,
     FlushPasses, FlushDrops, FlushWrites, FlushEnds, FlushFails,
     FlushSucceeds, PersistFlush, FlushHeals, RewriteSucceeds,
     PublishSnapshot, history
<1>6. CASE EnvironmentStep
  BY <1>6 DEF EnvironmentStep, DirectWriteExpires, HandEntry, EntryAges,
     SwitchTournament, Restart, history
<1>7. CASE UNCHANGED vars
  BY <1>7 DEF vars, history
<1> QED  BY <1>1, <1>2, <1>3, <1>4, <1>5, <1>6, <1>7 DEF Next

LEMMA MatchesGrow ==
    ASSUME NEW K, NEW m, NEW r
    PROVE  MatchesOf(K \cup {<<m, r>>}) = MatchesOf(K) \cup {m}
<1>1. ASSUME NEW x \in K \cup {<<m, r>>} PROVE x[1] \in MatchesOf(K) \cup {m}
  BY <1>1 DEF MatchesOf
<1>2. m \in MatchesOf(K \cup {<<m, r>>})
  <2>1. <<m, r>>[1] = m /\ <<m, r>> \in K \cup {<<m, r>>}
    OBVIOUS
  <2> QED  BY <2>1 DEF MatchesOf
<1>3. MatchesOf(K) \subseteq MatchesOf(K \cup {<<m, r>>})
  BY DEF MatchesOf
<1>4. MatchesOf(K \cup {<<m, r>>}) \subseteq MatchesOf(K) \cup {m}
  BY <1>1 DEF MatchesOf
<1> QED  BY <1>2, <1>3, <1>4

LEMMA KnownGrow ==
    ASSUME IsFiniteSet(MatchesOf(kept)), [Next]_vars
    PROVE  /\ IsFiniteSet(MatchesOf(kept')) /\ MatchesOf(kept) \subseteq MatchesOf(kept')
           /\ Cardinality(MatchesOf(kept)) \in Nat
           /\ Cardinality(MatchesOf(kept')) \in Nat
           /\ Cardinality(MatchesOf(kept)) <= Cardinality(MatchesOf(kept'))
<1>1. IsFiniteSet(MatchesOf(kept')) /\ MatchesOf(kept) \subseteq MatchesOf(kept')
  <2>1. ASSUME NEW m, NEW r, kept' = kept \cup {<<m, r>>}
        PROVE  /\ IsFiniteSet(MatchesOf(kept'))
               /\ MatchesOf(kept) \subseteq MatchesOf(kept')
    <3>1. MatchesOf(kept') = MatchesOf(kept) \cup {m}
      BY <2>1, MatchesGrow
    <3> QED  BY <3>1, FS_AddElement
  <2> QED  BY <2>1, KeptSteps
<1> QED  BY <1>1, FS_Subset, FS_CardinalityType

\* A queue without an entry of m, whose matches are in M like m, is smaller
\* than M.
LEMMA RoomForOneMore ==
    ASSUME NEW q \in Seq(Entry), Distinct(q), NEW M, IsFiniteSet(M), NEW m \in M,
           Positions(q, m) = {}, \A i \in DOMAIN q : q[i].match \in M
    PROVE  Len(q) < Cardinality(M)
<1> DEFINE S == 1 .. Len(q)
           T == M \ {m}
           f == [i \in S |-> q[i].match]
<1>1. Len(q) \in Nat /\ DOMAIN q = S
  BY LenProperties
<1>2. f \in [S -> T]
  BY <1>1 DEF Positions
<1>3. \A x, y \in S : f[x] = f[y] => x = y
  BY <1>1 DEF Distinct
<1>4. IsFiniteSet(S) /\ Cardinality(S) = Len(q)
  <2> HIDE DEF T, f
  <2>1. 1 \in Int /\ Len(q) \in Int
    BY <1>1
  <2>2. /\ IsFiniteSet(1 .. Len(q))
        /\ Cardinality(1 .. Len(q)) = IF 1 > Len(q) THEN 0 ELSE Len(q) - 1 + 1
    BY <2>1, FS_Interval
  <2> QED  BY <1>1, <2>2
<1>5. /\ IsFiniteSet(T) /\ Cardinality(T) = Cardinality(M) - 1
      /\ Cardinality(M) \in Nat /\ Cardinality(T) \in Nat
  BY FS_RemoveElement, FS_CardinalityType
<1> HIDE DEF S, T, f
<1>6. ~(Cardinality(T) < Cardinality(S))
  BY <1>2, <1>3, <1>4, <1>5, FS_PigeonHole
<1> QED  BY <1>1, <1>4, <1>5, <1>6

LEMMA RoomStep ==
    ASSUME TypeInv, QueueInv, KnownInv, RoomInv, budget.aging \/ FreshInv, [Next]_vars
    PROVE  KnownInv' /\ RoomInv'
<1> DEFINE M == MatchesOf(kept)
           N == MatchesOf(kept')
<1>1. /\ IsFiniteSet(N) /\ M \subseteq N
      /\ Cardinality(M) \in Nat /\ Cardinality(N) \in Nat
      /\ Cardinality(M) <= Cardinality(N)
  BY KnownGrow DEF KnownInv
<1>2. /\ btpRetry \in Seq(Entry) /\ file.entries \in Seq(Entry)
      /\ BTP_RETRY_CAP \in Nat /\ Len(btpRetry) \in Nat
  BY ConstantsAssumption, LenProperties DEF TypeInv, TypeOK
<1>3. \A m \in Match, r \in Result : QueueBtpRetry(m, r) => m \in N
  <2> SUFFICES ASSUME NEW m \in Match, NEW r \in Result, QueueBtpRetry(m, r)
               PROVE  m \in N
    OBVIOUS
  <2>1. kept' = kept \cup {<<m, r>>}
    BY DEF QueueBtpRetry
  <2>2. MatchesOf(kept \cup {<<m, r>>}) = MatchesOf(kept) \cup {m}
    BY MatchesGrow
  <2> QED  BY <2>1, <2>2
<1> HIDE DEF M, N
<1>4. /\ \A i \in DOMAIN btpRetry : btpRetry[i].match \in N
      /\ \A i \in DOMAIN file.entries : file.entries[i].match \in N
  BY <1>1 DEF KnownInv, M
<1>5. \A i \in DOMAIN btpRetry' : btpRetry'[i].match \in N
  <2>1. ASSUME NEW q, Embeds(btpRetry', q), \A i \in DOMAIN q : q[i].match \in N
        PROVE  \A i \in DOMAIN btpRetry' : btpRetry'[i].match \in N
    BY <2>1 DEF Embeds
  <2>2. ASSUME NEW m \in Match, ClearBtpRetry(m)
        PROVE  Embeds(btpRetry', btpRetry)
    BY <1>2, <2>2, WithoutEmbeds DEF ClearBtpRetry
  <2>3. ASSUME NEW m \in Match, NEW r \in Result, QueueBtpRetry(m, r)
        PROVE  \A i \in DOMAIN btpRetry' : btpRetry'[i].match \in N
    BY <1>3, <1>4, <2>3, QueuedComesFrom DEF NewEntry
  <2>4. CASE LoadBtpRetry(fetched)
    BY <1>2, <1>4, <2>1, <2>4, LoadIsPrefix, PrefixEmbeds
  <2>5. CASE Aged
    <3>1. PICK i \in DOMAIN btpRetry :
             btpRetry' = [btpRetry EXCEPT ![i].old = TRUE]
      BY <2>5 DEF Aged
    <3> QED  BY <1>2, <1>4, <3>1, AgedIsSeq
  <2>6. CASE btpRetry' = <<>>
    BY <2>6
  <2>7. CASE UNCHANGED btpRetry
    BY <1>4, <2>7
  <2> QED  BY <1>4, <2>1, <2>2, <2>3, <2>4, <2>5, <2>6, <2>7, QueueSteps
           DEF QueueChanges
<1>6. \A i \in DOMAIN file'.entries : file'.entries[i].match \in N
  BY <1>4, QueueSteps DEF PersistBtpRetry
<1>7. ASSUME NEW m \in Match, NEW r \in Result, QueueBtpRetry(m, r)
      PROVE  UNCHANGED dropped \/ Cardinality(N) > BTP_RETRY_CAP
  <2>1. CASE UNCHANGED dropped
    BY <2>1
  <2>2. CASE Positions(btpRetry, m) = {} /\ Len(btpRetry) >= BTP_RETRY_CAP
    <3>1. m \in N
      BY <1>3, <1>7
    <3>2. Len(btpRetry) < Cardinality(N)
      BY <1>1, <1>2, <1>4, <2>2, <3>1, RoomForOneMore DEF QueueInv
    <3> QED  BY <1>1, <1>2, <2>2, <3>2
  <2> QED  BY <1>7, <2>1, <2>2 DEF QueueBtpRetry, Queued
<1>8. RoomInv'
  <2>1. SUFFICES ASSUME dropped' # {}, ~budget'.aging
                 PROVE  Cardinality(N) > BTP_RETRY_CAP
    BY DEF RoomInv, N
  <2>2. FreshInv /\ ~budget.aging
    BY <2>1, AgingIsFixed DEF FreshInv
  <2>3. CASE UNCHANGED dropped
    <3>1. Cardinality(M) > BTP_RETRY_CAP
      BY <2>1, <2>2, <2>3 DEF RoomInv, M
    <3> QED  BY <1>1, <1>2, <3>1
  <2> QED  BY <1>7, <2>2, <2>3, DroppedSteps
<1> QED  BY <1>1, <1>5, <1>6, <1>8 DEF KnownInv, N

-----------------------------------------------------------------------------
(* The queue over all steps together.                                        *)

PlacesInv == TypeInv /\ QueueInv /\ KnownInv /\ RoomInv /\ (budget.aging \/ FreshInv)

LEMMA PlacesInit == Init => PlacesInv
<1> SUFFICES ASSUME Init PROVE PlacesInv
  OBVIOUS
<1>1. TypeInv
  BY TypeInit
<1>2. QueueInv /\ (budget.aging \/ FreshInv) /\ RoomInv
  BY EmptySeq, ConstantsAssumption
  DEF Init, QueueInv, WithinCap, Distinct, FreshInv, Fresh, RoomInv
<1>3. MatchesOf(kept) = {}
  BY DEF Init, MatchesOf
<1>4. KnownInv
  <2>1. IsFiniteSet(MatchesOf(kept))
    BY <1>3, FS_EmptySet
  <2>2. DOMAIN btpRetry = {} /\ DOMAIN file.entries = {}
    BY EmptySeq DEF Init
  <2> QED  BY <2>1, <2>2 DEF KnownInv
<1> QED  BY <1>1, <1>2, <1>4 DEF PlacesInv

LEMMA PlacesStep == PlacesInv /\ [Next]_vars => PlacesInv'
<1> SUFFICES ASSUME PlacesInv, [Next]_vars PROVE PlacesInv'
  OBVIOUS
<1>1. TypeInv' /\ QueueInv'
  BY TypeStep, QueueStep DEF PlacesInv
<1>2. budget'.aging \/ FreshInv'
  BY AgingIsFixed, FreshStep DEF PlacesInv
<1>3. KnownInv' /\ RoomInv'
  BY RoomStep DEF PlacesInv
<1> QED  BY <1>1, <1>2, <1>3 DEF PlacesInv

\* Whatever is queued, corrected, cleared, loaded and lost in whatever order, no
\* match has two results in the queue or in the file, the cap holds, and no
\* result is given up for want of a place unless more matches have had results
\* than there are places - for every number of matches, tasks, restarts and
\* tournaments, and every cap (queue_btp_retry, clear_btp_retry,
\* load_btp_retry).
THEOREM NoMatchIsQueuedTwice == Spec => []OneEntryPerMatch
<1>1. PlacesInv => OneEntryPerMatch
  BY DEF PlacesInv, QueueInv, WithinCap, RoomInv, OneEntryPerMatch
<1> QED  BY <1>1, PlacesInit, PlacesStep, PTL DEF Spec

-----------------------------------------------------------------------------
(* An ok stands for that very result.  What is noted as written directly was *)
(* kept as well: a repetition is acknowledged because of it.                 *)

KeptStates == {"applied", "persistQueued", "persistCleared", "noting", "ok"}

KeptInv ==
    /\ \A a \in Request : request[a].at \in KeptStates =>
          <<request[a].match, request[a].result>> \in kept
    /\ \A m \in Match : lastDirect[m].inTtl =>
          <<m, lastDirect[m].result>> \in kept
    /\ \A m \in Match : promised[m] # NoResult => <<m, promised[m]>> \in kept

LEMMA KeptGrows ==
    ASSUME [Next]_vars
    PROVE  kept \subseteq kept'
<1>1. ASSUME NEW m \in Match, TabletStep(m)
      PROVE  kept' = kept
  BY <1>1 DEF TabletStep, Submit, Reopen, ReleaseFinalized, TrySubmitPending,
              history
<1>2. ASSUME NEW a \in Request, RequestStep(a)
      PROVE  kept \subseteq kept'
  BY <1>2 DEF RequestStep, AbortFetch, AnswerOffCourt, RejectPayload,
     BeginWrite, DeskEntersResult, BtpApplies, WriteFails, WriteSucceeds,
     PersistRequest, NoteDirectWrite, Answer, LoseMessage, DropTask,
     QueueBtpRetry, history
<1>3. CASE SyncStep
  BY <1>3 DEF SyncStep, FetchSnapshot, FlushBegins, FlushIsSkipped,
     FlushPasses, FlushDrops, FlushWrites, FlushEnds, FlushApplies,
     FlushFails, FlushSucceeds, PersistFlush, FlushHeals, RewriteFails,
     RewriteSucceeds, PublishSnapshot, QueueBtpRetry, history
<1>4. CASE EnvironmentStep
  BY <1>4 DEF EnvironmentStep, DirectWriteExpires, HandEntry, EntryAges,
     SwitchTournament, Restart, history
<1>5. CASE UNCHANGED vars
  BY <1>5 DEF vars, history
<1> QED  BY <1>1, <1>2, <1>3, <1>4, <1>5 DEF Next

LEMMA KeptTasks ==
    ASSUME TypeInv, KeptInv, kept \subseteq kept', NEW a \in Request,
           RequestStep(a)
    PROVE  KeptInv'
<1> DEFINE Moved(at) ==
             \A b \in Request :
               /\ request'[b].at = IF b = a THEN at ELSE request[b].at
               /\ request'[b].match = request[b].match
               /\ request'[b].result = request[b].result
           NotKeptOrSame ==
             \A b \in Request : \/ request'[b].at \notin KeptStates
                                \/ request'[b] = request[b]
<1>a. \A at \in RequestStates : Goto(a, at) => Moved(at)
  BY GotoFacts DEF TypeInv
<1>b. request' = [request EXCEPT ![a] = IdleRequest] => NotKeptOrSame
  BY DEF IdleRequest, KeptStates, TypeInv, TypeOK
<1>c. request[a].at # "idle" =>
        request[a].match \in Match /\ request[a].result \in Result
  BY DEF TypeInv, WorkInv
<1>1. CASE AbortFetch(a)
  <2>1. /\ request \in [Request -> RequestRecord]
        /\ request' = [request EXCEPT ![a] = [request[a] EXCEPT !.listening = FALSE]]
    BY <1>1 DEF AbortFetch, TypeInv, TypeOK
  <2>2. Moved(request[a].at)
    BY <2>1 DEF RequestRecord
  <2> QED  BY <1>1, <2>2 DEF AbortFetch, KeptInv, hostVars, history
<1>2. CASE AnswerOffCourt(a)
  <2>1. PICK at \in {"ok", "refused"} : Moved(at) /\ (at = "ok" => SettledOk(a))
    BY <1>2, <1>a DEF AnswerOffCourt, RequestStates
  <2>2. SettledOk(a) => <<request[a].match, request[a].result>> \in kept
    BY <1>2, <1>c DEF AnswerOffCourt, SettledOk, KeptInv
  <2> QED  BY <1>2, <2>1, <2>2 DEF AnswerOffCourt, KeptInv, KeptStates,
                                   hostVars, history
<1>3. CASE RejectPayload(a) \/ BeginWrite(a)
  <2>1. PICK at \in {"invalid", "writing"} : Moved(at)
    BY <1>3, <1>a DEF RejectPayload, BeginWrite, RequestStates
  <2> QED  BY <1>3, <2>1 DEF RejectPayload, BeginWrite, KeptInv, KeptStates,
                             hostVars, history
<1>4. CASE DeskEntersResult(a)
  <2>1. NotKeptOrSame
    BY <1>4 DEF DeskEntersResult, KeptStates, TypeInv, TypeOK
  <2> QED  BY <1>4, <2>1 DEF DeskEntersResult, KeptInv, hostVars, history
<1>5. CASE BtpApplies(a)
  <2>1. /\ Moved("applied")
        /\ <<request[a].match, request[a].result>> \in kept'
    BY <1>5, <1>a DEF BtpApplies, RequestStates
  <2> QED  BY <1>5, <2>1 DEF BtpApplies, KeptInv, hostVars
<1>6. CASE WriteFails(a)
  <2>1. /\ Moved("persistQueued")
        /\ <<request[a].match, request[a].result>> \in kept'
    BY <1>6, <1>a DEF WriteFails, QueueBtpRetry, RequestStates
  <2> QED  BY <1>6, <2>1 DEF WriteFails, KeptInv
<1>7. CASE WriteSucceeds(a) \/ PersistRequest(a)
  <2>1. /\ \E at \in KeptStates : Moved(at)
        /\ request[a].at \in KeptStates
    BY <1>7, <1>a DEF WriteSucceeds, PersistRequest, RequestStates, KeptStates
  <2> QED  BY <1>7, <2>1 DEF WriteSucceeds, PersistRequest, KeptInv, history
<1>8. CASE NoteDirectWrite(a)
  <2>1. Moved("ok") /\ request[a].at = "noting"
    BY <1>8, <1>a DEF NoteDirectWrite, RequestStates
  <2>2. <<request[a].match, request[a].result>> \in kept
    BY <2>1 DEF KeptInv, KeptStates
  <2>3. \A m \in Match : lastDirect'[m] =
          IF m = request[a].match
          THEN [result |-> request[a].result, sinceStart |-> TRUE, inTtl |-> TRUE]
          ELSE lastDirect[m]
    BY <1>8 DEF NoteDirectWrite, TypeInv, TypeOK
  <2> QED  BY <1>8, <2>1, <2>2, <2>3 DEF NoteDirectWrite, KeptInv, history
<1>9. CASE Answer(a)
  <2>1. NotKeptOrSame
    BY <1>9, <1>b DEF Answer
  <2>2. request[a].at = "ok" => <<request[a].match, request[a].result>> \in kept
    BY DEF KeptInv, KeptStates
  <2>3. \A m \in Match : promised'[m] =
          IF request[a].at = "ok" /\ m = request[a].match
          THEN request[a].result ELSE promised[m]
    BY <1>9 DEF Answer, TypeInv, TypeOK
  <2> QED  BY <1>9, <2>1, <2>2, <2>3 DEF Answer, KeptInv, hostVars
<1>10. CASE LoseMessage(a) \/ DropTask(a)
  BY <1>10, <1>b DEF LoseMessage, DropTask, KeptInv, hostVars, history
<1> QED  BY <1>1, <1>2, <1>3, <1>4, <1>5, <1>6, <1>7, <1>8, <1>9, <1>10
         DEF RequestStep

LEMMA KeptStep ==
    ASSUME TypeInv, KeptInv, [Next]_vars
    PROVE  KeptInv'
<1>a. kept \subseteq kept'
  BY KeptGrows
<1>1. ASSUME NEW m \in Match, TabletStep(m)
      PROVE  KeptInv'
  <2>1. CASE Submit(m)
    BY <1>a, <2>1 DEF Submit, KeptInv, hostVars, history
  <2>2. CASE Reopen(m) \/ ReleaseFinalized(m)
    BY <1>a, <2>2, StopFacts DEF Reopen, ReleaseFinalized, TypeInv, KeptInv,
                                 hostVars, history
  <2>3. CASE TrySubmitPending(m)
    <3>1. \A b \in Request : \/ request'[b].at \notin KeptStates
                             \/ request'[b] = request[b]
      BY <2>3 DEF TrySubmitPending, KeptStates, TypeInv, TypeOK
    <3> QED  BY <1>a, <2>3, <3>1 DEF TrySubmitPending, KeptInv, hostVars, history
  <2> QED  BY <1>1, <2>1, <2>2, <2>3 DEF TabletStep
<1>2. ASSUME NEW a \in Request, RequestStep(a)
      PROVE  KeptInv'
  BY <1>a, <1>2, KeptTasks
<1>3. CASE SyncStep
  <2>1. UNCHANGED <<request, promised>>
    BY <1>3 DEF SyncStep, FetchSnapshot, FlushBegins, FlushIsSkipped,
       FlushPasses, FlushDrops, FlushWrites, FlushEnds, FlushApplies,
       FlushFails, FlushSucceeds, PersistFlush, FlushHeals, RewriteFails,
       RewriteSucceeds, PublishSnapshot, history
  <2>2. \A m \in Match : /\ lastDirect'[m].inTtl => lastDirect[m].inTtl
                         /\ lastDirect'[m].result = lastDirect[m].result
    <3>1. CASE FlushWrites
      BY <3>1 DEF FlushWrites, TypeInv, TypeOK, Direct
    <3>2. CASE ~FlushWrites
      BY <1>3, <3>2 DEF SyncStep, FetchSnapshot, FlushBegins, FlushIsSkipped,
         FlushPasses, FlushDrops, FlushEnds, FlushApplies, FlushFails,
         FlushSucceeds, PersistFlush, FlushHeals, RewriteFails,
         RewriteSucceeds, PublishSnapshot, hostVars
    <3> QED  BY <3>1, <3>2
  <2> QED  BY <1>a, <2>1, <2>2 DEF KeptInv
<1>4. CASE EnvironmentStep
  <2>1. UNCHANGED promised
    BY <1>4 DEF EnvironmentStep, DirectWriteExpires, HandEntry, EntryAges,
       SwitchTournament, Restart, history
  <2>2. \/ UNCHANGED request
        \/ \A b \in Request : request'[b].at = "idle"
    BY <1>4 DEF EnvironmentStep, DirectWriteExpires, HandEntry, EntryAges,
       SwitchTournament, Restart, IdleRequest
  <2>3. \A m \in Match : lastDirect'[m].inTtl =>
          lastDirect[m].inTtl /\ lastDirect'[m].result = lastDirect[m].result
    <3>1. ASSUME NEW x \in Match, DirectWriteExpires(x), NEW m \in Match,
                 lastDirect'[m].inTtl
          PROVE  lastDirect[m].inTtl /\ lastDirect'[m].result = lastDirect[m].result
      BY <3>1 DEF DirectWriteExpires, TypeInv, TypeOK, Direct
    <3>2. CASE Restart
      BY <3>2 DEF Restart, NoDirect
    <3>3. CASE UNCHANGED lastDirect
      BY <3>3
    <3> QED  BY <1>4, <3>1, <3>2, <3>3 DEF EnvironmentStep, HandEntry,
                                          EntryAges, SwitchTournament, hostVars
  <2> QED  BY <1>a, <2>1, <2>2, <2>3 DEF KeptInv, KeptStates
<1>5. CASE UNCHANGED vars
  BY <1>5 DEF vars, hostVars, history, KeptInv
<1> QED  BY <1>1, <1>2, <1>3, <1>4, <1>5 DEF Next

\* An ok - to the tablet or to the desk, also to a repetition after the answer
\* was lost - is only given for a result that, exactly as it is, was written
\* to BTP or queued, whichever tasks, corrections and restarts come between
\* (write_result_settled, settled_ok).
THEOREM AcknowledgedIsKept == Spec => []AcknowledgedWasKept
<1>1. Init => TypeInv /\ KeptInv
  <2>1. Init => KeptInv
    BY DEF Init, KeptInv, KeptStates, IdleRequest, NoDirect
  <2> QED  BY <2>1, TypeInit
<1>2. TypeInv /\ KeptInv /\ [Next]_vars => (TypeInv /\ KeptInv)'
  BY TypeStep, KeptStep
<1>3. KeptInv => AcknowledgedWasKept
  BY DEF KeptInv, KeptStates, AcknowledgedWasKept
<1> QED  BY <1>1, <1>2, <1>3, PTL DEF Spec

-----------------------------------------------------------------------------
(* The entry in hand is of a match that was open when the cycle began.       *)

InHandInv == phase \in Working => entry.match \notin fetched.decided

LEMMA InHandStep ==
    ASSUME TypeInv, InHandInv, [Next]_vars
    PROVE  InHandInv'
<1>1. CASE UNCHANGED <<phase, entry, fetched>>
  BY <1>1 DEF InHandInv
<1>2. CASE SyncStep
  <2>1. CASE FlushHeals
    <3>1. entry \in Entry
      BY <2>1 DEF FlushHeals, TypeInv, WorkInv, Working
    <3>2. phase' = "rewriting" => entry'.match = entry.match
      BY <2>1, <3>1 DEF FlushHeals, Entry
    <3> QED  BY <2>1, <3>2 DEF FlushHeals, InHandInv, Working
  <2>2. CASE FlushWrites
    BY <2>2 DEF FlushWrites, DropReason, InHandInv
  <2>3. CASE FlushApplies
    BY <2>3 DEF FlushApplies, InHandInv, Working
  <2>4. CASE FlushSucceeds
    BY <2>4 DEF FlushSucceeds, InHandInv, Working
  <2>5. CASE PersistFlush
    BY <2>5 DEF PersistFlush, InHandInv, Working
  <2>6. CASE /\ ~FlushHeals /\ ~FlushWrites /\ ~FlushApplies
             /\ ~FlushSucceeds /\ ~PersistFlush
    BY <1>2, <2>6 DEF SyncStep, FetchSnapshot, FlushBegins, FlushIsSkipped,
       FlushPasses, FlushDrops, FlushEnds, FlushFails, RewriteFails,
       RewriteSucceeds, PublishSnapshot, InHandInv, Working
  <2> QED  BY <2>1, <2>2, <2>3, <2>4, <2>5, <2>6
<1>3. CASE Restart
  BY <1>3 DEF Restart, InHandInv, Working
<1>4. ASSUME NEW m \in Match, TabletStep(m)
      PROVE  UNCHANGED <<phase, entry, fetched>>
  BY <1>4 DEF TabletStep, Submit, Reopen, ReleaseFinalized, TrySubmitPending,
              syncVars
<1>5. ASSUME NEW a \in Request, RequestStep(a)
      PROVE  UNCHANGED <<phase, entry, fetched>>
  BY <1>5 DEF RequestStep, AbortFetch, AnswerOffCourt, RejectPayload,
     BeginWrite, DeskEntersResult, BtpApplies, WriteFails, WriteSucceeds,
     PersistRequest, NoteDirectWrite, Answer, LoseMessage, DropTask, syncVars
<1>6. CASE EnvironmentStep /\ ~Restart
  BY <1>1, <1>6 DEF EnvironmentStep, DirectWriteExpires, HandEntry, EntryAges,
     SwitchTournament, syncVars
<1>7. CASE UNCHANGED vars
  BY <1>1, <1>7 DEF vars, syncVars
<1> QED  BY <1>1, <1>2, <1>3, <1>4, <1>5, <1>6, <1>7 DEF Next

\* "NIE ueberschreiben": neither the write of a flush nor the one that repeats
\* a correction changes the result of a match that the cycle's snapshot shows
\* as decided, whatever tasks do in between (prepare_btp_retry,
\* flush_btp_retries).
THEOREM KnownResultsStay == Spec => FlushKeepsKnownResults
<1>1. Init => TypeInv /\ InHandInv
  <2>1. Init => InHandInv
    BY DEF Init, InHandInv, Working
  <2> QED  BY <2>1, TypeInit
<1>2. TypeInv /\ InHandInv /\ [Next]_vars => (TypeInv /\ InHandInv)'
  BY TypeStep, InHandStep
<1>3. TypeInv /\ InHandInv /\ [Next]_vars =>
        [FlushApplies => \A m \in fetched.decided : btp'[m] = btp[m]]_vars
  <2> SUFFICES ASSUME TypeInv, InHandInv, FlushApplies,
                      NEW m \in fetched.decided
               PROVE  btp'[m] = btp[m]
    OBVIOUS
  <2>1. m # entry.match
    BY DEF FlushApplies, InHandInv, Working
  <2> QED  BY <2>1 DEF FlushApplies, TypeInv, TypeOK
<1> QED  BY <1>1, <1>2, <1>3, PTL DEF Spec, FlushKeepsKnownResults

-----------------------------------------------------------------------------
(* The file and the queue.  What could part them is a file that is not loaded: *)
(* it is another tournament's, or there is none on the first start.           *)

FirstStart == MaxRestarts = 0 /\ (~Loaded => file.entries = <<>>)

LEMMA FirstStartStep == ASSUME TypeInv, FirstStart, [Next]_vars PROVE FirstStart'
<1>1. CASE UNCHANGED <<snapshot, file>>
  BY <1>1 DEF FirstStart, Loaded
<1>2. CASE Loaded /\ UNCHANGED snapshot
  BY <1>2 DEF FirstStart, Loaded
<1>3. ASSUME NEW m \in Match, TabletStep(m) PROVE UNCHANGED <<snapshot, file>>
  BY <1>3 DEF TabletStep, Submit, Reopen, ReleaseFinalized, TrySubmitPending,
              hostVars
<1>4. ASSUME NEW a \in Request, RequestStep(a) PROVE FirstStart'
  <2>1. CASE PersistRequest(a)
    BY <1>2, <2>1 DEF PersistRequest, TypeInv, BootInv
  <2>2. CASE ~PersistRequest(a)
    BY <1>1, <1>4, <2>2
    DEF RequestStep, AbortFetch, AnswerOffCourt, RejectPayload, BeginWrite,
        DeskEntersResult, BtpApplies, WriteFails, WriteSucceeds, NoteDirectWrite,
        Answer, LoseMessage, DropTask, hostVars
  <2> QED  BY <2>1, <2>2
<1>5. CASE SyncStep
  <2>1. CASE PersistFlush
    BY <1>2, <2>1 DEF PersistFlush, TypeInv, BootInv
  <2>2. CASE PublishSnapshot
    <3>1. snapshot' = fetched /\ fetched \in Snapshot
      BY <2>2 DEF PublishSnapshot, TypeInv, BootInv
    <3>2. fetched # NoSnapshot
      BY <3>1, ConstantsAssumption DEF Snapshot, NoSnapshot
    <3> QED  BY <3>1, <3>2 DEF FirstStart, Loaded
  <2>3. CASE ~PersistFlush /\ ~PublishSnapshot
    BY <1>1, <1>5, <2>3
    DEF SyncStep, FetchSnapshot, FlushBegins, FlushIsSkipped, FlushPasses,
        FlushDrops, FlushWrites, FlushEnds, FlushApplies, FlushFails,
        FlushSucceeds, FlushHeals, RewriteFails, RewriteSucceeds, hostVars
  <2> QED  BY <2>1, <2>2, <2>3
<1>6. CASE EnvironmentStep
  <2>1. budget.restarts \in Nat /\ MaxRestarts = 0
    BY DEF FirstStart, TypeInv, TypeOK, Budget
  <2>2. ~(budget.restarts < MaxRestarts)
    BY <2>1
  <2>3. ~Restart
    BY <2>2 DEF Restart
  <2> QED
    BY <1>1, <1>6, <2>3
    DEF EnvironmentStep, DirectWriteExpires, HandEntry, EntryAges,
        SwitchTournament, hostVars
<1>7. CASE UNCHANGED vars
  BY <1>1, <1>7 DEF vars, hostVars
<1> QED  BY <1>1, <1>3, <1>4, <1>5, <1>6, <1>7 DEF Next

LEMMA MirrorStep ==
    ASSUME TypeInv, TypeInv', SafeInv \/ FirstStart, FileMirrorsQueue, [Next]_vars
    PROVE  FileMirrorsQueue'
<1>a. btpRetry \in Seq(Entry) /\ file.entries \in Seq(Entry)
  BY DEF TypeInv, TypeOK
<1>b. ~Loaded => ~Persisting
  BY DEF TypeInv, BootInv, Persisting
<1>1. CASE /\ UNCHANGED <<btpRetry, file, snapshot, phase>>
           /\ \A b \in Request :
                request[b].at \in {"persistQueued", "persistCleared"}
                => request'[b].at = request[b].at
  BY <1>1 DEF FileMirrorsQueue, Persisting, Loaded
<1>2. ASSUME NEW m \in Match, TabletStep(m)
      PROVE  FileMirrorsQueue'
  <2>1. UNCHANGED <<btpRetry, file, snapshot, phase>>
    BY <1>2 DEF TabletStep, Submit, Reopen, ReleaseFinalized,
       TrySubmitPending, hostVars, syncVars
  <2>2. CASE Reopen(m) \/ ReleaseFinalized(m)
    BY <1>1, <2>1, <2>2, StopFacts DEF Reopen, ReleaseFinalized, TypeInv
  <2>3. CASE TrySubmitPending(m)
    BY <1>1, <2>1, <2>3 DEF TrySubmitPending, TypeInv, TypeOK
  <2>4. CASE Submit(m)
    BY <1>1, <2>1, <2>4 DEF Submit
  <2> QED  BY <1>2, <2>2, <2>3, <2>4 DEF TabletStep
<1>3. ASSUME NEW a \in Request, RequestStep(a)
      PROVE  FileMirrorsQueue'
  <2>1. CASE WriteFails(a) \/ WriteSucceeds(a)
    <3>1. request'[a].at \in {"persistQueued", "persistCleared"}
      BY <2>1, GotoFacts DEF WriteFails, WriteSucceeds, RequestStates, TypeInv
    <3> QED  BY <3>1 DEF FileMirrorsQueue, Persisting
  <2>2. CASE PersistRequest(a)
    <3>1. Loaded
      BY <2>2 DEF PersistRequest, TypeInv, BootInv
    <3> QED  BY <2>2, <3>1 DEF PersistRequest, PersistBtpRetry, FileMirrorsQueue
  <2>3. CASE ~WriteFails(a) /\ ~WriteSucceeds(a) /\ ~PersistRequest(a)
    <3>1. UNCHANGED <<btpRetry, file, snapshot, phase>>
      BY <1>3, <2>3 DEF RequestStep, AbortFetch, AnswerOffCourt,
         RejectPayload, BeginWrite, DeskEntersResult, BtpApplies,
         NoteDirectWrite, Answer, LoseMessage, DropTask, hostVars, syncVars
    <3>2. \A b \in Request :
             request[b].at \in {"persistQueued", "persistCleared"}
             => request'[b].at = request[b].at
      <4> request \in [Request -> RequestRecord]
        BY DEF TypeInv, TypeOK
      <4>1. CASE AbortFetch(a)
        BY <4>1 DEF AbortFetch, RequestRecord
      <4>2. CASE ~AbortFetch(a)
        BY <1>3, <2>3, <4>2 DEF RequestStep, AnswerOffCourt, RejectPayload,
           BeginWrite, DeskEntersResult, BtpApplies, NoteDirectWrite, Answer,
           Answered, LoseMessage, DropTask, Goto
      <4> QED  BY <4>1, <4>2
    <3> QED  BY <1>1, <3>1, <3>2
  <2> QED  BY <2>1, <2>2, <2>3
<1>4. CASE SyncStep
  <2>1. UNCHANGED request
    BY <1>4 DEF SyncStep, FetchSnapshot, FlushBegins, FlushIsSkipped,
       FlushPasses, FlushDrops, FlushWrites, FlushEnds, FlushApplies,
       FlushFails, FlushSucceeds, PersistFlush, FlushHeals, RewriteFails,
       RewriteSucceeds, PublishSnapshot
  <2>2. CASE FlushDrops \/ FlushSucceeds \/ RewriteFails
    <3>1. phase' \in {"persisting", "persistCleared"}
      BY <2>2 DEF FlushDrops, FlushSucceeds, RewriteFails
    <3> QED  BY <3>1 DEF FileMirrorsQueue, Persisting
  <2>3. CASE PersistFlush
    <3>1. Loaded
      BY <2>3 DEF PersistFlush, TypeInv, BootInv
    <3> QED  BY <2>3, <3>1 DEF PersistFlush, PersistBtpRetry, FileMirrorsQueue
  <2>4. CASE PublishSnapshot
    <3>1. /\ fetched \in Snapshot /\ LoadBtpRetry(fetched)
          /\ UNCHANGED file
          /\ phase = "flushed" /\ phase' = "idle"
      BY <2>4 DEF PublishSnapshot, TypeInv, BootInv
    <3>2. CASE Loaded
      <4>1. btpRetry' = btpRetry
        BY <3>1, <3>2 DEF LoadBtpRetry
      <4>2. Persisting' <=> Persisting
        BY <2>1, <3>1 DEF Persisting
      <4> QED  BY <3>1, <3>2, <4>1, <4>2 DEF FileMirrorsQueue
    <3>3. CASE ~Loaded
      <4>1. CASE file.entries # <<>>
        <5>1. btpRetry' = file.entries
          BY <3>1, <3>3, <4>1, LoadKeeps DEF FirstStart
        <5> QED  BY <3>1, <5>1 DEF FileMirrorsQueue
      <4>2. CASE file.entries = <<>>
        <5>1. btpRetry = <<>>
          BY <3>3 DEF TypeInv, BootInv
        <5>2. btpRetry' = <<>>
          BY <3>1, <4>2, <5>1, ConstantsAssumption, SubSeqEmpty
          DEF LoadBtpRetry
        <5> QED  BY <3>1, <4>2, <5>2 DEF FileMirrorsQueue
      <4> QED  BY <4>1, <4>2
    <3> QED  BY <3>2, <3>3
  <2>5. CASE /\ ~FlushDrops /\ ~FlushSucceeds /\ ~RewriteFails
             /\ ~PersistFlush /\ ~PublishSnapshot
    <3>1. /\ UNCHANGED <<btpRetry, file, snapshot>>
          /\ phase \notin {"persisting", "persistCleared"}
      BY <1>4, <2>5 DEF SyncStep, FetchSnapshot, FlushBegins, FlushIsSkipped,
         FlushPasses, FlushWrites, FlushEnds, FlushApplies, FlushFails,
         FlushHeals, RewriteSucceeds, Choosing, hostVars
    <3> QED  BY <2>1, <3>1 DEF FileMirrorsQueue, Persisting, Loaded
  <2> QED  BY <2>2, <2>3, <2>4, <2>5
<1>5. CASE EnvironmentStep
  <2>1. CASE EntryAges
    <3>1. PICK i \in DOMAIN btpRetry :
             btpRetry' = [btpRetry EXCEPT ![i].old = TRUE]
      BY <2>1 DEF EntryAges
    <3>2. Contents(btpRetry') = Contents(btpRetry)
      BY <1>a, <3>1, AgedIsSeq DEF Contents
    <3> QED  BY <2>1, <3>2 DEF EntryAges, FileMirrorsQueue, Persisting,
                               Loaded, syncVars
  <2>2. CASE Restart
    BY <2>2 DEF Restart, FileMirrorsQueue, Loaded
  <2>3. CASE ~EntryAges /\ ~Restart
    BY <1>1, <1>5, <2>3 DEF EnvironmentStep, DirectWriteExpires, HandEntry,
       SwitchTournament, hostVars, syncVars
  <2> QED  BY <2>1, <2>2, <2>3
<1>6. CASE UNCHANGED vars
  BY <1>6 DEF vars, hostVars, syncVars, FileMirrorsQueue, Persisting, Loaded
<1> QED  BY <1>2, <1>3, <1>4, <1>5, <1>6 DEF Next

\* Whoever changed the queue last, and in whatever order the tasks and the
\* flush write the file: the file holds the queue's results once nobody is
\* about to write it (persist_btp_retry copies the queue under the lock of the
\* file) - as long as one tournament stays open or the host is not restarted.
\* After both, the file of the tournament before is there and is not loaded.
THEOREM FileFollowsQueue ==
    (MaxSwitches = 0 \/ MaxRestarts = 0) /\ Spec => []FileMirrorsQueue
<1>1. Init => TypeInv /\ SafeInv /\ FileMirrorsQueue
  BY TypeInit, SafeInit DEF Init, FileMirrorsQueue
<1>2. ASSUME MaxSwitches = 0 PROVE Spec => []FileMirrorsQueue
  <2>1. TypeInv /\ SafeInv /\ FileMirrorsQueue /\ [Next]_vars
          => (TypeInv /\ SafeInv /\ FileMirrorsQueue)'
    BY <1>2, TypeStep, SafeStep, MirrorStep
  <2> QED  BY <1>1, <2>1, PTL DEF Spec
<1>3. ASSUME MaxRestarts = 0 PROVE Spec => []FileMirrorsQueue
  <2>1. Init => FirstStart
    BY <1>3 DEF Init, FirstStart
  <2>2. TypeInv /\ FirstStart /\ FileMirrorsQueue /\ [Next]_vars
          => (TypeInv /\ FirstStart /\ FileMirrorsQueue)'
    BY TypeStep, FirstStartStep, MirrorStep
  <2> QED  BY <1>1, <2>1, <2>2, PTL DEF Spec
<1> QED  BY <1>2, <1>3

-----------------------------------------------------------------------------
(* The result path implements the ledger.  Every step writes one match in    *)
(* BTP, writes the file, tells somebody "ok", or is none of the ledger's.    *)

LEMMA LedgerSteps ==
    ASSUME TypeInv, [Next]_vars, MaxSwitches = 0
    PROVE  \/ UNCHANGED <<btp, file, promised>>
           \/ /\ \E m \in Match, r \in Result \cup {Hand} :
                    btp' = [btp EXCEPT ![m] = r]
              /\ UNCHANGED <<file, promised>>
           \/ PersistBtpRetry /\ Loaded /\ UNCHANGED <<btp, dropped, snapshot,
                                            btpRetry, tournament, promised>>
           \/ /\ \E a \in Request :
                    /\ request[a].at = "ok"
                    /\ promised' = [promised EXCEPT ![request[a].match] =
                                                        request[a].result]
              /\ UNCHANGED <<btp, file>>
<1>a. /\ \A a \in Request : request[a].at # "idle" =>
            request[a].match \in Match /\ request[a].result \in Result
      /\ phase \in Working => entry.match \in Match /\ entry.result \in Result
  BY DEF TypeInv, WorkInv, Entry
<1>1. ASSUME NEW m \in Match, TabletStep(m)
      PROVE  UNCHANGED <<btp, file, promised>>
  BY <1>1 DEF TabletStep, Submit, Reopen, ReleaseFinalized, TrySubmitPending,
              hostVars, history
<1>2. ASSUME NEW a \in Request, RequestStep(a)
      PROVE  \/ UNCHANGED <<btp, file, promised>>
             \/ BtpApplies(a) \/ PersistRequest(a) \/ Answer(a)
  BY <1>2 DEF RequestStep, AbortFetch, AnswerOffCourt, RejectPayload,
     BeginWrite, DeskEntersResult, WriteFails, WriteSucceeds,
     NoteDirectWrite, LoseMessage, DropTask, hostVars, history
<1>3. CASE SyncStep
  <2>1. \/ UNCHANGED <<btp, file, promised>>
        \/ FlushApplies \/ PersistFlush
    BY <1>3 DEF SyncStep, FetchSnapshot, FlushBegins, FlushIsSkipped,
       FlushPasses, FlushDrops, FlushWrites, FlushEnds, FlushFails,
       FlushSucceeds, FlushHeals, RewriteFails, RewriteSucceeds,
       PublishSnapshot, hostVars, history
  <2>2. CASE FlushApplies
    BY <1>a, <2>2 DEF FlushApplies, hostVars, Working
  <2>3. CASE PersistFlush
    <3>1. Loaded
      BY <2>3 DEF PersistFlush, TypeInv, BootInv
    <3> QED  BY <2>3, <3>1 DEF PersistFlush, history
  <2> QED  BY <2>1, <2>2, <2>3
<1>4. CASE EnvironmentStep
  <2>1. ~SwitchTournament
    BY DEF SwitchTournament, TypeInv, TypeOK, Budget
  <2> QED  BY <1>4, <2>1 DEF EnvironmentStep, DirectWriteExpires, HandEntry,
           EntryAges, Restart, hostVars, history
<1>5. CASE UNCHANGED vars
  BY <1>5 DEF vars, hostVars, history
<1>6. ASSUME NEW a \in Request, BtpApplies(a)
      PROVE  /\ \E m \in Match, r \in Result \cup {Hand} :
                   btp' = [btp EXCEPT ![m] = r]
             /\ UNCHANGED <<file, promised>>
  BY <1>a, <1>6 DEF BtpApplies, hostVars
<1>7. ASSUME NEW a \in Request, PersistRequest(a)
      PROVE  PersistBtpRetry /\ Loaded /\ UNCHANGED <<btp, dropped, snapshot,
                                              btpRetry, tournament, promised>>
  BY <1>7 DEF PersistRequest, TypeInv, BootInv, history
<1>8. ASSUME NEW a \in Request, Answer(a)
      PROVE  \/ UNCHANGED <<btp, file, promised>>
             \/ /\ request[a].at = "ok"
                /\ promised' = [promised EXCEPT ![request[a].match] =
                                                    request[a].result]
                /\ UNCHANGED <<btp, file>>
  BY <1>8 DEF Answer, hostVars
<1> QED  BY <1>1, <1>2, <1>3, <1>4, <1>5, <1>6, <1>7, <1>8 DEF Next

\* Neither the cap nor the age has cost an entry its place so far.
NoneDropped == dropped = {}

\* The mapping of the refinement.
Status == [m \in Match |-> IF btp[m] # NoResult THEN "scored"
                           ELSE IF OnFile(m) THEN "stored" ELSE "open"]
Told == {m \in Match : promised[m] # NoResult}

LEMMA LedgerInit ==
    ASSUME Init
    PROVE  Ledger!Init
  BY DEF Init, Ledger!Init, OnFile, Positions

LEMMA LedgerStep ==
    ASSUME TypeInv, SafeInv, SafeInv', dropped = {}, dropped' = {},
           [Next]_vars, MaxSwitches = 0
    PROVE  Ledger!Next \/ UNCHANGED Ledger!vars
<1> USE DEF Status, Told
<1>a. btp \in [Match -> Result \cup {NoResult, Hand}]
      /\ promised \in [Match -> Result \cup {NoResult}]
  BY DEF TypeInv, TypeOK
<1>1. CASE UNCHANGED <<btp, file, promised>>
  <2>1. Status' = Status /\ Told' = Told
    BY <1>1 DEF OnFile
  <2> QED  BY <2>1 DEF Ledger!vars
<1>2. ASSUME NEW m \in Match, NEW r \in Result \cup {Hand},
             btp' = [btp EXCEPT ![m] = r], UNCHANGED <<file, promised>>
      PROVE  Ledger!Next
  <2>1. r # NoResult
    BY ConstantsAssumption
  <2>2. /\ btp'[m] # NoResult
        /\ \A x \in Match : x # m => btp'[x] = btp[x]
    BY <1>a, <1>2, <2>1
  <2>3. \A x : OnFile(x)' <=> OnFile(x)
    BY <1>2 DEF OnFile
  <2>4. Status' = [Status EXCEPT ![m] = "scored"] /\ Told' = Told
    BY <1>2, <2>2, <2>3
  <2> QED  BY <2>4 DEF Ledger!Next, Ledger!Score
<1>3. CASE PersistBtpRetry /\ Loaded /\ UNCHANGED <<btp, dropped, snapshot,
                                         btpRetry, tournament, promised>>
  <2> DEFINE S == {m \in Match : btp[m] = NoResult /\ ~OnFile(m) /\ OnFile(m)'}
  <2>1. \A m \in Match : Safe(m) => Safe(m)'
    BY <1>3, PersistKeeps
  <2>2. \A m \in Match : btp[m] = NoResult /\ OnFile(m) => OnFile(m)'
    BY <1>3, <2>1 DEF Safe
  <2>3. Status' = [m \in Match |-> IF m \in S THEN "stored" ELSE Status[m]]
    BY <1>3, <2>2
  <2>4. \A m \in S : Status[m] = "open"
    OBVIOUS
  <2>5. Told' = Told /\ S \in SUBSET Match
    BY <1>3
  <2> HIDE DEF S
  <2> QED  BY <2>3, <2>4, <2>5 DEF Ledger!Next, Ledger!Store
<1>4. ASSUME NEW a \in Request, request[a].at = "ok",
             promised' = [promised EXCEPT ![request[a].match] =
                                              request[a].result],
             UNCHANGED <<btp, file>>
      PROVE  Ledger!Next
  <2> DEFINE m == request[a].match
  <2>1. m \in Match /\ request[a].result \in Result
    BY <1>4 DEF TypeInv, WorkInv
  <2>2. Safe(m)
    BY <1>4 DEF SafeInv, ToldInv
  <2>3. Status[m] # "open"
    BY <2>1, <2>2 DEF Safe
  <2>4. request[a].result # NoResult
    BY <2>1, ConstantsAssumption
  <2>5. Told' = Told \cup {m}
    BY <1>a, <1>4, <2>1, <2>4
  <2>6. Status' = Status
    BY <1>4 DEF OnFile
  <2> QED  BY <2>1, <2>3, <2>5, <2>6 DEF Ledger!Next, Ledger!Promise
<1> QED  BY <1>1, <1>2, <1>3, <1>4, LedgerSteps

\* The result path implements the ledger: as long as one tournament stays open
\* and neither the cap nor the age costs an entry its place, a match that was
\* stored or scored never falls back to open - in whatever order tasks, flush,
\* typed results and restarts follow each other - and an ok is only given for
\* a match that is stored or scored (process_result, persist_btp_retry,
\* load_btp_retry, flush_btp_retries).
THEOREM LedgerIsImplemented ==
    MaxSwitches = 0 /\ Spec /\ []NoneDropped => LedgerSpec
<1>1. SUFFICES ASSUME MaxSwitches = 0
               PROVE  Spec /\ []NoneDropped => LedgerSpec
  OBVIOUS
<1>2. Init => TypeInv /\ SafeInv /\ Ledger!Init
  BY TypeInit, SafeInit, LedgerInit
<1>3. TypeInv /\ SafeInv /\ [Next]_vars => (TypeInv /\ SafeInv)'
  BY <1>1, TypeStep, SafeStep
<1>4. TypeInv /\ SafeInv /\ SafeInv' /\ NoneDropped /\ NoneDropped' /\ [Next]_vars
        => [Ledger!Next]_(Ledger!vars)
  <2> SUFFICES ASSUME TypeInv, SafeInv, SafeInv', NoneDropped, NoneDropped',
                      [Next]_vars
               PROVE  [Ledger!Next]_(Ledger!vars)
    OBVIOUS
  <2>1. Ledger!Next \/ UNCHANGED Ledger!vars
    BY <1>1, LedgerStep DEF NoneDropped
  <2> QED  BY <2>1
<1> QED  BY <1>2, <1>3, <1>4, PTL DEF Spec, LedgerSpec, Ledger!Spec

-----------------------------------------------------------------------------
(* When nothing is dropped: the cap has room for an entry of every match,    *)
(* and no entry reaches BTP_RETRY_MAX_AGE.                                   *)

RoomForAll == IsFiniteSet(Match) /\ Cardinality(Match) <= BTP_RETRY_CAP
NothingAges == \A b \in Scenario : ~b.aging

LEMMA NothingIsDropped ==
    ASSUME RoomForAll, PlacesInv, ~budget.aging
    PROVE  NoneDropped
<1>1. MatchesOf(kept) \subseteq Match
  BY DEF PlacesInv, TypeInv, TypeOK, MatchesOf
<1>2. /\ Cardinality(MatchesOf(kept)) <= Cardinality(Match)
      /\ Cardinality(MatchesOf(kept)) \in Nat /\ Cardinality(Match) \in Nat
  BY <1>1, FS_Subset, FS_CardinalityType DEF RoomForAll
<1> QED  BY <1>2, ConstantsAssumption DEF RoomForAll, PlacesInv, RoomInv, NoneDropped

\* With room in the queue for every match of the tournament, and as long as no
\* entry grows too old, nothing is ever dropped, and the ledger is implemented
\* without any condition on the behaviour (queue_btp_retry's cap,
\* BTP_RETRY_MAX_AGE in flush_btp_retries).
THEOREM LedgerHoldsWithRoom ==
    RoomForAll /\ NothingAges /\ MaxSwitches = 0 /\ Spec => LedgerSpec
<1>1. SUFFICES ASSUME RoomForAll, NothingAges
               PROVE  MaxSwitches = 0 /\ Spec => LedgerSpec
  OBVIOUS
<1>2. Init => PlacesInv /\ ~budget.aging
  BY <1>1, PlacesInit DEF Init, NothingAges
<1>3. PlacesInv /\ ~budget.aging /\ [Next]_vars => (PlacesInv /\ ~budget.aging)'
  BY PlacesStep, AgingIsFixed DEF PlacesInv
<1>4. PlacesInv /\ ~budget.aging => NoneDropped
  BY <1>1, NothingIsDropped
<1>5. Spec => []NoneDropped
  BY <1>2, <1>3, <1>4, PTL DEF Spec
<1> QED  BY <1>5, LedgerIsImplemented, PTL

=============================================================================
