---------------------------- MODULE RWMutexProofs ----------------------------
(***************************************************************************)
(* What the hashstore's mutex guarantees for any number of goroutines, any *)
(* read limit and both queue orders.                                       *)
(***************************************************************************)
EXTENDS RWMutex, TLAPS, FiniteSetTheorems, SequenceTheorems

\* No goroutine is in the list twice.
Distinct(ws) == \A i, j \in 1 .. Len(ws) : ws[i] = ws[j] => i = j

\* A goroutine in the list is inside lock and was not granted.
WaitersInv ==
  /\ Distinct(waiters)
  /\ \A i \in 1 .. Len(waiters) :
       pc[waiters[i]] \in {"select", "failed"} /\ ~ch[waiters[i]]

\* Only a goroutine inside lock's slow path has a token to receive or drain.
ChanInv == \A p \in Procs : ch[p] => pc[p] \in {"select", "failed"}

\* The mutex never gives the lock to a writer and to anybody else.
AloneInv == \A p, q \in Granted : p # q => read[p] /\ read[q]

\* The writers that pendingWrites counts.
Pending == {p \in Procs : pc[p] \in {"select", "failed", "received"} /\ ~read[p]}
PendingInv == pendingWrites = Cardinality(Pending)

LimitInv == activeReadLimit > 0 => activeReads <= activeReadLimit

\* The inductive invariant.
IInv ==
  /\ TypeOK
  /\ WaitersInv
  /\ ChanInv
  /\ AloneInv
  /\ PendingInv
  /\ Accounting
  /\ LimitInv
  /\ WaitersHaveHolder
-----------------------------------------------------------------------------
\* Every set of goroutines is finite and has a natural cardinality.
LEMMA ProcSets ==
  ASSUME NEW S \in SUBSET Procs
  PROVE  IsFiniteSet(S) /\ Cardinality(S) \in Nat
BY ProcsAssumption, FS_Subset, FS_CardinalityType

\* Removing a waiter (sync.go, removeWaiter) keeps the list's other members.
LEMMA RemoveWaiter ==
  ASSUME NEW p \in Procs, waiters \in Seq(Procs), Distinct(waiters)
  PROVE  /\ removeWaiter(p) \in Seq(Procs)
         /\ Distinct(removeWaiter(p))
         /\ \A i \in 1 .. Len(removeWaiter(p)) :
              /\ removeWaiter(p)[i] # p
              /\ \E j \in 1 .. Len(waiters) : removeWaiter(p)[i] = waiters[j]
<1>1. CASE ~ \E i \in 1 .. Len(waiters) : waiters[i] = p
  BY <1>1 DEF removeWaiter
<1>2. CASE \E i \in 1 .. Len(waiters) : waiters[i] = p
  <2> DEFINE k == CHOOSE i \in 1 .. Len(waiters) : waiters[i] = p
             a == SubSeq(waiters, 1, k - 1)
             b == SubSeq(waiters, k + 1, Len(waiters))
  <2>0. Len(waiters) \in Nat /\ \A i \in 1 .. Len(waiters) : waiters[i] \in Procs
    BY LenProperties, ElementOfSeq
  <2>1. k \in 1 .. Len(waiters) /\ waiters[k] = p
    BY <1>2
  <2>2. removeWaiter(p) = a \o b
    BY <1>2 DEF removeWaiter
  <2> HIDE DEF k
  <2>3. /\ a \in Seq(Procs) /\ Len(a) = k - 1
        /\ \A i \in 1 .. k - 1 : a[i] = waiters[i]
    <3>1. \A i \in 1 .. k - 1 : waiters[i] \in Procs
      BY <2>0, <2>1
    <3>2. /\ a \in Seq(Procs)
          /\ Len(a) = IF 1 <= k - 1 THEN (k - 1) - 1 + 1 ELSE 0
          /\ \A i \in 1 .. (k - 1) - 1 + 1 : a[i] = waiters[1 + i - 1]
      BY <3>1, <2>1, SubSeqProperties, 1 \in Int, k - 1 \in Int
    <3> HIDE DEF a
    <3> QED BY <3>2, <2>1, <2>0
  <2>4. /\ b \in Seq(Procs) /\ Len(b) = Len(waiters) - k
        /\ \A i \in 1 .. Len(waiters) - k : b[i] = waiters[k + i]
    <3>1. \A i \in k + 1 .. Len(waiters) : waiters[i] \in Procs
      BY <2>0, <2>1
    <3>2. /\ b \in Seq(Procs)
          /\ Len(b) = IF k + 1 <= Len(waiters) THEN Len(waiters) - (k + 1) + 1 ELSE 0
          /\ \A i \in 1 .. Len(waiters) - (k + 1) + 1 : b[i] = waiters[(k + 1) + i - 1]
      BY <3>1, <2>0, <2>1, SubSeqProperties, k + 1 \in Int, Len(waiters) \in Int
    <3> HIDE DEF b
    <3> QED BY <3>2, <2>1, <2>0
  <2> HIDE DEF a, b
  <2>5. /\ a \o b \in Seq(Procs)
        /\ Len(a \o b) = Len(waiters) - 1
        /\ \A i \in 1 .. Len(waiters) - 1 :
             (a \o b)[i] = IF i < k THEN waiters[i] ELSE waiters[i + 1]
    <3>1. /\ a \o b \in Seq(Procs) /\ Len(a \o b) = Len(a) + Len(b)
          /\ \A i \in 1 .. Len(a) + Len(b) :
               (a \o b)[i] = IF i <= Len(a) THEN a[i] ELSE b[i - Len(a)]
      BY <2>3, <2>4, ConcatProperties
    <3>2. Len(a) + Len(b) = Len(waiters) - 1
      BY <2>0, <2>1, <2>3, <2>4
    <3>3. ASSUME NEW i \in 1 .. Len(waiters) - 1
          PROVE  (a \o b)[i] = IF i < k THEN waiters[i] ELSE waiters[i + 1]
      <4>1. CASE i < k
        BY <3>1, <3>2, <4>1, <2>0, <2>1, <2>3
      <4>2. CASE ~(i < k)
        <5>1. i - (k - 1) \in 1 .. Len(waiters) - k /\ k + (i - (k - 1)) = i + 1
          BY <4>2, <2>0, <2>1
        <5>2. b[i - (k - 1)] = waiters[i + 1]
          BY <5>1, <2>4
        <5>3. (a \o b)[i] = b[i - (k - 1)]
          BY <3>1, <3>2, <4>2, <2>0, <2>1, <2>3
        <5> QED BY <5>2, <5>3, <4>2
      <4> QED BY <4>1, <4>2
    <3> QED BY <3>1, <3>2, <3>3
  <2>6. Distinct(a \o b)
    BY <2>5, <2>0, <2>1 DEF Distinct
  <2>7. ASSUME NEW i \in 1 .. Len(a \o b)
        PROVE  /\ (a \o b)[i] # p
               /\ \E j \in 1 .. Len(waiters) : (a \o b)[i] = waiters[j]
    BY <2>5, <2>0, <2>1 DEF Distinct
  <2> QED BY <2>2, <2>5, <2>6, <2>7
<1> QED BY <1>1, <1>2

\* What n turns of the loop take from the list and what they leave.
LEMMA Loop ==
  ASSUME NEW ws \in Seq(Procs), Distinct(ws), NEW n \in 0 .. Len(ws)
  PROVE  /\ \A i \in 1 .. n : Candidate(ws, i) \in Procs
         /\ \A i \in 1 .. n : \E j \in 1 .. Len(ws) : Candidate(ws, i) = ws[j]
         /\ Remaining(ws, n) \in Seq(Procs)
         /\ Len(Remaining(ws, n)) = Len(ws) - n
         /\ Distinct(Remaining(ws, n))
         /\ \A i \in 1 .. Len(Remaining(ws, n)) :
              /\ \E j \in 1 .. Len(ws) : Remaining(ws, n)[i] = ws[j]
              /\ \A k \in 1 .. n : Remaining(ws, n)[i] # Candidate(ws, k)
<1>0. Len(ws) \in Nat /\ \A i \in 1 .. Len(ws) : ws[i] \in Procs
  BY LenProperties, ElementOfSeq
<1> DEFINE rem == Remaining(ws, n)
<1>1. CASE syncLifo
  <2>1. \A i \in 1 .. n : Candidate(ws, i) = ws[Len(ws) + 1 - i]
    BY <1>1 DEF Candidate
  <2>2. rem = SubSeq(ws, 1, Len(ws) - n)
    BY <1>1 DEF Remaining
  <2>3. \A i \in 1 .. Len(ws) - n : ws[i] \in Procs
    BY <1>0
  <2> HIDE DEF rem
  <2>4. /\ rem \in Seq(Procs)
        /\ Len(rem) = IF 1 <= Len(ws) - n THEN (Len(ws) - n) - 1 + 1 ELSE 0
        /\ \A i \in 1 .. (Len(ws) - n) - 1 + 1 : rem[i] = ws[1 + i - 1]
    BY <2>2, <2>3, <1>0, SubSeqProperties, 1 \in Int, Len(ws) - n \in Int
  <2>5. Len(rem) = Len(ws) - n /\ \A i \in 1 .. Len(ws) - n : rem[i] = ws[i]
    BY <2>4, <1>0
  <2>6. \A i \in 1 .. n : Len(ws) + 1 - i \in 1 .. Len(ws) /\ Len(ws) + 1 - i > Len(ws) - n
    BY <1>0
  <2>7. Distinct(rem)
    <3> SUFFICES ASSUME NEW i \in 1 .. Len(rem), NEW j \in 1 .. Len(rem), rem[i] = rem[j]
                 PROVE  i = j
      BY DEF Distinct
    <3>1. i \in 1 .. Len(ws) /\ j \in 1 .. Len(ws) /\ ws[i] = ws[j]
      BY <2>5, <1>0
    <3> QED BY <3>1 DEF Distinct
  <2>8. ASSUME NEW i \in 1 .. Len(rem)
        PROVE  /\ \E j \in 1 .. Len(ws) : rem[i] = ws[j]
               /\ \A k \in 1 .. n : rem[i] # Candidate(ws, k)
    <3>1. i \in 1 .. Len(ws) /\ rem[i] = ws[i] /\ i <= Len(ws) - n
      BY <2>5, <1>0
    <3>2. ASSUME NEW k \in 1 .. n, rem[i] = Candidate(ws, k)
          PROVE  FALSE
      <4>1. ws[i] = ws[Len(ws) + 1 - k]
        BY <3>1, <3>2, <2>1
      <4>2. Len(ws) + 1 - k \in 1 .. Len(ws) /\ Len(ws) + 1 - k > Len(ws) - n
        BY <2>6
      <4>3. i = Len(ws) + 1 - k
        BY <3>1, <4>1, <4>2 DEF Distinct
      <4> QED BY <4>2, <4>3, <3>1, <1>0
    <3> QED BY <3>1, <3>2
  <2> QED BY <2>1, <2>4, <2>5, <2>6, <2>7, <2>8, <1>0 DEF rem
<1>2. CASE ~syncLifo
  <2>1. \A i \in 1 .. n : Candidate(ws, i) = ws[i]
    BY <1>2 DEF Candidate
  <2>2. rem = SubSeq(ws, n + 1, Len(ws))
    BY <1>2 DEF Remaining
  <2>3. \A i \in n + 1 .. Len(ws) : ws[i] \in Procs
    BY <1>0
  <2> HIDE DEF rem
  <2>4. /\ rem \in Seq(Procs)
        /\ Len(rem) = IF n + 1 <= Len(ws) THEN Len(ws) - (n + 1) + 1 ELSE 0
        /\ \A i \in 1 .. Len(ws) - (n + 1) + 1 : rem[i] = ws[(n + 1) + i - 1]
    BY <2>2, <2>3, <1>0, SubSeqProperties, n + 1 \in Int, Len(ws) \in Int
  <2>5. Len(rem) = Len(ws) - n /\ \A i \in 1 .. Len(ws) - n : rem[i] = ws[n + i]
    BY <2>4, <1>0
  <2>7. Distinct(rem)
    <3> SUFFICES ASSUME NEW i \in 1 .. Len(rem), NEW j \in 1 .. Len(rem), rem[i] = rem[j]
                 PROVE  i = j
      BY DEF Distinct
    <3>1. n + i \in 1 .. Len(ws) /\ n + j \in 1 .. Len(ws) /\ ws[n + i] = ws[n + j]
      BY <2>5, <1>0
    <3>2. n + i = n + j
      BY <3>1 DEF Distinct
    <3> QED BY <3>2, <1>0, <2>5
  <2>8. ASSUME NEW i \in 1 .. Len(rem)
        PROVE  /\ \E j \in 1 .. Len(ws) : rem[i] = ws[j]
               /\ \A k \in 1 .. n : rem[i] # Candidate(ws, k)
    <3>1. n + i \in 1 .. Len(ws) /\ rem[i] = ws[n + i] /\ n + i > n
      BY <2>5, <1>0
    <3>2. ASSUME NEW k \in 1 .. n, rem[i] = Candidate(ws, k)
          PROVE  FALSE
      <4>1. ws[n + i] = ws[k] /\ k \in 1 .. Len(ws)
        BY <3>1, <3>2, <2>1, <1>0
      <4>2. n + i = k
        BY <3>1, <4>1 DEF Distinct
      <4> QED BY <4>2, <3>1, <1>0
    <3> QED BY <3>1, <3>2
  <2> QED BY <2>1, <2>4, <2>5, <2>7, <2>8, <1>0 DEF rem
<1> QED BY <1>1, <1>2

\* The counters reads and held count the goroutines H that have the lock.
Counted(kind, H, reads, held) ==
  /\ reads = Cardinality({p \in H : kind[p]})
  /\ held \in BOOLEAN
  /\ held <=> \E p \in H : ~kind[p]
  /\ activeReadLimit > 0 => reads <= activeReadLimit

\* processLocked may start: the list ws has no duplicates and nobody of H, the
\* goroutines that have the lock; the counters count H.
Ready(ws, kind, H, reads, held) ==
  /\ ws \in Seq(Procs) /\ Distinct(ws)
  /\ \A i \in 1 .. Len(ws) : ws[i] \notin H
  /\ kind \in [Procs -> BOOLEAN]
  /\ H \in SUBSET Procs
  /\ \A p, q \in H : p # q => kind[p] /\ kind[q]
  /\ Counted(kind, H, reads, held)

\* processLocked gave the lock to the waiters N as well: the counters count H
\* and N, a writer is alone, the limit holds, and who still waits has somebody
\* to wait for.
Outcome(ws, kind, H, N, chans) ==
  /\ \A p \in N : \E j \in 1 .. Len(ws) : p = ws[j]
  /\ waiters' \in Seq(Procs)
  /\ Distinct(waiters')
  /\ \A i \in 1 .. Len(waiters') :
       /\ \E j \in 1 .. Len(ws) : waiters'[i] = ws[j]
       /\ waiters'[i] \notin N
  /\ activeReads' = Cardinality({p \in H \cup N : kind[p]})
  /\ writeHeld' \in BOOLEAN
  /\ writeHeld' <=> \E p \in H \cup N : ~kind[p]
  /\ \A p, q \in H \cup N : p # q => kind[p] /\ kind[q]
  /\ activeReadLimit > 0 => activeReads' <= activeReadLimit
  /\ waiters' # <<>> => activeReads' > 0 \/ writeHeld'
  /\ ch' = [p \in Procs |-> chans[p] \/ p \in N]

\* What processLocked does (sync.go, processLocked).
LEMMA ProcessLocked ==
  ASSUME NEW ws, NEW kind, NEW H, NEW reads, NEW held, NEW pending, NEW chans,
         Ready(ws, kind, H, reads, held),
         processLocked(ws, kind, reads, held, pending, chans)
  PROVE  \E N \in SUBSET Procs : Outcome(ws, kind, H, N, chans)
<1>0. /\ ws \in Seq(Procs) /\ Distinct(ws)
      /\ \A i \in 1 .. Len(ws) : ws[i] \notin H
      /\ kind \in [Procs -> BOOLEAN]
      /\ H \in SUBSET Procs
      /\ reads = Cardinality({p \in H : kind[p]})
      /\ held \in BOOLEAN
      /\ held <=> \E p \in H : ~kind[p]
      /\ \A p, q \in H : p # q => kind[p] /\ kind[q]
      /\ activeReadLimit > 0 => reads <= activeReadLimit
  BY DEF Ready, Counted
<1> USE <1>0
<1>1. PICK n \in 0 .. Len(ws) :
        /\ Grants(ws, n, kind, reads, held, pending)
        /\ LET granted == {Candidate(ws, i) : i \in 1 .. n}
           IN  /\ waiters' = Remaining(ws, n)
               /\ activeReads' = reads + Cardinality({p \in granted : kind[p]})
               /\ writeHeld' = (held \/ \E p \in granted : ~kind[p])
               /\ ch' = [p \in Procs |-> chans[p] \/ p \in granted]
  BY DEF processLocked
<1> DEFINE N == {Candidate(ws, i) : i \in 1 .. n}
           HR == {p \in H : kind[p]}
           NR == {p \in N : kind[p]}
<1>2. /\ \A i \in 1 .. n : Candidate(ws, i) \in Procs
      /\ \A i \in 1 .. n : \E j \in 1 .. Len(ws) : Candidate(ws, i) = ws[j]
      /\ Remaining(ws, n) \in Seq(Procs)
      /\ Len(Remaining(ws, n)) = Len(ws) - n
      /\ Distinct(Remaining(ws, n))
      /\ \A i \in 1 .. Len(Remaining(ws, n)) :
           /\ \E j \in 1 .. Len(ws) : Remaining(ws, n)[i] = ws[j]
           /\ \A k \in 1 .. n : Remaining(ws, n)[i] # Candidate(ws, k)
  BY Loop
<1>3. N \in SUBSET Procs /\ \A p \in N : \E j \in 1 .. Len(ws) : p = ws[j]
  <2>1. ASSUME NEW p \in N
        PROVE  p \in Procs /\ \E j \in 1 .. Len(ws) : p = ws[j]
    <3>1. PICK i \in 1 .. n : p = Candidate(ws, i)
      OBVIOUS
    <3> QED BY <3>1, <1>2
  <2> QED BY <2>1
<1>4. \A p \in N : p \notin H
  BY <1>3
<1>5. Len(ws) \in Nat /\ n \in Nat
  BY LenProperties
<1>6. /\ IsFiniteSet(HR) /\ Cardinality(HR) \in Nat
      /\ IsFiniteSet(NR) /\ Cardinality(NR) \in Nat
      /\ reads = Cardinality(HR)
  BY <1>3, ProcSets
<1>7. \A i \in 1 .. n : Admits(ws, i, kind, reads, held, pending)
  BY <1>1 DEF Grants
<1>8. \A i \in 1 .. n :
        /\ ~held
        /\ \A j \in 1 .. (i - 1) : kind[Candidate(ws, j)]
        /\ activeReadLimit > 0 => ~(reads + (i - 1) >= activeReadLimit)
        /\ ~kind[Candidate(ws, i)] => ~(reads + (i - 1) > 0)
  BY <1>7 DEF Admits
<1>9. activeReads' = Cardinality({p \in H \cup N : kind[p]})
  <2> HIDE DEF N
  <2>1. {p \in H \cup N : kind[p]} = HR \cup NR
    OBVIOUS
  <2>2. HR \cap NR = {}
    BY <1>4
  <2> HIDE DEF HR, NR
  <2>3. Cardinality(HR \cup NR) = Cardinality(HR) + Cardinality(NR) - Cardinality({})
    BY <2>2, <1>6, FS_Union
  <2>4. activeReads' = Cardinality(HR) + Cardinality(NR)
    BY <1>1, <1>6 DEF NR, N
  <2>5. Cardinality({}) = 0
    BY FS_EmptySet
  <2>6. activeReads' = Cardinality(HR \cup NR)
    BY <2>3, <2>4, <2>5, <1>6
  <2> QED BY <2>1, <2>6, Zenon
<1>10. writeHeld' \in BOOLEAN /\ (writeHeld' <=> \E p \in H \cup N : ~kind[p])
  BY <1>1
<1>11. ASSUME NEW i \in 1 .. n, ~kind[Candidate(ws, i)]
       PROVE  n = 1 /\ H = {} /\ N = {Candidate(ws, 1)}
  <2>1. i = n
    BY <1>8, <1>11, <1>5
  <2>2. reads + (i - 1) = 0
    BY <1>8, <1>11, <1>6, <1>5
  <2>3. reads = 0 /\ n = 1
    BY <2>1, <2>2, <1>6, <1>5
  <2>4. HR = {}
    BY <2>3, <1>6, FS_EmptySet
  <2>5. ~held
    BY <1>8, <1>11
  <2> QED BY <2>3, <2>4, <2>5
<1>12. \A p, q \in H \cup N : p # q => kind[p] /\ kind[q]
  <2>1. CASE \E i \in 1 .. n : ~kind[Candidate(ws, i)]
    BY <2>1, <1>11
  <2>2. CASE ~ \E i \in 1 .. n : ~kind[Candidate(ws, i)]
    <3>1. \A p \in N : kind[p]
      BY <2>2
    <3>2. CASE n = 0
      BY <3>2, <1>5
    <3>3. CASE n # 0
      <4>1. ~held
        BY <3>3, <1>8, <1>5, 1 \in 1 .. n
      <4> QED BY <4>1, <3>1
    <3> QED BY <3>2, <3>3
  <2> QED BY <2>1, <2>2
<1>13. Cardinality(NR) <= n
  <2> DEFINE f == [i \in 1 .. n |-> Candidate(ws, i)]
  <2>1. f \in Surjection(1 .. n, N)
    BY DEF Surjection
  <2>2. IsFiniteSet(N) /\ Cardinality(N) <= n
    BY <2>1, <1>5, FS_SurjCardinalityBound, <1>3, ProcSets DEF ExistsSurjection
  <2> HIDE DEF N
  <2>3. NR \in SUBSET N
    OBVIOUS
  <2> QED BY <2>2, <2>3, <1>3, <1>5, <1>6, FS_Subset, ProcSets
<1>14. activeReadLimit > 0 => activeReads' <= activeReadLimit
  <2> SUFFICES ASSUME activeReadLimit > 0 PROVE activeReads' <= activeReadLimit
    OBVIOUS
  <2>1. activeReads' = reads + Cardinality(NR)
    BY <1>1
  <2> HIDE DEF NR, HR
  <2>2. CASE n = 0
    BY <2>1, <2>2, <1>13, <1>6, LimitAssumption
  <2>3. CASE n # 0
    <3>1. n \in 1 .. n
      BY <2>3, <1>5
    <3>2. ~(reads + (n - 1) >= activeReadLimit)
      BY <3>1, <1>8
    <3> QED BY <3>2, <2>1, <1>13, <1>5, <1>6, LimitAssumption
  <2> QED BY <2>2, <2>3
<1>15. waiters' # <<>> => activeReads' > 0 \/ writeHeld'
  <2> SUFFICES ASSUME waiters' # <<>>, ~writeHeld' PROVE activeReads' > 0
    BY <1>10
  <2>1. n < Len(ws)
    BY <1>1, <1>2, <1>5, EmptySeq
  <2>2. ~Admits(ws, n + 1, kind, reads, held, pending)
    BY <2>1, <1>1 DEF Grants
  <2>3. ~held /\ \A i \in 1 .. n : kind[Candidate(ws, i)]
    BY <1>1
  <2>4. \A j \in 1 .. (n + 1 - 1) : kind[Candidate(ws, j)]
    BY <2>3, <1>5
  <2>5. reads + n > 0
    BY <2>2, <2>3, <2>4, <1>5, <1>6, LimitAssumption DEF Admits
  <2>6. activeReads' = reads + Cardinality(NR)
    BY <1>1
  <2>7. CASE reads > 0
    <3> HIDE DEF NR, HR
    <3> QED BY <2>6, <2>7, <1>6
  <2>8. CASE ~(reads > 0)
    <3>1. 1 \in 1 .. n
      BY <2>5, <2>8, <1>5, <1>6
    <3>2. Candidate(ws, 1) \in NR
      BY <3>1, <2>3
    <3> HIDE DEF NR, HR
    <3>3. Cardinality(NR) # 0
      BY <3>2, <1>6, FS_EmptySet
    <3> QED BY <3>3, <2>6, <1>6
  <2> QED BY <2>7, <2>8
<1>16. /\ waiters' = Remaining(ws, n)
       /\ ch' = [p \in Procs |-> chans[p] \/ p \in N]
  BY <1>1
<1>17. \A i \in 1 .. Len(waiters') :
         /\ \E j \in 1 .. Len(ws) : waiters'[i] = ws[j]
         /\ waiters'[i] \notin N
  BY <1>16, <1>2
<1> HIDE DEF N
<1> QED
  BY <1>2, <1>3, <1>9, <1>10, <1>12, <1>14, <1>15, <1>16, <1>17 DEF Outcome

\* The goroutines of a set that asked for reading.
Readers(S) == {p \in S : read[p]}

\* What processLocked needs to know when p gives its lock back.
LEMMA Release ==
  ASSUME IInv, NEW p \in Granted,
         NEW reads, reads = IF read[p] THEN activeReads - 1 ELSE activeReads,
         NEW held, held = IF read[p] THEN writeHeld ELSE FALSE
  PROVE  Counted(read, Granted \ {p}, reads, held)
<1>0. /\ read \in [Procs -> BOOLEAN] /\ writeHeld \in BOOLEAN /\ activeReads \in Nat
      /\ Granted \in SUBSET Procs /\ p \in Procs
  BY DEF IInv, TypeOK, Granted
<1>1. IsFiniteSet(Readers(Granted)) /\ Cardinality(Readers(Granted)) = activeReads
  BY <1>0, ProcSets DEF Readers, IInv, Accounting
<1>2. /\ {q \in Granted \ {p} : read[q]} = Readers(Granted) \ {p}
      /\ p \in Readers(Granted) <=> read[p]
  BY <1>0 DEF Readers
<1>3. Cardinality(Readers(Granted) \ {p}) =
        IF p \in Readers(Granted) THEN Cardinality(Readers(Granted)) - 1
                                  ELSE Cardinality(Readers(Granted))
  BY <1>1, FS_RemoveElement
<1>4. reads = Cardinality({q \in Granted \ {p} : read[q]})
  BY <1>1, <1>2, <1>3
<1>5. writeHeld <=> \E q \in Granted : ~read[q]
  BY <1>0 DEF IInv, Accounting
<1>6. held \in BOOLEAN /\ (held <=> \E q \in Granted \ {p} : ~read[q])
  BY <1>0, <1>5 DEF IInv, AloneInv
<1>7. activeReadLimit > 0 => reads <= activeReadLimit
  BY <1>0, LimitAssumption DEF IInv, LimitInv
<1> QED BY <1>4, <1>6, <1>7 DEF Counted

\* The conjuncts about the holders follow once the new holders are known.
LEMMA HoldersInv ==
  ASSUME NEW G, Granted' = G,
         activeReads' = Cardinality({p \in G : read'[p]}),
         writeHeld' \in BOOLEAN,
         writeHeld' <=> \E p \in G : ~read'[p],
         \A p, q \in G : p # q => read'[p] /\ read'[q],
         activeReadLimit > 0 => activeReads' <= activeReadLimit,
         waiters' # <<>> => activeReads' > 0 \/ writeHeld'
  PROVE  Accounting' /\ AloneInv' /\ LimitInv' /\ WaitersHaveHolder'
<1>1. writeHeld' = (\E p \in Granted' : ~read'[p])
  OBVIOUS
<1> QED BY <1>1 DEF Accounting, AloneInv, LimitInv, WaitersHaveHolder

\* A new mutex (newRWMutex) satisfies the inductive invariant.
LEMMA InitIInv == Init => IInv
<1> SUFFICES ASSUME Init PROVE IInv
  OBVIOUS
<1>1. Granted = {} /\ Pending = {}
  BY DEF Init, Granted, Pending
<1>2. {p \in Granted : read[p]} = {} /\ Cardinality({}) = 0
  BY <1>1, FS_EmptySet
<1>3. TypeOK
  BY EmptySeq DEF Init, TypeOK
<1>4. Accounting
  BY <1>1, <1>2 DEF Init, Accounting
<1>5. WaitersInv /\ ChanInv
  BY EmptySeq DEF Init, WaitersInv, ChanInv, Distinct
<1>6. AloneInv /\ PendingInv /\ LimitInv /\ WaitersHaveHolder
  BY <1>1, <1>2, LimitAssumption DEF Init, AloneInv, PendingInv, LimitInv, WaitersHaveHolder
<1> QED BY <1>3, <1>4, <1>5, <1>6 DEF IInv

\* lock's fast path.
LEMMA LockFastStep ==
  ASSUME IInv, NEW p \in Procs, NEW isRead \in BOOLEAN, LockFast(p, isRead)
  PROVE  IInv'
<1>0. TypeOK
  BY DEF IInv
<1>1. Granted = {}
  <2>1. Cardinality(Readers(Granted)) = 0 /\ ~ \E q \in Granted : ~read[q]
    BY DEF LockFast, IInv, Accounting, Readers
  <2>2. Readers(Granted) = {}
    BY <2>1, ProcSets, FS_EmptySet DEF Readers, Granted
  <2> QED BY <2>1, <2>2 DEF Readers
<1>2. TypeOK'
  BY <1>0 DEF LockFast, TypeOK
<1>3. Granted' = {p}
  BY <1>0, <1>1 DEF LockFast, Granted, TypeOK
<1>4. WaitersInv' /\ ChanInv'
  <2>1. ~ch[p]
    BY <1>1 DEF Granted
  <2>2. ASSUME NEW i \in 1 .. Len(waiters) PROVE waiters[i] # p /\ waiters[i] \in Procs
    BY <1>0, ElementOfSeq DEF IInv, WaitersInv, LockFast, TypeOK
  <2> QED BY <1>0, <2>1, <2>2 DEF IInv, WaitersInv, ChanInv, LockFast, TypeOK, Distinct
<1>5. PendingInv'
  <2>1. Pending' = Pending
    BY <1>0 DEF LockFast, Pending, TypeOK
  <2> QED BY <2>1 DEF LockFast, IInv, PendingInv
<1>6. Accounting' /\ AloneInv' /\ LimitInv' /\ WaitersHaveHolder'
  <2>1. {q \in {p} : read'[q]} = IF isRead THEN {p} ELSE {}
    BY <1>0 DEF LockFast, TypeOK
  <2>2. activeReads' = Cardinality({q \in {p} : read'[q]})
    BY <2>1, FS_EmptySet, FS_Singleton DEF LockFast
  <2>3. writeHeld' \in BOOLEAN /\ (writeHeld' <=> \E q \in {p} : ~read'[q])
    BY <1>0 DEF LockFast, TypeOK
  <2>4. activeReadLimit > 0 => activeReads' <= activeReadLimit
    BY LimitAssumption DEF LockFast
  <2>5. activeReads' > 0 \/ writeHeld'
    <3>1. CASE isRead
      BY <3>1 DEF LockFast
    <3>2. CASE ~isRead
      BY <3>2, Zenon DEF LockFast
    <3> QED BY <3>1, <3>2
  <2> QED BY <1>3, <2>2, <2>3, <2>4, <2>5, HoldersInv
<1> QED BY <1>2, <1>4, <1>5, <1>6 DEF IInv

\* lock's slow path up to the select.
LEMMA LockSlowStep ==
  ASSUME IInv, NEW p \in Procs, NEW isRead \in BOOLEAN, LockSlow(p, isRead)
  PROVE  IInv'
<1> DEFINE ws == Append(waiters, p)
<1>0. TypeOK /\ pc[p] = "idle" /\ ~ch[p]
  BY DEF IInv, ChanInv, LockSlow
<1>1. /\ read' \in [Procs -> BOOLEAN] /\ read' = [read EXCEPT ![p] = isRead]
      /\ pc' = [pc EXCEPT ![p] = "select"]
      /\ processLocked(ws, read', activeReads, writeHeld, pendingWrites', ch)
  BY <1>0 DEF LockSlow, TypeOK, pushWaiter
<1>2. /\ ws \in Seq(Procs) /\ Len(ws) = Len(waiters) + 1 /\ ws[Len(waiters) + 1] = p
      /\ \A i \in 1 .. Len(waiters) : ws[i] = waiters[i] /\ waiters[i] \in Procs
      /\ Len(waiters) \in Nat
  BY <1>0, LenProperties DEF TypeOK
<1> HIDE DEF ws
<1>3. \A i \in 1 .. Len(waiters) : waiters[i] # p
  BY <1>0 DEF IInv, WaitersInv
<1>4. Distinct(ws)
  BY <1>2, <1>3 DEF Distinct, IInv, WaitersInv
<1>5. Granted \in SUBSET Procs /\ p \notin Granted
  BY <1>0 DEF Granted
<1>6. \A i \in 1 .. Len(ws) : ws[i] \notin Granted
  <2>1. ASSUME NEW i \in 1 .. Len(waiters) PROVE waiters[i] \notin Granted
    BY DEF IInv, WaitersInv, Granted
  <2> QED BY <1>2, <1>5, <2>1
<1>7. /\ activeReads = Cardinality({q \in Granted : read'[q]})
      /\ writeHeld \in BOOLEAN
      /\ writeHeld <=> \E q \in Granted : ~read'[q]
      /\ \A q, r \in Granted : q # r => read'[q] /\ read'[r]
  <2>1. \A q \in Granted : read'[q] = read[q]
    BY <1>0, <1>1, <1>5 DEF TypeOK
  <2>2. {q \in Granted : read'[q]} = {q \in Granted : read[q]}
    BY <2>1
  <2>3. activeReads = Cardinality({q \in Granted : read'[q]})
    BY <2>2 DEF IInv, Accounting
  <2>4. writeHeld \in BOOLEAN /\ (writeHeld <=> \E q \in Granted : ~read'[q])
    BY <2>1, <1>0 DEF IInv, Accounting, TypeOK
  <2> QED BY <2>1, <2>3, <2>4 DEF IInv, AloneInv
<1>8. /\ ch \in [Procs -> BOOLEAN]
      /\ activeReadLimit > 0 => activeReads <= activeReadLimit
  BY <1>0 DEF TypeOK, IInv, LimitInv
<1>9. PICK N \in SUBSET Procs : Outcome(ws, read', Granted, N, ch)
  <2>1. Ready(ws, read', Granted, activeReads, writeHeld)
    BY <1>1, <1>2, <1>4, <1>5, <1>6, <1>7, <1>8 DEF Ready, Counted
  <2> QED BY <1>1, <2>1, ProcessLocked
<1>10. Granted' = Granted \cup N
  BY <1>0, <1>1, <1>9 DEF Granted, TypeOK, Outcome
<1>11. Accounting' /\ AloneInv' /\ LimitInv' /\ WaitersHaveHolder'
  BY <1>9, <1>10, HoldersInv DEF Outcome
<1>12. \A i \in 1 .. Len(ws) : ws[i] \in Procs /\ pc'[ws[i]] \in {"select", "failed"} /\ ~ch[ws[i]]
  <2>1. \A i \in 1 .. Len(waiters) : pc'[waiters[i]] \in {"select", "failed"} /\ ~ch[waiters[i]]
    BY <1>0, <1>1, <1>2, <1>3 DEF IInv, WaitersInv, TypeOK
  <2>2. pc'[p] = "select"
    BY <1>0, <1>1 DEF TypeOK
  <2> QED BY <1>0, <1>2, <2>1, <2>2
<1>13. WaitersInv' /\ ChanInv'
  <2>1. ASSUME NEW i \in 1 .. Len(waiters')
        PROVE  pc'[waiters'[i]] \in {"select", "failed"} /\ ~ch'[waiters'[i]]
    <3>1. PICK j \in 1 .. Len(ws) : waiters'[i] = ws[j]
      BY <1>9 DEF Outcome
    <3> QED BY <3>1, <1>9, <1>12 DEF Outcome
  <2>2. ASSUME NEW q \in Procs, ch'[q] PROVE pc'[q] \in {"select", "failed"}
    <3>1. CASE ch[q]
      BY <3>1, <1>0, <1>1 DEF IInv, ChanInv, TypeOK
    <3>2. CASE q \in N
      BY <3>2, <1>9, <1>12 DEF Outcome
    <3> QED BY <2>2, <3>1, <3>2, <1>9 DEF Outcome
  <2> QED BY <1>9, <2>1, <2>2 DEF WaitersInv, ChanInv, Outcome
<1>14. PendingInv' /\ pendingWrites' \in Nat
  <2>1. Pending' = IF isRead THEN Pending ELSE Pending \cup {p}
    BY <1>0, <1>1 DEF Pending, TypeOK
  <2>2. p \notin Pending /\ IsFiniteSet(Pending) /\ Cardinality(Pending) \in Nat
    BY <1>0, ProcSets DEF Pending
  <2>3. Cardinality(Pending \cup {p}) = Cardinality(Pending) + 1
    BY <2>2, FS_AddElement
  <2> QED BY <2>1, <2>2, <2>3 DEF LockSlow, IInv, PendingInv
<1>15. TypeOK'
  <2>1. activeReads' \in Nat
    BY <1>5, <1>9, ProcSets, {q \in Granted \cup N : read'[q]} \in SUBSET Procs DEF Outcome
  <2>2. ch' \in [Procs -> BOOLEAN]
    BY <1>9 DEF Outcome
  <2>3. pc' \in [Procs -> {"idle", "select", "received", "failed", "held"}]
    BY <1>0, <1>1 DEF TypeOK
  <2> QED BY <2>1, <2>2, <2>3, <1>1, <1>9, <1>14 DEF TypeOK, Outcome
<1> QED BY <1>11, <1>13, <1>14, <1>15 DEF IInv

\* The end of the select, with the token or with an error.
LEMMA SelectStep ==
  ASSUME IInv, NEW p \in Procs, Receive(p) \/ Cancel(p)
  PROVE  IInv'
<1>0. TypeOK /\ pc[p] = "select"
  BY DEF IInv, Receive, Cancel
<1>1. TypeOK'
  BY <1>0 DEF Receive, Cancel, TypeOK
<1>2. Granted' = Granted /\ Pending' = Pending
  BY <1>0 DEF Receive, Cancel, TypeOK, Granted, Pending
<1>3. UNCHANGED <<waiters, activeReads, pendingWrites, writeHeld, read>>
  BY DEF Receive, Cancel
<1>4. Accounting' /\ AloneInv' /\ LimitInv' /\ WaitersHaveHolder' /\ PendingInv'
  BY <1>2, <1>3 DEF IInv, Accounting, AloneInv, LimitInv, WaitersHaveHolder, PendingInv
<1>5. WaitersInv'
  <2>1. ASSUME NEW i \in 1 .. Len(waiters)
        PROVE  pc'[waiters[i]] \in {"select", "failed"} /\ ~ch'[waiters[i]]
    <3>1. waiters[i] \in Procs /\ pc[waiters[i]] \in {"select", "failed"} /\ ~ch[waiters[i]]
      BY <1>0, ElementOfSeq DEF IInv, WaitersInv, TypeOK
    <3> QED BY <3>1, <1>0 DEF Receive, Cancel, TypeOK
  <2> QED BY <2>1, <1>3 DEF IInv, WaitersInv, Distinct
<1>6. ChanInv'
  BY <1>0 DEF IInv, ChanInv, Receive, Cancel, TypeOK
<1> QED BY <1>1, <1>4, <1>5, <1>6 DEF IInv

\* pendingWrites when p leaves the slow path of lock.
LEMMA LeavePending ==
  ASSUME IInv, NEW p \in Procs, pc[p] \in {"received", "failed"},
         pendingWrites' = PendingAfter(p), read' = read,
         NEW where \in {"held", "idle"}, pc' = [pc EXCEPT ![p] = where]
  PROVE  PendingInv' /\ pendingWrites' \in Nat
<1>1. TypeOK
  BY DEF IInv
<1>2. Pending' = Pending \ {p} /\ (p \in Pending <=> ~read[p])
  BY <1>1 DEF Pending, TypeOK
<1>3. IsFiniteSet(Pending) /\ Cardinality(Pending) \in Nat /\ IsFiniteSet(Pending')
      /\ Cardinality(Pending') \in Nat
  BY <1>2, ProcSets DEF Pending
<1>4. Cardinality(Pending \ {p}) = IF p \in Pending THEN Cardinality(Pending) - 1
                                                    ELSE Cardinality(Pending)
  BY <1>3, FS_RemoveElement
<1>5. pendingWrites' = Cardinality(Pending')
  BY <1>1, <1>2, <1>3, <1>4 DEF PendingAfter, IInv, PendingInv, TypeOK
<1> QED BY <1>3, <1>5 DEF PendingInv

\* lock's return when no lock is given back.
LEMMA ReturnStep ==
  ASSUME IInv, NEW p \in Procs, ReturnAcquired(p) \/ ReturnCanceled(p)
  PROVE  IInv'
<1>0. TypeOK /\ Distinct(waiters)
  BY DEF IInv, WaitersInv
<1>1. PICK where \in {"held", "idle"} :
        /\ pc[p] \in {"received", "failed"}
        /\ pc' = [pc EXCEPT ![p] = where]
        /\ where = "held" <=> pc[p] = "received"
        /\ ~ch[p]
  BY DEF ReturnAcquired, ReturnCanceled, IInv, ChanInv
<1>2. /\ waiters' = removeWaiter(p)
      /\ pendingWrites' = PendingAfter(p)
      /\ UNCHANGED <<activeReads, writeHeld, read, ch>>
  BY DEF ReturnAcquired, ReturnCanceled
<1>3. PendingInv' /\ pendingWrites' \in Nat
  BY <1>1, <1>2, LeavePending
<1>4. /\ waiters' \in Seq(Procs)
      /\ Distinct(waiters')
      /\ \A i \in 1 .. Len(waiters') :
           /\ waiters'[i] # p
           /\ \E j \in 1 .. Len(waiters) : waiters'[i] = waiters[j]
  BY <1>0, <1>2, RemoveWaiter DEF TypeOK
<1>5. TypeOK'
  BY <1>0, <1>1, <1>2, <1>3, <1>4 DEF TypeOK
<1>6. WaitersInv' /\ ChanInv'
  <2>1. ASSUME NEW i \in 1 .. Len(waiters')
        PROVE  pc'[waiters'[i]] \in {"select", "failed"} /\ ~ch'[waiters'[i]]
    <3>1. PICK j \in 1 .. Len(waiters) : waiters'[i] = waiters[j]
      BY <1>4
    <3>2. waiters[j] \in Procs /\ waiters[j] # p
      BY <3>1, <1>0, <1>4, ElementOfSeq DEF TypeOK
    <3> QED BY <3>1, <3>2, <1>0, <1>1, <1>2 DEF IInv, WaitersInv, TypeOK
  <2>2. ChanInv'
    BY <1>0, <1>1, <1>2 DEF IInv, ChanInv, TypeOK
  <2> QED BY <1>4, <2>1, <2>2 DEF WaitersInv
<1>7. Granted' = Granted
  BY <1>0, <1>1, <1>2 DEF Granted, TypeOK
<1>8. waiters' # <<>> => waiters # <<>>
  <2> SUFFICES ASSUME waiters' # <<>> PROVE waiters # <<>>
    OBVIOUS
  <2>1. 1 \in 1 .. Len(waiters')
    BY <1>4, EmptySeq
  <2>2. PICK j \in 1 .. Len(waiters) : waiters'[1] = waiters[j]
    BY <2>1, <1>4
  <2> QED BY <2>2, EmptySeq
<1>9. Accounting' /\ AloneInv' /\ LimitInv' /\ WaitersHaveHolder'
  BY <1>2, <1>7, <1>8 DEF IInv, Accounting, AloneInv, LimitInv, WaitersHaveHolder
<1> QED BY <1>3, <1>5, <1>6, <1>9 DEF IInv

\* p gives the lock back: Unlock, RUnlock, or an error return after a grant.
LEMMA GiveBackStep ==
  ASSUME IInv, NEW p \in Granted, p \in Procs,
         NEW ws, ws \in Seq(Procs), Distinct(ws),
         \A i \in 1 .. Len(ws) : ws[i] # p /\ \E j \in 1 .. Len(waiters) : ws[i] = waiters[j],
         NEW chans \in [Procs -> BOOLEAN],
         ~chans[p], \A q \in Procs \ {p} : chans[q] = ch[q],
         unlockLocked(read[p], ws, pendingWrites', chans),
         pc' = [pc EXCEPT ![p] = "idle"], read' = read,
         PendingInv', pendingWrites' \in Nat
  PROVE  IInv'
<1> DEFINE reads == IF read[p] THEN activeReads - 1 ELSE activeReads
           held  == IF read[p] THEN writeHeld ELSE FALSE
           H     == Granted \ {p}
<1>0. TypeOK
  BY DEF IInv
<1>1. processLocked(ws, read, reads, held, pendingWrites', chans)
  BY DEF unlockLocked
<1>a. /\ reads = IF read[p] THEN activeReads - 1 ELSE activeReads
      /\ held = IF read[p] THEN writeHeld ELSE FALSE
  OBVIOUS
<1> HIDE DEF reads, held
<1>2. Counted(read, H, reads, held)
  BY <1>a, Release
<1>3. \A i \in 1 .. Len(ws) : ws[i] \in Procs /\ pc[ws[i]] \in {"select", "failed"} /\ ~ch[ws[i]]
  <2>1. \A j \in 1 .. Len(waiters) :
          waiters[j] \in Procs /\ pc[waiters[j]] \in {"select", "failed"} /\ ~ch[waiters[j]]
    BY <1>0, ElementOfSeq DEF IInv, WaitersInv, TypeOK
  <2> QED BY <2>1
<1>4. H \in SUBSET Procs /\ (\A i \in 1 .. Len(ws) : ws[i] \notin H)
      /\ \A q, r \in H : q # r => read[q] /\ read[r]
  BY <1>3 DEF Granted, IInv, AloneInv
<1> HIDE DEF H
<1>5. Ready(ws, read, H, reads, held)
  BY <1>0, <1>2, <1>4 DEF Ready, TypeOK
<1>6. PICK N \in SUBSET Procs : Outcome(ws, read, H, N, chans)
  BY <1>1, <1>5, ProcessLocked
<1>7. p \notin N
  BY <1>6 DEF Outcome
<1>8. Granted' = H \cup N
  <2>1. ASSUME NEW q \in Procs
        PROVE  q \in Granted' <=> q \in H \cup N
    <3>1. ch'[q] = (chans[q] \/ q \in N)
      BY <1>6 DEF Outcome
    <3>2. CASE q = p
      BY <3>1, <3>2, <1>0, <1>7 DEF Granted, H, TypeOK
    <3>3. CASE q # p
      BY <3>1, <3>3, <1>0 DEF Granted, H, TypeOK
    <3> QED BY <3>2, <3>3
  <2> QED BY <2>1, <1>4 DEF Granted
<1>9. Accounting' /\ AloneInv' /\ LimitInv' /\ WaitersHaveHolder'
  BY <1>6, <1>8, HoldersInv DEF Outcome
<1>10. WaitersInv' /\ ChanInv'
  <2>1. ASSUME NEW i \in 1 .. Len(waiters')
        PROVE  pc'[waiters'[i]] \in {"select", "failed"} /\ ~ch'[waiters'[i]]
    <3>1. PICK j \in 1 .. Len(ws) : waiters'[i] = ws[j]
      BY <1>6 DEF Outcome
    <3>2. pc'[ws[j]] \in {"select", "failed"} /\ ~chans[ws[j]]
      BY <1>0, <1>3 DEF TypeOK
    <3> QED BY <3>1, <3>2, <1>3, <1>6 DEF Outcome
  <2>2. ASSUME NEW q \in Procs, ch'[q] PROVE pc'[q] \in {"select", "failed"}
    <3>1. CASE q \in N
      <4>1. PICK j \in 1 .. Len(ws) : q = ws[j]
        BY <3>1, <1>6 DEF Outcome
      <4> QED BY <4>1, <1>0, <1>3 DEF TypeOK
    <3>2. CASE q \notin N
      <4>1. chans[q] /\ q # p /\ ch[q]
        BY <2>2, <3>2, <1>6 DEF Outcome
      <4> QED BY <4>1, <1>0 DEF IInv, ChanInv, TypeOK
    <3> QED BY <3>1, <3>2
  <2> QED BY <1>6, <2>1, <2>2 DEF WaitersInv, ChanInv, Outcome
<1>11. TypeOK'
  <2>1. activeReads' \in Nat
    BY <1>4, <1>6, ProcSets, {q \in H \cup N : read[q]} \in SUBSET Procs DEF Outcome
  <2>2. ch' \in [Procs -> BOOLEAN]
    BY <1>6 DEF Outcome
  <2> QED BY <2>1, <2>2, <1>0, <1>6 DEF TypeOK, Outcome
<1> QED BY <1>9, <1>10, <1>11 DEF IInv

\* Unlock and RUnlock.
LEMMA UnlockStep ==
  ASSUME IInv, NEW p \in Procs, Unlock(p)
  PROVE  IInv'
<1>0. TypeOK
  BY DEF IInv
<1>1. pc[p] = "held" /\ p \in Granted /\ ~ch[p]
  BY DEF Unlock, Granted, IInv, ChanInv
<1>2. PendingInv' /\ pendingWrites' \in Nat
  <2>1. Pending' = Pending
    BY <1>0, <1>1 DEF Unlock, Pending, TypeOK
  <2> QED BY <1>0, <2>1 DEF Unlock, IInv, PendingInv, TypeOK
<1>3. /\ waiters \in Seq(Procs) /\ Distinct(waiters) /\ ch \in [Procs -> BOOLEAN]
      /\ \A i \in 1 .. Len(waiters) :
           waiters[i] # p /\ \E j \in 1 .. Len(waiters) : waiters[i] = waiters[j]
  BY <1>0, <1>1 DEF TypeOK, IInv, WaitersInv
<1>4. /\ unlockLocked(read[p], waiters, pendingWrites', ch)
      /\ pc' = [pc EXCEPT ![p] = "idle"] /\ read' = read
  BY DEF Unlock
<1> QED BY <1>1, <1>2, <1>3, <1>4, GiveBackStep

\* The error return of lock after a grant it did not see.
LEMMA RelinquishStep ==
  ASSUME IInv, NEW p \in Procs, ReturnRelinquish(p)
  PROVE  IInv'
<1> DEFINE ws    == removeWaiter(p)
           chans == [ch EXCEPT ![p] = FALSE]
<1>0. TypeOK /\ Distinct(waiters)
  BY DEF IInv, WaitersInv
<1>1. pc[p] = "failed" /\ p \in Granted
  BY DEF ReturnRelinquish, Granted
<1>2. /\ unlockLocked(read[p], ws, pendingWrites', chans)
      /\ pendingWrites' = PendingAfter(p)
      /\ pc' = [pc EXCEPT ![p] = "idle"] /\ read' = read
  BY DEF ReturnRelinquish
<1>3. PendingInv' /\ pendingWrites' \in Nat
  BY <1>1, <1>2, LeavePending
<1>4. /\ ws \in Seq(Procs)
      /\ Distinct(ws)
      /\ \A i \in 1 .. Len(ws) :
           ws[i] # p /\ \E j \in 1 .. Len(waiters) : ws[i] = waiters[j]
  BY <1>0, RemoveWaiter DEF TypeOK
<1>5. chans \in [Procs -> BOOLEAN] /\ ~chans[p] /\ \A q \in Procs \ {p} : chans[q] = ch[q]
  BY <1>0 DEF TypeOK
<1> HIDE DEF ws, chans
<1> QED BY <1>1, <1>2, <1>3, <1>4, <1>5, GiveBackStep
-----------------------------------------------------------------------------
\* Every step of the mutex keeps the inductive invariant.
LEMMA StepIInv == IInv /\ [Next]_vars => IInv'
<1> SUFFICES ASSUME IInv, [Next]_vars PROVE IInv'
  OBVIOUS
<1>1. CASE Next
  <2>1. PICK p \in Procs :
          \/ \E isRead \in BOOLEAN : LockFast(p, isRead) \/ LockSlow(p, isRead)
          \/ Receive(p) \/ Cancel(p)
          \/ ReturnAcquired(p) \/ ReturnCanceled(p) \/ ReturnRelinquish(p)
          \/ Unlock(p)
    BY <1>1 DEF Next
  <2> QED BY <2>1, LockFastStep, LockSlowStep, SelectStep, ReturnStep,
             RelinquishStep, UnlockStep
<1>2. CASE UNCHANGED vars
  BY <1>2 DEF vars, IInv, TypeOK, WaitersInv, ChanInv, AloneInv, PendingInv, Accounting,
              LimitInv, WaitersHaveHolder, Granted, Pending, Distinct
<1> QED BY <1>1, <1>2

\* The inductive invariant holds in every state of the mutex.
THEOREM Inductive == Spec => []IInv
BY InitIInv, StepIInv, PTL DEF Spec

\* The counters and the list keep their types; in particular activeReads and
\* pendingWrites never go below zero, whatever is cancelled when.
THEOREM TypeCorrect == Spec => []TypeOK
<1>1. IInv => TypeOK
  BY DEF IInv
<1> QED BY Inductive, <1>1, PTL

\* activeReads and writeHeld count exactly the goroutines that were given the
\* lock, also when a cancellation races with the grant.
THEOREM AccountingHolds == Spec => []Accounting
<1>1. IInv => Accounting
  BY DEF IInv
<1> QED BY Inductive, <1>1, PTL

\* A goroutine whose Lock returned nil is alone with the lock, for any number
\* of goroutines, in both queue orders.
THEOREM MutualExclusionHolds == Spec => []MutualExclusion
<1>1. IInv => MutualExclusion
  BY DEF IInv, AloneInv, MutualExclusion, Granted
<1> QED BY Inductive, <1>1, PTL

\* Whoever waits has a holder whose unlock processes the list.
THEOREM WaitersHaveHolderHolds == Spec => []WaitersHaveHolder
<1>1. IInv => WaitersHaveHolder
  BY DEF IInv
<1> QED BY Inductive, <1>1, PTL

\* processLocked never blocks on a full channel and no token outlives lock.
THEOREM ChannelEmptyHolds == Spec => []ChannelEmpty
<1>1. IInv => ChannelEmpty
  BY DEF IInv, WaitersInv, ChanInv, ChannelEmpty
<1> QED BY Inductive, <1>1, PTL

\* No more than activeReadLimit readers have the lock.
THEOREM ReadLimitHolds == Spec => []ReadLimit
<1>1. IInv => ReadLimit
  <2> SUFFICES ASSUME IInv, activeReadLimit > 0
               PROVE  Cardinality({p \in Procs : pc[p] = "held" /\ read[p]}) <= activeReadLimit
    BY DEF ReadLimit
  <2> DEFINE A == {p \in Procs : pc[p] = "held" /\ read[p]}
             B == {p \in Granted : read[p]}
  <2>1. A \in SUBSET B /\ B \in SUBSET Procs /\ A \in SUBSET Procs
    BY DEF Granted
  <2>2. Cardinality(B) <= activeReadLimit
    BY DEF IInv, Accounting, LimitInv
  <2> HIDE DEF A, B
  <2>3. IsFiniteSet(B) /\ Cardinality(A) \in Nat /\ Cardinality(B) \in Nat
    BY <2>1, ProcSets
  <2>4. Cardinality(A) <= Cardinality(B)
    BY <2>1, <2>3, FS_Subset
  <2>5. Cardinality(A) <= activeReadLimit
    BY <2>2, <2>3, <2>4, LimitAssumption
  <2> QED BY <2>5 DEF A
<1> QED BY Inductive, <1>1, PTL
=============================================================================
