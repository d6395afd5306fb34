------------------------------- MODULE RWMutex -------------------------------
(***************************************************************************)
(* The context-aware read/write mutex of the hashstore                     *)
(* (storagenode/hashstore/sync.go).  Store.flushMu and the opMu of both    *)
(* table kinds are values of this type.                                    *)
(*                                                                         *)
(* A goroutine calls lock (for reading or writing), may wait in a select   *)
(* for its waiter's channel, its context or the closed signal, and later   *)
(* calls unlock.  Every section under rwm.mu is one action.  The list of   *)
(* waiters is a sequence, oldest first.                                    *)
(***************************************************************************)
EXTENDS Naturals, Sequences, FiniteSets

CONSTANTS
  Procs,            \* goroutines that use the mutex
  activeReadLimit,  \* most active reads, 0 for no limit
  syncLifo          \* process the newest waiter first

ASSUME ProcsAssumption == IsFiniteSet(Procs)
ASSUME LimitAssumption == activeReadLimit \in Nat
ASSUME LifoAssumption  == syncLifo \in BOOLEAN

VARIABLES
  waiters,        \* waiting goroutines, oldest first
  activeReads,    \* number of read locks given out
  pendingWrites,  \* number of writers inside the slow path
  writeHeld,      \* a write lock is given out
  pc,             \* where each goroutine is
  read,           \* the kind of lock each goroutine asked for
  ch              \* the waiter's channel (capacity one) holds a token

vars == <<waiters, activeReads, pendingWrites, writeHeld, pc, read, ch>>

TypeOK ==
  /\ waiters \in Seq(Procs)
  /\ activeReads \in Nat
  /\ pendingWrites \in Nat
  /\ writeHeld \in BOOLEAN
  /\ pc \in [Procs -> {"idle", "select", "received", "failed", "held"}]
  /\ read \in [Procs -> BOOLEAN]
  /\ ch \in [Procs -> BOOLEAN]

Init ==
  /\ waiters = <<>>
  /\ activeReads = 0
  /\ pendingWrites = 0
  /\ writeHeld = FALSE
  /\ pc = [p \in Procs |-> "idle"]
  /\ read = [p \in Procs |-> FALSE]
  /\ ch = [p \in Procs |-> FALSE]

-----------------------------------------------------------------------------
(***************************************************************************)
(* processLocked: the loop hands the lock to one waiter after another and  *)
(* stops at the first that may not have it.                                *)
(***************************************************************************)

\* The waiter the i-th turn of the loop looks at: `slot` starts at the oldest
\* waiter, or at the newest in LIFO mode, and every turn removes its waiter.
Candidate(ws, i) == IF syncLifo THEN ws[Len(ws) + 1 - i] ELSE ws[i]

\* Mutant: the loop forgets that writers are exclusive with active reads.
AdmitsWriterBesideReads(ws, i, kind, reads, held, pending) ==
  /\ ~held
  /\ \A j \in 1 .. (i - 1) : kind[Candidate(ws, j)]
  /\ ~(activeReadLimit > 0 /\ reads + (i - 1) >= activeReadLimit)

\* Mutant: the read limit is compared with the wrong operator.
AdmitsOneTooMany(ws, i, kind, reads, held, pending) ==
  /\ ~held
  /\ \A j \in 1 .. (i - 1) : kind[Candidate(ws, j)]
  /\ ~(activeReadLimit > 0 /\ reads + (i - 1) > activeReadLimit)
  /\ ~(~kind[Candidate(ws, i)] /\ reads + (i - 1) > 0)

\* The i-th turn grants its waiter, after i - 1 turns that granted theirs: the
\* negation of the loop's four early returns.  `kind` gives the waiters' kinds,
\* `reads` and `held` are activeReads and writeHeld before the loop.
Admits(ws, i, kind, reads, held, pending) ==
  LET w          == Candidate(ws, i)
      readsNow   == reads + (i - 1)
      batchReads == reads = 0 /\ ~held
  IN  /\ ~held
      /\ \A j \in 1 .. (i - 1) : kind[Candidate(ws, j)]
      /\ ~(activeReadLimit > 0 /\ readsNow >= activeReadLimit)
      /\ ~(~kind[w] /\ readsNow > 0)
      /\ ~(syncLifo /\ ~batchReads /\ kind[w] /\ pending > 0 /\ readsNow > 0)

\* The loop makes n grants: it admits n waiters and stops or runs out.
Grants(ws, n, kind, reads, held, pending) ==
  /\ \A i \in 1 .. n : Admits(ws, i, kind, reads, held, pending)
  /\ n < Len(ws) => ~Admits(ws, n + 1, kind, reads, held, pending)

\* The waiters left after n grants.
Remaining(ws, n) ==
  IF syncLifo THEN SubSeq(ws, 1, Len(ws) - n) ELSE SubSeq(ws, n + 1, Len(ws))

\* processLocked started with the given waiters, counters and channels.
processLocked(ws, kind, reads, held, pending, chans) ==
  \E n \in 0 .. Len(ws) :
    /\ Grants(ws, n, kind, reads, held, pending)
    /\ LET granted == {Candidate(ws, i) : i \in 1 .. n}
       IN  /\ waiters' = Remaining(ws, n)
           /\ activeReads' = reads + Cardinality({p \in granted : kind[p]})
           /\ writeHeld' = (held \/ \E p \in granted : ~kind[p])
           /\ ch' = [p \in Procs |-> chans[p] \/ p \in granted]

\* Mutant: unlockLocked forgets to process the waiters.
UnlockSilently(isRead, ws, pending, chans) ==
  /\ activeReads' = IF isRead THEN activeReads - 1 ELSE activeReads
  /\ writeHeld' = IF isRead THEN writeHeld ELSE FALSE
  /\ waiters' = ws
  /\ ch' = chans

\* unlockLocked(read) while the waiters are ws and the channels are chans.
unlockLocked(isRead, ws, pending, chans) ==
  processLocked(ws, read,
                IF isRead THEN activeReads - 1 ELSE activeReads,
                IF isRead THEN writeHeld ELSE FALSE,
                pending, chans)

-----------------------------------------------------------------------------
\* lock, fast path: nothing is held, take it without a waiter.
LockFast(p, isRead) ==
  /\ pc[p] = "idle"
  /\ activeReads = 0 /\ ~writeHeld
  /\ activeReads' = IF isRead THEN 1 ELSE 0
  /\ writeHeld' = ~isRead
  /\ read' = [read EXCEPT ![p] = isRead]
  /\ pc' = [pc EXCEPT ![p] = "held"]
  /\ UNCHANGED <<waiters, pendingWrites, ch>>

\* Mutant: the waiter is pushed in front of the older ones.
PushOldest(p) == <<p>> \o waiters

\* The waiters after pushWaiter(p's waiter), which makes it the newest.
pushWaiter(p) == Append(waiters, p)

\* lock, slow path up to the select: push a waiter and process the list.
LockSlow(p, isRead) ==
  /\ pc[p] = "idle"
  /\ ~(activeReads = 0 /\ ~writeHeld)
  /\ read' = [read EXCEPT ![p] = isRead]
  /\ pendingWrites' = IF isRead THEN pendingWrites ELSE pendingWrites + 1
  /\ processLocked(pushWaiter(p), read', activeReads, writeHeld,
                   pendingWrites', ch)
  /\ pc' = [pc EXCEPT ![p] = "select"]

\* The select receives the token from the waiter's channel.
Receive(p) ==
  /\ pc[p] = "select"
  /\ ch[p]
  /\ ch' = [ch EXCEPT ![p] = FALSE]
  /\ pc' = [pc EXCEPT ![p] = "received"]
  /\ UNCHANGED <<waiters, activeReads, pendingWrites, writeHeld, read>>

\* The select ends because the context is done or the signal is set, also when
\* the token is there too: Go picks among the ready cases at random.
Cancel(p) ==
  /\ pc[p] = "select"
  /\ pc' = [pc EXCEPT ![p] = "failed"]
  /\ UNCHANGED <<waiters, activeReads, pendingWrites, writeHeld, read, ch>>

\* Mutant: readers, too, decrement pendingWrites.
PendingAfterAny(p) == pendingWrites - 1

\* pendingWrites after lock has removed p's waiter.
PendingAfter(p) == IF read[p] THEN pendingWrites ELSE pendingWrites - 1

\* The waiters after removeWaiter(p's waiter), which is idempotent.
removeWaiter(p) ==
  IF \E i \in 1 .. Len(waiters) : waiters[i] = p
  THEN LET i == CHOOSE i \in 1 .. Len(waiters) : waiters[i] = p
       IN  SubSeq(waiters, 1, i - 1) \o SubSeq(waiters, i + 1, Len(waiters))
  ELSE waiters

\* lock returns nil: the waiter was granted and the token received.
ReturnAcquired(p) ==
  /\ pc[p] = "received"
  /\ waiters' = removeWaiter(p)
  /\ pendingWrites' = PendingAfter(p)
  /\ pc' = [pc EXCEPT ![p] = "held"]
  /\ UNCHANGED <<activeReads, writeHeld, read, ch>>

\* lock returns the error and the waiter was never granted.
ReturnCanceled(p) ==
  /\ pc[p] = "failed"
  /\ ~ch[p]
  /\ waiters' = removeWaiter(p)
  /\ pendingWrites' = PendingAfter(p)
  /\ pc' = [pc EXCEPT ![p] = "idle"]
  /\ UNCHANGED <<activeReads, writeHeld, read, ch>>

\* Mutant: the error return drains the channel but keeps the lock.
LeakOnCancel(p) ==
  /\ pc[p] = "failed"
  /\ ch[p]
  /\ pendingWrites' = PendingAfter(p)
  /\ waiters' = removeWaiter(p)
  /\ ch' = [ch EXCEPT ![p] = FALSE]
  /\ pc' = [pc EXCEPT ![p] = "idle"]
  /\ UNCHANGED <<activeReads, writeHeld, read>>

\* lock returns the error although the waiter was granted: drain the channel
\* and give the lock on.
ReturnRelinquish(p) ==
  /\ pc[p] = "failed"
  /\ ch[p]
  /\ pendingWrites' = PendingAfter(p)
  /\ unlockLocked(read[p], removeWaiter(p), pendingWrites',
                  [ch EXCEPT ![p] = FALSE])
  /\ pc' = [pc EXCEPT ![p] = "idle"]
  /\ UNCHANGED read

\* Unlock and RUnlock.
Unlock(p) ==
  /\ pc[p] = "held"
  /\ unlockLocked(read[p], waiters, pendingWrites, ch)
  /\ pc' = [pc EXCEPT ![p] = "idle"]
  /\ UNCHANGED <<pendingWrites, read>>

Return(p) == ReturnAcquired(p) \/ ReturnCanceled(p) \/ ReturnRelinquish(p)

Next ==
  \E p \in Procs :
    \/ \E isRead \in BOOLEAN : LockFast(p, isRead) \/ LockSlow(p, isRead)
    \/ Receive(p)
    \/ Cancel(p)
    \/ ReturnAcquired(p)
    \/ ReturnCanceled(p)
    \/ ReturnRelinquish(p)
    \/ Unlock(p)

Spec == Init /\ [][Next]_vars

\* A goroutine inside lock keeps running once its select is ready and a holder
\* unlocks (every caller does so in a defer); nobody has to lock or to cancel.
Fairness ==
  \A p \in Procs : WF_vars(Receive(p)) /\ WF_vars(Return(p)) /\ WF_vars(Unlock(p))

FairSpec == Spec /\ Fairness

-----------------------------------------------------------------------------
\* The goroutines the mutex has given the lock to: the holders, and those whose
\* grant is still in the channel or was just received.
Granted == {p \in Procs : pc[p] \in {"held", "received"} \/ ch[p]}

\* A goroutine whose lock call returned nil for writing is alone.
MutualExclusion ==
  \A p, q \in Procs :
    (p # q /\ pc[p] = "held" /\ pc[q] = "held") => read[p] /\ read[q]

\* activeReads and writeHeld count exactly the goroutines that were given the
\* lock: no cancellation leaks a lock nobody will release or frees one twice.
Accounting ==
  /\ activeReads = Cardinality({p \in Granted : read[p]})
  /\ writeHeld = (\E p \in Granted : ~read[p])

\* At most activeReadLimit readers have the lock (the flush semaphore).
ReadLimit ==
  activeReadLimit > 0 =>
    Cardinality({p \in Procs : pc[p] = "held" /\ read[p]}) <= activeReadLimit

\* Whoever waits has somebody to wait for, whose unlock will process the list:
\* no wakeup is lost and the fast path never overtakes a waiter.
WaitersHaveHolder == waiters # <<>> => activeReads > 0 \/ writeHeld

\* processLocked never sends to a full channel (it would block for ever with
\* rwm.mu held), and a waiter goes back to the pool with an empty channel.
ChannelEmpty ==
  /\ \A i \in 1 .. Len(waiters) : ~ch[waiters[i]]
  /\ \A p \in Procs : pc[p] \in {"idle", "held"} => ~ch[p]

\* In FIFO mode every lock call that waits returns if the holders unlock.
NoStarvation == \A p \in Procs : pc[p] = "select" ~> pc[p] # "select"
=============================================================================
