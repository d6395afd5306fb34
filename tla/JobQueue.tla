------------------------------- MODULE JobQueue -------------------------------
(***************************************************************************)
(* The repair job queue of the satellite (satellite/jobq), with the        *)
(* checker that fills it and the repairers that empty it.                  *)
(*                                                                         *)
(* A queue, one for each placement, is two min-max heaps under one mutex:  *)
(* the jobs to repair, by health, and the jobs to retry, by the time of    *)
(* the last attempt.  Each method is one action.  The heaps (a library)    *)
(* are sets from which the least or the greatest is taken; jobs that are   *)
(* equal in what the model keeps may come in any order.                    *)
(*                                                                         *)
(* Time is left out but for what it decides: a job was attempted less than *)
(* RetryAfter ago, or it was updated since the checker's pass began.       *)
(***************************************************************************)
EXTENDS Integers, FiniteSets

CONSTANTS
  Segments,
  Workers,       \* repair jobs a repairer runs at once
  Placements,
  Included,      \* placements the repairer asks for
  Configs,       \* the segments' placements and the MaxItems (0 for any number) to check
  Healths,       \* health of injured segments: the lower the worse
  MaxFaults      \* bound: failures, restarts and interventions

ASSUME JobQueueAssumption ==
  /\ IsFiniteSet(Segments)
  /\ Configs \subseteq [placement : [Segments -> Placements], maxItems : Nat]
  /\ Included \subseteq Placements
  /\ Healths \subseteq Nat
  /\ MaxFaults \in Nat

VARIABLES
  injury,    \* segment -> its health, or Healthy
  job,       \* segment -> its job in the queue of its placement, or NoJob
  held,      \* worker -> the job it popped, or NoJob
  checker,   \* the checker's pass: segments left to look at, queues left to clean
  buffer,    \* InsertBuffer: segment -> health seen, or Healthy
  updated,   \* segments whose job was updated since the pass began
  pushed,    \* history: segments the pass has pushed, and nobody has removed since
  config,    \* never changes
  faults

vars == <<injury, job, held, checker, buffer, updated, pushed, config, faults>>

Healthy == -1
placement == config.placement
maxItems == config.maxItems
NoJob == [in |-> "none"]

\* Where a job is: in the repair heap; in the retry heap, attempted less than RetryAfter
\* ago; in the retry heap, but ready to be retried.
Places == {"repair", "cooling", "ready"}
Jobs == [in : Places, health : Healths]
Held == [segment : Segments, health : Healths]

TypeOK ==
  /\ injury \in [Segments -> Healths \cup {Healthy}]
  /\ job \in [Segments -> Jobs \cup {NoJob}]
  /\ held \in [Workers -> Held \cup {NoJob}]
  /\ checker \in [todo : SUBSET Segments, toClean : SUBSET Placements]
  /\ buffer \in [Segments -> Healths \cup {Healthy}]
  /\ updated \subseteq Segments
  /\ pushed \subseteq Segments
  /\ config \in Configs
  /\ faults \in 0 .. MaxFaults

Idle == [todo |-> {}, toClean |-> {}]

Init ==
  /\ injury = [s \in Segments |-> Healthy]
  /\ job = [s \in Segments |-> NoJob]
  /\ held = [w \in Workers |-> NoJob]
  /\ checker = Idle
  /\ buffer = [s \in Segments |-> Healthy]
  /\ updated = {}
  /\ pushed = {}
  /\ config \in Configs
  /\ faults = 0

-----------------------------------------------------------------------------
(***************************************************************************)
(* Queue.                                                                  *)
(***************************************************************************)

pq(p) == {s \in Segments : placement[s] = p /\ job[s].in = "repair"}
rq(p) == {s \in Segments : placement[s] = p /\ job[s].in \in {"cooling", "ready"}}

\* Queue with processItemsReadyForRetry done for the placements ps.
Processed(ps) ==
  [s \in Segments |->
     IF job[s].in = "ready" /\ placement[s] \in ps
     THEN [job[s] EXCEPT !.in = "repair"]
     ELSE job[s]]

\* Mutant of Full: one job too many.
FullLate(p) == maxItems # 0 /\ Cardinality(pq(p) \cup rq(p)) > maxItems

Full(p) == maxItems # 0 /\ Cardinality(pq(p) \cup rq(p)) >= maxItems

\* What minmaxheap.PopMax may take from the longer of the two heaps.
Evictable(p) ==
  IF Cardinality(rq(p)) > Cardinality(pq(p))
  THEN {s \in rq(p) : job[s].in = "cooling" \/ \A o \in rq(p) : job[o].in = "ready"}
  ELSE {s \in pq(p) : \A o \in pq(p) : job[o].health <= job[s].health}

\* The heap Insert puts a job in, whether it was in one before or not.
Target(s, attempted) == IF attempted THEN "cooling" ELSE "repair"

\* Mutant of Touched: UpdatedAt is only set when the job is new.
TouchedNew(s) == IF checker = Idle \/ job[s] # NoJob THEN updated ELSE updated \cup {s}

\* UpdatedAt, as the pass sees it.
Touched(s) == IF checker = Idle THEN updated ELSE updated \cup {s}

\* Insert makes room in the queue for a new job: one job at most has to go.
Insert(s, health, attempted) ==
  LET evicted == IF job[s] = NoJob /\ Full(placement[s])
                 THEN {{e} : e \in Evictable(placement[s])}
                 ELSE {{}}
  IN
  \E gone \in evicted :
    /\ job' = [o \in Segments |->
         IF o = s THEN [in |-> Target(s, attempted), health |-> health]
         ELSE IF o \in gone THEN NoJob ELSE job[o]]
    /\ updated' = Touched(s) \ gone
    \* only the pass inserts jobs it knows no attempt of
    /\ pushed' = IF attempted THEN pushed \ gone ELSE (pushed \ gone) \cup {s}

\* Mutant of NextQueue: a queue must be ahead of every queue, itself included.
NextQueueStrict(p) ==
  \E h \in pq(p) : \A q \in Included : \A o \in pq(q) : job[h].health < job[o].health

\* PopNMultipleQueues looks for the queue with the worst job in the repair heaps; only
\* then are the jobs of that queue looked at that are ready for retry.
NextQueue(p) ==
  \E h \in pq(p) : \A q \in Included : \A o \in pq(q) : job[h].health <= job[o].health

Pop(w, s) ==
  LET p == placement[s]
      ready == Processed({p})
  IN
  /\ held[w] = NoJob
  /\ p \in Included
  /\ NextQueue(p)
  /\ ready[s].in = "repair"
  /\ \A o \in Segments : placement[o] = p /\ ready[o].in = "repair" => ready[s].health <= ready[o].health
  /\ job' = [ready EXCEPT ![s] = NoJob]
  /\ held' = [held EXCEPT ![w] = [segment |-> s, health |-> job[s].health]]
  /\ updated' = updated \ {s}
  /\ pushed' = pushed \ {s}
  /\ UNCHANGED <<injury, checker, buffer, config, faults>>

\* Peek, PeekRetry and Inspect move the jobs that are ready.
Peek(p) ==
  /\ Processed({p}) # job
  /\ job' = Processed({p})
  /\ UNCHANGED <<injury, held, checker, buffer, updated, pushed, config, faults>>

Fault == faults < MaxFaults /\ faults' = faults + 1

Dropped(ss) ==
  /\ job' = [s \in Segments |-> IF s \in ss THEN NoJob ELSE job[s]]
  /\ updated' = updated \ ss
  /\ pushed' = pushed \ ss
  /\ UNCHANGED <<injury, held, checker, buffer, config>>

\* Delete, Trim and Truncate, for operators.
Delete(s) ==
  /\ Fault
  /\ job[s] # NoJob
  /\ Dropped({s})

Trim(p, health) ==
  /\ Fault
  /\ Dropped({s \in pq(p) \cup rq(p) : job[s].health > health})

Truncate(p) ==
  /\ Fault
  /\ Dropped(pq(p) \cup rq(p))

\* The server keeps the queues in memory only.
ServerRestart ==
  /\ Fault
  /\ Dropped(Segments)

-----------------------------------------------------------------------------
(***************************************************************************)
(* The checker: a pass over all segments.                                  *)
(***************************************************************************)

StartPass ==
  /\ checker = Idle
  /\ checker' = [todo |-> Segments, toClean |-> Placements]
  /\ UNCHANGED <<injury, job, held, buffer, updated, pushed, config, faults>>

CheckSegment(s) ==
  /\ s \in checker.todo
  /\ checker' = [checker EXCEPT !.todo = @ \ {s}]
  /\ buffer' = [buffer EXCEPT ![s] = injury[s]]
  /\ UNCHANGED <<injury, job, held, updated, pushed, config, faults>>

\* Mutant of Flush: segments that are not injured are pushed too.
FlushAny(s) ==
  /\ checker # Idle
  /\ s \notin checker.todo
  /\ Insert(s, buffer[s], FALSE)
  /\ buffer' = [buffer EXCEPT ![s] = Healthy]
  /\ UNCHANGED <<injury, held, checker, config, faults>>

\* One job of a batch.  The checker does not say when it was last attempted.
Flush(s) ==
  /\ buffer[s] # Healthy
  /\ Insert(s, buffer[s], FALSE)
  /\ buffer' = [buffer EXCEPT ![s] = Healthy]
  /\ UNCHANGED <<injury, held, checker, config, faults>>

\* The queue has the job and the reply is lost: the batch stays in the buffer, also when it
\* was full and the fork only logs the error, and is sent again.
FlushUnanswered(s) ==
  /\ Fault
  /\ buffer[s] # Healthy
  /\ Insert(s, buffer[s], FALSE)
  /\ UNCHANGED <<injury, held, checker, buffer, config>>

EndPass ==
  /\ checker' = Idle
  /\ updated' = {}
  /\ pushed' = {}

\* Finish cleans one queue after the other, once every fork has flushed and joined.
Clean(p) ==
  /\ checker.todo = {} /\ \A s \in Segments : buffer[s] = Healthy
  /\ p \in checker.toClean
  /\ job' = [s \in Segments |-> IF placement[s] = p /\ s \notin updated THEN NoJob ELSE job[s]]
  /\ IF checker.toClean = {p}
     THEN EndPass
     ELSE checker' = [checker EXCEPT !.toClean = @ \ {p}] /\ UNCHANGED <<updated, pushed>>
  /\ UNCHANGED <<injury, held, buffer, config, faults>>

\* A batch cannot be pushed when the fork is joined, or the satellite stops: the pass
\* ends, and nothing more is cleaned.
PassFails ==
  /\ Fault
  /\ checker # Idle
  /\ EndPass
  /\ buffer' = [s \in Segments |-> Healthy]
  /\ UNCHANGED <<injury, job, held, config>>

-----------------------------------------------------------------------------
(***************************************************************************)
(* The repairer.                                                           *)
(***************************************************************************)

\* The segment is repaired, was repaired before, or is gone: Release does nothing.
Repaired(w) ==
  /\ held[w] # NoJob
  /\ injury' = [injury EXCEPT ![held[w].segment] = Healthy]
  /\ held' = [held EXCEPT ![w] = NoJob]
  /\ UNCHANGED <<job, checker, buffer, updated, pushed, config, faults>>

\* Release puts the job back with the health it was popped with.
RepairFails(w) ==
  /\ held[w] # NoJob
  /\ Insert(held[w].segment, held[w].health, TRUE)
  /\ held' = [held EXCEPT ![w] = NoJob]
  /\ UNCHANGED <<injury, checker, buffer, config, faults>>

\* The repairer stops, or cannot reach the queue to put the job back.
JobLost(w) ==
  /\ Fault
  /\ held[w] # NoJob
  /\ held' = [held EXCEPT ![w] = NoJob]
  /\ UNCHANGED <<injury, job, checker, buffer, updated, pushed, config>>

-----------------------------------------------------------------------------

\* Nodes fail, come back, or the segment is deleted.
Injure(s, health) ==
  /\ injury[s] # health
  /\ injury' = [injury EXCEPT ![s] = health]
  /\ UNCHANGED <<job, held, checker, buffer, updated, pushed, config, faults>>

\* RetryAfter has passed.
Cool(s) ==
  /\ job[s].in = "cooling"
  /\ job' = [job EXCEPT ![s].in = "ready"]
  /\ UNCHANGED <<injury, held, checker, buffer, updated, pushed, config, faults>>

Operate ==
  \/ \E s \in Segments : Delete(s)
  \/ \E p \in Placements, health \in Healths : Trim(p, health)
  \/ \E p \in Placements : Truncate(p) \/ Peek(p)
  \/ ServerRestart

Check ==
  \/ StartPass
  \/ \E s \in Segments : CheckSegment(s)
  \/ \E s \in Segments : Flush(s)
  \/ \E p \in Placements : Clean(p)

Repair(w) == Repaired(w) \/ RepairFails(w)

Next ==
  \/ Operate
  \/ Check
  \/ PassFails \/ \E s \in Segments : FlushUnanswered(s)
  \/ \E w \in Workers : \E s \in Segments : Pop(w, s)
  \/ \E w \in Workers : Repair(w) \/ JobLost(w)
  \/ \E s \in Segments, health \in Healths \cup {Healthy} : Injure(s, health)
  \/ \E s \in Segments : Cool(s)

Spec == Init /\ [][Next]_vars

\* The segment loop runs again and again, a worker asks for a job when it is free
\* and gives up a repair after TotalTimeout.
FairSpec ==
  /\ Spec
  /\ WF_vars(Check)
  /\ \A w \in Workers : WF_vars(\E s \in Segments : Pop(w, s)) /\ WF_vars(Repair(w))

-----------------------------------------------------------------------------
(***************************************************************************)
(* Properties.                                                             *)
(***************************************************************************)

\* A queue never holds more than maxItems jobs, although jobs move between its two
\* heaps without a look at the limit.
Bounded ==
  maxItems # 0 => \A p \in Placements : Cardinality(pq(p) \cup rq(p)) <= maxItems

\* What the pass has pushed stays queued until a repairer, an eviction or an operator
\* takes it: the pass that ends never cleans it away.
PushedQueued == \A s \in pushed : job[s] # NoJob

\* What the satellite believes of o: healths that are seen, queued or being repaired.
Known(o) ==
  {injury[o], buffer[o]}
  \cup (IF job[o] = NoJob THEN {} ELSE {job[o].health})
  \cup {held[w].health : w \in {v \in Workers : held[v] # NoJob /\ held[v].segment = o}}

Fits(s) ==
  maxItems = 0 \/ Cardinality({o \in Segments : placement[o] = placement[s]}) <= maxItems

\* s has this health, and no other segment is as bad or is still taken to be.
Worst(s, health) ==
  /\ placement[s] \in Included /\ Fits(s)
  /\ injury[s] = health
  /\ \A o \in Segments \ {s} : \A other \in Known(o) : other = Healthy \/ other > health

\* The segment that is the worst, and stays so, is taken by a repairer again and
\* again until it is repaired, unless its queue is too small, whatever passes, repairs
\* and servers fail on the way.
WorstTaken ==
  \A s \in Segments, health \in Healths :
    <>[]Worst(s, health) => []<>(\E w \in Workers : held[w] # NoJob /\ held[w].segment = s)

\* A job that failed waits for RetryAfter before it is back in the repair heap.
RetryWaits ==
  [][\A s \in Segments : job[s].in = "cooling" => job'[s].in # "repair"]_vars
=============================================================================
