---------------------------- MODULE JobQueueProofs ----------------------------
(***************************************************************************)
(* Proofs about JobQueue, for any segments, workers, placements and        *)
(* limits: a queue keeps to its limit, and a pass never cleans away what   *)
(* it has pushed.  The second needs to know that nothing is pushed but in  *)
(* a pass, which therefore must end with an empty buffer, and that a pass  *)
(* is not over before it has cleaned a queue.                              *)
(***************************************************************************)
EXTENDS JobQueue, FiniteSetTheorems, TLAPS

\* Segments are looked at before the first queue is cleaned, and nothing is buffered
\* but by a pass.
PassInv ==
  /\ checker.todo # {} => checker.toClean = Placements
  /\ checker = Idle => \A s \in Segments : buffer[s] = Healthy

\* What the pass pushed counts as updated by it.
PushedUpdated == pushed \subseteq updated

Inv == TypeOK /\ PassInv /\ PushedUpdated /\ PushedQueued /\ Bounded

-----------------------------------------------------------------------------
(***************************************************************************)
(* Jobs.                                                                   *)
(***************************************************************************)

\* A segment has a job in one of the places, or none, and a place in a queue.
LEMMA JobShape ==
  ASSUME TypeOK, NEW s \in Segments
  PROVE  /\ job[s] = NoJob \/ job[s] \in Jobs
         /\ job[s] \in Jobs => job[s] # NoJob /\ job[s].in \in Places /\ job[s].health \in Healths
         /\ job[s] = NoJob => job[s].in = "none"
         /\ placement[s] \in Placements
<1>1. job[s] = NoJob \/ job[s] \in Jobs
  BY DEF TypeOK
<1>2. job[s] \in Jobs => job[s] # NoJob /\ job[s].in \in Places /\ job[s].health \in Healths
  BY DEF Jobs, Places, NoJob
<1>3. placement[s] \in Placements
  BY JobQueueAssumption DEF TypeOK, placement
<1> QED BY <1>1, <1>2, <1>3 DEF NoJob

\* The jobs of a queue are those of its two heaps.
Queued(p) == {s \in Segments : placement[s] = p /\ job[s] # NoJob}
QueuedNext(p) == {s \in Segments : placement[s] = p /\ job'[s] # NoJob}

LEMMA Heaps ==
  ASSUME TypeOK
  PROVE  \A p : pq(p) \cup rq(p) = Queued(p)
  BY JobShape DEF pq, rq, Queued, Places

\* A queue is finite, and what is part of it is not larger.
LEMMA QueueSize ==
  /\ \A p : IsFiniteSet(Queued(p)) /\ Cardinality(Queued(p)) \in Nat
  /\ \A p : QueuedNext(p) \subseteq Queued(p) => Cardinality(QueuedNext(p)) <= Cardinality(Queued(p))
<1>1. \A p : IsFiniteSet(Queued(p)) /\ IsFiniteSet(QueuedNext(p))
  BY FS_Subset, JobQueueAssumption DEF Queued, QueuedNext
<1> QED BY <1>1, FS_Subset, FS_CardinalityType

\* Moving jobs that are ready does not lose or add any.
LEMMA ProcessedShape ==
  ASSUME TypeOK, NEW ps
  PROVE  /\ Processed(ps) \in [Segments -> Jobs \cup {NoJob}]
         /\ \A s \in Segments : Processed(ps)[s] = NoJob <=> job[s] = NoJob
<1>1. ASSUME NEW s \in Segments, job[s].in = "ready"
      PROVE  [job[s] EXCEPT !.in = "repair"] \in Jobs
  <2>1. job[s] \in Jobs
    BY <1>1, JobShape
  <2>2. \A h \in Jobs : [h EXCEPT !.in = "repair"] \in Jobs
    BY DEF Jobs, Places
  <2> QED BY <2>1, <2>2
<1>2. ASSUME NEW s \in Segments
      PROVE  /\ Processed(ps)[s] \in Jobs \cup {NoJob}
             /\ Processed(ps)[s] = NoJob <=> job[s] = NoJob
  <2>1. CASE job[s].in = "ready" /\ placement[s] \in ps
    <3>1. Processed(ps)[s] \in Jobs
      BY <1>1, <2>1 DEF Processed
    <3>2. job[s] # NoJob
      BY <2>1 DEF NoJob
    <3>3. \A h \in Jobs : h # NoJob
      BY DEF Jobs, NoJob, Places
    <3> QED BY <3>1, <3>2, <3>3
  <2>2. CASE ~(job[s].in = "ready" /\ placement[s] \in ps)
    BY <2>2, JobShape DEF Processed
  <2> QED BY <2>1, <2>2
<1> QED BY <1>2 DEF Processed

\* A job that is inserted is there, in place of another one if there was no room.
LEMMA Inserted ==
  ASSUME TypeOK, NEW s \in Segments, NEW health \in Healths, NEW attempted \in BOOLEAN,
         Insert(s, health, attempted)
  PROVE  \E gone \in SUBSET Queued(placement[s]) :
           /\ s \notin gone
           /\ job[s] = NoJob /\ Full(placement[s]) => gone # {}
           /\ job' \in [Segments -> Jobs \cup {NoJob}]
           /\ job'[s] # NoJob
           /\ \A o \in Segments : o # s => job'[o] = IF o \in gone THEN NoJob ELSE job[o]
           /\ updated' = Touched(s) \ gone
           /\ pushed' = IF attempted THEN pushed \ gone ELSE (pushed \ gone) \cup {s}
<1> DEFINE evicted == IF job[s] = NoJob /\ Full(placement[s])
                      THEN {{e} : e \in Evictable(placement[s])}
                      ELSE {{}}
           new == [in |-> Target(s, attempted), health |-> health]
<1>1. PICK gone \in evicted :
        /\ job' = [o \in Segments |-> IF o = s THEN new ELSE IF o \in gone THEN NoJob ELSE job[o]]
        /\ updated' = Touched(s) \ gone
        /\ pushed' = IF attempted THEN pushed \ gone ELSE (pushed \ gone) \cup {s}
  BY DEF Insert
<1>2. gone \in SUBSET Queued(placement[s])
  <2>1. Evictable(placement[s]) \subseteq pq(placement[s]) \cup rq(placement[s])
    BY DEF Evictable
  <2> QED BY <2>1, Heaps
<1>3. s \notin gone /\ (job[s] = NoJob /\ Full(placement[s]) => gone # {})
  BY <1>2 DEF Queued
<1>4. new \in Jobs /\ new # NoJob
  BY DEF Jobs, Target, Places, NoJob
<1>5. job' \in [Segments -> Jobs \cup {NoJob}]
  <2> HIDE DEF new
  <2> QED BY <1>1, <1>4, JobShape
<1>6. job'[s] # NoJob /\ \A o \in Segments : o # s => job'[o] = IF o \in gone THEN NoJob ELSE job[o]
  <2> HIDE DEF new
  <2> QED BY <1>1, <1>4
<1> HIDE DEF evicted, new
<1> QED BY <1>1, <1>2, <1>3, <1>5, <1>6

\* The queue keeps to its limit: a full one loses the job that makes room.
LEMMA InsertedBounded ==
  ASSUME TypeOK, Bounded, NEW s \in Segments, NEW health \in Healths, NEW attempted \in BOOLEAN,
         Insert(s, health, attempted), maxItems # 0, NEW p \in Placements
  PROVE  Cardinality(QueuedNext(p)) <= maxItems
<1>1. PICK gone \in SUBSET Queued(placement[s]) :
        /\ s \notin gone
        /\ job[s] = NoJob /\ Full(placement[s]) => gone # {}
        /\ job'[s] # NoJob
        /\ \A o \in Segments : o # s => job'[o] = IF o \in gone THEN NoJob ELSE job[o]
  BY Inserted
<1>2. Cardinality(Queued(p)) <= maxItems /\ IsFiniteSet(Queued(p)) /\ Cardinality(Queued(p)) \in Nat
      /\ maxItems \in Nat
  BY Heaps, QueueSize, JobQueueAssumption DEF Bounded, TypeOK, maxItems
<1>3. CASE p # placement[s] \/ job[s] # NoJob
  <2>1. QueuedNext(p) \subseteq Queued(p)
    BY <1>1, <1>3 DEF QueuedNext, Queued
  <2> QED BY <1>2, <2>1, FS_Subset, FS_CardinalityType
<1>4. CASE p = placement[s] /\ job[s] = NoJob
  <2>1. s \notin Queued(p) /\ QueuedNext(p) \subseteq (Queued(p) \ gone) \cup {s}
    BY <1>1, <1>4 DEF QueuedNext, Queued
  <2>2. CASE ~Full(p)
    <3>1. Cardinality(Queued(p)) < maxItems
      BY <1>2, <2>2, Heaps DEF Full
    <3>2. IsFiniteSet(Queued(p) \cup {s}) /\ Cardinality(Queued(p) \cup {s}) = Cardinality(Queued(p)) + 1
      BY <1>2, <2>1, FS_AddElement
    <3>3. Cardinality(QueuedNext(p)) <= Cardinality(Queued(p) \cup {s}) /\ Cardinality(QueuedNext(p)) \in Nat
      BY <2>1, <3>2, FS_Subset, FS_CardinalityType
    <3> QED BY <1>2, <3>1, <3>2, <3>3
  <2>3. CASE Full(p)
    <3>1. PICK e \in gone : e \in Queued(p)
      BY <1>1, <1>4, <2>3
    <3>2. IsFiniteSet(Queued(p) \ {e}) /\ Cardinality(Queued(p) \ {e}) = Cardinality(Queued(p)) - 1
      BY <1>2, <3>1, FS_RemoveElement
    <3>3. IsFiniteSet((Queued(p) \ {e}) \cup {s})
          /\ Cardinality((Queued(p) \ {e}) \cup {s}) = Cardinality(Queued(p) \ {e}) + 1
      BY <2>1, <3>2, FS_AddElement
    <3>4. QueuedNext(p) \subseteq (Queued(p) \ {e}) \cup {s}
      BY <2>1
    <3>5. Cardinality(QueuedNext(p)) <= Cardinality((Queued(p) \ {e}) \cup {s}) /\ Cardinality(QueuedNext(p)) \in Nat
      BY <3>3, <3>4, FS_Subset, FS_CardinalityType
    <3> QED BY <1>2, <3>2, <3>3, <3>5
  <2> QED BY <2>2, <2>3
<1> QED BY <1>3, <1>4

-----------------------------------------------------------------------------
(***************************************************************************)
(* Steps.                                                                  *)
(***************************************************************************)

\* The queues are empty to begin with.
LEMMA InitInv == Init => Inv
<1> SUFFICES ASSUME Init PROVE Inv
  OBVIOUS
<1> USE DEF Init
<1>1. TypeOK
  BY JobQueueAssumption DEF TypeOK, Idle
<1>2. PassInv /\ PushedUpdated /\ PushedQueued
  BY DEF PassInv, PushedUpdated, PushedQueued, Idle
<1>3. Bounded
  <2>1. \A p : pq(p) \cup rq(p) = {}
    BY DEF pq, rq, NoJob
  <2>2. maxItems \in Nat
    BY JobQueueAssumption DEF maxItems
  <2> QED BY <2>1, <2>2, FS_EmptySet DEF Bounded
<1> QED BY <1>1, <1>2, <1>3 DEF Inv

\* A step that puts a job in a queue takes it from the buffer or from a worker; no other
\* step adds one.
LEMMA JobSteps ==
  ASSUME TypeOK, [Next]_vars
  PROVE  \/ \E s \in Segments, health \in Healths, attempted \in BOOLEAN : Insert(s, health, attempted)
         \/ /\ job' \in [Segments -> Jobs \cup {NoJob}]
            /\ \A s \in Segments : job'[s] # NoJob => job[s] # NoJob
<1> DEFINE Fewer == /\ job' \in [Segments -> Jobs \cup {NoJob}]
                    /\ \A s \in Segments : job'[s] # NoJob => job[s] # NoJob
<1>1. CASE job' = job
  BY <1>1 DEF TypeOK
<1>2. ASSUME NEW s \in Segments, Flush(s) \/ FlushUnanswered(s)
      PROVE  \E health \in Healths : Insert(s, health, FALSE)
  BY <1>2 DEF Flush, FlushUnanswered, TypeOK
<1>3. ASSUME NEW w \in Workers, RepairFails(w)
      PROVE  \E s \in Segments, health \in Healths : Insert(s, health, TRUE)
  BY <1>3 DEF RepairFails, TypeOK, Held
<1>4. ASSUME NEW ss, Dropped(ss) PROVE Fewer
  BY <1>4 DEF Dropped, TypeOK
<1>5. ASSUME NEW p \in Placements, Clean(p) PROVE Fewer
  BY <1>5 DEF Clean, TypeOK
<1>6. ASSUME NEW p \in Placements, Peek(p) PROVE Fewer
  BY <1>6, ProcessedShape DEF Peek
<1>7. ASSUME NEW w \in Workers, NEW s \in Segments, Pop(w, s) PROVE Fewer
  <2>1. job' = [Processed({placement[s]}) EXCEPT ![s] = NoJob]
    BY <1>7 DEF Pop
  <2> QED BY <2>1, ProcessedShape
<1>8. ASSUME NEW s \in Segments, Cool(s) PROVE Fewer
  <2>1. job[s] \in Jobs
    BY <1>8, JobShape DEF Cool
  <2>2. [job[s] EXCEPT !.in = "ready"] \in Jobs
    BY <2>1 DEF Jobs, Places
  <2>3. job' = [job EXCEPT ![s] = [job[s] EXCEPT !.in = "ready"]]
    BY <1>8, JobShape DEF Cool, TypeOK
  <2> QED BY <2>1, <2>2, <2>3, JobShape DEF TypeOK
<1>9. CASE Operate
  BY <1>4, <1>6, <1>9 DEF Operate, Delete, Trim, Truncate, ServerRestart
<1>10. CASE Check
  BY <1>1, <1>2, <1>5, <1>10 DEF Check, StartPass, CheckSegment
<1>11. CASE PassFails
  BY <1>1, <1>11 DEF PassFails
<1>12. ASSUME NEW w \in Workers, Repair(w) \/ JobLost(w)
       PROVE  job' = job \/ \E s \in Segments, health \in Healths : Insert(s, health, TRUE)
  BY <1>3, <1>12 DEF Repair, Repaired, JobLost
<1>13. ASSUME NEW s \in Segments, NEW health, Injure(s, health) PROVE job' = job
  BY <1>13 DEF Injure
<1> QED BY <1>1, <1>2, <1>7, <1>8, <1>9, <1>10, <1>11, <1>12, <1>13 DEF Next, vars

\* The placements and the limits never change.
LEMMA ConfigFixed ==
  ASSUME [Next]_vars
  PROVE  config' = config
<1>1. CASE Operate \/ Check \/ PassFails \/ \E s \in Segments : FlushUnanswered(s)
  BY <1>1 DEF Operate, Delete, Trim, Truncate, ServerRestart, Dropped, Peek,
              Check, StartPass, CheckSegment, Flush, FlushUnanswered, Clean, PassFails
<1>2. ASSUME NEW w \in Workers, Repair(w) \/ JobLost(w) \/ \E s \in Segments : Pop(w, s)
      PROVE  config' = config
  BY <1>2 DEF Repair, Repaired, RepairFails, JobLost, Pop
<1> QED BY <1>1, <1>2 DEF Next, vars, Injure, Cool

\* Every step keeps the limit.
LEMMA NextBounded ==
  ASSUME TypeOK, Bounded, [Next]_vars, TypeOK'
  PROVE  Bounded'
<1>1. \A p : (pq(p) \cup rq(p))' = QueuedNext(p)
  <2>1. \A p : (pq(p) \cup rq(p))' = {s \in Segments : placement'[s] = p /\ job'[s] # NoJob}
    <3>1. \A s \in Segments : job'[s] = NoJob \/ job'[s] \in Jobs
      BY DEF TypeOK
    <3>2. \A h \in Jobs : h.in \in Places /\ h # NoJob
      BY DEF Jobs, NoJob, Places
    <3> QED BY <3>1, <3>2 DEF pq, rq, Places, NoJob
  <2> QED BY <2>1, ConfigFixed DEF QueuedNext, placement
<1>2. maxItems' = maxItems
  BY ConfigFixed DEF maxItems
<1> SUFFICES ASSUME maxItems # 0, NEW p \in Placements
             PROVE  Cardinality(QueuedNext(p)) <= maxItems
  BY <1>1, <1>2 DEF Bounded
<1>3. CASE \E s \in Segments, health \in Healths, attempted \in BOOLEAN : Insert(s, health, attempted)
  BY <1>3, InsertedBounded
<1>4. CASE \A s \in Segments : job'[s] # NoJob => job[s] # NoJob
  <2>1. QueuedNext(p) \subseteq Queued(p)
    BY <1>4 DEF QueuedNext, Queued
  <2>2. IsFiniteSet(Queued(p)) /\ Cardinality(Queued(p)) <= maxItems /\ maxItems \in Nat
    BY QueueSize, Heaps, JobQueueAssumption DEF Bounded, TypeOK, maxItems
  <2> QED BY <2>1, <2>2, FS_Subset, FS_CardinalityType
<1> QED BY <1>3, <1>4, JobSteps

\* Every step keeps the types.
LEMMA NextTypes ==
  ASSUME TypeOK, [Next]_vars
  PROVE  TypeOK'
<1>1. job' \in [Segments -> Jobs \cup {NoJob}]
  BY JobSteps, Inserted
<1>2. config' \in Configs
  BY ConfigFixed DEF TypeOK
<1>3. injury' \in [Segments -> Healths \cup {Healthy}] /\ faults' \in 0 .. MaxFaults
  <2>1. ASSUME NEW s \in Segments, NEW health \in Healths \cup {Healthy}, Injure(s, health)
        PROVE  injury' \in [Segments -> Healths \cup {Healthy}] /\ faults' = faults
    BY <2>1 DEF Injure, TypeOK
  <2>2. ASSUME NEW w \in Workers, Repair(w)
        PROVE  injury' \in [Segments -> Healths \cup {Healthy}] /\ faults' = faults
    BY <2>2 DEF Repair, Repaired, RepairFails, TypeOK
  <2>3. ASSUME NEW w \in Workers, JobLost(w) \/ \E s \in Segments : Pop(w, s)
        PROVE  injury' = injury /\ (faults' = faults \/ Fault)
    BY <2>3 DEF JobLost, Pop
  <2>4. CASE Operate \/ Check \/ PassFails \/ \E s \in Segments : FlushUnanswered(s)
    <3>1. injury' = injury /\ (faults' = faults \/ Fault)
      BY <2>4 DEF Operate, Delete, Trim, Truncate, ServerRestart, Dropped, Peek,
                  Check, StartPass, CheckSegment, Flush, FlushUnanswered, Clean, PassFails
    <3> QED BY <3>1, JobQueueAssumption DEF Fault, TypeOK
  <2>5. CASE (\E s \in Segments : Cool(s)) \/ UNCHANGED vars
    BY <2>5 DEF Cool, vars, TypeOK
  <2> QED BY <2>1, <2>2, <2>3, <2>4, <2>5, JobQueueAssumption DEF Next, Fault, TypeOK
<1>4. held' \in [Workers -> Held \cup {NoJob}]
  <2>1. ASSUME NEW w \in Workers, Repair(w) \/ JobLost(w) PROVE held' \in [Workers -> Held \cup {NoJob}]
    BY <2>1 DEF Repair, Repaired, RepairFails, JobLost, TypeOK
  <2>2. ASSUME NEW w \in Workers, NEW s \in Segments, Pop(w, s) PROVE held' \in [Workers -> Held \cup {NoJob}]
    <3>1. job[s] \in Jobs
      <4>1. Processed({placement[s]})[s] # NoJob
        BY <2>2 DEF Pop, NoJob
      <4> QED BY <4>1, ProcessedShape, JobShape
    <3>2. [segment |-> s, health |-> job[s].health] \in Held
      BY <3>1, JobShape DEF Held
    <3> QED BY <2>2, <3>2 DEF Pop, TypeOK
  <2>3. CASE Operate \/ Check \/ PassFails \/ \E s \in Segments : FlushUnanswered(s)
    BY <2>3 DEF Operate, Delete, Trim, Truncate, ServerRestart, Dropped, Peek,
                Check, StartPass, CheckSegment, Flush, FlushUnanswered, Clean, PassFails, TypeOK
  <2> QED BY <2>1, <2>2, <2>3 DEF Next, vars, Injure, Cool, TypeOK
<1>5. checker' \in [todo : SUBSET Segments, toClean : SUBSET Placements]
      /\ buffer' \in [Segments -> Healths \cup {Healthy}]
  <2>1. CASE UNCHANGED checker /\ UNCHANGED buffer
    BY <2>1 DEF TypeOK
  <2>2. Idle \in [todo : SUBSET Segments, toClean : SUBSET Placements]
    BY DEF Idle
  <2>3. CASE Check
    <3>1. CASE StartPass
      BY <3>1 DEF StartPass, TypeOK
    <3>2. ASSUME NEW s \in Segments, CheckSegment(s) \/ Flush(s)
          PROVE  checker' \in [todo : SUBSET Segments, toClean : SUBSET Placements]
                 /\ buffer' \in [Segments -> Healths \cup {Healthy}]
      BY <3>2 DEF CheckSegment, Flush, TypeOK
    <3>3. ASSUME NEW p \in Placements, Clean(p)
          PROVE  checker' \in [todo : SUBSET Segments, toClean : SUBSET Placements] /\ buffer' = buffer
      BY <2>2, <3>3 DEF Clean, EndPass, TypeOK
    <3> QED BY <2>3, <3>1, <3>2, <3>3 DEF Check, TypeOK
  <2>4. CASE PassFails
    BY <2>2, <2>4 DEF PassFails, EndPass
  <2>5. CASE Operate
    BY <2>1, <2>5 DEF Operate, Delete, Trim, Truncate, ServerRestart, Dropped, Peek
  <2>6. ASSUME NEW w \in Workers, Repair(w) \/ JobLost(w) \/ \E s \in Segments : Pop(w, s)
        PROVE  UNCHANGED checker /\ UNCHANGED buffer
    BY <2>6 DEF Repair, Repaired, RepairFails, JobLost, Pop
  <2>7. ASSUME NEW s \in Segments, FlushUnanswered(s)
        PROVE  UNCHANGED checker /\ UNCHANGED buffer
    BY <2>7 DEF FlushUnanswered
  <2> QED BY <2>1, <2>3, <2>4, <2>5, <2>6, <2>7 DEF Next, vars, Injure, Cool
<1>6. updated' \subseteq Segments /\ pushed' \subseteq Segments
  <2>1. CASE \E s \in Segments, health \in Healths, attempted \in BOOLEAN : Insert(s, health, attempted)
    BY <2>1 DEF Insert, Touched, TypeOK
  <2>2. ASSUME NEW w \in Workers, NEW s \in Segments, Pop(w, s)
        PROVE  updated' \subseteq Segments /\ pushed' \subseteq Segments
    BY <2>2 DEF Pop, TypeOK
  <2>3. CASE Operate
    BY <2>3 DEF Operate, Delete, Trim, Truncate, ServerRestart, Dropped, Peek, TypeOK
  <2>4. CASE Check
    <3>1. ASSUME NEW s \in Segments, Flush(s)
          PROVE  \E health \in Healths : Insert(s, health, FALSE)
      BY <3>1 DEF Flush, TypeOK
    <3> QED BY <2>1, <2>4, <3>1 DEF Check, StartPass, CheckSegment, Clean, EndPass, TypeOK
  <2>5. CASE PassFails
    BY <2>5 DEF PassFails, EndPass
  <2>6. ASSUME NEW w \in Workers, Repair(w) \/ JobLost(w)
        PROVE  updated' \subseteq Segments /\ pushed' \subseteq Segments
    <3>1. ASSUME RepairFails(w) PROVE \E s \in Segments, health \in Healths : Insert(s, health, TRUE)
      BY <3>1 DEF RepairFails, TypeOK, Held
    <3> QED BY <2>1, <2>6, <3>1 DEF Repair, Repaired, JobLost, TypeOK
  <2>7. ASSUME NEW s \in Segments, FlushUnanswered(s)
        PROVE  \E health \in Healths : Insert(s, health, FALSE)
    BY <2>7 DEF FlushUnanswered, TypeOK
  <2> QED BY <2>1, <2>2, <2>3, <2>4, <2>5, <2>6, <2>7 DEF Next, vars, Injure, Cool, TypeOK
<1> QED BY <1>1, <1>2, <1>3, <1>4, <1>5, <1>6 DEF TypeOK

\* Every step keeps PassInv: a pass with segments left to look at has all queues left to
\* clean, so that it is not over when the last segment is looked at.
LEMMA NextPassInv ==
  ASSUME TypeOK, PassInv, [Next]_vars
  PROVE  PassInv'
<1>1. CASE UNCHANGED checker /\ UNCHANGED buffer
  BY <1>1 DEF PassInv
<1>2. CASE checker' = Idle /\ \A s \in Segments : buffer'[s] = Healthy
  BY <1>2 DEF PassInv, Idle
<1>3. CASE StartPass
  BY <1>1, <1>3 DEF StartPass, PassInv
<1>4. ASSUME NEW s \in Segments, CheckSegment(s) PROVE PassInv'
  <2>1. checker'.toClean = Placements
    BY <1>4 DEF CheckSegment, PassInv, TypeOK
  <2>2. Placements # {}
    BY JobShape
  <2> QED BY <2>1, <2>2 DEF PassInv, Idle
<1>5. ASSUME NEW s \in Segments, Flush(s) PROVE PassInv'
  <2>1. checker # Idle /\ checker' = checker
    BY <1>5 DEF Flush, PassInv
  <2> QED BY <2>1 DEF PassInv
<1>6. ASSUME NEW p \in Placements, Clean(p) PROVE PassInv'
  <2>1. checker.todo = {} /\ buffer' = buffer /\ \A s \in Segments : buffer[s] = Healthy
    BY <1>6 DEF Clean
  <2>2. checker'.todo = {}
    BY <1>6, <2>1 DEF Clean, EndPass, Idle, TypeOK
  <2> QED BY <2>1, <2>2 DEF PassInv
<1>7. CASE PassFails
  BY <1>2, <1>7 DEF PassFails, EndPass
<1>8. CASE Operate
  BY <1>1, <1>8 DEF Operate, Delete, Trim, Truncate, ServerRestart, Dropped, Peek
<1>9. ASSUME NEW w \in Workers, Repair(w) \/ JobLost(w) \/ \E s \in Segments : Pop(w, s)
      PROVE  UNCHANGED checker /\ UNCHANGED buffer
  BY <1>9 DEF Repair, Repaired, RepairFails, JobLost, Pop
<1>10. ASSUME NEW s \in Segments, FlushUnanswered(s) PROVE UNCHANGED checker /\ UNCHANGED buffer
  BY <1>10 DEF FlushUnanswered
<1> QED BY <1>1, <1>3, <1>4, <1>5, <1>6, <1>7, <1>8, <1>9, <1>10 DEF Next, Check, vars, Injure, Cool

\* Every step keeps what is pushed among what is updated, and both in the queue: what is
\* cleaned was not updated, and what is updated in a pass is remembered by it.
LEMMA NextPushed ==
  ASSUME TypeOK, PassInv, PushedUpdated, PushedQueued, [Next]_vars
  PROVE  PushedUpdated' /\ PushedQueued'
<1>0. pushed \subseteq Segments
  BY DEF TypeOK
<1>1. CASE UNCHANGED <<job, updated, pushed>>
  BY <1>1 DEF PushedUpdated, PushedQueued
<1>2. ASSUME NEW s \in Segments, NEW health \in Healths, NEW attempted \in BOOLEAN,
             Insert(s, health, attempted), attempted = TRUE \/ checker # Idle
      PROVE  PushedUpdated' /\ PushedQueued'
  <2>1. PICK gone \in SUBSET Queued(placement[s]) :
          /\ s \notin gone
          /\ job'[s] # NoJob
          /\ \A o \in Segments : o # s => job'[o] = IF o \in gone THEN NoJob ELSE job[o]
          /\ updated' = Touched(s) \ gone
          /\ pushed' = IF attempted THEN pushed \ gone ELSE (pushed \ gone) \cup {s}
    BY <1>2, Inserted
  <2>2. updated \subseteq Touched(s) /\ (checker # Idle => s \in Touched(s))
    BY DEF Touched
  <2>3. pushed' \subseteq updated'
    <3>1. CASE attempted = TRUE
      BY <2>1, <2>2, <3>1 DEF PushedUpdated
    <3>2. CASE attempted = FALSE
      BY <1>2, <2>1, <2>2, <3>2 DEF PushedUpdated
    <3> QED BY <3>1, <3>2
  <2>4. \A o \in pushed' : o = s \/ (o \in pushed /\ o \notin gone)
    BY <2>1
  <2>5. \A o \in pushed' : job'[o] # NoJob
    BY <1>0, <2>1, <2>4 DEF PushedQueued
  <2> QED BY <2>3, <2>5 DEF PushedUpdated, PushedQueued
<1>3. ASSUME NEW ss, Dropped(ss) PROVE PushedUpdated' /\ PushedQueued'
  BY <1>0, <1>3 DEF Dropped, PushedUpdated, PushedQueued
<1>4. ASSUME pushed' = {}, updated' = {} PROVE PushedUpdated' /\ PushedQueued'
  BY <1>4 DEF PushedUpdated, PushedQueued
<1>5. CASE StartPass \/ \E s \in Segments : CheckSegment(s)
  BY <1>1, <1>5 DEF StartPass, CheckSegment
<1>6. ASSUME NEW s \in Segments, Flush(s) \/ FlushUnanswered(s) PROVE PushedUpdated' /\ PushedQueued'
  <2>1. checker # Idle /\ Insert(s, buffer[s], FALSE) /\ buffer[s] \in Healths
    BY <1>6 DEF Flush, FlushUnanswered, PassInv, TypeOK
  <2> QED BY <1>2, <2>1
<1>7. ASSUME NEW p \in Placements, Clean(p) PROVE PushedUpdated' /\ PushedQueued'
  <2>1. CASE checker.toClean = {p}
    BY <1>4, <1>7, <2>1 DEF Clean, EndPass
  <2>2. CASE checker.toClean # {p}
    BY <1>0, <1>7, <2>2 DEF Clean, PushedUpdated, PushedQueued
  <2> QED BY <2>1, <2>2
<1>8. CASE PassFails
  BY <1>4, <1>8 DEF PassFails, EndPass
<1>9. ASSUME NEW p \in Placements, Peek(p) PROVE PushedUpdated' /\ PushedQueued'
  BY <1>0, <1>9, ProcessedShape DEF Peek, PushedUpdated, PushedQueued
<1>10. ASSUME NEW w \in Workers, NEW s \in Segments, Pop(w, s) PROVE PushedUpdated' /\ PushedQueued'
  <2>1. job' = [Processed({placement[s]}) EXCEPT ![s] = NoJob]
    BY <1>10 DEF Pop
  <2>2. \A o \in Segments : o # s /\ job[o] # NoJob => job'[o] # NoJob
    BY <2>1, ProcessedShape
  <2> QED BY <1>0, <1>10, <2>2 DEF Pop, PushedUpdated, PushedQueued
<1>11. ASSUME NEW s \in Segments, Cool(s) PROVE PushedUpdated' /\ PushedQueued'
  <2>1. job[s] \in Jobs
    BY <1>11, JobShape DEF Cool
  <2>2. [job[s] EXCEPT !.in = "ready"] # NoJob
    BY <2>1 DEF Jobs, NoJob
  <2>3. job' = [job EXCEPT ![s] = [job[s] EXCEPT !.in = "ready"]]
    BY <1>11, JobShape DEF Cool, TypeOK
  <2>4. \A o \in Segments : job[o] # NoJob => job'[o] # NoJob
    BY <2>2, <2>3 DEF TypeOK
  <2> QED BY <1>0, <1>11, <2>4 DEF Cool, PushedUpdated, PushedQueued
<1>12. ASSUME NEW w \in Workers, RepairFails(w) PROVE PushedUpdated' /\ PushedQueued'
  <2>1. held[w].segment \in Segments /\ held[w].health \in Healths
    BY <1>12 DEF RepairFails, TypeOK, Held
  <2> QED BY <1>2, <1>12, <2>1 DEF RepairFails
<1>13. ASSUME NEW w \in Workers, Repaired(w) \/ JobLost(w) PROVE PushedUpdated' /\ PushedQueued'
  BY <1>1, <1>13 DEF Repaired, JobLost
<1>14. CASE Operate
  BY <1>3, <1>9, <1>14 DEF Operate, Delete, Trim, Truncate, ServerRestart
<1>15. ASSUME NEW s \in Segments, NEW health, Injure(s, health) PROVE PushedUpdated' /\ PushedQueued'
  BY <1>1, <1>15 DEF Injure
<1> QED BY <1>1, <1>5, <1>6, <1>7, <1>8, <1>10, <1>11, <1>12, <1>13, <1>14, <1>15
        DEF Next, Check, Repair, vars

\* Every step keeps the invariant.
LEMMA NextInv == Inv /\ [Next]_vars => Inv'
<1> SUFFICES ASSUME Inv, [Next]_vars PROVE Inv'
  OBVIOUS
<1> USE DEF Inv
<1>1. TypeOK'
  BY NextTypes
<1>2. PassInv' /\ PushedUpdated' /\ PushedQueued'
  BY NextPassInv, NextPushed
<1>3. Bounded'
  BY <1>1, NextBounded
<1> QED BY <1>1, <1>2, <1>3

-----------------------------------------------------------------------------
(***************************************************************************)
(* The theorems.                                                           *)
(***************************************************************************)

\* In every reachable state the inductive invariant holds.
THEOREM Invariance == Spec => []Inv
BY InitInv, NextInv, PTL DEF Spec

\* Jobs, the pass and the buffer have their types.
THEOREM TypeCorrect == Spec => []TypeOK
<1>1. Inv => TypeOK
  BY DEF Inv
<1> QED BY <1>1, Invariance, PTL

\* A queue never holds more than MaxItems jobs, although jobs move between its heaps
\* without a look at the limit and a job that failed is put back.
THEOREM BoundedHolds == Spec => []Bounded
<1>1. Inv => Bounded
  BY DEF Inv
<1> QED BY <1>1, Invariance, PTL

\* A pass that ends never cleans away a job that it has pushed.
THEOREM PushedQueuedHolds == Spec => []PushedQueued
<1>1. Inv => PushedQueued
  BY DEF Inv
<1> QED BY <1>1, Invariance, PTL
=============================================================================
