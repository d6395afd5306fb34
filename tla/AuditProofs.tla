----------------------------- MODULE AuditProofs -----------------------------
(***************************************************************************)
(* Proofs about audits, reverifications and repairs: nobody is blamed for  *)
(* a piece that it did not lose, and an audit takes only lost pieces off a *)
(* segment, for any nodes, segments, workers and limits.                   *)
(*                                                                         *)
(* Why nobody is blamed without reason.  An audit asks the nodes about a   *)
(* row it read before, and a node without the piece may have dropped it    *)
(* rightly.  The comparison of the row afterwards excludes that: a row     *)
(* never lists a node of Nodes again that it has lost, so that a row that  *)
(* is what it was has listed the node all the time, and what is listed is  *)
(* not collected (Listed, VerifyMissing, ReverifyMissing, RepairMissing).  *)
(*   Timeouts are counted with the row in the queue.  The row is there     *)
(* because of one, and while a worker has the row nobody else can take it  *)
(* away or begin it anew (Claims, Counted).                                *)
(***************************************************************************)
EXTENDS Audit, TLAPS

-----------------------------------------------------------------------------
(***************************************************************************)
(* The inductive invariant.                                                *)
(***************************************************************************)

\* A node keeps the piece a segment lists, or has lost it.
Listed ==
  \A s \in exists : \A n \in pieces[s] \cap Nodes : disk[<<n, s>>] \in {"stored", "lost"}

\* Who said it has no piece has none; once the row was compared, the piece is lost.
VerifyMissing ==
  verifier.pc \in {"check", "apply", "update"} =>
    /\ verifier.fails \subseteq verifier.old
    /\ \A n \in verifier.fails : disk[<<n, verifier.seg>>] # "stored"
    /\ verifier.pc # "check" => \A n \in verifier.fails : disk[<<n, verifier.seg>>] = "lost"

ReverifyMissing ==
  \A w \in Workers :
    /\ worker[w].pc \in {"get", "check"} => worker[w].job[1] \in worker[w].old
    /\ worker[w].pc = "check" => disk[worker[w].job] # "stored"
    /\ worker[w].pc \in {"failed", "apply", "update"} => disk[worker[w].job] = "lost"

RepairMissing ==
  repairer.pc \in {"check", "apply", "update"} =>
    /\ repairer.fails \subseteq repairer.old
    /\ \A n \in repairer.fails : disk[<<n, repairer.seg>>] # "stored"
    /\ repairer.pc # "check" => \A n \in repairer.fails : disk[<<n, repairer.seg>>] = "lost"

\* A row that a worker works on is in the queue and claimed, by this worker alone.
Claims ==
  \A w \in Workers : worker[w].pc # "idle" =>
    /\ worker[w].pc \notin {"look", "release"} => worker[w].job \in queued
    /\ worker[w].job \in queued => worker[w].job \in resting
    /\ \A v \in Workers \ {w} : worker[v].pc # "idle" => worker[v].job # worker[w].job

\* The pieces an audit may download are not in the queue.
Unqueued ==
  /\ verifier.pc = "identified" =>
       \A n \in (pieces[verifier.seg] \cap Nodes) \ verifier.skip : <<n, verifier.seg>> \notin queued
  /\ verifier.pc = "download" =>
       \A n \in (verifier.old \cap Nodes) \ verifier.skip : <<n, verifier.seg>> \notin queued
  /\ verifier.pc \in {"check", "apply", "update", "insert"} =>
       \A n \in verifier.pending : <<n, verifier.seg>> \notin queued

\* A piece is queued because it timed out, and the worker that gives it up has seen it
\* time out again.
Counted ==
  /\ \A p \in queued : slow[p] >= 1
  /\ verifier.pc \in {"check", "apply", "update", "insert"} =>
       \A n \in verifier.pending : slow[<<n, verifier.seg>>] >= 1
  /\ \A w \in Workers : worker[w].pc = "limit" => slow[worker[w].job] >= 2

Inv ==
  /\ TypeOK /\ Listed /\ VerifyMissing /\ ReverifyMissing /\ RepairMissing
  /\ Claims /\ Unqueued /\ Counted /\ NoFalseBlame

-----------------------------------------------------------------------------
(***************************************************************************)
(* Types.                                                                  *)
(***************************************************************************)

VerifierState ==
  [pc : {"idle", "identified", "download", "check", "apply", "update", "insert", "contain"},
   seg : Segments, skip : Holding, old : Holding,
   fails : SUBSET Nodes, pending : SUBSET Nodes]

WorkerState ==
  [pc : {"idle", "read", "get", "check", "failed", "apply", "update",
         "limit", "insert", "contain", "remove", "look", "release"},
   job : Locators, tries : 0 .. MaxReverify, old : Holding]

RepairerState ==
  [pc : {"idle", "download", "check", "apply", "update", "upload", "refused"},
   seg : Segments, old : Holding, fails : SUBSET Nodes, own : Holding]

ChoreState == [pc : {"idle", "write"}, nodes : SUBSET Nodes]

\* The parts of the type invariant, without the fields of the records.
LEMMA TypeParts ==
  TypeOK <=>
    /\ exists \subseteq Segments
    /\ pieces \in [Segments -> Holding]
    /\ disk \in [Locators -> {"none", "stored", "lost", "collected"}]
    /\ queued \subseteq Locators /\ resting \subseteq queued
    /\ count \in [Locators -> 0 .. MaxReverify]
    /\ contained \subseteq Nodes
    /\ verifier \in VerifierState
    /\ worker \in [Workers -> WorkerState]
    /\ chore \in ChoreState
    /\ repairer \in RepairerState
    /\ wronged \subseteq Locators
    /\ slow \in [Locators -> 0 .. 2]
    /\ faults \in 0 .. MaxFaults
BY DEF TypeOK, VerifierState, WorkerState, RepairerState, ChoreState

\* What is idle names some segment, or some piece.
LEMMA Idle ==
  /\ NoVerify \in VerifierState /\ NoWork \in WorkerState /\ NoRepair \in RepairerState
  /\ NoVerify.pc = "idle" /\ NoWork.pc = "idle" /\ NoRepair.pc = "idle"
<1>1. Locators # {}
  <2>1. PICK n \in Nodes, s \in Segments : TRUE
    BY AuditAssumption
  <2>2. <<n, s>> \in Locators
    BY <2>1 DEF Locators
  <2> QED BY <2>2
<1>2. (CHOOSE p \in Locators : TRUE) \in Locators
  BY <1>1
<1>3. (CHOOSE s \in Segments : TRUE) \in Segments
  BY AuditAssumption
<1>4. 0 \in 0 .. MaxReverify
  BY AuditAssumption
<1>5. {} \in Holding
  BY DEF Holding
<1> QED BY <1>2, <1>3, <1>4, <1>5 DEF NoVerify, NoWork, NoRepair, VerifierState, WorkerState, RepairerState

\* The state of a verifier, a repair or a worker is updated field by field.
LEMMA VerifierFields ==
  \A v \in VerifierState :
    /\ v.seg \in Segments /\ v.skip \in Holding /\ v.old \in Holding
    /\ v.fails \in SUBSET Nodes /\ v.pending \in SUBSET Nodes
BY DEF VerifierState

LEMMA WorkerFields ==
  \A v \in WorkerState :
    /\ v.job \in Locators /\ v.tries \in 0 .. MaxReverify /\ v.old \in Holding
    /\ v.job[1] \in Nodes /\ v.job[2] \in Segments /\ v.job = <<v.job[1], v.job[2]>>
BY DEF WorkerState, Locators

LEMMA RepairerFields ==
  \A v \in RepairerState :
    /\ v.seg \in Segments /\ v.old \in Holding /\ v.fails \in SUBSET Nodes /\ v.own \in Holding
BY DEF RepairerState

LEMMA InitInv == Init => Inv
<1> SUFFICES ASSUME Init PROVE Inv
  OBVIOUS
<1>1. TypeOK
  <2>1. pieces \in [Segments -> Holding]
    BY AuditAssumption DEF Init, Holding
  <2>2. disk \in [Locators -> {"none", "stored", "lost", "collected"}]
    BY DEF Init
  <2>3. /\ count \in [Locators -> 0 .. MaxReverify] /\ slow \in [Locators -> 0 .. 2]
        /\ faults \in 0 .. MaxFaults
    BY AuditAssumption DEF Init
  <2>4. /\ verifier \in VerifierState /\ repairer \in RepairerState
        /\ worker \in [Workers -> WorkerState]
    BY Idle DEF Init
  <2> QED BY <2>1, <2>2, <2>3, <2>4, TypeParts DEF Init, ChoreState
<1>2. Listed
  BY AuditAssumption DEF Init, Listed, Locators
<1>3. verifier.pc = "idle" /\ repairer.pc = "idle" /\ \A w \in Workers : worker[w].pc = "idle"
  BY Idle DEF Init
<1>4. VerifyMissing /\ ReverifyMissing /\ RepairMissing /\ Claims /\ Unqueued
  BY <1>3 DEF VerifyMissing, ReverifyMissing, RepairMissing, Claims, Unqueued
<1>5. Counted /\ NoFalseBlame
  BY <1>3 DEF Counted, NoFalseBlame, Init
<1> QED BY <1>1, <1>2, <1>4, <1>5 DEF Inv

-----------------------------------------------------------------------------
(***************************************************************************)
(* The row of a segment, and the disks.                                    *)
(***************************************************************************)

\* A segment does not come back, and its row never lists a node of Nodes again.
LEMMA PieceSteps ==
  ASSUME TypeOK, [Next]_vars
  PROVE  /\ exists' \subseteq exists
         /\ pieces' \in [Segments -> Holding]
         /\ \A s \in Segments : \A n \in Nodes : n \in pieces'[s] => n \in pieces[s]
<1> USE TypeParts
<1>1. ASSUME NEW s \in Segments, NEW old \in Holding, NEW new \in Holding,
             \A n \in Nodes : n \in new => n \in old, UpdateSegmentPieces(s, old, new)
      PROVE  /\ exists' \subseteq exists
             /\ pieces' \in [Segments -> Holding]
             /\ \A t \in Segments : \A n \in Nodes : n \in pieces'[t] => n \in pieces[t]
  BY <1>1 DEF UpdateSegmentPieces, Matches
<1>2. CASE UNCHANGED segmentVars
  BY <1>2 DEF segmentVars
<1>3. ASSUME NEW s \in Segments, DeleteSegment(s) \/ IdentifyContainedNodes(s) \/ RepairRead(s)
      PROVE  UNCHANGED segmentVars \/ (exists' \subseteq exists /\ pieces' = pieces)
  BY <1>3 DEF DeleteSegment, IdentifyContainedNodes, RepairRead
<1>4. ASSUME NEW p \in Locators, Lose(p) \/ Collect(p) \/ Interval(p)
      PROVE  UNCHANGED segmentVars
  BY <1>4 DEF Lose, Collect, Interval
<1>5. CASE DropFailed
  <2>1. /\ UpdateSegmentPieces(verifier.seg, verifier.old, verifier.old \ verifier.fails)
        /\ verifier.seg \in Segments /\ verifier.old \in Holding
    BY <1>5, VerifierFields DEF DropFailed
  <2>2. verifier.old \ verifier.fails \in Holding
    BY <2>1 DEF Holding
  <2> QED BY <1>1, <2>1, <2>2
<1>6. (Verify \/ VerifierStops) /\ ~DropFailed => UNCHANGED segmentVars
  BY DEF Verify, VerifyRead, DownloadShares, VerifyCheck, ApplyAudit, ApplyAuditFails,
         QueuePending, ContainPending, VerifierStops
<1>7. ASSUME NEW w \in Workers, DropPiece(w)
      PROVE  /\ exists' \subseteq exists
             /\ pieces' \in [Segments -> Holding]
             /\ \A t \in Segments : \A n \in Nodes : n \in pieces'[t] => n \in pieces[t]
  <2>1. /\ UpdateSegmentPieces(worker[w].job[2], worker[w].old, worker[w].old \ {worker[w].job[1]})
        /\ worker[w].job[2] \in Segments /\ worker[w].old \in Holding
    BY <1>7, WorkerFields DEF DropPiece
  <2>2. worker[w].old \ {worker[w].job[1]} \in Holding
    BY <2>1 DEF Holding
  <2> QED BY <1>1, <2>1, <2>2
<1>8. ASSUME NEW w \in Workers,
             Reverify(w) \/ WorkerStops(w) \/ \E p \in Locators : GetNextJob(w, p)
      PROVE  DropPiece(w) \/ UNCHANGED segmentVars
  BY <1>8 DEF Reverify, ReverifyRead, GetPiece, GetPieceOffline, ReverifyCheck, ReadFailed,
       ApplyFailure, ApplyFailureFails, Requeue, Contain, Remove, GetByNodeID, Release,
       WorkerStops, GetNextJob
<1>9. SyncRead \/ SyncWrite => UNCHANGED segmentVars
  BY DEF SyncRead, SyncWrite
<1>10. CASE RepairReport
  <2>1. /\ UpdateSegmentPieces(repairer.seg, repairer.old, repairer.old \ repairer.fails)
        /\ repairer.seg \in Segments /\ repairer.old \in Holding
    BY <1>10, RepairerFields DEF RepairReport
  <2>2. repairer.old \ repairer.fails \in Holding
    BY <2>1 DEF Holding
  <2> QED BY <1>1, <2>1, <2>2
<1>11. CASE RepairCommit
  <2>1. PICK new \in SUBSET (Spares \ repairer.old), drop \in SUBSET (repairer.old \ repairer.fails) :
          UpdateSegmentPieces(repairer.seg, repairer.old, (repairer.old \ (repairer.fails \cup drop)) \cup new)
    BY <1>11 DEF RepairCommit
  <2>2. repairer.seg \in Segments /\ repairer.old \in Holding
    BY RepairerFields
  <2>3. (repairer.old \ (repairer.fails \cup drop)) \cup new \in Holding
    BY <2>2 DEF Holding
  <2>4. \A n \in Nodes : n \in (repairer.old \ (repairer.fails \cup drop)) \cup new => n \in repairer.old
    BY AuditAssumption
  <2> QED BY <1>1, <2>1, <2>2, <2>3, <2>4
<1>12. Repair /\ ~RepairReport /\ ~RepairCommit => UNCHANGED segmentVars
  BY DEF Repair, RepairDownload, RepairCheck, RepairApply, RepairEnds
<1>13. UNCHANGED vars => UNCHANGED segmentVars
  BY DEF vars, segmentVars
<1> QED
  BY <1>2, <1>3, <1>4, <1>5, <1>6, <1>7, <1>8, <1>9, <1>10, <1>11, <1>12, <1>13 DEF Next, segmentVars

\* A piece that is not there does not come back, and a listed piece is not collected.
LEMMA DiskSteps ==
  ASSUME TypeOK, [Next]_vars
  PROVE  /\ disk' \in [Locators -> {"none", "stored", "lost", "collected"}]
         /\ \A p \in Locators : disk[p] # "stored" => disk'[p] = disk[p]
         /\ \A p \in Locators : /\ disk[p] = "stored" /\ p[2] \in exists /\ p[1] \in pieces[p[2]]
                                => disk'[p] \in {"stored", "lost"}
<1> USE TypeParts
<1>1. CASE UNCHANGED disk
  BY <1>1
<1>2. ASSUME NEW q \in Locators, Lose(q) \/ Collect(q) \/ Interval(q)
      PROVE  /\ disk' \in [Locators -> {"none", "stored", "lost", "collected"}]
             /\ \A p \in Locators : disk[p] # "stored" => disk'[p] = disk[p]
             /\ \A p \in Locators : /\ disk[p] = "stored" /\ p[2] \in exists /\ p[1] \in pieces[p[2]]
                                    => disk'[p] \in {"stored", "lost"}
  BY <1>2 DEF Lose, Collect, Interval
<1>3. ASSUME NEW s \in Segments, DeleteSegment(s) \/ IdentifyContainedNodes(s) \/ RepairRead(s)
      PROVE  UNCHANGED disk
  BY <1>3 DEF DeleteSegment, IdentifyContainedNodes, RepairRead
<1>4. Verify \/ VerifierStops => UNCHANGED disk
  BY DEF Verify, VerifyRead, DownloadShares, VerifyCheck, ApplyAudit, ApplyAuditFails,
         DropFailed, QueuePending, ContainPending, VerifierStops
<1>5. ASSUME NEW w \in Workers,
             Reverify(w) \/ WorkerStops(w) \/ \E p \in Locators : GetNextJob(w, p)
      PROVE  UNCHANGED disk
  BY <1>5 DEF Reverify, ReverifyRead, GetPiece, GetPieceOffline, ReverifyCheck, ReadFailed,
       ApplyFailure, ApplyFailureFails, DropPiece, Requeue, Contain, Remove, GetByNodeID, Release,
       WorkerStops, GetNextJob
<1>6. SyncRead \/ SyncWrite \/ Repair \/ UNCHANGED vars => UNCHANGED disk
  BY DEF SyncRead, SyncWrite, Repair, RepairDownload, RepairCheck, RepairApply, RepairReport,
         RepairCommit, RepairEnds, vars
<1> QED BY <1>1, <1>2, <1>3, <1>4, <1>5, <1>6 DEF Next

\* A listed piece is not collected.
LEMMA NextListed ==
  ASSUME TypeOK, Listed, [Next]_vars
  PROVE  Listed'
<1>1. \A s \in Segments, n \in Nodes : <<n, s>> \in Locators
  BY DEF Locators
<1>2. exists \subseteq Segments
  BY TypeParts
<1> QED BY <1>1, <1>2, PieceSteps, DiskSteps DEF Listed

-----------------------------------------------------------------------------
(***************************************************************************)
(* Types after a step.                                                     *)
(***************************************************************************)

\* The times a piece timed out: a download can only add one, a removed row begins anew.
LEMMA TimedOutSlow ==
  ASSUME TypeOK, NEW ps \in SUBSET Locators, TimedOut(ps)
  PROVE  /\ slow' \in [Locators -> 0 .. 2]
         /\ \A p \in Locators : slow'[p] >= slow[p]
         /\ \A p \in ps : slow'[p] >= 1 /\ (slow[p] >= 1 => slow'[p] >= 2)
BY TypeParts DEF TimedOut

\* Rows are inserted with their claim and no attempt.
LEMMA InsertRows ==
  ASSUME TypeOK, NEW ps \in SUBSET Locators, Insert(ps)
  PROVE  /\ queued' \subseteq Locators /\ resting' \subseteq queued'
         /\ count' \in [Locators -> 0 .. MaxReverify]
BY TypeParts, AuditAssumption DEF Insert

LEMMA VerifierTypes ==
  ASSUME TypeOK, Verify \/ VerifierStops
  PROVE  /\ verifier' \in VerifierState
         /\ queued' \subseteq Locators /\ resting' \subseteq queued'
         /\ count' \in [Locators -> 0 .. MaxReverify]
         /\ contained' \subseteq Nodes
         /\ slow' \in [Locators -> 0 .. 2]
         /\ wronged' \subseteq Locators
         /\ faults' \in 0 .. MaxFaults
         /\ UNCHANGED <<worker, chore, repairer>>
<1> USE TypeParts, AuditAssumption, Idle, VerifierFields
<1>0. \A ps : ps \subseteq Nodes => ps \X {verifier.seg} \in SUBSET Locators
  BY DEF Locators
<1>1. CASE VerifyRead
  <2>1. verifier' \in VerifierState
    BY <1>1 DEF VerifyRead, VerifierState
  <2> QED BY <1>1, <2>1 DEF VerifyRead, queueVars
<1>2. CASE DownloadShares
  <2>1. PICK fails \in SUBSET ((verifier.old \cap Nodes) \ verifier.skip),
             pending \in SUBSET ((verifier.old \cap Nodes) \ verifier.skip) :
          /\ verifier' = [verifier EXCEPT !.pc = "check", !.skip = {}, !.fails = fails, !.pending = pending]
          /\ TimedOut(pending \X {verifier.seg})
    BY <1>2 DEF DownloadShares
  <2>2. verifier' \in VerifierState
    BY <2>1 DEF VerifierState, Holding
  <2>3. slow' \in [Locators -> 0 .. 2]
    BY <1>0, <2>1, TimedOutSlow
  <2> QED BY <1>2, <2>2, <2>3 DEF DownloadShares, queueVars
<1>3. CASE VerifyCheck
  <2>1. verifier' \in VerifierState
    BY <1>3 DEF VerifyCheck, VerifierState
  <2> QED BY <1>3, <2>1 DEF VerifyCheck, queueVars
<1>4. CASE ApplyAudit \/ ApplyAuditFails
  <2>1. verifier' \in VerifierState
    BY <1>4 DEF ApplyAudit, ApplyAuditFails, VerifierState
  <2>2. wronged' \subseteq Locators
    BY <1>0, <1>4 DEF ApplyAudit, ApplyAuditFails, Blame
  <2>3. faults' \in 0 .. MaxFaults
    BY <1>4 DEF ApplyAudit, ApplyAuditFails
  <2> QED BY <1>4, <2>1, <2>2, <2>3 DEF ApplyAudit, ApplyAuditFails, queueVars
<1>5. CASE DropFailed
  <2>1. verifier' \in VerifierState
    BY <1>5 DEF DropFailed, VerifierState, Holding
  <2> QED BY <1>5, <2>1 DEF DropFailed, queueVars
<1>6. CASE QueuePending
  <2>1. verifier' \in VerifierState
    BY <1>6 DEF QueuePending, VerifierState
  <2>2. Insert(verifier.pending \X {verifier.seg})
    BY <1>6 DEF QueuePending
  <2> QED BY <1>0, <1>6, <2>1, <2>2, InsertRows DEF QueuePending
<1>7. CASE ContainPending
  BY <1>7 DEF ContainPending, queueVars
<1>8. CASE VerifierStops
  BY <1>8 DEF VerifierStops, queueVars
<1> QED BY <1>1, <1>2, <1>3, <1>4, <1>5, <1>6, <1>7, <1>8 DEF Verify

LEMMA RepairTypes ==
  ASSUME TypeOK, Repair
  PROVE  repairer' \in RepairerState /\ wronged' \subseteq Locators
<1> USE TypeParts, Idle, RepairerFields
<1>1. CASE RepairDownload
  BY <1>1 DEF RepairDownload, RepairerState
<1>2. CASE RepairCheck
  BY <1>2 DEF RepairCheck, RepairerState
<1>3. CASE RepairApply
  <2>1. repairer.fails \X {repairer.seg} \subseteq Locators
    BY DEF Locators
  <2>2. repairer' \in RepairerState
    BY <1>3 DEF RepairApply, RepairerState
  <2> QED BY <1>3, <2>1, <2>2 DEF RepairApply, Blame
<1>4. CASE RepairReport
  <2>1. repairer.own \ repairer.fails \in Holding
    BY DEF Holding
  <2>2. repairer' \in RepairerState
    BY <1>4, <2>1 DEF RepairReport, RepairerState
  <2> QED BY <1>4, <2>2 DEF RepairReport
<1>5. CASE RepairCommit
  BY <1>5 DEF RepairCommit, RepairerState
<1>6. CASE RepairEnds
  BY <1>6 DEF RepairEnds
<1> QED BY <1>1, <1>2, <1>3, <1>4, <1>5, <1>6 DEF Repair

\* A worker goes from one state to another; the other workers do not move.
LEMMA WorkerTypes ==
  ASSUME TypeOK, NEW w \in Workers,
         Reverify(w) \/ WorkerStops(w) \/ \E p \in Locators : GetNextJob(w, p)
  PROVE  /\ worker' \in [Workers -> WorkerState]
         /\ \A v \in Workers \ {w} : worker'[v] = worker[v]
         /\ UNCHANGED <<verifier, chore, repairer>>
<1> USE TypeParts, AuditAssumption, Idle, WorkerFields
<1>0. Finished(w) \in WorkerState
  BY DEF Finished, WorkerState
<1>1. ASSUME NEW r \in WorkerState, worker' = [worker EXCEPT ![w] = r]
      PROVE  worker' \in [Workers -> WorkerState] /\ \A v \in Workers \ {w} : worker'[v] = worker[v]
  BY <1>1
<1>2. /\ Reverify(w) \/ WorkerStops(w) \/ (\E p \in Locators : GetNextJob(w, p))
      => UNCHANGED <<verifier, chore, repairer>>
  BY DEF Reverify, ReverifyRead, GetPiece, GetPieceOffline, ReverifyCheck, ReadFailed,
       ApplyFailure, ApplyFailureFails, DropPiece, Requeue, Contain, Remove, GetByNodeID, Release,
       WorkerStops, GetNextJob
<1>3. ASSUME ReverifyRead(w)
      PROVE  \E r \in WorkerState : worker' = [worker EXCEPT ![w] = r]
  BY <1>0, <1>3 DEF ReverifyRead, WorkerState
<1>4. ASSUME GetPiece(w)
      PROVE  \E r \in WorkerState : worker' = [worker EXCEPT ![w] = r]
  <2>1. \A c \in {"check", "insert", "limit"} :
          /\ [worker[w] EXCEPT !.pc = c] \in WorkerState
          /\ [worker EXCEPT ![w].pc = c] = [worker EXCEPT ![w] = [worker[w] EXCEPT !.pc = c]]
    BY DEF WorkerState
  <2> QED BY <1>0, <1>4, <2>1 DEF GetPiece
<1>5. ASSUME GetPieceOffline(w) \/ Contain(w) \/ Release(w) \/ WorkerStops(w)
      PROVE  \E r \in WorkerState : worker' = [worker EXCEPT ![w] = r]
  BY <1>5 DEF GetPieceOffline, Contain, Release, WorkerStops
<1>6. ASSUME ReverifyCheck(w)
      PROVE  \E r \in WorkerState : worker' = [worker EXCEPT ![w] = r]
  BY <1>0, <1>6 DEF ReverifyCheck, WorkerState
<1>7. ASSUME ReadFailed(w)
      PROVE  \E r \in WorkerState : worker' = [worker EXCEPT ![w] = r]
  <2>1. \A o \in Holding :
          /\ [worker[w] EXCEPT !.pc = "apply", !.old = o] \in WorkerState
          /\ [worker EXCEPT ![w].pc = "apply", ![w].old = o]
               = [worker EXCEPT ![w] = [worker[w] EXCEPT !.pc = "apply", !.old = o]]
    BY DEF WorkerState
  <2>2. (IF worker[w].job[2] \in exists THEN pieces[worker[w].job[2]] ELSE {}) \in Holding
    BY DEF Holding
  <2> QED BY <1>7, <2>1, <2>2 DEF ReadFailed
<1>8. ASSUME ApplyFailure(w) \/ ApplyFailureFails(w)
      PROVE  \E r \in WorkerState : worker' = [worker EXCEPT ![w] = r]
  BY <1>0, <1>8 DEF ApplyFailure, ApplyFailureFails, WorkerState
<1>9. ASSUME DropPiece(w)
      PROVE  \E r \in WorkerState : worker' = [worker EXCEPT ![w] = r]
  BY <1>0, <1>9 DEF DropPiece
<1>10. ASSUME Requeue(w)
       PROVE  \E r \in WorkerState : worker' = [worker EXCEPT ![w] = r]
  <2>1. 0 \in 0 .. MaxReverify /\ {} \in Holding
    BY DEF Holding
  <2>2. \A v \in WorkerState : [v EXCEPT !.pc = "contain", !.tries = 0, !.old = {}] \in WorkerState
    BY <2>1 DEF WorkerState
  <2>3. [worker EXCEPT ![w].pc = "contain", ![w].tries = 0, ![w].old = {}]
          = [worker EXCEPT ![w] = [worker[w] EXCEPT !.pc = "contain", !.tries = 0, !.old = {}]]
    BY DEF WorkerState
  <2> QED BY <1>10, <2>2, <2>3 DEF Requeue
<1>11. ASSUME Remove(w)
       PROVE  \E r \in WorkerState : worker' = [worker EXCEPT ![w] = r]
  <2>1. /\ [worker[w] EXCEPT !.pc = "look"] \in WorkerState
        /\ [worker EXCEPT ![w].pc = "look"] = [worker EXCEPT ![w] = [worker[w] EXCEPT !.pc = "look"]]
    BY DEF WorkerState
  <2> QED BY <1>11, <2>1 DEF Remove
<1>12. ASSUME GetByNodeID(w)
       PROVE  \E r \in WorkerState : worker' = [worker EXCEPT ![w] = r]
  BY <1>12 DEF GetByNodeID, WorkerState
<1>13. ASSUME NEW p \in Locators, GetNextJob(w, p)
       PROVE  \E r \in WorkerState : worker' = [worker EXCEPT ![w] = r]
  <2> DEFINE tries == IF count[p] < MaxReverify THEN count[p] + 1 ELSE MaxReverify
  <2>1. tries \in 0 .. MaxReverify
    OBVIOUS
  <2>2. worker' = [worker EXCEPT ![w] = [NoWork EXCEPT !.pc = "read", !.job = p, !.tries = tries]]
    BY <1>13 DEF GetNextJob
  <2> HIDE DEF tries
  <2>3. [NoWork EXCEPT !.pc = "read", !.job = p, !.tries = tries] \in WorkerState
    BY <2>1 DEF WorkerState
  <2> QED BY <2>2, <2>3
<1>14. \E r \in WorkerState : worker' = [worker EXCEPT ![w] = r]
  BY <1>3, <1>4, <1>5, <1>6, <1>7, <1>8, <1>9, <1>10, <1>11, <1>12, <1>13 DEF Reverify
<1> QED BY <1>1, <1>2, <1>14

LEMMA WorkerRowTypes ==
  ASSUME TypeOK, NEW w \in Workers,
         Reverify(w) \/ WorkerStops(w) \/ \E p \in Locators : GetNextJob(w, p)
  PROVE  /\ queued' \subseteq Locators /\ resting' \subseteq queued'
         /\ count' \in [Locators -> 0 .. MaxReverify]
         /\ contained' \subseteq Nodes
         /\ slow' \in [Locators -> 0 .. 2]
         /\ wronged' \subseteq Locators
         /\ faults' \in 0 .. MaxFaults
<1> USE TypeParts, AuditAssumption, WorkerFields
<1>1. CASE ReverifyRead(w) \/ GetPieceOffline(w) \/ ReverifyCheck(w) \/ ReadFailed(w) \/ DropPiece(w)
           \/ GetByNodeID(w) \/ WorkerStops(w)
  BY <1>1 DEF ReverifyRead, GetPieceOffline, ReverifyCheck, ReadFailed, DropPiece, GetByNodeID,
       WorkerStops, queueVars
<1>2. CASE GetPiece(w)
  <2>1. UNCHANGED slow \/ TimedOut({worker[w].job})
    BY <1>2 DEF GetPiece
  <2>2. slow' \in [Locators -> 0 .. 2]
    BY <2>1, TimedOutSlow
  <2> QED BY <1>2, <2>2 DEF GetPiece, queueVars
<1>3. CASE ApplyFailure(w) \/ ApplyFailureFails(w)
  <2>1. wronged' \subseteq Locators
    BY <1>3 DEF ApplyFailure, ApplyFailureFails, Blame
  <2> QED BY <1>3, <2>1 DEF ApplyFailure, ApplyFailureFails, queueVars
<1>4. CASE Requeue(w)
  BY <1>4, InsertRows DEF Requeue
<1>5. CASE Contain(w) \/ Release(w)
  BY <1>5 DEF Contain, Release, queueVars
<1>6. CASE Remove(w)
  BY <1>6 DEF Remove
<1>7. ASSUME NEW p \in Locators, GetNextJob(w, p)
      PROVE  /\ queued' \subseteq Locators /\ resting' \subseteq queued'
             /\ count' \in [Locators -> 0 .. MaxReverify]
             /\ UNCHANGED <<contained, slow, wronged, faults>>
  <2>1. (IF count[p] < MaxReverify THEN count[p] + 1 ELSE MaxReverify) \in 0 .. MaxReverify
    OBVIOUS
  <2> QED BY <1>7, <2>1 DEF GetNextJob
<1> QED BY <1>1, <1>2, <1>3, <1>4, <1>5, <1>6, <1>7 DEF Reverify

LEMMA NextTypeOK ==
  ASSUME TypeOK, [Next]_vars
  PROVE  TypeOK'
<1> USE TypeParts
<1> DEFINE Rest ==
      /\ queued' \subseteq Locators /\ resting' \subseteq queued'
      /\ count' \in [Locators -> 0 .. MaxReverify]
      /\ contained' \subseteq Nodes
      /\ verifier' \in VerifierState
      /\ worker' \in [Workers -> WorkerState]
      /\ chore' \in ChoreState
      /\ repairer' \in RepairerState
      /\ wronged' \subseteq Locators
      /\ slow' \in [Locators -> 0 .. 2]
      /\ faults' \in 0 .. MaxFaults
<1>1. ASSUME UNCHANGED vars
      PROVE  Rest
  BY <1>1 DEF vars
<1>2. ASSUME NEW s \in Segments, DeleteSegment(s) \/ IdentifyContainedNodes(s) \/ RepairRead(s)
      PROVE  Rest
  <2>1. CASE DeleteSegment(s)
    BY <2>1 DEF DeleteSegment, queueVars
  <2>2. CASE IdentifyContainedNodes(s)
    <3>1. verifier' \in VerifierState
      BY <2>2, Idle DEF IdentifyContainedNodes, VerifierState, Holding
    <3> QED BY <2>2, <3>1 DEF IdentifyContainedNodes, queueVars
  <2>3. CASE RepairRead(s)
    <3>1. repairer' \in RepairerState
      BY <2>3, Idle DEF RepairRead, RepairerState, Holding
    <3> QED BY <2>3, <3>1 DEF RepairRead, queueVars
  <2> QED BY <1>2, <2>1, <2>2, <2>3
<1>3. ASSUME NEW p \in Locators, Lose(p) \/ Collect(p) \/ Interval(p)
      PROVE  Rest
  BY <1>3 DEF Lose, Collect, Interval, queueVars
<1>4. ASSUME Verify \/ VerifierStops
      PROVE  Rest
  BY <1>4, VerifierTypes
<1>5. ASSUME NEW w \in Workers,
             Reverify(w) \/ WorkerStops(w) \/ \E p \in Locators : GetNextJob(w, p)
      PROVE  Rest
  BY <1>5, WorkerTypes, WorkerRowTypes
<1>6. ASSUME SyncRead \/ SyncWrite
      PROVE  Rest
  <2>1. contained' \subseteq Nodes /\ chore' \in ChoreState
    BY <1>6 DEF SyncRead, SyncWrite, ChoreState
  <2> QED BY <1>6, <2>1 DEF SyncRead, SyncWrite, queueVars
<1>7. ASSUME Repair
      PROVE  Rest
  <2>1. UNCHANGED <<queued, resting, count, contained, verifier, worker, chore, slow, faults>>
    BY <1>7 DEF Repair, RepairDownload, RepairCheck, RepairApply, RepairReport, RepairCommit,
         RepairEnds, queueVars
  <2> QED BY <1>7, <2>1, RepairTypes
<1>8. Rest
  BY <1>1, <1>2, <1>3, <1>4, <1>5, <1>6, <1>7 DEF Next
<1>9. exists' \subseteq Segments /\ pieces' \in [Segments -> Holding]
  BY PieceSteps
<1>10. disk' \in [Locators -> {"none", "stored", "lost", "collected"}]
  BY DiskSteps
<1> QED
  BY <1>8, <1>9, <1>10 DEF TypeOK, VerifierState, WorkerState, RepairerState, ChoreState

-----------------------------------------------------------------------------
(***************************************************************************)
(* Who moves what.                                                         *)
(***************************************************************************)

WorkerStep(w) == Reverify(w) \/ WorkerStops(w) \/ \E p \in Locators : GetNextJob(w, p)

LEMMA Frames ==
  ASSUME [Next]_vars
  PROVE  /\ \/ UNCHANGED verifier
            \/ (\E s \in Segments : IdentifyContainedNodes(s)) \/ Verify \/ VerifierStops
         /\ UNCHANGED worker \/ \E w \in Workers : WorkerStep(w)
         /\ UNCHANGED repairer \/ (\E s \in Segments : RepairRead(s)) \/ Repair
         /\ \/ UNCHANGED <<queueVars, slow, wronged>>
            \/ (\E p \in Locators : Interval(p)) \/ Verify \/ (\E w \in Workers : WorkerStep(w)) \/ Repair
<1>1. CASE UNCHANGED vars
  BY <1>1 DEF vars, queueVars
<1>2. ASSUME NEW s \in Segments, DeleteSegment(s) \/ IdentifyContainedNodes(s) \/ RepairRead(s)
      PROVE  /\ UNCHANGED verifier \/ IdentifyContainedNodes(s)
             /\ UNCHANGED repairer \/ RepairRead(s)
             /\ UNCHANGED <<worker, queueVars, slow, wronged>>
  BY <1>2 DEF DeleteSegment, IdentifyContainedNodes, RepairRead
<1>3. ASSUME NEW p \in Locators, Lose(p) \/ Collect(p) \/ Interval(p)
      PROVE  /\ UNCHANGED <<verifier, worker, repairer>>
             /\ UNCHANGED <<queueVars, slow, wronged>> \/ Interval(p)
  BY <1>3 DEF Lose, Collect, Interval
<1>4. ASSUME Verify \/ VerifierStops
      PROVE  UNCHANGED <<worker, repairer>> /\ (UNCHANGED <<queueVars, slow, wronged>> \/ Verify)
  BY <1>4 DEF Verify, VerifyRead, DownloadShares, VerifyCheck, ApplyAudit, ApplyAuditFails,
       DropFailed, QueuePending, ContainPending, VerifierStops
<1>5. ASSUME NEW w \in Workers, WorkerStep(w)
      PROVE  UNCHANGED <<verifier, repairer>>
  BY <1>5 DEF WorkerStep, Reverify, ReverifyRead, GetPiece, GetPieceOffline, ReverifyCheck, ReadFailed,
       ApplyFailure, ApplyFailureFails, DropPiece, Requeue, Contain, Remove, GetByNodeID, Release,
       WorkerStops, GetNextJob
<1>6. SyncRead \/ SyncWrite => UNCHANGED <<verifier, worker, repairer, queueVars, slow, wronged>>
  BY DEF SyncRead, SyncWrite
<1>7. Repair => UNCHANGED <<verifier, worker>>
  BY DEF Repair, RepairDownload, RepairCheck, RepairApply, RepairReport, RepairCommit, RepairEnds
<1> QED BY <1>1, <1>2, <1>3, <1>4, <1>5, <1>6, <1>7 DEF Next, WorkerStep

\* A worker keeps its job until it is idle, and leaves the queue behind it.
LEMMA JobKept ==
  ASSUME TypeOK, NEW w \in Workers, Reverify(w) \/ WorkerStops(w), worker'[w].pc # "idle"
  PROVE  /\ worker[w].pc # "idle" /\ worker'[w].job = worker[w].job
         /\ worker'[w].pc \notin {"look", "release"} => worker[w].pc \notin {"look", "release"}
<1> USE TypeParts, Idle, WorkerFields
<1>0. /\ Finished(w).pc = "remove" /\ Finished(w).job = worker[w].job
  BY DEF Finished, NoWork
<1>1. CASE ReverifyRead(w)
  BY <1>0, <1>1 DEF ReverifyRead, WorkerState
<1>9. CASE ReverifyCheck(w)
  <2>1. [NoWork EXCEPT !.pc = "failed", !.job = worker[w].job].job = worker[w].job
    BY DEF NoWork
  <2> QED BY <1>0, <1>9, <2>1 DEF ReverifyCheck
<1>2. CASE GetPiece(w)
  BY <1>0, <1>2 DEF GetPiece, WorkerState
<1>3. CASE ReadFailed(w)
  BY <1>3 DEF ReadFailed, WorkerState
<1>4. CASE ApplyFailure(w) \/ ApplyFailureFails(w)
  BY <1>0, <1>4 DEF ApplyFailure, ApplyFailureFails, WorkerState
<1>5. CASE DropPiece(w)
  BY <1>0, <1>5 DEF DropPiece
<1>6. CASE Requeue(w)
  BY <1>6 DEF Requeue, WorkerState
<1>7. CASE Remove(w) \/ GetByNodeID(w)
  BY <1>7 DEF Remove, GetByNodeID, WorkerState
<1>8. CASE GetPieceOffline(w) \/ Contain(w) \/ Release(w) \/ WorkerStops(w)
  BY <1>8 DEF GetPieceOffline, Contain, Release, WorkerStops
<1> QED BY <1>1, <1>2, <1>3, <1>4, <1>5, <1>6, <1>7, <1>8, <1>9 DEF Reverify

\* What a worker does to the queue.
LEMMA RowMoves ==
  ASSUME TypeOK, Claims, NEW w \in Workers, Reverify(w) \/ WorkerStops(w)
  PROVE  \/ queued' = queued /\ resting' = resting /\ (UNCHANGED slow \/ TimedOut({worker[w].job}))
         \/ /\ queued' = queued \ {worker[w].job} /\ resting' = resting \ {worker[w].job}
            /\ slow' = [slow EXCEPT ![worker[w].job] = 0]
            /\ worker[w].pc = "remove" /\ worker'[w].pc = "look"
<1> USE TypeParts, WorkerFields
<1>1. CASE Requeue(w)
  <2>1. worker[w].job \in queued
    BY <1>1 DEF Requeue, Claims
  <2>2. queued' = queued \cup {worker[w].job} /\ resting' = resting \cup ({worker[w].job} \ queued)
    BY <1>1 DEF Requeue, Insert
  <2> QED BY <1>1, <2>1, <2>2 DEF Requeue
<1>2. CASE Remove(w)
  BY <1>2 DEF Remove, WorkerState
<1>3. CASE ~Requeue(w) /\ ~Remove(w)
  BY <1>3 DEF Reverify, ReverifyRead, GetPiece, GetPieceOffline, ReverifyCheck, ReadFailed,
       ApplyFailure, ApplyFailureFails, DropPiece, Contain, GetByNodeID, Release, WorkerStops, queueVars
<1> QED BY <1>1, <1>2, <1>3

-----------------------------------------------------------------------------
(***************************************************************************)
(* The invariant after a step.                                             *)
(***************************************************************************)

\* A row that is what it was lists nobody whose piece was collected.
LEMMA Compared ==
  ASSUME TypeOK, Listed, NEW s \in Segments, NEW old, NEW n \in Nodes, n \in old,
         ~altered(s, old), disk[<<n, s>>] # "stored"
  PROVE  disk[<<n, s>>] = "lost"
BY TypeParts DEF altered, Listed

LEMMA NextVerifyMissing ==
  ASSUME TypeOK, Listed, VerifyMissing, [Next]_vars
  PROVE  VerifyMissing'
<1> USE TypeParts, Idle, VerifierFields
<1>0. /\ \A n \in Nodes : <<n, verifier.seg>> \in Locators
      /\ \A p \in Locators : disk[p] # "stored" => disk'[p] = disk[p]
  BY DiskSteps DEF Locators
<1>1. CASE UNCHANGED verifier
  BY <1>0, <1>1 DEF VerifyMissing
<1>2. CASE DownloadShares
  <2>1. PICK fails \in SUBSET ((verifier.old \cap Nodes) \ verifier.skip),
             pending \in SUBSET ((verifier.old \cap Nodes) \ verifier.skip) :
          /\ \A n \in fails : disk[<<n, verifier.seg>>] # "stored"
          /\ verifier' = [verifier EXCEPT !.pc = "check", !.skip = {}, !.fails = fails, !.pending = pending]
    BY <1>2 DEF DownloadShares
  <2>2. /\ verifier'.pc = "check" /\ verifier'.seg = verifier.seg /\ verifier'.old = verifier.old
        /\ verifier'.fails = fails
    BY <2>1 DEF VerifierState
  <2>3. UNCHANGED disk
    BY <1>2 DEF DownloadShares
  <2> QED BY <2>1, <2>2, <2>3 DEF VerifyMissing
<1>3. CASE VerifyCheck
  <2>1. CASE verifier'.pc = "apply"
    <3>1. /\ verifier.pc = "check" /\ ~altered(verifier.seg, verifier.old)
          /\ verifier' = [verifier EXCEPT !.pc = "apply"] /\ UNCHANGED disk
      BY <1>3, <2>1 DEF VerifyCheck
    <3>2. \A n \in verifier.fails : disk[<<n, verifier.seg>>] = "lost"
      BY <3>1, Compared DEF VerifyMissing
    <3>3. /\ verifier'.seg = verifier.seg /\ verifier'.old = verifier.old
          /\ verifier'.fails = verifier.fails
      BY <3>1 DEF VerifierState
    <3> QED BY <3>1, <3>2, <3>3 DEF VerifyMissing
  <2>2. verifier'.pc \in {"idle", "apply"}
    BY <1>3 DEF VerifyCheck, VerifierState
  <2> QED BY <2>1, <2>2 DEF VerifyMissing
<1>4. CASE ApplyAudit \/ ApplyAuditFails
  <2>1. /\ verifier.pc = "apply" /\ UNCHANGED disk
        /\ verifier'.seg = verifier.seg /\ verifier'.old = verifier.old
        /\ verifier'.fails = verifier.fails
    BY <1>4 DEF ApplyAudit, ApplyAuditFails, VerifierState
  <2> QED BY <2>1 DEF VerifyMissing
<1>5. CASE VerifyRead
  <2>1. verifier'.pc \in {"idle", "download"}
    BY <1>5 DEF VerifyRead, VerifierState
  <2> QED BY <2>1 DEF VerifyMissing
<1>6. CASE DropFailed
  <2>1. verifier'.pc \in {"idle", "insert"}
    BY <1>6 DEF DropFailed, VerifierState
  <2> QED BY <2>1 DEF VerifyMissing
<1>7. CASE QueuePending \/ ContainPending \/ VerifierStops
  <2>1. verifier'.pc \in {"idle", "contain"}
    BY <1>7 DEF QueuePending, ContainPending, VerifierStops, VerifierState
  <2> QED BY <2>1 DEF VerifyMissing
<1>8. ASSUME NEW s \in Segments, IdentifyContainedNodes(s)
      PROVE  VerifyMissing'
  <2>1. verifier'.pc = "identified"
    BY <1>8 DEF IdentifyContainedNodes, VerifierState
  <2> QED BY <2>1 DEF VerifyMissing
<1> QED BY <1>1, <1>2, <1>3, <1>4, <1>5, <1>6, <1>7, <1>8, Frames DEF Verify

LEMMA NextRepairMissing ==
  ASSUME TypeOK, Listed, RepairMissing, [Next]_vars
  PROVE  RepairMissing'
<1> USE TypeParts, Idle, RepairerFields
<1>0. /\ \A n \in Nodes : <<n, repairer.seg>> \in Locators
      /\ \A p \in Locators : disk[p] # "stored" => disk'[p] = disk[p]
  BY DiskSteps DEF Locators
<1>1. CASE UNCHANGED repairer
  BY <1>0, <1>1 DEF RepairMissing
<1>2. CASE RepairDownload
  <2>1. PICK fails \in SUBSET {n \in repairer.old \cap Nodes : disk[<<n, repairer.seg>>] # "stored"} :
          repairer' = [repairer EXCEPT !.pc = "check", !.fails = fails]
    BY <1>2 DEF RepairDownload
  <2>2. /\ repairer'.pc = "check" /\ repairer'.seg = repairer.seg /\ repairer'.old = repairer.old
        /\ repairer'.fails = fails
    BY <2>1 DEF RepairerState
  <2>3. UNCHANGED disk
    BY <1>2 DEF RepairDownload
  <2> QED BY <2>1, <2>2, <2>3 DEF RepairMissing
<1>3. CASE RepairCheck
  <2>1. CASE repairer'.pc = "apply"
    <3>1. /\ repairer.pc = "check" /\ ~altered(repairer.seg, repairer.old)
          /\ repairer' = [repairer EXCEPT !.pc = "apply", !.own = repairer.old] /\ UNCHANGED disk
      BY <1>3, <2>1 DEF RepairCheck
    <3>2. \A n \in repairer.fails : disk[<<n, repairer.seg>>] = "lost"
      BY <3>1, Compared DEF RepairMissing
    <3>3. /\ repairer'.seg = repairer.seg /\ repairer'.old = repairer.old
          /\ repairer'.fails = repairer.fails
      BY <3>1 DEF RepairerState
    <3> QED BY <3>1, <3>2, <3>3 DEF RepairMissing
  <2>2. repairer'.pc \in {"idle", "apply"}
    BY <1>3 DEF RepairCheck, RepairerState
  <2> QED BY <2>1, <2>2 DEF RepairMissing
<1>4. CASE RepairApply
  <2>1. /\ repairer.pc = "apply" /\ UNCHANGED disk
        /\ repairer'.seg = repairer.seg /\ repairer'.old = repairer.old
        /\ repairer'.fails = repairer.fails
    BY <1>4 DEF RepairApply, RepairerState
  <2> QED BY <2>1 DEF RepairMissing
<1>5. CASE RepairReport
  <2>1. repairer'.pc = "upload"
    BY <1>5 DEF RepairReport, RepairerState
  <2> QED BY <2>1 DEF RepairMissing
<1>6. CASE RepairCommit \/ RepairEnds
  <2>1. repairer'.pc \in {"idle", "refused"}
    BY <1>6 DEF RepairCommit, RepairEnds, RepairerState
  <2> QED BY <2>1 DEF RepairMissing
<1>7. ASSUME NEW s \in Segments, RepairRead(s)
      PROVE  RepairMissing'
  <2>1. repairer'.pc = "download"
    BY <1>7 DEF RepairRead, RepairerState
  <2> QED BY <2>1 DEF RepairMissing
<1> QED BY <1>1, <1>2, <1>3, <1>4, <1>5, <1>6, <1>7, Frames DEF Repair

LEMMA NextReverifyMissing ==
  ASSUME TypeOK, Listed, ReverifyMissing, [Next]_vars
  PROVE  ReverifyMissing'
<1> USE TypeParts, Idle, WorkerFields
<1>0. \A p \in Locators : disk[p] # "stored" => disk'[p] = disk[p]
  BY DiskSteps
<1>4. ASSUME NEW w \in Workers
      PROVE  Finished(w) \in WorkerState /\ Finished(w).pc = "remove" /\ Finished(w).job = worker[w].job
  <2>1. Finished(w) \in WorkerState
    BY DEF Finished, WorkerState
  <2> QED BY <2>1 DEF Finished, NoWork
<1> DEFINE Fine(v) ==
      /\ v.pc \in {"get", "check"} => v.job[1] \in v.old
      /\ v.pc = "check" => disk'[v.job] # "stored"
      /\ v.pc \in {"failed", "apply", "update"} => disk'[v.job] = "lost"
<1>1. ASSUME NEW w \in Workers, worker'[w] = worker[w]
      PROVE  Fine(worker'[w])
  BY <1>0, <1>1 DEF ReverifyMissing
<1>2. ASSUME NEW w \in Workers, WorkerStep(w)
      PROVE  Fine(worker'[w])
  <2>1. CASE ReverifyRead(w)
    <3>1. \/ /\ worker'[w].pc = "get" /\ worker'[w].job = worker[w].job
             /\ worker'[w].old = pieces[worker[w].job[2]]
             /\ worker[w].job[1] \in pieces[worker[w].job[2]]
          \/ worker'[w].pc = "remove"
      BY <2>1 DEF ReverifyRead, WorkerState, Finished, NoWork
    <3> QED BY <3>1
  <2>2. CASE GetPiece(w)
    <3>1. /\ worker[w].pc = "get" /\ UNCHANGED disk
          /\ \/ worker'[w].pc \in {"remove", "insert", "limit"}
             \/ /\ worker'[w].pc = "check" /\ worker'[w].job = worker[w].job
                /\ worker'[w].old = worker[w].old /\ disk[worker[w].job] # "stored"
      BY <1>4, <2>2 DEF GetPiece, WorkerState
    <3> QED BY <3>1 DEF ReverifyMissing
  <2>3. CASE ReverifyCheck(w)
    <3>1. CASE altered(worker[w].job[2], worker[w].old)
      <4>1. worker'[w].pc = "remove"
        BY <2>3, <3>1 DEF ReverifyCheck, Finished, NoWork
      <4> QED BY <4>1
    <3>2. CASE ~altered(worker[w].job[2], worker[w].old)
      <4>1. worker[w].pc = "check" /\ UNCHANGED disk
        BY <2>3 DEF ReverifyCheck
      <4>2. worker'[w].pc = "failed" /\ worker'[w].job = worker[w].job
        BY <2>3, <3>2 DEF ReverifyCheck, NoWork
      <4>3. disk[worker[w].job] = "lost"
        <5>1. /\ worker[w].job[1] \in worker[w].old /\ worker[w].job = <<worker[w].job[1], worker[w].job[2]>>
              /\ disk[worker[w].job] # "stored"
          BY <4>1 DEF ReverifyMissing
        <5>2. disk[<<worker[w].job[1], worker[w].job[2]>>] # "stored"
          BY <5>1
        <5>3. disk[<<worker[w].job[1], worker[w].job[2]>>] = "lost"
          BY <3>2, <5>1, <5>2, Compared
        <5> QED BY <5>1, <5>3
      <4> QED BY <4>1, <4>2, <4>3
    <3> QED BY <3>1, <3>2
  <2>4. CASE ReadFailed(w)
    <3>1. /\ worker[w].pc = "failed" /\ UNCHANGED disk
          /\ worker'[w].pc = "apply" /\ worker'[w].job = worker[w].job
      BY <2>4 DEF ReadFailed, WorkerState
    <3> QED BY <3>1 DEF ReverifyMissing
  <2>5. CASE ApplyFailure(w) \/ ApplyFailureFails(w)
    <3>1. /\ UNCHANGED disk
          /\ \/ worker'[w].pc \in {"remove", "idle"}
             \/ worker[w].pc = "apply" /\ worker'[w].pc = "update" /\ worker'[w].job = worker[w].job
      BY <1>4, <2>5 DEF ApplyFailure, ApplyFailureFails, WorkerState
    <3> QED BY <3>1 DEF ReverifyMissing
  <2>6. CASE DropPiece(w) \/ Requeue(w) \/ Remove(w) \/ GetByNodeID(w)
    <3>1. worker'[w].pc \in {"remove", "contain", "look", "release", "idle"}
      BY <1>4, <2>6 DEF DropPiece, Requeue, Remove, GetByNodeID, WorkerState
    <3> QED BY <3>1
  <2>7. CASE GetPieceOffline(w) \/ Contain(w) \/ Release(w) \/ WorkerStops(w)
    <3>1. worker'[w].pc = "idle"
      BY <2>7 DEF GetPieceOffline, Contain, Release, WorkerStops
    <3> QED BY <3>1
  <2>8. ASSUME NEW p \in Locators, GetNextJob(w, p)
        PROVE  Fine(worker'[w])
    <3>1. worker'[w].pc = "read"
      BY <2>8 DEF GetNextJob, NoWork
    <3> QED BY <3>1
  <2> QED BY <1>2, <2>1, <2>2, <2>3, <2>4, <2>5, <2>6, <2>7, <2>8 DEF WorkerStep, Reverify
<1>3. \A v \in Workers : Fine(worker'[v])
  <2>1. CASE UNCHANGED worker
    BY <1>1, <2>1
  <2>2. ASSUME NEW w \in Workers, WorkerStep(w)
        PROVE  \A v \in Workers : Fine(worker'[v])
    <3>1. \A v \in Workers \ {w} : worker'[v] = worker[v]
      BY <2>2, WorkerTypes DEF WorkerStep
    <3> QED BY <1>1, <1>2, <2>2, <3>1
  <2> QED BY <2>1, <2>2, Frames
<1> QED BY <1>3 DEF ReverifyMissing

LEMMA NextClaims ==
  ASSUME TypeOK, Claims, [Next]_vars
  PROVE  Claims'
<1> USE TypeParts, Idle, WorkerFields
<1>1. CASE UNCHANGED <<queueVars, worker>>
  BY <1>1 DEF Claims, queueVars
<1>2. ASSUME NEW p \in Locators, Interval(p)
      PROVE  Claims'
  BY <1>2 DEF Interval, Claims
<1>3. CASE QueuePending
  <2>1. /\ queued' = queued \cup (verifier.pending \X {verifier.seg})
        /\ resting' = resting \cup ((verifier.pending \X {verifier.seg}) \ queued)
        /\ UNCHANGED worker
    BY <1>3 DEF QueuePending, Insert
  <2> QED BY <2>1 DEF Claims
<1>4. (Verify /\ ~QueuePending) \/ Repair => UNCHANGED <<queueVars, worker>>
  BY DEF Verify, VerifyRead, DownloadShares, VerifyCheck, ApplyAudit, ApplyAuditFails, DropFailed,
         ContainPending, Repair, RepairDownload, RepairCheck, RepairApply, RepairReport,
         RepairCommit, RepairEnds
<1>5. ASSUME NEW w \in Workers, Reverify(w) \/ WorkerStops(w)
      PROVE  Claims'
  <2>1. \A v \in Workers \ {w} : worker'[v] = worker[v]
    BY <1>5, WorkerTypes
  <2>2. worker'[w].pc # "idle" =>
          /\ worker[w].pc # "idle" /\ worker'[w].job = worker[w].job
          /\ worker'[w].pc \notin {"look", "release"} => worker[w].pc \notin {"look", "release"}
    BY <1>5, JobKept
  <2>3. CASE queued' = queued /\ resting' = resting
    BY <2>1, <2>2, <2>3 DEF Claims
  <2>4. CASE /\ queued' = queued \ {worker[w].job} /\ resting' = resting \ {worker[w].job}
             /\ worker[w].pc = "remove" /\ worker'[w].pc = "look"
    <3>1. \A v \in Workers \ {w} : worker[v].pc # "idle" => worker[v].job # worker[w].job
      BY <2>4 DEF Claims
    <3> QED BY <2>1, <2>2, <2>4, <3>1 DEF Claims
  <2> QED BY <1>5, <2>3, <2>4, RowMoves
<1>6. ASSUME NEW w \in Workers, NEW p \in Locators, GetNextJob(w, p)
      PROVE  Claims'
  <2>1. \A v \in Workers \ {w} : worker'[v] = worker[v]
    BY <1>6, WorkerTypes
  <2>2. /\ worker'[w].pc = "read" /\ worker'[w].job = p
        /\ p \in queued \ resting /\ queued' = queued /\ resting' = resting \cup {p}
    BY <1>6 DEF GetNextJob, NoWork
  <2>3. \A v \in Workers : worker[v].pc # "idle" => worker[v].job # p
    BY <2>2 DEF Claims
  <2> QED BY <2>1, <2>2, <2>3 DEF Claims
<1>7. CASE UNCHANGED worker
  BY <1>1, <1>2, <1>3, <1>4, <1>5, <1>6, <1>7, Frames DEF WorkerStep
<1> QED BY <1>5, <1>6, <1>7, Frames DEF WorkerStep

\* Only the verifier adds to the queue.
LEMMA QueueShrinks ==
  ASSUME TypeOK, Claims, [Next]_vars, ~QueuePending
  PROVE  queued' \subseteq queued
<1>1. CASE UNCHANGED queueVars
  BY <1>1 DEF queueVars
<1>2. ASSUME NEW p \in Locators, Interval(p)
      PROVE  queued' \subseteq queued
  BY <1>2 DEF Interval
<1>3. Verify \/ Repair => UNCHANGED queueVars
  BY DEF Verify, VerifyRead, DownloadShares, VerifyCheck, ApplyAudit, ApplyAuditFails, DropFailed,
         ContainPending, Repair, RepairDownload, RepairCheck, RepairApply, RepairReport,
         RepairCommit, RepairEnds
<1>4. ASSUME NEW w \in Workers, WorkerStep(w)
      PROVE  queued' \subseteq queued
  <2>1. CASE \E p \in Locators : GetNextJob(w, p)
    BY <2>1 DEF GetNextJob
  <2> QED BY <1>4, <2>1, RowMoves DEF WorkerStep
<1> QED BY <1>1, <1>2, <1>3, <1>4, Frames

LEMMA NextUnqueued ==
  ASSUME TypeOK, Claims, Unqueued, [Next]_vars
  PROVE  Unqueued'
<1> USE TypeParts, Idle, VerifierFields
<1>1. CASE UNCHANGED verifier /\ ~QueuePending
  <2>1. queued' \subseteq queued
    BY <1>1, QueueShrinks
  <2>2. \A n \in Nodes : n \in pieces'[verifier.seg] => n \in pieces[verifier.seg]
    BY PieceSteps
  <2> QED BY <1>1, <2>1, <2>2 DEF Unqueued
<1>2. ASSUME NEW s \in Segments, IdentifyContainedNodes(s)
      PROVE  Unqueued'
  <2>1. /\ verifier'.pc = "identified" /\ verifier'.seg = s
        /\ verifier'.skip = {n \in pieces[s] : \E t \in Segments : <<n, t>> \in queued}
        /\ UNCHANGED <<pieces, queued>>
    BY <1>2 DEF IdentifyContainedNodes, VerifierState, segmentVars, queueVars
  <2> QED BY <2>1 DEF Unqueued
<1>3. CASE VerifyRead
  <2>1. /\ verifier.pc = "identified" /\ UNCHANGED <<pieces, queued>>
        /\ \/ verifier'.pc = "idle"
           \/ /\ verifier'.pc = "download" /\ verifier'.seg = verifier.seg
              /\ verifier'.skip = verifier.skip /\ verifier'.old = pieces[verifier.seg]
    BY <1>3 DEF VerifyRead, VerifierState, segmentVars, queueVars
  <2> QED BY <2>1 DEF Unqueued
<1>4. CASE DownloadShares
  <2>1. PICK fails, pending \in SUBSET ((verifier.old \cap Nodes) \ verifier.skip) :
          verifier' = [verifier EXCEPT !.pc = "check", !.skip = {}, !.fails = fails, !.pending = pending]
    BY <1>4 DEF DownloadShares
  <2>2. verifier'.pc = "check" /\ verifier'.seg = verifier.seg /\ verifier'.pending = pending
    BY <2>1 DEF VerifierState
  <2>3. verifier.pc = "download" /\ UNCHANGED queued
    BY <1>4 DEF DownloadShares, queueVars
  <2> QED BY <2>1, <2>2, <2>3 DEF Unqueued
<1>5. CASE VerifyCheck \/ ApplyAudit \/ ApplyAuditFails \/ DropFailed
  <2>1. /\ verifier.pc \in {"check", "apply", "update"} /\ UNCHANGED queued
        /\ \/ verifier'.pc = "idle"
           \/ /\ verifier'.pc \in {"apply", "update", "insert"} /\ verifier'.seg = verifier.seg
              /\ verifier'.pending = verifier.pending
    BY <1>5 DEF VerifyCheck, ApplyAudit, ApplyAuditFails, DropFailed, VerifierState, queueVars
  <2> QED BY <2>1 DEF Unqueued
<1>6. CASE QueuePending \/ ContainPending \/ VerifierStops
  <2>1. verifier'.pc \in {"idle", "contain"}
    BY <1>6 DEF QueuePending, ContainPending, VerifierStops, VerifierState
  <2> QED BY <2>1 DEF Unqueued
<1> QED BY <1>1, <1>2, <1>3, <1>4, <1>5, <1>6, Frames DEF Verify

LEMMA NextCounted ==
  ASSUME TypeOK, Claims, Unqueued, Counted, [Next]_vars
  PROVE  Counted'
<1> USE TypeParts, Idle, VerifierFields, WorkerFields
<1>0. \A ps : ps \subseteq Nodes => ps \X {verifier.seg} \in SUBSET Locators
  BY DEF Locators
<1>1. CASE UNCHANGED <<queueVars, slow, verifier, worker>>
  BY <1>1 DEF Counted, queueVars
<1>2. ASSUME NEW s \in Segments, IdentifyContainedNodes(s)
      PROVE  Counted'
  <2>1. verifier'.pc = "identified" /\ UNCHANGED <<queued, slow, worker>>
    BY <1>2 DEF IdentifyContainedNodes, VerifierState, queueVars
  <2> QED BY <2>1 DEF Counted
<1>3. ASSUME NEW p \in Locators, Interval(p)
      PROVE  Counted'
  BY <1>3 DEF Interval, Counted
<1>4. CASE DownloadShares
  <2>1. PICK fails, pending \in SUBSET ((verifier.old \cap Nodes) \ verifier.skip) :
          /\ verifier' = [verifier EXCEPT !.pc = "check", !.skip = {}, !.fails = fails, !.pending = pending]
          /\ TimedOut(pending \X {verifier.seg})
    BY <1>4 DEF DownloadShares
  <2>2. verifier'.pc = "check" /\ verifier'.seg = verifier.seg /\ verifier'.pending = pending
    BY <2>1 DEF VerifierState
  <2>3. UNCHANGED <<queued, worker>>
    BY <1>4 DEF DownloadShares, queueVars
  <2>4. /\ slow' \in [Locators -> 0 .. 2]
        /\ \A p \in Locators : slow'[p] >= slow[p]
        /\ \A p \in pending \X {verifier.seg} : slow'[p] >= 1
    BY <1>0, <2>1, TimedOutSlow
  <2>5. \A p \in Locators : slow[p] \in 0 .. 2 /\ slow'[p] \in 0 .. 2
    BY <2>4
  <2>6. \A p \in Locators : (slow[p] >= 1 => slow'[p] >= 1) /\ (slow[p] >= 2 => slow'[p] >= 2)
    BY <2>4, <2>5
  <2>7. \A n \in pending : slow'[<<n, verifier.seg>>] >= 1
    BY <2>4
  <2> QED BY <2>2, <2>3, <2>6, <2>7 DEF Counted
<1>5. CASE VerifyRead \/ VerifyCheck \/ ApplyAudit \/ ApplyAuditFails \/ DropFailed \/ ContainPending
           \/ VerifierStops
  <2>1. /\ UNCHANGED <<queued, slow, worker>>
        /\ \/ verifier'.pc \in {"idle", "download"}
           \/ /\ verifier.pc \in {"check", "apply", "update"}
              /\ verifier'.seg = verifier.seg /\ verifier'.pending = verifier.pending
    BY <1>5 DEF VerifyRead, VerifyCheck, ApplyAudit, ApplyAuditFails, DropFailed, ContainPending,
         VerifierStops, VerifierState, queueVars
  <2> QED BY <2>1 DEF Counted
<1>6. CASE QueuePending
  <2>1. /\ verifier.pc = "insert" /\ verifier'.pc = "contain" /\ UNCHANGED <<slow, worker>>
        /\ queued' = queued \cup (verifier.pending \X {verifier.seg})
    BY <1>6 DEF QueuePending, Insert, VerifierState
  <2> QED BY <2>1 DEF Counted
<1>7. ASSUME NEW w \in Workers, Reverify(w) \/ WorkerStops(w)
      PROVE  Counted'
  <2>1. (\A v \in Workers \ {w} : worker'[v] = worker[v]) /\ UNCHANGED verifier
    BY <1>7, WorkerTypes
  <2>2. worker'[w].pc = "limit" =>
          /\ worker[w].pc = "get" /\ worker'[w].job = worker[w].job /\ TimedOut({worker[w].job})
    <3>1. Finished(w).pc = "remove"
      BY DEF Finished, NoWork
    <3>2. CASE GetPiece(w)
      BY <3>1, <3>2 DEF GetPiece, WorkerState
    <3>3. CASE ReadFailed(w) \/ Requeue(w) \/ Remove(w)
      <4>1. worker'[w].pc \in {"apply", "contain", "look"}
        BY <3>3 DEF ReadFailed, Requeue, Remove, WorkerState
      <4> QED BY <4>1
    <3>7. CASE ReverifyRead(w)
      <4>1. worker'[w].pc \in {"get", "remove"}
        BY <3>1, <3>7 DEF ReverifyRead, WorkerState
      <4> QED BY <4>1
    <3>8. CASE GetByNodeID(w)
      <4>1. worker'[w].pc \in {"idle", "release"}
        BY <3>8 DEF GetByNodeID, WorkerState
      <4> QED BY <4>1
    <3>4. CASE ReverifyCheck(w)
      BY <3>1, <3>4 DEF ReverifyCheck, NoWork
    <3>5. CASE ApplyFailure(w) \/ ApplyFailureFails(w) \/ DropPiece(w)
      BY <3>1, <3>5 DEF ApplyFailure, ApplyFailureFails, DropPiece, WorkerState
    <3>6. CASE GetPieceOffline(w) \/ Contain(w) \/ Release(w) \/ WorkerStops(w)
      BY <3>6 DEF GetPieceOffline, Contain, Release, WorkerStops
    <3> QED BY <1>7, <3>2, <3>3, <3>4, <3>5, <3>6, <3>7, <3>8 DEF Reverify
  <2>3. CASE queued' = queued /\ (UNCHANGED slow \/ TimedOut({worker[w].job}))
    <3>1. /\ \A p \in Locators : (slow[p] >= 1 => slow'[p] >= 1) /\ (slow[p] >= 2 => slow'[p] >= 2)
          /\ TimedOut({worker[w].job}) /\ slow[worker[w].job] >= 1 => slow'[worker[w].job] >= 2
      <4>1. CASE UNCHANGED slow /\ ~TimedOut({worker[w].job})
        BY <4>1
      <4>2. CASE TimedOut({worker[w].job})
        <5>1. /\ slow' \in [Locators -> 0 .. 2]
              /\ \A p \in Locators : slow'[p] >= slow[p]
              /\ slow[worker[w].job] >= 1 => slow'[worker[w].job] >= 2
          BY <4>2, TimedOutSlow
        <5>2. \A p \in Locators : slow[p] \in 0 .. 2 /\ slow'[p] \in 0 .. 2
          BY <5>1
        <5> QED BY <5>1, <5>2
      <4> QED BY <2>3, <4>1, <4>2
    <3>2. worker'[w].pc = "limit" => slow'[worker'[w].job] >= 2
      BY <2>2, <3>1 DEF Claims, Counted
    <3>3. /\ \A p \in queued' : slow'[p] >= 1
          /\ verifier'.pc \in {"check", "apply", "update", "insert"} =>
               \A n \in verifier'.pending : slow'[<<n, verifier'.seg>>] >= 1
      <4>1. \A n \in verifier.pending : <<n, verifier.seg>> \in Locators
        BY DEF Locators
      <4> QED BY <2>1, <2>3, <3>1, <4>1 DEF Counted
    <3>4. \A v \in Workers \ {w} : worker'[v].pc = "limit" => slow'[worker'[v].job] >= 2
      BY <2>1, <3>1 DEF Counted
    <3> QED BY <3>2, <3>3, <3>4 DEF Counted
  <2>4. CASE /\ queued' = queued \ {worker[w].job} /\ slow' = [slow EXCEPT ![worker[w].job] = 0]
             /\ worker[w].pc = "remove" /\ worker'[w].pc = "look"
    <3>1. /\ worker[w].job \in queued
          /\ \A v \in Workers \ {w} : worker[v].pc # "idle" => worker[v].job # worker[w].job
      BY <2>4 DEF Claims
    <3>2. \A p \in Locators \ {worker[w].job} : slow'[p] = slow[p]
      BY <2>4
    <3>3. verifier.pc \in {"check", "apply", "update", "insert"} =>
            \A n \in verifier.pending : /\ <<n, verifier.seg>> \in Locators
                                        /\ <<n, verifier.seg>> # worker[w].job
      BY <3>1 DEF Unqueued, Locators
    <3> QED BY <2>1, <2>4, <3>1, <3>2, <3>3 DEF Counted
  <2> QED BY <1>7, <2>3, <2>4, RowMoves
<1>8. ASSUME NEW w \in Workers, NEW p \in Locators, GetNextJob(w, p)
      PROVE  Counted'
  <2>1. \A v \in Workers \ {w} : worker'[v] = worker[v]
    BY <1>8, WorkerTypes
  <2>2. worker'[w].pc = "read" /\ UNCHANGED <<queued, slow, verifier>>
    BY <1>8 DEF GetNextJob, NoWork
  <2> QED BY <2>1, <2>2 DEF Counted
<1>9. Repair => UNCHANGED <<queueVars, slow, verifier, worker>>
  BY DEF Repair, RepairDownload, RepairCheck, RepairApply, RepairReport, RepairCommit, RepairEnds
<1> QED BY <1>1, <1>2, <1>3, <1>4, <1>5, <1>6, <1>7, <1>8, <1>9, Frames DEF Verify, WorkerStep

\* Every failure that is applied is one of a lost piece, or of a piece that timed out
\* twice.
LEMMA NextNoFalseBlame ==
  ASSUME TypeOK, VerifyMissing, ReverifyMissing, RepairMissing, Counted, NoFalseBlame, [Next]_vars
  PROVE  NoFalseBlame'
<1> USE TypeParts, VerifierFields, WorkerFields, RepairerFields
<1>1. CASE UNCHANGED wronged
  BY <1>1 DEF NoFalseBlame
<1>2. CASE ApplyAudit
  BY <1>2 DEF ApplyAudit, Blame, VerifyMissing, NoFalseBlame
<1>3. CASE RepairApply
  BY <1>3 DEF RepairApply, Blame, RepairMissing, NoFalseBlame
<1>4. ASSUME NEW w \in Workers, ApplyFailure(w)
      PROVE  NoFalseBlame'
  <2>1. disk[worker[w].job] = "lost" \/ ~(slow[worker[w].job] < 2)
    <3>1. slow[worker[w].job] >= 2 => ~(slow[worker[w].job] < 2)
      OBVIOUS
    <3> QED BY <1>4, <3>1 DEF ApplyFailure, ReverifyMissing, Counted
  <2> QED BY <1>4, <2>1 DEF ApplyFailure, Blame, NoFalseBlame
<1>5. (Verify /\ ~ApplyAudit) \/ (Repair /\ ~RepairApply) => UNCHANGED wronged
  BY DEF Verify, VerifyRead, DownloadShares, VerifyCheck, ApplyAuditFails, DropFailed, QueuePending,
         ContainPending, Repair, RepairDownload, RepairCheck, RepairReport, RepairCommit, RepairEnds
<1>6. ASSUME NEW w \in Workers, WorkerStep(w), ~ApplyFailure(w)
      PROVE  UNCHANGED wronged
  BY <1>6 DEF WorkerStep, Reverify, ReverifyRead, GetPiece, GetPieceOffline, ReverifyCheck, ReadFailed,
       ApplyFailureFails, DropPiece, Requeue, Contain, Remove, GetByNodeID, Release,
       WorkerStops, GetNextJob
<1>7. ASSUME NEW p \in Locators, Interval(p)
      PROVE  UNCHANGED wronged
  BY <1>7 DEF Interval
<1> QED BY <1>1, <1>2, <1>3, <1>4, <1>5, <1>6, <1>7, Frames

LEMMA NextInv == Inv /\ [Next]_vars => Inv'
<1> SUFFICES ASSUME Inv, [Next]_vars PROVE Inv'
  OBVIOUS
<1>1. /\ TypeOK /\ Listed /\ VerifyMissing /\ ReverifyMissing /\ RepairMissing
      /\ Claims /\ Unqueued /\ Counted /\ NoFalseBlame
  BY DEF Inv
<1>2. TypeOK' /\ Listed'
  BY <1>1, NextTypeOK, NextListed
<1>3. VerifyMissing' /\ ReverifyMissing' /\ RepairMissing'
  BY <1>1, NextVerifyMissing, NextReverifyMissing, NextRepairMissing
<1>4. Claims' /\ Unqueued' /\ Counted'
  BY <1>1, NextClaims, NextUnqueued, NextCounted
<1>5. NoFalseBlame'
  BY <1>1, NextNoFalseBlame
<1> QED BY <1>2, <1>3, <1>4, <1>5 DEF Inv

\* What is taken off a segment is lost, or known to the repair that replaces it: the row is
\* compared once more when it is written.
LEMMA DropStep ==
  ASSUME Inv, [Next]_vars
  PROVE  \A s \in exists' : \A n \in pieces[s] \ pieces'[s] :
           (n \in Nodes /\ disk[<<n, s>>] = "lost") \/ RepairReplaces(s)
<1> USE TypeParts, VerifierFields, WorkerFields, RepairerFields
<1>0. TypeOK /\ VerifyMissing /\ ReverifyMissing /\ RepairMissing
  BY DEF Inv
<1>1. CASE UNCHANGED pieces
  BY <1>1
<1>2. exists' \subseteq Segments
  BY <1>0, PieceSteps
<1>3. CASE DropFailed
  <2>1. \A n \in verifier.fails : disk[<<n, verifier.seg>>] = "lost"
    BY <1>0, <1>3 DEF DropFailed, VerifyMissing
  <2>2. verifier.fails \subseteq Nodes
    BY <1>0
  <2>3. \/ UNCHANGED pieces
        \/ /\ pieces[verifier.seg] = verifier.old
           /\ pieces' = [pieces EXCEPT ![verifier.seg] = verifier.old \ verifier.fails]
    BY <1>3 DEF DropFailed, UpdateSegmentPieces, Matches
  <2> QED BY <1>0, <1>2, <2>1, <2>2, <2>3
<1>4. ASSUME NEW w \in Workers, DropPiece(w)
      PROVE  \A s \in exists' : \A n \in pieces[s] \ pieces'[s] : n \in Nodes /\ disk[<<n, s>>] = "lost"
  <2>1. disk[<<worker[w].job[1], worker[w].job[2]>>] = "lost"
    BY <1>0, <1>4 DEF DropPiece, ReverifyMissing
  <2>2. worker[w].job[1] \in Nodes
    BY <1>0
  <2>3. \/ UNCHANGED pieces
        \/ /\ pieces[worker[w].job[2]] = worker[w].old
           /\ pieces' = [pieces EXCEPT ![worker[w].job[2]] = worker[w].old \ {worker[w].job[1]}]
    BY <1>4 DEF DropPiece, UpdateSegmentPieces, Matches
  <2> QED BY <1>0, <1>2, <2>1, <2>2, <2>3
<1>5. CASE RepairReport
  <2>1. \A n \in repairer.fails : disk[<<n, repairer.seg>>] = "lost"
    BY <1>0, <1>5 DEF RepairReport, RepairMissing
  <2>2. repairer.fails \subseteq Nodes
    BY <1>0
  <2>3. \/ UNCHANGED pieces
        \/ /\ pieces[repairer.seg] = repairer.old
           /\ pieces' = [pieces EXCEPT ![repairer.seg] = repairer.old \ repairer.fails]
    BY <1>5 DEF RepairReport, UpdateSegmentPieces, Matches
  <2> QED BY <1>0, <1>2, <2>1, <2>2, <2>3
<1>6. CASE RepairCommit
  <2> DEFINE seg == repairer.seg
  <2>1. /\ repairer.pc = "upload"
        /\ repairer' = IF Matches(seg, repairer.old) THEN NoRepair ELSE [repairer EXCEPT !.pc = "refused"]
        /\ UNCHANGED pieces \/ (Matches(seg, repairer.old) /\ \E new : pieces' = [pieces EXCEPT ![seg] = new])
    BY <1>6 DEF RepairCommit, UpdateSegmentPieces
  <2>2. CASE Matches(seg, repairer.old)
    <3>1. repairer' = NoRepair /\ NoRepair.pc = "idle"
      BY <2>1, <2>2 DEF NoRepair
    <3>2. repairer' # repairer
      BY <2>1, <3>1
    <3>3. \A s \in exists' : s # seg => pieces'[s] = pieces[s]
      BY <1>0, <1>2, <2>1
    <3> QED BY <2>1, <2>2, <3>2, <3>3 DEF Matches, RepairReplaces
  <2> QED BY <2>1, <2>2
<1>7. ASSUME NEW s \in Segments, DeleteSegment(s) \/ IdentifyContainedNodes(s) \/ RepairRead(s)
      PROVE  UNCHANGED pieces
  BY <1>7 DEF DeleteSegment, IdentifyContainedNodes, RepairRead, segmentVars
<1>8. ASSUME NEW p \in Locators, Lose(p) \/ Collect(p) \/ Interval(p)
      PROVE  UNCHANGED pieces
  BY <1>8 DEF Lose, Collect, Interval, segmentVars
<1>9. (Verify \/ VerifierStops) /\ ~DropFailed => UNCHANGED pieces
  BY DEF Verify, VerifyRead, DownloadShares, VerifyCheck, ApplyAudit, ApplyAuditFails,
         QueuePending, ContainPending, VerifierStops, segmentVars
<1>10. ASSUME NEW w \in Workers, WorkerStep(w)
       PROVE  DropPiece(w) \/ UNCHANGED pieces
  BY <1>10 DEF WorkerStep, Reverify, ReverifyRead, GetPiece, GetPieceOffline, ReverifyCheck, ReadFailed,
       ApplyFailure, ApplyFailureFails, Requeue, Contain, Remove, GetByNodeID, Release,
       WorkerStops, GetNextJob, segmentVars
<1>11. SyncRead \/ SyncWrite \/ UNCHANGED vars => UNCHANGED pieces
  BY DEF SyncRead, SyncWrite, vars, segmentVars
<1>12. Repair /\ ~RepairReport /\ ~RepairCommit => UNCHANGED pieces
  BY DEF Repair, RepairDownload, RepairCheck, RepairApply, RepairEnds, segmentVars
<1> QED
  BY <1>1, <1>3, <1>4, <1>5, <1>6, <1>7, <1>8, <1>9, <1>10, <1>11, <1>12 DEF Next, WorkerStep

-----------------------------------------------------------------------------
(***************************************************************************)
(* The theorems.                                                           *)
(***************************************************************************)

\* In every reachable state the inductive invariant holds.
THEOREM Invariance == Spec => []Inv
BY InitInv, NextInv, PTL DEF Spec

\* Segments, disks, the queue and those who work on them have their types.
THEOREM TypeCorrect == Spec => []TypeOK
<1>1. Inv => TypeOK
  BY DEF Inv
<1> QED BY <1>1, Invariance, PTL

\* A node is docked for a piece only if it lost the piece while a segment listed it, or
\* if it was too slow at least twice, at whatever moment of an audit segments are
\* deleted, repaired or collected.
THEOREM NoFalseBlameHolds == Spec => []NoFalseBlame
<1>1. Inv => NoFalseBlame
  BY DEF Inv
<1> QED BY <1>1, Invariance, PTL

\* A piece is taken off a segment only if the node lost it, or by a repair that knows all
\* the pieces of the segment.
THEOREM DroppedLostHolds == Spec => DroppedLost
<1>1. Inv /\ [Next]_vars =>
        [\A s \in exists' : \A n \in pieces[s] \ pieces'[s] :
           (n \in Nodes /\ disk[<<n, s>>] = "lost") \/ RepairReplaces(s)]_vars
  BY DropStep
<1> QED BY <1>1, Invariance, PTL DEF Spec, DroppedLost
=============================================================================
