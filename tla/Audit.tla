-------------------------------- MODULE Audit --------------------------------
(***************************************************************************)
(* Audits of the satellite (satellite/audit) and the repair of a segment   *)
(* (satellite/repair/repairer), which reports what it meets as audits.     *)
(*                                                                         *)
(* An audit worker downloads a stripe of a segment from the nodes that     *)
(* hold its pieces.  A node that says it has no such piece fails the       *)
(* audit: its reputation is docked and the piece is dropped from the       *)
(* segment.  A node that is too slow is contained: the piece goes to the   *)
(* reverification queue, from which other workers download it as a whole.  *)
(* The queue and the contained flag of a node may be in two databases; a   *)
(* chore brings the flag in line with the queue.  Users delete segments,   *)
(* repair moves pieces to other nodes and garbage collection removes what  *)
(* a segment does not list any more, all while audits are under way.       *)
(***************************************************************************)
EXTENDS Naturals, FiniteSets

CONSTANTS
  Nodes,          \* storage nodes that may be slow or lose a piece
  Spares,         \* storage nodes that always answer; repair uploads to them
  Segments,       \* segments
  Holders,        \* the nodes that hold a piece of each segment at first
  Workers,        \* reverification workers, in one or several processes
  Required,       \* pieces a segment must keep
  MaxReverify,    \* config MaxReverifyCount
  MaxBusy,        \* bound: audits, reverifications and repairs at a time
  MaxFaults       \* bound: failed statements, stops, times a node is offline

\* There is a segment and a node: what is idle names some of them (NoVerify, NoWork).
ASSUME AuditAssumption ==
  /\ Holders \in [Segments -> SUBSET (Nodes \cup Spares)] /\ Nodes \cap Spares = {}
  /\ Nodes # {} /\ Segments # {}
  /\ Required \in Nat /\ MaxReverify \in Nat \ {0}
  /\ MaxBusy \in Nat \ {0} /\ MaxFaults \in Nat

Holding == SUBSET (Nodes \cup Spares)
Locators == Nodes \X Segments

VARIABLES
  exists,         \* the segments that have a row
  pieces,         \* the nodes listed in the row of a segment
  disk,           \* what a node has of its piece
  queued,         \* the rows of reverification_audits
  count,          \* reverify_count of a row
  resting,        \* rows inserted or attempted within the retry interval
  contained,      \* the nodes whose row has the contained flag
  verifier,       \* an audit worker
  worker,         \* the reverification workers
  chore,          \* the containment sync chore
  repairer,       \* a repair
  wronged,        \* history: failures applied to the reputation without cause
  slow,           \* history: downloads timed out since the last row, up to two
  faults

vars == <<exists, pieces, disk, queued, count, resting, contained, verifier, worker, chore,
          repairer, wronged, slow, faults>>

segmentVars == <<exists, pieces>>
queueVars == <<queued, count, resting>>

NoVerify == [pc |-> "idle", seg |-> CHOOSE s \in Segments : TRUE, skip |-> {}, old |-> {},
             fails |-> {}, pending |-> {}]
NoRepair == [pc |-> "idle", seg |-> CHOOSE s \in Segments : TRUE, old |-> {}, fails |-> {}, own |-> {}]
NoWork == [pc |-> "idle", job |-> CHOOSE p \in Locators : TRUE, tries |-> 0, old |-> {}]

TypeOK ==
  /\ exists \subseteq Segments
  /\ pieces \in [Segments -> Holding]
  /\ disk \in [Locators -> {"none", "stored", "lost", "collected"}]
  /\ queued \subseteq Locators /\ resting \subseteq queued
  /\ count \in [Locators -> 0 .. MaxReverify]
  /\ contained \subseteq Nodes
  /\ verifier \in [pc : {"idle", "identified", "download", "check", "apply", "update", "insert", "contain"},
                   seg : Segments, skip : Holding, old : Holding,
                   fails : SUBSET Nodes, pending : SUBSET Nodes]
  /\ worker \in [Workers -> [pc : {"idle", "read", "get", "check", "failed", "apply", "update",
                                   "limit", "insert", "contain", "remove", "look", "release"},
                             job : Locators, tries : 0 .. MaxReverify, old : Holding]]
  /\ chore \in [pc : {"idle", "write"}, nodes : SUBSET Nodes]
  /\ repairer \in [pc : {"idle", "download", "check", "apply", "update", "upload", "refused"},
                   seg : Segments, old : Holding, fails : SUBSET Nodes, own : Holding]
  /\ wronged \subseteq Locators
  /\ slow \in [Locators -> 0 .. 2]
  /\ faults \in 0 .. MaxFaults

Init ==
  /\ exists = Segments
  /\ pieces = Holders
  /\ disk = [p \in Locators |-> IF p[1] \in Holders[p[2]] THEN "stored" ELSE "none"]
  /\ queued = {} /\ resting = {} /\ count = [p \in Locators |-> 0]
  /\ contained = {}
  /\ verifier = NoVerify /\ worker = [w \in Workers |-> NoWork]
  /\ chore = [pc |-> "idle", nodes |-> {}]
  /\ repairer = NoRepair
  /\ wronged = {} /\ slow = [p \in Locators |-> 0]
  /\ faults = 0

\* There is room for another audit, reverification or repair.
Room ==
  Cardinality({w \in Workers : worker[w].pc # "idle"}) + (IF verifier.pc # "idle" THEN 1 ELSE 0)
    + (IF repairer.pc # "idle" THEN 1 ELSE 0) < MaxBusy

-----------------------------------------------------------------------------
(***************************************************************************)
(* What audits, repair and users do to a segment.                          *)
(***************************************************************************)

\* Mutant of altered: a segment that was deleted counts, one that changed does not.
AlteredIfDeleted(s, old) == s \notin exists

\* checkIfSegmentAltered.
altered(s, old) == s \notin exists \/ pieces[s] # old

\* Mutant of Matches: the pieces are written whatever they were.
MatchesAny(s, old) == s \in exists

\* The comparison in the UPDATE of UpdateSegmentPieces.
Matches(s, old) == s \in exists /\ pieces[s] = old

\* UpdateSegmentPieces.
UpdateSegmentPieces(s, old, new) ==
  /\ pieces' = IF Matches(s, old) /\ Cardinality(new) >= Required
               THEN [pieces EXCEPT ![s] = new] ELSE pieces
  /\ UNCHANGED exists

\* The user deletes the object, or it expires and is deleted.
DeleteSegment(s) ==
  /\ s \in exists
  /\ exists' = exists \ {s}
  /\ UNCHANGED <<pieces, disk, queueVars, contained, verifier, worker, chore, repairer, wronged, slow, faults>>

\* A node loses a piece it should have.
Lose(p) ==
  /\ p[2] \in exists /\ p[1] \in pieces[p[2]] /\ disk[p] = "stored"
  /\ disk' = [disk EXCEPT ![p] = "lost"]
  /\ UNCHANGED <<segmentVars, queueVars, contained, verifier, worker, chore, repairer, wronged, slow, faults>>

\* Garbage collection removes a piece that no segment lists.
Collect(p) ==
  /\ disk[p] = "stored"
  /\ p[2] \notin exists \/ p[1] \notin pieces[p[2]]
  /\ disk' = [disk EXCEPT ![p] = "collected"]
  /\ UNCHANGED <<segmentVars, queueVars, contained, verifier, worker, chore, repairer, wronged, slow, faults>>

-----------------------------------------------------------------------------
(***************************************************************************)
(* Worker.work, Verifier.Verify and DBReporter.RecordAudits.               *)
(***************************************************************************)

\* AuditFailure goes to the reputation of the nodes.
Blame(ps) == wronged' = wronged \cup {p \in ps : disk[p] # "lost" /\ slow[p] < 2}

\* A download times out.
TimedOut(ps) == slow' = [p \in Locators |-> IF p \in ps /\ slow[p] < 2 THEN slow[p] + 1 ELSE slow[p]]

\* Nodes that have a row in the queue are skipped.
IdentifyContainedNodes(s) ==
  /\ verifier.pc = "idle" /\ Room /\ s \in exists
  /\ verifier' = [NoVerify EXCEPT !.pc = "identified", !.seg = s,
                  !.skip = {n \in pieces[s] : \E t \in Segments : <<n, t>> \in queued}]
  /\ UNCHANGED <<segmentVars, disk, queueVars, contained, worker, chore, repairer, wronged, slow, faults>>

\* GetSegmentByPositionForAudit in Verify.
VerifyRead ==
  /\ verifier.pc = "identified"
  /\ verifier' = IF verifier.seg \in exists
                 THEN [verifier EXCEPT !.pc = "download", !.old = pieces[verifier.seg]]
                 ELSE NoVerify
  /\ UNCHANGED <<segmentVars, disk, queueVars, contained, worker, chore, repairer, wronged, slow, faults>>

\* DownloadShares.  A node that has the piece sends it or times out, one that does
\* not have it says so; any of them may be offline, and with too few shares
\* nobody is reported.
DownloadShares ==
  /\ verifier.pc = "download"
  /\ \E fails, pending \in SUBSET ((verifier.old \cap Nodes) \ verifier.skip) :
       /\ fails \cap pending = {}
       /\ \A n \in fails : disk[<<n, verifier.seg>>] # "stored"
       /\ verifier' = [verifier EXCEPT !.pc = "check", !.skip = {}, !.fails = fails, !.pending = pending]
       /\ TimedOut(pending \X {verifier.seg})
  /\ UNCHANGED <<segmentVars, disk, queueVars, contained, worker, chore, repairer, wronged, faults>>

\* Nothing is reported of a segment that changed meanwhile.
VerifyCheck ==
  /\ verifier.pc = "check"
  /\ verifier' = IF altered(verifier.seg, verifier.old) \/ verifier.fails \cup verifier.pending = {}
                 THEN NoVerify ELSE [verifier EXCEPT !.pc = "apply"]
  /\ UNCHANGED <<segmentVars, disk, queueVars, contained, worker, chore, repairer, wronged, slow, faults>>

\* recordFailedAudits: the failures go to the reputation.
ApplyAudit ==
  /\ verifier.pc = "apply"
  /\ Blame(verifier.fails \X {verifier.seg})
  /\ verifier' = [verifier EXCEPT !.pc = "update"]
  /\ UNCHANGED <<segmentVars, disk, queueVars, contained, worker, chore, repairer, slow, faults>>

\* It cannot be recorded after all retries; the piece is dropped all the same.
ApplyAuditFails ==
  /\ verifier.pc = "apply" /\ verifier.fails # {}
  /\ faults < MaxFaults /\ faults' = faults + 1
  /\ verifier' = [verifier EXCEPT !.pc = "update"]
  /\ UNCHANGED <<segmentVars, disk, queueVars, contained, worker, chore, repairer, wronged, slow>>

\* recordFailedAudits: the pieces are dropped from the segment.
DropFailed ==
  /\ verifier.pc = "update"
  /\ UpdateSegmentPieces(verifier.seg, verifier.old, verifier.old \ verifier.fails)
  /\ verifier' = IF verifier.pending = {} THEN NoVerify
                 ELSE [verifier EXCEPT !.pc = "insert", !.old = {}, !.fails = {}]
  /\ UNCHANGED <<disk, queueVars, contained, worker, chore, repairer, wronged, slow, faults>>

\* reverifyQueue.Insert: a row that is there already is left alone.
Insert(ps) ==
  /\ queued' = queued \cup ps
  /\ resting' = resting \cup (ps \ queued)
  /\ count' = [p \in Locators |-> IF p \in ps \ queued THEN 0 ELSE count[p]]

\* recordPendingAudits: ReportReverificationNeeded, its two statements.
QueuePending ==
  /\ verifier.pc = "insert"
  /\ Insert(verifier.pending \X {verifier.seg})
  /\ verifier' = [verifier EXCEPT !.pc = "contain"]
  /\ UNCHANGED <<segmentVars, disk, contained, worker, chore, repairer, wronged, slow, faults>>

ContainPending ==
  /\ verifier.pc = "contain"
  /\ contained' = contained \cup verifier.pending
  /\ verifier' = NoVerify
  /\ UNCHANGED <<segmentVars, disk, queueVars, worker, chore, repairer, wronged, slow, faults>>

\* The process stops, or a statement fails for good.
VerifierStops ==
  /\ verifier.pc # "idle"
  /\ faults < MaxFaults /\ faults' = faults + 1
  /\ verifier' = NoVerify
  /\ UNCHANGED <<segmentVars, disk, queueVars, contained, worker, chore, repairer, wronged, slow>>

-----------------------------------------------------------------------------
(***************************************************************************)
(* ReverifyWorker, Reverifier.DoReverifyPiece and                          *)
(* DBReporter.RecordReverificationResult.                                  *)
(***************************************************************************)

\* The job of the worker is to be removed from the queue.
Finished(w) == [NoWork EXCEPT !.pc = "remove", !.job = worker[w].job]

\* The retry interval of a row is over.  The worker that claimed it has the same
\* interval, begun earlier, and has been cancelled by then.
Interval(p) ==
  /\ p \in resting /\ \A w \in Workers : worker[w].pc = "idle" \/ worker[w].job # p
  /\ resting' = resting \ {p}
  /\ UNCHANGED <<segmentVars, disk, queued, count, contained, verifier, worker, chore, repairer, wronged, slow, faults>>

\* Mutant of GetNextJob: attempts are not counted.
GetNextJobUncounted(w, p) ==
  /\ worker[w].pc = "idle" /\ Room /\ p \in queued \ resting
  /\ resting' = resting \cup {p}
  /\ worker' = [worker EXCEPT ![w] = [NoWork EXCEPT !.pc = "read", !.job = p, !.tries = count[p]]]
  /\ UNCHANGED <<segmentVars, disk, queued, count, contained, verifier, chore, repairer, wronged, slow, faults>>

\* The row is claimed and its count incremented, in one statement.
GetNextJob(w, p) ==
  LET tries == IF count[p] < MaxReverify THEN count[p] + 1 ELSE MaxReverify IN
  /\ worker[w].pc = "idle" /\ Room /\ p \in queued \ resting
  /\ resting' = resting \cup {p}
  /\ count' = [count EXCEPT ![p] = tries]
  /\ worker' = [worker EXCEPT ![w] = [NoWork EXCEPT !.pc = "read", !.job = p, !.tries = tries]]
  /\ UNCHANGED <<segmentVars, disk, queued, contained, verifier, chore, repairer, wronged, slow, faults>>

\* A reverification is not necessary if the node does not hold the piece any more.
ReverifyRead(w) ==
  LET n == worker[w].job[1] s == worker[w].job[2] IN
  /\ worker[w].pc = "read"
  /\ worker' = [worker EXCEPT ![w] = IF s \in exists /\ n \in pieces[s]
                                     THEN [@ EXCEPT !.pc = "get", !.old = pieces[s]]
                                     ELSE Finished(w)]
  /\ UNCHANGED <<segmentVars, disk, queueVars, contained, verifier, chore, repairer, wronged, slow, faults>>

\* GetPiece: success, or an error that is not the node's failure, ends the job.  A
\* timeout is a failure when the row was attempted often enough.
GetPiece(w) ==
  /\ worker[w].pc = "get"
  /\ \/ worker' = [worker EXCEPT ![w] = Finished(w)] /\ UNCHANGED slow
     \/ /\ disk[worker[w].job] # "stored"
        /\ worker' = [worker EXCEPT ![w].pc = "check"] /\ UNCHANGED slow
     \/ /\ worker' = [worker EXCEPT ![w].pc = IF worker[w].tries < MaxReverify THEN "insert" ELSE "limit"]
        /\ TimedOut({worker[w].job})
  /\ UNCHANGED <<segmentVars, disk, queueVars, contained, verifier, chore, repairer, wronged, faults>>

\* The node is offline, or the audit could not be performed: the row stays.
GetPieceOffline(w) ==
  /\ worker[w].pc = "get"
  /\ faults < MaxFaults /\ faults' = faults + 1
  /\ worker' = [worker EXCEPT ![w] = NoWork]
  /\ UNCHANGED <<segmentVars, disk, queueVars, contained, verifier, chore, repairer, wronged, slow>>

ReverifyCheck(w) ==
  /\ worker[w].pc = "check"
  /\ worker' = [worker EXCEPT ![w] = IF altered(worker[w].job[2], worker[w].old)
                                     THEN Finished(w) ELSE [NoWork EXCEPT !.pc = "failed", !.job = worker[w].job]]
  /\ UNCHANGED <<segmentVars, disk, queueVars, contained, verifier, chore, repairer, wronged, slow, faults>>

\* RecordReverificationResult looks the segment up again; if it is gone only the
\* reputation is updated.
ReadFailed(w) ==
  /\ worker[w].pc = "failed"
  /\ worker' = [worker EXCEPT ![w].pc = "apply",
                              ![w].old = IF worker[w].job[2] \in exists THEN pieces[worker[w].job[2]] ELSE {}]
  /\ UNCHANGED <<segmentVars, disk, queueVars, contained, verifier, chore, repairer, wronged, slow, faults>>

ApplyFailure(w) ==
  /\ worker[w].pc \in {"apply", "limit"}
  /\ Blame({worker[w].job})
  /\ worker' = [worker EXCEPT ![w] = IF @.pc = "apply" THEN [@ EXCEPT !.pc = "update"] ELSE Finished(w)]
  /\ UNCHANGED <<segmentVars, disk, queueVars, contained, verifier, chore, repairer, slow, faults>>

\* Not recorded after all retries: a missing piece is dropped all the same, a row
\* at the limit stays.
ApplyFailureFails(w) ==
  /\ worker[w].pc \in {"apply", "limit"}
  /\ faults < MaxFaults /\ faults' = faults + 1
  /\ worker' = [worker EXCEPT ![w] = IF @.pc = "apply" THEN [@ EXCEPT !.pc = "update"] ELSE NoWork]
  /\ UNCHANGED <<segmentVars, disk, queueVars, contained, verifier, chore, repairer, wronged, slow>>

DropPiece(w) ==
  /\ worker[w].pc = "update"
  /\ UpdateSegmentPieces(worker[w].job[2], worker[w].old, worker[w].old \ {worker[w].job[1]})
  /\ worker' = [worker EXCEPT ![w] = Finished(w)]
  /\ UNCHANGED <<disk, queueVars, contained, verifier, chore, repairer, wronged, slow, faults>>

\* A timed out piece is queued again, which leaves a row that is there as it is.
Requeue(w) ==
  /\ worker[w].pc = "insert"
  /\ Insert({worker[w].job})
  /\ worker' = [worker EXCEPT ![w].pc = "contain", ![w].tries = 0, ![w].old = {}]
  /\ UNCHANGED <<segmentVars, disk, contained, verifier, chore, repairer, wronged, slow, faults>>

Contain(w) ==
  /\ worker[w].pc = "contain"
  /\ contained' = contained \cup {worker[w].job[1]}
  /\ worker' = [worker EXCEPT ![w] = NoWork]
  /\ UNCHANGED <<segmentVars, disk, queueVars, verifier, chore, repairer, wronged, slow, faults>>

\* Mutant of Remove: the claim of the row outlives it.
RemoveKeepsClaim(w) ==
  /\ worker[w].pc = "remove"
  /\ queued' = queued \ {worker[w].job}
  /\ slow' = [slow EXCEPT ![worker[w].job] = 0]
  /\ worker' = [worker EXCEPT ![w].pc = "look"]
  /\ UNCHANGED <<segmentVars, disk, count, resting, contained, verifier, chore, repairer, wronged, faults>>

\* containment.Delete: the row, then a look whether the node has another one.
Remove(w) ==
  /\ worker[w].pc = "remove"
  /\ queued' = queued \ {worker[w].job} /\ resting' = resting \ {worker[w].job}
  /\ count' = [count EXCEPT ![worker[w].job] = 0]
  /\ slow' = [slow EXCEPT ![worker[w].job] = 0]
  /\ worker' = [worker EXCEPT ![w].pc = "look"]
  /\ UNCHANGED <<segmentVars, disk, contained, verifier, chore, repairer, wronged, faults>>

GetByNodeID(w) ==
  /\ worker[w].pc = "look"
  /\ worker' = [worker EXCEPT ![w] = IF \E s \in Segments : <<@.job[1], s>> \in queued
                                     THEN NoWork ELSE [@ EXCEPT !.pc = "release"]]
  /\ UNCHANGED <<segmentVars, disk, queueVars, contained, verifier, chore, repairer, wronged, slow, faults>>

\* SetNodeContained(false), decided by the look before.
Release(w) ==
  /\ worker[w].pc = "release"
  /\ contained' = contained \ {worker[w].job[1]}
  /\ worker' = [worker EXCEPT ![w] = NoWork]
  /\ UNCHANGED <<segmentVars, disk, queueVars, verifier, chore, repairer, wronged, slow, faults>>

\* The process stops, a statement fails, or the interval of the job is over.
WorkerStops(w) ==
  /\ worker[w].pc # "idle"
  /\ faults < MaxFaults /\ faults' = faults + 1
  /\ worker' = [worker EXCEPT ![w] = NoWork]
  /\ UNCHANGED <<segmentVars, disk, queueVars, contained, verifier, chore, repairer, wronged, slow>>

-----------------------------------------------------------------------------
(***************************************************************************)
(* ContainmentSyncChore.                                                   *)
(***************************************************************************)

SyncRead ==
  /\ chore.pc = "idle"
  /\ chore' = [pc |-> "write", nodes |-> {n \in Nodes : \E s \in Segments : <<n, s>> \in queued}]
  /\ UNCHANGED <<segmentVars, disk, queueVars, contained, verifier, worker, repairer, wronged, slow, faults>>

\* Mutant of SyncWrite: flags are set, never reset.
SyncWriteAdds ==
  /\ chore.pc = "write"
  /\ contained' = contained \cup chore.nodes
  /\ chore' = [pc |-> "idle", nodes |-> {}]
  /\ UNCHANGED <<segmentVars, disk, queueVars, verifier, worker, repairer, wronged, slow, faults>>

\* SetAllContainedNodes.
SyncWrite ==
  /\ chore.pc = "write"
  /\ contained' = chore.nodes
  /\ chore' = [pc |-> "idle", nodes |-> {}]
  /\ UNCHANGED <<segmentVars, disk, queueVars, verifier, worker, repairer, wronged, slow, faults>>

-----------------------------------------------------------------------------
(***************************************************************************)
(* SegmentRepairer.Repair, with ReputationUpdateEnabled.                   *)
(***************************************************************************)

RepairRead(s) ==
  /\ repairer.pc = "idle" /\ Room /\ s \in exists
  /\ repairer' = [NoRepair EXCEPT !.pc = "download", !.seg = s, !.old = pieces[s]]
  /\ UNCHANGED <<segmentVars, disk, queueVars, contained, verifier, worker, chore, wronged, slow, faults>>

\* ec.Get: some of the nodes that lost their piece say so.
RepairDownload ==
  /\ repairer.pc = "download"
  /\ \E fails \in SUBSET {n \in repairer.old \cap Nodes : disk[<<n, repairer.seg>>] # "stored"} :
       repairer' = [repairer EXCEPT !.pc = "check", !.fails = fails]
  /\ UNCHANGED <<segmentVars, disk, queueVars, contained, verifier, worker, chore, wronged, slow, faults>>

RepairCheck ==
  /\ repairer.pc = "check"
  /\ repairer' = IF altered(repairer.seg, repairer.old) THEN NoRepair
                 ELSE [repairer EXCEPT !.pc = "apply", !.own = repairer.old]
  /\ UNCHANGED <<segmentVars, disk, queueVars, contained, verifier, worker, chore, wronged, slow, faults>>

\* RecordAudits of the repair: the reputation, then the pieces of the segment.
RepairApply ==
  /\ repairer.pc = "apply"
  /\ Blame(repairer.fails \X {repairer.seg})
  /\ repairer' = [repairer EXCEPT !.pc = "update"]
  /\ UNCHANGED <<segmentVars, disk, queueVars, contained, verifier, worker, chore, slow, faults>>

RepairReport ==
  /\ repairer.pc = "update"
  /\ UpdateSegmentPieces(repairer.seg, repairer.old, repairer.old \ repairer.fails)
  /\ repairer' = [repairer EXCEPT !.pc = "upload", !.own = IF pieces' # pieces THEN @ \ repairer.fails ELSE @]
  /\ UNCHANGED <<disk, queueVars, contained, verifier, worker, chore, wronged, slow, faults>>

\* Pieces are uploaded to new nodes, and the segment gets them in place of the
\* failed pieces and of those that are not wanted any more, if it still has the
\* pieces the repair read.
RepairCommit ==
  LET s == repairer.seg IN
  /\ repairer.pc = "upload"
  /\ \E new \in (SUBSET (Spares \ repairer.old)) \ {{}}, drop \in SUBSET (repairer.old \ repairer.fails) :
       UpdateSegmentPieces(s, repairer.old, (repairer.old \ (repairer.fails \cup drop)) \cup new)
  /\ repairer' = IF Matches(s, repairer.old) THEN NoRepair ELSE [repairer EXCEPT !.pc = "refused"]
  /\ UNCHANGED <<disk, queueVars, contained, verifier, worker, chore, wronged, slow, faults>>

\* It fails: no node takes a piece, or the segment is not what it was.
RepairEnds ==
  /\ repairer.pc # "idle"
  /\ repairer' = NoRepair
  /\ UNCHANGED <<segmentVars, disk, queueVars, contained, verifier, worker, chore, wronged, slow, faults>>

-----------------------------------------------------------------------------
Verify ==
  \/ VerifyRead \/ DownloadShares \/ VerifyCheck \/ ApplyAudit \/ ApplyAuditFails
  \/ DropFailed \/ QueuePending \/ ContainPending

Reverify(w) ==
  \/ ReverifyRead(w) \/ GetPiece(w) \/ GetPieceOffline(w) \/ ReverifyCheck(w) \/ ReadFailed(w)
  \/ ApplyFailure(w) \/ ApplyFailureFails(w) \/ DropPiece(w) \/ Requeue(w) \/ Contain(w)
  \/ Remove(w) \/ GetByNodeID(w) \/ Release(w)

Repair == RepairDownload \/ RepairCheck \/ RepairApply \/ RepairReport \/ RepairCommit \/ RepairEnds

Next ==
  \/ \E s \in Segments : DeleteSegment(s) \/ IdentifyContainedNodes(s) \/ RepairRead(s)
  \/ \E p \in Locators : Lose(p) \/ Collect(p) \/ Interval(p)
  \/ Verify \/ VerifierStops
  \/ \E w \in Workers : Reverify(w) \/ WorkerStops(w) \/ \E p \in Locators : GetNextJob(w, p)
  \/ SyncRead \/ SyncWrite
  \/ Repair

Spec == Init /\ [][Next]_vars

\* Audits, reverifications, repairs and the chore go on; the retry interval passes; the
\* oldest row is taken first, so that a row is taken at some time.  Nobody has to
\* begin an audit or a repair.
FairSpec ==
  /\ Spec
  /\ WF_vars(Verify) /\ WF_vars(Repair)
  /\ \A w \in Workers : WF_vars(Reverify(w))
  /\ \A p \in Locators : WF_vars(Interval(p)) /\ SF_vars(\E w \in Workers : GetNextJob(w, p))
  /\ WF_vars(SyncRead \/ SyncWrite)

-----------------------------------------------------------------------------
(***************************************************************************)
(* Properties.                                                             *)
(***************************************************************************)

\* A node is docked for a piece only if it lost the piece while a segment listed it,
\* or if it was too slow at least twice: neither deletion nor repair nor garbage
\* collection, at whatever moment of an audit, makes an honest node fail.
NoFalseBlame == wronged = {}

\* The repair that has uploaded replaces the pieces of s, which are those it read.
RepairReplaces(s) ==
  /\ repairer.pc = "upload" /\ repairer' # repairer
  /\ s = repairer.seg /\ pieces[s] = repairer.old

\* A piece is taken off a segment only if the node lost it, or by a repair that knows
\* all the pieces: an audit never undoes what a repair has written since the audit read
\* the segment, nor a repair what an audit has.
DroppedLost ==
  [][\A s \in exists' : \A n \in pieces[s] \ pieces'[s] :
       (n \in Nodes /\ disk[<<n, s>>] = "lost") \/ RepairReplaces(s)]_vars

\* The contained flag follows the queue in the end, whatever stops between the two.
ContainmentSettles ==
  \A n \in Nodes :
    /\ <>[](\E s \in Segments : <<n, s>> \in queued) => <>[](n \in contained)
    /\ <>[](\A s \in Segments : <<n, s>> \notin queued) => <>[](n \notin contained)

\* A piece does not stay in the reverification queue for ever, however slow its node.
JobLeaves == \A p \in Locators : p \in queued ~> p \notin queued

\* A repair that nobody but itself disturbs is recorded: TestMissingPieceDataRepair_Succeed
\* has one node without its piece and expects the repair to succeed.
RepairRecorded ==
  repairer.pc = "refused" => altered(repairer.seg, repairer.own)
=============================================================================
