------------------------------- MODULE Metabase -------------------------------
(***************************************************************************)
(* The objects and segments tables of satellite/metabase, as the Spanner   *)
(* adapter uses them: uploads, versions, delete markers, Object Lock, the  *)
(* server-side copy and move, and the two cleanup chores.                  *)
(*                                                                         *)
(* A read-write transaction is one action, since Spanner serializes it.    *)
(* An operation made of several transactions has one action for each: the  *)
(* plain delete, the copy and the chores act on rows they read earlier.    *)
(*                                                                         *)
(* Time is counted in days, the period after which a pending object is a   *)
(* zombie.  Sizes, keys, metadata and pieces are left out.                 *)
(***************************************************************************)
EXTENDS Integers, FiniteSets

CONSTANTS
  Keys,         \* object keys of the bucket
  Positions,    \* segment positions
  Created,      \* settings the bucket may be created with
  Holds,        \* settings of the legal hold in use
  Modes,        \* retention modes in use, of "governance" and "compliance"
  TTLs,         \* expirations an upload may ask for, NoTime for none
  MaxVersion,   \* bound: versions
  MaxStreams,   \* bound: stream ids that are drawn
  MaxNow,       \* bound: days
  MaxFailures,  \* bound: copies that fail or are lost
  MaxReaders    \* bound: operations of several transactions at a time

NoTime == -1

Buckets == {"plain", "enabled", "suspended", "locked"}

ASSUME MetabaseAssumption ==
  /\ Created \subseteq Buckets
  /\ IsFiniteSet(Positions)
  /\ Holds \subseteq BOOLEAN /\ FALSE \in Holds
  /\ Modes \subseteq {"governance", "compliance"}
  /\ MaxVersion \in Nat /\ MaxStreams \in Nat /\ MaxNow \in Nat /\ MaxFailures \in Nat
  /\ MaxReaders \in Nat
  /\ TTLs \subseteq 0 .. MaxNow \cup {NoTime}

VARIABLES
  objects,    \* <<key, version>> -> row of the objects table
  segments,   \* stream -> position -> day the row was created, or NoTime
  expiring,   \* <<stream, position>> of the segments that had expires_at set when written
  bucket,     \* versioning of the bucket, and whether Object Lock is on
  streams,    \* stream ids drawn so far
  now,
  plain,      \* deleteObjectLastCommittedPlain between its two transactions
  zombies,    \* batch of DeleteZombieObjects, and the day it was read
  expired,    \* batch of DeleteExpiredObjects
  copy,       \* the FinishCopyObject in progress
  failures,
  stale       \* history: streams hit by a write that relied on an outdated read

tables == <<objects, segments, expiring>>
clock == <<bucket, now>>
reads == <<plain, zombies, expired, copy, failures, stale>>
vars == <<tables, clock, streams, reads>>

Versions == 1 .. MaxVersion
Streams == 1 .. MaxStreams
NoStream == 0
Times == 0 .. MaxNow \cup {NoTime}
Pending == "pending"
Unversioned == {"unversioned", "markerUnversioned"}
Markers == {"markerVersioned", "markerUnversioned"}
Committed == {"unversioned", "versioned"}
Statuses == {Pending} \cup Committed \cup Markers

Locks == {l \in [hold : Holds, mode : Modes \cup {"none"}, until : 0 .. MaxNow] :
            (l.mode = "none") <=> (l.until = 0)}
NoLock == [hold |-> FALSE, mode |-> "none", until |-> 0]

Unsigned == [signed |-> FALSE]

\* signed holds what the signed stream id of a pending object remembers:
\* whether the bucket was versioned, and the expiration.  Nobody is given a stream
\* id for the pending object of a copy.
Rows == [stream : Streams \cup {NoStream}, status : Statuses, count : 0 .. Cardinality(Positions),
         lock : Locks, expires : Times, deadline : Nat \cup {NoTime},
         signed : [versioned : BOOLEAN, ttl : Times] \cup {Unsigned}]
NoRow == [status |-> "none"]

Refs == [key : Keys, version : Versions, stream : Streams \cup {NoStream}]
NoRef == [stream |-> NoStream]
NoCopy == [pc |-> "idle"]
Copies == [pc : {"read", "pending", "segments"}, key : Keys, version : Versions \cup {0}, stream : Streams,
           lock : Locks, positions : SUBSET Positions, expires : Times, expiring : SUBSET Positions, versioned : BOOLEAN]

TypeOK ==
  /\ objects \in [Keys \X Versions -> Rows \cup {NoRow}]
  /\ segments \in [Streams -> [Positions -> Times]]
  /\ expiring \subseteq Streams \X Positions
  /\ bucket \in Buckets
  /\ streams \in 0 .. MaxStreams
  /\ now \in 0 .. MaxNow
  /\ plain \in Refs \cup {NoRef}
  /\ zombies \in [batch : SUBSET Refs, day : 0 .. MaxNow]
  /\ expired \in SUBSET Refs
  /\ copy \in Copies \cup {NoCopy}
  /\ failures \in 0 .. MaxFailures
  /\ stale \subseteq Streams

NoSegments == [p \in Positions |-> NoTime]

Init ==
  /\ objects = [r \in Keys \X Versions |-> NoRow]
  /\ segments = [s \in Streams |-> NoSegments]
  /\ expiring = {}
  /\ bucket \in Created
  /\ streams = 0 /\ now = 0
  /\ plain = NoRef
  /\ zombies = [batch |-> {}, day |-> 0]
  /\ expired = {}
  /\ copy = NoCopy
  /\ failures = 0 /\ stale = {}

-----------------------------------------------------------------------------
(***************************************************************************)
(* What the queries of a transaction return.                               *)
(***************************************************************************)

Exists(k, v) == objects[<<k, v>>].status # "none"
IsPending(k, v) == objects[<<k, v>>].status = Pending
Versioned == bucket \in {"enabled", "locked"}
\* A delete marker has no segments under its stream id.
Stored(s) == IF s = NoStream THEN {} ELSE {p \in Positions : segments[s][p] # NoTime}

HighestIn(vs) == CHOOSE v \in vs \cup {0} : \A w \in vs : w <= v

\* PrecommitInfo.HighestVersion: pending objects count.
HighestVersion(k) == HighestIn({v \in Versions : Exists(k, v)})

\* PrecommitInfo.HighestVisible, as a version.
HighestVisible(k) == HighestIn({v \in Versions : Exists(k, v) /\ ~IsPending(k, v)})

\* PrecommitInfo.Unversioned, or 0.
UnversionedAt(k) == HighestIn({v \in Versions : objects[<<k, v>>].status \in Unversioned})

\* Mutant of nextVersion: a pending object keeps its version.
nextVersionKept(pending, highest) ==
  IF pending # 0 THEN pending ELSE highest + 1

nextVersion(pending, highest) ==
  IF pending = highest /\ pending # 0 THEN pending ELSE highest + 1

Expired(row) == row.expires # NoTime /\ row.expires <= now

\* Retention.isProtected and the legal hold.
Protected(lock, bypass) ==
  \/ lock.hold
  \/ lock.mode # "none" /\ now < lock.until /\ ~(bypass /\ lock.mode = "governance")

\* committedWhereVersioned
CommittedStatus(versioned) == IF versioned THEN "versioned" ELSE "unversioned"

\* Retention.Verify and the rule that an expiring object has no lock.
Requests == {r \in [lock : Locks, ttl : TTLs] :
               /\ r.lock # NoLock => bucket = "locked" /\ r.ttl = NoTime
               /\ r.lock.mode # "none" => now < r.lock.until
               /\ r.ttl # NoTime => now < r.ttl}

\* One more operation of several transactions may start.
MayStart ==
  Cardinality({op \in {"plain", "zombies", "expired", "copy"} :
                 \/ op = "plain" /\ plain # NoRef
                 \/ op = "zombies" /\ zombies.batch # {}
                 \/ op = "expired" /\ expired # {}
                 \/ op = "copy" /\ copy # NoCopy}) < MaxReaders

Draw(s) == s = streams + 1 /\ s <= MaxStreams /\ streams' = s

\* Mutant of ClearSegments: the segments of a removed row stay.
ClearSegmentsNone(ss) == segments

ClearSegments(ss) == [s \in Streams |-> IF s \in ss THEN NoSegments ELSE segments[s]]

\* Mutant of Replace: the rows at versions del stay.
ReplaceAdds(k, del, v, row) == [objects EXCEPT ![<<k, v>>] = row]

\* Rows of key k: the ones at versions del go, row is put at version v.
Replace(k, del, v, row) ==
  [r \in Keys \X Versions |->
     IF r = <<k, v>> THEN row
     ELSE IF r[1] = k /\ r[2] \in del THEN NoRow
     ELSE objects[r]]

Remove(k, v) == [objects EXCEPT ![<<k, v>>] = NoRow]

StreamAt(k, v) == IF v = 0 \/ ~Exists(k, v) THEN NoStream ELSE objects[<<k, v>>].stream

\* What a write hits that relied on row s still being at <<k, v>>, and fit for it.
Relied(k, v, s, fit) ==
  IF StreamAt(k, v) = s /\ fit THEN {} ELSE {s, StreamAt(k, v)} \ {NoStream}

\* Mutant of MayReplace: the lock of the object that is replaced is not looked at.
MayReplaceAny(k, u, bypass) == TRUE

\* commonPrecommitDeleteUnversioned refuses to remove a protected object.
MayReplace(k, u, bypass) == u # 0 => ~Protected(objects[<<k, u>>].lock, bypass)

Row(s, status, count, lock, expires) ==
  [stream |-> s, status |-> status, count |-> count, lock |-> lock, expires |-> expires,
   deadline |-> NoTime, signed |-> Unsigned]

-----------------------------------------------------------------------------
(***************************************************************************)
(* Uploads.                                                                *)
(***************************************************************************)

BeginObjectNextVersion(k, req) ==
  LET v == HighestVersion(k) + 1 IN
  /\ v \in Versions
  /\ \E s \in Streams :
       /\ Draw(s)
       /\ objects' = Replace(k, {}, v,
            [stream |-> s, status |-> Pending, count |-> 0, lock |-> req.lock, expires |-> req.ttl,
             deadline |-> now + 1, signed |-> [versioned |-> Versioned, ttl |-> req.ttl]])
  /\ UNCHANGED <<segments, expiring, clock, reads>>

IsUpload(k, v) == IsPending(k, v) /\ objects[<<k, v>>].signed # Unsigned

\* expires_at of a segment that is written.
SetExpires(s, p, ttl) == IF ttl = NoTime THEN expiring \ {<<s, p>>} ELSE expiring \cup {<<s, p>>}

\* CommitSegment and CommitInlineSegment.  A segment that is uploaded again keeps
\* the time it was created.  It expires as the signed stream id says, also after
\* the upload was marked as expired.
CommitSegment(k, v, p) ==
  LET row == objects[<<k, v>>] IN
  /\ IsUpload(k, v)
  /\ segments' = [segments EXCEPT ![row.stream][p] = IF @ = NoTime THEN now ELSE @]
  /\ expiring' = SetExpires(row.stream, p, row.signed.ttl)
  /\ UNCHANGED <<objects, clock, streams, reads>>

\* Mutant of Overwritten: only the newest object is looked at.
OverwrittenTop(k, versioned) ==
  LET u == IF versioned \/ HighestVisible(k) # UnversionedAt(k) THEN 0 ELSE UnversionedAt(k)
  IN  [version |-> u, reuse |-> u # 0 /\ u = HighestVersion(k)]

\* The unversioned object that a commit replaces (version 0 for none), and
\* reusePreviousObject.
Overwritten(k, versioned) ==
  LET u == IF versioned THEN 0 ELSE UnversionedAt(k)
  IN  [version |-> u, reuse |-> u # 0 /\ u = HighestVersion(k)]

\* CommitObject, with the segments the client lists; expires_at is taken from the
\* signed stream id, the lock from the pending object.
CommitObject(k, v, only) ==
  LET row == objects[<<k, v>>]
      old == Overwritten(k, row.signed.versioned)
      new == IF old.reuse THEN old.version ELSE nextVersion(v, HighestVersion(k))
      gone == StreamAt(k, old.version)
  IN
  /\ IsUpload(k, v)
  /\ new \in Versions
  /\ only \subseteq Stored(row.stream)
  /\ only # {} \/ Stored(row.stream) = {}
  /\ MayReplace(k, old.version, FALSE)
  /\ objects' = Replace(k, {v, old.version}, new,
       Row(row.stream, CommittedStatus(row.signed.versioned), Cardinality(only), row.lock, row.signed.ttl))
  /\ segments' = [s \in Streams |->
       IF s = row.stream THEN [p \in Positions |-> IF p \in only THEN segments[s][p] ELSE NoTime]
       ELSE IF s = gone THEN NoSegments
       ELSE segments[s]]
  /\ UNCHANGED <<expiring, clock, streams, reads>>

CommitInlineObject(k, req, p) ==
  LET old == Overwritten(k, Versioned)
      new == IF old.reuse THEN old.version ELSE nextVersion(0, HighestVersion(k))
      gone == StreamAt(k, old.version)
  IN
  /\ new \in Versions
  /\ MayReplace(k, old.version, FALSE)
  /\ \E s \in Streams :
       /\ Draw(s)
       /\ objects' = Replace(k, {old.version}, new, Row(s, CommittedStatus(Versioned), 1, req.lock, req.ttl))
       /\ segments' = [ClearSegments({gone}) EXCEPT ![s][p] = now]
       /\ expiring' = SetExpires(s, p, req.ttl)
  /\ UNCHANGED <<clock, reads>>

\* An aborted upload is only marked as expired.
DeletePendingObject(k, v) ==
  /\ IsPending(k, v)
  /\ ~Expired(objects[<<k, v>>])
  /\ objects' = [objects EXCEPT ![<<k, v>>].expires = now]
  /\ expiring' = expiring \cup ({objects[<<k, v>>].stream} \X Stored(objects[<<k, v>>].stream))
  /\ UNCHANGED <<segments, clock, streams, reads>>

-----------------------------------------------------------------------------
(***************************************************************************)
(* Deletes.                                                                *)
(***************************************************************************)

\* deleteObjectExactVersion, and its variant UsingObjectLock.
MayDelete(k, v, bypass) ==
  bucket = "locked" /\ ~IsPending(k, v) => ~Protected(objects[<<k, v>>].lock, bypass)

DeleteObjectExactVersion(k, v, bypass) ==
  /\ Exists(k, v)
  /\ MayDelete(k, v, bypass)
  /\ objects' = Remove(k, v)
  /\ segments' = ClearSegments({objects[<<k, v>>].stream})
  /\ UNCHANGED <<expiring, clock, streams, reads>>

\* deleteObjectLastCommittedPlain reads the row in a transaction of its own.
DeleteLastCommittedPlainRead(k, v) ==
  /\ bucket = "plain" /\ plain = NoRef /\ MayStart
  /\ Exists(k, v)
  /\ objects[<<k, v>>].status = "unversioned"
  /\ ~Expired(objects[<<k, v>>])
  /\ plain' = [key |-> k, version |-> v, stream |-> objects[<<k, v>>].stream]
  /\ UNCHANGED <<tables, clock, streams, zombies, expired, copy, failures, stale>>

\* The row with the primary key goes, whatever it is by now, and the segments of
\* the stream that was read.
DeleteLastCommittedPlain ==
  /\ plain # NoRef
  /\ objects' = Remove(plain.key, plain.version)
  /\ segments' = ClearSegments({plain.stream})
  /\ stale' = stale \cup Relied(plain.key, plain.version, plain.stream,
                               ~Protected(objects[<<plain.key, plain.version>>].lock, FALSE))
  /\ plain' = NoRef
  /\ UNCHANGED <<expiring, clock, streams, zombies, expired, copy, failures>>

DeleteObjectLastCommittedSuspended(k, bypass) ==
  LET u == UnversionedAt(k)
      new == nextVersion(0, HighestVersion(k))
  IN
  /\ bucket = "suspended"
  /\ HighestVisible(k) # 0
  /\ new \in Versions
  /\ MayReplace(k, u, bypass)
  /\ objects' = Replace(k, {u}, new, Row(NoStream, "markerUnversioned", 0, NoLock, NoTime))
  /\ segments' = ClearSegments({StreamAt(k, u)})
  /\ UNCHANGED <<expiring, clock, streams, reads>>

\* A marker is put on top, whether there is an object or not.
DeleteObjectLastCommittedVersioned(k) ==
  LET new == HighestVersion(k) + 1 IN
  /\ Versioned
  /\ new \in Versions
  /\ objects' = Replace(k, {}, new, Row(NoStream, "markerVersioned", 0, NoLock, NoTime))
  /\ UNCHANGED <<segments, expiring, clock, streams, reads>>

-----------------------------------------------------------------------------
(***************************************************************************)
(* Object Lock.                                                            *)
(***************************************************************************)

Lockable(k, v) ==
  /\ bucket = "locked"
  /\ objects[<<k, v>>].status \in Committed
  /\ objects[<<k, v>>].expires = NoTime

Held(lock, enabled) == [lock EXCEPT !.hold = enabled]

SetObjectLegalHold(k, v, enabled) ==
  /\ Lockable(k, v)
  /\ objects' = [objects EXCEPT ![<<k, v>>].lock = Held(@, enabled)]
  /\ UNCHANGED <<segments, expiring, clock, streams, reads>>

\* preUpdateRetentionInfo.verify
MayRetain(old, new, bypass) ==
  Protected([old EXCEPT !.hold = FALSE], bypass) => new.mode = old.mode /\ new.until >= old.until

\* The legal hold, kept in the same column, stays.
SetObjectRetention(k, v, new, bypass) ==
  /\ Lockable(k, v)
  /\ MayRetain(objects[<<k, v>>].lock, new, bypass)
  /\ objects' = [objects EXCEPT ![<<k, v>>].lock = [new EXCEPT !.hold = objects[<<k, v>>].lock.hold]]
  /\ UNCHANGED <<segments, expiring, clock, streams, reads>>

-----------------------------------------------------------------------------
(***************************************************************************)
(* Move.                                                                   *)
(***************************************************************************)

\* Mutant of MoveReplaces: an object moved to its own key is deleted first.
MoveReplacesSelf(k, v, to) == IF Versioned THEN 0 ELSE UnversionedAt(to)

\* The unversioned object in the way, unless it is the one that moves.
MoveReplaces(k, v, to) ==
  LET u == IF Versioned THEN 0 ELSE UnversionedAt(to)
  IN  IF to = k /\ StreamAt(to, u) = StreamAt(k, v) THEN 0 ELSE u

FinishMoveObject(k, v, to, lock) ==
  LET row == objects[<<k, v>>]
      old == MoveReplaces(k, v, to)
      new == nextVersion(0, HighestVersion(to))
  IN
  /\ row.status \in Committed
  /\ ~Protected(row.lock, FALSE)
  /\ lock # NoLock => row.expires = NoTime
  /\ MayReplace(to, old, FALSE)
  /\ row.count = Cardinality(Stored(row.stream))
  /\ new \in Versions
  /\ objects' = [Replace(to, {old}, new, Row(row.stream, CommittedStatus(Versioned), row.count, lock, row.expires))
                   EXCEPT ![<<k, v>>] = NoRow]
  /\ segments' = ClearSegments({StreamAt(to, old)})
  /\ UNCHANGED <<expiring, clock, streams, reads>>

-----------------------------------------------------------------------------
(***************************************************************************)
(* Copy: the source is read, a pending object inserted, then its segments, *)
(* and a last transaction commits it.                                      *)
(***************************************************************************)

FinishCopyObjectRead(k, v, to, lock) ==
  LET row == objects[<<k, v>>]
      with == Stored(row.stream)
      marked == {p \in with : <<row.stream, p>> \in expiring}
  IN
  /\ copy = NoCopy /\ MayStart
  /\ row.status \in Committed /\ ~Expired(row)
  /\ row.count = Cardinality(with)
  /\ lock # NoLock => row.expires = NoTime /\ marked = {}
  /\ \E s \in Streams :
       /\ Draw(s)
       /\ copy' = [pc |-> "read", key |-> to, version |-> 0, stream |-> s, lock |-> lock, positions |-> with,
                   expires |-> row.expires, expiring |-> marked, versioned |-> Versioned]
  /\ UNCHANGED <<tables, clock, plain, zombies, expired, failures, stale>>

\* The zombie deadline of a copy is one hour: it passes within the day.
insertPendingCopyObject ==
  LET v == HighestVersion(copy.key) + 1 IN
  /\ copy.pc = "read"
  /\ v \in Versions
  /\ objects' = Replace(copy.key, {}, v,
       [Row(copy.stream, Pending, Cardinality(copy.positions), copy.lock, copy.expires) EXCEPT !.deadline = now])
  /\ copy' = [copy EXCEPT !.pc = "pending", !.version = v]
  /\ UNCHANGED <<segments, expiring, clock, streams, plain, zombies, expired, failures, stale>>

\* The pending object is not looked at: the segments of one that is gone are orphans.
finalizeSegmentsCopy ==
  /\ copy.pc = "pending"
  /\ segments' = [segments EXCEPT ![copy.stream] = [p \in Positions |-> IF p \in copy.positions THEN now ELSE NoTime]]
  /\ expiring' = (expiring \ ({copy.stream} \X Positions)) \cup ({copy.stream} \X copy.expiring)
  /\ stale' = stale \cup Relied(copy.key, copy.version, copy.stream, IsPending(copy.key, copy.version))
  /\ copy' = [copy EXCEPT !.pc = "segments"]
  /\ UNCHANGED <<objects, clock, streams, plain, zombies, expired, failures>>

\* What the last transaction does to the destination: the unversioned object goes,
\* the pending object is updated in place or replaced by one at a new version.
CopyOld == IF copy.versioned THEN 0 ELSE UnversionedAt(copy.key)
CopyVersion == nextVersion(copy.version, HighestVersion(copy.key))

\* commitPendingCopyObject2: neither write looks at the stream or the status of
\* the row it finds.  A delete marker that becomes an object shows its stream id.
CopyCommit ==
  LET k == copy.key
      row == objects[<<k, copy.version>>]
      status == CommittedStatus(copy.versioned)
      fit == IsPending(k, copy.version) /\ row.expires = copy.expires
      hit == stale \cup Relied(k, copy.version, copy.stream, fit)
  IN
  /\ copy.pc = "segments"
  /\ MayReplace(k, CopyOld, FALSE)
  /\ CopyVersion \in Versions
  /\ \/ /\ CopyVersion = copy.version
        /\ Exists(k, copy.version) /\ copy.version # CopyOld
        /\ \E s \in Streams :
             /\ IF row.stream = NoStream THEN Draw(s) ELSE s = row.stream /\ UNCHANGED streams
             /\ objects' = Replace(k, {CopyOld}, copy.version,
                  [row EXCEPT !.stream = s, !.status = status, !.deadline = NoTime, !.signed = Unsigned])
             /\ stale' = IF row.stream = s THEN hit ELSE hit \cup {s}
     \/ /\ CopyVersion # copy.version
        /\ objects' = Replace(k, {CopyOld, copy.version}, CopyVersion,
             Row(copy.stream, status, Cardinality(copy.positions), copy.lock, copy.expires))
        /\ stale' = hit
        /\ UNCHANGED streams
  /\ segments' = ClearSegments({StreamAt(k, CopyOld)})
  /\ copy' = NoCopy
  /\ UNCHANGED <<expiring, clock, plain, zombies, expired, failures>>

\* The cleanup of a copy: deleteObjectExactVersion, with no regard to Object Lock.
CopyCleanup(v) ==
  LET k == copy.key IN
  /\ objects' = [r \in Keys \X Versions |-> IF r = <<k, v>> THEN NoRow ELSE objects[r]]
  /\ segments' = ClearSegments({StreamAt(k, v)})
  /\ stale' = stale \cup Relied(k, v, copy.stream, IsPending(k, v))
  /\ copy' = NoCopy
  /\ UNCHANGED <<expiring, clock, streams, plain, zombies, expired>>

\* The segments cannot be inserted, or the destination is protected: the version
\* is still the one of the pending object.
CopyRefused ==
  /\ copy.pc \in {"pending", "segments"}
  /\ copy.pc = "segments" => ~MayReplace(copy.key, CopyOld, FALSE)
  /\ copy.pc = "pending" => failures < MaxFailures
  /\ failures' = IF copy.pc = "pending" THEN failures + 1 ELSE failures
  /\ CopyCleanup(copy.version)

\* The transaction fails after its body ran, as it must when the row to update is
\* not there, or is the one it replaced: the version has been changed by then.
CopyFailed ==
  LET mustFail == /\ CopyVersion = copy.version
                  /\ Exists(copy.key, copy.version) => copy.version = CopyOld
  IN
  /\ copy.pc = "segments"
  /\ MayReplace(copy.key, CopyOld, FALSE)
  /\ CopyVersion \in Versions
  /\ mustFail \/ failures < MaxFailures
  /\ failures' = IF mustFail THEN failures ELSE failures + 1
  /\ CopyCleanup(CopyVersion)

\* The satellite stops in the middle of a copy.
CopyLost ==
  /\ copy # NoCopy
  /\ failures < MaxFailures
  /\ failures' = failures + 1
  /\ copy' = NoCopy
  /\ UNCHANGED <<tables, clock, streams, plain, zombies, expired, stale>>

-----------------------------------------------------------------------------
(***************************************************************************)
(* The cleanup chores: rows are selected in one transaction, and deleted   *)
(* in another.                                                             *)
(***************************************************************************)

Select(Chosen(_)) ==
  {r \in Refs : Exists(r.key, r.version) /\ r.stream = StreamAt(r.key, r.version)
                /\ Chosen(objects[<<r.key, r.version>>])}

IterateZombieObjects ==
  LET Zombie(row) == row.status = Pending /\ row.deadline <= now IN
  /\ zombies.batch = {} /\ MayStart
  /\ Select(Zombie) # {}
  /\ zombies' = [batch |-> Select(Zombie), day |-> now]
  /\ UNCHANGED <<tables, clock, streams, plain, expired, copy, failures, stale>>

\* The row is still there, and none of its segments was made in the day before the
\* rows were selected.  Its status is not looked at.
Inactive(r) ==
  /\ StreamAt(r.key, r.version) = r.stream
  /\ \A p \in Positions : segments[r.stream][p] < zombies.day

DeleteInactiveObjectsAndSegments ==
  LET gone == {r \in zombies.batch : Inactive(r)} IN
  /\ zombies.batch # {}
  /\ objects' = [r \in Keys \X Versions |->
       IF \E z \in gone : r = <<z.key, z.version>> THEN NoRow ELSE objects[r]]
  /\ segments' = ClearSegments({r.stream : r \in gone})
  /\ stale' = stale \cup UNION {Relied(z.key, z.version, z.stream, IsPending(z.key, z.version)) : z \in gone}
  /\ zombies' = [batch |-> {}, day |-> 0]
  /\ UNCHANGED <<expiring, clock, streams, plain, expired, copy, failures>>

IterateExpiredObjects ==
  /\ expired = {} /\ MayStart
  /\ Select(Expired) # {}
  /\ expired' = Select(Expired)
  /\ UNCHANGED <<tables, clock, streams, plain, zombies, copy, failures, stale>>

\* The segments go by stream id, whether the row still has it or not.
DeleteObjectsAndSegmentsNoVerify ==
  LET found == {r \in expired : StreamAt(r.key, r.version) = r.stream} IN
  /\ expired # {}
  /\ objects' = [r \in Keys \X Versions |->
       IF \E z \in found : r = <<z.key, z.version>> THEN NoRow ELSE objects[r]]
  /\ segments' = ClearSegments({r.stream : r \in expired})
  /\ stale' = stale \cup UNION {Relied(z.key, z.version, z.stream, Expired(objects[<<z.key, z.version>>])) : z \in expired}
  /\ expired' = {}
  /\ UNCHANGED <<expiring, clock, streams, plain, zombies, copy, failures>>

-----------------------------------------------------------------------------
(***************************************************************************)
(* The bucket's settings, and time.                                        *)
(***************************************************************************)

SetBucket(mode) ==
  /\ \/ bucket = "plain" /\ mode \in {"enabled", "locked"}
     \/ bucket = "enabled" /\ mode \in {"suspended", "locked"}
     \/ bucket = "suspended" /\ mode = "enabled"
  /\ bucket' = mode
  /\ UNCHANGED <<tables, now, streams, reads>>

Tick ==
  /\ now < MaxNow
  /\ now' = now + 1
  /\ UNCHANGED <<tables, bucket, streams, reads>>

-----------------------------------------------------------------------------

Upload ==
  \E k \in Keys :
    \/ \E req \in Requests :
         \/ BeginObjectNextVersion(k, req)
         \/ \E p \in Positions : CommitInlineObject(k, req, p)
    \/ \E v \in Versions :
         \/ \E p \in Positions : CommitSegment(k, v, p)
         \/ \E only \in SUBSET Positions : CommitObject(k, v, only)
         \/ DeletePendingObject(k, v)

Delete ==
  \/ \E k \in Keys, bypass \in BOOLEAN :
       \/ \E v \in Versions : DeleteObjectExactVersion(k, v, bypass)
       \/ DeleteObjectLastCommittedSuspended(k, bypass)
  \/ \E k \in Keys :
       \/ \E v \in Versions : DeleteLastCommittedPlainRead(k, v)
       \/ DeleteObjectLastCommittedVersioned(k)
  \/ DeleteLastCommittedPlain

Lock ==
  \E k \in Keys, v \in Versions :
    \/ \E enabled \in Holds : SetObjectLegalHold(k, v, enabled)
    \/ \E new \in {l \in Locks : ~l.hold}, bypass \in BOOLEAN : SetObjectRetention(k, v, new, bypass)

CopyMove ==
  \/ \E k, to \in Keys, v \in Versions, req \in Requests :
       \/ FinishMoveObject(k, v, to, req.lock)
       \/ FinishCopyObjectRead(k, v, to, req.lock)
  \/ insertPendingCopyObject
  \/ finalizeSegmentsCopy
  \/ CopyCommit
  \/ CopyRefused
  \/ CopyFailed
  \/ CopyLost

Chores ==
  \/ IterateZombieObjects
  \/ DeleteInactiveObjectsAndSegments
  \/ IterateExpiredObjects
  \/ DeleteObjectsAndSegmentsNoVerify

Next ==
  \/ Upload
  \/ Delete
  \/ Lock
  \/ CopyMove
  \/ Chores
  \/ \E mode \in {"enabled", "suspended", "locked"} : SetBucket(mode)
  \/ Tick

Spec == Init /\ [][Next]_vars

-----------------------------------------------------------------------------
(***************************************************************************)
(* Properties.                                                             *)
(***************************************************************************)

\* There is at most one unversioned object or marker per key, whatever order of
\* uploads, copies, moves and changes of the bucket's versioning.
OneUnversioned ==
  \A k \in Keys : \A v, w \in Versions :
    objects[<<k, v>>].status \in Unversioned /\ objects[<<k, w>>].status \in Unversioned => v = w

CommittedWhole(ignored) ==
  \A k \in Keys, v \in Versions :
    objects[<<k, v>>].status \in Committed /\ objects[<<k, v>>].stream \notin ignored
      => objects[<<k, v>>].count = Cardinality(Stored(objects[<<k, v>>].stream))

\* A committed object has all of its segments and no other, unless a write that
\* relied on an outdated read hit its stream.
ObjectWhole == CommittedWhole(stale)

\* A committed object has all of its segments and no other.
ObjectAlwaysWhole == CommittedWhole({})

\* Segments belong to a row of the objects table, so that a chore can find them,
\* unless a write that relied on an outdated read hit their stream.
SegmentsOwned ==
  \A s \in Streams \ stale :
    Stored(s) # {} => \E k \in Keys, v \in Versions : StreamAt(k, v) = s

\* Two rows never share a stream: a copy or a move that left both would let the
\* deletion of one take the segments of the other.
StreamsUnique ==
  \A k, l \in Keys, v, w \in Versions :
    StreamAt(k, v) = StreamAt(l, w) /\ StreamAt(k, v) # NoStream => k = l /\ v = w

LockedStays(ignored) ==
  \A k \in Keys, v \in Versions :
    LET row == objects[<<k, v>>] IN
    row.status \in Committed /\ Protected(row.lock, TRUE) /\ row.stream \notin ignored
      => /\ [objects'[<<k, v>>] EXCEPT !.lock = row.lock] = row
         /\ row.stream # NoStream => segments'[row.stream] = segments[row.stream]
         /\ row.lock.mode = "compliance" /\ now < row.lock.until
              => objects'[<<k, v>>].lock.mode = "compliance" /\ objects'[<<k, v>>].lock.until >= row.lock.until

\* An object with a legal hold or a compliance retention keeps its row and its
\* segments, and the retention is not made shorter, in every step but a write that
\* relied on an outdated read.
LockedKept == [][LockedStays(stale')]_vars

\* The same without the exception.
LockedAlwaysKept == [][LockedStays({})]_vars

\* A versioned object or marker is committed above all other committed ones.
NewestOnTop ==
  [][\A k \in Keys, v \in Versions :
       /\ objects'[<<k, v>>].status \in {"versioned", "markerVersioned"}
       /\ ~(Exists(k, v) /\ objects[<<k, v>>].status = objects'[<<k, v>>].status /\ objects[<<k, v>>].stream = objects'[<<k, v>>].stream)
       => \A w \in Versions : objects'[<<k, w>>].status \in Committed \cup Markers => w <= v]_vars
=============================================================================
