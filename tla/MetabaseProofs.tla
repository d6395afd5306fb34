---------------------------- MODULE MetabaseProofs ----------------------------
(***************************************************************************)
(* Proofs about the objects and segments tables.                           *)
(*                                                                         *)
(* The invariant is about rows and streams: a stream is in one row, its    *)
(* segments are as many as the row says, and both are so until a write     *)
(* that relied on an outdated read makes the stream stale.  To be          *)
(* inductive it says besides that streams were drawn, that the stream of   *)
(* a copy is in its own pending object only, and where locks may be: the   *)
(* chore that deletes what has expired meets no lock because of that.      *)
(*                                                                         *)
(* All the transactions write in one of a few ways.  A write takes a set   *)
(* of rows D away, puts a row at place c, and changes the segments of the  *)
(* streams C.  It Fits if nine conditions hold, each of which accounts for *)
(* one part of the invariant.  There is a lemma for every action that it   *)
(* writes in one of these ways and Fits, from the action's guards.         *)
(***************************************************************************)
EXTENDS Metabase, FiniteSetTheorems, WellFoundedInduction, TLAPS

-----------------------------------------------------------------------------
(***************************************************************************)
(* The inductive invariant.                                                *)
(***************************************************************************)

Places == Keys \X Versions

\* The stream of a row, and of the row at a place.
StreamOf(row) == IF row.status = "none" THEN NoStream ELSE row.stream
At(r) == StreamOf(objects[r])

\* Delete markers, and they alone, have no stream.
StreamsSet ==
  \A r \in Places : objects[r].status # "none" => (At(r) = NoStream <=> objects[r].status \in Markers)

\* A stream is drawn before anything refers to it, and has no segments before.
Drawn ==
  /\ \A r \in Places : At(r) <= streams
  /\ \A s \in Streams : s > streams => segments[s] = NoSegments
  /\ copy # NoCopy => copy.stream <= streams

\* The stream of a copy that is under way is the stream of its pending object only.
CopyAlone ==
  copy # NoCopy =>
    /\ \A r \in Places : At(r) = copy.stream =>
         /\ copy.pc # "read" /\ r = <<copy.key, copy.version>>
         /\ IsPending(r[1], r[2]) /\ objects[r].signed = Unsigned
         /\ objects[r].count = Cardinality(copy.positions) /\ objects[r].lock = copy.lock
    /\ copy.pc \in {"read", "pending"} => Stored(copy.stream) = {}
    /\ copy.pc = "segments" /\ copy.stream \notin stale
       /\ (\E r \in Places : At(r) = copy.stream) => Stored(copy.stream) = copy.positions

\* There are locks only in a bucket with Object Lock, and what has one does not expire.
LocksKnown ==
  /\ \A r \in Places : objects[r].status # "none" /\ objects[r].lock # NoLock =>
       /\ bucket = "locked"
       /\ objects[r].status = Pending /\ objects[r].signed # Unsigned => objects[r].signed.ttl = NoTime
       /\ objects[r].status \in Committed /\ objects[r].stream \notin stale => objects[r].expires = NoTime
  /\ copy # NoCopy /\ copy.lock # NoLock => bucket = "locked" /\ copy.expires = NoTime

\* The inductive invariant: the properties the runs check, and what they need.
Inv ==
  /\ TypeOK /\ StreamsSet /\ Drawn /\ CopyAlone /\ LocksKnown
  /\ OneUnversioned /\ StreamsUnique /\ ObjectWhole /\ SegmentsOwned

-----------------------------------------------------------------------------
(***************************************************************************)
(* Versions.                                                               *)
(***************************************************************************)

\* A set of numbers has a least, and below a bound a greatest one.
LEMMA Least ==
  ASSUME NEW S, S \subseteq Nat, S # {}
  PROVE  \E m \in S : \A n \in S : m <= n
<1>1. IsWellFoundedOn(OpToRel(<, Nat), Nat)
  BY NatLessThanWellFounded
<1> DEFINE R == OpToRel(<, Nat)
<1>2. \A x, y \in Nat : x < y => <<x, y>> \in R
  BY DEF OpToRel
<1>3. IsWellFoundedOn(R, Nat)
  BY <1>1
<1> HIDE DEF R
<1>4. PICK m \in S : \A n \in S : ~ (<<n, m>> \in R)
  BY <1>3, WFMin
<1>5. \A n \in S : ~(n < m)
  BY <1>2, <1>4
<1> QED BY <1>4, <1>5

\* The greatest one, below a bound.
LEMMA Greatest ==
  ASSUME NEW N \in Nat, NEW S, S \subseteq 0 .. N, S # {}
  PROVE  \E m \in S : \A n \in S : n <= m
<1>1. \A n \in S : n \in Nat /\ n <= N
  OBVIOUS
<1> DEFINE T == {N - n : n \in S}
<1>2. T \subseteq Nat /\ T # {}
  <2>1. \A n \in Nat : n <= N => N - n \in Nat
    OBVIOUS
  <2>2. T \subseteq Nat
    BY <1>1, <2>1
  <2> QED BY <2>2
<1>3. PICK t \in T : \A u \in T : t <= u
  BY <1>2, Least
<1>4. PICK m \in S : t = N - m
  BY <1>3
<1>5. \A n \in S : N - m <= N - n
  BY <1>3, <1>4
<1>6. \A n, k \in Nat : N - k <= N - n => n <= k
  OBVIOUS
<1> QED BY <1>1, <1>4, <1>5, <1>6

\* HighestIn returns the greatest version, or 0 when there is none.
LEMMA HighestInSet ==
  ASSUME NEW vs \in SUBSET Versions
  PROVE  /\ HighestIn(vs) \in vs \cup {0}
         /\ \A v \in vs : v <= HighestIn(vs)
<1>1. MaxVersion \in Nat /\ \A v \in Versions : v \in Nat /\ v <= MaxVersion /\ v # 0
  BY MetabaseAssumption DEF Versions
<1>2. vs \cup {0} \subseteq 0 .. MaxVersion /\ vs \cup {0} # {}
  BY <1>1
<1>3. \E m \in vs \cup {0} : \A n \in vs \cup {0} : n <= m
  BY <1>1, <1>2, Greatest
<1>4. \E m \in vs \cup {0} : \A n \in vs : n <= m
  BY <1>3
<1> QED BY <1>4 DEF HighestIn

\* What a transaction's queries say of a key: nothing is above the highest version,
\* and the unversioned row is found if there is one.
LEMMA HighestVersions ==
  ASSUME NEW k \in Keys
  PROVE  /\ HighestVersion(k) \in Versions \cup {0}
         /\ \A v \in Versions : Exists(k, v) => v <= HighestVersion(k)
         /\ ~Exists(k, HighestVersion(k) + 1) \/ HighestVersion(k) + 1 \notin Versions
         /\ UnversionedAt(k) \in Versions \cup {0}
         /\ UnversionedAt(k) # 0 => objects[<<k, UnversionedAt(k)>>].status \in Unversioned
         /\ UnversionedAt(k) = 0 => \A v \in Versions : objects[<<k, v>>].status \notin Unversioned
         /\ HighestVisible(k) \in Versions \cup {0}
<1>0. \A v \in Versions : v \in Nat /\ v # 0 /\ ~(v <= 0)
  BY MetabaseAssumption DEF Versions
<1> DEFINE A == {v \in Versions : Exists(k, v)}
           B == {v \in Versions : objects[<<k, v>>].status \in Unversioned}
           V == {v \in Versions : Exists(k, v) /\ ~IsPending(k, v)}
<1>1. /\ HighestVersion(k) \in A \cup {0} /\ \A v \in A : v <= HighestVersion(k)
  BY HighestInSet DEF HighestVersion
<1>2. /\ UnversionedAt(k) \in B \cup {0} /\ \A v \in B : v <= UnversionedAt(k)
  BY HighestInSet DEF UnversionedAt
<1>3. HighestVisible(k) \in V \cup {0}
  BY HighestInSet DEF HighestVisible
<1>4. HighestVersion(k) \in Nat
  BY <1>0, <1>1
<1>5. \A h \in Nat : ~(h + 1 <= h)
  OBVIOUS
<1> QED BY <1>0, <1>1, <1>2, <1>3, <1>4, <1>5

\* The version a commit takes is the pending one, if nothing is above it, or a new one.
LEMMA NextVersions ==
  ASSUME NEW k \in Keys, NEW v \in Versions \cup {0}
  PROVE  LET new == nextVersion(v, HighestVersion(k)) IN
         /\ \A w \in Versions : Exists(k, w) => w <= new
         /\ new # v => new = HighestVersion(k) + 1 /\ ~(new \in Versions /\ Exists(k, new))
<1>0. \A w \in Versions \cup {0} : w \in Nat
  BY MetabaseAssumption DEF Versions
<1>1. HighestVersion(k) \in Nat /\ v \in Nat
  BY <1>0, HighestVersions
<1>2. \A w, h \in Nat : w <= h => w <= h + 1
  OBVIOUS
<1>3. \A w \in Versions : Exists(k, w) => w <= HighestVersion(k) /\ w <= HighestVersion(k) + 1
  BY <1>0, <1>1, <1>2, HighestVersions
<1>5. CASE v = HighestVersion(k) /\ v # 0
  BY <1>3, <1>5 DEF nextVersion
<1>6. CASE ~(v = HighestVersion(k) /\ v # 0)
  <2>1. nextVersion(v, HighestVersion(k)) = HighestVersion(k) + 1
    BY <1>6 DEF nextVersion
  <2> QED BY <1>3, <2>1, HighestVersions
<1> QED BY <1>5, <1>6

-----------------------------------------------------------------------------
(***************************************************************************)
(* Rows and their types.                                                   *)
(***************************************************************************)

Table == [Places -> Rows \cup {NoRow}]
SegmentTable == [Streams -> [Positions -> Times]]
Zombies == [batch : SUBSET Refs, day : 0 .. MaxNow]

\* The type invariant, with the sets of the tables named.
LEMMA TypeParts ==
  TypeOK <=>
    /\ objects \in Table
    /\ segments \in SegmentTable
    /\ expiring \subseteq Streams \X Positions
    /\ bucket \in Buckets
    /\ streams \in 0 .. MaxStreams
    /\ now \in 0 .. MaxNow
    /\ plain \in Refs \cup {NoRef}
    /\ zombies \in Zombies
    /\ expired \in SUBSET Refs
    /\ copy \in Copies \cup {NoCopy}
    /\ failures \in 0 .. MaxFailures
    /\ stale \subseteq Streams
BY DEF TypeOK, Table, SegmentTable, Zombies, Places

\* The fields of a row, and how the statuses exclude one another.
LEMMA RowFields ==
  /\ NoRow.status = "none" /\ StreamOf(NoRow) = NoStream
  /\ NoRow.status \notin Statuses /\ "none" \notin Statuses
  /\ Statuses = {Pending} \cup Committed \cup Markers /\ Pending \notin Committed \cup Markers
  /\ Committed \cap Markers = {}
  /\ Unversioned \subseteq Committed \cup Markers
  /\ \A row \in Rows :
       /\ row.stream \in Streams \cup {NoStream} /\ row.status \in Statuses
       /\ row.count \in 0 .. Cardinality(Positions) /\ row.lock \in Locks /\ row.expires \in Times
       /\ StreamOf(row) = row.stream
       /\ row.signed \in [versioned : BOOLEAN, ttl : Times] \cup {Unsigned}
       /\ row.signed # Unsigned => row.signed.versioned \in BOOLEAN /\ row.signed.ttl \in Times
<1>1. NoRow.status = "none" /\ StreamOf(NoRow) = NoStream
  BY DEF NoRow, StreamOf
<1>2. \A row \in Rows :
        /\ row.stream \in Streams \cup {NoStream} /\ row.status \in Statuses
        /\ row.count \in 0 .. Cardinality(Positions) /\ row.lock \in Locks /\ row.expires \in Times
        /\ row.signed \in [versioned : BOOLEAN, ttl : Times] \cup {Unsigned}
  BY DEF Rows
<1>3. "none" \notin Statuses
  BY DEF Statuses, Pending, Committed, Markers
<1>4. \A row \in Rows : StreamOf(row) = row.stream
  BY <1>2, <1>3 DEF StreamOf
<1>5. Pending \notin Committed \cup Markers /\ Committed \cap Markers = {}
      /\ Unversioned \subseteq Committed \cup Markers
  BY DEF Pending, Committed, Markers, Unversioned
<1> QED BY <1>1, <1>2, <1>3, <1>4, <1>5 DEF Statuses

\* Streams are numbers, and NoStream is none of them.
LEMMA StreamNumbers ==
  /\ NoStream \notin Streams /\ Streams \subseteq Nat /\ NoStream = 0
  /\ \A s \in Streams : 1 <= s /\ s <= MaxStreams
BY MetabaseAssumption DEF NoStream, Streams

\* Every place has a row or is empty.
LEMMA PlaceFacts ==
  ASSUME TypeOK
  PROVE  /\ \A r \in Places : /\ r = <<r[1], r[2]>> /\ r[1] \in Keys /\ r[2] \in Versions
                              /\ objects[r] \in Rows \/ objects[r] = NoRow
                              /\ objects[r].status # "none" <=> objects[r] \in Rows
                              /\ objects[r].status \in Statuses \cup {"none"}
                              /\ At(r) \in Streams \cup {NoStream}
                              /\ objects[r] \in Rows => At(r) = objects[r].stream
                              /\ objects[r] = NoRow => At(r) = NoStream
         /\ \A k \in Keys, v \in Versions : /\ <<k, v>> \in Places
                                            /\ StreamAt(k, v) = At(<<k, v>>)
                                            /\ Exists(k, v) <=> objects[<<k, v>>] \in Rows
         /\ \A k : StreamAt(k, 0) = NoStream
<1>1. \A r \in Places : r = <<r[1], r[2]>> /\ r[1] \in Keys /\ r[2] \in Versions
  BY DEF Places
<1>2. \A r \in Places : objects[r] \in Rows \/ objects[r] = NoRow
  BY TypeParts DEF Table
<1>3. \A r \in Places : objects[r].status # "none" <=> objects[r] \in Rows
  BY <1>2, RowFields
<1>4. \A k \in Keys, v \in Versions : <<k, v>> \in Places /\ v # 0
  BY MetabaseAssumption DEF Places, Versions
<1>5. \A k \in Keys, v \in Versions :
        StreamAt(k, v) = At(<<k, v>>) /\ (Exists(k, v) <=> objects[<<k, v>>] \in Rows)
  BY <1>3, <1>4, RowFields DEF StreamAt, At, StreamOf, Exists
<1>6. \A k : StreamAt(k, 0) = NoStream
  BY DEF StreamAt
<1>7. \A r \in Places : /\ objects[r].status \in Statuses \cup {"none"}
                        /\ At(r) \in Streams \cup {NoStream}
                        /\ objects[r] \in Rows => At(r) = objects[r].stream
                        /\ objects[r] = NoRow => At(r) = NoStream
  BY <1>2, RowFields DEF At
<1> QED BY <1>1, <1>2, <1>3, <1>4, <1>5, <1>6, <1>7

\* The fields of a lock; the legal hold changes independently of the retention.
LEMMA LockFields ==
  /\ NoLock \in Locks /\ NoLock.hold = FALSE /\ NoLock.mode = "none"
  /\ \A l \in Locks : l.hold \in Holds /\ l.mode \in Modes \cup {"none"} /\ l.until \in 0 .. MaxNow
  /\ \A l \in Locks, h \in Holds : [l EXCEPT !.hold = h] \in Locks
<1> DEFINE L == [hold : Holds, mode : Modes \cup {"none"}, until : 0 .. MaxNow]
<1>1. NoLock \in L /\ NoLock.hold = FALSE /\ NoLock.mode = "none" /\ NoLock.until = 0
  <2>0. 0 \in 0 .. MaxNow
    BY MetabaseAssumption
  <2>1. FALSE \in Holds
    BY MetabaseAssumption
  <2>2. NoLock \in L
    BY <2>0, <2>1 DEF NoLock
  <2>3. NoLock.hold = FALSE /\ NoLock.mode = "none" /\ NoLock.until = 0
    BY DEF NoLock
  <2> QED BY <2>2, <2>3
<1>2. NoLock \in Locks
  BY <1>1 DEF Locks
<1>3. \A l \in Locks : l \in L /\ (l.mode = "none" <=> l.until = 0)
  BY DEF Locks
<1>4. \A l \in L : l.hold \in Holds /\ l.mode \in Modes \cup {"none"} /\ l.until \in 0 .. MaxNow
  OBVIOUS
<1>5. ASSUME NEW l \in Locks, NEW h \in Holds
      PROVE  [l EXCEPT !.hold = h] \in Locks
  <2>1. /\ [l EXCEPT !.hold = h] \in L
        /\ [l EXCEPT !.hold = h].mode = l.mode /\ [l EXCEPT !.hold = h].until = l.until
    BY <1>3
  <2> QED BY <1>3, <2>1 DEF Locks
<1> QED BY <1>1, <1>2, <1>3, <1>4, <1>5

\* A row that is put together has the type of a row.
LEMMA RowTyped ==
  ASSUME NEW s \in Streams \cup {NoStream}, NEW status \in Statuses,
         NEW n \in 0 .. Cardinality(Positions), NEW lock \in Locks, NEW expires \in Times
  PROVE  /\ Row(s, status, n, lock, expires) \in Rows
         /\ LET row == Row(s, status, n, lock, expires) IN
            /\ row.stream = s /\ row.status = status /\ row.count = n
            /\ row.lock = lock /\ row.expires = expires /\ row.signed = Unsigned
BY DEF Row, Rows

-----------------------------------------------------------------------------
(***************************************************************************)
(* What a step does to the tables.                                         *)
(***************************************************************************)

\* The rows at D go, row is put at c, and the segments of the streams in C change.
Write(D, c, row, C) ==
  /\ D \subseteq Places /\ C \subseteq Streams
  /\ row \in Rows => c \in Places
  /\ row \in Rows \cup {NoRow}
  /\ \A r \in Places : objects'[r] = IF r = c THEN row ELSE IF r \in D THEN NoRow ELSE objects[r]
  /\ objects' \in Table /\ segments' \in SegmentTable
  /\ \A s \in Streams \ C : segments'[s] = segments[s]
  /\ streams' \in 0 .. MaxStreams /\ streams <= streams'
  /\ stale' \subseteq Streams /\ stale \subseteq stale'

\* The row is the only unversioned one of its key.
Single(D, c, row) ==
  row.status \in Unversioned =>
    \A r \in Places : r[1] = c[1] /\ objects[r].status \in Unversioned => r \in D \cup {c}

\* The row alone has its stream, which was drawn, if it is no marker.
Alone(D, c, row) ==
  /\ row \in Rows => (row.stream = NoStream <=> row.status \in Markers)
  /\ StreamOf(row) <= streams'
  /\ StreamOf(row) # NoStream => \A r \in Places : At(r) = StreamOf(row) => r \in D \cup {c}

\* The segments that are left of a stream.
Left(s) == IF s = NoStream THEN {} ELSE {p \in Positions : segments'[s][p] # NoTime}

\* Segments change only with their row: what goes takes its segments with it, and
\* what stays keeps them, unless the write relied on an outdated read.
Cleared(D, c, row, C) ==
  /\ \A r \in Places : At(r) \in C /\ r \notin D \cup {c} => At(r) \in stale'
  /\ \A r \in Places : r \in D \cup {c} /\ At(r) # NoStream =>
       At(r) = StreamOf(row) \/ At(r) \in stale' \/ Left(At(r)) = {}
  /\ \A s \in C : s = StreamOf(row) \/ s \in stale' \/ Left(s) = {}
  /\ \A s \in C : s <= streams' \/ segments'[s] = NoSegments

\* A committed row has all of its segments.
Whole(row) ==
  row.status \in Committed /\ row.stream \notin stale' => row.count = Cardinality(Left(row.stream))

\* The row of a copy that goes on stays as it is.
Apart(c, row, C) ==
  copy' # NoCopy /\ copy' = copy =>
    /\ StreamOf(row) = copy.stream =>
         /\ c = <<copy.key, copy.version>> /\ copy.pc # "read"
         /\ row.status = Pending /\ row.signed = Unsigned
         /\ row.count = Cardinality(copy.positions) /\ row.lock = copy.lock
         /\ copy.stream \notin C /\ At(c) = copy.stream
    /\ copy.stream \in C => Left(copy.stream) = {}

\* A lock is given only in a bucket with Object Lock, and to what does not expire.
LockKnown(row) ==
  row \in Rows /\ row.lock # NoLock =>
    /\ bucket = "locked"
    /\ row.status = Pending /\ row.signed # Unsigned => row.signed.ttl = NoTime
    /\ row.status \in Committed /\ row.stream \notin stale' => row.expires = NoTime

\* No protected object goes, or loses a segment, or its lock.
Guarded(D, c, row, C) ==
  \A r \in Places :
    objects[r].status \in Committed /\ Protected(objects[r].lock, TRUE) /\ objects[r].stream \notin stale'
      => /\ r \notin D \/ r = c
         /\ r = c =>
              /\ objects[r].stream \notin C
              /\ [row EXCEPT !.lock = objects[r].lock] = objects[r]
              /\ objects[r].lock.mode = "compliance" /\ now < objects[r].lock.until
                   => row.lock.mode = "compliance" /\ row.lock.until >= objects[r].lock.until

\* What is versioned is put on top.
OnTop(c, row) ==
  row.status \in {"versioned", "markerVersioned"} =>
    \/ objects[c].status = row.status /\ objects[c].stream = row.stream
    \/ \A w \in Versions : Exists(c[1], w) => w <= c[2]

\* A write that keeps the invariant, what is locked and the order of versions.
Fits(D, c, row, C) ==
  /\ Write(D, c, row, C) /\ Single(D, c, row) /\ Alone(D, c, row) /\ Cleared(D, c, row, C)
  /\ Whole(row) /\ Apart(c, row, C) /\ LockKnown(row) /\ Guarded(D, c, row, C) /\ OnTop(c, row)

-----------------------------------------------------------------------------
(***************************************************************************)
(* What such a step preserves.                                             *)
(***************************************************************************)

\* What is at a place after a write.
LEMMA AtAfter ==
  ASSUME TypeOK, NEW D, NEW c, NEW row, NEW C, Write(D, c, row, C)
  PROVE  /\ \A r \in Places :
              /\ r = c => objects'[r] = row /\ At(r)' = StreamOf(row)
              /\ r # c /\ r \in D => objects'[r] = NoRow /\ At(r)' = NoStream
              /\ r # c /\ r \notin D => objects'[r] = objects[r] /\ At(r)' = At(r)
         /\ \A k \in Keys, v \in Versions : StreamAt(k, v)' = At(<<k, v>>)'
         /\ \A r \in Places : r = <<r[1], r[2]>> /\ r[1] \in Keys /\ r[2] \in Versions
         /\ \A s \in Streams \ C : Left(s) = Stored(s)
         /\ Left(NoStream) = {} /\ Stored(NoStream) = {}
<1>1. \A r \in Places : objects'[r] = IF r = c THEN row ELSE IF r \in D THEN NoRow ELSE objects[r]
  BY DEF Write
<1>2. \A r \in Places :
        /\ r = c => objects'[r] = row /\ At(r)' = StreamOf(row)
        /\ r # c /\ r \in D => objects'[r] = NoRow /\ At(r)' = NoStream
        /\ r # c /\ r \notin D => objects'[r] = objects[r] /\ At(r)' = At(r)
  BY <1>1, RowFields DEF At
<1>3. \A k \in Keys, v \in Versions : v # 0 /\ <<k, v>> \in Places
  BY MetabaseAssumption DEF Versions, Places
<1>4. \A k \in Keys, v \in Versions : StreamAt(k, v)' = At(<<k, v>>)'
  BY <1>3 DEF StreamAt, At, StreamOf, Exists
<1>5. /\ \A s \in Streams \ C : Left(s) = Stored(s)
      /\ Left(NoStream) = {} /\ Stored(NoStream) = {}
  BY DEF Stored, Left, Write
<1> QED BY <1>2, <1>4, <1>5, PlaceFacts

\* A key keeps at most one unversioned row.
LEMMA SinglePreserves ==
  ASSUME TypeOK, OneUnversioned, NEW D, NEW c, NEW row, NEW C, Write(D, c, row, C), Single(D, c, row)
  PROVE  OneUnversioned'
<1>1. ASSUME NEW r \in Places, NEW q \in Places, r[1] = q[1],
             objects[r].status \in Unversioned, objects[q].status \in Unversioned
      PROVE  r = q
  <2>1. r = <<r[1], r[2]>> /\ q = <<r[1], q[2]>> /\ r[1] \in Keys /\ r[2] \in Versions /\ q[2] \in Versions
    BY <1>1, PlaceFacts
  <2>2. r[2] = q[2]
    BY <1>1, <2>1 DEF OneUnversioned
  <2> QED BY <2>1, <2>2
<1>2. ASSUME NEW r \in Places, NEW q \in Places, r[1] = q[1],
             objects'[r].status \in Unversioned, objects'[q].status \in Unversioned
      PROVE  r = q
  <2>1. "none" \notin Unversioned
    BY DEF Unversioned
  <2>2. NoRow.status \notin Unversioned
    BY <2>1, RowFields
  <2>3. (r = c \/ r \notin D) /\ (q = c \/ q \notin D)
    BY <1>2, <2>2, AtAfter
  <2>4. CASE r # c /\ q # c
    BY <1>1, <1>2, <2>3, <2>4, AtAfter
  <2>5. CASE r = c
    BY <1>2, <2>3, <2>5, AtAfter DEF Single
  <2>6. CASE q = c
    BY <1>2, <2>3, <2>6, AtAfter DEF Single
  <2> QED BY <2>4, <2>5, <2>6
<1>3. ASSUME NEW k \in Keys, NEW v \in Versions, NEW w \in Versions,
             objects'[<<k, v>>].status \in Unversioned, objects'[<<k, w>>].status \in Unversioned
      PROVE  v = w
  <2>1. <<k, v>> \in Places /\ <<k, w>> \in Places
    BY DEF Places
  <2>2. <<k, v>> = <<k, w>>
    BY <1>2, <1>3, <2>1
  <2> QED BY <2>2
<1> QED BY <1>3 DEF OneUnversioned

\* Streams are not shared, and markers have none.
LEMMA AlonePreserves ==
  ASSUME TypeOK, StreamsUnique, StreamsSet, NEW D, NEW c, NEW row, NEW C,
         Write(D, c, row, C), Alone(D, c, row)
  PROVE  StreamsUnique' /\ StreamsSet'
<1>1. \A r, q \in Places : At(r) = At(q) /\ At(r) # NoStream => r = q
  <2>1. ASSUME NEW r \in Places, NEW q \in Places, At(r) = At(q), At(r) # NoStream
        PROVE  r = q
    <3>1. StreamAt(r[1], r[2]) = At(r) /\ StreamAt(q[1], q[2]) = At(q)
      BY PlaceFacts
    <3> QED BY <2>1, <3>1, PlaceFacts DEF StreamsUnique
  <2> QED BY <2>1
<1>2. ASSUME NEW r \in Places, NEW q \in Places, At(r)' = At(q)', At(r)' # NoStream
      PROVE  r = q
  <2>1. (r = c \/ r \notin D) /\ (q = c \/ q \notin D)
    BY <1>2, AtAfter
  <2>2. CASE r # c /\ q # c
    BY <1>1, <1>2, <2>1, <2>2, AtAfter
  <2>3. CASE r = c
    BY <1>2, <2>1, <2>3, AtAfter DEF Alone
  <2>4. CASE q = c
    BY <1>2, <2>1, <2>4, AtAfter DEF Alone
  <2> QED BY <2>2, <2>3, <2>4
<1>3. StreamsUnique'
  <2>1. ASSUME NEW k \in Keys, NEW l \in Keys, NEW v \in Versions, NEW w \in Versions,
               StreamAt(k, v)' = StreamAt(l, w)', StreamAt(k, v)' # NoStream
        PROVE  k = l /\ v = w
    <3>1. <<k, v>> \in Places /\ <<l, w>> \in Places
      BY DEF Places
    <3>2. At(<<k, v>>)' = At(<<l, w>>)' /\ At(<<k, v>>)' # NoStream
      BY <2>1, AtAfter
    <3>3. <<k, v>> = <<l, w>>
      BY <1>2, <3>1, <3>2
    <3> QED BY <3>3
  <2> QED BY <2>1 DEF StreamsUnique
<1>4. StreamsSet'
  <2>1. ASSUME NEW r \in Places, objects'[r].status # "none"
        PROVE  At(r)' = NoStream <=> objects'[r].status \in Markers
    <3>1. CASE r = c
      <4>1. objects'[r] = row /\ At(r)' = StreamOf(row)
        BY <3>1, AtAfter
      <4>2. row \in Rows
        BY <2>1, <4>1, RowFields DEF Write
      <4>3. StreamOf(row) = row.stream
        BY <4>2, RowFields
      <4> QED BY <4>1, <4>2, <4>3 DEF Alone
    <3>2. CASE r # c
      <4>1. r \notin D
        BY <2>1, <3>2, AtAfter, RowFields
      <4> QED BY <2>1, <3>2, <4>1, AtAfter DEF StreamsSet
    <3> QED BY <3>1, <3>2
  <2> QED BY <2>1 DEF StreamsSet
<1> QED BY <1>3, <1>4

\* Committed objects have their segments.
LEMMA WholePreserves ==
  ASSUME TypeOK, ObjectWhole, NEW D, NEW c, NEW row, NEW C,
         Write(D, c, row, C), Cleared(D, c, row, C), Whole(row)
  PROVE  ObjectWhole'
<1>1. \A r \in Places : objects[r].status \in Committed /\ objects[r].stream \notin stale
        => objects[r].count = Cardinality(Stored(objects[r].stream))
  BY PlaceFacts DEF ObjectWhole, CommittedWhole
<1>2. ASSUME NEW r \in Places, objects'[r].status \in Committed, objects'[r].stream \notin stale'
      PROVE  objects'[r].count = Cardinality(Left(objects'[r].stream))
  <2>1. CASE r = c
    BY <1>2, <2>1, AtAfter DEF Whole
  <2>2. CASE r # c
    <3>1. r \notin D /\ objects'[r] = objects[r]
      BY <1>2, <2>2, AtAfter, RowFields
    <3>2. objects[r] \in Rows /\ At(r) = objects[r].stream
      BY <1>2, <3>1, PlaceFacts, RowFields
    <3>3. At(r) \notin C
      BY <1>2, <2>2, <3>1, <3>2 DEF Cleared
    <3>4. Left(At(r)) = Stored(At(r))
      <4>1. At(r) \in Streams \ C \/ At(r) = NoStream
        BY <3>3, PlaceFacts
      <4> QED BY <4>1, AtAfter
    <3>5. objects[r].stream \notin stale
      BY <1>2, <3>1 DEF Write
    <3> QED BY <1>1, <1>2, <3>1, <3>2, <3>4, <3>5
  <2> QED BY <2>1, <2>2
<1>3. \A k \in Keys, v \in Versions : <<k, v>> \in Places
  BY DEF Places
<1> QED BY <1>2, <1>3 DEF ObjectWhole, CommittedWhole, Left, Stored

\* Segments have a row.
LEMMA ClearedPreserves ==
  ASSUME TypeOK, SegmentsOwned, NEW D, NEW c, NEW row, NEW C,
         Write(D, c, row, C), Cleared(D, c, row, C)
  PROVE  SegmentsOwned'
<1>1. ASSUME NEW s \in Streams, s \notin stale', Left(s) # {}
      PROVE  \E r \in Places : At(r)' = s
  <2>0. s # NoStream
    BY StreamNumbers
  <2>1. CASE s = StreamOf(row)
    <3>1. row \in Rows /\ c \in Places
      BY <2>0, <2>1, RowFields DEF Write
    <3> QED BY <2>1, <3>1, AtAfter
  <2>2. CASE s # StreamOf(row)
    <3>1. s \notin C
      BY <1>1, <2>2 DEF Cleared
    <3>2. Stored(s) # {} /\ s \notin stale
      <4>1. s \in Streams \ C
        BY <3>1
      <4>2. Left(s) = Stored(s)
        BY <4>1, AtAfter
      <4>3. stale \subseteq stale'
        BY DEF Write
      <4> QED BY <1>1, <4>2, <4>3
    <3>3. PICK r \in Places : At(r) = s
      <4>1. PICK k \in Keys, v \in Versions : StreamAt(k, v) = s
        BY <3>2 DEF SegmentsOwned
      <4> QED BY <4>1, PlaceFacts
    <3>4. r \notin D \cup {c}
      BY <1>1, <2>0, <2>2, <3>3 DEF Cleared
    <3> QED BY <3>3, <3>4, AtAfter
  <2> QED BY <2>1, <2>2
<1>2. ASSUME NEW r \in Places
      PROVE  StreamAt(r[1], r[2])' = At(r)' /\ r[1] \in Keys /\ r[2] \in Versions
  BY AtAfter
<1> QED BY <1>1, <1>2 DEF SegmentsOwned, Left, Stored

\* If there is a copy after the step, it is the one that was there.
CopyGoesOn ==
  copy' # NoCopy => /\ copy # NoCopy /\ copy'.stream = copy.stream
                    /\ copy'.lock = copy.lock /\ copy'.expires = copy.expires

\* No row has a stream that was not drawn.
LEMMA DrawnPreserves ==
  ASSUME TypeOK, Drawn, NEW D, NEW c, NEW row, NEW C,
         Write(D, c, row, C), Alone(D, c, row), Cleared(D, c, row, C),
         CopyGoesOn
  PROVE  Drawn'
<1>0. /\ streams \in Nat /\ streams' \in Nat /\ streams <= streams' /\ 0 <= streams'
      /\ \A a, b, d \in Nat : a <= b /\ b <= d => a <= d
      /\ \A a, b, d \in Nat : a > d /\ b <= d => a > b
      /\ \A a, b \in Nat : a > b => ~(a <= b)
  BY MetabaseAssumption, TypeParts DEF Write
<1>1. ASSUME NEW r \in Places
      PROVE  At(r)' <= streams'
  <2>1. At(r) \in Nat /\ At(r) <= streams
    BY PlaceFacts, StreamNumbers DEF Drawn
  <2> QED BY <1>0, <2>1, AtAfter, StreamNumbers DEF Alone
<1>2. ASSUME NEW s \in Streams, s > streams'
      PROVE  segments'[s] = NoSegments
  <2>1. s > streams /\ ~(s <= streams')
    BY <1>0, <1>2, StreamNumbers
  <2> QED BY <2>1 DEF Drawn, Write, Cleared
<1>3. copy' # NoCopy => copy'.stream <= streams'
  <2>1. ASSUME copy' # NoCopy
        PROVE  copy.stream \in Nat /\ copy.stream <= streams /\ copy'.stream = copy.stream
    BY <2>1, TypeParts, StreamNumbers DEF Copies, CopyGoesOn, Drawn
  <2> QED BY <1>0, <2>1
<1> QED BY <1>1, <1>2, <1>3 DEF Drawn

\* Nobody else writes to the stream of a copy that goes on.
LEMMA ApartPreserves ==
  ASSUME TypeOK, CopyAlone, NEW D, NEW c, NEW row, NEW C,
         Write(D, c, row, C), Cleared(D, c, row, C), Apart(c, row, C),
         copy' = copy \/ copy' = NoCopy
  PROVE  CopyAlone'
<1>1. SUFFICES ASSUME copy' # NoCopy, copy' = copy
               PROVE  CopyAlone'
  BY DEF CopyAlone
<1>2. ASSUME NEW r \in Places, At(r)' = copy.stream
      PROVE  /\ copy.pc # "read" /\ r = <<copy.key, copy.version>>
             /\ objects'[r].status = Pending /\ objects'[r].signed = Unsigned
             /\ objects'[r].count = Cardinality(copy.positions) /\ objects'[r].lock = copy.lock
             /\ copy.stream \in C => copy.stream \in stale'
  <2>0. copy.stream # NoStream
    BY <1>1, TypeParts, StreamNumbers DEF Copies
  <2>1. CASE r = c
    BY <1>1, <1>2, <2>1, AtAfter DEF Apart
  <2>2. CASE r # c
    <3>1. r \notin D /\ objects'[r] = objects[r] /\ At(r) = copy.stream
      BY <1>2, <2>0, <2>2, AtAfter
    <3> QED BY <1>1, <2>2, <3>1, PlaceFacts DEF CopyAlone, IsPending, Cleared
  <2> QED BY <2>1, <2>2
<1>3. copy.stream \in Streams
  BY <1>1, TypeParts DEF Copies
<1>4. copy.pc \in {"read", "pending"} => Left(copy.stream) = {}
  BY <1>1, <1>3, AtAfter DEF CopyAlone, Apart
<1>5. ASSUME copy.pc = "segments", copy.stream \notin stale', NEW r \in Places, At(r)' = copy.stream
      PROVE  Left(copy.stream) = copy.positions
  <2>1. copy.stream \notin C
    BY <1>2, <1>5
  <2>2. \E q \in Places : At(q) = copy.stream
    <3>0. copy.stream # NoStream
      BY <1>3, StreamNumbers
    <3>1. CASE r # c
      BY <1>5, <3>0, <3>1, AtAfter
    <3>2. CASE r = c
      BY <1>1, <1>5, <3>2, AtAfter DEF Apart
    <3> QED BY <3>1, <3>2
  <2>3. copy.stream \notin stale
    BY <1>5 DEF Write
  <2> QED BY <1>1, <1>3, <1>5, <2>1, <2>2, <2>3, AtAfter DEF CopyAlone
<1>6. \A r \in Places : r = <<r[1], r[2]>>
  BY PlaceFacts
<1> QED BY <1>1, <1>2, <1>4, <1>5, <1>6 DEF CopyAlone, IsPending, Left, Stored

\* Locks stay in buckets with Object Lock.
LEMMA LockPreserves ==
  ASSUME TypeOK, LocksKnown, NEW D, NEW c, NEW row, NEW C,
         Write(D, c, row, C), LockKnown(row), bucket' = bucket,
         CopyGoesOn
  PROVE  LocksKnown'
<1>0. stale \subseteq stale'
  BY DEF Write
<1>1. ASSUME NEW r \in Places, objects'[r].status # "none", objects'[r].lock # NoLock
      PROVE  /\ bucket = "locked"
             /\ objects'[r].status = Pending /\ objects'[r].signed # Unsigned => objects'[r].signed.ttl = NoTime
             /\ objects'[r].status \in Committed /\ objects'[r].stream \notin stale'
                  => objects'[r].expires = NoTime
  <2>1. CASE r = c
    <3>1. objects'[r] = row
      BY <2>1, AtAfter
    <3>2. row \in Rows
      BY <1>1, <3>1, RowFields DEF Write
    <3> QED BY <1>1, <3>1, <3>2 DEF LockKnown
  <2>2. CASE r # c
    <3>1. objects'[r] = objects[r]
      BY <1>1, <2>2, AtAfter, RowFields
    <3> QED BY <1>0, <1>1, <3>1 DEF LocksKnown
  <2> QED BY <2>1, <2>2
<1>2. copy' # NoCopy /\ copy'.lock # NoLock => bucket = "locked" /\ copy'.expires = NoTime
  BY DEF LocksKnown, CopyGoesOn
<1> QED BY <1>1, <1>2 DEF LocksKnown

\* The step keeps what is protected.
LEMMA LockedAfter ==
  ASSUME TypeOK, NEW D, NEW c, NEW row, NEW C,
         Write(D, c, row, C), Cleared(D, c, row, C), Guarded(D, c, row, C)
  PROVE  LockedStays(stale')
<1>1. ASSUME NEW k \in Keys, NEW v \in Versions,
             objects[<<k, v>>].status \in Committed, Protected(objects[<<k, v>>].lock, TRUE),
             objects[<<k, v>>].stream \notin stale'
      PROVE  /\ [objects'[<<k, v>>] EXCEPT !.lock = objects[<<k, v>>].lock] = objects[<<k, v>>]
             /\ objects[<<k, v>>].stream # NoStream =>
                  segments'[objects[<<k, v>>].stream] = segments[objects[<<k, v>>].stream]
             /\ objects[<<k, v>>].lock.mode = "compliance" /\ now < objects[<<k, v>>].lock.until
                  => /\ objects'[<<k, v>>].lock.mode = "compliance"
                     /\ objects'[<<k, v>>].lock.until >= objects[<<k, v>>].lock.until
  <2> DEFINE r == <<k, v>>
             old == objects[r]
             Kept(row2) == old.lock.mode = "compliance" /\ now < old.lock.until
                             => row2.lock.mode = "compliance" /\ row2.lock.until >= old.lock.until
  <2>0. r \in Places /\ old \in Rows /\ At(r) = old.stream
    BY <1>1, PlaceFacts, RowFields
  <2>1. old.status \in Committed /\ Protected(old.lock, TRUE) /\ old.stream \notin stale'
    BY <1>1
  <2>2. /\ r \notin D \/ r = c
        /\ r = c => old.stream \notin C /\ [row EXCEPT !.lock = old.lock] = old /\ Kept(row)
    BY <2>0, <2>1 DEF Guarded
  <2>3. [objects'[r] EXCEPT !.lock = old.lock] = old /\ old.stream \notin C /\ Kept(objects'[r])
    <3>1. CASE r = c
      <4>1. objects'[r] = row
        BY <2>0, <3>1, AtAfter
      <4> QED BY <2>2, <3>1, <4>1
    <3>2. CASE r # c
      <4>1. objects'[r] = old
        BY <2>0, <2>2, <3>2, AtAfter
      <4>2. [old EXCEPT !.lock = old.lock] = old
        BY <2>0 DEF Rows
      <4>3. old.lock.until \in 0 .. MaxNow
        BY <2>0, RowFields, LockFields
      <4>4. old.lock.until >= old.lock.until
        BY <4>3
      <4>5. old.stream \notin C
        BY <2>0, <2>1, <2>2, <3>2 DEF Cleared
      <4> QED BY <4>1, <4>2, <4>4, <4>5
    <3> QED BY <3>1, <3>2
  <2>4. old.stream # NoStream => segments'[old.stream] = segments[old.stream]
    BY <2>0, <2>3, RowFields DEF Write
  <2> QED BY <2>3, <2>4
<1> QED BY <1>1 DEF LockedStays

\* The body of NewestOnTop.
NewOnTop ==
  \A k \in Keys, v \in Versions :
    /\ objects'[<<k, v>>].status \in {"versioned", "markerVersioned"}
    /\ ~(Exists(k, v) /\ objects[<<k, v>>].status = objects'[<<k, v>>].status
                      /\ objects[<<k, v>>].stream = objects'[<<k, v>>].stream)
    => \A w \in Versions : objects'[<<k, w>>].status \in Committed \cup Markers => w <= v

\* What is committed as versioned is on top.
LEMMA OnTopAfter ==
  ASSUME TypeOK, NEW D, NEW c, NEW row, NEW C, Write(D, c, row, C), OnTop(c, row)
  PROVE  NewOnTop
<1>1. ASSUME NEW k \in Keys, NEW v \in Versions,
             objects'[<<k, v>>].status \in {"versioned", "markerVersioned"},
             ~(Exists(k, v) /\ objects[<<k, v>>].status = objects'[<<k, v>>].status
                            /\ objects[<<k, v>>].stream = objects'[<<k, v>>].stream),
             NEW w \in Versions, objects'[<<k, w>>].status \in Committed \cup Markers
      PROVE  w <= v
  <2>0. <<k, v>> \in Places /\ <<k, w>> \in Places
    BY DEF Places
  <2>1. {"versioned", "markerVersioned"} \subseteq Statuses /\ Committed \cup Markers \subseteq Statuses
    BY DEF Statuses, Committed, Markers
  <2>2. objects'[<<k, v>>].status # "none" /\ objects'[<<k, w>>].status # "none"
    BY <1>1, <2>1, RowFields
  <2>3. <<k, v>> = c
    <3>1. ASSUME <<k, v>> # c
          PROVE  FALSE
      <4>1. objects'[<<k, v>>] = objects[<<k, v>>]
        BY <2>0, <2>2, <3>1, AtAfter, RowFields
      <4> QED BY <1>1, <2>2, <4>1 DEF Exists
    <3> QED BY <3>1
  <2>4. objects'[c] = row
    BY <2>0, <2>3, AtAfter
  <2>5. \A u \in Versions : Exists(k, u) => u <= v
    <3>1. objects[c].status = row.status /\ objects[c].stream = row.stream => Exists(k, v)
      BY <2>2, <2>3, <2>4 DEF Exists
    <3> QED BY <1>1, <2>3, <2>4, <3>1 DEF OnTop
  <2>6. CASE w = v
    BY <2>6, MetabaseAssumption DEF Versions
  <2>7. CASE w # v
    <3>1. objects'[<<k, w>>] = objects[<<k, w>>]
      BY <2>0, <2>2, <2>3, <2>7, AtAfter, RowFields
    <3> QED BY <2>2, <2>5, <3>1 DEF Exists
  <2> QED BY <2>6, <2>7
<1> QED BY <1>1 DEF NewOnTop

\* The invariant without the types.
Tables ==
  StreamsSet /\ Drawn /\ CopyAlone /\ LocksKnown /\ OneUnversioned /\ StreamsUnique /\ ObjectWhole /\ SegmentsOwned

\* A step that fits keeps the invariant, but for what is said of a copy that changes.
LEMMA FitsPreservesRows ==
  ASSUME TypeOK, Tables, NEW D, NEW c, NEW row, NEW C, Fits(D, c, row, C), bucket' = bucket, CopyGoesOn
  PROVE  /\ StreamsSet' /\ Drawn' /\ LocksKnown'
         /\ OneUnversioned' /\ StreamsUnique' /\ ObjectWhole' /\ SegmentsOwned'
         /\ LockedStays(stale') /\ NewOnTop
<1>1. /\ StreamsSet /\ Drawn /\ LocksKnown
      /\ OneUnversioned /\ StreamsUnique /\ ObjectWhole /\ SegmentsOwned
  BY DEF Tables
<1>2. /\ Write(D, c, row, C) /\ Single(D, c, row) /\ Alone(D, c, row) /\ Cleared(D, c, row, C)
      /\ Whole(row) /\ LockKnown(row) /\ Guarded(D, c, row, C) /\ OnTop(c, row)
  BY DEF Fits
<1>3. OneUnversioned' /\ StreamsUnique' /\ StreamsSet'
  BY <1>1, <1>2, SinglePreserves, AlonePreserves
<1>4. ObjectWhole' /\ SegmentsOwned' /\ Drawn'
  BY <1>1, <1>2, WholePreserves, ClearedPreserves, DrawnPreserves
<1>5. LocksKnown'
  BY <1>1, <1>2, LockPreserves
<1>6. LockedStays(stale') /\ NewOnTop
  BY <1>2, LockedAfter, OnTopAfter
<1> QED BY <1>3, <1>4, <1>5, <1>6

\* The same, when the copy stays as it is or ends.
LEMMA FitsPreserves ==
  ASSUME TypeOK, Tables, NEW D, NEW c, NEW row, NEW C, Fits(D, c, row, C),
         bucket' = bucket, copy' = copy \/ copy' = NoCopy
  PROVE  Tables' /\ LockedStays(stale') /\ NewOnTop
<1>1. CopyGoesOn
  BY DEF CopyGoesOn
<1>2. CopyAlone'
  BY ApartPreserves DEF Fits, Tables
<1> QED BY <1>1, <1>2, FitsPreservesRows DEF Tables

-----------------------------------------------------------------------------
(***************************************************************************)
(* The kinds of writes.                                                    *)
(***************************************************************************)

\* What ClearSegments does to each stream.
LEMMA ClearFacts ==
  ASSUME TypeOK, NEW C, segments' = ClearSegments(C)
  PROVE  /\ segments' \in SegmentTable
         /\ \A s \in Streams : s \notin C => segments'[s] = segments[s]
         /\ \A s \in Streams : s \in C => segments'[s] = NoSegments /\ Left(s) = {}
<1>1. NoSegments \in [Positions -> Times]
  BY DEF NoSegments, Times
<1>2. \A s \in Streams : segments[s] \in [Positions -> Times]
  BY TypeParts DEF SegmentTable
<1>3. segments' = [s \in Streams |-> IF s \in C THEN NoSegments ELSE segments[s]]
  BY DEF ClearSegments
<1>4. segments' \in SegmentTable
  BY <1>1, <1>2, <1>3 DEF SegmentTable
<1>5. \A s \in Streams : segments'[s] = IF s \in C THEN NoSegments ELSE segments[s]
  BY <1>3
<1>6. \A s \in Streams : s \in C => Left(s) = {}
  BY <1>5 DEF Left, NoSegments
<1> QED BY <1>4, <1>5, <1>6

\* Rows go, and their segments with them.
Removes(D, C) ==
  /\ objects' = [r \in Places |-> IF r \in D THEN NoRow ELSE objects[r]]
  /\ segments' \in SegmentTable
  /\ \A s \in Streams : s \notin C => segments'[s] = segments[s]
  /\ \A s \in C : \/ segments'[s] = NoSegments
                  \/ s \in stale' /\ s <= streams /\ copy' # copy
  /\ streams' = streams /\ stale' \subseteq Streams /\ stale \subseteq stale'
  /\ \A r \in Places : r \in D /\ At(r) # NoStream => At(r) \in C \/ At(r) \in stale'
  /\ \A r \in Places : At(r) \in C /\ r \notin D => At(r) \in stale'
  /\ \A r \in D : objects[r].status \in Committed /\ Protected(objects[r].lock, TRUE)
                 => objects[r].stream \in stale'

\* A removal fits.
LEMMA RemovalFits ==
  ASSUME TypeOK, Tables, NEW D \in SUBSET Places, NEW C \in SUBSET Streams, Removes(D, C)
  PROVE  \E c : Fits(D, c, NoRow, C)
<1>1. PICK c : c \notin Places
  BY NoSetContainsEverything
<1>2. NoRow \notin Rows /\ StreamOf(NoRow) = NoStream /\ NoRow.status = "none"
  BY RowFields
<1>3. "none" \notin Committed /\ "none" \notin Unversioned /\ "none" \notin {"versioned", "markerVersioned"}
  BY DEF Committed, Unversioned
<1>4. \A s \in C : segments'[s] = NoSegments => Left(s) = {}
  BY DEF Left, NoSegments, Removes
<1>5. Write(D, c, NoRow, C)
  <2>1. \A r \in Places : objects[r] \in Rows \cup {NoRow}
    BY PlaceFacts
  <2>2. objects' \in Table
    BY <2>1 DEF Table, Removes
  <2>3. streams' \in 0 .. MaxStreams /\ streams <= streams'
    BY TypeParts, MetabaseAssumption DEF Removes
  <2> QED BY <1>1, <1>2, <1>4, <2>2, <2>3 DEF Write, Removes
<1>6. Single(D, c, NoRow) /\ OnTop(c, NoRow) /\ Whole(NoRow) /\ LockKnown(NoRow)
  BY <1>2, <1>3 DEF Single, OnTop, Whole, LockKnown
<1>7. Alone(D, c, NoRow)
  <2>1. NoStream <= streams'
    BY TypeParts, MetabaseAssumption DEF NoStream, Removes
  <2> QED BY <1>2, <2>1 DEF Alone
<1>8. Cleared(D, c, NoRow, C)
  BY <1>1, <1>2, <1>4 DEF Cleared, Removes
<1>9. Apart(c, NoRow, C)
  <2>1. copy # NoCopy => copy.stream \in Streams
    BY TypeParts DEF Copies
  <2> QED BY <1>2, <1>4, <2>1, StreamNumbers DEF Apart, Removes
<1>10. Guarded(D, c, NoRow, C)
  BY <1>1 DEF Guarded, Removes
<1> QED BY <1>5, <1>6, <1>7, <1>8, <1>9, <1>10 DEF Fits

\* A row is updated in place, or segments are put under the stream of an upload.
LEMMA InPlaceFits ==
  ASSUME TypeOK, Tables, NEW c \in Places, NEW row \in Rows, NEW C \in SUBSET Streams,
         objects[c] \in Rows,
         objects' = [objects EXCEPT ![c] = row],
         segments' \in SegmentTable, \A s \in Streams \ C : segments'[s] = segments[s],
         C # {} => C = {row.stream} /\ row.status = Pending /\ (row.signed # Unsigned \/ copy' # copy),
         streams' = streams, stale' = stale,
         row.stream = objects[c].stream, row.status = objects[c].status, row.count = objects[c].count,
         row.signed = objects[c].signed,
         row.lock = objects[c].lock \/ objects[c].status # Pending,
         LockKnown(row), Guarded({}, c, row, C)
  PROVE  Fits({}, c, row, C)
<1>0. At(c) = row.stream /\ StreamOf(row) = row.stream /\ objects[c].status # "none"
  BY PlaceFacts, RowFields
<1>1. Write({}, c, row, C)
  <2>1. objects' \in Table
    BY TypeParts DEF Table
  <2>2. \A r \in Places : objects'[r] = IF r = c THEN row ELSE objects[r]
    BY TypeParts DEF Table
  <2>3. streams' \in 0 .. MaxStreams /\ streams <= streams'
    BY TypeParts, MetabaseAssumption
  <2>4. stale' \subseteq Streams /\ stale \subseteq stale'
    BY TypeParts
  <2> QED BY <2>1, <2>2, <2>3, <2>4 DEF Write
<1>2. Single({}, c, row)
  <2>1. ASSUME row.status \in Unversioned, NEW r \in Places, r[1] = c[1], objects[r].status \in Unversioned
        PROVE  r = c
    <3>1. /\ r = <<r[1], r[2]>> /\ r[1] \in Keys /\ r[2] \in Versions
          /\ c = <<c[1], c[2]>> /\ c[1] \in Keys /\ c[2] \in Versions
      BY PlaceFacts
    <3>2. objects[<<c[1], r[2]>>].status \in Unversioned /\ objects[<<c[1], c[2]>>].status \in Unversioned
      BY <2>1, <3>1
    <3> QED BY <2>1, <3>1, <3>2 DEF Tables, OneUnversioned
  <2> QED BY <2>1 DEF Single
<1>3. Alone({}, c, row)
  <2>1. \A r \in Places : At(r) = At(c) /\ At(c) # NoStream => r = c
    <3>1. \A r \in Places :
            StreamAt(r[1], r[2]) = At(r) /\ r = <<r[1], r[2]>> /\ r[1] \in Keys /\ r[2] \in Versions
      BY PlaceFacts
    <3> QED BY <3>1 DEF Tables, StreamsUnique
  <2> QED BY <1>0, <2>1 DEF Alone, Tables, StreamsSet, Drawn
<1>4. Cleared({}, c, row, C)
  <2>1. At(c) <= streams
    BY DEF Tables, Drawn
  <2>2. \A r \in Places : At(r) = At(c) /\ At(c) # NoStream => r = c
    <3>1. \A r \in Places :
            StreamAt(r[1], r[2]) = At(r) /\ r = <<r[1], r[2]>> /\ r[1] \in Keys /\ r[2] \in Versions
      BY PlaceFacts
    <3> QED BY <3>1 DEF Tables, StreamsUnique
  <2>3. NoStream \notin C
    BY StreamNumbers
  <2> QED BY <1>0, <2>1, <2>2, <2>3 DEF Cleared
<1>5. Whole(row)
  <2>1. c = <<c[1], c[2]>> /\ c[1] \in Keys /\ c[2] \in Versions
    BY PlaceFacts
  <2>2. ASSUME row.status \in Committed, row.stream \notin stale
        PROVE  row.count = Cardinality(Left(row.stream))
    <3>1. row.count = Cardinality(Stored(row.stream))
      BY <2>1, <2>2 DEF Tables, ObjectWhole, CommittedWhole
    <3>2. C = {}
      BY <2>2, RowFields
    <3>3. Left(row.stream) = Stored(row.stream)
      <4>1. row.stream = NoStream \/ segments'[row.stream] = segments[row.stream]
        BY <3>2, RowFields
      <4> QED BY <4>1 DEF Left, Stored
    <3> QED BY <3>1, <3>3
  <2> QED BY <2>2 DEF Whole
<1>6. Apart(c, row, C)
  <2>1. ASSUME copy' # NoCopy, copy' = copy, row.stream = copy.stream
        PROVE  /\ c = <<copy.key, copy.version>> /\ copy.pc # "read"
               /\ row.status = Pending /\ row.signed = Unsigned
               /\ row.count = Cardinality(copy.positions) /\ row.lock = copy.lock
               /\ copy.stream \notin C /\ At(c) = copy.stream
    <3>1. /\ copy.pc # "read" /\ c = <<copy.key, copy.version>>
          /\ IsPending(c[1], c[2]) /\ objects[c].signed = Unsigned
          /\ objects[c].count = Cardinality(copy.positions) /\ objects[c].lock = copy.lock
      BY <1>0, <2>1 DEF Tables, CopyAlone
    <3>2. objects[c].status = Pending
      BY <3>1 DEF IsPending
    <3> QED BY <1>0, <2>1, <3>1, <3>2
  <2>2. ASSUME copy' # NoCopy, copy' = copy, copy.stream \in C
        PROVE  FALSE
    BY <2>1, <2>2
  <2> QED BY <1>0, <2>1, <2>2 DEF Apart
<1>7. OnTop(c, row)
  BY DEF OnTop
<1> QED BY <1>1, <1>2, <1>3, <1>4, <1>5, <1>6, <1>7 DEF Fits

\* A row is put at place c, and the ones at a and b go.
Put(c, row, a, b) ==
  /\ objects' \in Table
  /\ \A r \in Places : objects'[r] = IF r = c THEN row ELSE IF r = a \/ r = b THEN NoRow ELSE objects[r]

\* A row is put at a version of key k; the one at place src, from where it comes,
\* and the one at version u, which it replaces, go.
Commits(k, new, u, src, row) ==
  /\ Put(<<k, new>>, row, src, <<k, u>>)
  /\ segments' \in SegmentTable
  /\ \A s \in Streams : s # row.stream /\ s # StreamAt(k, u) => segments'[s] = segments[s]
  /\ StreamAt(k, u) # NoStream /\ StreamAt(k, u) # row.stream => Left(StreamAt(k, u)) = {}
  /\ streams' \in 0 .. MaxStreams /\ streams <= streams'
  /\ stale' \subseteq Streams /\ stale \subseteq stale'
  /\ <<k, new>> \in {src, <<k, u>>} \/ ~Exists(k, new)
  /\ row.status \in Unversioned => u = UnversionedAt(k) \/ src = <<k, UnversionedAt(k)>>
  /\ row.status \in {"versioned", "markerVersioned"} => \A w \in Versions : Exists(k, w) => w <= new
  /\ row.stream = NoStream <=> row.status \in Markers
  /\ row.stream <= streams'
  /\ \A r \in Places : At(r) = row.stream /\ row.stream # NoStream => r \in {src, <<k, u>>, <<k, new>>}
  /\ src \in Places => /\ At(src) \in {NoStream, row.stream} \/ At(src) \in stale'
                       /\ objects[src].status \in Committed /\ Protected(objects[src].lock, TRUE)
                            => At(src) \in stale'
  /\ u # 0 /\ Protected(objects[<<k, u>>].lock, TRUE) => StreamAt(k, u) \in stale'
  /\ Whole(row) /\ LockKnown(row)
  /\ copy' # NoCopy /\ copy' = copy => row.stream # copy.stream

\* A commit fits: the row may come from a pending object or a moved one, and
\* take the version of the one it replaces.
LEMMA CommitFits ==
  ASSUME TypeOK, Tables,
         NEW k \in Keys, NEW new \in Versions, NEW u \in Versions \cup {0}, NEW src, NEW row \in Rows,
         Commits(k, new, u, src, row)
  PROVE  \E D, c, C : Fits(D, c, row, C)
<1> DEFINE c == <<k, new>>
           old == <<k, u>>
           D == {src, old} \cap Places
           C == {row.stream, StreamAt(k, u)} \cap Streams
<1>0. /\ c \in Places /\ c[1] = k /\ c[2] = new
      /\ u \in Versions => old \in Places /\ At(old) = StreamAt(k, u)
      /\ u = 0 => StreamAt(k, u) = NoStream /\ old \notin Places
  <2>1. \A v \in Versions : <<k, v>> \in Places /\ At(<<k, v>>) = StreamAt(k, v)
    BY PlaceFacts
  <2>2. 0 \notin Versions
    BY MetabaseAssumption DEF Versions
  <2>3. u = 0 => old \notin Places
    BY <2>2 DEF Places
  <2>4. StreamAt(k, 0) = NoStream
    BY PlaceFacts
  <2> QED BY <2>1, <2>3, <2>4
<1>1. StreamOf(row) = row.stream /\ row.status # "none" /\ row.stream \in Streams \cup {NoStream}
  BY RowFields
<1>2. \A r, q \in Places : At(r) = At(q) /\ At(q) # NoStream => r = q
  <2>1. \A r \in Places : StreamAt(r[1], r[2]) = At(r) /\ r = <<r[1], r[2]>> /\ r[1] \in Keys /\ r[2] \in Versions
    BY PlaceFacts
  <2> QED BY <2>1 DEF Tables, StreamsUnique
<1>3. c \in D \/ objects[c].status = "none"
  BY <1>0 DEF Exists, Commits
<1>4. objects[c].status = "none" => At(c) = NoStream
  BY <1>0, PlaceFacts, RowFields
<1>5. \A r \in D : r = src \/ (r = old /\ u \in Versions /\ At(r) = StreamAt(k, u))
  BY <1>0
<1>6. NoStream \notin Streams
  BY StreamNumbers
<1>7. Write(D, c, row, C)
  <2>1. \A r \in Places : r = src \/ r = old <=> r \in D
    OBVIOUS
  <2>2. \A s \in Streams \ C : segments'[s] = segments[s]
    BY DEF Commits
  <2>3. D \subseteq Places /\ C \subseteq Streams
    OBVIOUS
  <2> QED BY <1>0, <2>1, <2>2, <2>3 DEF Write, Commits, Put
<1>8. Single(D, c, row)
  <2>1. ASSUME row.status \in Unversioned, NEW r \in Places, r[1] = k, objects[r].status \in Unversioned
        PROVE  r \in D
    <3>1. r = <<k, r[2]>> /\ r[2] \in Versions
      BY <2>1, PlaceFacts
    <3>2. UnversionedAt(k) # 0 /\ UnversionedAt(k) \in Versions
      BY <2>1, <3>1, HighestVersions
    <3>3. objects[<<k, UnversionedAt(k)>>].status \in Unversioned /\ objects[<<k, r[2]>>].status \in Unversioned
      BY <2>1, <3>1, <3>2, HighestVersions
    <3>4. r = <<k, UnversionedAt(k)>>
      BY <3>1, <3>2, <3>3 DEF Tables, OneUnversioned
    <3>5. u = UnversionedAt(k) \/ src = <<k, UnversionedAt(k)>>
      BY <2>1 DEF Commits
    <3> QED BY <3>4, <3>5
  <2> QED BY <1>0, <2>1 DEF Single
<1>9. Alone(D, c, row)
  <2>1. \A r \in Places : r \in {src, <<k, u>>, <<k, new>>} => r \in D \cup {c}
    OBVIOUS
  <2> QED BY <1>1, <2>1 DEF Alone, Commits
<1>10. Cleared(D, c, row, C)
  <2>1. ASSUME NEW r \in Places, At(r) \in C, r \notin D \cup {c}
        PROVE  At(r) \in stale'
    <3>1. r # src /\ r # old /\ r # c
      BY <2>1
    <3>2. At(r) # NoStream /\ (At(r) = row.stream \/ At(r) = StreamAt(k, u))
      BY <1>6, <2>1
    <3>3. At(r) = StreamAt(k, u)
      BY <3>1, <3>2 DEF Commits
    <3>4. u \in Versions /\ old \in Places /\ At(old) = StreamAt(k, u)
      BY <1>0, <3>2, <3>3
    <3> QED BY <1>2, <3>1, <3>2, <3>3, <3>4
  <2>2. ASSUME NEW r \in Places, r \in D \cup {c}, At(r) # NoStream
        PROVE  At(r) = StreamOf(row) \/ At(r) \in stale' \/ Left(At(r)) = {}
    <3>1. r \in D
      BY <1>3, <1>4, <2>2
    <3> QED BY <1>1, <1>5, <2>2, <3>1 DEF Commits
  <2>3. \A s \in C : s = StreamOf(row) \/ s \in stale' \/ Left(s) = {}
    BY <1>1, <1>6 DEF Commits
  <2>4. ASSUME NEW s \in C
        PROVE  s <= streams'
    <3>1. CASE s = row.stream
      BY <3>1 DEF Commits
    <3>2. CASE s # row.stream
      <4>1. s \in Streams /\ s = StreamAt(k, u) /\ s # NoStream
        BY <1>6, <3>2
      <4>2. old \in Places /\ At(old) = s
        BY <1>0, <4>1
      <4>3. s <= streams
        BY <4>2 DEF Tables, Drawn
      <4>4. s \in Nat /\ streams \in Nat /\ streams' \in Nat
        BY <4>1, StreamNumbers, TypeParts, MetabaseAssumption DEF Commits
      <4> QED BY <4>3, <4>4 DEF Commits
    <3> QED BY <3>1, <3>2
  <2> QED BY <2>1, <2>2, <2>3, <2>4 DEF Cleared
<1>11. Apart(c, row, C)
  <2>1. copy # NoCopy => copy.stream \in Streams
    BY TypeParts DEF Copies
  <2>2. ASSUME copy' # NoCopy, copy' = copy
        PROVE  StreamOf(row) # copy.stream /\ (copy.stream \in C => Left(copy.stream) = {})
    BY <1>1, <1>6, <2>1, <2>2 DEF Commits
  <2> QED BY <2>2 DEF Apart
<1>12. Guarded(D, c, row, C)
  <2>1. ASSUME NEW r \in Places, objects[r].status \in Committed, Protected(objects[r].lock, TRUE),
               objects[r].stream \notin stale'
        PROVE  r \notin D /\ r # c
    <3>1. At(r) = objects[r].stream /\ objects[r].status # "none"
      BY <2>1, PlaceFacts, RowFields
    <3>2. r # src
      BY <2>1, <3>1 DEF Commits
    <3>3. r # old
      <4>1. ASSUME r = old
            PROVE  FALSE
        <5>1. u # 0 /\ u \in Versions /\ At(old) = StreamAt(k, u)
          BY <1>0, <4>1
        <5>2. Protected(objects[<<k, u>>].lock, TRUE)
          BY <2>1, <4>1
        <5>3. StreamAt(k, u) \in stale'
          BY <5>1, <5>2 DEF Commits
        <5> QED BY <2>1, <3>1, <4>1, <5>1, <5>3
      <4> QED BY <4>1
    <3> QED BY <1>3, <3>1, <3>2, <3>3
  <2> QED BY <2>1 DEF Guarded
<1>13. OnTop(c, row)
  BY <1>0 DEF OnTop, Commits
<1>14. Fits(D, c, row, C)
  BY <1>7, <1>8, <1>9, <1>10, <1>11, <1>12, <1>13 DEF Fits, Commits
<1> HIDE DEF c, D, C
<1> QED BY <1>14

-----------------------------------------------------------------------------
(***************************************************************************)
(* What the actions' proofs share.                                         *)
(***************************************************************************)

\* The variables that are in no table.
Others ==
  /\ expiring \subseteq Streams \X Positions
  /\ now \in 0 .. MaxNow
  /\ plain \in Refs \cup {NoRef}
  /\ zombies \in Zombies
  /\ expired \in SUBSET Refs
  /\ failures \in 0 .. MaxFailures

\* The mark of a segment that is written is one of a stream and a position.
LEMMA SetExpiresTyped ==
  ASSUME TypeOK, NEW s \in Streams, NEW p \in Positions, NEW ttl
  PROVE  SetExpires(s, p, ttl) \subseteq Streams \X Positions
BY TypeParts DEF SetExpires

\* What every step is shown to do.
Kept == TypeOK' /\ Tables' /\ LockedStays(stale') /\ NewOnTop

\* They are typed to begin with.
LEMMA OthersHold == TypeOK => Others
BY TypeParts DEF Others

\* A step that fits, and leaves the copy alone or ends it, keeps the invariant.
LEMMA FitsKeep ==
  ASSUME TypeOK, Tables, NEW row, \E D, c, C : Fits(D, c, row, C),
         bucket' = bucket, copy' = copy \/ copy' = NoCopy, Others'
  PROVE  Kept
<1>1. PICK D, c, C : Fits(D, c, row, C)
  OBVIOUS
<1>2. Tables' /\ LockedStays(stale') /\ NewOnTop
  BY <1>1, FitsPreserves
<1>3. /\ objects' \in Table /\ segments' \in SegmentTable
      /\ streams' \in 0 .. MaxStreams /\ stale' \subseteq Streams
  BY <1>1 DEF Fits, Write
<1>4. bucket' \in Buckets /\ copy' \in Copies \cup {NoCopy}
  BY TypeParts
<1>5. TypeOK'
  BY <1>3, <1>4 DEF TypeOK, Others, Table, SegmentTable, Zombies, Places
<1> QED BY <1>2, <1>5 DEF Kept

\* A stream that is drawn is in no row, and has no segments.
LEMMA Fresh ==
  ASSUME TypeOK, Tables, NEW s \in Streams, Draw(s)
  PROVE  /\ \A r \in Places : At(r) # s
         /\ segments[s] = NoSegments
         /\ copy # NoCopy => copy.stream # s
         /\ s <= streams' /\ streams' \in 0 .. MaxStreams /\ streams <= streams'
         /\ s # NoStream
<1>1. s \in Nat /\ streams \in Nat /\ s = streams + 1 /\ streams' = s /\ s <= MaxStreams
  BY StreamNumbers, TypeParts, MetabaseAssumption DEF Draw
<1>2. s > streams /\ ~(s <= streams)
  BY <1>1
<1>3. s <= streams' /\ streams' \in 0 .. MaxStreams /\ streams <= streams'
  BY <1>1, MetabaseAssumption
<1> QED BY <1>2, <1>3, StreamNumbers DEF Tables, Drawn

\* A request for a lock has no expiration, and is made in a bucket with Object Lock.
LEMMA RequestFacts ==
  ASSUME TypeOK, NEW req \in Requests
  PROVE  /\ req.lock \in Locks /\ req.ttl \in Times
         /\ req.lock # NoLock => bucket = "locked" /\ req.ttl = NoTime
BY MetabaseAssumption DEF Requests, Times

\* What may be replaced or deleted has no legal hold and no compliance retention.
LEMMA ProtectedFacts ==
  ASSUME TypeOK, Tables
  PROVE  /\ \A lock : \A bypass \in BOOLEAN : Protected(lock, TRUE) => Protected(lock, bypass)
         /\ ~Protected(NoLock, TRUE) /\ ~Protected(NoLock, FALSE)
         /\ \A k, u : \A bypass \in BOOLEAN :
              MayReplace(k, u, bypass) /\ u # 0 => ~Protected(objects[<<k, u>>].lock, TRUE)
<1>1. \A lock : \A bypass \in BOOLEAN : Protected(lock, TRUE) => Protected(lock, bypass)
  BY DEF Protected
<1>2. ~Protected(NoLock, TRUE) /\ ~Protected(NoLock, FALSE)
  BY LockFields DEF Protected
<1> QED BY <1>1, <1>2 DEF MayReplace

\* The rows after Replace.
LEMMA ReplaceForm ==
  ASSUME TypeOK, NEW k \in Keys, NEW del, NEW v, NEW u, NEW new \in Versions, NEW row \in Rows,
         objects' = Replace(k, del, new, row), \A w \in Versions : w \in del <=> w = v \/ w = u
  PROVE  Put(<<k, new>>, row, <<k, v>>, <<k, u>>)
<1>1. objects' = [r \in Places |-> IF r = <<k, new>> THEN row
                                   ELSE IF r[1] = k /\ r[2] \in del THEN NoRow ELSE objects[r]]
  BY DEF Replace, Places
<1>2. \A r \in Places : r = <<r[1], r[2]>> /\ r[2] \in Versions
  BY PlaceFacts
<1>3. ASSUME NEW r \in Places
      PROVE  (r[1] = k /\ r[2] \in del) <=> (r = <<k, v>> \/ r = <<k, u>>)
  BY <1>2
<1>4. objects' = [r \in Places |-> IF r = <<k, new>> THEN row
                                  ELSE IF r = <<k, v>> \/ r = <<k, u>> THEN NoRow ELSE objects[r]]
  BY <1>1, <1>3
<1>5. \A r \in Places : objects[r] \in Rows \cup {NoRow}
  BY PlaceFacts
<1>6. objects' \in Table
  BY <1>4, <1>5 DEF Table
<1> QED BY <1>4, <1>6 DEF Put

\* No row is at version 0.
LEMMA NoPlace ==
  /\ \A k : <<k, 0>> \notin Places
  /\ 0 \notin Versions
  /\ \A k : StreamAt(k, 0) = NoStream
<1>1. 0 \notin Versions
  BY MetabaseAssumption DEF Versions
<1>2. \A k : StreamAt(k, 0) = NoStream
  BY DEF StreamAt
<1> QED BY <1>1, <1>2 DEF Places

\* StreamAt, for version 0 too, which stands for no row.
LEMMA StreamAtTyped ==
  ASSUME TypeOK, NEW k \in Keys, NEW u \in Versions \cup {0}
  PROVE  /\ StreamAt(k, u) \in Streams \cup {NoStream}
         /\ u \in Versions => <<k, u>> \in Places /\ StreamAt(k, u) = At(<<k, u>>)
<1>1. u = 0 => StreamAt(k, u) = NoStream
  BY NoPlace
<1>2. u \in Versions =>
        <<k, u>> \in Places /\ StreamAt(k, u) = At(<<k, u>>) /\ At(<<k, u>>) \in Streams \cup {NoStream}
  BY PlaceFacts
<1> QED BY <1>1, <1>2

-----------------------------------------------------------------------------
(***************************************************************************)
(* Uploads.                                                                *)
(***************************************************************************)

\* A pending object is put above all others, under a stream of its own.
LEMMA BeginKeeps ==
  ASSUME TypeOK, Tables, NEW k \in Keys, NEW req \in Requests, BeginObjectNextVersion(k, req)
  PROVE  Kept
<1> DEFINE v == HighestVersion(k) + 1
           row(s) == [stream |-> s, status |-> Pending, count |-> 0, lock |-> req.lock, expires |-> req.ttl,
                      deadline |-> now + 1, signed |-> [versioned |-> Versioned, ttl |-> req.ttl]]
<1>1. PICK s \in Streams :
        /\ v \in Versions /\ Draw(s) /\ objects' = Replace(k, {}, v, row(s))
        /\ UNCHANGED <<segments, expiring, clock, reads>>
  BY DEF BeginObjectNextVersion
<1>2. /\ segments' = segments /\ expiring' = expiring /\ bucket' = bucket /\ now' = now /\ plain' = plain
      /\ zombies' = zombies /\ expired' = expired /\ copy' = copy /\ failures' = failures /\ stale' = stale
  BY <1>1 DEF clock, reads
<1>3. row(s) \in Rows
  <2>1. 0 \in 0 .. Cardinality(Positions)
    BY MetabaseAssumption, FS_CardinalityType
  <2>2. now + 1 \in Nat
    BY TypeParts, MetabaseAssumption
  <2>3. [versioned |-> Versioned, ttl |-> req.ttl] \in [versioned : BOOLEAN, ttl : Times]
    BY RequestFacts DEF Versioned
  <2>4. Pending \in Statuses
    BY DEF Statuses
  <2> QED BY <1>1, <2>1, <2>2, <2>3, <2>4, RequestFacts DEF Rows
<1>4. /\ row(s).stream = s /\ row(s).status = Pending /\ row(s).lock = req.lock
      /\ row(s).signed = [versioned |-> Versioned, ttl |-> req.ttl]
  OBVIOUS
<1> HIDE DEF row, v
<1>5. Put(<<k, v>>, row(s), <<k, 0>>, <<k, 0>>)
  <2>1. \A w \in Versions : w \in {} <=> w = 0 \/ w = 0
    BY NoPlace
  <2> QED BY <1>1, <1>3, <2>1, ReplaceForm
<1>6. Whole(row(s)) /\ LockKnown(row(s))
  <2>1. Pending \notin Committed
    BY RowFields
  <2> QED BY <1>4, <2>1, RequestFacts DEF Whole, LockKnown
<1>7. Pending \notin Unversioned /\ Pending \notin Markers /\ Pending \notin {"versioned", "markerVersioned"}
  BY DEF Pending, Unversioned, Markers
<1>8. /\ \A r \in Places : At(r) # s
      /\ copy # NoCopy => copy.stream # s
      /\ s <= streams' /\ streams' \in 0 .. MaxStreams /\ streams <= streams'
      /\ s # NoStream
  BY <1>1, Fresh
<1>9. ~Exists(k, v)
  BY <1>1, HighestVersions DEF v
<1>10. segments' \in SegmentTable /\ stale' \subseteq Streams
  BY <1>2, TypeParts
<1>11. \E D, c, C : Fits(D, c, row(s), C)
  <2>1. Commits(k, v, 0, <<k, 0>>, row(s))
    BY <1>1, <1>2, <1>4, <1>5, <1>6, <1>7, <1>8, <1>9, <1>10, NoPlace DEF Commits
  <2> QED BY <1>1, <1>3, <2>1, CommitFits
<1> QED BY <1>2, <1>11, FitsKeep, OthersHold DEF Others

\* Which of the statuses of a commit is unversioned.
LEMMA CommittedStatusFacts ==
  \A versioned \in BOOLEAN :
    /\ CommittedStatus(versioned) \in Committed /\ CommittedStatus(versioned) \in Statuses
    /\ CommittedStatus(versioned) \notin Markers
    /\ CommittedStatus(versioned) \in Unversioned => ~versioned
    /\ CommittedStatus(versioned) \in {"versioned", "markerVersioned"} => versioned
BY DEF CommittedStatus, Committed, Statuses, Markers, Unversioned

\* Where a commit puts the object, and what it replaces.
LEMMA OverwrittenFacts ==
  ASSUME TypeOK, Tables, NEW k \in Keys, NEW versioned \in BOOLEAN, NEW v \in Versions \cup {0}
  PROVE  LET old == Overwritten(k, versioned)
             new == IF old.reuse THEN old.version ELSE nextVersion(v, HighestVersion(k))
         IN
         /\ old.version \in Versions \cup {0}
         /\ ~versioned => old.version = UnversionedAt(k)
         /\ versioned => old.version = 0
         /\ \A w \in Versions : Exists(k, w) => w <= new
         /\ new \in Versions => new = old.version \/ new = v \/ ~Exists(k, new)
<1> DEFINE old == Overwritten(k, versioned)
           next == nextVersion(v, HighestVersion(k))
<1>1. /\ UnversionedAt(k) \in Versions \cup {0}
      /\ \A w \in Versions : Exists(k, w) => w <= HighestVersion(k)
  BY HighestVersions
<1>2. /\ \A w \in Versions : Exists(k, w) => w <= next
      /\ next # v => ~(next \in Versions /\ Exists(k, next))
  BY NextVersions
<1>3. /\ old.version = IF versioned THEN 0 ELSE UnversionedAt(k)
      /\ old.reuse => old.version = HighestVersion(k)
  BY DEF Overwritten
<1> HIDE DEF old, next
<1>4. old.version \in Versions \cup {0}
  BY <1>1, <1>3
<1>5. CASE old.reuse
  BY <1>1, <1>3, <1>4, <1>5 DEF old, next
<1>6. CASE ~old.reuse
  BY <1>2, <1>3, <1>4, <1>6 DEF old, next
<1> QED BY <1>5, <1>6

\* A delete marker is whole, and has no lock.
LEMMA MarkerRow ==
  ASSUME NEW status \in Markers
  PROVE  LET row == Row(NoStream, status, 0, NoLock, NoTime) IN
         /\ row \in Rows /\ row.status = status /\ row.stream = NoStream
         /\ Whole(row) /\ LockKnown(row)
<1>1. 0 \in 0 .. Cardinality(Positions)
  BY MetabaseAssumption, FS_CardinalityType
<1>2. NoTime \in Times /\ status \in Statuses /\ status \notin Committed
  BY RowFields DEF Times
<1>3. NoLock \in Locks
  BY LockFields
<1>4. LET row == Row(NoStream, status, 0, NoLock, NoTime) IN
      row \in Rows /\ row.status = status /\ row.stream = NoStream /\ row.lock = NoLock
  BY <1>1, <1>2, <1>3, RowTyped
<1> QED BY <1>2, <1>4 DEF Whole, LockKnown

\* The marker is put above all others.
LEMMA MarkerVersionedKeeps ==
  ASSUME TypeOK, Tables, NEW k \in Keys, DeleteObjectLastCommittedVersioned(k)
  PROVE  Kept
<1> DEFINE new == HighestVersion(k) + 1
           row == Row(NoStream, "markerVersioned", 0, NoLock, NoTime)
<1>1. /\ new \in Versions /\ objects' = Replace(k, {}, new, row)
      /\ UNCHANGED <<segments, expiring, clock, streams, reads>>
  BY DEF DeleteObjectLastCommittedVersioned
<1>2. /\ segments' = segments /\ expiring' = expiring /\ bucket' = bucket /\ now' = now /\ plain' = plain
      /\ zombies' = zombies /\ expired' = expired /\ copy' = copy /\ failures' = failures /\ stale' = stale
      /\ streams' = streams
  BY <1>1 DEF clock, reads
<1>3. "markerVersioned" \in Markers /\ "markerVersioned" \notin Unversioned
  BY DEF Markers, Unversioned
<1>4. row \in Rows /\ row.status = "markerVersioned" /\ row.stream = NoStream /\ Whole(row) /\ LockKnown(row)
  BY <1>3, MarkerRow
<1>5. ~Exists(k, new) /\ \A w \in Versions : Exists(k, w) => w <= new
  <2>1. nextVersion(0, HighestVersion(k)) = new
    BY DEF nextVersion
  <2> QED BY <1>1, <2>1, NextVersions, HighestVersions
<1> HIDE DEF row, new
<1>6. Put(<<k, new>>, row, <<k, 0>>, <<k, 0>>)
  <2>1. \A w \in Versions : w \in {} <=> w = 0 \/ w = 0
    BY NoPlace
  <2> QED BY <1>1, <1>4, <2>1, ReplaceForm
<1>7. /\ segments' \in SegmentTable /\ stale' \subseteq Streams
      /\ streams' \in 0 .. MaxStreams /\ streams <= streams' /\ NoStream <= streams'
  BY <1>2, TypeParts, MetabaseAssumption DEF NoStream
<1>8. copy # NoCopy => NoStream # copy.stream
  BY TypeParts, StreamNumbers DEF Copies
<1>9. Commits(k, new, 0, <<k, 0>>, row)
  BY <1>2, <1>3, <1>4, <1>5, <1>6, <1>7, <1>8, NoPlace DEF Commits
<1>10. \E D, c, C : Fits(D, c, row, C)
  BY <1>1, <1>4, <1>9, CommitFits
<1> QED BY <1>2, <1>10, FitsKeep, OthersHold DEF Others

\* The marker replaces the unversioned row.
LEMMA MarkerSuspendedKeeps ==
  ASSUME TypeOK, Tables, NEW k \in Keys, NEW bypass \in BOOLEAN, DeleteObjectLastCommittedSuspended(k, bypass)
  PROVE  Kept
<1> DEFINE u == UnversionedAt(k)
           new == nextVersion(0, HighestVersion(k))
           row == Row(NoStream, "markerUnversioned", 0, NoLock, NoTime)
<1>1. /\ new \in Versions /\ MayReplace(k, u, bypass)
      /\ objects' = Replace(k, {u}, new, row)
      /\ segments' = ClearSegments({StreamAt(k, u)})
      /\ UNCHANGED <<expiring, clock, streams, reads>>
  BY DEF DeleteObjectLastCommittedSuspended
<1>2. /\ expiring' = expiring /\ bucket' = bucket /\ now' = now /\ plain' = plain
      /\ zombies' = zombies /\ expired' = expired /\ copy' = copy /\ failures' = failures /\ stale' = stale
      /\ streams' = streams
  BY <1>1 DEF clock, reads
<1>3. "markerUnversioned" \in Markers /\ "markerUnversioned" \notin {"versioned", "markerVersioned"}
  BY DEF Markers
<1>4. row \in Rows /\ row.status = "markerUnversioned" /\ row.stream = NoStream /\ Whole(row) /\ LockKnown(row)
  BY <1>3, MarkerRow
<1>5. ~Exists(k, new)
  BY <1>1, NextVersions, NoPlace
<1>6. u \in Versions \cup {0} /\ u = UnversionedAt(k)
  BY HighestVersions
<1>7. u # 0 => ~Protected(objects[<<k, u>>].lock, TRUE)
  BY <1>1, ProtectedFacts
<1>8. /\ segments' \in SegmentTable
      /\ \A s \in Streams : s # NoStream /\ s # StreamAt(k, u) => segments'[s] = segments[s]
      /\ StreamAt(k, u) # NoStream /\ StreamAt(k, u) # NoStream => Left(StreamAt(k, u)) = {}
  <2>1. StreamAt(k, u) \in Streams \cup {NoStream}
    BY <1>6, StreamAtTyped
  <2> QED BY <1>1, <2>1, ClearFacts
<1> HIDE DEF row, new, u
<1>9. Put(<<k, new>>, row, <<k, 0>>, <<k, u>>)
  <2>1. \A w \in Versions : w \in {u} <=> w = 0 \/ w = u
    BY NoPlace
  <2> QED BY <1>1, <1>4, <2>1, ReplaceForm
<1>10. /\ stale' \subseteq Streams
       /\ streams' \in 0 .. MaxStreams /\ streams <= streams' /\ NoStream <= streams'
  BY <1>2, TypeParts, MetabaseAssumption DEF NoStream
<1>11. copy # NoCopy => NoStream # copy.stream
  BY TypeParts, StreamNumbers DEF Copies
<1>12. Commits(k, new, u, <<k, 0>>, row)
  BY <1>2, <1>3, <1>4, <1>5, <1>6, <1>7, <1>8, <1>9, <1>10, <1>11, NoPlace DEF Commits
<1>13. \E D, c, C : Fits(D, c, row, C)
  BY <1>1, <1>4, <1>6, <1>12, CommitFits
<1> QED BY <1>2, <1>13, FitsKeep, OthersHold DEF Others

\* The object of an inline commit has one segment under a stream of its own.
LEMMA InlineKeeps ==
  ASSUME TypeOK, Tables, NEW k \in Keys, NEW req \in Requests, NEW p \in Positions, CommitInlineObject(k, req, p)
  PROVE  Kept
<1> DEFINE old == Overwritten(k, Versioned)
           u == old.version
           new == IF old.reuse THEN u ELSE nextVersion(0, HighestVersion(k))
           row(s) == Row(s, CommittedStatus(Versioned), 1, req.lock, req.ttl)
<1>0. Versioned \in BOOLEAN
  BY DEF Versioned
<1>1. PICK s \in Streams :
        /\ new \in Versions /\ MayReplace(k, u, FALSE) /\ Draw(s)
        /\ objects' = Replace(k, {u}, new, row(s))
        /\ segments' = [ClearSegments({StreamAt(k, u)}) EXCEPT ![s][p] = now]
        /\ expiring' = SetExpires(s, p, req.ttl)
        /\ UNCHANGED <<clock, reads>>
  BY DEF CommitInlineObject
<1>2. /\ expiring' \subseteq Streams \X Positions /\ bucket' = bucket /\ now' = now /\ plain' = plain
      /\ zombies' = zombies /\ expired' = expired /\ copy' = copy /\ failures' = failures /\ stale' = stale
  BY <1>1, SetExpiresTyped DEF clock, reads
<1>3. /\ \A r \in Places : At(r) # s
      /\ segments[s] = NoSegments
      /\ copy # NoCopy => copy.stream # s
      /\ s <= streams' /\ streams' \in 0 .. MaxStreams /\ streams <= streams'
      /\ s # NoStream
  BY <1>1, Fresh
<1>4. /\ row(s) \in Rows /\ row(s).stream = s /\ row(s).status = CommittedStatus(Versioned)
      /\ row(s).count = 1 /\ row(s).lock = req.lock /\ row(s).expires = req.ttl
  <2>1. 1 \in 0 .. Cardinality(Positions)
    <3>1. {p} \subseteq Positions /\ IsFiniteSet(Positions)
      BY MetabaseAssumption
    <3>2. Cardinality({p}) <= Cardinality(Positions) /\ Cardinality({p}) = 1 /\ Cardinality(Positions) \in Nat
      BY <3>1, FS_Subset, FS_Singleton, FS_CardinalityType
    <3> QED BY <3>2
  <2> QED BY <1>0, <1>1, <2>1, CommittedStatusFacts, RequestFacts, RowTyped
<1>5. /\ u \in Versions \cup {0}
      /\ ~Versioned => u = UnversionedAt(k)
      /\ \A w \in Versions : Exists(k, w) => w <= new
      /\ new = u \/ ~Exists(k, new)
  BY <1>0, <1>1, NoPlace, OverwrittenFacts
<1>6. u # 0 => ~Protected(objects[<<k, u>>].lock, TRUE)
  BY <1>1, ProtectedFacts
<1> HIDE DEF row, new, u, old
<1>7. /\ segments' \in SegmentTable
      /\ \A t \in Streams : t # s /\ t # StreamAt(k, u) => segments'[t] = segments[t]
      /\ StreamAt(k, u) # NoStream /\ StreamAt(k, u) # s => Left(StreamAt(k, u)) = {}
      /\ Left(s) = {p}
  <2> DEFINE cleared == ClearSegments({StreamAt(k, u)})
  <2>1. StreamAt(k, u) \in Streams \cup {NoStream} /\ StreamAt(k, u) # s
    <3>1. u = 0 => StreamAt(k, u) = NoStream
      BY NoPlace
    <3>2. u \in Versions => <<k, u>> \in Places /\ StreamAt(k, u) = At(<<k, u>>)
      BY PlaceFacts
    <3> QED BY <1>3, <1>5, <3>1, <3>2, PlaceFacts
  <2>2. NoSegments \in [Positions -> Times] /\ \A t \in Streams : segments[t] \in [Positions -> Times]
    BY TypeParts DEF NoSegments, Times, SegmentTable
  <2>3. /\ cleared \in SegmentTable
        /\ \A t \in Streams : cleared[t] = IF t = StreamAt(k, u) THEN NoSegments ELSE segments[t]
    BY <2>2 DEF ClearSegments, SegmentTable
  <2>4. cleared[s] = NoSegments
    BY <1>3, <2>1, <2>3
  <2>5. now \in Times /\ now # NoTime
    BY TypeParts, MetabaseAssumption DEF Times, NoTime
  <2> HIDE DEF cleared
  <2>6. segments' = [cleared EXCEPT ![s] = [NoSegments EXCEPT ![p] = now]]
    BY <1>1, <2>4 DEF cleared
  <2>7. [NoSegments EXCEPT ![p] = now] \in [Positions -> Times]
    BY <2>2, <2>5
  <2>8. segments' \in SegmentTable
    BY <2>3, <2>6, <2>7 DEF SegmentTable
  <2>9. \A t \in Streams : t # s => segments'[t] = cleared[t]
    BY <2>3, <2>6 DEF SegmentTable
  <2>10. segments'[s] = [NoSegments EXCEPT ![p] = now]
    BY <2>3, <2>6 DEF SegmentTable
  <2>11. Left(s) = {p}
    BY <1>3, <2>5, <2>10 DEF Left, NoSegments
  <2>12. StreamAt(k, u) # NoStream => Left(StreamAt(k, u)) = {}
    BY <2>1, <2>3, <2>9 DEF Left, NoSegments
  <2> QED BY <2>3, <2>8, <2>9, <2>11, <2>12
<1>8. Put(<<k, new>>, row(s), <<k, 0>>, <<k, u>>)
  <2>1. \A w \in Versions : w \in {u} <=> w = 0 \/ w = u
    BY NoPlace
  <2> QED BY <1>1, <1>4, <2>1, ReplaceForm
<1>9. Whole(row(s)) /\ LockKnown(row(s))
  <2>1. Cardinality({p}) = 1
    BY FS_Singleton
  <2>2. Pending \notin Committed /\ CommittedStatus(Versioned) \in Committed
    BY <1>0, RowFields, CommittedStatusFacts
  <2> QED BY <1>4, <1>7, <2>1, <2>2, RequestFacts DEF Whole, LockKnown
<1>10. stale' \subseteq Streams
  BY <1>2, TypeParts
<1>11. /\ row(s).status \in Unversioned => ~Versioned
       /\ row(s).status \notin Markers
  BY <1>0, <1>4, CommittedStatusFacts
<1>12. Commits(k, new, u, <<k, 0>>, row(s))
  BY <1>2, <1>3, <1>4, <1>5, <1>6, <1>7, <1>8, <1>9, <1>10, <1>11, NoPlace DEF Commits
<1>13. \E D, c, C : Fits(D, c, row(s), C)
  BY <1>1, <1>4, <1>5, <1>12, CommitFits
<1> QED BY <1>2, <1>13, FitsKeep, OthersHold DEF Others

\* Segments are added to the stream of a pending object only, which is in no other row.
LEMMA CommitSegmentKeeps ==
  ASSUME TypeOK, Tables, NEW k \in Keys, NEW v \in Versions, NEW p \in Positions, CommitSegment(k, v, p)
  PROVE  Kept
<1> DEFINE c == <<k, v>>
           s == objects[c].stream
           ttl == objects[c].signed.ttl
<1>1. /\ objects[c].status = Pending /\ objects[c].signed # Unsigned
      /\ segments' = [segments EXCEPT ![s][p] = IF @ = NoTime THEN now ELSE @]
      /\ expiring' = SetExpires(s, p, ttl)
      /\ UNCHANGED <<objects, clock, streams, reads>>
  BY DEF CommitSegment, IsUpload, IsPending
<1>2. /\ bucket' = bucket /\ now' = now /\ plain' = plain
      /\ zombies' = zombies /\ expired' = expired /\ copy' = copy /\ failures' = failures /\ stale' = stale
      /\ objects' = objects /\ streams' = streams
  BY <1>1 DEF clock, reads
<1>3. /\ c \in Places /\ objects[c] \in Rows /\ At(c) = s /\ objects[c].status # "none"
  BY <1>1, PlaceFacts, RowFields
<1>4. Pending \notin Markers /\ Pending \notin Committed
  BY DEF Pending, Markers, Committed
<1>5. s \in Streams
  <2>1. s # NoStream
    BY <1>1, <1>3, <1>4 DEF Tables, StreamsSet
  <2> QED BY <1>3, <2>1, RowFields
<1>6. segments' \in SegmentTable /\ \A t \in Streams \ {s} : segments'[t] = segments[t]
  <2>1. segments \in [Streams -> [Positions -> Times]]
    BY TypeParts DEF SegmentTable
  <2>2. now \in Times
    BY TypeParts DEF Times
  <2> HIDE DEF s
  <2> DEFINE x == IF segments[s][p] = NoTime THEN now ELSE segments[s][p]
  <2>3. x \in Times
    BY <1>5, <2>1, <2>2
  <2>4. segments' = [segments EXCEPT ![s] = [segments[s] EXCEPT ![p] = x]]
    BY <1>1, <1>5, <2>1 DEF s
  <2> HIDE DEF x
  <2>5. [segments[s] EXCEPT ![p] = x] \in [Positions -> Times]
    BY <1>5, <2>1, <2>3
  <2>6. segments' \in [Streams -> [Positions -> Times]]
    BY <2>1, <2>4, <2>5
  <2>7. \A t \in Streams \ {s} : segments'[t] = segments[t]
    BY <2>1, <2>4
  <2> QED BY <2>6, <2>7 DEF SegmentTable
<1>7. objects' = [objects EXCEPT ![c] = objects[c]]
  BY <1>2, <1>3, TypeParts DEF Table
<1>8. LockKnown(objects[c])
  BY <1>1, <1>3, <1>4 DEF LockKnown, Tables, LocksKnown
<1>9. Guarded({}, c, objects[c], {s})
  BY <1>1, <1>4 DEF Guarded
<1>10. Fits({}, c, objects[c], {s})
  BY <1>1, <1>2, <1>3, <1>5, <1>6, <1>7, <1>8, <1>9, InPlaceFits
<1>11. expiring' \subseteq Streams \X Positions
  <2> HIDE DEF s, ttl
  <2> QED BY <1>1, <1>5, SetExpiresTyped
<1> QED BY <1>2, <1>10, <1>11, FitsKeep, OthersHold DEF Others

\* The commit takes the pending object's row and the unversioned one's; the segments
\* that are left are those it counts.
LEMMA CommitKeeps ==
  ASSUME TypeOK, Tables, NEW k \in Keys, NEW v \in Versions, NEW only \in SUBSET Positions,
         CommitObject(k, v, only)
  PROVE  Kept
<1> DEFINE src == <<k, v>>
           from == objects[src]
           versioned == from.signed.versioned
           old == Overwritten(k, versioned)
           u == old.version
           new == IF old.reuse THEN u ELSE nextVersion(v, HighestVersion(k))
           row == Row(from.stream, CommittedStatus(versioned), Cardinality(only), from.lock, from.signed.ttl)
<1>1. /\ from.status = Pending /\ from.signed # Unsigned
      /\ new \in Versions /\ only \subseteq Stored(from.stream)
      /\ MayReplace(k, u, FALSE)
      /\ objects' = Replace(k, {v, u}, new, row)
      /\ segments' = [s \in Streams |->
           IF s = from.stream THEN [p \in Positions |-> IF p \in only THEN segments[s][p] ELSE NoTime]
           ELSE IF s = StreamAt(k, u) THEN NoSegments
           ELSE segments[s]]
      /\ UNCHANGED <<expiring, clock, streams, reads>>
  BY DEF CommitObject, IsUpload, IsPending
<1>2. /\ expiring' = expiring /\ bucket' = bucket /\ now' = now /\ plain' = plain
      /\ zombies' = zombies /\ expired' = expired /\ copy' = copy /\ failures' = failures /\ stale' = stale
      /\ streams' = streams
  BY <1>1 DEF clock, reads
<1>3. /\ src \in Places /\ from \in Rows /\ At(src) = from.stream /\ from.status # "none"
      /\ versioned \in BOOLEAN /\ from.signed.ttl \in Times
  BY <1>1, PlaceFacts, RowFields
<1>4. Pending \notin Markers /\ Pending \notin Committed
  BY DEF Pending, Markers, Committed
<1>5. from.stream \in Streams /\ from.stream # NoStream
  <2>1. from.stream # NoStream
    BY <1>1, <1>3, <1>4 DEF Tables, StreamsSet
  <2> QED BY <1>3, <2>1, RowFields
<1>6. Cardinality(only) \in 0 .. Cardinality(Positions)
  <2>1. IsFiniteSet(Positions) /\ only \subseteq Positions
    BY MetabaseAssumption
  <2>2. IsFiniteSet(only) /\ Cardinality(only) <= Cardinality(Positions)
    BY <2>1, FS_Subset
  <2>3. Cardinality(only) \in Nat /\ Cardinality(Positions) \in Nat
    BY <2>1, <2>2, FS_CardinalityType
  <2> QED BY <2>2, <2>3
<1>7. /\ row \in Rows /\ row.stream = from.stream /\ row.status = CommittedStatus(versioned)
      /\ row.count = Cardinality(only) /\ row.lock = from.lock /\ row.expires = from.signed.ttl
  BY <1>3, <1>5, <1>6, CommittedStatusFacts, RowFields, RowTyped
<1>8. /\ u \in Versions \cup {0}
      /\ ~versioned => u = UnversionedAt(k)
      /\ \A w \in Versions : Exists(k, w) => w <= new
      /\ new = u \/ new = v \/ ~Exists(k, new)
  BY <1>1, <1>3, OverwrittenFacts
<1>9. u # 0 => ~Protected(objects[<<k, u>>].lock, TRUE)
  BY <1>1, ProtectedFacts
<1>10. versioned => u = 0
  BY <1>3, OverwrittenFacts
<1> HIDE DEF row, new, u, old
<1>11. StreamAt(k, u) \in Streams \cup {NoStream} /\ StreamAt(k, u) # from.stream
  <2>1. u = 0 => StreamAt(k, u) = NoStream
    BY NoPlace
  <2>2. ASSUME u \in Versions
        PROVE  StreamAt(k, u) \in Streams \cup {NoStream} /\ StreamAt(k, u) # from.stream
    <3>1. StreamAt(k, v) = from.stream /\ StreamAt(k, u) = At(<<k, u>>) /\ <<k, u>> \in Places
      BY <1>3, <2>2, PlaceFacts
    <3>2. u # v
      <4>1. u = UnversionedAt(k) /\ u # 0
        BY <1>3, <1>8, <1>10, <2>2, NoPlace
      <4>2. objects[<<k, u>>].status \in Unversioned
        BY <4>1, HighestVersions
      <4> QED BY <1>1, <1>4, <4>2, RowFields
    <3>3. StreamAt(k, u) # from.stream
      BY <1>5, <2>2, <3>1, <3>2 DEF Tables, StreamsUnique
    <3> QED BY <3>1, <3>3, PlaceFacts
  <2> QED BY <1>5, <1>8, <2>1, <2>2
<1>12. /\ segments' \in SegmentTable
       /\ \A t \in Streams : t # from.stream /\ t # StreamAt(k, u) => segments'[t] = segments[t]
       /\ StreamAt(k, u) # NoStream => Left(StreamAt(k, u)) = {}
       /\ Left(from.stream) = only
  <2>1. NoSegments \in [Positions -> Times] /\ \A t \in Streams : segments[t] \in [Positions -> Times]
    BY TypeParts DEF NoSegments, Times, SegmentTable
  <2>2. \A s \in Streams :
          [p \in Positions |-> IF p \in only THEN segments[s][p] ELSE NoTime] \in [Positions -> Times]
    BY <2>1 DEF Times
  <2>3. segments' \in SegmentTable
    BY <1>1, <2>1, <2>2 DEF SegmentTable
  <2>4. \A t \in Streams : t # from.stream /\ t # StreamAt(k, u) => segments'[t] = segments[t]
    BY <1>1
  <2>5. StreamAt(k, u) # NoStream => segments'[StreamAt(k, u)] = NoSegments
    BY <1>1, <1>11
  <2>6. segments'[from.stream] = [p \in Positions |-> IF p \in only THEN segments[from.stream][p] ELSE NoTime]
    BY <1>1, <1>5
  <2>7. Left(from.stream) = only
    <3>1. \A p \in only : segments[from.stream][p] # NoTime
      BY <1>1, <1>5 DEF Stored
    <3> QED BY <1>5, <2>6, <3>1 DEF Left
  <2>8. StreamAt(k, u) # NoStream => Left(StreamAt(k, u)) = {}
    BY <2>5 DEF Left, NoSegments
  <2> QED BY <2>3, <2>4, <2>7, <2>8
<1>13. Put(<<k, new>>, row, src, <<k, u>>)
  <2>1. \A w \in Versions : w \in {v, u} <=> w = v \/ w = u
    OBVIOUS
  <2> QED BY <1>1, <1>7, <2>1, ReplaceForm
<1>14. Whole(row) /\ LockKnown(row)
  <2>1. from.lock # NoLock => bucket = "locked" /\ from.signed.ttl = NoTime
    BY <1>1, <1>3 DEF Tables, LocksKnown
  <2>2. Pending \notin Committed /\ CommittedStatus(versioned) \in Committed
    BY <1>3, RowFields, CommittedStatusFacts
  <2> QED BY <1>7, <1>12, <2>1, <2>2 DEF Whole, LockKnown
<1>15. copy # NoCopy => copy.stream # from.stream
  BY <1>1, <1>3 DEF Tables, CopyAlone
<1>16. /\ row.status \in Unversioned => ~versioned
       /\ row.status \notin Markers
  BY <1>3, <1>7, CommittedStatusFacts
<1>17. /\ stale' \subseteq Streams /\ streams' \in 0 .. MaxStreams /\ streams <= streams'
       /\ from.stream <= streams'
  <2>1. from.stream <= streams
    BY <1>3 DEF Tables, Drawn
  <2> QED BY <1>2, <2>1, TypeParts, MetabaseAssumption
<1>18. \A r \in Places : At(r) = from.stream => r = src
  <2>1. \A r \in Places : StreamAt(r[1], r[2]) = At(r) /\ r = <<r[1], r[2]>> /\ r[1] \in Keys /\ r[2] \in Versions
    BY PlaceFacts
  <2>2. StreamAt(k, v) = from.stream
    BY <1>3, PlaceFacts
  <2> QED BY <1>5, <2>1, <2>2 DEF Tables, StreamsUnique
<1>19. Commits(k, new, u, src, row)
  <2>1. src \in Places => /\ At(src) \in {NoStream, row.stream} \/ At(src) \in stale'
                          /\ objects[src].status \in Committed /\ Protected(objects[src].lock, TRUE)
                               => At(src) \in stale'
    BY <1>1, <1>3, <1>4, <1>7
  <2>2. <<k, new>> \in {src, <<k, u>>} \/ ~Exists(k, new)
    BY <1>8
  <2> HIDE DEF src, from
  <2>3. /\ row.status \in Unversioned => u = UnversionedAt(k) \/ src = <<k, UnversionedAt(k)>>
        /\ row.stream = NoStream <=> row.status \in Markers
    BY <1>5, <1>7, <1>8, <1>16
  <2>4. /\ \A r \in Places : At(r) = row.stream /\ row.stream # NoStream => r \in {src, <<k, u>>, <<k, new>>}
        /\ copy' # NoCopy /\ copy' = copy => row.stream # copy.stream
    BY <1>2, <1>7, <1>15, <1>18
  <2>5. u # 0 /\ Protected(objects[<<k, u>>].lock, TRUE) => StreamAt(k, u) \in stale'
    BY <1>9
  <2>6. /\ segments' \in SegmentTable
        /\ \A s \in Streams : s # row.stream /\ s # StreamAt(k, u) => segments'[s] = segments[s]
        /\ StreamAt(k, u) # NoStream /\ StreamAt(k, u) # row.stream => Left(StreamAt(k, u)) = {}
    BY <1>7, <1>12
  <2>7. /\ streams' \in 0 .. MaxStreams /\ streams <= streams'
        /\ stale' \subseteq Streams /\ stale \subseteq stale'
        /\ row.stream <= streams'
    BY <1>2, <1>7, <1>17
  <2>8. row.status \in {"versioned", "markerVersioned"} => \A w \in Versions : Exists(k, w) => w <= new
    BY <1>8
  <2> QED BY <1>13, <1>14, <2>1, <2>2, <2>3, <2>4, <2>5, <2>6, <2>7, <2>8 DEF Commits
<1>20. \E D, c, C : Fits(D, c, row, C)
  BY <1>1, <1>7, <1>8, <1>19, CommitFits
<1> QED BY <1>2, <1>20, FitsKeep, OthersHold DEF Others

\* Changing one field of a row leaves the others.
LEMMA RowChanges ==
  ASSUME NEW row \in Rows
  PROVE  /\ \A t \in Times :
              /\ [row EXCEPT !.expires = t] \in Rows
              /\ LET new == [row EXCEPT !.expires = t] IN
                 /\ new.stream = row.stream /\ new.status = row.status /\ new.count = row.count
                 /\ new.lock = row.lock /\ new.signed = row.signed
         /\ \A l \in Locks :
              /\ [row EXCEPT !.lock = l] \in Rows
              /\ [[row EXCEPT !.lock = l] EXCEPT !.lock = row.lock] = row
              /\ LET new == [row EXCEPT !.lock = l] IN
                 /\ new.stream = row.stream /\ new.status = row.status /\ new.count = row.count
                 /\ new.expires = row.expires /\ new.signed = row.signed /\ new.lock = l
BY DEF Rows

\* An aborted upload keeps its row, now expired, and its segments.
LEMMA DeletePendingKeeps ==
  ASSUME TypeOK, Tables, NEW k \in Keys, NEW v \in Versions, DeletePendingObject(k, v)
  PROVE  Kept
<1> DEFINE c == <<k, v>>
           row == [objects[c] EXCEPT !.expires = now]
<1>1. /\ objects[c].status = Pending
      /\ objects' = [objects EXCEPT ![c] = row]
      /\ expiring' = expiring \cup ({objects[c].stream} \X Stored(objects[c].stream))
      /\ UNCHANGED <<segments, clock, streams, reads>>
  BY DEF DeletePendingObject, IsPending
<1>2. /\ bucket' = bucket /\ now' = now /\ plain' = plain /\ segments' = segments
      /\ zombies' = zombies /\ expired' = expired /\ copy' = copy /\ failures' = failures /\ stale' = stale
      /\ streams' = streams
  BY <1>1 DEF clock, reads
<1>3. /\ c \in Places /\ objects[c] \in Rows /\ At(c) = objects[c].stream /\ objects[c].status # "none"
  BY <1>1, PlaceFacts, RowFields
<1>4. Pending \notin Markers /\ Pending \notin Committed
  BY DEF Pending, Markers, Committed
<1>5. objects[c].stream \in Streams
  <2>1. objects[c].stream # NoStream
    BY <1>1, <1>3, <1>4 DEF Tables, StreamsSet
  <2> QED BY <1>3, <2>1, RowFields
<1>6. /\ row \in Rows /\ row.stream = objects[c].stream /\ row.status = objects[c].status
      /\ row.count = objects[c].count /\ row.lock = objects[c].lock /\ row.signed = objects[c].signed
  <2>1. now \in Times
    BY TypeParts DEF Times
  <2> QED BY <1>3, <2>1, RowChanges
<1> HIDE DEF row
<1>7. LockKnown(row)
  BY <1>1, <1>3, <1>4, <1>6 DEF LockKnown, Tables, LocksKnown
<1>8. Guarded({}, c, row, {})
  BY <1>1, <1>4 DEF Guarded
<1>9. segments' \in SegmentTable
  BY <1>2, TypeParts
<1>10. Fits({}, c, row, {})
  BY <1>1, <1>2, <1>3, <1>6, <1>7, <1>8, <1>9, InPlaceFits
<1>11. expiring' \subseteq Streams \X Positions
  BY <1>1, <1>5, TypeParts DEF Stored
<1> QED BY <1>2, <1>10, <1>11, FitsKeep, OthersHold DEF Others

-----------------------------------------------------------------------------
(***************************************************************************)
(* Object Lock.                                                            *)
(***************************************************************************)

\* A lock that is changed stays as strong as compliance asks.
LEMMA LockChangeKeeps ==
  ASSUME TypeOK, Tables, NEW k \in Keys, NEW v \in Versions, NEW lock \in Locks,
         Lockable(k, v),
         objects' = [objects EXCEPT ![<<k, v>>] = [objects[<<k, v>>] EXCEPT !.lock = lock]],
         UNCHANGED <<segments, expiring, clock, streams, reads>>,
         objects[<<k, v>>].lock.mode = "compliance" /\ now < objects[<<k, v>>].lock.until
           => lock.mode = "compliance" /\ lock.until >= objects[<<k, v>>].lock.until
  PROVE  Kept
<1> DEFINE c == <<k, v>>
           old == objects[c]
           row == [old EXCEPT !.lock = lock]
<1>1. bucket = "locked" /\ old.status \in Committed /\ old.expires = NoTime
  BY DEF Lockable
<1>2. /\ bucket' = bucket /\ now' = now /\ plain' = plain /\ segments' = segments
      /\ zombies' = zombies /\ expired' = expired /\ copy' = copy /\ failures' = failures /\ stale' = stale
      /\ streams' = streams /\ expiring' = expiring
  BY DEF clock, reads
<1>3. c \in Places /\ old \in Rows
  BY <1>1, PlaceFacts, RowFields
<1>4. Pending \notin Committed
  BY RowFields
<1>5. /\ row \in Rows /\ row.stream = old.stream /\ row.status = old.status
      /\ row.count = old.count /\ row.expires = old.expires /\ row.signed = old.signed /\ row.lock = lock
      /\ [row EXCEPT !.lock = old.lock] = old
  BY <1>3, RowChanges
<1>6. objects' = [objects EXCEPT ![c] = row]
  OBVIOUS
<1>7. old.lock.mode = "compliance" /\ now < old.lock.until
        => row.lock.mode = "compliance" /\ row.lock.until >= old.lock.until
  BY <1>5
<1> HIDE DEF row
<1>8. LockKnown(row)
  BY <1>1, <1>4, <1>5 DEF LockKnown
<1>9. Guarded({}, c, row, {})
  BY <1>5, <1>7 DEF Guarded
<1>10. segments' \in SegmentTable
  BY <1>2, TypeParts
<1>11. old.status # Pending
  BY <1>1, <1>4
<1>12. Fits({}, c, row, {})
  BY <1>2, <1>3, <1>5, <1>6, <1>8, <1>9, <1>10, <1>11, InPlaceFits
<1> QED BY <1>2, <1>12, FitsKeep, OthersHold DEF Others

\* The legal hold changes, the retention does not.
LEMMA LegalHoldKeeps ==
  ASSUME TypeOK, Tables, NEW k \in Keys, NEW v \in Versions, NEW enabled \in Holds,
         SetObjectLegalHold(k, v, enabled)
  PROVE  Kept
<1> DEFINE c == <<k, v>>
           lock == Held(objects[c].lock, enabled)
<1>1. /\ Lockable(k, v) /\ UNCHANGED <<segments, expiring, clock, streams, reads>>
      /\ objects' = [objects EXCEPT ![c] = [objects[c] EXCEPT !.lock = lock]]
  BY DEF SetObjectLegalHold
<1>2. objects[c] \in Rows
  BY <1>1, PlaceFacts, RowFields DEF Lockable
<1>3. objects[c].lock \in Locks
  BY <1>2, RowFields
<1>4. lock \in Locks
  BY <1>3, LockFields DEF Held
<1>5. lock.mode = objects[c].lock.mode /\ lock.until = objects[c].lock.until
  BY <1>3 DEF Held, Locks
<1>6. objects[c].lock.until >= objects[c].lock.until
  <2>1. objects[c].lock.until \in 0 .. MaxNow
    BY <1>3, LockFields
  <2> QED BY <2>1
<1> HIDE DEF lock
<1> QED BY <1>1, <1>4, <1>5, <1>6, LockChangeKeeps

\* MayRetain lets no compliance retention be shortened or removed.
LEMMA RetentionKeeps ==
  ASSUME TypeOK, Tables, NEW k \in Keys, NEW v \in Versions, NEW new \in Locks, NEW bypass \in BOOLEAN,
         SetObjectRetention(k, v, new, bypass)
  PROVE  Kept
<1> DEFINE c == <<k, v>>
           old == objects[c].lock
           lock == [new EXCEPT !.hold = old.hold]
<1>1. /\ Lockable(k, v) /\ MayRetain(old, new, bypass) /\ UNCHANGED <<segments, expiring, clock, streams, reads>>
      /\ objects' = [objects EXCEPT ![c] = [objects[c] EXCEPT !.lock = lock]]
  BY DEF SetObjectRetention
<1>2. objects[c] \in Rows
  BY <1>1, PlaceFacts, RowFields DEF Lockable
<1>3. old \in Locks
  BY <1>2, RowFields
<1>4. old.hold \in Holds
  BY <1>3, LockFields
<1>5. lock \in Locks
  BY <1>4, LockFields
<1>6. lock.mode = new.mode /\ lock.until = new.until
  BY DEF Locks
<1>7. old.mode = "compliance" /\ now < old.until => new.mode = old.mode /\ new.until >= old.until
  <2>1. [old EXCEPT !.hold = FALSE].mode = old.mode /\ [old EXCEPT !.hold = FALSE].until = old.until
    BY <1>3 DEF Locks
  <2>2. ASSUME old.mode = "compliance", now < old.until
        PROVE  Protected([old EXCEPT !.hold = FALSE], bypass)
    BY <2>1, <2>2 DEF Protected
  <2> QED BY <1>1, <2>2 DEF MayRetain
<1>8. old.mode = "compliance" /\ now < old.until => lock.mode = "compliance" /\ lock.until >= old.until
  BY <1>6, <1>7
<1> HIDE DEF lock
<1> QED BY <1>1, <1>5, <1>8, LockChangeKeeps

-----------------------------------------------------------------------------
(***************************************************************************)
(* Deletes and the cleanup chores.                                         *)
(***************************************************************************)

\* A place that may be version 0, and a stream.
AnyRefs == [key : Keys, version : Versions \cup {0}, stream : Streams \cup {NoStream}]

\* The row at a place of G goes with the segments of its stream and was fit for it,
\* or else everything the write may hit is known to rely on an outdated read.
Safe(z, G) ==
  \/ /\ z \in G /\ StreamAt(z.key, z.version) = z.stream
     /\ objects[<<z.key, z.version>>].status \in Committed => ~Protected(objects[<<z.key, z.version>>].lock, TRUE)
  \/ {z.stream, StreamAt(z.key, z.version)} \ {NoStream} \subseteq stale'

\* Rows that were read, or rows and segments, are deleted.
LEMMA DeleteKeeps ==
  ASSUME TypeOK, Tables, NEW A \in SUBSET AnyRefs, NEW G \in SUBSET A,
         objects' = [r \in Places |-> IF \E z \in G : r = <<z.key, z.version>> THEN NoRow ELSE objects[r]],
         segments' = ClearSegments({z.stream : z \in A}),
         streams' = streams, stale' \subseteq Streams, stale \subseteq stale',
         \A z \in A : Safe(z, G),
         bucket' = bucket, copy' = copy \/ copy' = NoCopy, Others'
  PROVE  Kept
<1> DEFINE D == {r \in Places : \E z \in G : r = <<z.key, z.version>>}
           C == {z.stream : z \in A} \cap Streams
<1>0. \A z \in A : z.key \in Keys /\ z.version \in Versions \cup {0} /\ z.stream \in Streams \cup {NoStream}
  BY DEF AnyRefs
<1>1. objects' = [r \in Places |-> IF r \in D THEN NoRow ELSE objects[r]]
  OBVIOUS
<1>2. segments' = ClearSegments(C)
  BY DEF ClearSegments
<1>3. \A r, q \in Places : At(r) = At(q) /\ At(q) # NoStream => r = q
  <2>1. \A r \in Places : StreamAt(r[1], r[2]) = At(r) /\ r = <<r[1], r[2]>> /\ r[1] \in Keys /\ r[2] \in Versions
    BY PlaceFacts
  <2> QED BY <2>1 DEF Tables, StreamsUnique
<1>4. ASSUME NEW r \in Places, NEW z \in G, r = <<z.key, z.version>>
      PROVE  StreamAt(z.key, z.version) = At(r)
  BY <1>4, PlaceFacts
<1>5. ASSUME NEW r \in Places, r \in D, At(r) # NoStream
      PROVE  At(r) \in C \/ At(r) \in stale'
  <2>1. PICK z \in G : r = <<z.key, z.version>>
    BY <1>5
  <2>2. StreamAt(z.key, z.version) = At(r)
    BY <1>4, <2>1
  <2>3. At(r) \in Streams
    BY <1>5, PlaceFacts
  <2> QED BY <1>5, <2>2, <2>3 DEF Safe
<1>6. ASSUME NEW r \in Places, At(r) \in C, r \notin D
      PROVE  At(r) \in stale'
  <2>1. PICK z \in A : z.stream = At(r)
    BY <1>6
  <2>2. At(r) # NoStream
    BY <1>6, StreamNumbers
  <2>3. ASSUME z \in G, StreamAt(z.key, z.version) = z.stream
        PROVE  FALSE
    <3>1. z.version # 0
      BY <2>1, <2>2, <2>3, NoPlace
    <3>2. <<z.key, z.version>> \in Places /\ At(<<z.key, z.version>>) = z.stream
      BY <1>0, <2>3, <3>1, StreamAtTyped
    <3>3. r = <<z.key, z.version>>
      BY <1>3, <2>1, <2>2, <3>2
    <3> QED BY <1>6, <2>3, <3>3
  <2> QED BY <2>1, <2>2, <2>3 DEF Safe
<1>7. ASSUME NEW r \in D, objects[r].status \in Committed, Protected(objects[r].lock, TRUE)
      PROVE  objects[r].stream \in stale'
  <2>1. PICK z \in G : r = <<z.key, z.version>>
    BY <1>7
  <2>2. StreamAt(z.key, z.version) = At(r)
    BY <1>4, <2>1
  <2>3. At(r) = objects[r].stream /\ At(r) # NoStream
    BY <1>7, PlaceFacts, RowFields DEF Tables, StreamsSet
  <2>4. {z.stream, At(r)} \ {NoStream} \subseteq stale'
    BY <1>7, <2>1, <2>2 DEF Safe
  <2> QED BY <2>3, <2>4
<1>8. D \in SUBSET Places /\ C \in SUBSET Streams
  OBVIOUS
<1> HIDE DEF D, C
<1>9. /\ segments' \in SegmentTable
      /\ \A s \in Streams : s \notin C => segments'[s] = segments[s]
      /\ \A s \in C : segments'[s] = NoSegments
  BY <1>2, <1>8, ClearFacts
<1>10. \E c : Fits(D, c, NoRow, C)
  <2>1. Removes(D, C)
    BY <1>1, <1>5, <1>6, <1>7, <1>9 DEF Removes
  <2> QED BY <1>8, <2>1, RemovalFits
<1> QED BY <1>10, FitsKeep

\* The same for a single row.
LEMMA DeleteOneKeeps ==
  ASSUME TypeOK, Tables, NEW k \in Keys, NEW v \in Versions \cup {0}, NEW s \in Streams \cup {NoStream},
         objects' = [r \in Places |-> IF r = <<k, v>> THEN NoRow ELSE objects[r]],
         segments' = ClearSegments({s}),
         streams' = streams, stale' \subseteq Streams, stale \subseteq stale',
         \/ /\ StreamAt(k, v) = s
            /\ objects[<<k, v>>].status \in Committed => ~Protected(objects[<<k, v>>].lock, TRUE)
         \/ {s, StreamAt(k, v)} \ {NoStream} \subseteq stale',
         bucket' = bucket, copy' = copy \/ copy' = NoCopy, Others'
  PROVE  Kept
<1> DEFINE ref == [key |-> k, version |-> v, stream |-> s]
<1>1. ref \in AnyRefs /\ ref.key = k /\ ref.version = v /\ ref.stream = s
  BY DEF AnyRefs
<1> HIDE DEF ref
<1>2. objects' = [r \in Places |-> IF \E z \in {ref} : r = <<z.key, z.version>> THEN NoRow ELSE objects[r]]
  BY <1>1
<1>3. segments' = ClearSegments({z.stream : z \in {ref}})
  <2>1. {z.stream : z \in {ref}} = {s}
    BY <1>1
  <2> QED BY <2>1
<1>4. \A z \in {ref} : Safe(z, {ref})
  BY <1>1 DEF Safe
<1>5. {ref} \in SUBSET AnyRefs /\ {ref} \in SUBSET {ref}
  BY <1>1
<1> QED BY <1>2, <1>3, <1>4, <1>5, DeleteKeeps

\* A row is deleted with its segments, unless MayDelete refuses.
LEMMA DeleteExactKeeps ==
  ASSUME TypeOK, Tables, NEW k \in Keys, NEW v \in Versions, NEW bypass \in BOOLEAN,
         DeleteObjectExactVersion(k, v, bypass)
  PROVE  Kept
<1>1. /\ Exists(k, v) /\ MayDelete(k, v, bypass)
      /\ objects' = [objects EXCEPT ![<<k, v>>] = NoRow]
      /\ segments' = ClearSegments({objects[<<k, v>>].stream})
      /\ UNCHANGED <<expiring, clock, streams, reads>>
  BY DEF DeleteObjectExactVersion, Remove
<1>2. /\ bucket' = bucket /\ now' = now /\ plain' = plain /\ expiring' = expiring
      /\ zombies' = zombies /\ expired' = expired /\ copy' = copy /\ failures' = failures /\ stale' = stale
      /\ streams' = streams
  BY <1>1 DEF clock, reads
<1>3. objects[<<k, v>>] \in Rows /\ <<k, v>> \in Places /\ StreamAt(k, v) = objects[<<k, v>>].stream
  BY <1>1, PlaceFacts
<1>4. objects[<<k, v>>].status \in Committed => ~Protected(objects[<<k, v>>].lock, TRUE)
  <2>1. CASE bucket = "locked"
    BY <1>1, <2>1, ProtectedFacts, RowFields DEF MayDelete, IsPending
  <2>2. CASE bucket # "locked"
    <3>1. objects[<<k, v>>].lock = NoLock
      BY <1>3, <2>2, RowFields DEF Tables, LocksKnown
    <3> QED BY <3>1, ProtectedFacts
  <2> QED BY <2>1, <2>2
<1>5. objects' = [r \in Places |-> IF r = <<k, v>> THEN NoRow ELSE objects[r]]
  BY <1>1, TypeParts DEF Table
<1>6. objects[<<k, v>>].stream \in Streams \cup {NoStream} /\ stale' \subseteq Streams
  BY <1>2, <1>3, RowFields, TypeParts
<1> QED BY <1>1, <1>2, <1>3, <1>4, <1>5, <1>6, DeleteOneKeeps, OthersHold DEF Others

\* What was read of a row, and what a write hits that relies on it.
LEMMA RefFields ==
  /\ \A z \in Refs :
       z.key \in Keys /\ z.version \in Versions /\ z.stream \in Streams \cup {NoStream} /\ z \in AnyRefs
  /\ \A k, v, s, fit : s \in Streams \cup {NoStream} /\ StreamAt(k, v) \in Streams \cup {NoStream}
       => Relied(k, v, s, fit) \subseteq Streams
  /\ \A k, v, s, fit :
       (StreamAt(k, v) = s /\ fit) \/ {s, StreamAt(k, v)} \ {NoStream} \subseteq Relied(k, v, s, fit)
BY DEF Refs, AnyRefs, Relied

\* The row that was read may be gone, or another: then both streams are stale.
LEMMA DeletePlainKeeps ==
  ASSUME TypeOK, Tables, DeleteLastCommittedPlain
  PROVE  Kept
<1> DEFINE k == plain.key
           v == plain.version
           s == plain.stream
           fit == ~Protected(objects[<<k, v>>].lock, FALSE)
<1>1. /\ plain # NoRef
      /\ objects' = [objects EXCEPT ![<<k, v>>] = NoRow]
      /\ segments' = ClearSegments({s})
      /\ stale' = stale \cup Relied(k, v, s, fit)
      /\ plain' = NoRef
      /\ UNCHANGED <<expiring, clock, streams, zombies, expired, copy, failures>>
  BY DEF DeleteLastCommittedPlain, Remove
<1>2. /\ bucket' = bucket /\ now' = now /\ expiring' = expiring
      /\ zombies' = zombies /\ expired' = expired /\ copy' = copy /\ failures' = failures
      /\ streams' = streams
  BY <1>1 DEF clock
<1>3. k \in Keys /\ v \in Versions /\ s \in Streams \cup {NoStream}
  BY <1>1, TypeParts, RefFields
<1> HIDE DEF k, v, s
<1>4. <<k, v>> \in Places /\ StreamAt(k, v) \in Streams \cup {NoStream}
  BY <1>3, StreamAtTyped
<1>5. objects' = [r \in Places |-> IF r = <<k, v>> THEN NoRow ELSE objects[r]]
  BY <1>1, TypeParts DEF Table
<1>6. \/ /\ StreamAt(k, v) = s
         /\ objects[<<k, v>>].status \in Committed => ~Protected(objects[<<k, v>>].lock, TRUE)
      \/ {s, StreamAt(k, v)} \ {NoStream} \subseteq stale'
  <2>1. CASE StreamAt(k, v) = s /\ fit
    BY <2>1, ProtectedFacts
  <2>2. CASE ~(StreamAt(k, v) = s /\ fit)
    BY <1>1, <2>2 DEF Relied
  <2> QED BY <2>1, <2>2
<1>7. stale' \subseteq Streams /\ stale \subseteq stale'
  <2>1. Relied(k, v, s, fit) \subseteq Streams
    BY <1>3, <1>4, RefFields
  <2>2. stale \subseteq Streams
    BY TypeParts
  <2> HIDE DEF fit
  <2> QED BY <1>1, <2>1, <2>2
<1>8. Others'
  BY <1>1, <1>2, OthersHold DEF Others
<1> QED BY <1>1, <1>2, <1>3, <1>5, <1>6, <1>7, <1>8, DeleteOneKeeps

\* The cleanup of a copy deletes what is at a version, by then perhaps another object.
LEMMA CleanupKeeps ==
  ASSUME TypeOK, Tables, copy # NoCopy, NEW v \in Versions \cup {0}, CopyCleanup(v), failures' \in 0 .. MaxFailures
  PROVE  Kept
<1> DEFINE k == copy.key
           s == copy.stream
           fit == IsPending(k, v)
<1>1. /\ objects' = [r \in Places |-> IF r = <<k, v>> THEN NoRow ELSE objects[r]]
      /\ segments' = ClearSegments({StreamAt(k, v)})
      /\ stale' = stale \cup Relied(k, v, s, fit)
      /\ copy' = NoCopy
      /\ UNCHANGED <<expiring, clock, streams, plain, zombies, expired>>
  BY DEF CopyCleanup, Places
<1>2. /\ bucket' = bucket /\ now' = now /\ expiring' = expiring /\ plain' = plain
      /\ zombies' = zombies /\ expired' = expired /\ streams' = streams
  BY <1>1 DEF clock
<1>3. k \in Keys /\ s \in Streams
  BY TypeParts DEF Copies
<1> HIDE DEF k, s
<1>4. StreamAt(k, v) \in Streams \cup {NoStream}
  BY <1>3, StreamAtTyped
<1>5. \/ /\ StreamAt(k, v) = StreamAt(k, v)
         /\ objects[<<k, v>>].status \in Committed => ~Protected(objects[<<k, v>>].lock, TRUE)
      \/ {StreamAt(k, v), StreamAt(k, v)} \ {NoStream} \subseteq stale'
  <2>1. CASE StreamAt(k, v) = s /\ fit
    BY <2>1, RowFields DEF IsPending
  <2>2. CASE ~(StreamAt(k, v) = s /\ fit)
    BY <1>1, <2>2 DEF Relied
  <2> QED BY <2>1, <2>2
<1>6. stale' \subseteq Streams /\ stale \subseteq stale'
  <2>1. Relied(k, v, s, fit) \subseteq Streams
    BY <1>3, <1>4, RefFields
  <2>2. stale \subseteq Streams
    BY TypeParts
  <2> HIDE DEF fit
  <2> QED BY <1>1, <2>1, <2>2
<1>7. Others'
  BY <1>2, OthersHold DEF Others
<1> QED BY <1>1, <1>2, <1>3, <1>4, <1>5, <1>6, <1>7, DeleteOneKeeps

\* The inactive rows of a batch go, pending or not.
LEMMA ZombiesKeep ==
  ASSUME TypeOK, Tables, DeleteInactiveObjectsAndSegments
  PROVE  Kept
<1> DEFINE gone == {r \in zombies.batch : Inactive(r)}
           fit(z) == IsPending(z.key, z.version)
           hit == UNION {Relied(z.key, z.version, z.stream, fit(z)) : z \in gone}
<1>1. /\ objects' = [r \in Places |-> IF \E z \in gone : r = <<z.key, z.version>> THEN NoRow ELSE objects[r]]
      /\ segments' = ClearSegments({z.stream : z \in gone})
      /\ stale' = stale \cup hit
      /\ zombies' = [batch |-> {}, day |-> 0]
      /\ UNCHANGED <<expiring, clock, streams, plain, expired, copy, failures>>
  BY DEF DeleteInactiveObjectsAndSegments, Places
<1>2. /\ bucket' = bucket /\ now' = now /\ expiring' = expiring /\ plain' = plain
      /\ expired' = expired /\ copy' = copy /\ failures' = failures /\ streams' = streams
  BY <1>1 DEF clock
<1>3. \A z \in gone : z \in Refs /\ StreamAt(z.key, z.version) = z.stream
  BY TypeParts DEF Zombies, Inactive
<1>4. hit \subseteq Streams
  <2>1. ASSUME NEW z \in gone
        PROVE  Relied(z.key, z.version, z.stream, fit(z)) \subseteq Streams
    BY <1>3, RefFields
  <2> HIDE DEF fit, gone
  <2> QED BY <2>1
<1>5. \A z \in gone : Relied(z.key, z.version, z.stream, fit(z)) \subseteq stale'
  <2> HIDE DEF fit, gone
  <2> QED BY <1>1
<1>6. ASSUME NEW z \in gone
      PROVE  Safe(z, gone)
  <2>1. CASE IsPending(z.key, z.version)
    BY <1>3, <2>1, RowFields DEF Safe, IsPending
  <2>2. CASE ~IsPending(z.key, z.version)
    <3>1. {z.stream, StreamAt(z.key, z.version)} \ {NoStream} \subseteq Relied(z.key, z.version, z.stream, fit(z))
      BY <2>2 DEF Relied
    <3> QED BY <1>5, <3>1 DEF Safe
  <2> QED BY <2>1, <2>2
<1>7. Others'
  <2>1. zombies' \in Zombies
    BY <1>1, MetabaseAssumption DEF Zombies
  <2> QED BY <1>2, <2>1, OthersHold DEF Others
<1>8. gone \in SUBSET AnyRefs /\ gone \in SUBSET gone
  BY <1>3, RefFields
<1>9. stale' \subseteq Streams /\ stale \subseteq stale'
  <2>1. stale \subseteq Streams
    BY TypeParts
  <2> HIDE DEF hit
  <2> QED BY <1>1, <1>4, <2>1
<1> HIDE DEF gone
<1> QED BY <1>1, <1>2, <1>6, <1>7, <1>8, <1>9, DeleteKeeps

\* The rows of a batch go if their streams match, the segments in any case.
LEMMA ExpiredKeep ==
  ASSUME TypeOK, Tables, DeleteObjectsAndSegmentsNoVerify
  PROVE  Kept
<1> DEFINE found == {r \in expired : StreamAt(r.key, r.version) = r.stream}
           fit(z) == Expired(objects[<<z.key, z.version>>])
           hit == UNION {Relied(z.key, z.version, z.stream, fit(z)) : z \in expired}
<1>1. /\ objects' = [r \in Places |-> IF \E z \in found : r = <<z.key, z.version>> THEN NoRow ELSE objects[r]]
      /\ segments' = ClearSegments({z.stream : z \in expired})
      /\ stale' = stale \cup hit
      /\ expired' = {}
      /\ UNCHANGED <<expiring, clock, streams, plain, zombies, copy, failures>>
  BY DEF DeleteObjectsAndSegmentsNoVerify, Places
<1>2. /\ bucket' = bucket /\ now' = now /\ expiring' = expiring /\ plain' = plain
      /\ zombies' = zombies /\ copy' = copy /\ failures' = failures /\ streams' = streams
  BY <1>1 DEF clock
<1>3. \A z \in expired : /\ z \in Refs /\ z.key \in Keys /\ z.version \in Versions /\ z.stream \in Streams \cup {NoStream}
                         /\ StreamAt(z.key, z.version) \in Streams \cup {NoStream}
                         /\ StreamAt(z.key, z.version) = At(<<z.key, z.version>>) /\ <<z.key, z.version>> \in Places
  <2>1. ASSUME NEW z \in expired
        PROVE  z \in Refs /\ z.key \in Keys /\ z.version \in Versions /\ z.stream \in Streams \cup {NoStream}
    BY TypeParts, RefFields
  <2> QED BY <2>1, StreamAtTyped
<1>4. hit \subseteq Streams
  <2>1. ASSUME NEW z \in expired
        PROVE  Relied(z.key, z.version, z.stream, fit(z)) \subseteq Streams
    BY <1>3, RefFields
  <2> HIDE DEF fit
  <2> QED BY <2>1
<1>5. stale \subseteq stale' /\ \A z \in expired : Relied(z.key, z.version, z.stream, fit(z)) \subseteq stale'
  <2> HIDE DEF fit
  <2> QED BY <1>1
<1>6. ASSUME NEW z \in expired
      PROVE  Safe(z, found)
  <2> DEFINE row == objects[<<z.key, z.version>>]
  <2>1. CASE StreamAt(z.key, z.version) = z.stream /\ Expired(row)
    <3>1. ASSUME row.status \in Committed, Protected(row.lock, TRUE)
          PROVE  StreamAt(z.key, z.version) \in stale'
      <4>1. row.lock # NoLock
        BY <3>1, ProtectedFacts
      <4>2. row.status # "none" /\ row \in Rows /\ row.stream = StreamAt(z.key, z.version)
        BY <1>3, <3>1, PlaceFacts, RowFields
      <4>3. row.expires # NoTime
        BY <2>1 DEF Expired
      <4> QED BY <1>3, <1>5, <3>1, <4>1, <4>2, <4>3 DEF Tables, LocksKnown
    <3>2. z \in found
      BY <2>1
    <3> QED BY <2>1, <3>1, <3>2 DEF Safe
  <2>2. CASE ~(StreamAt(z.key, z.version) = z.stream /\ Expired(row))
    <3>1. {z.stream, StreamAt(z.key, z.version)} \ {NoStream} \subseteq Relied(z.key, z.version, z.stream, fit(z))
      BY <2>2 DEF Relied
    <3> QED BY <1>5, <3>1 DEF Safe
  <2> QED BY <2>1, <2>2
<1>7. Others'
  BY <1>1, <1>2, OthersHold DEF Others
<1>8. expired \in SUBSET AnyRefs /\ found \in SUBSET expired
  BY <1>3, RefFields
<1>9. stale' \subseteq Streams
  <2>1. stale \subseteq Streams
    BY TypeParts
  <2> HIDE DEF hit
  <2> QED BY <1>1, <1>4, <2>1
<1> HIDE DEF found
<1> QED BY <1>1, <1>2, <1>5, <1>6, <1>7, <1>8, <1>9, DeleteKeeps

-----------------------------------------------------------------------------
(***************************************************************************)
(* Move and copy.                                                          *)
(***************************************************************************)

\* A move takes a row and its stream to another key, or to a new version of its own.
LEMMA MoveKeeps ==
  ASSUME TypeOK, Tables, NEW k \in Keys, NEW v \in Versions, NEW to \in Keys, NEW req \in Requests,
         FinishMoveObject(k, v, to, req.lock)
  PROVE  Kept
<1> DEFINE src == <<k, v>>
           from == objects[src]
           u == MoveReplaces(k, v, to)
           new == nextVersion(0, HighestVersion(to))
           row == Row(from.stream, CommittedStatus(Versioned), from.count, req.lock, from.expires)
<1>1. /\ from.status \in Committed /\ ~Protected(from.lock, FALSE)
      /\ req.lock # NoLock => from.expires = NoTime
      /\ MayReplace(to, u, FALSE)
      /\ from.count = Cardinality(Stored(from.stream))
      /\ new \in Versions
      /\ objects' = [Replace(to, {u}, new, row) EXCEPT ![src] = NoRow]
      /\ segments' = ClearSegments({StreamAt(to, u)})
      /\ UNCHANGED <<expiring, clock, streams, reads>>
  BY DEF FinishMoveObject
<1>2. /\ expiring' = expiring /\ bucket' = bucket /\ now' = now /\ plain' = plain
      /\ zombies' = zombies /\ expired' = expired /\ copy' = copy /\ failures' = failures /\ stale' = stale
      /\ streams' = streams
  BY <1>1 DEF clock, reads
<1>3. /\ src \in Places /\ from \in Rows /\ At(src) = from.stream /\ StreamAt(k, v) = from.stream
      /\ from.status # "none"
  BY <1>1, PlaceFacts, RowFields
<1>4. from.stream \in Streams /\ from.stream # NoStream
  <2>1. from.stream # NoStream
    BY <1>1, <1>3, RowFields DEF Tables, StreamsSet
  <2> QED BY <1>3, <2>1, RowFields
<1>5. Versioned \in BOOLEAN
  BY DEF Versioned
<1>6. /\ row \in Rows /\ row.stream = from.stream /\ row.status = CommittedStatus(Versioned)
      /\ row.count = from.count /\ row.lock = req.lock /\ row.expires = from.expires
  BY <1>3, <1>5, CommittedStatusFacts, RequestFacts, RowFields, RowTyped
<1>7. /\ \A w \in Versions : Exists(to, w) => w <= new
      /\ ~Exists(to, new) /\ <<to, new>> # src
  <2>1. new # 0
    BY <1>1, NoPlace
  <2>2. ~Exists(to, new) /\ \A w \in Versions : Exists(to, w) => w <= new
    BY <1>1, <2>1, NextVersions
  <2> QED BY <1>3, <2>2 DEF Exists
<1>8. \A r \in Places : At(r) = from.stream => r = src
  <2>1. \A r \in Places : StreamAt(r[1], r[2]) = At(r) /\ r = <<r[1], r[2]>> /\ r[1] \in Keys /\ r[2] \in Versions
    BY PlaceFacts
  <2> QED BY <1>3, <1>4, <2>1 DEF Tables, StreamsUnique
<1>9. /\ u \in Versions \cup {0}
      /\ ~Versioned => u = UnversionedAt(to) \/ src = <<to, UnversionedAt(to)>>
      /\ StreamAt(to, u) # from.stream
  <2> DEFINE w == IF Versioned THEN 0 ELSE UnversionedAt(to)
  <2>1. w \in Versions \cup {0}
    BY HighestVersions
  <2>2. u = IF to = k /\ StreamAt(to, w) = from.stream THEN 0 ELSE w
    BY <1>3 DEF MoveReplaces
  <2>3. StreamAt(to, w) = from.stream => src = <<to, w>>
    <3>1. w = 0 => StreamAt(to, w) = NoStream
      BY NoPlace
    <3>2. w \in Versions => <<to, w>> \in Places /\ StreamAt(to, w) = At(<<to, w>>)
      BY StreamAtTyped
    <3> HIDE DEF w
    <3> QED BY <1>4, <1>8, <2>1, <3>1, <3>2
  <2>4. StreamAt(to, 0) # from.stream
    BY <1>4, NoPlace
  <2> HIDE DEF u
  <2>5. CASE StreamAt(to, w) = from.stream
    <3>1. u = 0
      BY <2>2, <2>3, <2>5
    <3> QED BY <2>3, <2>4, <2>5, <3>1
  <2>6. CASE StreamAt(to, w) # from.stream
    BY <2>1, <2>2, <2>6
  <2> QED BY <2>5, <2>6
<1>10. u # 0 => ~Protected(objects[<<to, u>>].lock, TRUE)
  BY <1>1, ProtectedFacts
<1>11. ~Protected(from.lock, TRUE)
  BY <1>1, ProtectedFacts
<1> HIDE DEF row, new, u
<1>12. /\ segments' \in SegmentTable
       /\ \A s \in Streams : s # StreamAt(to, u) => segments'[s] = segments[s]
       /\ StreamAt(to, u) # NoStream => Left(StreamAt(to, u)) = {}
       /\ Left(from.stream) = Stored(from.stream)
  <2>1. StreamAt(to, u) \in Streams \cup {NoStream}
    BY <1>9, StreamAtTyped
  <2>2. segments' = ClearSegments({StreamAt(to, u)})
    BY <1>1
  <2>3. /\ segments' \in SegmentTable
        /\ \A s \in Streams : s # StreamAt(to, u) => segments'[s] = segments[s]
        /\ StreamAt(to, u) # NoStream => Left(StreamAt(to, u)) = {}
    BY <2>1, <2>2, ClearFacts
  <2>4. Left(from.stream) = Stored(from.stream)
    <3>1. segments'[from.stream] = segments[from.stream]
      BY <1>4, <1>9, <2>3
    <3> QED BY <1>4, <3>1 DEF Left, Stored
  <2> QED BY <2>3, <2>4
<1>13. Put(<<to, new>>, row, src, <<to, u>>)
  <2>1. objects' = [r \in Places |-> IF r = src THEN NoRow ELSE IF r = <<to, new>> THEN row
                                   ELSE IF r[1] = to /\ r[2] \in {u} THEN NoRow ELSE objects[r]]
    BY <1>1, <1>3 DEF Replace, Places
  <2>2. ASSUME NEW r \in Places
        PROVE  (r[1] = to /\ r[2] \in {u}) <=> r = <<to, u>>
    BY PlaceFacts
  <2>3. objects' = [r \in Places |-> IF r = <<to, new>> THEN row
                                   ELSE IF r = src \/ r = <<to, u>> THEN NoRow ELSE objects[r]]
    BY <1>7, <2>1, <2>2
  <2>4. \A r \in Places : objects[r] \in Rows \cup {NoRow}
    BY PlaceFacts
  <2>5. objects' \in Table
    BY <1>6, <2>3, <2>4 DEF Table
  <2> HIDE DEF src
  <2> QED BY <2>3, <2>5 DEF Put
<1>14. Whole(row) /\ LockKnown(row)
  <2>1. Pending \notin Committed /\ CommittedStatus(Versioned) \in Committed
    BY <1>5, RowFields, CommittedStatusFacts
  <2> QED BY <1>1, <1>6, <1>12, <2>1, RequestFacts DEF Whole, LockKnown
<1>15. copy # NoCopy => copy.stream # from.stream
  <2>1. from.status # Pending
    BY <1>1, RowFields
  <2> QED BY <1>3, <2>1 DEF Tables, CopyAlone, IsPending
<1>16. /\ row.status \in Unversioned => ~Versioned
       /\ row.status \notin Markers
  BY <1>5, <1>6, CommittedStatusFacts
<1>17. /\ stale' \subseteq Streams /\ streams' \in 0 .. MaxStreams /\ streams <= streams'
       /\ from.stream <= streams' /\ stale \subseteq stale'
  <2>1. from.stream <= streams
    BY <1>3 DEF Tables, Drawn
  <2> QED BY <1>2, <2>1, TypeParts, MetabaseAssumption
<1>18. Commits(to, new, u, src, row)
  <2>1. src \in Places => /\ At(src) \in {NoStream, row.stream} \/ At(src) \in stale'
                          /\ objects[src].status \in Committed /\ Protected(objects[src].lock, TRUE)
                               => At(src) \in stale'
    BY <1>3, <1>6, <1>11
  <2> HIDE DEF src, from
  <2>2. /\ row.status \in Unversioned => u = UnversionedAt(to) \/ src = <<to, UnversionedAt(to)>>
        /\ row.stream = NoStream <=> row.status \in Markers
    BY <1>4, <1>6, <1>9, <1>16
  <2>3. /\ \A r \in Places : At(r) = row.stream /\ row.stream # NoStream => r \in {src, <<to, u>>, <<to, new>>}
        /\ copy' # NoCopy /\ copy' = copy => row.stream # copy.stream
    BY <1>2, <1>6, <1>8, <1>15
  <2>4. u # 0 /\ Protected(objects[<<to, u>>].lock, TRUE) => StreamAt(to, u) \in stale'
    BY <1>10
  <2>5. /\ segments' \in SegmentTable
        /\ \A s \in Streams : s # row.stream /\ s # StreamAt(to, u) => segments'[s] = segments[s]
        /\ StreamAt(to, u) # NoStream /\ StreamAt(to, u) # row.stream => Left(StreamAt(to, u)) = {}
    BY <1>6, <1>12
  <2>6. row.stream <= streams'
    BY <1>6, <1>17
  <2> QED BY <1>7, <1>13, <1>14, <1>17, <2>1, <2>2, <2>3, <2>4, <2>5, <2>6 DEF Commits
<1>19. \E D, c, C : Fits(D, c, row, C)
  BY <1>1, <1>6, <1>9, <1>18, CommitFits
<1> QED BY <1>2, <1>19, FitsKeep, OthersHold DEF Others

\* The fields of a copy in progress.
LEMMA CopyFacts ==
  ASSUME TypeOK, copy.pc \in {"read", "pending", "segments"}
  PROVE  /\ copy # NoCopy /\ copy \in Copies
         /\ copy.key \in Keys /\ copy.version \in Versions \cup {0} /\ copy.stream \in Streams
         /\ copy.lock \in Locks /\ copy.positions \in SUBSET Positions /\ copy.expires \in Times
         /\ copy.versioned \in BOOLEAN
         /\ Cardinality(copy.positions) \in 0 .. Cardinality(Positions)
<1>1. copy # NoCopy
  BY DEF NoCopy
<1>2. copy \in Copies
  BY <1>1, TypeParts
<1>3. /\ copy.key \in Keys /\ copy.version \in Versions \cup {0} /\ copy.stream \in Streams
      /\ copy.lock \in Locks /\ copy.positions \in SUBSET Positions /\ copy.expires \in Times
      /\ copy.versioned \in BOOLEAN
  BY <1>2 DEF Copies
<1>4. IsFiniteSet(copy.positions) /\ Cardinality(copy.positions) <= Cardinality(Positions)
  BY <1>3, MetabaseAssumption, FS_Subset
<1>5. Cardinality(copy.positions) \in Nat /\ Cardinality(Positions) \in Nat
  BY <1>4, MetabaseAssumption, FS_CardinalityType
<1> QED BY <1>1, <1>2, <1>3, <1>4, <1>5

\* What both writes of the last transaction have in common.
LEMMA CopyOldFacts ==
  ASSUME TypeOK, Tables, copy.pc = "segments", MayReplace(copy.key, CopyOld, FALSE),
         segments' = ClearSegments({StreamAt(copy.key, CopyOld)})
  PROVE  /\ CopyOld \in Versions \cup {0}
         /\ ~copy.versioned => CopyOld = UnversionedAt(copy.key)
         /\ CopyOld # 0 => /\ objects[<<copy.key, CopyOld>>].status \in Unversioned
                           /\ ~Protected(objects[<<copy.key, CopyOld>>].lock, TRUE)
         /\ StreamAt(copy.key, CopyOld) # copy.stream
         /\ segments' \in SegmentTable
         /\ \A s \in Streams : s # StreamAt(copy.key, CopyOld) => segments'[s] = segments[s]
         /\ StreamAt(copy.key, CopyOld) # NoStream => Left(StreamAt(copy.key, CopyOld)) = {}
<1> DEFINE k == copy.key
           u == CopyOld
<1>1. k \in Keys /\ copy.stream \in Streams /\ copy # NoCopy
  BY CopyFacts
<1>2. /\ u \in Versions \cup {0}
      /\ ~copy.versioned => u = UnversionedAt(k)
      /\ u # 0 => objects[<<k, u>>].status \in Unversioned
  BY <1>1, HighestVersions DEF CopyOld
<1>3. u # 0 => ~Protected(objects[<<k, u>>].lock, TRUE)
  BY ProtectedFacts
<1> HIDE DEF u, k
<1>4. /\ StreamAt(k, u) \in Streams \cup {NoStream}
      /\ u \in Versions => <<k, u>> \in Places /\ StreamAt(k, u) = At(<<k, u>>)
  BY <1>1, <1>2, StreamAtTyped
<1>5. StreamAt(k, u) # copy.stream
  <2>1. ASSUME u \in Versions, At(<<k, u>>) = copy.stream
        PROVE  FALSE
    <3>1. objects[<<k, u>>].status = Pending
      <4>1. IsPending(<<k, u>>[1], <<k, u>>[2])
        BY <1>1, <1>4, <2>1 DEF Tables, CopyAlone
      <4> QED BY <4>1 DEF IsPending
    <3>2. u # 0
      BY <2>1, NoPlace
    <3> QED BY <1>2, <3>1, <3>2, RowFields
  <2>2. u = 0 => StreamAt(k, u) = NoStream
    BY NoPlace
  <2> QED BY <1>1, <1>2, <1>4, <2>1, <2>2, StreamNumbers
<1>6. segments' = ClearSegments({StreamAt(k, u)})
  BY DEF k, u
<1>7. /\ segments' \in SegmentTable
      /\ \A s \in Streams : s # StreamAt(k, u) => segments'[s] = segments[s]
      /\ StreamAt(k, u) # NoStream => Left(StreamAt(k, u)) = {}
  <2> DEFINE C == {StreamAt(k, u)}
  <2>1. /\ \A s \in Streams : s \notin C <=> s # StreamAt(k, u)
        /\ StreamAt(k, u) \in C
        /\ segments' = ClearSegments(C)
    BY <1>6
  <2> HIDE DEF C
  <2>2. /\ segments' \in SegmentTable
        /\ \A s \in Streams : s \notin C => segments'[s] = segments[s]
        /\ \A s \in Streams : s \in C => Left(s) = {}
    BY <2>1, ClearFacts
  <2> QED BY <1>4, <2>1, <2>2
<1> QED BY <1>2, <1>3, <1>5, <1>7 DEF k, u

\* The copy is committed at a new version, and its pending object goes.
LEMMA CopyNewKeeps ==
  ASSUME TypeOK, Tables, CopyCommit, CopyVersion # copy.version
  PROVE  Kept
<1> DEFINE k == copy.key
           u == CopyOld
           new == CopyVersion
           src == <<k, copy.version>>
           fit == IsPending(k, copy.version) /\ objects[src].expires = copy.expires
           relied == Relied(k, copy.version, copy.stream, fit)
           row == Row(copy.stream, CommittedStatus(copy.versioned), Cardinality(copy.positions),
                      copy.lock, copy.expires)
<1>1. /\ copy.pc = "segments" /\ MayReplace(k, u, FALSE) /\ new \in Versions
      /\ objects' = Replace(k, {u, copy.version}, new, row)
      /\ stale' = stale \cup relied
      /\ segments' = ClearSegments({StreamAt(k, u)})
      /\ copy' = NoCopy
      /\ UNCHANGED <<expiring, clock, plain, zombies, expired, failures>>
      /\ UNCHANGED streams
  BY DEF CopyCommit
<1>2. /\ expiring' = expiring /\ bucket' = bucket /\ now' = now /\ plain' = plain
      /\ zombies' = zombies /\ expired' = expired /\ failures' = failures /\ streams' = streams
  BY <1>1 DEF clock
<1>3. /\ copy # NoCopy /\ k \in Keys /\ copy.version \in Versions \cup {0} /\ copy.stream \in Streams
      /\ copy.versioned \in BOOLEAN /\ copy.stream # NoStream
  BY <1>1, CopyFacts, StreamNumbers
<1>4. /\ row \in Rows /\ row.stream = copy.stream /\ row.status = CommittedStatus(copy.versioned)
      /\ row.count = Cardinality(copy.positions) /\ row.lock = copy.lock /\ row.expires = copy.expires
  <2>1. /\ copy.lock \in Locks /\ copy.expires \in Times
        /\ Cardinality(copy.positions) \in 0 .. Cardinality(Positions)
    BY <1>1, CopyFacts
  <2> QED BY <1>3, <2>1, CommittedStatusFacts, RowTyped
<1>5. /\ u \in Versions \cup {0}
      /\ ~copy.versioned => u = UnversionedAt(k)
      /\ u # 0 => ~Protected(objects[<<k, u>>].lock, TRUE)
      /\ StreamAt(k, u) # copy.stream
      /\ segments' \in SegmentTable
      /\ \A s \in Streams : s # StreamAt(k, u) => segments'[s] = segments[s]
      /\ StreamAt(k, u) # NoStream => Left(StreamAt(k, u)) = {}
  BY <1>1, CopyOldFacts
<1>6. ~Exists(k, new) /\ \A w \in Versions : Exists(k, w) => w <= new
  BY <1>1, <1>3, NextVersions DEF CopyVersion
<1>7. Put(<<k, new>>, row, src, <<k, u>>)
  <2>1. \A w \in Versions : w \in {u, copy.version} <=> w = copy.version \/ w = u
    OBVIOUS
  <2> HIDE DEF u, new, row, k
  <2>2. objects' = Replace(k, {u, copy.version}, new, row)
    BY <1>1
  <2> QED BY <1>1, <1>3, <1>4, <2>1, <2>2, ReplaceForm
<1> HIDE DEF row, new, u, k
<1>8. /\ StreamAt(k, copy.version) \in Streams \cup {NoStream}
      /\ src \in Places => copy.version \in Versions /\ StreamAt(k, copy.version) = At(src)
      /\ copy.version \in Versions => src \in Places
  <2>1. src \in Places => copy.version \in Versions
    BY <1>3, NoPlace
  <2> QED BY <1>3, <2>1, StreamAtTyped
<1>9. stale \subseteq stale' /\ stale' \subseteq Streams
  <2>1. stale \subseteq Streams
    BY TypeParts
  <2>2. relied \subseteq Streams
    BY <1>3, <1>8, RefFields
  <2> HIDE DEF relied
  <2> QED BY <1>1, <2>1, <2>2
<1>10. CASE StreamAt(k, copy.version) = copy.stream /\ fit
  <2>1. src \in Places /\ At(src) = copy.stream /\ objects[src].status = Pending
    <3>1. copy.version # 0
      BY <1>3, <1>10, NoPlace
    <3> QED BY <1>3, <1>8, <1>10, <3>1 DEF IsPending
  <2>2. copy.stream \notin stale' => Stored(copy.stream) = copy.positions
    BY <1>1, <1>3, <1>9, <2>1 DEF Tables, CopyAlone
  <2>3. Left(copy.stream) = Stored(copy.stream)
    BY <1>3, <1>5 DEF Left, Stored
  <2>4. Whole(row)
    BY <1>4, <2>2, <2>3 DEF Whole
  <2>5. src \in Places => /\ At(src) \in {NoStream, row.stream} \/ At(src) \in stale'
                          /\ objects[src].status \in Committed /\ Protected(objects[src].lock, TRUE)
                               => At(src) \in stale'
    BY <1>4, <2>1, RowFields
  <2> HIDE DEF src, fit
  <2>6. Commits(k, new, u, src, row)
    <3>1. LockKnown(row)
      <4>1. Pending \notin Committed /\ CommittedStatus(copy.versioned) \in Committed
        BY <1>3, RowFields, CommittedStatusFacts
      <4> QED BY <1>3, <1>4, <4>1 DEF LockKnown, Tables, LocksKnown
    <3>2. row.stream <= streams' /\ streams' \in 0 .. MaxStreams /\ streams <= streams'
      BY <1>2, <1>3, <1>4, TypeParts, MetabaseAssumption DEF Tables, Drawn
    <3>3. /\ row.status \in Unversioned => u = UnversionedAt(k)
          /\ row.stream = NoStream <=> row.status \in Markers
      BY <1>3, <1>4, <1>5, CommittedStatusFacts
    <3>4. \A r \in Places : At(r) = row.stream => r = src
      BY <1>3, <1>4 DEF Tables, CopyAlone, src, k
    <3>5. u # 0 /\ Protected(objects[<<k, u>>].lock, TRUE) => StreamAt(k, u) \in stale'
      BY <1>5
    <3>6. copy' = NoCopy
      BY <1>1
    <3> QED BY <1>4, <1>5, <1>6, <1>7, <1>9, <2>4, <2>5, <3>1, <3>2, <3>3, <3>4, <3>5, <3>6 DEF Commits
  <2>7. \E D, c, C : Fits(D, c, row, C)
    BY <1>1, <1>3, <1>4, <1>5, <2>6, CommitFits DEF new
  <2> QED BY <1>1, <1>2, <2>7, FitsKeep, OthersHold DEF Others
<1>11. CASE ~(StreamAt(k, copy.version) = copy.stream /\ fit)
  <2>1. {copy.stream, StreamAt(k, copy.version)} \ {NoStream} \subseteq stale'
    BY <1>1, <1>11 DEF Relied
  <2>2. copy.stream \in stale'
    BY <1>3, <2>1
  <2>3. Whole(row)
    BY <1>4, <2>2 DEF Whole
  <2>4. src \in Places => At(src) = NoStream \/ At(src) \in stale'
    BY <1>8, <2>1
  <2>5. src \in Places => /\ At(src) \in {NoStream, row.stream} \/ At(src) \in stale'
                          /\ objects[src].status \in Committed /\ Protected(objects[src].lock, TRUE)
                               => At(src) \in stale'
    <3>1. src \in Places /\ objects[src].status \in Committed => At(src) # NoStream
      BY RowFields DEF Tables, StreamsSet
    <3> QED BY <2>4, <3>1
  <2> HIDE DEF src, fit
  <2>6. Commits(k, new, u, src, row)
    <3>1. LockKnown(row)
      <4>1. Pending \notin Committed /\ CommittedStatus(copy.versioned) \in Committed
        BY <1>3, RowFields, CommittedStatusFacts
      <4> QED BY <1>3, <1>4, <4>1 DEF LockKnown, Tables, LocksKnown
    <3>2. row.stream <= streams' /\ streams' \in 0 .. MaxStreams /\ streams <= streams'
      BY <1>2, <1>3, <1>4, TypeParts, MetabaseAssumption DEF Tables, Drawn
    <3>3. /\ row.status \in Unversioned => u = UnversionedAt(k)
          /\ row.stream = NoStream <=> row.status \in Markers
      BY <1>3, <1>4, <1>5, CommittedStatusFacts
    <3>4. \A r \in Places : At(r) = row.stream => r = src
      BY <1>3, <1>4 DEF Tables, CopyAlone, src, k
    <3>5. u # 0 /\ Protected(objects[<<k, u>>].lock, TRUE) => StreamAt(k, u) \in stale'
      BY <1>5
    <3>6. copy' = NoCopy
      BY <1>1
    <3> QED BY <1>4, <1>5, <1>6, <1>7, <1>9, <2>3, <2>5, <3>1, <3>2, <3>3, <3>4, <3>5, <3>6 DEF Commits
  <2>7. \E D, c, C : Fits(D, c, row, C)
    BY <1>1, <1>3, <1>4, <1>5, <2>6, CommitFits DEF new
  <2> QED BY <1>1, <1>2, <2>7, FitsKeep, OthersHold DEF Others
<1> QED BY <1>10, <1>11

\* A row that is committed in place.
InPlace(row, s, status) ==
  [row EXCEPT !.stream = s, !.status = status, !.deadline = NoTime, !.signed = Unsigned]

\* Committing in place changes the stream and the status, not the count, the lock or
\* the expiration.
LEMMA RowCommitted ==
  ASSUME NEW row \in Rows, NEW s \in Streams, NEW status \in Statuses
  PROVE  /\ InPlace(row, s, status) \in Rows
         /\ InPlace(row, s, status).stream = s /\ InPlace(row, s, status).status = status
         /\ InPlace(row, s, status).count = row.count
         /\ InPlace(row, s, status).lock = row.lock /\ InPlace(row, s, status).expires = row.expires
<1>1. NoTime \in Nat \cup {NoTime} /\ s \in Streams \cup {NoStream}
  OBVIOUS
<1> QED BY <1>1 DEF Rows, InPlace

\* The copy is committed in place, whatever the row is by now.
LEMMA CopyInPlaceKeeps ==
  ASSUME TypeOK, Tables, CopyCommit, CopyVersion = copy.version
  PROVE  Kept
<1> DEFINE k == copy.key
           v == copy.version
           u == CopyOld
           src == <<k, v>>
           from == objects[src]
           status == CommittedStatus(copy.versioned)
           fit == IsPending(k, v) /\ from.expires = copy.expires
           relied == Relied(k, v, copy.stream, fit)
           row(s) == InPlace(from, s, status)
<1>1. PICK s \in Streams :
        /\ copy.pc = "segments" /\ MayReplace(k, u, FALSE) /\ v \in Versions
        /\ Exists(k, v)
        /\ IF from.stream = NoStream THEN Draw(s) ELSE s = from.stream /\ UNCHANGED streams
        /\ objects' = Replace(k, {u}, v, row(s))
        /\ stale' = IF from.stream = s THEN stale \cup relied ELSE stale \cup relied \cup {s}
        /\ segments' = ClearSegments({StreamAt(k, u)})
        /\ copy' = NoCopy
        /\ UNCHANGED <<expiring, clock, plain, zombies, expired, failures>>
  BY DEF CopyCommit, InPlace
<1>2. /\ expiring' = expiring /\ bucket' = bucket /\ now' = now /\ plain' = plain
      /\ zombies' = zombies /\ expired' = expired /\ failures' = failures
  BY <1>1 DEF clock
<1>3. /\ copy # NoCopy /\ k \in Keys /\ copy.stream \in Streams
      /\ copy.versioned \in BOOLEAN /\ copy.stream # NoStream
  BY <1>1, CopyFacts, StreamNumbers
<1>4. /\ src \in Places /\ from \in Rows /\ At(src) = from.stream /\ StreamAt(k, v) = from.stream
      /\ from.stream \in Streams \cup {NoStream} /\ from.status # "none"
  BY <1>1, <1>3, PlaceFacts, RowFields
<1>5. /\ row(s) \in Rows /\ row(s).stream = s /\ row(s).status = status
      /\ row(s).count = from.count /\ row(s).lock = from.lock /\ row(s).expires = from.expires
  <2>1. status \in Statuses
    BY <1>3, CommittedStatusFacts
  <2>2. from \in Rows /\ s \in Streams
    BY <1>1, <1>4
  <2> HIDE DEF from, status
  <2> QED BY <2>1, <2>2, RowCommitted
<1>6. /\ u \in Versions \cup {0}
      /\ ~copy.versioned => u = UnversionedAt(k)
      /\ u # 0 => ~Protected(objects[<<k, u>>].lock, TRUE)
      /\ segments' \in SegmentTable
      /\ \A t \in Streams : t # StreamAt(k, u) => segments'[t] = segments[t]
      /\ StreamAt(k, u) # NoStream => Left(StreamAt(k, u)) = {}
      /\ StreamAt(k, u) # copy.stream
  BY <1>1, CopyOldFacts
<1>7. \A w \in Versions : Exists(k, w) => w <= v
  <2>1. nextVersion(v, HighestVersion(k)) = v
    BY DEF CopyVersion
  <2> QED BY <1>1, <1>3, <2>1, NextVersions
<1>8. Put(src, row(s), src, <<k, u>>)
  <2>1. objects' = [r \in Places |-> IF r = src THEN row(s)
                                     ELSE IF r[1] = k /\ r[2] \in {u} THEN NoRow ELSE objects[r]]
    BY <1>1 DEF Replace, Places
  <2>2. ASSUME NEW r \in Places
        PROVE  (r[1] = k /\ r[2] \in {u}) <=> r = <<k, u>>
    BY PlaceFacts
  <2> HIDE DEF src, row, k, u
  <2>3. objects' = [r \in Places |-> IF r = src THEN row(s)
                                   ELSE IF r = src \/ r = <<k, u>> THEN NoRow ELSE objects[r]]
    BY <2>1, <2>2
  <2>4. \A r \in Places : objects[r] \in Rows \cup {NoRow}
    BY PlaceFacts
  <2>5. objects' \in Table
    BY <1>5, <2>3, <2>4 DEF Table
  <2> QED BY <2>3, <2>5 DEF Put
<1>9. /\ s # NoStream /\ s <= streams' /\ streams' \in 0 .. MaxStreams /\ streams <= streams'
      /\ \A r \in Places : At(r) = s => r = src
  <2>1. CASE from.stream = NoStream
    BY <1>1, <2>1, Fresh
  <2>2. CASE from.stream # NoStream
    <3>1. s = from.stream /\ streams' = streams
      BY <1>1, <2>2
    <3>2. \A r \in Places :
            StreamAt(r[1], r[2]) = At(r) /\ r = <<r[1], r[2]>> /\ r[1] \in Keys /\ r[2] \in Versions
      BY PlaceFacts
    <3>3. \A r \in Places : At(r) = s => r = src
      BY <1>1, <1>3, <1>4, <2>2, <3>1, <3>2 DEF Tables, StreamsUnique
    <3>4. s <= streams
      BY <1>4, <3>1 DEF Tables, Drawn
    <3> QED BY <2>2, <3>1, <3>3, <3>4, TypeParts, MetabaseAssumption
  <2> QED BY <2>1, <2>2
<1>10. /\ stale \subseteq stale' /\ relied \subseteq stale' /\ stale' \subseteq Streams
       /\ s # from.stream => s \in stale'
  <2>1. stale \subseteq Streams
    BY TypeParts
  <2>2. relied \subseteq Streams
    BY <1>3, <1>4, RefFields
  <2> HIDE DEF relied
  <2> QED BY <1>1, <2>1, <2>2
<1>11. s \notin stale' => s = copy.stream /\ fit /\ At(src) = copy.stream
  <2>1. ASSUME s \notin stale'
        PROVE  s = copy.stream /\ fit
    <3>1. s = from.stream
      BY <1>10, <2>1
    <3>2. s \notin relied
      BY <1>10, <2>1
    <3> QED BY <1>4, <1>9, <3>1, <3>2 DEF Relied
  <2>2. s \notin stale' => s = from.stream
    BY <1>10
  <2> QED BY <1>4, <2>1, <2>2
<1> HIDE DEF row
<1>12. Whole(row(s)) /\ LockKnown(row(s))
  <2>1. ASSUME s \notin stale'
        PROVE  /\ row(s).count = Cardinality(Left(row(s).stream))
               /\ row(s).lock # NoLock => row(s).expires = NoTime
    <3>1. s = copy.stream /\ At(src) = copy.stream /\ fit
      BY <1>11, <2>1
    <3>2. from.count = Cardinality(copy.positions) /\ from.lock = copy.lock
      BY <1>3, <1>4, <3>1 DEF Tables, CopyAlone
    <3>3. Stored(copy.stream) = copy.positions
      BY <1>1, <1>3, <1>4, <1>10, <2>1, <3>1 DEF Tables, CopyAlone
    <3>4. Left(copy.stream) = Stored(copy.stream)
      <4>1. segments'[copy.stream] = segments[copy.stream]
        BY <1>3, <1>6
      <4> QED BY <4>1 DEF Left, Stored
    <3>5. from.lock # NoLock => from.expires = NoTime
      BY <1>3, <3>1, <3>2 DEF Tables, LocksKnown
    <3> QED BY <1>5, <3>1, <3>2, <3>3, <3>4, <3>5
  <2>2. row(s).lock # NoLock => bucket = "locked"
    BY <1>4, <1>5 DEF Tables, LocksKnown
  <2>3. row(s).status # Pending /\ row(s).status \in Committed
    BY <1>3, <1>5, RowFields, CommittedStatusFacts
  <2> QED BY <1>5, <2>1, <2>2, <2>3 DEF Whole, LockKnown
<1>13. objects[src].status \in Committed /\ Protected(objects[src].lock, TRUE) => At(src) \in stale'
  <2>1. ASSUME from.status \in Committed
        PROVE  At(src) \in stale'
    <3>1. ~fit
      BY <2>1, RowFields DEF IsPending
    <3>2. At(src) # NoStream
      BY <1>4, <2>1, RowFields DEF Tables, StreamsSet
    <3>3. {copy.stream, StreamAt(k, v)} \ {NoStream} \subseteq relied
      BY <3>1 DEF Relied
    <3> QED BY <1>4, <1>10, <3>2, <3>3
  <2> QED BY <2>1
<1>14. from.stream = NoStream \/ from.stream = s
  BY <1>1
<1> HIDE DEF u, k, v
<1>15. Commits(k, v, u, src, row(s))
  <2>1. /\ src \in Places => /\ At(src) \in {NoStream, row(s).stream} \/ At(src) \in stale'
                             /\ objects[src].status \in Committed /\ Protected(objects[src].lock, TRUE)
                                  => At(src) \in stale'
        /\ <<k, v>> \in {src, <<k, u>>}
        /\ Put(<<k, v>>, row(s), src, <<k, u>>)
    BY <1>4, <1>5, <1>8, <1>13, <1>14
  <2> HIDE DEF src, from
  <2>2. /\ row(s).status \in Unversioned => u = UnversionedAt(k)
        /\ row(s).stream = NoStream <=> row(s).status \in Markers
    BY <1>3, <1>5, <1>6, <1>9, CommittedStatusFacts
  <2>3. /\ \A r \in Places : At(r) = row(s).stream => r = src
        /\ row(s).stream <= streams'
    BY <1>5, <1>9
  <2>4. u # 0 /\ Protected(objects[<<k, u>>].lock, TRUE) => StreamAt(k, u) \in stale'
    BY <1>6
  <2>5. copy' = NoCopy
    BY <1>1
  <2> QED BY <1>6, <1>7, <1>9, <1>10, <1>12, <2>1, <2>2, <2>3, <2>4, <2>5 DEF Commits
<1>16. \E D, c, C : Fits(D, c, row(s), C)
  BY <1>1, <1>3, <1>5, <1>6, <1>15, CommitFits
<1> QED BY <1>1, <1>2, <1>16, FitsKeep, OthersHold DEF Others

\* A step of a copy that fits keeps the invariant, if it keeps what is said of the copy.
LEMMA CopyStepKeeps ==
  ASSUME TypeOK, Tables, NEW row, \E D, c, C : Fits(D, c, row, C),
         bucket' = bucket, CopyGoesOn, CopyAlone', copy' \in Copies \cup {NoCopy}, Others'
  PROVE  Kept
<1>1. PICK D, c, C : Fits(D, c, row, C)
  OBVIOUS
<1>2. Tables' /\ LockedStays(stale') /\ NewOnTop
  BY <1>1, FitsPreservesRows DEF Tables
<1>3. /\ objects' \in Table /\ segments' \in SegmentTable
      /\ streams' \in 0 .. MaxStreams /\ stale' \subseteq Streams
  BY <1>1 DEF Fits, Write
<1>4. bucket' \in Buckets
  BY TypeParts
<1>5. TypeOK'
  BY <1>3, <1>4 DEF TypeOK, Others, Table, SegmentTable, Zombies, Places
<1> QED BY <1>2, <1>5 DEF Kept

\* The pending object of a copy has the stream that was drawn for it.
LEMMA InsertPendingKeeps ==
  ASSUME TypeOK, Tables, insertPendingCopyObject
  PROVE  Kept
<1> DEFINE k == copy.key
           v == HighestVersion(k) + 1
           base == Row(copy.stream, Pending, Cardinality(copy.positions), copy.lock, copy.expires)
           row == [base EXCEPT !.deadline = now]
<1>1. /\ copy.pc = "read" /\ v \in Versions
      /\ objects' = Replace(k, {}, v, row)
      /\ copy' = [copy EXCEPT !.pc = "pending", !.version = v]
      /\ UNCHANGED <<segments, expiring, clock, streams, plain, zombies, expired, failures, stale>>
  BY DEF insertPendingCopyObject
<1>2. /\ segments' = segments /\ expiring' = expiring /\ bucket' = bucket /\ now' = now /\ plain' = plain
      /\ zombies' = zombies /\ expired' = expired /\ failures' = failures /\ stale' = stale /\ streams' = streams
  BY <1>1 DEF clock
<1>3. /\ copy # NoCopy /\ copy \in Copies /\ k \in Keys /\ copy.stream \in Streams /\ copy.stream # NoStream
      /\ copy.lock \in Locks /\ copy.expires \in Times
      /\ Cardinality(copy.positions) \in 0 .. Cardinality(Positions)
  BY <1>1, CopyFacts, StreamNumbers
<1>4. /\ row \in Rows /\ row.stream = copy.stream /\ row.status = Pending /\ row.signed = Unsigned
      /\ row.count = Cardinality(copy.positions) /\ row.lock = copy.lock
  <2>1. Pending \in Statuses
    BY DEF Statuses
  <2>2. /\ base \in Rows /\ base.stream = copy.stream /\ base.status = Pending /\ base.signed = Unsigned
        /\ base.count = Cardinality(copy.positions) /\ base.lock = copy.lock
    BY <1>3, <2>1, RowTyped
  <2>3. now \in Nat
    BY TypeParts, MetabaseAssumption
  <2> HIDE DEF base
  <2> QED BY <2>2, <2>3 DEF Rows
<1> HIDE DEF row
<1>5. ~Exists(k, v)
  BY <1>1, <1>3, HighestVersions
<1>6. /\ copy' \in Copies /\ copy'.pc = "pending" /\ copy'.key = k /\ copy'.version = v
      /\ copy'.stream = copy.stream /\ copy'.lock = copy.lock /\ copy'.expires = copy.expires
      /\ copy'.positions = copy.positions
  <2>1. v \in Versions \cup {0}
    BY <1>1
  <2> HIDE DEF k, v
  <2>2. copy' = [copy EXCEPT !.pc = "pending", !.version = v]
    BY <1>1 DEF v, k
  <2>3. copy.key = k
    BY DEF k
  <2> QED BY <1>3, <2>1, <2>2, <2>3 DEF Copies
<1> HIDE DEF v
<1>7. Put(<<k, v>>, row, <<k, 0>>, <<k, 0>>)
  <2>1. \A w \in Versions : w \in {} <=> w = 0 \/ w = 0
    BY NoPlace
  <2> HIDE DEF k
  <2>2. objects' = Replace(k, {}, v, row)
    BY <1>1 DEF k
  <2> QED BY <1>1, <1>3, <1>4, <2>1, <2>2, ReplaceForm
<1>8. \A r \in Places : At(r) # copy.stream
  BY <1>1, <1>3 DEF Tables, CopyAlone
<1>9. Commits(k, v, 0, <<k, 0>>, row)
  <2>1. Pending \notin Unversioned /\ Pending \notin Markers /\ Pending \notin {"versioned", "markerVersioned"}
        /\ Pending \notin Committed
    BY DEF Pending, Unversioned, Markers, Committed
  <2>2. Whole(row) /\ LockKnown(row)
    BY <1>3, <1>4, <2>1 DEF Whole, LockKnown, Tables, LocksKnown
  <2>3. row.stream <= streams' /\ streams' \in 0 .. MaxStreams /\ streams <= streams'
        /\ stale' \subseteq Streams /\ segments' \in SegmentTable
    BY <1>2, <1>3, <1>4, TypeParts, MetabaseAssumption DEF Tables, Drawn
  <2>4. copy' # copy
    BY <1>1, <1>6
  <2> QED BY <1>2, <1>3, <1>4, <1>5, <1>7, <1>8, <2>1, <2>2, <2>3, <2>4, NoPlace DEF Commits
<1>10. \E D, c, C : Fits(D, c, row, C)
  BY <1>1, <1>3, <1>4, <1>9, CommitFits
<1>11. CopyGoesOn
  BY <1>3, <1>6 DEF CopyGoesOn
<1>12. CopyAlone'
  <2>1. ASSUME NEW r \in Places, At(r)' = copy.stream
        PROVE  r = <<k, v>> /\ objects'[r] = row
    <3>1. ASSUME r # <<k, v>>
          PROVE  FALSE
      <4>1. objects'[r] = objects[r]
        BY <3>1, NoPlace, <1>7 DEF Put
      <4>2. At(r)' = At(r)
        BY <4>1 DEF At
      <4> QED BY <1>8, <2>1, <4>2
    <3> QED BY <1>7, <3>1 DEF Put
  <2>2. Stored(copy.stream)' = {}
    <3>1. Stored(copy.stream) = {}
      BY <1>1, <1>3 DEF Tables, CopyAlone
    <3> QED BY <1>2, <1>6, <3>1 DEF Stored
  <2>3. \A r \in Places : r = <<r[1], r[2]>>
    BY PlaceFacts
  <2> QED BY <1>4, <1>6, <2>1, <2>2, <2>3 DEF CopyAlone, IsPending
<1> QED BY <1>2, <1>6, <1>10, <1>11, <1>12, CopyStepKeeps, OthersHold DEF Others

\* The segments are written by stream, whether the pending object is there or not.
LEMMA FinalizeSegmentsKeeps ==
  ASSUME TypeOK, Tables, finalizeSegmentsCopy
  PROVE  Kept
<1> DEFINE k == copy.key
           v == copy.version
           t == copy.stream
           src == <<k, v>>
           fit == IsPending(k, v)
           relied == Relied(k, v, t, fit)
           filled == [p \in Positions |-> IF p \in copy.positions THEN now ELSE NoTime]
<1>1. /\ copy.pc = "pending"
      /\ segments' = [segments EXCEPT ![t] = filled]
      /\ expiring' = (expiring \ ({t} \X Positions)) \cup ({t} \X copy.expiring)
      /\ stale' = stale \cup relied
      /\ copy' = [copy EXCEPT !.pc = "segments"]
      /\ UNCHANGED <<objects, clock, streams, plain, zombies, expired, failures>>
  BY DEF finalizeSegmentsCopy
<1>2. /\ objects' = objects /\ bucket' = bucket /\ now' = now /\ plain' = plain
      /\ zombies' = zombies /\ expired' = expired /\ failures' = failures /\ streams' = streams
  BY <1>1 DEF clock
<1>3. /\ copy # NoCopy /\ copy \in Copies /\ k \in Keys /\ v \in Versions \cup {0}
      /\ t \in Streams /\ t # NoStream /\ copy.positions \in SUBSET Positions
  BY <1>1, CopyFacts, StreamNumbers
<1>4. /\ copy' \in Copies /\ copy'.pc = "segments" /\ copy'.key = k /\ copy'.version = v /\ copy'.stream = t
      /\ copy'.lock = copy.lock /\ copy'.expires = copy.expires /\ copy'.positions = copy.positions
  BY <1>1, <1>3 DEF Copies
<1>5. copy' # copy /\ copy' # NoCopy
  BY <1>1, <1>4 DEF NoCopy
<1>6. filled \in [Positions -> Times] /\ \A p \in Positions : filled[p] # NoTime <=> p \in copy.positions
  <2>1. now \in Times /\ now # NoTime /\ NoTime \in Times
    BY TypeParts, MetabaseAssumption DEF Times, NoTime
  <2> QED BY <2>1
<1> HIDE DEF filled
<1>7. /\ segments' \in SegmentTable /\ segments'[t] = filled
      /\ \A s \in Streams : s \notin {t} => segments'[s] = segments[s]
  <2>1. segments \in [Streams -> [Positions -> Times]]
    BY TypeParts DEF SegmentTable
  <2> HIDE DEF t
  <2> QED BY <1>1, <1>3, <1>6, <2>1 DEF SegmentTable
<1>8. StreamAt(k, v) \in Streams \cup {NoStream}
  BY <1>3, StreamAtTyped
<1>9. stale \subseteq stale' /\ stale' \subseteq Streams
  <2>1. stale \subseteq Streams
    BY TypeParts
  <2>2. relied \subseteq Streams
    BY <1>3, <1>8, RefFields
  <2> HIDE DEF relied
  <2> QED BY <1>1, <2>1, <2>2
<1>10. \E row : \E D, c, C : Fits(D, c, row, C)
  <2>1. CASE StreamAt(k, v) = t /\ fit
    <3>1. v \in Versions
      BY <1>3, <2>1, NoPlace
    <3>2. src \in Places /\ At(src) = t /\ objects[src].status = Pending
      BY <1>3, <2>1, <3>1, PlaceFacts DEF IsPending
    <3>3. objects[src] \in Rows /\ objects[src].stream = t
      BY <3>2, PlaceFacts, RowFields
    <3>4. objects' = [objects EXCEPT ![src] = objects[src]]
      BY <1>2, <3>2, TypeParts DEF Table
    <3>5. relied = {}
      BY <2>1 DEF Relied
    <3>6. stale' = stale
      <4> HIDE DEF relied
      <4> QED BY <1>1, <3>5
    <3>7. Pending \notin Committed
      BY RowFields
    <3>8. LockKnown(objects[src]) /\ Guarded({}, src, objects[src], {t})
      BY <3>2, <3>3, <3>7, RowFields DEF LockKnown, Guarded, Tables, LocksKnown
    <3>9. {t} \in SUBSET Streams /\ {t} = {objects[src].stream}
      BY <1>3, <3>3
    <3> HIDE DEF src, t
    <3>10. Fits({}, src, objects[src], {t})
      BY <1>2, <1>5, <1>7, <3>2, <3>3, <3>4, <3>6, <3>8, <3>9, InPlaceFits
    <3> QED BY <3>10
  <2>2. CASE ~(StreamAt(k, v) = t /\ fit)
    <3>1. t \in stale'
      <4>1. t \in relied
        BY <1>3, <2>2 DEF Relied
      <4> HIDE DEF relied
      <4> QED BY <1>1, <4>1
    <3>2. objects' = [r \in Places |-> IF r \in {} THEN NoRow ELSE objects[r]]
      BY <1>2, TypeParts DEF Table
    <3>3. t <= streams
      BY <1>3 DEF Tables, Drawn
    <3> HIDE DEF t
    <3>4. Removes({}, {t})
      BY <1>2, <1>5, <1>7, <1>9, <3>1, <3>2, <3>3 DEF Removes
    <3>5. {t} \in SUBSET Streams /\ {} \in SUBSET Places
      BY <1>3
    <3>6. \E c : Fits({}, c, NoRow, {t})
      BY <3>4, <3>5, RemovalFits
    <3> QED BY <3>6
  <2> QED BY <2>1, <2>2
<1>11. CopyGoesOn
  BY <1>3, <1>4 DEF CopyGoesOn
<1>12. CopyAlone'
  <2>1. \A r \in Places : At(r)' = At(r) /\ IsPending(r[1], r[2])' = IsPending(r[1], r[2])
    BY <1>2 DEF At, IsPending
  <2>2. ASSUME NEW r \in Places, At(r) = t
        PROVE  /\ r = <<k, v>> /\ IsPending(r[1], r[2]) /\ objects[r].signed = Unsigned
               /\ objects[r].count = Cardinality(copy.positions) /\ objects[r].lock = copy.lock
    BY <1>3, <2>2 DEF Tables, CopyAlone
  <2>3. Left(t) = copy.positions
    BY <1>3, <1>6, <1>7 DEF Left
  <2>4. Stored(copy.stream)' = copy.positions
    BY <1>4, <2>3 DEF Stored, Left
  <2> HIDE DEF k, v, t
  <2>5. \A r \in Places : At(r)' = copy'.stream =>
         /\ copy'.pc # "read" /\ r = <<copy'.key, copy'.version>>
         /\ IsPending(r[1], r[2])' /\ objects'[r].signed = Unsigned
         /\ objects'[r].count = Cardinality(copy'.positions) /\ objects'[r].lock = copy'.lock
    BY <1>2, <1>4, <2>1, <2>2
  <2> QED BY <1>4, <2>4, <2>5 DEF CopyAlone
<1>13. expiring' \subseteq Streams \X Positions
  <2>1. expiring \subseteq Streams \X Positions
    BY TypeParts
  <2>2. copy.expiring \subseteq Positions
    BY <1>3 DEF Copies
  <2> HIDE DEF t
  <2> QED BY <1>1, <1>3, <2>1, <2>2
<1> QED BY <1>2, <1>4, <1>10, <1>11, <1>12, <1>13, CopyStepKeeps, OthersHold DEF Others

\* What holds when the rows and the segments stay.
LEMMA SameRows ==
  ASSUME TypeOK, objects' = objects, segments' = segments
  PROVE  LockedStays(stale') /\ NewOnTop
<1>1. \A k \in Keys, v \in Versions : objects[<<k, v>>].status \in Committed =>
        /\ objects[<<k, v>>] \in Rows
        /\ objects[<<k, v>>].lock.until \in 0 .. MaxNow
  BY PlaceFacts, RowFields, LockFields
<1>2. \A row \in Rows : [row EXCEPT !.lock = row.lock] = row
  BY DEF Rows
<1>3. \A n \in 0 .. MaxNow : n >= n
  OBVIOUS
<1>4. LockedStays(stale')
  BY <1>1, <1>2, <1>3 DEF LockedStays
<1>5. "none" \notin {"versioned", "markerVersioned"}
  OBVIOUS
<1>6. NewOnTop
  BY <1>5 DEF NewOnTop, Exists
<1> QED BY <1>4, <1>6

\* A step that only reads, or lets time pass, or loses a copy.
LEMMA SameKeeps ==
  ASSUME TypeOK, Tables, UNCHANGED <<objects, segments, streams, stale, bucket>>,
         copy' = copy \/ copy' = NoCopy, Others'
  PROVE  Kept
<1>1. /\ objects' = objects /\ segments' = segments /\ streams' = streams /\ stale' = stale /\ bucket' = bucket
  OBVIOUS
<1>2. objects' = [r \in Places |-> IF r \in {} THEN NoRow ELSE objects[r]]
  BY <1>1, TypeParts DEF Table
<1>3. Removes({}, {})
  BY <1>1, <1>2, TypeParts DEF Removes
<1>4. {} \in SUBSET Streams /\ {} \in SUBSET Places
  OBVIOUS
<1>5. \E c : Fits({}, c, NoRow, {})
  BY <1>3, <1>4, RemovalFits
<1> QED BY <1>1, <1>5, FitsKeep

\* What is said of the rows and the segments alone stays with them.
LEMMA SameTables ==
  ASSUME TypeOK, Tables, objects' = objects, segments' = segments, stale' = stale
  PROVE  /\ StreamsSet' /\ OneUnversioned' /\ StreamsUnique' /\ ObjectWhole' /\ SegmentsOwned'
         /\ \A r \in Places : At(r)' = At(r) /\ objects'[r] = objects[r]
<1>1. \A r \in Places : At(r)' = At(r) /\ objects'[r] = objects[r]
  BY DEF At
<1>2. StreamsSet'
  BY <1>1 DEF Tables, StreamsSet
<1>3. OneUnversioned'
  BY DEF Tables, OneUnversioned
<1>4. \A k, v : StreamAt(k, v)' = StreamAt(k, v)
  BY DEF StreamAt, Exists
<1>5. \A s : Stored(s)' = Stored(s)
  BY DEF Stored
<1>6. StreamsUnique'
  BY <1>4 DEF Tables, StreamsUnique
<1>7. ObjectWhole'
  BY <1>5 DEF Tables, ObjectWhole, CommittedWhole
<1>8. SegmentsOwned'
  BY <1>4, <1>5 DEF Tables, SegmentsOwned
<1> QED BY <1>1, <1>2, <1>3, <1>6, <1>7, <1>8

\* A copy begins with a stream of its own, and the lock that was asked for.
LEMMA CopyReadKeeps ==
  ASSUME TypeOK, Tables, NEW k \in Keys, NEW v \in Versions, NEW to \in Keys, NEW req \in Requests,
         FinishCopyObjectRead(k, v, to, req.lock)
  PROVE  Kept
<1> DEFINE row == objects[<<k, v>>]
           with == Stored(row.stream)
           marked == {p \in with : <<row.stream, p>> \in expiring}
           next(s) == [pc |-> "read", key |-> to, version |-> 0, stream |-> s, lock |-> req.lock, positions |-> with,
                       expires |-> row.expires, expiring |-> marked, versioned |-> Versioned]
<1>1. PICK s \in Streams :
        /\ row.status \in Committed
        /\ req.lock # NoLock => row.expires = NoTime
        /\ Draw(s)
        /\ copy' = next(s)
        /\ UNCHANGED <<tables, clock, plain, zombies, expired, failures, stale>>
  BY DEF FinishCopyObjectRead
<1>2. /\ objects' = objects /\ segments' = segments /\ expiring' = expiring
      /\ bucket' = bucket /\ now' = now /\ plain' = plain
      /\ zombies' = zombies /\ expired' = expired /\ failures' = failures /\ stale' = stale
  BY <1>1 DEF clock, tables
<1>3. /\ \A r \in Places : At(r) # s
      /\ segments[s] = NoSegments
      /\ s <= streams' /\ streams' \in 0 .. MaxStreams /\ streams <= streams' /\ s # NoStream
  BY <1>1, Fresh
<1>4. row \in Rows
  BY <1>1, PlaceFacts, RowFields
<1>5. /\ copy'.pc = "read" /\ copy'.stream = s /\ copy'.lock = req.lock /\ copy'.expires = row.expires
  BY <1>1
<1>6. copy' \in Copies
  <2>1. row.expires \in Times
    BY <1>4, RowFields
  <2>2. with \in SUBSET Positions
    BY DEF Stored
  <2>3. marked \in SUBSET Positions /\ Versioned \in BOOLEAN
    BY <2>2 DEF Versioned
  <2>4. 0 \in Versions \cup {0} /\ req.lock \in Locks
    BY RequestFacts
  <2> HIDE DEF row, with, marked
  <2> QED BY <1>1, <2>1, <2>2, <2>3, <2>4 DEF Copies
<1> HIDE DEF next
<1>7. /\ StreamsSet' /\ OneUnversioned' /\ StreamsUnique' /\ ObjectWhole' /\ SegmentsOwned'
      /\ \A r \in Places : At(r)' = At(r) /\ objects'[r] = objects[r]
  BY <1>2, SameTables
<1>8. Drawn'
  <2>0. /\ streams \in Nat /\ streams' \in Nat
        /\ \A a, b, d \in Nat : a <= b /\ b <= d => a <= d
        /\ \A a, b, d \in Nat : a > d /\ b <= d => a > b
    BY <1>3, TypeParts, MetabaseAssumption
  <2>1. ASSUME NEW r \in Places
        PROVE  At(r)' <= streams'
    <3>1. At(r) \in Nat /\ At(r) <= streams
      BY PlaceFacts, StreamNumbers DEF Tables, Drawn
    <3> QED BY <1>3, <1>7, <2>0, <3>1
  <2>2. ASSUME NEW t \in Streams, t > streams'
        PROVE  segments'[t] = NoSegments
    <3>1. t > streams
      BY <1>3, <2>0, <2>2, StreamNumbers
    <3> QED BY <1>2, <3>1 DEF Tables, Drawn
  <2> QED BY <1>3, <1>5, <2>1, <2>2 DEF Drawn
<1>9. CopyAlone'
  <2>1. Stored(copy.stream)' = {}
    BY <1>2, <1>3, <1>5 DEF Stored, NoSegments
  <2> QED BY <1>3, <1>5, <1>7, <2>1 DEF CopyAlone
<1>10. LocksKnown'
  <2>1. copy'.lock # NoLock => bucket = "locked" /\ copy'.expires = NoTime
    BY <1>1, <1>5, RequestFacts
  <2> QED BY <1>2, <2>1 DEF Tables, LocksKnown
<1>11. TypeOK'
  <2>1. Others'
    BY <1>2, OthersHold DEF Others
  <2>2. /\ objects' \in Table /\ segments' \in SegmentTable /\ stale' \subseteq Streams
        /\ bucket' \in Buckets
    BY <1>2, TypeParts
  <2> QED BY <1>3, <1>6, <2>1, <2>2 DEF TypeOK, Others, Table, SegmentTable, Zombies, Places
<1> QED BY <1>2, <1>7, <1>8, <1>9, <1>10, <1>11, SameRows DEF Kept, Tables

-----------------------------------------------------------------------------
(***************************************************************************)
(* The bucket, and the steps together.                                     *)
(***************************************************************************)

\* Versioning changes what later writes do, and Object Lock is never switched off.
LEMMA SetBucketKeeps ==
  ASSUME TypeOK, Tables, NEW mode \in {"enabled", "suspended", "locked"}, SetBucket(mode)
  PROVE  Kept
<1>1. /\ objects' = objects /\ segments' = segments /\ expiring' = expiring /\ streams' = streams
      /\ now' = now /\ plain' = plain /\ copy' = copy
      /\ zombies' = zombies /\ expired' = expired /\ failures' = failures /\ stale' = stale
      /\ bucket # "locked" /\ bucket' = mode
  BY DEF SetBucket, tables, reads
<1>2. /\ StreamsSet' /\ OneUnversioned' /\ StreamsUnique' /\ ObjectWhole' /\ SegmentsOwned'
      /\ \A r \in Places : At(r)' = At(r) /\ objects'[r] = objects[r]
  BY <1>1, SameTables
<1>3. Drawn'
  BY <1>1, <1>2 DEF Tables, Drawn
<1>4. CopyAlone'
  <2>1. \A r \in Places : IsPending(r[1], r[2])' = IsPending(r[1], r[2])
    BY <1>1 DEF IsPending
  <2>2. Stored(copy.stream)' = Stored(copy.stream)
    BY <1>1 DEF Stored
  <2> QED BY <1>1, <1>2, <2>1, <2>2 DEF Tables, CopyAlone
<1>5. LocksKnown'
  BY <1>1 DEF Tables, LocksKnown
<1>6. TypeOK'
  <2>1. Others'
    BY <1>1, OthersHold DEF Others
  <2>2. /\ objects' \in Table /\ segments' \in SegmentTable /\ stale' \subseteq Streams
        /\ streams' \in 0 .. MaxStreams /\ copy' \in Copies \cup {NoCopy}
    BY <1>1, TypeParts
  <2>3. bucket' \in Buckets
    BY <1>1 DEF Buckets
  <2> QED BY <2>1, <2>2, <2>3 DEF TypeOK, Others, Table, SegmentTable, Zombies, Places
<1> QED BY <1>1, <1>2, <1>3, <1>4, <1>5, <1>6, SameRows DEF Kept, Tables


\* The steps of uploads.
LEMMA UploadKeeps ==
  ASSUME TypeOK, Tables, Upload
  PROVE  Kept
BY BeginKeeps, InlineKeeps, CommitSegmentKeeps, CommitKeeps, DeletePendingKeeps DEF Upload

\* The steps of Object Lock.
LEMMA LockKeeps ==
  ASSUME TypeOK, Tables, Lock
  PROVE  Kept
BY LegalHoldKeeps, RetentionKeeps DEF Lock

\* The steps of deletes.
LEMMA DeleteStepKeeps ==
  ASSUME TypeOK, Tables, Delete
  PROVE  Kept
<1>1. ASSUME NEW k \in Keys, NEW v \in Versions, DeleteLastCommittedPlainRead(k, v)
      PROVE  Kept
  <2>1. /\ UNCHANGED <<objects, segments, expiring, bucket, now, streams, zombies, expired, copy, failures, stale>>
        /\ plain' = [key |-> k, version |-> v, stream |-> objects[<<k, v>>].stream]
        /\ Exists(k, v)
    BY <1>1 DEF DeleteLastCommittedPlainRead, tables, clock
  <2>2. objects[<<k, v>>].stream \in Streams \cup {NoStream}
    BY <2>1, PlaceFacts, RowFields
  <2>3. plain' \in Refs
    BY <2>1, <2>2 DEF Refs
  <2>4. Others'
    BY <2>1, <2>3, OthersHold DEF Others
  <2> QED BY <2>1, <2>4, SameKeeps
<1> QED BY <1>1, DeleteExactKeeps, MarkerSuspendedKeeps, MarkerVersionedKeeps, DeletePlainKeeps DEF Delete

\* The bound on failures.
LEMMA OneFailure ==
  \A n \in 0 .. MaxFailures : n < MaxFailures => n + 1 \in 0 .. MaxFailures
BY MetabaseAssumption

\* The steps of moves and copies.
LEMMA CopyMoveKeeps ==
  ASSUME TypeOK, Tables, CopyMove
  PROVE  Kept
<1>0. failures \in 0 .. MaxFailures
  BY TypeParts
<1>1. CASE CopyRefused
  <2>1. copy # NoCopy /\ copy.version \in Versions \cup {0}
    BY <1>1, CopyFacts DEF CopyRefused
  <2>2. failures' \in 0 .. MaxFailures
    BY <1>0, <1>1, OneFailure DEF CopyRefused
  <2>3. CopyCleanup(copy.version)
    BY <1>1 DEF CopyRefused
  <2> QED BY <2>1, <2>2, <2>3, CleanupKeeps
<1>2. CASE CopyFailed
  <2>1. copy # NoCopy /\ CopyVersion \in Versions \cup {0}
    BY <1>2, CopyFacts DEF CopyFailed
  <2>2. failures' \in 0 .. MaxFailures
    <3>1. failures' = failures \/ (failures < MaxFailures /\ failures' = failures + 1)
      BY <1>2 DEF CopyFailed
    <3> QED BY <1>0, <3>1, OneFailure
  <2>3. CopyCleanup(CopyVersion)
    BY <1>2 DEF CopyFailed
  <2> QED BY <2>1, <2>2, <2>3, CleanupKeeps
<1>3. CASE CopyLost
  <2>1. /\ UNCHANGED <<objects, segments, streams, stale, bucket>>
        /\ UNCHANGED <<expiring, now, plain, zombies, expired>>
        /\ copy' = NoCopy
    BY <1>3 DEF CopyLost, tables, clock
  <2>2. failures' \in 0 .. MaxFailures
    BY <1>0, <1>3, OneFailure DEF CopyLost
  <2>3. Others'
    BY <2>1, <2>2, OthersHold DEF Others
  <2> QED BY <2>1, <2>3, SameKeeps
<1>4. CASE CopyCommit
  BY <1>4, CopyNewKeeps, CopyInPlaceKeeps
<1> QED BY <1>1, <1>2, <1>3, <1>4, MoveKeeps, CopyReadKeeps, InsertPendingKeeps, FinalizeSegmentsKeeps DEF CopyMove

\* The steps of the cleanup chores.
LEMMA ChoresKeep ==
  ASSUME TypeOK, Tables, Chores
  PROVE  Kept
<1>1. CASE IterateZombieObjects
  <2> DEFINE Zombie(row) == row.status = Pending /\ row.deadline <= now
             batch == {r \in Refs : Exists(r.key, r.version) /\ r.stream = StreamAt(r.key, r.version)
                                    /\ Zombie(objects[<<r.key, r.version>>])}
  <2>1. /\ UNCHANGED <<objects, segments, streams, stale, bucket>>
        /\ UNCHANGED <<expiring, now, plain, expired, copy, failures>>
        /\ zombies' = [batch |-> batch, day |-> now]
    BY <1>1 DEF IterateZombieObjects, Select, tables, clock
  <2>2. batch \in SUBSET Refs /\ now \in 0 .. MaxNow
    BY TypeParts
  <2> HIDE DEF batch
  <2>3. zombies' \in Zombies
    BY <2>1, <2>2 DEF Zombies
  <2>4. Others'
    BY <2>1, <2>3, OthersHold DEF Others
  <2> QED BY <2>1, <2>4, SameKeeps
<1>2. CASE IterateExpiredObjects
  <2>1. /\ UNCHANGED <<objects, segments, streams, stale, bucket>>
        /\ UNCHANGED <<expiring, now, plain, zombies, copy, failures>>
        /\ expired' \in SUBSET Refs
    BY <1>2 DEF IterateExpiredObjects, Select, tables, clock
  <2>2. Others'
    BY <2>1, OthersHold DEF Others
  <2> QED BY <2>1, <2>2, SameKeeps
<1> QED BY <1>1, <1>2, ZombiesKeep, ExpiredKeep DEF Chores

\* A day passes: no part of the invariant looks at the clock.
LEMMA TickKeeps ==
  ASSUME TypeOK, Tables, Tick
  PROVE  Kept
<1>1. /\ UNCHANGED <<objects, segments, streams, stale, bucket>>
      /\ UNCHANGED <<expiring, plain, zombies, expired, copy, failures>>
      /\ now < MaxNow /\ now' = now + 1
  BY DEF Tick, tables, reads
<1>2. now' \in 0 .. MaxNow
  BY <1>1, TypeParts, MetabaseAssumption
<1>3. Others'
  BY <1>1, <1>2, OthersHold DEF Others
<1> QED BY <1>1, <1>3, SameKeeps

\* Nothing happens.
LEMMA StutterKeeps ==
  ASSUME TypeOK, Tables, UNCHANGED vars
  PROVE  Kept
<1>1. /\ UNCHANGED <<objects, segments, streams, stale, bucket>>
      /\ UNCHANGED <<expiring, now, plain, zombies, expired, copy, failures>>
  BY DEF vars, tables, clock, reads
<1>2. Others'
  BY <1>1, OthersHold DEF Others
<1> QED BY <1>1, <1>2, SameKeeps

\* Every step keeps the invariant, what is locked, and the order of versions.
LEMMA StepKeeps ==
  ASSUME TypeOK, Tables, [Next]_vars
  PROVE  Kept
BY UploadKeeps, DeleteStepKeeps, LockKeeps, CopyMoveKeeps, ChoresKeep, SetBucketKeeps, TickKeeps, StutterKeeps
   DEF Next

\* The invariant, in the two parts that the lemmas use.
LEMMA InvParts == Inv <=> TypeOK /\ Tables
BY DEF Inv, Tables

\* It holds of the empty tables.
LEMMA InitKeeps == Init => Inv
<1> SUFFICES ASSUME Init
             PROVE  TypeOK /\ Tables
  BY InvParts
<1>1. /\ \A r \in Places : objects[r] = NoRow
      /\ \A s \in Streams : segments[s] = NoSegments
      /\ copy = NoCopy /\ streams = 0
  BY DEF Init, Places
<1>2. TypeOK
  <2>1. objects \in Table
    BY DEF Init, Table, Places
  <2>2. segments \in SegmentTable
    <3>1. NoSegments \in [Positions -> Times]
      BY DEF NoSegments, Times
    <3> QED BY <3>1 DEF Init, SegmentTable
  <2>3. bucket \in Buckets
    BY MetabaseAssumption DEF Init
  <2>4. 0 \in 0 .. MaxStreams /\ 0 \in 0 .. MaxNow /\ 0 \in 0 .. MaxFailures
    BY MetabaseAssumption
  <2>5. zombies \in Zombies
    BY <2>4 DEF Init, Zombies
  <2> QED BY <2>1, <2>2, <2>3, <2>4, <2>5, TypeParts DEF Init
<1>3. \A r \in Places : At(r) = NoStream /\ objects[r].status = "none"
  BY <1>1, RowFields DEF At
<1>4. \A k \in Keys, v \in Versions : StreamAt(k, v) = NoStream /\ objects[<<k, v>>].status = "none"
  BY <1>2, <1>3, PlaceFacts
<1>5. \A s \in Streams : Stored(s) = {}
  BY <1>1 DEF Stored, NoSegments
<1>6. StreamsSet /\ CopyAlone /\ LocksKnown
  BY <1>1, <1>3 DEF StreamsSet, CopyAlone, LocksKnown
<1>7. Drawn
  BY <1>1, <1>3 DEF Drawn, NoStream
<1>8. "none" \notin Unversioned /\ "none" \notin Committed
  BY DEF Unversioned, Committed
<1>9. OneUnversioned /\ StreamsUnique /\ ObjectWhole /\ SegmentsOwned
  BY <1>4, <1>5, <1>8 DEF OneUnversioned, StreamsUnique, ObjectWhole, CommittedWhole, SegmentsOwned
<1> QED BY <1>2, <1>6, <1>7, <1>9 DEF Tables

-----------------------------------------------------------------------------
(***************************************************************************)
(* Theorems.                                                               *)
(***************************************************************************)

\* The inductive invariant holds in every state the adapter's transactions reach.
THEOREM Invariance == Spec => []Inv
<1>1. Inv /\ [Next]_vars => Inv'
  BY StepKeeps, InvParts DEF Kept, Inv, Tables
<1> QED BY InitKeeps, <1>1, PTL DEF Spec

\* Rows, segments and the reads that operations act on keep their shape: a version
\* that a commit takes is in range, a batch refers to rows.
THEOREM TypeCorrect == Spec => []TypeOK
<1>1. Inv => TypeOK
  BY DEF Inv
<1> QED BY Invariance, <1>1, PTL

\* There is at most one unversioned object or marker per key: every commit, inline
\* commit, copy, move and marker that is not versioned finds and removes the earlier
\* one in its own transaction, whatever became of the bucket's versioning.
THEOREM OneUnversionedHolds == Spec => []OneUnversioned
<1>1. Inv => OneUnversioned
  BY DEF Inv
<1> QED BY Invariance, <1>1, PTL

\* No two rows have the same stream, so a delete never takes the segments of
\* another object: a move takes its row along, a copy has drawn a stream of its own.
THEOREM StreamsUniqueHolds == Spec => []StreamsUnique
<1>1. Inv => StreamsUnique
  BY DEF Inv
<1> QED BY Invariance, <1>1, PTL

\* A committed object has the number of segments its row counts, unless a copy, a
\* plain delete or a chore wrote to its stream on the word of an outdated read.
THEOREM ObjectWholeHolds == Spec => []ObjectWhole
<1>1. Inv => ObjectWhole
  BY DEF Inv
<1> QED BY Invariance, <1>1, PTL

\* Segments have a row, with the same exception: nothing else leaves orphans that no
\* chore would find.
THEOREM SegmentsOwnedHolds == Spec => []SegmentsOwned
<1>1. Inv => SegmentsOwned
  BY DEF Inv
<1> QED BY Invariance, <1>1, PTL

\* What is under a legal hold or a compliance retention keeps its row, its segments and
\* its retention in every step, with the same exception.
THEOREM LockedKeptHolds == Spec => LockedKept
<1>1. Inv /\ [Next]_vars => LockedStays(stale')
  BY StepKeeps, InvParts DEF Kept
<1> QED BY Invariance, <1>1, PTL DEF Spec, LockedKept

\* A versioned object or marker is committed above every other committed version of
\* its key, also when the versions above its pending object were taken meanwhile.
THEOREM NewestOnTopHolds == Spec => NewestOnTop
<1>1. Inv /\ [Next]_vars => NewOnTop
  BY StepKeeps, InvParts DEF Kept
<1> QED BY Invariance, <1>1, PTL DEF Spec, NewestOnTop, NewOnTop
=============================================================================
