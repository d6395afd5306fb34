----------------------------- MODULE ExpiryProofs -----------------------------
(***************************************************************************)
(* Proofs about Expiry, for any pieces and any lengths of a day, a ttl,    *)
(* the skew and the time in the trash.                                     *)
(*                                                                         *)
(* A piece the satellite has is not in a filter that was built before it   *)
(* was committed; such a filter is too old to trash the piece, for the     *)
(* skew covers the commit and the rounding of the created day.  That the   *)
(* node never drops too early rests on what the day of an expiration       *)
(* stands for: the end of the ttl rounded up, or ExpiresDays from the day  *)
(* of the compaction that trashed the piece.                               *)
(***************************************************************************)
EXTENDS Expiry, TLAPS

\* Nothing is newer than now, and no upload is newer than a compaction that runs.
ClockInv ==
  /\ 0 < now /\ restoreAt <= now /\ job.restore <= now /\ job.at <= now
  /\ job.st = "locked" => 0 < job.at /\ \A k \in Keys : up[k] <= job.at
  /\ \A k \in Keys : up[k] <= now

\* A piece the satellite has is in a filter, or was committed after it was built.
FilterInv ==
  \A f \in sent \cup {filter} :
    /\ f.at <= now
    /\ \A k \in live : k \in f.has \/ f.at <= up[k] + CommitDelay

\* Only uploads make records, on the day of the upload or later.
UploadInv ==
  /\ \A k \in live \cup reader : up[k] # 0
  /\ \A k \in Keys : IF rec[k].in THEN up[k] # 0 /\ rec[k].created >= TimeToDateDown(up[k])
                     ELSE rec[k].exp = 0

\* A ttl is rounded up to the end of its day.
TtlInv ==
  \A k \in Keys : rec[k].exp # 0 /\ ~Trash(rec[k].exp) =>
    ttl[k] # 0 /\ Time(rec[k].exp) = TimeToDateUp(ttl[k])

\* A piece in the trash is not committed any more, and stays for ExpiresDays or to the end
\* of its ttl.
TrashInv ==
  \A k \in Keys :
    IF Trash(rec[k].exp)
    THEN /\ up[k] + CommitDelay < now
         /\ trashedAt[k] # 0
         /\ Time(rec[k].exp) <= TimeToDateDown(trashedAt[k]) + ExpiresDays
         /\ \/ Time(rec[k].exp) = TimeToDateDown(trashedAt[k]) + ExpiresDays
            \/ ttl[k] # 0 /\ Time(rec[k].exp) = TimeToDateUp(ttl[k])
    ELSE trashedAt[k] = 0

Inv == TypeOK /\ ClockInv /\ FilterInv /\ UploadInv /\ TtlInv /\ TrashInv /\ LiveNeverTrashed

-----------------------------------------------------------------------------
(***************************************************************************)
(* Days and expirations.                                                   *)
(***************************************************************************)

\* Rounding to days.
LEMMA Days ==
  ASSUME NEW t \in Nat
  PROVE  /\ TimeToDateDown(t) \in Nat
         /\ DateToTime(TimeToDateDown(t)) <= t /\ t < DateToTime(TimeToDateDown(t)) + DayLen
         /\ TimeToDateUp(t) \in Nat
         /\ t <= DateToTime(TimeToDateUp(t))
         /\ t = 0 <=> TimeToDateUp(t) = 0
<1>1. \A a \in Nat, b \in Nat \ {0} :
        a \div b \in Nat /\ (a \div b) * b <= a /\ a < (a \div b) * b + b
  OBVIOUS
<1>2. DayLen \in Nat \ {0} /\ t + DayLen - 1 \in Nat
  BY ExpiryAssumption
<1>3. TimeToDateDown(t) \in Nat
      /\ DateToTime(TimeToDateDown(t)) <= t /\ t < DateToTime(TimeToDateDown(t)) + DayLen
  BY <1>1, <1>2 DEF TimeToDateDown, DateToTime
<1>4. /\ TimeToDateUp(t) \in Nat
      /\ DateToTime(TimeToDateUp(t)) <= t + DayLen - 1
      /\ t + DayLen - 1 < DateToTime(TimeToDateUp(t)) + DayLen
  BY <1>1, <1>2 DEF TimeToDateUp, DateToTime
<1>5. t <= DateToTime(TimeToDateUp(t))
  BY <1>2, <1>4 DEF DateToTime
<1>6. t = 0 => TimeToDateUp(t) = 0
  <2>1. \A a, b \in Nat : a * b <= b - 1 => a = 0
    OBVIOUS
  <2> QED BY <1>2, <1>4, <2>1 DEF DateToTime
<1>7. TimeToDateUp(t) = 0 => t = 0
  BY <1>2, <1>5 DEF DateToTime
<1> QED BY <1>3, <1>4, <1>5, <1>6, <1>7

\* A later day begins when the earlier one is over.
LEMMA DayOrder ==
  ASSUME NEW a \in Nat, NEW b \in Nat
  PROVE  /\ DateToTime(a) \in Nat
         /\ a < b => DateToTime(a) + DayLen <= DateToTime(b)
         /\ a <= b => DateToTime(a) <= DateToTime(b)
         /\ DateToTime(a + b) = DateToTime(a) + DateToTime(b)
<1>1. DayLen \in Nat
  BY ExpiryAssumption
<1>2. \A x, y, z \in Nat : (x + y) * z = x * z + y * z /\ x * z \in Nat
  OBVIOUS
<1>3. DateToTime(a + b) = DateToTime(a) + DateToTime(b) /\ DateToTime(a) \in Nat
  BY <1>1, <1>2 DEF DateToTime
<1>4. ASSUME a <= b PROVE DateToTime(a) <= DateToTime(b)
  <2>1. b = a + (b - a) /\ b - a \in Nat
    BY <1>4
  <2>2. b * DayLen = a * DayLen + (b - a) * DayLen /\ (b - a) * DayLen \in Nat /\ a * DayLen \in Nat
    BY <1>1, <1>2, <2>1
  <2> QED BY <2>2 DEF DateToTime
<1>5. ASSUME a < b PROVE DateToTime(a) + DayLen <= DateToTime(b)
  <2>1. b = (a + 1) + (b - a - 1) /\ b - a - 1 \in Nat /\ a + 1 \in Nat
    BY <1>5
  <2>2. b * DayLen = (a + 1) * DayLen + (b - a - 1) * DayLen /\ (b - a - 1) * DayLen \in Nat
    BY <1>1, <1>2, <2>1
  <2>3. (a + 1) * DayLen = a * DayLen + DayLen /\ a * DayLen \in Nat
    BY <1>1, <1>2
  <2> QED BY <1>1, <2>2, <2>3 DEF DateToTime
<1> QED BY <1>3, <1>4, <1>5

\* An expiration holds a day and the trash bit.
LEMMA Expirations ==
  /\ \A d \in Nat : /\ NewExpiration(d, TRUE) \in Nat /\ Trash(NewExpiration(d, TRUE))
                    /\ Time(NewExpiration(d, TRUE)) = d
                    /\ NewExpiration(d, FALSE) \in Nat /\ ~Trash(NewExpiration(d, FALSE))
                    /\ Time(NewExpiration(d, FALSE)) = d
                    /\ NewExpiration(d, FALSE) = 0 <=> d = 0
  /\ \A e \in Nat : /\ Time(e) \in Nat
                    /\ Trash(e) => e # 0
                    /\ ~Trash(e) /\ Time(e) = 0 => e = 0
  /\ ~Trash(0)
BY DEF NewExpiration, Trash, Time

-----------------------------------------------------------------------------
(***************************************************************************)
(* Records.                                                                *)
(***************************************************************************)

\* The records of the table.
Records == [in : BOOLEAN, exp : Nat, created : Nat]

\* What Insert leaves in the table.
LEMMA Inserted ==
  ASSUME TypeOK, NEW k \in Keys, NEW exp \in Nat, NEW created \in Nat, Insert(k, exp, created)
  PROVE  /\ rec' \in [Keys -> Records]
         /\ rec'[k].in = TRUE /\ rec'[k].created = created
         /\ exp = 0 => rec'[k].exp = 0
         /\ ~rec[k].in => rec'[k].exp = exp
         /\ \A o \in Keys : o # k => rec'[o] = rec[o]
<1> DEFINE new == IF rec[k].in THEN MaxExpiration(exp, rec[k].exp) ELSE exp
<1>1. rec \in [Keys -> Records] /\ rec[k] \in Records
  BY DEF TypeOK, Records
<1>2. new \in Nat /\ (exp = 0 => new = 0) /\ (~rec[k].in => new = exp)
  BY <1>1 DEF MaxExpiration, Records
<1> HIDE DEF new
<1>3. rec' = [rec EXCEPT ![k] = [in |-> TRUE, created |-> created, exp |-> new]]
  BY <1>1 DEF Insert, new
<1>4. [in |-> TRUE, created |-> created, exp |-> new] \in Records
  BY <1>2 DEF Records
<1> QED BY <1>1, <1>2, <1>3, <1>4

\* A compaction keeps an expiration or marks a record as trash.
LEMMA MarkedShape ==
  ASSUME TypeOK, NEW k \in Keys
  PROVE  /\ today \in Nat
         /\ Marked(k) \in Nat
         /\ \/ Marked(k) = rec[k].exp
            \/ /\ ~Trash(rec[k].exp) /\ ShouldTrash(k) /\ Trash(Marked(k))
               /\ ~Restored(Marked(k))
               /\ \/ Time(Marked(k)) = today + ExpiresDays
                  \/ /\ Time(Marked(k)) = Time(rec[k].exp) /\ Time(rec[k].exp) > 0
                     /\ Time(Marked(k)) < today + ExpiresDays
<1> DEFINE e == rec[k].exp
           d == IF Time(e) > 0 /\ Time(e) < today + ExpiresDays THEN Time(e) ELSE today + ExpiresDays
           t == NewExpiration(d, TRUE)
<1>1. e \in Nat /\ today \in Nat /\ ExpiresDays \in Nat
  BY Days, ExpiryAssumption DEF TypeOK, today, Ticks
<1>2. d \in Nat /\ \/ d = today + ExpiresDays
                   \/ d = Time(e) /\ Time(e) > 0 /\ d < today + ExpiresDays
  BY <1>1, Expirations
<1>3. t \in Nat /\ Trash(t) /\ Time(t) = d
  <2> HIDE DEF d
  <2> QED BY <1>2, Expirations
<1>4. Marked(k) = IF ~Trash(e) /\ ShouldTrash(k) /\ ~Restored(t) THEN t ELSE e
  BY DEF Marked
<1>5. CASE ~Trash(e) /\ ShouldTrash(k) /\ ~Restored(t)
  <2>1. Marked(k) = t
    BY <1>4, <1>5
  <2> HIDE DEF t, d
  <2> QED BY <1>1, <1>2, <1>3, <1>5, <2>1
<1>6. CASE ~(~Trash(e) /\ ShouldTrash(k) /\ ~Restored(t))
  BY <1>1, <1>4, <1>6
<1> QED BY <1>5, <1>6

\* A compaction drops a record, restores it, or keeps it as it is marked.
LEMMA CompactedShape ==
  ASSUME TypeOK, CompactOnce, NEW k \in Keys
  PROVE  /\ rec'[k] \in Records
         /\ \/ /\ ~rec'[k].in /\ rec'[k].exp = 0
               /\ rec[k].in => Expired(Marked(k)) /\ ~Restored(Marked(k))
            \/ /\ rec[k].in /\ Restored(Marked(k))
               /\ rec'[k].in /\ rec'[k].exp = 0 /\ rec'[k].created = today /\ ttl'[k] = 0
            \/ /\ rec[k].in /\ ~Restored(Marked(k))
               /\ rec'[k].in /\ rec'[k].exp = Marked(k) /\ rec'[k].created = rec[k].created
               /\ ttl'[k] = ttl[k]
         /\ trashedAt'[k] = IF ~Trash(rec'[k].exp) THEN 0
                            ELSE IF Trash(rec[k].exp) THEN trashedAt[k] ELSE job.at
<1> DEFINE r == IF Restored(Marked(k))
                THEN [in |-> TRUE, exp |-> 0, created |-> today]
                ELSE [rec[k] EXCEPT !.exp = Marked(k)]
<1>1. rec[k] \in Records /\ Marked(k) \in Nat /\ today \in Nat
  BY MarkedShape DEF TypeOK, Records
<1>2. rec'[k] = IF ~rec[k].in \/ Expired(r.exp) THEN NoRecord ELSE r
  BY DEF CompactOnce, Compacted
<1>3. /\ Restored(Marked(k)) => r.in /\ r.exp = 0 /\ r.created = today
      /\ ~Restored(Marked(k)) => r.in = rec[k].in /\ r.exp = Marked(k) /\ r.created = rec[k].created
      /\ r \in Records
  BY <1>1 DEF Records
<1>4. NoRecord \in Records /\ ~NoRecord.in /\ NoRecord.exp = 0
  BY DEF NoRecord, Records
<1>5. ~Expired(0)
  BY DEF Expired
<1>6. ttl'[k] = IF rec[k].in /\ Restored(Marked(k)) THEN 0 ELSE ttl[k]
  BY DEF CompactOnce
<1>7. trashedAt'[k] = IF ~Trash(rec'[k].exp) THEN 0
                      ELSE IF Trash(rec[k].exp) THEN trashedAt[k] ELSE job.at
  BY DEF CompactOnce
<1> HIDE DEF r
<1>8. CASE ~rec[k].in \/ Expired(r.exp)
  BY <1>2, <1>3, <1>4, <1>5, <1>7, <1>8
<1>9. CASE rec[k].in /\ ~Expired(r.exp)
  BY <1>2, <1>3, <1>6, <1>7, <1>9
<1> QED BY <1>8, <1>9

-----------------------------------------------------------------------------
(***************************************************************************)
(* Steps.                                                                  *)
(***************************************************************************)

\* There are no pieces to begin with.
LEMMA InitInv == Init => Inv
<1> SUFFICES ASSUME Init PROVE Inv
  OBVIOUS
<1> USE ExpiryAssumption DEF Init
<1>1. TypeOK
  BY DEF TypeOK, Ticks, Idle, NoFilter, NoRecord
<1>2. ClockInv /\ FilterInv
  BY DEF ClockInv, FilterInv, Idle, NoFilter
<1>3. UploadInv /\ TtlInv /\ TrashInv /\ LiveNeverTrashed
  BY Expirations DEF UploadInv, TtlInv, TrashInv, LiveNeverTrashed, NoRecord
<1> QED BY <1>1, <1>2, <1>3 DEF Inv

\* The steps that change the records, and all that hangs on them.
LEMMA RecordSteps ==
  ASSUME [Next]_vars
  PROVE  \/ \E k \in Keys, t \in {0} \cup {now + d : d \in Ttls} : Upload(k, t)
         \/ \E k \in Keys : ReviveRecord(k)
         \/ CompactOnce
         \/ UNCHANGED <<rec, ttl, up, trashedAt>>
<1>1. ASSUME NEW k \in Keys, SatelliteCommit(k) \/ SatelliteDelete(k) \/ Read(k)
      PROVE  UNCHANGED <<rec, ttl, up, trashedAt>>
  BY <1>1 DEF SatelliteCommit, SatelliteDelete, Read, node
<1>2. ASSUME NEW f, Queue(f) PROVE UNCHANGED <<rec, ttl, up, trashedAt>>
  BY <1>2 DEF Queue
<1>3. CASE Tick \/ BuildFilter \/ Restore \/ CompactStart \/ CompactLock \/ CompactEnd \/ UNCHANGED vars
  BY <1>3 DEF Tick, BuildFilter, Restore, CompactStart, CompactLock, CompactEnd, vars, node
<1> QED BY <1>1, <1>2, <1>3 DEF Next

\* The clock goes on, and restores and compactions take its time.
LEMMA ClockSteps ==
  ASSUME TypeOK, ClockInv, [Next]_vars
  PROVE  /\ now' \in Ticks /\ now <= now'
         /\ restoreAt' \in Ticks /\ restoreAt' <= now
         /\ job' \in [st : {"idle", "waiting", "locked"}, restore : Ticks, at : Ticks]
         /\ job'.restore <= now /\ job'.at <= now
         /\ job'.st = "locked" =>
              \/ job' = job /\ \A k \in Keys : \A t : ~Upload(k, t)
              \/ job'.at = now /\ UNCHANGED up
<1>0. now \in Nat /\ MaxTime \in Nat /\ now \in Ticks /\ restoreAt \in Ticks
      /\ job \in [st : {"idle", "waiting", "locked"}, restore : Ticks, at : Ticks] /\ Ticks \subseteq Nat
  BY ExpiryAssumption DEF TypeOK, Ticks
<1>1. CASE UNCHANGED job
  <2>1. now' \in Ticks /\ now <= now' /\ restoreAt' \in Ticks /\ restoreAt' <= now
    <3>1. UNCHANGED restoreAt \/ restoreAt' = now
      BY <1>1 DEF Next, vars, node, Tick, BuildFilter, Queue, SatelliteCommit, SatelliteDelete, Read,
                  ReviveRecord, Upload, Restore, CompactStart, CompactLock, CompactOnce, CompactEnd
    <3>2. UNCHANGED now \/ Tick
      BY DEF Next, vars, BuildFilter, Queue, SatelliteCommit, SatelliteDelete, Read,
             ReviveRecord, Upload, Restore, CompactStart, CompactLock, CompactOnce, CompactEnd
    <3>3. now' \in Ticks /\ now <= now'
      BY <1>0, <3>2 DEF Tick, Ticks
    <3> QED BY <1>0, <3>1, <3>3 DEF ClockInv
  <2>2. job'.st = "locked" => \A k \in Keys : \A t : ~Upload(k, t)
    BY <1>1 DEF Upload
  <2> QED BY <1>0, <1>1, <2>1, <2>2 DEF ClockInv
<1>2. CASE CompactStart
  <2>1. restoreAt' \in Ticks /\ restoreAt' <= now
    BY <1>0, <1>2 DEF CompactStart, ClockInv
  <2> QED BY <1>0, <1>2, <2>1 DEF CompactStart, Ticks
<1>3. CASE CompactLock
  <2>1. job' \in [st : {"idle", "waiting", "locked"}, restore : Ticks, at : Ticks]
        /\ job'.restore = job.restore /\ job'.at = now
    BY <1>0, <1>3 DEF CompactLock
  <2> QED BY <1>0, <1>3, <2>1 DEF CompactLock, ClockInv
<1>4. CASE CompactEnd
  BY <1>0, <1>4 DEF CompactEnd, Idle, Ticks, ClockInv
<1> QED BY <1>1, <1>2, <1>3, <1>4
        DEF Next, vars, node, Tick, BuildFilter, Queue, SatelliteCommit, SatelliteDelete, Read,
            ReviveRecord, Upload, Restore, CompactOnce

\* Every step keeps the types.
LEMMA NextTypes ==
  ASSUME TypeOK, ClockInv, [Next]_vars
  PROVE  TypeOK'
<1>0. now \in Nat /\ now \in Ticks /\ Ticks \subseteq Nat /\ 0 \in Ticks
  BY ExpiryAssumption DEF TypeOK, Ticks
<1>1. rec' \in [Keys -> Records] /\ up' \in [Keys -> Ticks] /\ ttl' \in [Keys -> Nat] /\ trashedAt' \in [Keys -> Ticks]
  <2>1. ASSUME NEW k \in Keys, NEW t \in {0} \cup {now + d : d \in Ttls}, Upload(k, t)
        PROVE  rec' \in [Keys -> Records] /\ up' \in [Keys -> Ticks] /\ ttl' \in [Keys -> Nat]
               /\ trashedAt' \in [Keys -> Ticks]
    <3>1. t \in Nat
      BY <1>0, ExpiryAssumption
    <3>2. NewExpiration(TimeToDateUp(t), FALSE) \in Nat /\ TimeToDateDown(now) \in Nat
      BY <1>0, <3>1, Days, Expirations
    <3>3. Insert(k, NewExpiration(TimeToDateUp(t), FALSE), TimeToDateDown(now))
      BY <2>1 DEF Upload
    <3>4. rec' \in [Keys -> Records]
      BY <3>2, <3>3, Inserted
    <3> QED BY <1>0, <2>1, <3>1, <3>4 DEF Upload, TypeOK
  <2>2. ASSUME NEW k \in Keys, ReviveRecord(k)
        PROVE  rec' \in [Keys -> Records] /\ up' \in [Keys -> Ticks] /\ ttl' \in [Keys -> Nat]
               /\ trashedAt' \in [Keys -> Ticks]
    <3>1. rec' = rec \/ \E created \in Nat : Insert(k, 0, created)
      BY <1>0, <2>2, Days DEF ReviveRecord, TypeOK
    <3>2. rec' \in [Keys -> Records]
      BY <3>1, Inserted DEF TypeOK, Records
    <3> QED BY <1>0, <2>2, <3>2 DEF ReviveRecord, TypeOK
  <2>3. CASE CompactOnce
    <3>1. \A k \in Keys : rec'[k] \in Records /\ trashedAt'[k] \in Ticks
      BY <1>0, <2>3, CompactedShape DEF TypeOK
    <3>2. rec' \in [Keys -> Records] /\ trashedAt' \in [Keys -> Ticks]
      BY <2>3, <3>1 DEF CompactOnce
    <3> QED BY <2>3, <3>2 DEF CompactOnce, TypeOK
  <2>4. CASE UNCHANGED <<rec, ttl, up, trashedAt>>
    BY <2>4 DEF TypeOK, Records
  <2> QED BY <2>1, <2>2, <2>3, <2>4, RecordSteps
<1>2. filter' \in [at : Ticks, has : SUBSET Keys] /\ sent' \in SUBSET [at : Ticks, has : SUBSET Keys]
  <2>1. ASSUME NEW f \in sent, Queue(f)
        PROVE  filter' \in [at : Ticks, has : SUBSET Keys] /\ sent' \in SUBSET [at : Ticks, has : SUBSET Keys]
    BY <2>1 DEF Queue, TypeOK
  <2>2. CASE BuildFilter
    BY <2>2 DEF BuildFilter, TypeOK, node
  <2> QED BY <2>1, <2>2 DEF TypeOK, Next, vars, node, Tick, SatelliteCommit, SatelliteDelete, Read,
             ReviveRecord, Upload, Restore, CompactStart, CompactLock, CompactOnce, CompactEnd
<1>3. live' \in SUBSET Keys /\ reader' \in SUBSET Keys
  BY DEF TypeOK, Next, vars, node, Tick, BuildFilter, Queue, SatelliteCommit, SatelliteDelete, Read,
         ReviveRecord, Upload, Restore, CompactStart, CompactLock, CompactOnce, CompactEnd
<1> QED BY <1>1, <1>2, <1>3, ClockSteps DEF TypeOK, Records

\* Every step keeps ClockInv: nothing is uploaded while a compaction has the locks.
LEMMA NextClockInv ==
  ASSUME TypeOK, ClockInv, [Next]_vars
  PROVE  ClockInv'
<1>0. now \in Nat /\ now' \in Nat /\ now <= now' /\ restoreAt' \in Nat /\ job'.restore \in Nat /\ job'.at \in Nat
  BY ClockSteps, ExpiryAssumption DEF TypeOK, Ticks
<1>1. \A k \in Keys : up[k] \in Nat /\ (up'[k] = up[k] \/ (up'[k] = now /\ \E t : Upload(k, t)))
  <2>1. UNCHANGED up \/ \E k \in Keys : \E t : Upload(k, t)
    BY RecordSteps DEF ReviveRecord, CompactOnce
  <2>2. up \in [Keys -> Nat]
    BY ExpiryAssumption DEF TypeOK, Ticks
  <2> QED BY <2>1, <2>2 DEF Upload
<1>2. 0 < now' /\ restoreAt' <= now' /\ job'.restore <= now' /\ job'.at <= now'
  BY <1>0, ClockSteps DEF ClockInv
<1>3. \A k \in Keys : up'[k] <= now'
  BY <1>0, <1>1 DEF ClockInv
<1>4. ASSUME job'.st = "locked" PROVE 0 < job'.at /\ \A k \in Keys : up'[k] <= job'.at
  <2>1. CASE job' = job /\ \A k \in Keys : \A t : ~Upload(k, t)
    BY <1>1, <1>4, <2>1 DEF ClockInv
  <2>2. CASE job'.at = now /\ UNCHANGED up
    BY <2>2 DEF ClockInv
  <2> QED BY <1>4, <2>1, <2>2, ClockSteps
<1> QED BY <1>2, <1>3, <1>4 DEF ClockInv

\* Every step keeps FilterInv: a piece is committed not long after its upload.
LEMMA NextFilterInv ==
  ASSUME TypeOK, ClockInv, FilterInv, UploadInv, [Next]_vars
  PROVE  FilterInv'
<1>0. /\ now \in Nat /\ now' \in Nat /\ now <= now' /\ CommitDelay \in Nat
      /\ \A k \in Keys : up[k] \in Nat
      /\ \A f \in sent \cup {filter} : f.at \in Nat /\ f.at <= now /\ f.at <= now'
  BY ClockSteps, ExpiryAssumption DEF TypeOK, Ticks, FilterInv
<1>1. CASE \E k \in Keys : \E t : Upload(k, t)
  <2>0. PICK k \in Keys : \E t : Upload(k, t)
    BY <1>1
  <2>1. PICK t : Upload(k, t)
    BY <2>0
  <2>2. k \notin live /\ UNCHANGED <<now, sent, filter, live>> /\ \A o \in Keys : o # k => up'[o] = up[o]
    BY <2>1 DEF Upload, UploadInv, TypeOK
  <2> QED BY <2>2 DEF FilterInv, TypeOK
<1>2. CASE \E k \in Keys : SatelliteCommit(k)
  <2>1. PICK k \in Keys : SatelliteCommit(k)
    BY <1>2
  <2>2. \A f \in sent \cup {filter} : f.at <= up[k] + CommitDelay
    BY <1>0, <2>1 DEF SatelliteCommit
  <2> QED BY <2>1, <2>2 DEF SatelliteCommit, FilterInv, node
<1>3. CASE BuildFilter
  BY <1>0, <1>3 DEF BuildFilter, FilterInv, node
<1>4. CASE \E f \in sent : Queue(f)
  BY <1>4 DEF Queue, FilterInv
<1>5. CASE Tick
  BY <1>0, <1>5 DEF Tick, FilterInv, node
<1>6. CASE UNCHANGED <<now, sent, filter, up>> /\ live' \subseteq live
  BY <1>6 DEF FilterInv
<1> QED BY <1>1, <1>2, <1>3, <1>4, <1>5, <1>6
        DEF Next, vars, node, SatelliteDelete, Read, ReviveRecord, Restore, CompactStart, CompactLock,
            CompactOnce, CompactEnd

\* Every step keeps UploadInv: a record is made at the upload, when it is revived, or when
\* it is restored by a compaction that runs since.
LEMMA NextUploadInv ==
  ASSUME TypeOK, ClockInv, UploadInv, [Next]_vars
  PROVE  UploadInv'
<1> DEFINE Fine(k) == IF rec'[k].in THEN up'[k] # 0 /\ rec'[k].created >= TimeToDateDown(up'[k])
                      ELSE rec'[k].exp = 0
<1>0. /\ now \in Nat /\ now # 0 /\ job.at \in Nat
      /\ \A k \in Keys : up[k] \in Nat /\ up[k] <= now /\ rec[k].created \in Nat
  BY ExpiryAssumption DEF TypeOK, Ticks, ClockInv
<1>1. \A s, t \in Nat : s <= t => TimeToDateDown(s) <= TimeToDateDown(t)
  <2> SUFFICES ASSUME NEW s \in Nat, NEW t \in Nat, s <= t, ~(TimeToDateDown(s) <= TimeToDateDown(t))
               PROVE  FALSE
    OBVIOUS
  <2>1. /\ TimeToDateDown(s) \in Nat /\ TimeToDateDown(t) \in Nat
        /\ DateToTime(TimeToDateDown(s)) <= s /\ t < DateToTime(TimeToDateDown(t)) + DayLen
    BY Days
  <2>2. DateToTime(TimeToDateDown(t)) + DayLen <= DateToTime(TimeToDateDown(s))
    BY <2>1, DayOrder
  <2>3. DateToTime(TimeToDateDown(t)) \in Nat /\ DateToTime(TimeToDateDown(s)) \in Nat /\ DayLen \in Nat
    BY <2>1, DayOrder, ExpiryAssumption
  <2> QED BY <2>1, <2>2, <2>3
<1>2. \A k \in live' \cup reader' : up'[k] # 0
  <2>1. \A k \in Keys : up'[k] = up[k] \/ up'[k] = now
    BY RecordSteps DEF Upload, ReviveRecord, CompactOnce, TypeOK
  <2>2. \A k \in live' \cup reader' : k \in live \cup reader \/ (k \in Keys /\ up[k] # 0)
    BY DEF Next, vars, node, Tick, BuildFilter, Queue, SatelliteCommit, SatelliteDelete, Read, ReviveRecord,
           Upload, Restore, CompactStart, CompactLock, CompactOnce, CompactEnd, UploadInv
  <2>3. live \cup reader \subseteq Keys
    BY DEF TypeOK
  <2> QED BY <1>0, <2>1, <2>2, <2>3 DEF UploadInv
<1>3. \A k \in Keys : Fine(k)
  <2>1. ASSUME NEW k \in Keys, NEW t \in {0} \cup {now + d : d \in Ttls}, Upload(k, t)
        PROVE  \A o \in Keys : Fine(o)
    <3>1. NewExpiration(TimeToDateUp(t), FALSE) \in Nat /\ TimeToDateDown(now) \in Nat
      <4>1. t \in Nat
        BY <1>0, ExpiryAssumption
      <4> QED BY <1>0, <4>1, Days, Expirations
    <3>2. /\ rec'[k].in /\ rec'[k].created = TimeToDateDown(now)
          /\ \A o \in Keys : o # k => rec'[o] = rec[o]
      BY <2>1, <3>1, Inserted DEF Upload
    <3>3. up'[k] = now /\ \A o \in Keys : o # k => up'[o] = up[o]
      BY <2>1 DEF Upload, TypeOK
    <3> QED BY <1>0, <3>1, <3>2, <3>3 DEF UploadInv
  <2>2. ASSUME NEW k \in Keys, ReviveRecord(k) PROVE \A o \in Keys : Fine(o)
    <3>1. up' = up /\ up[k] # 0
      BY <2>2 DEF ReviveRecord, UploadInv
    <3>2. CASE rec' = rec
      BY <3>1, <3>2 DEF UploadInv
    <3>3. CASE rec[k].in /\ Insert(k, 0, rec[k].created)
      <4>1. /\ rec'[k].in /\ rec'[k].created = rec[k].created
            /\ \A o \in Keys : o # k => rec'[o] = rec[o]
        BY <1>0, <3>3, Inserted
      <4> QED BY <3>1, <3>3, <4>1 DEF UploadInv
    <3>4. CASE Insert(k, 0, TimeToDateDown(now))
      <4>1. TimeToDateDown(now) \in Nat /\ TimeToDateDown(up[k]) \in Nat /\ TimeToDateDown(up[k]) <= TimeToDateDown(now)
        BY <1>0, <1>1, Days
      <4>2. /\ rec'[k].in /\ rec'[k].created = TimeToDateDown(now)
            /\ \A o \in Keys : o # k => rec'[o] = rec[o]
        BY <3>4, <4>1, Inserted
      <4> QED BY <3>1, <4>1, <4>2 DEF UploadInv
    <3> QED BY <2>2, <3>2, <3>3, <3>4 DEF ReviveRecord
  <2>3. ASSUME CompactOnce, NEW k \in Keys PROVE Fine(k)
    <3>1. up' = up /\ up[k] <= job.at
      BY <2>3 DEF CompactOnce, ClockInv
    <3>2. TimeToDateDown(up[k]) \in Nat /\ today \in Nat /\ TimeToDateDown(up[k]) <= today
      BY <1>0, <1>1, <3>1, Days DEF today
    <3> QED BY <2>3, <3>1, <3>2, CompactedShape DEF UploadInv
  <2>4. CASE UNCHANGED <<rec, ttl, up, trashedAt>>
    BY <2>4 DEF UploadInv
  <2> QED BY <2>1, <2>2, <2>3, <2>4, RecordSteps
<1> QED BY <1>2, <1>3 DEF UploadInv

\* Every step keeps TtlInv.
LEMMA NextTtlInv ==
  ASSUME TypeOK, ClockInv, UploadInv, TtlInv, [Next]_vars
  PROVE  TtlInv'
<1> DEFINE Fine(k) == rec'[k].exp # 0 /\ ~Trash(rec'[k].exp) =>
                        ttl'[k] # 0 /\ Time(rec'[k].exp) = TimeToDateUp(ttl'[k])
<1> SUFFICES \A k \in Keys : Fine(k)
  BY DEF TtlInv
<1>0. now \in Nat /\ \A k \in Keys : rec[k].created \in Nat
  BY ExpiryAssumption DEF TypeOK, Ticks
<1>1. ASSUME NEW k \in Keys, NEW t \in {0} \cup {now + d : d \in Ttls}, Upload(k, t)
      PROVE  \A o \in Keys : Fine(o)
  <2>1. t \in Nat
    BY <1>0, ExpiryAssumption
  <2>2. /\ NewExpiration(TimeToDateUp(t), FALSE) \in Nat /\ TimeToDateDown(now) \in Nat
        /\ Time(NewExpiration(TimeToDateUp(t), FALSE)) = TimeToDateUp(t)
        /\ NewExpiration(TimeToDateUp(t), FALSE) # 0 => t # 0
    BY <1>0, <2>1, Days, Expirations
  <2>3. ~rec[k].in
    BY <1>1 DEF Upload, UploadInv
  <2>4. /\ rec'[k].exp = NewExpiration(TimeToDateUp(t), FALSE)
        /\ \A o \in Keys : o # k => rec'[o] = rec[o]
    BY <1>1, <2>2, <2>3, Inserted DEF Upload
  <2>5. ttl'[k] = t /\ \A o \in Keys : o # k => ttl'[o] = ttl[o]
    BY <1>1 DEF Upload, TypeOK
  <2> QED BY <2>2, <2>4, <2>5 DEF TtlInv
<1>2. ASSUME NEW k \in Keys, ReviveRecord(k) PROVE \A o \in Keys : Fine(o)
  <2>1. rec'[k].exp = 0 /\ \A o \in Keys : o # k => rec'[o] = rec[o]
    <3>1. (rec[k].exp = 0 /\ rec' = rec) \/ \E created \in Nat : Insert(k, 0, created)
      BY <1>0, <1>2, Days DEF ReviveRecord
    <3> QED BY <3>1, Inserted
  <2>2. \A o \in Keys : o # k => ttl'[o] = ttl[o]
    BY <1>2 DEF ReviveRecord, TypeOK
  <2> QED BY <2>1, <2>2 DEF TtlInv
<1>3. ASSUME CompactOnce, NEW k \in Keys PROVE Fine(k)
  BY <1>3, CompactedShape, MarkedShape DEF TtlInv
<1>4. CASE UNCHANGED <<rec, ttl, up, trashedAt>>
  BY <1>4 DEF TtlInv
<1> QED BY <1>1, <1>2, <1>3, <1>4, RecordSteps

\* What a filter trashes can not be committed any more, and the satellite does not have it.
LEMMA ShouldTrashOld ==
  ASSUME TypeOK, FilterInv, UploadInv, NEW k \in Keys, rec[k].in, ShouldTrash(k)
  PROVE  up[k] + CommitDelay < now /\ k \notin live
<1>0. /\ filter.at \in Nat /\ filter.at <= now /\ now \in Nat /\ up[k] \in Nat /\ rec[k].created \in Nat
      /\ Skew \in Nat /\ CommitDelay \in Nat /\ DayLen \in Nat
      /\ CommitDelay + DayLen <= Skew + 1
  BY ExpiryAssumption, SkewAssumption DEF TypeOK, Ticks, FilterInv
<1>1. /\ TimeToDateDown(up[k]) \in Nat
      /\ up[k] < DateToTime(TimeToDateDown(up[k])) + DayLen
  BY <1>0, Days
<1>2. /\ DateToTime(TimeToDateDown(up[k])) <= DateToTime(rec[k].created)
      /\ DateToTime(TimeToDateDown(up[k])) \in Nat /\ DateToTime(rec[k].created) \in Nat
  BY <1>0, <1>1, DayOrder DEF UploadInv
<1>3. filter.at - DateToTime(rec[k].created) > Skew
  BY DEF ShouldTrash
<1>4. up[k] + CommitDelay < filter.at
  BY <1>0, <1>1, <1>2, <1>3
<1>5. k \notin live
  BY <1>0, <1>4 DEF FilterInv, ShouldTrash
<1> QED BY <1>0, <1>4, <1>5

\* Every step keeps TrashInv: what is marked as trash keeps its ttl if that ends before
\* ExpiresDays.
LEMMA NextTrashInv ==
  ASSUME TypeOK, ClockInv, FilterInv, UploadInv, TtlInv, TrashInv, [Next]_vars
  PROVE  TrashInv'
<1> DEFINE Fine(k) ==
      IF Trash(rec'[k].exp)
      THEN /\ up'[k] + CommitDelay < now'
           /\ trashedAt'[k] # 0
           /\ Time(rec'[k].exp) <= TimeToDateDown(trashedAt'[k]) + ExpiresDays
           /\ \/ Time(rec'[k].exp) = TimeToDateDown(trashedAt'[k]) + ExpiresDays
              \/ ttl'[k] # 0 /\ Time(rec'[k].exp) = TimeToDateUp(ttl'[k])
      ELSE trashedAt'[k] = 0
<1> SUFFICES \A k \in Keys : Fine(k)
  BY DEF TrashInv
<1>0. /\ now \in Nat /\ now' \in Nat /\ now <= now' /\ CommitDelay \in Nat /\ job.at \in Nat
      /\ \A k \in Keys : rec[k].created \in Nat /\ up[k] \in Nat /\ rec[k].exp \in Nat
  BY ClockSteps, ExpiryAssumption DEF TypeOK, Ticks
<1>1. ASSUME NEW k \in Keys, rec'[k] = rec[k], UNCHANGED <<ttl[k], up[k], trashedAt[k]>>
      PROVE  Fine(k)
  <2>1. up[k] + CommitDelay < now => up'[k] + CommitDelay < now'
    BY <1>0, <1>1
  <2> QED BY <1>1, <2>1 DEF TrashInv
<1>2. ASSUME NEW k \in Keys, NEW t \in {0} \cup {now + d : d \in Ttls}, Upload(k, t)
      PROVE  \A o \in Keys : Fine(o)
  <2>1. t \in Nat
    BY <1>0, ExpiryAssumption
  <2>2. /\ NewExpiration(TimeToDateUp(t), FALSE) \in Nat /\ TimeToDateDown(now) \in Nat
        /\ ~Trash(NewExpiration(TimeToDateUp(t), FALSE))
    BY <1>0, <2>1, Days, Expirations
  <2>3. ~rec[k].in /\ trashedAt[k] = 0
    BY <1>2, Expirations DEF Upload, UploadInv, TrashInv
  <2>4. /\ rec'[k].exp = NewExpiration(TimeToDateUp(t), FALSE)
        /\ \A o \in Keys : o # k => rec'[o] = rec[o]
    BY <1>2, <2>2, <2>3, Inserted DEF Upload
  <2>5. trashedAt' = trashedAt /\ \A o \in Keys : o # k => ttl'[o] = ttl[o] /\ up'[o] = up[o]
    BY <1>2 DEF Upload, TypeOK
  <2>6. Fine(k)
    BY <2>2, <2>3, <2>4, <2>5
  <2> QED BY <1>1, <2>4, <2>5, <2>6
<1>3. ASSUME NEW k \in Keys, ReviveRecord(k) PROVE \A o \in Keys : Fine(o)
  <2>1. rec'[k].exp = 0 /\ \A o \in Keys : o # k => rec'[o] = rec[o]
    <3>1. (rec[k].exp = 0 /\ rec' = rec) \/ \E created \in Nat : Insert(k, 0, created)
      BY <1>0, <1>3, Days DEF ReviveRecord
    <3> QED BY <3>1, Inserted
  <2>2. /\ trashedAt'[k] = 0 /\ up' = up
        /\ \A o \in Keys : o # k => ttl'[o] = ttl[o] /\ trashedAt'[o] = trashedAt[o]
    BY <1>3 DEF ReviveRecord, TypeOK
  <2>3. Fine(k)
    BY <2>1, <2>2, Expirations
  <2> QED BY <1>1, <2>1, <2>2, <2>3
<1>4. ASSUME CompactOnce, NEW k \in Keys PROVE Fine(k)
  <2>1. up' = up /\ now' = now /\ job.at # 0
    BY <1>4 DEF CompactOnce, ClockInv
  <2>2. trashedAt'[k] = IF ~Trash(rec'[k].exp) THEN 0
                        ELSE IF Trash(rec[k].exp) THEN trashedAt[k] ELSE job.at
    BY <1>4, CompactedShape
  <2>3. CASE ~Trash(rec'[k].exp)
    BY <2>2, <2>3
  <2>4. CASE Trash(rec'[k].exp)
    <3>1. rec[k].in /\ rec'[k].exp = Marked(k) /\ ttl'[k] = ttl[k]
      BY <1>4, <2>4, CompactedShape, Expirations
    <3>2. CASE Marked(k) = rec[k].exp
      BY <2>1, <2>2, <2>4, <3>1, <3>2 DEF TrashInv
    <3>3. CASE Marked(k) # rec[k].exp
      <4>1. /\ ~Trash(rec[k].exp) /\ ShouldTrash(k)
            /\ \/ Time(Marked(k)) = today + ExpiresDays
               \/ /\ Time(Marked(k)) = Time(rec[k].exp) /\ Time(rec[k].exp) > 0
                  /\ Time(Marked(k)) < today + ExpiresDays
        BY <3>3, MarkedShape
      <4>2. trashedAt'[k] = job.at /\ today = TimeToDateDown(job.at)
        BY <2>2, <2>4, <4>1 DEF today
      <4>3. up[k] + CommitDelay < now
        BY <3>1, <4>1, ShouldTrashOld
      <4>4. today \in Nat /\ ExpiresDays \in Nat
        BY <1>0, <4>2, Days, ExpiryAssumption
      <4>5. CASE Time(Marked(k)) = today + ExpiresDays
        BY <2>1, <2>4, <3>1, <4>2, <4>3, <4>4, <4>5
      <4>6. CASE Time(Marked(k)) = Time(rec[k].exp) /\ Time(rec[k].exp) > 0 /\ Time(Marked(k)) < today + ExpiresDays
        <5>1. rec[k].exp # 0
          BY <4>6 DEF Time
        <5>2. ttl[k] # 0 /\ Time(rec[k].exp) = TimeToDateUp(ttl[k])
          BY <4>1, <5>1 DEF TtlInv
        <5>3. Time(rec[k].exp) \in Nat
          BY <1>0, Expirations
        <5> QED BY <2>1, <2>4, <3>1, <4>2, <4>3, <4>4, <4>6, <5>2, <5>3
      <4> QED BY <4>1, <4>5, <4>6
    <3> QED BY <3>2, <3>3
  <2> QED BY <2>3, <2>4
<1>5. CASE UNCHANGED <<rec, ttl, up, trashedAt>>
  BY <1>1, <1>5
<1> QED BY <1>2, <1>3, <1>4, <1>5, RecordSteps

\* Every step keeps LiveNeverTrashed: a filter that misses a piece the satellite has is too
\* old, and what is in the trash is too old to be committed.
LEMMA NextLiveNeverTrashed ==
  ASSUME TypeOK, ClockInv, FilterInv, UploadInv, TrashInv, LiveNeverTrashed, [Next]_vars
  PROVE  LiveNeverTrashed'
<1>0. live \subseteq Keys /\ now \in Nat /\ \A k \in Keys : up[k] \in Nat /\ rec[k].created \in Nat
  BY ExpiryAssumption DEF TypeOK, Ticks
<1>1. ASSUME NEW k \in Keys, SatelliteCommit(k) PROVE LiveNeverTrashed'
  <2>1. ~Trash(rec[k].exp)
    BY <1>0, <1>1, ExpiryAssumption DEF SatelliteCommit, TrashInv
  <2> QED BY <1>1, <2>1 DEF SatelliteCommit, LiveNeverTrashed, node
<1>2. ASSUME NEW k \in Keys, SatelliteDelete(k) PROVE LiveNeverTrashed'
  BY <1>2 DEF SatelliteDelete, LiveNeverTrashed, node
<1>3. ASSUME NEW k \in Keys, NEW t \in {0} \cup {now + d : d \in Ttls}, Upload(k, t)
      PROVE  LiveNeverTrashed'
  <2>1. k \notin live /\ live' = live
    BY <1>3 DEF Upload, UploadInv
  <2>2. \A o \in Keys : o # k => rec'[o] = rec[o]
    BY <1>3 DEF Upload, Insert, TypeOK
  <2> QED BY <1>0, <2>1, <2>2 DEF LiveNeverTrashed
<1>4. ASSUME NEW k \in Keys, ReviveRecord(k) PROVE LiveNeverTrashed'
  <2>1. rec'[k].exp = 0 /\ \A o \in Keys : o # k => rec'[o] = rec[o]
    <3>1. (rec[k].exp = 0 /\ rec' = rec) \/ \E created \in Nat : Insert(k, 0, created)
      BY <1>0, <1>4, Days DEF ReviveRecord
    <3> QED BY <3>1, Inserted
  <2>2. live' = live
    BY <1>4 DEF ReviveRecord
  <2> QED BY <1>0, <2>1, <2>2, Expirations DEF LiveNeverTrashed
<1>5. CASE CompactOnce
  <2>1. ASSUME NEW k \in live PROVE ~Trash(rec'[k].exp)
    <3>1. k \in Keys /\ ~Trash(rec[k].exp)
      BY <1>0 DEF LiveNeverTrashed
    <3>2. rec[k].in => Marked(k) = rec[k].exp
      BY <3>1, MarkedShape, ShouldTrashOld
    <3> QED BY <1>5, <3>1, <3>2, CompactedShape, Expirations
  <2> QED BY <1>5, <2>1 DEF CompactOnce, LiveNeverTrashed
<1>6. CASE live' = live /\ rec' = rec
  BY <1>6 DEF LiveNeverTrashed
<1>7. CASE Tick \/ BuildFilter \/ Restore \/ CompactStart \/ CompactLock \/ CompactEnd \/ UNCHANGED vars
  BY <1>6, <1>7 DEF Tick, BuildFilter, Restore, CompactStart, CompactLock, CompactEnd, vars, node
<1>8. CASE (\E f \in sent : Queue(f)) \/ \E k \in Keys : Read(k)
  BY <1>6, <1>8 DEF Queue, Read
<1> QED BY <1>1, <1>2, <1>3, <1>4, <1>5, <1>7, <1>8 DEF Next

\* Every step keeps the invariant.
LEMMA NextInv == Inv /\ [Next]_vars => Inv'
<1> SUFFICES ASSUME Inv, [Next]_vars PROVE Inv'
  OBVIOUS
<1> USE DEF Inv
<1>1. TypeOK' /\ ClockInv' /\ FilterInv'
  BY NextTypes, NextClockInv, NextFilterInv
<1>2. UploadInv' /\ TtlInv' /\ TrashInv'
  BY NextUploadInv, NextTtlInv, NextTrashInv
<1>3. LiveNeverTrashed'
  BY NextLiveNeverTrashed
<1> QED BY <1>1, <1>2, <1>3

-----------------------------------------------------------------------------
(***************************************************************************)
(* What a compaction drops.                                                *)
(***************************************************************************)

\* Only a compaction drops a record, when its expiration is over and not restored.
LEMMA DroppedExpired ==
  ASSUME Inv, [Next]_vars, NEW k \in Keys, Dropped(k)
  PROVE  CompactOnce /\ Expired(Marked(k)) /\ ~Restored(Marked(k))
<1>0. now \in Nat /\ \A o \in Keys : rec[o].created \in Nat
  BY ExpiryAssumption DEF Inv, TypeOK, Ticks
<1>1. ASSUME NEW o \in Keys, NEW exp \in Nat, NEW created \in Nat, Insert(o, exp, created)
      PROVE  FALSE
  BY <1>1, Inserted DEF Inv, Dropped
<1>2. ASSUME NEW o \in Keys, NEW t \in {0} \cup {now + d : d \in Ttls}, Upload(o, t) PROVE FALSE
  <2>1. t \in Nat
    BY <1>0, ExpiryAssumption
  <2>2. NewExpiration(TimeToDateUp(t), FALSE) \in Nat /\ TimeToDateDown(now) \in Nat
    BY <1>0, <2>1, Days, Expirations
  <2> QED BY <1>1, <1>2, <2>2 DEF Upload
<1>3. ASSUME NEW o \in Keys, ReviveRecord(o) PROVE FALSE
  <2>1. rec' = rec \/ \E created \in Nat : Insert(o, 0, created)
    BY <1>0, <1>3, Days DEF ReviveRecord
  <2> QED BY <1>1, <2>1 DEF Dropped
<1>4. CompactOnce
  BY <1>2, <1>3, RecordSteps DEF Dropped
<1> QED BY <1>4, CompactedShape DEF Inv, Dropped

\* A compaction drops a piece only after its ttl, or when it was trash for at least
\* ExpiresDays full days.
LEMMA DropStep ==
  ASSUME Inv, [Next]_vars, NEW k \in Keys, Dropped(k)
  PROVE  TtlOver(k) \/ (trashedAt[k] # 0 /\ job.at - trashedAt[k] >= ExpiresDays * DayLen)
<1> DEFINE e == rec[k].exp
<1>0. /\ e \in Nat /\ now \in Nat /\ job.at \in Nat /\ job.at <= now /\ trashedAt[k] \in Nat /\ ttl[k] \in Nat
      /\ ExpiresDays \in Nat /\ DayLen \in Nat /\ today \in Nat
  BY ExpiryAssumption, MarkedShape DEF Inv, TypeOK, Ticks, ClockInv
<1>1. Marked(k) # 0 /\ today > Time(Marked(k))
  BY DroppedExpired DEF Expired
<1>2. DateToTime(today) <= job.at
  BY <1>0, Days DEF today
<1>3. ASSUME ttl[k] # 0, today > TimeToDateUp(ttl[k]) PROVE TtlOver(k)
  <2>1. TimeToDateUp(ttl[k]) \in Nat /\ ttl[k] <= DateToTime(TimeToDateUp(ttl[k]))
    BY <1>0, Days
  <2>2. DateToTime(TimeToDateUp(ttl[k])) + DayLen <= DateToTime(today)
        /\ DateToTime(TimeToDateUp(ttl[k])) \in Nat /\ DateToTime(today) \in Nat
    BY <1>0, <1>3, <2>1, DayOrder
  <2>3. DayLen > 0
    BY ExpiryAssumption
  <2>4. now > ttl[k]
    BY <1>0, <1>2, <2>1, <2>2, <2>3
  <2> QED BY <1>3, <2>4 DEF TtlOver
<1>4. CASE ~Trash(e)
  <2>1. Time(Marked(k)) = Time(e) /\ e # 0
    <3>1. CASE Marked(k) = e
      BY <1>1, <3>1
    <3>2. CASE Marked(k) # e
      <4>1. Time(Marked(k)) = today + ExpiresDays \/ (Time(Marked(k)) = Time(e) /\ Time(e) > 0)
        BY <3>2, MarkedShape DEF Inv
      <4>2. Time(Marked(k)) # today + ExpiresDays
        BY <1>0, <1>1
      <4>3. e = 0 => Time(e) = 0
        BY DEF Time
      <4> QED BY <4>1, <4>2, <4>3
    <3> QED BY <3>1, <3>2
  <2>2. ttl[k] # 0 /\ Time(e) = TimeToDateUp(ttl[k])
    BY <1>4, <2>1 DEF Inv, TtlInv
  <2> QED BY <1>1, <1>3, <2>1, <2>2
<1>5. CASE Trash(e)
  <2>1. Marked(k) = e
    BY <1>5, MarkedShape DEF Inv
  <2>2. /\ trashedAt[k] # 0
        /\ \/ Time(e) = TimeToDateDown(trashedAt[k]) + ExpiresDays
           \/ ttl[k] # 0 /\ Time(e) = TimeToDateUp(ttl[k])
    BY <1>5 DEF Inv, TrashInv
  <2>3. CASE Time(e) = TimeToDateDown(trashedAt[k]) + ExpiresDays
    <3> DEFINE d == TimeToDateDown(trashedAt[k])
    <3>1. d \in Nat /\ trashedAt[k] < DateToTime(d) + DayLen /\ d + ExpiresDays < today
      BY <1>0, <1>1, <2>1, <2>3, Days
    <3>2. /\ DateToTime(d + ExpiresDays) + DayLen <= DateToTime(today)
          /\ DateToTime(d + ExpiresDays) = DateToTime(d) + DateToTime(ExpiresDays)
          /\ DateToTime(d) \in Nat /\ DateToTime(ExpiresDays) \in Nat /\ DateToTime(today) \in Nat
      <4>1. d + ExpiresDays \in Nat
        BY <1>0, <3>1
      <4> HIDE DEF d
      <4> QED BY <1>0, <3>1, <4>1, DayOrder
    <3>3. job.at - trashedAt[k] >= DateToTime(ExpiresDays)
      <4> HIDE DEF d
      <4> QED BY <1>0, <1>2, <3>1, <3>2
    <3> QED BY <2>2, <3>3 DEF DateToTime
  <2>4. CASE ttl[k] # 0 /\ Time(e) = TimeToDateUp(ttl[k])
    BY <1>1, <1>3, <2>1, <2>4
  <2> QED BY <2>2, <2>3, <2>4
<1> QED BY <1>4, <1>5

\* A compaction that knows of a restore does not drop what was trash by then.
LEMMA RestoreStep ==
  ASSUME Inv, [Next]_vars, NEW k \in Keys, Dropped(k), trashedAt[k] # 0
  PROVE  job.restore < trashedAt[k]
<1> DEFINE e == rec[k].exp
           d == TimeToDateDown(trashedAt[k])
           u == TimeToDateUp(job.restore)
<1>0. trashedAt[k] \in Nat /\ job.restore \in Nat /\ ExpiresDays \in Nat /\ DayLen \in Nat \ {0} /\ e \in Nat
  BY ExpiryAssumption DEF Inv, TypeOK, Ticks
<1>1. Trash(e) /\ Time(e) <= d + ExpiresDays
  BY DEF Inv, TrashInv
<1>2. Marked(k) = e
  BY <1>1, MarkedShape DEF Inv
<1>3. ~(Time(e) <= u + ExpiresDays)
  BY <1>1, <1>2, DroppedExpired DEF Restored
<1>4. d \in Nat /\ u \in Nat /\ DateToTime(d) <= trashedAt[k] /\ job.restore <= DateToTime(u)
  BY <1>0, Days
<1>5. Time(e) \in Nat
  BY <1>0, Expirations
<1> HIDE DEF e, d, u
<1>6. u < d
  BY <1>0, <1>1, <1>3, <1>4, <1>5
<1>7. DateToTime(u) + DayLen <= DateToTime(d) /\ DateToTime(u) \in Nat /\ DateToTime(d) \in Nat
  BY <1>4, <1>6, DayOrder
<1> QED BY <1>0, <1>4, <1>7

-----------------------------------------------------------------------------
(***************************************************************************)
(* The theorems.                                                           *)
(***************************************************************************)

\* In every reachable state the inductive invariant holds.
THEOREM Invariance == Spec => []Inv
BY InitInv, NextInv, PTL DEF Spec

\* Records, filters and the compaction have their types.
THEOREM TypeCorrect == Spec => []TypeOK
<1>1. Inv => TypeOK
  BY DEF Inv
<1> QED BY <1>1, Invariance, PTL

\* A piece the satellite has is never marked as trash, although filters arrive late and
\* out of date, created days are rounded and uploads are committed late.
THEOREM LiveNeverTrashedHolds == Spec => []LiveNeverTrashed
<1>1. Inv => LiveNeverTrashed
  BY DEF Inv
<1> QED BY <1>1, Invariance, PTL

\* A compaction drops a piece only after its ttl, or when it was trash for at least
\* ExpiresDays full days without being read or restored.
THEOREM DropJustifiedHolds == Spec => DropJustified
<1>1. Inv /\ [Next]_vars =>
        [\A k \in Keys : Dropped(k) =>
           \/ TtlOver(k)
           \/ trashedAt[k] # 0 /\ job.at - trashedAt[k] >= ExpiresDays * DayLen]_vars
  BY DropStep
<1> QED BY <1>1, Invariance, PTL DEF Spec, DropJustified

\* A piece that was trash at the time of a restore is not dropped by a compaction that
\* knows of the restore.
THEOREM RestoreSavesHolds == Spec => RestoreSaves
<1>1. Inv /\ [Next]_vars => [\A k \in Keys : Dropped(k) /\ trashedAt[k] # 0 => job.restore < trashedAt[k]]_vars
  BY RestoreStep
<1> QED BY <1>1, Invariance, PTL DEF Spec, RestoreSaves
=============================================================================
