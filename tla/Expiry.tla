-------------------------------- MODULE Expiry --------------------------------
(***************************************************************************)
(* When compaction may drop a piece: ttl, trash, restore and revive        *)
(* (storagenode/hashstore/store.go Compact, compactOnce and reviveRecord,  *)
(* record.go Expiration, storagenode/retain/bloom_manager.go and           *)
(* restore_manager.go).                                                    *)
(*                                                                         *)
(* Time is a number of ticks, DayLen of them a day.  Records keep days:    *)
(* the created day is rounded down, ttl and restore days are rounded up,   *)
(* and the expiration is the integer of the code, twice the day plus the   *)
(* trash bit, zero if unset.  The satellite commits and deletes pieces and *)
(* builds bloom filters; a filter reaches the node later.                  *)
(***************************************************************************)
EXTENDS Integers, FiniteSets

CONSTANTS
  Keys,         \* pieces
  DayLen,       \* ticks of a day
  ExpiresDays,  \* cfg.Compaction.ExpiresDays
  Skew,         \* cfg.Retain.MaxTimeSkew, in ticks
  CommitDelay,  \* ticks after which the satellite has committed an upload, or never will
  Ttls,         \* ticks from the upload to the end of a ttl
  MaxTime,      \* bound: the last tick
  MaxFilters,   \* bound: filters on their way at once
  FilterGap     \* bound: ticks from one filter to the next

ASSUME ExpiryAssumption ==
  /\ IsFiniteSet(Keys)
  /\ DayLen \in Nat \ {0}
  /\ ExpiresDays \in Nat /\ Skew \in Nat /\ CommitDelay \in Nat
  /\ MaxTime \in Nat /\ DayLen <= MaxTime
  /\ Ttls \subseteq Nat /\ MaxFilters \in Nat /\ FilterGap \in Nat

\* The skew covers the time until a piece is committed and the rounding of created.
ASSUME SkewAssumption == CommitDelay + DayLen <= Skew + 1

VARIABLES
  now,        \* the clock
  rec,        \* key -> its record in the table
  restoreAt,  \* RestoreTimeManager: the tick of the last restore, 0 if unset
  filter,     \* BloomFilterManager: the newest filter
  sent,       \* filters on their way to the node
  live,       \* pieces the satellite has
  job,        \* the compaction, with the restore time it was given and its start
  reader,     \* keys with a Reader of a trashed record that is not revived yet
  up,         \* key -> tick of its upload
  ttl,        \* key -> tick the uploader asked for, 0 for none or given up
  trashedAt   \* key -> start of the compaction that marked it as trash, 0 if it is not trash

node == <<rec, restoreAt, filter, job, reader>>
vars == <<now, node, sent, live, up, ttl, trashedAt>>

NoFilter == [at |-> 0, has |-> {}]
NoRecord == [in |-> FALSE, exp |-> 0, created |-> 0]
Ticks    == 0 .. MaxTime
Idle     == [st |-> "idle", restore |-> 0, at |-> 0]

TypeOK ==
  /\ now \in Ticks
  /\ rec \in [Keys -> [in : BOOLEAN, exp : Nat, created : Nat]]
  /\ restoreAt \in Ticks
  /\ filter \in [at : Ticks, has : SUBSET Keys]
  /\ sent \in SUBSET [at : Ticks, has : SUBSET Keys]
  /\ live \in SUBSET Keys
  /\ job \in [st : {"idle", "waiting", "locked"}, restore : Ticks, at : Ticks]
  /\ reader \in SUBSET Keys
  /\ up \in [Keys -> Ticks] /\ ttl \in [Keys -> Nat] /\ trashedAt \in [Keys -> Ticks]

Init ==
  /\ now = DayLen
  /\ rec = [k \in Keys |-> NoRecord]
  /\ restoreAt = 0
  /\ filter = NoFilter /\ sent = {}
  /\ live = {}
  /\ job = Idle
  /\ reader = {}
  /\ up = [k \in Keys |-> 0] /\ ttl = [k \in Keys |-> 0] /\ trashedAt = [k \in Keys |-> 0]

-----------------------------------------------------------------------------
(***************************************************************************)
(* Dates and expirations.                                                  *)
(***************************************************************************)

TimeToDateDown(t) == t \div DayLen
TimeToDateUp(t)   == (t + DayLen - 1) \div DayLen
DateToTime(d)     == d * DayLen

NewExpiration(d, trash) == 2 * d + (IF trash THEN 1 ELSE 0)
Trash(e) == e % 2 = 1
Time(e)  == e \div 2

MaxExpiration(a, b) ==
  IF a = 0 \/ b = 0 THEN 0
  ELSE IF Trash(a) = Trash(b) THEN IF a > b THEN a ELSE b
  ELSE IF Trash(a) THEN a ELSE b

\* tbl.Insert: the new record with the larger of the expirations.
Insert(k, exp, created) ==
  rec' = [rec EXCEPT ![k] = [in |-> TRUE, created |-> created,
                             exp |-> IF @.in THEN MaxExpiration(exp, @.exp) ELSE exp]]

-----------------------------------------------------------------------------
(***************************************************************************)
(* The satellite and the clock.                                            *)
(***************************************************************************)

Tick ==
  /\ now < MaxTime
  /\ now' = now + 1
  /\ UNCHANGED <<node, sent, live, up, ttl, trashedAt>>

\* The satellite commits the upload in time, or deletes a piece.
SatelliteCommit(k) ==
  /\ up[k] # 0 /\ now - up[k] <= CommitDelay
  /\ live' = live \cup {k}
  /\ UNCHANGED <<now, node, sent, up, ttl, trashedAt>>

SatelliteDelete(k) ==
  /\ k \in live
  /\ live' = live \ {k}
  /\ UNCHANGED <<now, node, sent, up, ttl, trashedAt>>

\* A filter has the pieces of the satellite and, by chance, others.  It may reach
\* the node after a newer one.
BuildFilter ==
  /\ \E has \in SUBSET Keys :
       /\ live \subseteq has
       /\ sent' = sent \cup {[at |-> now, has |-> has]}
  /\ Cardinality(sent) < MaxFilters
  /\ \A f \in sent \cup {filter} : f.at + FilterGap <= now
  /\ UNCHANGED <<now, node, live, up, ttl, trashedAt>>

-----------------------------------------------------------------------------
(***************************************************************************)
(* The node.                                                               *)
(***************************************************************************)

\* BloomFilterManager.Queue refuses a filter older than the one it has.
Queue(f) ==
  /\ f \in sent
  /\ sent' = sent \ {f}
  /\ filter' = IF filter.at > f.at THEN filter ELSE f
  /\ UNCHANGED <<now, rec, restoreAt, job, reader, live, up, ttl, trashedAt>>

\* Store.Create and Writer.Close, with or without a ttl: flushMu keeps them out of
\* a compaction.
Upload(k, t) ==
  /\ up[k] = 0 /\ job.st # "locked"
  /\ Insert(k, NewExpiration(TimeToDateUp(t), FALSE), TimeToDateDown(now))
  /\ up' = [up EXCEPT ![k] = now]
  /\ ttl' = [ttl EXCEPT ![k] = t]
  /\ UNCHANGED <<now, restoreAt, filter, job, reader, sent, live, trashedAt>>

\* RestoreTrash: SetRestoreTime keeps the larger time, which is now.
Restore ==
  /\ restoreAt' = now
  /\ UNCHANGED <<now, rec, filter, job, reader, sent, live, up, ttl, trashedAt>>

\* Read of a trashed record: the Reader will be revived.
Read(k) ==
  /\ rec[k].in /\ Trash(rec[k].exp)
  /\ reader' = reader \cup {k}
  /\ UNCHANGED <<now, rec, restoreAt, filter, job, sent, live, up, ttl, trashedAt>>

\* reviveRecord: clear the expiration of the record, or write the piece again
\* from the open file if the record was dropped in the meantime.  compactMu keeps
\* it out of a compaction.
ReviveRecord(k) ==
  /\ k \in reader /\ job.st # "locked"
  /\ reader' = reader \ {k}
  /\ IF rec[k].in
     THEN IF rec[k].exp = 0 THEN UNCHANGED rec ELSE Insert(k, 0, rec[k].created)
     ELSE Insert(k, 0, TimeToDateDown(now))
  /\ ttl' = [ttl EXCEPT ![k] = 0]
  /\ trashedAt' = [trashedAt EXCEPT ![k] = 0]
  /\ UNCHANGED <<now, restoreAt, filter, job, sent, live, up>>

-----------------------------------------------------------------------------
(***************************************************************************)
(* Compaction: LastRestore is read before the mutexes are acquired, today  *)
(* after that, and both are kept for all rounds.  The filter is the newest *)
(* one of the moment.                                                      *)
(***************************************************************************)

\* GetRestoreTime stores the current time if there is none.
CompactStart ==
  /\ job.st = "idle"
  /\ restoreAt' = IF restoreAt = 0 THEN now ELSE restoreAt
  /\ job' = [st |-> "waiting", restore |-> restoreAt', at |-> 0]
  /\ UNCHANGED <<now, rec, filter, reader, sent, live, up, ttl, trashedAt>>

CompactLock ==
  /\ job.st = "waiting"
  /\ job' = [job EXCEPT !.st = "locked", !.at = now]
  /\ UNCHANGED <<now, rec, restoreAt, filter, reader, sent, live, up, ttl, trashedAt>>

today == TimeToDateDown(job.at)

\* Mutant of Restored: the restore day is rounded down and counted exclusively.
RestoredDown(e) == Trash(e) /\ Time(e) <= TimeToDateDown(job.restore) + ExpiresDays - 1

Restored(e) == Trash(e) /\ Time(e) <= TimeToDateUp(job.restore) + ExpiresDays

\* Mutant of Expired: on the day of the expiration it is expired already.
ExpiresEarly(e) == e # 0 /\ today >= Time(e) /\ ~Restored(e)

Expired(e) == e # 0 /\ today > Time(e) /\ ~Restored(e)

\* Mutant of ShouldTrash: the skew is not applied.
TrashesFresh(k) ==
  /\ filter.at # 0
  /\ filter.at - DateToTime(rec[k].created) > 0
  /\ k \notin filter.has

\* The callback of BloomFilterManager.GetBloomFilter.
ShouldTrash(k) ==
  /\ filter.at # 0
  /\ filter.at - DateToTime(rec[k].created) > Skew
  /\ k \notin filter.has

\* The expiration after the trash check: the smaller of the ttl and ExpiresDays
\* from now, unless that would be restored at once.
Marked(k) ==
  LET e == rec[k].exp
      d == IF Time(e) > 0 /\ Time(e) < today + ExpiresDays THEN Time(e) ELSE today + ExpiresDays
      t == NewExpiration(d, TRUE)
  IN  IF ~Trash(e) /\ ShouldTrash(k) /\ ~Restored(t) THEN t ELSE e

\* The record of k in the new table.
Compacted(k) ==
  LET r == IF Restored(Marked(k))
           THEN [in |-> TRUE, exp |-> 0, created |-> today]
           ELSE [rec[k] EXCEPT !.exp = Marked(k)]
  IN  IF ~rec[k].in \/ Expired(r.exp) THEN NoRecord ELSE r

\* One round: the new table is committed.
CompactOnce ==
  /\ job.st = "locked"
  /\ rec' = [k \in Keys |-> Compacted(k)]
  /\ trashedAt' = [k \in Keys |-> IF ~Trash(rec'[k].exp) THEN 0
                                  ELSE IF Trash(rec[k].exp) THEN trashedAt[k] ELSE job.at]
  /\ ttl' = [k \in Keys |-> IF rec[k].in /\ Restored(Marked(k)) THEN 0 ELSE ttl[k]]
  /\ UNCHANGED <<now, restoreAt, filter, job, reader, sent, live, up>>

\* The last round is done, a round failed, or the mutexes were not acquired.
CompactEnd ==
  /\ job.st # "idle"
  /\ job' = Idle
  /\ UNCHANGED <<now, rec, restoreAt, filter, reader, sent, live, up, ttl, trashedAt>>

-----------------------------------------------------------------------------
Next ==
  \/ Tick \/ BuildFilter \/ \E f \in sent : Queue(f)
  \/ \E k \in Keys : SatelliteCommit(k) \/ SatelliteDelete(k)
  \/ \E k \in Keys : Read(k) \/ ReviveRecord(k) \/ \E t \in {0} \cup {now + d : d \in Ttls} : Upload(k, t)
  \/ Restore \/ CompactStart \/ CompactLock \/ CompactOnce \/ CompactEnd

Spec == Init /\ [][Next]_vars

-----------------------------------------------------------------------------
(***************************************************************************)
(* Properties.                                                             *)
(***************************************************************************)

Dropped(k) == rec[k].in /\ ~rec'[k].in

TtlOver(k) == ttl[k] # 0 /\ now > ttl[k]

\* A piece the satellite has is never marked as trash, although filters arrive late
\* and out of date, created days are rounded and uploads are committed late.
LiveNeverTrashed == \A k \in live : ~Trash(rec[k].exp)

\* Compaction drops a piece only after its ttl, or when it was trash for at least
\* ExpiresDays full days without being read or restored.
DropJustified ==
  [][\A k \in Keys : Dropped(k) =>
       \/ TtlOver(k)
       \/ trashedAt[k] # 0 /\ job.at - trashedAt[k] >= ExpiresDays * DayLen]_vars

\* A piece that was trash at the time of a restore is not dropped by a compaction
\* that knows of the restore.
RestoreSaves ==
  [][\A k \in Keys : Dropped(k) /\ trashedAt[k] # 0 => job.restore < trashedAt[k]]_vars
=============================================================================
