-------------------------------- MODULE Store --------------------------------
(***************************************************************************)
(* One hashstore Store on a disk that may lose what was not synced         *)
(* (storagenode/hashstore/store.go, log.go, fsck.go).                      *)
(*                                                                         *)
(* A store appends pieces to log files and keeps a table from keys to      *)
(* places in the logs.  The hint file names the logs that the next open    *)
(* may skip.  Everything is here that orders what reaches the files:       *)
(* Writer.Close, compactOnce, NewStore with reconcileLog, Store.Close,     *)
(* and a crash between any two steps.                                      *)
(*                                                                         *)
(* Data are abstract.  A piece is its key; the log is the sequence of the  *)
(* pieces whose bytes and footer are valid, or Bad; an offset is an index. *)
(* Which pieces are expired is decided outside (module Expiry).            *)
(***************************************************************************)
EXTENDS Integers, Sequences, FiniteSets, FiniteSetsExt

CONSTANTS
  Keys,         \* the pieces that are uploaded
  Bad,          \* bytes that are no valid piece
  MaxLogSize,   \* pieces in a log at which it is closed
  TailLen,      \* length of a RecordTail
  SyncWrites,   \* cfg.Store.SyncWrites
  PowerLoss,    \* a crash may lose what was not synced
  OpenFails,    \* NewStore may return an error
  MaxLogId,     \* bound: log files ever created
  MaxCrashes,   \* bound: crashes
  MaxErrors     \* bound: failed writes, failed removals and interrupted compactions

ASSUME StoreAssumption ==
  /\ IsFiniteSet(Keys) /\ Bad \notin Keys
  /\ {MaxLogSize, TailLen} \subseteq Nat \ {0}
  /\ {SyncWrites, PowerLoss, OpenFails} \subseteq BOOLEAN
  /\ {MaxLogId, MaxCrashes, MaxErrors} \subseteq Nat

VARIABLES
  \* on disk
  files,      \* log id -> its pieces and how many of them are synced
  tbl,        \* key -> its record, as the page cache has it
  tblSynced,  \* key -> its record, as the disk has it for certain
  hint,       \* the hint file
  \* in the process
  mode,       \* what the store is doing
  todo,       \* logs NewStore has still to open
  tails,      \* the table NewStore computed the record tails from
  lfs,        \* the log files the store knows
  open,       \* the ones whose handle is not closed
  maxLog,     \* largest log id
  w,          \* key -> its Writer
  comp,       \* the compaction
  report,     \* invalid keys not yet passed to the amnesty callback
  late,       \* hint file that a closed store has yet to write
  left,       \* history: logs the store forgot whose files could not be removed
  \* what was promised
  acked,      \* keys whose Writer.Close returned nil
  expired,    \* keys that compaction may drop
  amnesty,    \* keys reported as lost
  crashes, errors

disk  == <<files, tbl, tblSynced, hint>>
ghost == <<acked, expired, amnesty>>
vars  == <<disk, mode, todo, tails, lfs, open, maxLog, w, comp, report, late, ghost, left, crashes, errors>>

NoRec    == [log |-> 0, off |-> 0]
Ids      == 1 .. MaxLogId
Rec      == [log : Ids, off : Nat \ {0}] \cup {NoRec}
NoWriter == [st |-> "idle", rec |-> NoRec]
NoComp   == [st |-> "idle", exp |-> {}, cand |-> {}, rewrite |-> {}, rm |-> {}, new |-> [k \in Keys |-> NoRec], pending |-> {}]
NoHint   == [largest |-> 0, writable |-> {}]
Hint     == [largest : 0 .. MaxLogId, writable : SUBSET Ids]
NoLate   == [largest |-> 0 - 1, writable |-> {}]

TypeOK ==
  /\ DOMAIN files \subseteq Ids
  /\ \A id \in DOMAIN files :
       /\ files[id].recs \in Seq(Keys \cup {Bad})
       /\ files[id].synced \in 0 .. Len(files[id].recs)
  /\ {tbl, tblSynced, tails} \subseteq [Keys -> Rec]
  /\ hint \in Hint /\ late \in Hint \cup {NoLate}
  /\ mode \in {"down", "opening", "up"}
  /\ todo \subseteq DOMAIN files /\ lfs \subseteq DOMAIN files
  /\ open \subseteq lfs /\ left \subseteq Ids
  /\ maxLog \in 0 .. MaxLogId
  /\ w \in [Keys -> [st : {"idle", "appended", "inserted"}, rec : Rec]]
  /\ comp.st \in {"idle", "unlink", "rewrite", "finish"}
  /\ {report, acked, expired, amnesty} \subseteq SUBSET Keys

Init ==
  /\ files = <<>>
  /\ tbl = [k \in Keys |-> NoRec] /\ tblSynced = tbl /\ tails = tbl
  /\ hint = NoHint /\ late = NoLate
  /\ mode = "down" /\ todo = {} /\ lfs = {} /\ open = {} /\ maxLog = 0
  /\ w = [k \in Keys |-> NoWriter] /\ comp = NoComp
  /\ report = {} /\ acked = {} /\ expired = {} /\ amnesty = {}
  /\ left = {} /\ crashes = 0 /\ errors = 0

-----------------------------------------------------------------------------
(***************************************************************************)
(* Log files.                                                              *)
(***************************************************************************)

\* The log with one more piece.
Appended(log, piece) == [log EXCEPT !.recs = Append(@, piece)]

\* The log after fh.Sync.
Synced(log) == [log EXCEPT !.synced = Len(log.recs)]

Full(log) == Len(log.recs) >= MaxLogSize

\* Mutant of CloseLogs: the handle is closed without a sync.
CloseWithoutSync(ids) == files

\* files after the logs ids were closed: logFile.Close syncs first.
CloseLogs(ids) == [id \in DOMAIN files |-> IF id \in ids THEN Synced(files[id]) ELSE files[id]]

Drop(f, id) == [i \in DOMAIN f \ {id} |-> f[i]]

NewLog == [recs |-> <<>>, synced |-> 0]

\* Mutant of AppendTo: a log stays available to others while a writer uses it.
SharesLog(id, piece, avoid) ==
  \/ /\ id \in open
     /\ files' = [files EXCEPT ![id] = Appended(@, piece)]
     /\ UNCHANGED <<lfs, open, maxLog>>
  \/ /\ id = maxLog + 1 /\ id \in Ids
     /\ files' = [i \in DOMAIN files \cup {id} |->
                    IF i = id THEN Appended(NewLog, piece) ELSE files[i]]
     /\ lfs' = lfs \cup {id} /\ open' = open \cup {id} /\ maxLog' = id

\* acquireLogFile, then an append of the piece to the log: one that is open and
\* that no other goroutine has acquired, or a new one (the heaps are per ttl, so
\* a new log may be needed although others are open).  avoid are the logs that
\* may not be used.  Result: the new files, lfs, open, maxLog; id is the log.
AppendTo(id, piece, avoid) ==
  \/ /\ id \in open \ avoid
     /\ files' = [files EXCEPT ![id] = Appended(@, piece)]
     /\ UNCHANGED <<lfs, open, maxLog>>
  \/ /\ id = maxLog + 1 /\ id \in Ids
     /\ files' = [i \in DOMAIN files \cup {id} |->
                    IF i = id THEN Appended(NewLog, piece) ELSE files[i]]
     /\ lfs' = lfs \cup {id}
     /\ open' = open \cup {id}
     /\ maxLog' = id

\* Mutant of HintNow: no log is named writable.
HintWithoutWritable(ids) == [largest |-> maxLog, writable |-> {}]

\* The hint that writeHintFile writes.
HintNow(ids) == [largest |-> maxLog, writable |-> ids]

\* hintExcluder.Excluded
Excluded(id) == id <= hint.largest /\ id \notin hint.writable

-----------------------------------------------------------------------------
(***************************************************************************)
(* Writer.Close.  The flush mutex keeps it apart from compaction, and the  *)
(* log it acquired is its own until it returns.                            *)
(***************************************************************************)

Acquired == {w[k].rec.log : k \in {j \in Keys : w[j].st # "idle"}}

WriteLog(k) ==
  /\ mode = "up" /\ comp.st = "idle"
  /\ w[k].st = "idle" /\ k \notin acked
  /\ \E id \in Ids :
       /\ AppendTo(id, k, Acquired)
       /\ w' = [w EXCEPT ![k] = [st |-> "appended",
                                 rec |-> [log |-> id, off |-> Len(files'[id].recs)]]]
  /\ UNCHANGED <<tbl, tblSynced, hint, mode, todo, tails, comp, report, late, ghost, left, crashes, errors>>

\* The write or addRecord failed: Writer.Close truncates the log, which may fail
\* as well and then leaves the whole piece or a part of it.
WriteFailed(k) ==
  /\ errors < MaxErrors
  /\ w[k].st = "appended"
  /\ LET id  == w[k].rec.log
         off == w[k].rec.off
     IN  \E recs \in {SubSeq(files[id].recs, 1, off - 1), files[id].recs,
                      [files[id].recs EXCEPT ![off] = Bad]} :
           files' = [files EXCEPT ![id].recs = recs]
  /\ w' = [w EXCEPT ![k] = NoWriter]
  /\ errors' = errors + 1
  /\ UNCHANGED <<tbl, tblSynced, hint, mode, todo, tails, lfs, open, maxLog, comp, report, late, ghost, left, crashes>>

\* addRecord: tbl.Insert replaces the record of the key.
AddRecord(k) ==
  /\ w[k].st = "appended"
  /\ tbl' = [tbl EXCEPT ![k] = w[k].rec]
  /\ w' = [w EXCEPT ![k].st = "inserted"]
  /\ UNCHANGED <<files, tblSynced, hint, mode, todo, tails, lfs, open, maxLog, comp, report, late, ghost, left, crashes, errors>>

\* The rest: sync both files if configured, close the log if it is full, return.
FinishWrite(k) ==
  LET id == w[k].rec.log IN
  /\ w[k].st = "inserted"
  /\ files' = IF SyncWrites \/ Full(files[id]) THEN CloseLogs({id}) ELSE files
  /\ tblSynced' = IF SyncWrites THEN tbl ELSE tblSynced
  /\ open' = IF Full(files[id]) THEN open \ {id} ELSE open
  /\ w' = [w EXCEPT ![k] = NoWriter]
  /\ acked' = acked \cup {k}
  /\ UNCHANGED <<tbl, hint, mode, todo, tails, lfs, maxLog, comp, report, late, expired, amnesty, left, crashes, errors>>

\* Time passes, or the garbage collector says so: compaction may drop k.
Expire(k) ==
  /\ k \in acked \ expired
  /\ expired' = expired \cup {k}
  /\ UNCHANGED <<disk, mode, todo, tails, lfs, open, maxLog, w, comp, report, late, acked, amnesty, left, crashes, errors>>

-----------------------------------------------------------------------------
(***************************************************************************)
(* compactOnce, with the compaction and the flush mutex held.              *)
(***************************************************************************)

InTable == {k \in Keys : tbl[k] # NoRec}

\* The records that stay.
Kept == InTable \ comp.exp

\* Pieces of a log that the next table will point to.
Alive(id) == {k \in Kept : tbl[k].log = id}

\* The first pass over the table: logs without a record are forgotten, then
\* closed and removed.
CompactBegin ==
  LET dead == lfs \ {tbl[k].log : k \in InTable} IN
  /\ mode = "up" /\ comp.st = "idle"
  /\ \A k \in Keys : w[k].st = "idle"
  /\ maxLog + Cardinality(InTable) <= MaxLogId
  /\ comp' = [NoComp EXCEPT !.st = "unlink", !.exp = expired, !.rm = dead]
  /\ lfs' = lfs \ dead
  /\ open' = open \ dead
  /\ UNCHANGED <<disk, mode, todo, tails, maxLog, w, report, late, ghost, left, crashes, errors>>

\* Mutant of CompactRemove: the file is closed and not removed.
LeavesFile(id) ==
  /\ id \in comp.rm
  /\ comp' = [comp EXCEPT !.rm = @ \ {id}]
  /\ UNCHANGED <<disk, mode, todo, tails, lfs, open, maxLog, w, report, late, ghost, left, crashes, errors>>

\* os.Remove of one log that is no longer in lfs.
CompactRemove(id) ==
  /\ id \in comp.rm
  /\ files' = Drop(files, id)
  /\ comp' = [comp EXCEPT !.rm = @ \ {id}]
  /\ UNCHANGED <<tbl, tblSynced, hint, mode, todo, tails, lfs, open, maxLog, w, report, late, ghost, left, crashes, errors>>

\* The error of os.Remove is discarded, once the log is synced and closed: the file
\* stays, and the store knows of it again when it is opened next.
CompactRemoveFails(id) ==
  /\ errors < MaxErrors
  /\ id \in comp.rm
  /\ files' = CloseLogs({id})
  /\ comp' = [comp EXCEPT !.rm = @ \ {id}]
  /\ left' = left \cup {id}
  /\ errors' = errors + 1
  /\ UNCHANGED <<tbl, tblSynced, hint, mode, todo, tails, lfs, open, maxLog, w, report, late, ghost, crashes>>

\* The logs that may be candidates for rewriting: not empty, surely the ones
\* with nothing alive, the others by chance; if chance picks none, the log with
\* the most dead data, if there is dead data at all.
CandidateSets ==
  {c \in SUBSET {id \in lfs : files[id].recs # <<>>} :
     /\ \A id \in lfs : files[id].recs # <<>> /\ Alive(id) = {} => id \in c
     /\ c = {} => \A id \in lfs : Cardinality(Alive(id)) = Len(files[id].recs)}

\* Nothing expired and no candidate: only a new hint file is written.
CompactNothing ==
  /\ comp.st = "unlink" /\ comp.rm = {}
  /\ {} \in CandidateSets /\ InTable = Kept
  /\ hint' = HintNow(open)
  /\ comp' = NoComp
  /\ UNCHANGED <<files, tbl, tblSynced, mode, todo, tails, lfs, open, maxLog, w, report, late, ghost, left, crashes, errors>>

\* Choose the logs to rewrite, at least one of the candidates, and start a table.
CompactSelect ==
  /\ comp.st = "unlink" /\ comp.rm = {}
  /\ \E cand \in CandidateSets : \E rewrite \in SUBSET cand :
       /\ cand # {} => rewrite # {}
       /\ comp' = [comp EXCEPT !.st = "rewrite", !.cand = cand, !.rewrite = rewrite,
                               !.new = [k \in Keys |-> IF k \in Kept THEN tbl[k] ELSE NoRec],
                               !.pending = {k \in Kept : tbl[k].log \in rewrite}]
  /\ UNCHANGED <<disk, mode, todo, tails, lfs, open, maxLog, w, report, late, ghost, left, crashes, errors>>

\* rewriteRecord: copy the bytes of one record, whatever they are, to a log that
\* is not a candidate, and close that log if it is full.
RewriteRecord(k) ==
  /\ comp.st = "rewrite" /\ k \in comp.pending
  /\ tbl[k].log \in lfs /\ tbl[k].off <= Len(files[tbl[k].log].recs)
  /\ \E id \in Ids :
       LET piece == files[tbl[k].log].recs[tbl[k].off]
           grown == Appended(IF id \in DOMAIN files THEN files[id] ELSE NewLog, piece)
           known == id \in open \ (comp.cand \cup {tbl[k].log})
           fresh == id = maxLog + 1
       IN  /\ known \/ fresh
           /\ files' = [i \in DOMAIN files \cup {id} |->
                          IF i # id THEN files[i]
                          ELSE IF Full(grown) THEN Synced(grown) ELSE grown]
           /\ lfs' = lfs \cup {id}
           /\ open' = IF Full(grown) THEN open \ {id} ELSE open \cup {id}
           /\ maxLog' = IF fresh THEN id ELSE maxLog
           /\ comp' = [comp EXCEPT !.pending = @ \ {k},
                                   !.new[k] = [log |-> id, off |-> Len(grown.recs)]]
  /\ UNCHANGED <<tbl, tblSynced, hint, mode, todo, tails, w, report, late, ghost, left, crashes, errors>>

\* An i/o error, a cancelled context or Store.Close ends the compaction before
\* the commit: the new table is cancelled, the copied pieces stay in their logs.
CompactFailed ==
  /\ errors < MaxErrors
  /\ comp.st = "rewrite" \/ (comp.st = "unlink" /\ comp.rm = {})
  /\ comp' = NoComp
  /\ errors' = errors + 1
  /\ UNCHANGED <<disk, mode, todo, tails, lfs, open, maxLog, w, report, late, ghost, left, crashes>>

\* Mutant of CompactCommit: every candidate is removed, also one not rewritten.
RemovesCandidates ==
  /\ comp.st = "rewrite" /\ comp.pending = {}
  /\ tbl' = comp.new /\ tblSynced' = comp.new
  /\ lfs' = lfs \ comp.cand
  /\ open' = open \ comp.cand
  /\ comp' = [comp EXCEPT !.st = "finish", !.rm = comp.cand]
  /\ UNCHANGED <<files, hint, mode, todo, tails, maxLog, w, report, late, ghost, left, crashes, errors>>

\* af.Commit and the swap: the new table is synced and in place, the rewritten
\* logs are forgotten and will be removed.
CompactCommit ==
  /\ comp.st = "rewrite" /\ comp.pending = {}
  /\ tbl' = comp.new /\ tblSynced' = comp.new
  /\ lfs' = lfs \ comp.rewrite
  /\ open' = open \ comp.rewrite
  /\ comp' = [comp EXCEPT !.st = "finish", !.rm = comp.rewrite]
  /\ UNCHANGED <<files, hint, mode, todo, tails, maxLog, w, report, late, ghost, left, crashes, errors>>

\* The old logs are gone: write the hint file and return.
CompactFinish ==
  /\ comp.st = "finish" /\ comp.rm = {}
  /\ hint' = HintNow(open)
  /\ comp' = NoComp
  /\ UNCHANGED <<files, tbl, tblSynced, mode, todo, tails, lfs, open, maxLog, w, report, late, ghost, left, crashes, errors>>

-----------------------------------------------------------------------------
(***************************************************************************)
(* NewStore: check the logs the hint does not exclude against the table.   *)
(***************************************************************************)

OpenStart ==
  /\ mode = "down" /\ late = NoLate
  /\ mode' = "opening"
  /\ todo' = DOMAIN files
  /\ tails' = tbl
  /\ UNCHANGED <<disk, lfs, open, maxLog, w, comp, report, late, ghost, left, crashes, errors>>

\* The n members of S with the largest offsets.
Newest(S, n) == {r \in S : Cardinality({q \in S : q.off > r.off}) < n}

\* The RecordTail of a log, from the table and from the log itself.
TableTail(id) ==
  Newest({[key |-> k, off |-> tails[k].off] : k \in {j \in Keys : tails[j].log = id}}, TailLen)
LogTail(recs) ==
  Newest({[key |-> recs[i], off |-> i] : i \in {j \in DOMAIN recs : recs[j] \in Keys}}, TailLen)

\* The keys of a log, and of those the ones the table has elsewhere or not at all.
InLog(recs) == {k \in Keys : \E i \in DOMAIN recs : recs[i] = k}
Missing(id, recs) == {k \in InLog(recs) : tbl[k].log # id}

\* The keys that the table has in this log and the log does not have.
Invalid(id, recs) == {k \in Keys : tbl[k].log = id} \ InLog(recs)

\* The table with the missing keys at their last offset.
Inserted(id, recs) ==
  [k \in Keys |-> IF k \in Missing(id, recs)
                  THEN [log |-> id, off |-> Max({i \in DOMAIN recs : recs[i] = k})]
                  ELSE tbl[k]]

\* Mutant of Reconciled: the invalid records stay.
KeepsInvalid(id, recs) == Inserted(id, recs)

\* ... and without the invalid ones.
Reconciled(id, recs) ==
  [k \in Keys |-> IF k \in Invalid(id, recs) THEN NoRec ELSE Inserted(id, recs)[k]]

\* reconcileLog for the log id whose pieces are recs.  Removing records takes a
\* new table that is committed.  A record at another offset than the key has in
\* the log is left alone.
ReconcileLog(id, recs) ==
  /\ tbl' = Reconciled(id, recs)
  /\ tblSynced' = IF Invalid(id, recs) = {} THEN tblSynced ELSE tbl'
  /\ report' = Invalid(id, recs)

\* One log file: check it unless it is excluded, then close it or include it.
\* The directory listing gives the files in any order.
OpenLog(id) ==
  /\ mode = "opening" /\ report = {} /\ id \in todo
  /\ \/ /\ ~Excluded(id)
        /\ TableTail(id) # LogTail(files[id].recs)
        /\ ReconcileLog(id, files[id].recs)
     \/ /\ Excluded(id) \/ TableTail(id) = LogTail(files[id].recs)
        /\ UNCHANGED <<tbl, tblSynced, report>>
  /\ todo' = todo \ {id}
  /\ lfs' = lfs \cup {id}
  /\ maxLog' = Max({maxLog, id})
  /\ files' = IF Full(files[id]) THEN CloseLogs({id}) ELSE files
  /\ open' = IF Full(files[id]) THEN open ELSE open \cup {id}
  /\ UNCHANGED <<hint, mode, tails, w, comp, late, ghost, left, crashes, errors>>

\* A log that the table has a tail for and that has no file.
OpenMissing(id) ==
  /\ mode = "opening" /\ report = {} /\ todo = {} /\ lfs # {}
  /\ id \notin lfs /\ \E k \in Keys : tails[k].log = id
  /\ tails' = [k \in Keys |-> IF tails[k].log = id THEN NoRec ELSE tails[k]]
  /\ ReconcileLog(id, <<>>)
  /\ UNCHANGED <<files, hint, mode, todo, lfs, open, maxLog, w, comp, late, ghost, left, crashes, errors>>

\* Mutant of OpenAmnesty: the callback is not called.
DropsReport ==
  /\ report # {}
  /\ report' = {}
  /\ UNCHANGED <<disk, mode, todo, tails, lfs, open, maxLog, w, comp, late, ghost, left, crashes, errors>>

\* s.amnesty(ctx, invalid), after the table without them was committed.
OpenAmnesty ==
  /\ report # {}
  /\ amnesty' = amnesty \cup report
  /\ report' = {}
  /\ UNCHANGED <<disk, mode, todo, tails, lfs, open, maxLog, w, comp, late, acked, expired, left, crashes, errors>>

TailsLeft == {k \in Keys : tails[k] # NoRec /\ tails[k].log \notin lfs}

\* Everything is loaded and checked: write the hint file and return the store.
OpenDone ==
  /\ mode = "opening" /\ report = {} /\ todo = {} /\ TailsLeft = {}
  /\ hint' = HintNow(open)
  /\ mode' = "up"
  /\ tails' = [k \in Keys |-> NoRec]
  /\ UNCHANGED <<files, tbl, tblSynced, todo, lfs, open, maxLog, w, comp, report, late, ghost, left, crashes, errors>>

-----------------------------------------------------------------------------
(***************************************************************************)
(* Store.Close.                                                            *)
(***************************************************************************)

\* Close the known logs ids and the table and release the lock file.  The hint
\* file is written after that; it names the largest log id, max, and no
\* writable log.
CloseFiles(ids, max) ==
  /\ late = NoLate
  /\ files' = CloseLogs(ids)
  /\ tblSynced' = tbl
  /\ lfs' = {} /\ open' = {} /\ maxLog' = 0
  /\ todo' = {} /\ tails' = [k \in Keys |-> NoRec]
  /\ mode' = "down" /\ left' = {}
  /\ late' = [largest |-> max, writable |-> {}]
  /\ UNCHANGED <<tbl, hint, w, comp, report, ghost, crashes, errors>>

Close ==
  /\ mode = "up" /\ comp.st = "idle"
  /\ \A k \in Keys : w[k].st = "idle"
  /\ CloseFiles(lfs, maxLog)

\* NewStore returns an error, an i/o error or a cancelled context, while it works
\* on one of the logs it has still to check or after the last one.  Its deferred
\* Close runs on what is loaded, that log included.
OpenFail ==
  /\ OpenFails
  /\ mode = "opening" /\ report = {}
  /\ \E ids \in {{id} : id \in todo} \cup {{}} :
       CloseFiles(lfs \cup ids, Max({maxLog} \cup ids))

\* NewStore returns an error: the table has records and there is no log file.
OpenMisconfigured ==
  /\ mode = "opening" /\ todo = {} /\ lfs = {} /\ TailsLeft # {}
  /\ CloseFiles({}, 0)

\* The last part of Close.
WriteCloseHint ==
  /\ late # NoLate
  /\ hint' = late
  /\ late' = NoLate
  /\ UNCHANGED <<files, tbl, tblSynced, mode, todo, tails, lfs, open, maxLog, w, comp, report, ghost, left, crashes, errors>>

-----------------------------------------------------------------------------
(***************************************************************************)
(* The process or the machine stops.                                       *)
(***************************************************************************)

\* What can be left of a log when the machine stops: at least what was synced;
\* of the rest a prefix, with or without a tail of bytes that were never written.
Remains(log) ==
  {[recs |-> r, synced |-> Len(r)] : r \in
     {SubSeq(log.recs, 1, n) : n \in log.synced .. Len(log.recs)} \cup
     {[i \in DOMAIN log.recs |-> IF i <= n THEN log.recs[i] ELSE Bad] : n \in log.synced .. Len(log.recs)}}

\* The log files after the machine stopped: a file that was never synced may be
\* missing.
CrashedFiles ==
  {[id \in DOMAIN f \ lost |-> f[id]] :
     f \in {g \in [DOMAIN files -> UNION {Remains(files[id]) : id \in DOMAIN files}] :
              \A id \in DOMAIN files : g[id] \in Remains(files[id])},
     lost \in SUBSET {id \in DOMAIN files : files[id].synced = 0}}

\* The table after the machine stopped: each page was written or not.
CrashedTables ==
  {[k \in Keys |-> IF k \in stale THEN tblSynced[k] ELSE tbl[k]] :
     stale \in SUBSET {k \in Keys : tbl[k] # tblSynced[k]}}

Crash ==
  /\ crashes < MaxCrashes /\ (mode # "down" \/ late # NoLate)
  /\ \/ ~PowerLoss /\ UNCHANGED <<files, tbl, tblSynced>>
     \/ PowerLoss /\ files' \in CrashedFiles
        /\ tbl' \in CrashedTables /\ tblSynced' = tbl'
  /\ mode' = "down"
  /\ todo' = {} /\ tails' = [k \in Keys |-> NoRec]
  /\ lfs' = {} /\ open' = {} /\ maxLog' = 0
  /\ w' = [k \in Keys |-> NoWriter] /\ comp' = NoComp
  /\ report' = {} /\ late' = NoLate /\ left' = {}
  /\ crashes' = crashes + 1
  /\ UNCHANGED <<hint, ghost, errors>>

-----------------------------------------------------------------------------
Next ==
  \/ \E k \in Keys : WriteLog(k) \/ WriteFailed(k) \/ AddRecord(k) \/ FinishWrite(k) \/ Expire(k)
  \/ CompactBegin \/ \E id \in Ids : CompactRemove(id) \/ CompactRemoveFails(id)
  \/ CompactNothing \/ CompactSelect \/ \E k \in Keys : RewriteRecord(k)
  \/ CompactFailed \/ CompactCommit \/ CompactFinish
  \/ OpenStart \/ \E id \in Ids : OpenLog(id) \/ OpenMissing(id)
  \/ OpenAmnesty \/ OpenDone \/ OpenFail \/ OpenMisconfigured
  \/ Close \/ WriteCloseHint \/ Crash

Spec == Init /\ [][Next]_vars

-----------------------------------------------------------------------------
(***************************************************************************)
(* Properties.                                                             *)
(***************************************************************************)

\* The bytes that the record of k points to are those of k, in a known log.
Readable(k) ==
  /\ tbl[k].log \in lfs
  /\ tbl[k].off \in DOMAIN files[tbl[k].log].recs
  /\ files[tbl[k].log].recs[tbl[k].off] = k

Live == acked \ expired

\* A piece whose upload was acknowledged and that may not be dropped can be read
\* whenever the store is open: across compactions, errors, crashes of the process
\* and failed opens.
AckedReadable == mode = "up" => \A k \in Live : Readable(k)

\* Every record of the table of an open store points to its piece: no step of a
\* compaction removes or forgets a log that a record, also one of an expired or an
\* unacknowledged piece, points to.
NoDangling == mode = "up" => \A k \in InTable : Readable(k)

\* Every log file belongs to an open store's set of logs unless a compaction is
\* removing it or could not: nothing else leaves a file behind where no compaction
\* will ever reclaim it, and the next open takes in what a failed removal left.
NoOrphans == mode = "up" => DOMAIN files = lfs \cup comp.rm \cup left

\* The logs that the hint file lets the next open skip are safe to skip whatever
\* the crash: they are synced, and what the disk's table has in them is there.
ExcludedSound ==
  \A id \in {i \in DOMAIN files : Excluded(i)} :
    /\ files[id].synced = Len(files[id].recs)
    /\ \A k \in Keys : tblSynced[k].log = id =>
         /\ tblSynced[k].off \in DOMAIN files[id].recs
         /\ files[id].recs[tblSynced[k].off] = k

\* No log that writers may append to is one that the hint file lets the next open
\* skip.
WritableNotExcluded == mode = "up" => \A id \in open : ~Excluded(id)

\* With synced writes an acknowledged piece that is not expired is readable after
\* a power loss, or was reported to the amnesty callback.
NoSilentLoss == mode = "up" => \A k \in Live : Readable(k) \/ k \in amnesty

\* When a compaction has written its hint file everything the table points to is
\* on disk.
CompactionSynced ==
  [][CompactFinish => \A k \in InTable : tbl[k].off <= files[tbl[k].log].synced]_vars
=============================================================================
