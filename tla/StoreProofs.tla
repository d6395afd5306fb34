----------------------------- MODULE StoreProofs ------------------------------
(***************************************************************************)
(* Proofs about Store, for any pieces, log and tail lengths, and bounds.   *)
(*                                                                         *)
(* Whatever stops, no log file is lost sight of and no log that writers    *)
(* use is excluded by the hint file.  If the machine never loses what was  *)
(* not synced, every record of the table points to its piece, through any  *)
(* number of crashes of the process, failed writes, failed compactions and *)
(* failed opens, and so an acknowledged piece can be read.                 *)
(*                                                                         *)
(* The argument is that three kinds of steps could take away what a record *)
(* points to.  A failed write truncates its log, which it has acquired for *)
(* itself, and nothing points to the piece yet (WriterInv).  A compaction  *)
(* removes logs, but a dead one has no record, and the ones it rewrote are *)
(* candidates, to which no record is copied (CompInv).  An open removes    *)
(* records, but only of pieces that a log does not have.                   *)
(* A log whose removal failed stays on disk, and no record ever points to  *)
(* it (LeftInv).                                                           *)
(*                                                                         *)
(* If the machine may lose what was not synced, and uploads are synced,    *)
(* one power loss and no error lose no acknowledged piece without a        *)
(* report.  The store is sound until the loss (Sound, Fresh).  The loss    *)
(* tears only logs that the hint file does not exclude and cuts off only   *)
(* the last records there (Damaged); the open that follows checks these    *)
(* logs, removes and reports what is gone, and the store is sound again.   *)
(***************************************************************************)
EXTENDS Store, FiniteSetTheorems, WellFoundedInduction, TLAPS

-----------------------------------------------------------------------------
(***************************************************************************)
(* The inductive invariant.                                                *)
(***************************************************************************)

Pieces == Keys \cup {Bad}
Log == {l \in [recs : Seq(Pieces), synced : Nat] : l.synced <= Len(l.recs)}
Table == [Keys -> Rec]
Writers == [st : {"idle", "appended", "inserted"}, rec : Rec]
Comps == [st : {"idle", "unlink", "rewrite", "finish"}, exp : SUBSET Keys, cand : SUBSET Ids,
          rewrite : SUBSET Ids, rm : SUBSET Ids, new : Table, pending : SUBSET Keys]

\* The types, with what TypeOK leaves out: the log files and the compaction.
Types ==
  /\ files \in [DOMAIN files -> Log] /\ DOMAIN files \subseteq Ids
  /\ tbl \in Table /\ tblSynced \in Table /\ tails \in Table
  /\ hint \in Hint /\ late \in Hint \cup {NoLate}
  /\ mode \in {"down", "opening", "up"}
  /\ todo \subseteq Ids /\ lfs \subseteq Ids /\ open \subseteq lfs /\ left \subseteq Ids
  /\ maxLog \in 0 .. MaxLogId
  /\ w \in [Keys -> Writers]
  /\ comp \in Comps
  /\ report \subseteq Keys /\ acked \subseteq Keys /\ expired \subseteq Keys /\ amnesty \subseteq Keys

\* The log files on disk are those the store knows, has still to open, is removing or could
\* not remove.
FilesInv ==
  /\ mode = "down" => lfs = {} /\ todo = {} /\ maxLog = 0 /\ report = {}
  /\ mode = "opening" => DOMAIN files = lfs \cup todo /\ (lfs = {} => report = {})
  /\ mode = "up" => /\ DOMAIN files = lfs \cup comp.rm \cup left /\ lfs \cap (comp.rm \cup left) = {}
                    /\ comp.rm \cap left = {} /\ todo = {} /\ report = {}
                    /\ \A id \in comp.rm \cup left : id <= maxLog
  /\ mode # "up" => left = {}
  /\ \A id \in lfs : id <= maxLog
  /\ late # NoLate => mode = "down"

\* Nothing is written but by an open store.  A writer has its log for itself, the piece is
\* the last one there, and until its record is inserted it is not synced.
Owns(k) ==
  LET rec == w[k].rec IN
  /\ mode = "up" /\ comp.st = "idle"
  /\ rec # NoRec /\ rec.log \in lfs
  /\ rec.off = Len(files[rec.log].recs) /\ files[rec.log].recs[rec.off] = k
  /\ w[k].st = "appended" => files[rec.log].synced < rec.off
  /\ w[k].st = "inserted" => tbl[k] = rec
  /\ \A j \in Keys : w[j].st # "idle" /\ w[j].rec.log = rec.log => j = k

WriterInv == \A k \in Keys : w[k].st # "idle" => Owns(k)

\* A compaction removes only logs that no record points to: dead ones, or candidates, to
\* which it copied nothing.
CompInv ==
  /\ comp.st = "idle" => comp = NoComp
  /\ comp.st # "idle" => mode = "up"
  /\ comp.exp \subseteq expired
  /\ \A k \in InTable : tbl[k].log \notin comp.rm
  /\ comp.st = "rewrite" =>
       /\ comp.rm = {} /\ comp.rewrite \subseteq comp.cand /\ comp.cand \subseteq lfs
       /\ comp.pending \subseteq Kept
       /\ \A k \in Keys : comp.new[k] # NoRec <=> k \in Kept
       /\ \A k \in Kept \ comp.pending : comp.new[k].log \notin comp.rewrite

\* No record points to a log that could not be removed, none of the next table either.
LeftInv ==
  /\ \A k \in InTable : tbl[k].log \notin left
  /\ comp.st = "rewrite" => \A k \in Kept : comp.new[k].log \notin left

\* The logs that hint excludes are not written to: an open log is named writable there or
\* is newer than the file.
HintInv ==
  mode = "up" => /\ hint.largest <= maxLog
                 /\ \A id \in open : id \in hint.writable \/ hint.largest < id

\* The bytes at rec are those of k.
Holds(rec, k) ==
  /\ rec.log \in DOMAIN files /\ rec.off \in DOMAIN files[rec.log].recs
  /\ files[rec.log].recs[rec.off] = k

\* Nothing of the log can be lost.
Whole(log) == log.synced = Len(log.recs)

\* Records point to their pieces, those of the table that a compaction makes too, and what
\* was acknowledged has a record or was reported as lost.
PointedInv ==
  /\ \A k \in InTable : Holds(tbl[k], k)
  /\ comp.st = "rewrite" => \A k \in Kept : Holds(comp.new[k], k)
  /\ mode = "opening" => \A k \in Keys : tails[k] # NoRec => tails[k].log \in DOMAIN files
  /\ \A k \in Keys : w[k].st = "appended" =>
       ~(tbl[k].log = w[k].rec.log /\ tbl[k].off = w[k].rec.off)
  /\ Live \subseteq InTable \cup amnesty
  /\ report = {}

Inv ==
  /\ Types /\ FilesInv /\ WriterInv /\ CompInv /\ LeftInv /\ HintInv
  /\ ~PowerLoss => PointedInv /\ amnesty = {}

-----------------------------------------------------------------------------
(***************************************************************************)
(* Log files and records.                                                  *)
(***************************************************************************)

\* The idle values of the process are typed.
LEMMA IdleTypes ==
  /\ NoRec \in Rec /\ NoRec.log = 0 /\ [k \in Keys |-> NoRec] \in Table
  /\ NoWriter \in Writers /\ NoWriter.st = "idle" /\ NoComp \in Comps /\ NoComp.st = "idle" /\ NoComp.rm = {}
  /\ NoHint \in Hint /\ 0 \in 0 .. MaxLogId
  /\ Ids \subseteq Nat /\ 0 \notin Ids /\ \A id \in Ids : id \in 0 .. MaxLogId
<1>1. MaxLogId \in Nat
  BY StoreAssumption
<1>2. /\ Ids \subseteq Nat /\ 0 \notin Ids /\ 0 \in 0 .. MaxLogId /\ \A id \in Ids : id \in 0 .. MaxLogId
  BY <1>1 DEF Ids
<1>3. NoRec \in Rec /\ NoRec.log = 0
  BY DEF NoRec, Rec
<1>4. [k \in Keys |-> NoRec] \in Table
  BY <1>3 DEF Table
<1>5. NoWriter \in Writers /\ NoWriter.st = "idle"
  BY <1>3 DEF NoWriter, Writers
<1>6. NoComp \in Comps /\ NoComp.st = "idle" /\ NoComp.rm = {}
  BY <1>4 DEF NoComp, Comps
<1>7. NoHint \in Hint
  BY <1>2 DEF NoHint, Hint
<1> QED BY <1>2, <1>3, <1>4, <1>5, <1>6, <1>7

\* A record is in a log, or there is none.
LEMMA RecFacts ==
  /\ \A r \in Rec : /\ r = NoRec \/ (r.log \in Ids /\ r.off \in Nat \ {0})
                    /\ r # NoRec <=> r.log \in Ids
  /\ \A id \in Ids, off \in Nat \ {0} :
       LET r == [log |-> id, off |-> off] IN r \in Rec /\ r # NoRec /\ r.log = id /\ r.off = off
<1> DEFINE R == [log : Ids, off : Nat \ {0}]
<1>1. \A r \in R : r.log \in Ids /\ r.off \in Nat \ {0}
  OBVIOUS
<1>2. \A id \in Ids, off \in Nat \ {0} :
        LET r == [log |-> id, off |-> off] IN r \in R /\ r.log = id /\ r.off = off
  OBVIOUS
<1>3. Rec = R \cup {NoRec}
  BY DEF Rec
<1> HIDE DEF R
<1>4. \A r \in Rec : /\ r = NoRec \/ (r.log \in Ids /\ r.off \in Nat \ {0})
                     /\ r # NoRec <=> r.log \in Ids
  <2> TAKE r \in Rec
  <2>1. CASE r = NoRec
    <3>1. NoRec.log \notin Ids
      BY IdleTypes
    <3> QED BY <2>1, <3>1
  <2>2. CASE r # NoRec
    BY <2>2, <1>1, <1>3
  <2> QED BY <2>1, <2>2
<1>5. ASSUME NEW id \in Ids, NEW off \in Nat \ {0}
      PROVE  LET r == [log |-> id, off |-> off] IN r \in Rec /\ r # NoRec /\ r.log = id /\ r.off = off
  <2> DEFINE r == [log |-> id, off |-> off]
  <2>1. r \in R /\ r.log = id /\ r.off = off
    BY <1>2
  <2> HIDE DEF r
  <2>2. r \in Rec /\ r # NoRec
    BY <2>1, <1>3, IdleTypes
  <2> QED BY <2>1, <2>2 DEF r
<1> QED BY <1>4, <1>5

\* What the operations on a log file do to its pieces.
LEMMA LogFacts ==
  /\ NewLog \in Log /\ NewLog.recs = <<>> /\ NewLog.synced = 0
  /\ \A log \in Log :
       /\ log.recs \in Seq(Pieces) /\ Len(log.recs) \in Nat /\ DOMAIN log.recs = 1 .. Len(log.recs)
       /\ log.synced \in Nat /\ log.synced <= Len(log.recs)
       /\ Synced(log) \in Log /\ Synced(log).recs = log.recs
       /\ \A p \in Pieces : /\ Appended(log, p) \in Log /\ Appended(log, p).recs = Append(log.recs, p)
                            /\ Appended(log, p).synced = log.synced
                            /\ Synced(Appended(log, p)) \in Log
                            /\ Synced(Appended(log, p)).recs = Append(log.recs, p)
<1>1. NewLog \in Log /\ NewLog.recs = <<>> /\ NewLog.synced = 0
  BY DEF NewLog, Log
<1>2. \A log \in Log :
        /\ log.recs \in Seq(Pieces) /\ Len(log.recs) \in Nat /\ DOMAIN log.recs = 1 .. Len(log.recs)
        /\ log.synced \in Nat /\ log.synced <= Len(log.recs)
  BY DEF Log
<1>3. \A log \in Log : Synced(log) \in Log /\ Synced(log).recs = log.recs
  <2>1. \A n \in Nat : n <= n
    OBVIOUS
  <2> QED BY <1>2, <2>1 DEF Log, Synced
<1>4. \A log \in Log, p \in Pieces :
        /\ Appended(log, p) \in Log /\ Appended(log, p).recs = Append(log.recs, p)
        /\ Appended(log, p).synced = log.synced
  <2> TAKE log \in Log, p \in Pieces
  <2>1. Append(log.recs, p) \in Seq(Pieces) /\ Len(Append(log.recs, p)) = Len(log.recs) + 1
    BY <1>2
  <2>2. log.synced <= Len(Append(log.recs, p))
    BY <1>2, <2>1
  <2> QED BY <2>1, <2>2 DEF Log, Appended
<1> QED BY <1>1, <1>2, <1>3, <1>4

\* The last piece of a log that has grown, and the others.
LEMMA AppendFacts ==
  ASSUME NEW s \in Seq(Pieces), NEW p \in Pieces
  PROVE  LET t == Append(s, p) IN
         /\ Len(t) = Len(s) + 1 /\ Len(t) \in Nat \ {0} /\ Len(s) \in Nat
         /\ Len(t) \in DOMAIN t /\ t[Len(t)] = p /\ Len(t) \notin DOMAIN s
         /\ \A i \in DOMAIN s : i \in DOMAIN t /\ t[i] = s[i]
OBVIOUS

\* The file of every known log is a log.
LEMMA FileFacts ==
  ASSUME Types
  PROVE  /\ \A id \in DOMAIN files : files[id] \in Log /\ id \in Ids
         /\ \A id \in DOMAIN files : files[id].recs \in Seq(Pieces) /\ Len(files[id].recs) \in Nat
         /\ \A k \in Keys : tbl[k] \in Rec /\ tails[k] \in Rec /\ w[k] \in Writers /\ w[k].rec \in Rec
         /\ \A k \in InTable : tbl[k].log \in Ids /\ tbl[k].off \in Nat \ {0}
         /\ InTable \subseteq Keys /\ lfs \subseteq Ids /\ open \subseteq lfs
         /\ maxLog \in Nat
<1>1. \A id \in DOMAIN files : files[id] \in Log /\ id \in Ids
  BY DEF Types
<1>2. \A k \in Keys : tbl[k] \in Rec /\ tails[k] \in Rec /\ w[k] \in Writers /\ w[k].rec \in Rec
  BY DEF Types, Table, Writers
<1>3. maxLog \in Nat
  BY StoreAssumption DEF Types
<1> QED BY <1>1, <1>2, <1>3, LogFacts, RecFacts DEF Types, InTable

\* Closing logs syncs them and leaves the pieces alone.
LEMMA CloseLogsFacts ==
  ASSUME Types, NEW ids
  PROVE  /\ DOMAIN CloseLogs(ids) = DOMAIN files
         /\ CloseLogs(ids) \in [DOMAIN CloseLogs(ids) -> Log]
         /\ \A id \in DOMAIN files : CloseLogs(ids)[id].recs = files[id].recs
         /\ \A id \in DOMAIN files : id \notin ids => CloseLogs(ids)[id] = files[id]
<1>1. CloseLogs(ids) = [id \in DOMAIN files |-> IF id \in ids THEN Synced(files[id]) ELSE files[id]]
  BY DEF CloseLogs
<1>2. \A id \in DOMAIN files : (IF id \in ids THEN Synced(files[id]) ELSE files[id]) \in Log
  BY FileFacts, LogFacts
<1>3. \A id \in DOMAIN files : CloseLogs(ids)[id] = IF id \in ids THEN Synced(files[id]) ELSE files[id]
  BY <1>1
<1>4. DOMAIN CloseLogs(ids) = DOMAIN files
  BY <1>1
<1>5. CloseLogs(ids) \in [DOMAIN files -> Log]
  BY <1>1, <1>2
<1> QED BY <1>3, <1>4, <1>5, FileFacts, LogFacts

\* A log gets one more piece, or there is a new log with one piece; nothing is lost.
Grows(id, piece) ==
  LET recs == IF id \in DOMAIN files THEN files[id].recs ELSE <<>> IN
  /\ id \in Ids
  /\ id \in open \/ (id \notin DOMAIN files /\ id \notin lfs /\ maxLog < id)
  /\ DOMAIN files' = DOMAIN files \cup {id}
  /\ files' \in [DOMAIN files' -> Log]
  /\ \A i \in DOMAIN files : i # id => files'[i] = files[i]
  /\ files'[id].recs = Append(recs, piece)
  /\ lfs' = lfs \cup {id} /\ open' \subseteq open \cup {id}
  /\ maxLog' \in 0 .. MaxLogId /\ maxLog <= maxLog' /\ id <= maxLog'

\* What is at rec stays there when logs only grow.
LEMMA GrowsFacts ==
  ASSUME Types, FilesInv, NEW id, NEW piece \in Pieces, Grows(id, piece)
  PROVE  /\ id \in Ids /\ id \in DOMAIN files'
         /\ Len(files'[id].recs) \in Nat \ {0}
         /\ files'[id].recs[Len(files'[id].recs)] = piece
         /\ id \in DOMAIN files => Len(files'[id].recs) = Len(files[id].recs) + 1
         /\ \A rec, k : Holds(rec, k) => Holds(rec, k)' /\ ~(rec.log = id /\ rec.off = Len(files'[id].recs))
         /\ \A rec : rec.log = id /\ rec.off = Len(files'[id].recs) => Holds(rec, piece)'
<1> DEFINE recs == IF id \in DOMAIN files THEN files[id].recs ELSE <<>>
<1>1. /\ id \in Ids
      /\ DOMAIN files' = DOMAIN files \cup {id}
      /\ \A i \in DOMAIN files : i # id => files'[i] = files[i]
      /\ files'[id].recs = Append(recs, piece)
  BY DEF Grows, Types
<1>2. recs \in Seq(Pieces) /\ (id \in DOMAIN files => recs = files[id].recs)
  BY FileFacts
<1> HIDE DEF recs
<1> DEFINE t == files'[id].recs
<1>3. t = Append(recs, piece)
  BY <1>1
<1> HIDE DEF t
<1>4. /\ Len(t) = Len(recs) + 1 /\ Len(t) \in Nat \ {0} /\ Len(recs) \in Nat
      /\ Len(t) \in DOMAIN t /\ t[Len(t)] = piece /\ Len(t) \notin DOMAIN recs
      /\ \A i \in DOMAIN recs : i \in DOMAIN t /\ t[i] = recs[i]
  BY <1>2, <1>3, AppendFacts
<1>5. \A rec, k : Holds(rec, k) => Holds(rec, k)' /\ ~(rec.log = id /\ rec.off = Len(t))
  <2> TAKE rec, k
  <2> HAVE Holds(rec, k)
  <2>1. /\ rec.log \in DOMAIN files /\ rec.off \in DOMAIN files[rec.log].recs
        /\ files[rec.log].recs[rec.off] = k
    BY DEF Holds
  <2>2. CASE rec.log = id
    <3>1. rec.off \in DOMAIN recs /\ recs[rec.off] = k
      BY <1>2, <2>1, <2>2
    <3>2. rec.off \in DOMAIN t /\ t[rec.off] = k /\ rec.off # Len(t)
      BY <1>4, <3>1
    <3>3. files'[rec.log].recs = t
      BY <2>2 DEF t
    <3> QED BY <1>1, <2>1, <3>2, <3>3 DEF Holds
  <2>3. CASE rec.log # id
    BY <1>1, <2>1, <2>3 DEF Holds
  <2> QED BY <2>2, <2>3
<1>6. \A rec : rec.log = id /\ rec.off = Len(t) => Holds(rec, piece)'
  <2>1. files'[id].recs = t
    BY DEF t
  <2> QED BY <1>1, <1>4, <2>1 DEF Holds
<1>7. files'[id].recs = t
  BY DEF t
<1> QED BY <1>1, <1>2, <1>4, <1>5, <1>6, <1>7

\* A log that is not known is new.
LEMMA FreshLog ==
  ASSUME Types, FilesInv, mode = "up", NEW id \in Ids, id = maxLog + 1
  PROVE  id \notin DOMAIN files /\ id \notin lfs /\ maxLog < id /\ id \notin open /\ id \in 0 .. MaxLogId
<1>1. \A i \in DOMAIN files \cup lfs : i <= maxLog
  BY DEF FilesInv
<1>2. \A n \in Nat : ~(n + 1 <= n) /\ n < n + 1
  OBVIOUS
<1> QED BY <1>1, <1>2, FileFacts, IdleTypes

\* A writer appends to an open log that nobody has acquired, or to a new one, and has not
\* synced it yet.
LEMMA AppendToGrows ==
  ASSUME Types, FilesInv, mode = "up", comp.rm = {}, NEW id \in Ids, NEW piece \in Pieces, NEW avoid,
         AppendTo(id, piece, avoid)
  PROVE  /\ Grows(id, piece) /\ open' = open \cup {id} /\ (id \in open => id \notin avoid)
         /\ files'[id].synced < Len(files'[id].recs)
<1>1. \A i \in lfs : i \in DOMAIN files /\ i <= maxLog
  BY DEF FilesInv
<1>2. CASE /\ id \in open \ avoid
           /\ files' = [files EXCEPT ![id] = Appended(@, piece)]
           /\ UNCHANGED <<lfs, open, maxLog>>
  <2>1. id \in DOMAIN files /\ id \in lfs /\ files[id] \in Log /\ id <= maxLog
    BY <1>1, <1>2, FileFacts
  <2>2. files' = [files EXCEPT ![id] = Appended(files[id], piece)]
    BY <1>2
  <2>3. files' \in [DOMAIN files -> Log]
    BY <2>1, <2>2, LogFacts DEF Types
  <2>4. files'[id].recs = Append(files[id].recs, piece)
    BY <2>1, <2>2, LogFacts
  <2>5. DOMAIN files' = DOMAIN files \cup {id} /\ \A i \in DOMAIN files : i # id => files'[i] = files[i]
    BY <2>1, <2>2
  <2>6. maxLog \in 0 .. MaxLogId /\ maxLog <= maxLog
    BY FileFacts DEF Types
  <2>7. files'[id].synced < Len(files'[id].recs)
    <3>1. /\ files'[id].synced = files[id].synced /\ files[id].synced <= Len(files[id].recs)
          /\ files[id].synced \in Nat /\ files[id].recs \in Seq(Pieces)
      BY <2>1, <2>2, LogFacts
    <3>2. Len(files'[id].recs) = Len(files[id].recs) + 1 /\ Len(files[id].recs) \in Nat
      BY <2>4, <3>1, AppendFacts
    <3> QED BY <3>1, <3>2
  <2> QED BY <1>2, <2>1, <2>3, <2>4, <2>5, <2>6, <2>7 DEF Grows
<1>3. CASE /\ id = maxLog + 1
           /\ files' = [i \in DOMAIN files \cup {id} |->
                          IF i = id THEN Appended(NewLog, piece) ELSE files[i]]
           /\ lfs' = lfs \cup {id}
           /\ open' = open \cup {id}
           /\ maxLog' = id
  <2>1. id \notin DOMAIN files /\ id \notin lfs /\ maxLog < id /\ id \notin open /\ id \in 0 .. MaxLogId
    BY <1>3, FreshLog
  <2>2. \A i \in DOMAIN files \cup {id} : (IF i = id THEN Appended(NewLog, piece) ELSE files[i]) \in Log
    BY FileFacts, LogFacts
  <2>3. files' \in [DOMAIN files \cup {id} -> Log] /\ DOMAIN files' = DOMAIN files \cup {id}
    BY <1>3, <2>2
  <2>4. files'[id].recs = Append(<<>>, piece) /\ \A i \in DOMAIN files : i # id => files'[i] = files[i]
    <3>1. Appended(NewLog, piece).recs = Append(<<>>, piece)
      BY LogFacts
    <3> QED BY <1>3, <2>1, <3>1
  <2>5. maxLog <= id /\ id <= id
    BY <2>1, FileFacts, IdleTypes
  <2>6. files'[id].synced < Len(files'[id].recs)
    <3>1. <<>> \in Seq(Pieces) /\ Len(<<>>) = 0
      OBVIOUS
    <3>2. Len(files'[id].recs) = 0 + 1
      BY <2>4, <3>1, AppendFacts
    <3>3. files'[id].synced = 0
      BY <1>3, LogFacts
    <3> QED BY <3>2, <3>3
  <2> QED BY <1>3, <2>1, <2>3, <2>4, <2>5, <2>6 DEF Grows
<1> QED BY <1>2, <1>3 DEF AppendTo

\* A rewrite copies to another log, which is no candidate, and closes it if it is full.
LEMMA RewriteGrows ==
  ASSUME Types, FilesInv, CompInv, NEW k \in Keys, RewriteRecord(k)
  PROVE  \E id \in Ids, piece \in Pieces :
           /\ Grows(id, piece) /\ id \notin comp.cand /\ id # tbl[k].log
           /\ open \subseteq open' \cup {id}
           /\ id \in open' \/ Whole(files'[id])
           /\ Full(files'[id]) => Whole(files'[id])
           /\ tbl[k].log \in lfs /\ tbl[k].off \in DOMAIN files[tbl[k].log].recs
           /\ piece = files[tbl[k].log].recs[tbl[k].off]
           /\ comp' = [comp EXCEPT !.pending = @ \ {k},
                                   !.new[k] = [log |-> id, off |-> Len(files'[id].recs)]]
<1> DEFINE piece == files[tbl[k].log].recs[tbl[k].off]
           grown(id) == Appended(IF id \in DOMAIN files THEN files[id] ELSE NewLog, piece)
           known(id) == id \in open \ (comp.cand \cup {tbl[k].log})
           fresh(id) == id = maxLog + 1
           last(id) == [log |-> id, off |-> Len(grown(id).recs)]
<1>1. PICK id \in Ids :
        /\ known(id) \/ fresh(id)
        /\ files' = [i \in DOMAIN files \cup {id} |->
                       IF i # id THEN files[i] ELSE IF Full(grown(id)) THEN Synced(grown(id)) ELSE grown(id)]
        /\ lfs' = lfs \cup {id}
        /\ open' = IF Full(grown(id)) THEN open \ {id} ELSE open \cup {id}
        /\ maxLog' = IF fresh(id) THEN id ELSE maxLog
        /\ comp' = [comp EXCEPT !.pending = @ \ {k}, !.new[k] = last(id)]
  BY DEF RewriteRecord
<1>2. /\ comp.st = "rewrite" /\ tbl[k].log \in lfs /\ tbl[k].off <= Len(files[tbl[k].log].recs)
  BY DEF RewriteRecord
<1>3. /\ mode = "up" /\ comp.rm = {} /\ comp.cand \subseteq lfs
  BY <1>2 DEF CompInv
<1>4. \A i \in lfs : i \in DOMAIN files /\ i <= maxLog
  BY <1>3 DEF FilesInv
<1>5. tbl[k].off \in DOMAIN files[tbl[k].log].recs /\ piece \in Pieces
  <2>1. tbl[k].log \in DOMAIN files /\ tbl[k].log \in Ids
    BY <1>2, <1>4, FileFacts
  <2>2. tbl[k].off \in Nat \ {0}
    BY <2>1, RecFacts, FileFacts
  <2>3. \A n \in Nat \ {0}, m \in Nat : n <= m => n \in 1 .. m
    OBVIOUS
  <2>4. /\ files[tbl[k].log].recs \in Seq(Pieces) /\ Len(files[tbl[k].log].recs) \in Nat
        /\ DOMAIN files[tbl[k].log].recs = 1 .. Len(files[tbl[k].log].recs)
    BY <2>1, FileFacts, LogFacts
  <2>5. tbl[k].off \in DOMAIN files[tbl[k].log].recs
    BY <1>2, <2>2, <2>3, <2>4
  <2> QED BY <2>4, <2>5
<1> HIDE DEF piece
<1> DEFINE recs == IF id \in DOMAIN files THEN files[id].recs ELSE <<>>
           g == grown(id)
<1>6. g \in Log /\ g.recs = Append(recs, piece) /\ Synced(g) \in Log /\ Synced(g).recs = g.recs
  BY <1>5, FileFacts, LogFacts
<1>7. \/ id \in open /\ id \notin comp.cand /\ id \in DOMAIN files /\ id <= maxLog /\ ~fresh(id)
      \/ fresh(id) /\ id \notin DOMAIN files /\ id \notin lfs /\ maxLog < id /\ id \notin comp.cand
         /\ id \in 0 .. MaxLogId
  <2>1. CASE known(id)
    <3>1. id \in lfs /\ id <= maxLog /\ id \in DOMAIN files
      BY <1>4, <2>1, FileFacts
    <3>2. \A n \in Nat : ~(n + 1 <= n)
      OBVIOUS
    <3> QED BY <2>1, <3>1, <3>2, FileFacts
  <2>2. CASE fresh(id)
    BY <1>3, <2>2, FreshLog
  <2> QED BY <1>1, <2>1, <2>2
<1> DEFINE put == IF Full(g) THEN Synced(g) ELSE g
<1>8. put \in Log /\ put.recs = Append(recs, piece) /\ put.recs = g.recs
  BY <1>6
<1>9. /\ files' = [i \in DOMAIN files \cup {id} |-> IF i # id THEN files[i] ELSE put]
      /\ open' \subseteq open \cup {id}
      /\ comp' = [comp EXCEPT !.pending = @ \ {k}, !.new[k] = [log |-> id, off |-> Len(g.recs)]]
  BY <1>1
<1> HIDE DEF g, put, recs
<1>10. files'[id] = put /\ \A i \in DOMAIN files : i # id => files'[i] = files[i]
  BY <1>9
<1>11. DOMAIN files' = DOMAIN files \cup {id} /\ files' \in [DOMAIN files' -> Log]
  <2>1. \A i \in DOMAIN files \cup {id} : (IF i # id THEN files[i] ELSE put) \in Log
    BY <1>8, FileFacts
  <2> QED BY <1>9, <2>1
<1>12. maxLog' \in 0 .. MaxLogId /\ maxLog <= maxLog' /\ id <= maxLog'
  <2>1. maxLog <= maxLog /\ maxLog \in 0 .. MaxLogId
    BY FileFacts DEF Types
  <2>2. id <= id
    BY IdleTypes
  <2>3. fresh(id) => maxLog <= id
    BY FileFacts
  <2> HIDE DEF fresh
  <2>4. maxLog' = IF fresh(id) THEN id ELSE maxLog
    BY <1>1
  <2> QED BY <1>7, <2>1, <2>2, <2>3, <2>4
<1>13. Grows(id, piece)
  <2>1. id \in open \/ (id \notin DOMAIN files /\ id \notin lfs /\ maxLog < id)
    BY <1>7
  <2> QED BY <1>1, <1>8, <1>9, <1>10, <1>11, <1>12, <2>1 DEF Grows, recs
<1>14. Len(g.recs) = Len(files'[id].recs)
  BY <1>8, <1>10
<1>15. comp' = [comp EXCEPT !.pending = @ \ {k}, !.new[k] = [log |-> id, off |-> Len(files'[id].recs)]]
  BY <1>9, <1>14
<1>16. id \notin comp.cand /\ id # tbl[k].log
  <2>1. tbl[k].log \in DOMAIN files
    BY <1>2, <1>4
  <2> QED BY <1>1, <1>7, <2>1
<1>17. Full(files'[id]) => Whole(files'[id])
  <2>1. Full(put) => Full(g)
    BY <1>8 DEF Full
  <2>2. Whole(Synced(g))
    BY <1>6 DEF Whole, Synced, Log
  <2> QED BY <1>10, <2>1, <2>2 DEF put
<1>18. open \subseteq open' \cup {id} /\ (id \in open' \/ Whole(files'[id]))
  <2>1. open' = IF Full(g) THEN open \ {id} ELSE open \cup {id}
    BY <1>1 DEF g
  <2>2. Full(g) => Full(files'[id])
    BY <1>8, <1>10 DEF Full
  <2> QED BY <1>17, <2>1, <2>2
<1> QED BY <1>2, <1>5, <1>13, <1>15, <1>16, <1>17, <1>18 DEF piece

\* The state of the compaction changes field by field.
LEMMA CompFields ==
  ASSUME NEW c \in Comps
  PROVE  /\ c.st \in {"idle", "unlink", "rewrite", "finish"} /\ c.exp \subseteq Keys /\ c.cand \subseteq Ids
         /\ c.rewrite \subseteq Ids /\ c.rm \subseteq Ids /\ c.new \in Table /\ c.pending \subseteq Keys
BY DEF Comps

\* CompactBegin sets the compaction up.
LEMMA CompBegins ==
  ASSUME NEW exp \in SUBSET Keys, NEW rm \in SUBSET Ids
  PROVE  LET d == [NoComp EXCEPT !.st = "unlink", !.exp = exp, !.rm = rm] IN
         d \in Comps /\ d.st = "unlink" /\ d.exp = exp /\ d.rm = rm
<1>1. [k \in Keys |-> NoRec] \in Table
  BY IdleTypes
<1> QED BY <1>1 DEF NoComp, Comps

\* CompactRemove takes a log from those to be removed.
LEMMA CompRemoves ==
  ASSUME NEW c \in Comps, NEW id
  PROVE  LET d == [c EXCEPT !.rm = @ \ {id}] IN
         /\ d \in Comps /\ d.st = c.st /\ d.exp = c.exp /\ d.cand = c.cand /\ d.rewrite = c.rewrite
         /\ d.rm = c.rm \ {id} /\ d.new = c.new /\ d.pending = c.pending
BY DEF Comps

\* RewriteRecord changes one record of the new table.
LEMMA CompCopies ==
  ASSUME NEW c \in Comps, NEW k \in Keys, NEW r \in Rec
  PROVE  LET d == [c EXCEPT !.pending = @ \ {k}, !.new[k] = r] IN
         /\ d \in Comps /\ d.st = c.st /\ d.exp = c.exp /\ d.cand = c.cand /\ d.rewrite = c.rewrite
         /\ d.rm = c.rm /\ d.new = [c.new EXCEPT ![k] = r] /\ d.pending = c.pending \ {k}
<1>1. c.new \in Table /\ [c.new EXCEPT ![k] = r] \in Table
  BY DEF Comps, Table
<1> QED BY <1>1 DEF Comps

\* CompactCommit leaves the rewritten logs to be removed.
LEMMA CompFinishes ==
  ASSUME NEW c \in Comps, NEW rm \in SUBSET Ids
  PROVE  LET d == [c EXCEPT !.st = "finish", !.rm = rm] IN
         /\ d \in Comps /\ d.st = "finish" /\ d.exp = c.exp /\ d.rm = rm
BY DEF Comps

\* A writer that has appended its piece, and one whose record is inserted.
LEMMA WriterFields ==
  /\ \A wr \in Writers : wr.st \in {"idle", "appended", "inserted"} /\ wr.rec \in Rec
  /\ \A r \in Rec : LET wr == [st |-> "appended", rec |-> r] IN
                     wr \in Writers /\ wr.st = "appended" /\ wr.rec = r
  /\ \A wr \in Writers : LET new == [wr EXCEPT !.st = "inserted"] IN
                         new \in Writers /\ new.st = "inserted" /\ new.rec = wr.rec
BY DEF Writers

\* What is left of a log after a failed write.
LEMMA TruncatedFacts ==
  ASSUME NEW log \in Log, NEW recs, log.synced < Len(log.recs),
         recs \in {SubSeq(log.recs, 1, Len(log.recs) - 1), log.recs, [log.recs EXCEPT ![Len(log.recs)] = Bad]}
  PROVE  /\ [log EXCEPT !.recs = recs] \in Log /\ [log EXCEPT !.recs = recs].recs = recs
         /\ \A i \in DOMAIN log.recs : i # Len(log.recs) => i \in DOMAIN recs /\ recs[i] = log.recs[i]
<1> DEFINE s == log.recs
           n == Len(s)
<1>1. s \in Seq(Pieces) /\ n \in Nat /\ log.synced \in Nat /\ log.synced < n /\ DOMAIN s = 1 .. n
  BY LogFacts
<1>2. n - 1 \in Nat /\ log.synced <= n - 1 /\ log.synced <= n
  BY <1>1
<1>3. recs \in {SubSeq(s, 1, n - 1), s, [s EXCEPT ![n] = Bad]}
  OBVIOUS
<1>4. Bad \in Pieces
  BY DEF Pieces
<1> HIDE DEF s, n
<1>5. /\ recs \in Seq(Pieces) /\ log.synced <= Len(recs)
      /\ \A i \in DOMAIN s : i # n => i \in DOMAIN recs /\ recs[i] = s[i]
  <2>1. CASE recs = SubSeq(s, 1, n - 1)
    <3>1. n = Len(s)
      BY DEF n
    <3>2. recs \in Seq(Pieces) /\ Len(recs) = n - 1 /\ \A i \in 1 .. n - 1 : recs[i] = s[i]
      BY <1>1, <1>2, <2>1, <3>1
    <3>3. DOMAIN recs = 1 .. n - 1
      BY <3>2
    <3>4. \A i \in 1 .. n : i # n => i \in 1 .. n - 1
      BY <1>1
    <3> QED BY <1>1, <1>2, <3>2, <3>3, <3>4
  <2>2. CASE recs = s
    BY <1>1, <1>2, <2>2 DEF n
  <2>3. CASE recs = [s EXCEPT ![n] = Bad]
    <3>1. recs \in Seq(Pieces) /\ Len(recs) = Len(s) /\ DOMAIN recs = DOMAIN s
      BY <1>1, <1>4, <2>3
    <3> QED BY <1>1, <1>2, <2>3, <3>1 DEF n
  <2> QED BY <1>3, <2>1, <2>2, <2>3
<1>6. [log EXCEPT !.recs = recs] \in Log /\ [log EXCEPT !.recs = recs].recs = recs
  BY <1>5 DEF Log
<1> QED BY <1>5, <1>6 DEF s, n

-----------------------------------------------------------------------------
(***************************************************************************)
(* What an open and a crash leave.                                         *)
(***************************************************************************)

\* A set of numbers below a bound has a greatest one, which Max returns.
LEMMA MaxFacts ==
  ASSUME NEW N \in Nat, NEW S, S \subseteq 0 .. N, S # {}
  PROVE  Max(S) \in S /\ \A n \in S : n <= Max(S)
<1> DEFINE R == OpToRel(<, Nat)
           T == {N - n : n \in S}
<1>1. IsWellFoundedOn(R, Nat)
  BY NatLessThanWellFounded
<1>2. \A x, y \in Nat : x < y => <<x, y>> \in R
  BY DEF OpToRel
<1> HIDE DEF R
<1>3. \A n \in S : n \in Nat /\ n <= N
  OBVIOUS
<1>4. T \subseteq Nat /\ T # {}
  <2>1. \A n \in Nat : n <= N => N - n \in Nat
    OBVIOUS
  <2>2. T \subseteq Nat
    BY <1>3, <2>1
  <2> QED BY <2>2
<1>5. PICK t \in T : \A u \in T : ~(<<u, t>> \in R)
  BY <1>1, <1>4, WFMin
<1>6. \A u \in T : ~(u < t)
  BY <1>2, <1>4, <1>5
<1>7. PICK m \in S : t = N - m
  BY <1>5
<1>8. \A n \in S : ~(N - n < N - m)
  BY <1>6, <1>7
<1>9. \A n, k \in Nat : ~(N - n < N - k) => k >= n
  OBVIOUS
<1>10. \E x \in S : \A y \in S : x >= y
  BY <1>3, <1>7, <1>8, <1>9
<1>11. Max(S) \in S /\ \A y \in S : Max(S) >= y
  BY <1>10 DEF Max
<1>12. \A n, k \in Nat : k >= n => n <= k
  OBVIOUS
<1> QED BY <1>3, <1>11, <1>12

\* The largest of log ids is a log id.
LEMMA MaxLogs ==
  ASSUME NEW n \in 0 .. MaxLogId, NEW ids \in SUBSET Ids
  PROVE  /\ Max({n} \cup ids) \in 0 .. MaxLogId /\ n <= Max({n} \cup ids)
         /\ \A id \in ids : id <= Max({n} \cup ids)
<1> DEFINE S == {n} \cup ids
<1>1. S \subseteq 0 .. MaxLogId /\ S # {} /\ MaxLogId \in Nat
  BY IdleTypes, StoreAssumption
<1>2. Max(S) \in S /\ \A m \in S : m <= Max(S)
  BY <1>1, MaxFacts
<1> QED BY <1>1, <1>2

\* What reconcileLog makes of a record: it stays, or goes as the log does not have the
\* piece, or is the place of the piece in the log.
LEMMA ReconciledFacts ==
  ASSUME Types, NEW id \in Ids, NEW recs \in Seq(Pieces)
  PROVE  /\ Reconciled(id, recs) \in Table
         /\ \A k \in Keys :
              \/ k \in Invalid(id, recs)
              \/ Reconciled(id, recs)[k] = tbl[k]
              \/ /\ Reconciled(id, recs)[k] # NoRec /\ Reconciled(id, recs)[k].log = id
                 /\ Reconciled(id, recs)[k].off \in DOMAIN recs /\ recs[Reconciled(id, recs)[k].off] = k
<1> DEFINE S(k) == {i \in DOMAIN recs : recs[i] = k}
           at(k) == [log |-> id, off |-> Max(S(k))]
<1>1. ASSUME NEW k \in Missing(id, recs)
      PROVE  /\ at(k) \in Rec /\ at(k) # NoRec /\ at(k).log = id
             /\ at(k).off \in DOMAIN recs /\ recs[at(k).off] = k
  <2>1. S(k) # {}
    BY <1>1 DEF Missing, InLog
  <2>2. Len(recs) \in Nat /\ S(k) \subseteq 0 .. Len(recs)
    OBVIOUS
  <2>3. Max(S(k)) \in S(k)
    BY <2>1, <2>2, MaxFacts
  <2>4. Max(S(k)) \in DOMAIN recs /\ recs[Max(S(k))] = k /\ Max(S(k)) \in Nat \ {0}
    BY <2>3
  <2> HIDE DEF S
  <2>5. at(k) \in Rec /\ at(k) # NoRec /\ at(k).log = id /\ at(k).off = Max(S(k))
    BY <2>4, RecFacts
  <2> QED BY <2>4, <2>5
<1>2. Inserted(id, recs) = [k \in Keys |-> IF k \in Missing(id, recs) THEN at(k) ELSE tbl[k]]
  BY DEF Inserted
<1> HIDE DEF at
<1>3. \A k \in Keys : Inserted(id, recs)[k] = IF k \in Missing(id, recs) THEN at(k) ELSE tbl[k]
  BY <1>2
<1>4. \A k \in Keys :
        Reconciled(id, recs)[k] = IF k \in Invalid(id, recs) THEN NoRec ELSE Inserted(id, recs)[k]
  BY DEF Reconciled
<1>5. \A k \in Keys : Reconciled(id, recs)[k] \in Rec
  BY <1>1, <1>3, <1>4, FileFacts, IdleTypes
<1>6. Reconciled(id, recs) = [k \in Keys |-> Reconciled(id, recs)[k]]
  BY DEF Reconciled
<1>7. Reconciled(id, recs) \in Table
  BY <1>5, <1>6 DEF Table
<1> QED BY <1>1, <1>3, <1>4, <1>7

\* What can be left of a log is a log.
LEMMA RemainsFacts ==
  ASSUME NEW log \in Log, NEW rest \in Remains(log)
  PROVE  rest \in Log
<1>1. log.recs \in Seq(Pieces) /\ Len(log.recs) \in Nat /\ log.synced \in Nat /\ Bad \in Pieces
  BY LogFacts DEF Pieces
<1>2. PICK r : /\ rest = [recs |-> r, synced |-> Len(r)]
               /\ \E n \in log.synced .. Len(log.recs) :
                    \/ r = SubSeq(log.recs, 1, n)
                    \/ r = [i \in DOMAIN log.recs |-> IF i <= n THEN log.recs[i] ELSE Bad]
  BY DEF Remains
<1>3. r \in Seq(Pieces)
  <2>1. PICK n \in log.synced .. Len(log.recs) :
          \/ r = SubSeq(log.recs, 1, n)
          \/ r = [i \in DOMAIN log.recs |-> IF i <= n THEN log.recs[i] ELSE Bad]
    BY <1>2
  <2>2. CASE r = SubSeq(log.recs, 1, n)
    BY <1>1, <2>2
  <2>3. CASE r = [i \in DOMAIN log.recs |-> IF i <= n THEN log.recs[i] ELSE Bad]
    <3>1. DOMAIN log.recs = 1 .. Len(log.recs)
      BY <1>1
    <3>2. \A i \in 1 .. Len(log.recs) : (IF i <= n THEN log.recs[i] ELSE Bad) \in Pieces
      BY <1>1
    <3>3. r \in [1 .. Len(log.recs) -> Pieces]
      BY <2>3, <3>1, <3>2
    <3> QED BY <1>1, <3>3
  <2> QED BY <2>1, <2>2, <2>3
<1>4. Len(r) \in Nat /\ Len(r) <= Len(r)
  BY <1>3
<1> QED BY <1>2, <1>3, <1>4 DEF Log

\* What is left of the log files and of the table when the machine stops.
LEMMA CrashLeft ==
  ASSUME Types, PowerLoss, Crash
  PROVE  /\ files' = [id \in DOMAIN files' |-> files'[id]]
         /\ \A id \in DOMAIN files' : id \in DOMAIN files /\ files'[id] \in Remains(files[id])
         /\ \A id \in DOMAIN files : id \in DOMAIN files' \/ files[id].synced = 0
         /\ tblSynced' = tbl' /\ \A k \in Keys : tbl'[k] \in {tbl[k], tblSynced[k]}
<1> DEFINE Left == [DOMAIN files -> UNION {Remains(files[id]) : id \in DOMAIN files}]
           All == {g \in Left : \A id \in DOMAIN files : g[id] \in Remains(files[id])}
           Unsynced == {id \in DOMAIN files : files[id].synced = 0}
           Without(f, lost) == [id \in DOMAIN f \ lost |-> f[id]]
<1>1. files' \in CrashedFiles /\ tbl' \in CrashedTables /\ tblSynced' = tbl'
  BY DEF Crash
<1>2. PICK f \in All, lost \in SUBSET Unsynced : files' = Without(f, lost)
  <2>1. CrashedFiles = {Without(f, lost) : f \in All, lost \in SUBSET Unsynced}
    BY DEF CrashedFiles
  <2> HIDE DEF All, Unsynced, Without
  <2> QED BY <1>1, <2>1
<1>3. /\ \A id \in DOMAIN files : f[id] \in Remains(files[id])
      /\ DOMAIN f = DOMAIN files
  BY <1>2
<1>4. PICK stale : tbl' = [k \in Keys |-> IF k \in stale THEN tblSynced[k] ELSE tbl[k]]
  BY <1>1 DEF CrashedTables
<1> QED BY <1>1, <1>2, <1>3, <1>4

\* A crash leaves log files and a table, or keeps them as they are.
LEMMA CrashFacts ==
  ASSUME Types, Crash
  PROVE  /\ files' \in [DOMAIN files' -> Log] /\ DOMAIN files' \subseteq DOMAIN files
         /\ tbl' \in Table /\ tblSynced' \in Table
         /\ ~PowerLoss => files' = files /\ tbl' = tbl
<1>1. CASE ~PowerLoss /\ UNCHANGED <<files, tbl, tblSynced>>
  BY <1>1 DEF Types
<1>2. CASE PowerLoss /\ files' \in CrashedFiles /\ tbl' \in CrashedTables /\ tblSynced' = tbl'
  <2>1. \A id \in DOMAIN files' : id \in DOMAIN files /\ files'[id] \in Log
    BY <1>2, CrashLeft, FileFacts, RemainsFacts
  <2>2. files' = [id \in DOMAIN files' |-> files'[id]]
    BY <1>2, CrashLeft
  <2>3. tbl' \in Table
    <3>1. PICK stale : tbl' = [k \in Keys |-> IF k \in stale THEN tblSynced[k] ELSE tbl[k]]
      BY <1>2 DEF CrashedTables
    <3> QED BY <3>1 DEF Types, Table
  <2> QED BY <1>2, <2>1, <2>2, <2>3
<1> QED BY <1>1, <1>2 DEF Crash

-----------------------------------------------------------------------------
(***************************************************************************)
(* Types.                                                                  *)
(***************************************************************************)

\* Only an open store whose compaction is idle writes pieces, and it knows all its logs.
LEMMA WriteLogGrows ==
  ASSUME Types, FilesInv, CompInv, NEW k \in Keys, WriteLog(k)
  PROVE  /\ mode = "up" /\ comp.st = "idle" /\ comp.rm = {} /\ k \in Pieces
         /\ w[k].st = "idle"
         /\ \E id \in Ids :
              /\ Grows(id, k) /\ open' = open \cup {id}
              /\ id \notin open \/ id \notin Acquired
              /\ files'[id].synced < Len(files'[id].recs)
              /\ w' = [w EXCEPT ![k] = [st |-> "appended",
                                        rec |-> [log |-> id, off |-> Len(files'[id].recs)]]]
              /\ [log |-> id, off |-> Len(files'[id].recs)] \in Rec
<1>1. mode = "up" /\ comp.st = "idle" /\ comp.rm = {} /\ k \in Pieces /\ w[k].st = "idle"
  BY IdleTypes DEF WriteLog, CompInv, Pieces
<1>2. PICK id \in Ids :
        /\ AppendTo(id, k, Acquired)
        /\ w' = [w EXCEPT ![k] = [st |-> "appended",
                                  rec |-> [log |-> id, off |-> Len(files'[id].recs)]]]
  BY DEF WriteLog
<1>3. /\ Grows(id, k) /\ open' = open \cup {id} /\ (id \in open => id \notin Acquired)
      /\ files'[id].synced < Len(files'[id].recs)
  BY <1>1, <1>2, AppendToGrows
<1>4. Len(files'[id].recs) \in Nat \ {0}
  BY <1>1, <1>3, GrowsFacts
<1>5. [log |-> id, off |-> Len(files'[id].recs)] \in Rec
  BY <1>4, RecFacts
<1> QED BY <1>1, <1>2, <1>3, <1>5

\* A failed write leaves the pieces before its own.
LEMMA WriteFailedFacts ==
  ASSUME Types, FilesInv, WriterInv, NEW k \in Keys, WriteFailed(k)
  PROVE  LET id == w[k].rec.log IN
         /\ w[k].st = "appended" /\ id \in lfs /\ id \in DOMAIN files
         /\ DOMAIN files' = DOMAIN files /\ files' \in [DOMAIN files' -> Log]
         /\ \A i \in DOMAIN files : i # id => files'[i] = files[i]
         /\ \A i \in DOMAIN files[id].recs : i # w[k].rec.off
              => i \in DOMAIN files'[id].recs /\ files'[id].recs[i] = files[id].recs[i]
<1> DEFINE id == w[k].rec.log
           off == w[k].rec.off
<1>1. PICK recs \in {SubSeq(files[id].recs, 1, off - 1), files[id].recs,
                     [files[id].recs EXCEPT ![off] = Bad]} :
        files' = [files EXCEPT ![id].recs = recs]
  BY DEF WriteFailed
<1>2. w[k].st = "appended"
  BY DEF WriteFailed
<1>3. /\ id \in lfs /\ off = Len(files[id].recs) /\ files[id].synced < off /\ mode = "up"
  BY <1>2 DEF WriterInv, Owns
<1>4. id \in DOMAIN files /\ files[id] \in Log
  BY <1>3, FileFacts DEF FilesInv
<1> HIDE DEF id, off
<1> DEFINE log == files[id]
           rest == [log EXCEPT !.recs = recs]
<1>5. recs \in {SubSeq(log.recs, 1, Len(log.recs) - 1), log.recs, [log.recs EXCEPT ![Len(log.recs)] = Bad]}
  BY <1>1, <1>3
<1>6. log \in Log /\ log.synced < Len(log.recs)
  BY <1>3, <1>4
<1>7. files' = [files EXCEPT ![id] = rest]
  BY <1>1
<1> HIDE DEF log
<1>8. /\ rest \in Log /\ rest.recs = recs
      /\ \A i \in DOMAIN log.recs : i # Len(log.recs) => i \in DOMAIN recs /\ recs[i] = log.recs[i]
  BY <1>5, <1>6, TruncatedFacts
<1> HIDE DEF rest
<1>9. /\ DOMAIN files' = DOMAIN files /\ files'[id] = rest
      /\ \A i \in DOMAIN files : i # id => files'[i] = files[i]
  BY <1>4, <1>7
<1>10. files' \in [DOMAIN files -> Log]
  BY <1>7, <1>8 DEF Types
<1> QED BY <1>2, <1>3, <1>4, <1>8, <1>9, <1>10 DEF id, off, log

\* The steps of writers.
LEMMA WriterTypes ==
  ASSUME Types, FilesInv, WriterInv, CompInv, NEW k \in Keys,
         WriteLog(k) \/ WriteFailed(k) \/ AddRecord(k) \/ FinishWrite(k) \/ Expire(k)
  PROVE  Types'
<1>1. CASE WriteLog(k)
  <2>1. PICK id \in Ids :
          /\ Grows(id, k) /\ open' = open \cup {id}
          /\ w' = [w EXCEPT ![k] = [st |-> "appended", rec |-> [log |-> id, off |-> Len(files'[id].recs)]]]
          /\ [log |-> id, off |-> Len(files'[id].recs)] \in Rec
    BY <1>1, WriteLogGrows
  <2>2. w' \in [Keys -> Writers]
    BY <2>1, WriterFields DEF Types
  <2>3. /\ files' \in [DOMAIN files' -> Log] /\ DOMAIN files' \subseteq Ids
        /\ lfs' \subseteq Ids /\ open' \subseteq lfs' /\ maxLog' \in 0 .. MaxLogId
    BY <2>1 DEF Grows, Types
  <2> QED BY <1>1, <2>2, <2>3 DEF WriteLog, Types, ghost
<1>2. CASE WriteFailed(k)
  <2>1. w' \in [Keys -> Writers]
    BY <1>2, IdleTypes DEF WriteFailed, Types
  <2>2. DOMAIN files' = DOMAIN files /\ files' \in [DOMAIN files' -> Log]
    BY <1>2, WriteFailedFacts
  <2> QED BY <1>2, <2>1, <2>2 DEF WriteFailed, Types, ghost
<1>3. CASE AddRecord(k)
  <2>1. w' \in [Keys -> Writers] /\ tbl' \in Table
    BY <1>3, FileFacts, WriterFields DEF AddRecord, Types, Table
  <2> QED BY <1>3, <2>1 DEF AddRecord, Types, ghost
<1>4. CASE FinishWrite(k)
  <2>1. w' \in [Keys -> Writers] /\ tblSynced' \in Table /\ open' \subseteq lfs
    BY <1>4, IdleTypes DEF FinishWrite, Types
  <2>2. DOMAIN files' = DOMAIN files /\ files' \in [DOMAIN files' -> Log]
    BY <1>4, CloseLogsFacts DEF FinishWrite, Types
  <2> QED BY <1>4, <2>1, <2>2 DEF FinishWrite, Types, ghost
<1>5. CASE Expire(k)
  BY <1>5 DEF Expire, Types, disk
<1> QED BY <1>1, <1>2, <1>3, <1>4, <1>5

\* What CompactSelect chooses, and the table it starts.
LEMMA SelectFacts ==
  ASSUME Types, CompactSelect
  PROVE  /\ comp.st = "unlink" /\ comp.rm = {} /\ comp' \in Comps /\ comp'.st = "rewrite"
         /\ comp'.exp = comp.exp /\ comp'.rm = {}
         /\ comp'.rewrite \subseteq comp'.cand /\ comp'.cand \subseteq lfs
         /\ \A k \in Keys : comp'.new[k] = IF k \in Kept THEN tbl[k] ELSE NoRec
         /\ comp'.pending = {k \in Kept : tbl[k].log \in comp'.rewrite}
<1>0. comp \in Comps /\ comp.st = "unlink" /\ comp.rm = {}
  BY DEF Types, CompactSelect
<1>1. PICK cand \in CandidateSets : \E rewrite \in SUBSET cand :
        comp' = [comp EXCEPT !.st = "rewrite", !.cand = cand, !.rewrite = rewrite,
                             !.new = [k \in Keys |-> IF k \in Kept THEN tbl[k] ELSE NoRec],
                             !.pending = {k \in Kept : tbl[k].log \in rewrite}]
  BY DEF CompactSelect
<1>2. PICK rewrite \in SUBSET cand :
        comp' = [comp EXCEPT !.st = "rewrite", !.cand = cand, !.rewrite = rewrite,
                             !.new = [k \in Keys |-> IF k \in Kept THEN tbl[k] ELSE NoRec],
                             !.pending = {k \in Kept : tbl[k].log \in rewrite}]
  BY <1>1
<1>3. cand \subseteq lfs /\ cand \in SUBSET Ids /\ rewrite \in SUBSET Ids
  BY <1>2 DEF CandidateSets, Types
<1> DEFINE new == [k \in Keys |-> IF k \in Kept THEN tbl[k] ELSE NoRec]
           pending == {k \in Kept : tbl[k].log \in rewrite}
<1>4. new \in Table
  BY FileFacts, IdleTypes DEF Table
<1>5. pending \in SUBSET Keys
  BY DEF Kept, InTable
<1>6. \A k \in Keys : new[k] = IF k \in Kept THEN tbl[k] ELSE NoRec
  OBVIOUS
<1> HIDE DEF new, pending
<1>7. comp' = [comp EXCEPT !.st = "rewrite", !.cand = cand, !.rewrite = rewrite, !.new = new,
                           !.pending = pending]
  BY <1>2 DEF new, pending
<1>8. /\ comp' \in Comps /\ comp'.st = "rewrite" /\ comp'.exp = comp.exp /\ comp'.cand = cand
      /\ comp'.rewrite = rewrite /\ comp'.rm = comp.rm /\ comp'.new = new /\ comp'.pending = pending
  <2> DEFINE d == [comp EXCEPT !.st = "rewrite", !.cand = cand, !.rewrite = rewrite, !.new = new,
                               !.pending = pending]
  <2>1. /\ d \in Comps /\ d.st = "rewrite" /\ d.exp = comp.exp /\ d.cand = cand /\ d.rewrite = rewrite
        /\ d.rm = comp.rm /\ d.new = new /\ d.pending = pending
    BY <1>0, <1>3, <1>4, <1>5 DEF Comps
  <2> HIDE DEF d
  <2>2. comp' = d
    BY <1>7 DEF d
  <2> QED BY <2>1, <2>2
<1>9. \A k \in Keys : comp'.new[k] = IF k \in Kept THEN tbl[k] ELSE NoRec
  BY <1>6, <1>8
<1>10. comp'.pending = {k \in Kept : tbl[k].log \in comp'.rewrite}
  BY <1>8 DEF pending
<1> QED BY <1>0, <1>2, <1>3, <1>8, <1>9, <1>10

\* The steps of a compaction.
LEMMA CompactTypes ==
  ASSUME Types, FilesInv, WriterInv, CompInv,
         \/ CompactBegin \/ \E id \in Ids : CompactRemove(id) \/ CompactRemoveFails(id)
         \/ CompactNothing \/ CompactSelect \/ \E k \in Keys : RewriteRecord(k)
         \/ CompactFailed \/ CompactCommit \/ CompactFinish
  PROVE  Types'
<1>0. comp \in Comps /\ comp.rm \subseteq Ids /\ comp.new \in Table /\ comp.rewrite \subseteq Ids
  BY CompFields DEF Types
<1>9. HintNow(open) \in Hint
  BY DEF HintNow, Hint, Types
<1>1. CASE CompactBegin
  <2> DEFINE dead == lfs \ {tbl[k].log : k \in InTable}
  <2>1. dead \in SUBSET Ids /\ expired \in SUBSET Keys
    BY DEF Types
  <2>2. comp' = [NoComp EXCEPT !.st = "unlink", !.exp = expired, !.rm = dead]
        /\ lfs' = lfs \ dead /\ open' = open \ dead
    BY <1>1 DEF CompactBegin
  <2> HIDE DEF dead
  <2>3. comp' \in Comps
    BY <2>1, <2>2, CompBegins
  <2> QED BY <1>1, <2>2, <2>3 DEF CompactBegin, Types, disk, ghost
<1>2. ASSUME NEW id \in Ids, CompactRemove(id)
      PROVE  Types'
  <2>1. comp' \in Comps
    BY <1>0, <1>2, CompRemoves DEF CompactRemove
  <2>2. files' \in [DOMAIN files' -> Log] /\ DOMAIN files' \subseteq Ids
    BY <1>2 DEF CompactRemove, Drop, Types
  <2> QED BY <1>2, <2>1, <2>2 DEF CompactRemove, Types, ghost
<1>10. ASSUME NEW id \in Ids, CompactRemoveFails(id)
       PROVE  Types'
  <2>1. comp' \in Comps
    BY <1>0, <1>10, CompRemoves DEF CompactRemoveFails
  <2>2. files' \in [DOMAIN files' -> Log] /\ DOMAIN files' \subseteq Ids
    BY <1>10, CloseLogsFacts DEF CompactRemoveFails, Types
  <2> QED BY <1>10, <2>1, <2>2 DEF CompactRemoveFails, Types, ghost
<1>3. CASE CompactNothing
  BY <1>3, <1>9, IdleTypes DEF CompactNothing, Types, ghost
<1>4. CASE CompactSelect
  BY <1>4, SelectFacts DEF CompactSelect, Types, disk, ghost
<1>5. ASSUME NEW k \in Keys, RewriteRecord(k)
      PROVE  Types'
  <2>1. PICK id \in Ids, piece \in Pieces :
           /\ Grows(id, piece)
           /\ comp' = [comp EXCEPT !.pending = @ \ {k},
                                   !.new[k] = [log |-> id, off |-> Len(files'[id].recs)]]
    BY <1>5, RewriteGrows
  <2> DEFINE r == [log |-> id, off |-> Len(files'[id].recs)]
  <2>2. r \in Rec
    BY <2>1, GrowsFacts, RecFacts
  <2>3. comp' = [comp EXCEPT !.pending = @ \ {k}, !.new[k] = r]
    BY <2>1
  <2> HIDE DEF r
  <2>4. comp' \in Comps
    BY <1>0, <2>2, <2>3, CompCopies
  <2>5. /\ files' \in [DOMAIN files' -> Log] /\ DOMAIN files' \subseteq Ids
        /\ lfs' \subseteq Ids /\ open' \subseteq lfs' /\ maxLog' \in 0 .. MaxLogId
    BY <2>1 DEF Grows, Types
  <2> QED BY <1>5, <2>4, <2>5 DEF RewriteRecord, Types, ghost
<1>6. CASE CompactFailed
  BY <1>6, IdleTypes DEF CompactFailed, Types, disk, ghost
<1>7. CASE CompactCommit
  <2>1. comp' \in Comps
    BY <1>0, <1>7, CompFinishes DEF CompactCommit
  <2> QED BY <1>0, <1>7, <2>1 DEF CompactCommit, Types, ghost
<1>8. CASE CompactFinish
  BY <1>8, <1>9, IdleTypes DEF CompactFinish, Types, ghost
<1> QED BY <1>1, <1>2, <1>3, <1>4, <1>5, <1>6, <1>7, <1>8, <1>10

\* Closing the files in CloseFiles, and the hint file that will be written.
LEMMA CloseFilesTypes ==
  ASSUME Types, NEW ids, NEW max \in 0 .. MaxLogId, CloseFiles(ids, max)
  PROVE  Types'
<1>1. DOMAIN files' = DOMAIN files /\ files' \in [DOMAIN files' -> Log]
  BY CloseLogsFacts DEF CloseFiles
<1>2. late' \in Hint
  BY DEF CloseFiles, Hint
<1>3. {} \subseteq Ids /\ 0 \in 0 .. MaxLogId /\ [k \in Keys |-> NoRec] \in Table
  BY IdleTypes
<1> QED BY <1>1, <1>2, <1>3 DEF CloseFiles, Types, ghost

\* A failed open closes what it knows, and perhaps one log more.
LEMMA OpenFailFacts ==
  ASSUME Types, OpenFail
  PROVE  /\ mode = "opening"
         /\ \E ids \in SUBSET Ids : Max({maxLog} \cup ids) \in 0 .. MaxLogId
                                    /\ CloseFiles(lfs \cup ids, Max({maxLog} \cup ids))
<1>1. PICK ids \in {{id} : id \in todo} \cup {{}} : CloseFiles(lfs \cup ids, Max({maxLog} \cup ids))
  BY DEF OpenFail
<1>2. ids \in SUBSET Ids
  BY DEF Types
<1>3. Max({maxLog} \cup ids) \in 0 .. MaxLogId
  BY <1>2, MaxLogs DEF Types
<1> QED BY <1>1, <1>2, <1>3 DEF OpenFail

\* reconcileLog and the opening of one log.
LEMMA OpenLogFacts ==
  ASSUME Types, FilesInv, NEW id \in Ids, OpenLog(id)
  PROVE  /\ mode = "opening" /\ report = {} /\ id \in todo /\ id \in DOMAIN files
         /\ files[id].recs \in Seq(Pieces)
         /\ DOMAIN files' = DOMAIN files /\ files' \in [DOMAIN files' -> Log]
         /\ \A i \in DOMAIN files : files'[i].recs = files[i].recs
         /\ tbl' \in Table /\ tblSynced' \in Table /\ report' \subseteq Keys
         /\ maxLog' \in 0 .. MaxLogId /\ maxLog <= maxLog' /\ id <= maxLog'
         /\ lfs' = lfs \cup {id} /\ open' \subseteq lfs' /\ todo' = todo \ {id}
<1>1. mode = "opening" /\ report = {} /\ id \in todo
  BY DEF OpenLog
<1>2. id \in DOMAIN files /\ files[id].recs \in Seq(Pieces)
  BY <1>1, FileFacts DEF FilesInv
<1>3. /\ DOMAIN files' = DOMAIN files /\ files' \in [DOMAIN files' -> Log]
      /\ \A i \in DOMAIN files : files'[i].recs = files[i].recs
  BY CloseLogsFacts DEF OpenLog, Types
<1>4. /\ tbl' \in Table /\ tblSynced' \in Table /\ report' \subseteq Keys
  <2>1. CASE ReconcileLog(id, files[id].recs)
    BY <1>2, <2>1, ReconciledFacts DEF ReconcileLog, Types, Invalid
  <2>2. CASE UNCHANGED <<tbl, tblSynced, report>>
    BY <2>2 DEF Types
  <2> QED BY <2>1, <2>2 DEF OpenLog
<1>5. maxLog' \in 0 .. MaxLogId /\ maxLog <= maxLog' /\ id <= maxLog'
  <2>1. maxLog' = Max({maxLog} \cup {id})
    <3>1. {maxLog} \cup {id} = {maxLog, id}
      OBVIOUS
    <3> QED BY <3>1 DEF OpenLog
  <2> QED BY <2>1, MaxLogs DEF Types
<1>6. lfs' = lfs \cup {id} /\ open' \subseteq lfs' /\ todo' = todo \ {id}
  BY DEF OpenLog, Types
<1> QED BY <1>1, <1>2, <1>3, <1>4, <1>5, <1>6

\* The steps of an open, of Close, and a crash.
LEMMA OpenTypes ==
  ASSUME Types, FilesInv, WriterInv, CompInv,
         \/ OpenStart \/ \E id \in Ids : OpenLog(id) \/ OpenMissing(id)
         \/ OpenAmnesty \/ OpenDone \/ OpenFail \/ OpenMisconfigured
         \/ Close \/ WriteCloseHint \/ Crash
  PROVE  Types'
<1>1. CASE OpenStart
  BY <1>1 DEF OpenStart, Types, disk, ghost
<1>2. ASSUME NEW id \in Ids, OpenLog(id)
      PROVE  Types'
  <2>1. /\ DOMAIN files' = DOMAIN files /\ files' \in [DOMAIN files' -> Log]
        /\ tbl' \in Table /\ tblSynced' \in Table /\ report' \subseteq Keys /\ maxLog' \in 0 .. MaxLogId
        /\ lfs' = lfs \cup {id} /\ open' \subseteq lfs' /\ todo' = todo \ {id}
    BY <1>2, OpenLogFacts
  <2> QED BY <1>2, <2>1 DEF OpenLog, Types, ghost
<1>3. ASSUME NEW id \in Ids, OpenMissing(id)
      PROVE  Types'
  <2>1. <<>> \in Seq(Pieces)
    OBVIOUS
  <2>2. tbl' \in Table /\ tblSynced' \in Table /\ report' \subseteq Keys
    BY <1>3, <2>1, ReconciledFacts DEF OpenMissing, ReconcileLog, Types, Invalid
  <2>3. tails' \in Table
    BY <1>3, FileFacts, IdleTypes DEF OpenMissing, Table
  <2> QED BY <1>3, <2>2, <2>3 DEF OpenMissing, Types, ghost
<1>4. CASE OpenAmnesty
  BY <1>4 DEF OpenAmnesty, Types, disk
<1>5. CASE OpenDone
  <2>1. HintNow(open) \in Hint
    BY DEF HintNow, Hint, Types
  <2> QED BY <1>5, <2>1, IdleTypes DEF OpenDone, Types, ghost
<1>6. CASE OpenFail
  BY <1>6, OpenFailFacts, CloseFilesTypes
<1>7. CASE OpenMisconfigured
  BY <1>7, IdleTypes, CloseFilesTypes DEF OpenMisconfigured
<1>8. CASE Close
  BY <1>8, CloseFilesTypes DEF Close, Types
<1>9. CASE WriteCloseHint
  BY <1>9 DEF WriteCloseHint, Types, ghost
<1>10. CASE Crash
  <2>1. /\ files' \in [DOMAIN files' -> Log] /\ DOMAIN files' \subseteq Ids
        /\ tbl' \in Table /\ tblSynced' \in Table
    BY <1>10, CrashFacts DEF Types
  <2>2. w' \in [Keys -> Writers] /\ tails' \in Table /\ comp' \in Comps /\ maxLog' \in 0 .. MaxLogId
    BY <1>10, IdleTypes DEF Crash
  <2> QED BY <1>10, <2>1, <2>2 DEF Crash, Types, ghost
<1> QED BY <1>1, <1>2, <1>3, <1>4, <1>5, <1>6, <1>7, <1>8, <1>9, <1>10

\* Every step keeps the types.
LEMMA NextTypes ==
  ASSUME Types, FilesInv, WriterInv, CompInv, [Next]_vars
  PROVE  Types'
<1>1. CASE UNCHANGED vars
  BY <1>1 DEF vars, disk, ghost, Types
<1> QED BY <1>1, WriterTypes, CompactTypes, OpenTypes DEF Next

-----------------------------------------------------------------------------
(***************************************************************************)
(* No log file is lost sight of.                                           *)
(***************************************************************************)

\* A log that grows becomes a known one.
LEMMA GrowsFiles ==
  ASSUME Types, FilesInv, NEW id, NEW piece, Grows(id, piece), mode = "up", comp.rm = {}, comp'.rm = {},
         UNCHANGED <<mode, todo, report, late, left>>
  PROVE  FilesInv'
<1>1. /\ DOMAIN files' = DOMAIN files \cup {id} /\ lfs' = lfs \cup {id}
      /\ maxLog' \in Nat /\ maxLog <= maxLog' /\ id <= maxLog' /\ id \in Nat /\ maxLog \in Nat
      /\ \A i \in lfs : i \in Nat
  BY FileFacts, IdleTypes DEF Grows
<1>2. \A i \in lfs : i <= maxLog'
  <2>1. \A a, b, c \in Nat : a <= b /\ b <= c => a <= c
    OBVIOUS
  <2> QED BY <1>1, <2>1 DEF FilesInv
<1>3. \A i \in lfs' : i <= maxLog'
  BY <1>1, <1>2
<1>4. DOMAIN files' = lfs' \cup comp'.rm \cup left'
  BY <1>1 DEF FilesInv
<1>5. id \notin left /\ \A i \in left : i \in Nat /\ i <= maxLog
  BY IdleTypes DEF Grows, FilesInv, Types
<1>6. \A i \in left : i <= maxLog'
  <2>1. \A a, b, c \in Nat : a <= b /\ b <= c => a <= c
    OBVIOUS
  <2> QED BY <1>1, <1>5, <2>1
<1>7. lfs' \cap left = {}
  BY <1>1, <1>5 DEF FilesInv
<1> QED BY <1>3, <1>4, <1>6, <1>7 DEF FilesInv

\* Every step keeps the files in sight: the logs that a compaction or a failed open lets go
\* are those it removes, or that the next open finds.
LEMMA NextFilesInv ==
  ASSUME Types, FilesInv, WriterInv, CompInv, [Next]_vars
  PROVE  FilesInv'
<1>0. comp.rm \subseteq Ids /\ comp \in Comps /\ comp.rewrite \subseteq Ids
  BY CompFields DEF Types
<1>1. ASSUME NEW k \in Keys, WriteLog(k)
      PROVE  FilesInv'
  <2>1. PICK id \in Ids : Grows(id, k)
    BY <1>1, WriteLogGrows
  <2>2. mode = "up" /\ comp.rm = {}
    BY <1>1, WriteLogGrows
  <2>3. UNCHANGED <<mode, todo, report, late, comp, left>>
    BY <1>1 DEF WriteLog
  <2> QED BY <2>1, <2>2, <2>3, GrowsFiles
<1>2. ASSUME NEW k \in Keys, WriteFailed(k) \/ AddRecord(k) \/ FinishWrite(k) \/ Expire(k)
      PROVE  FilesInv'
  <2>1. DOMAIN files' = DOMAIN files
    BY <1>2, WriteFailedFacts, CloseLogsFacts DEF AddRecord, FinishWrite, Expire, disk
  <2>2. UNCHANGED <<mode, todo, lfs, maxLog, report, late, comp, left>>
    BY <1>2 DEF WriteFailed, AddRecord, FinishWrite, Expire
  <2> QED BY <2>1, <2>2 DEF FilesInv
<1>3. CASE CompactBegin
  <2> DEFINE dead == lfs \ {tbl[k].log : k \in InTable}
  <2>1. /\ comp' = [NoComp EXCEPT !.st = "unlink", !.exp = expired, !.rm = dead]
        /\ lfs' = lfs \ dead /\ mode = "up" /\ comp.st = "idle"
        /\ UNCHANGED <<files, mode, todo, maxLog, report, late, left>>
    BY <1>3 DEF CompactBegin, disk
  <2>2. dead \in SUBSET Ids /\ dead \subseteq lfs /\ expired \in SUBSET Keys
    BY DEF Types
  <2> HIDE DEF dead
  <2>3. comp'.rm = dead
    BY <2>1, <2>2, CompBegins
  <2>4. comp.rm = {}
    BY <2>1, IdleTypes DEF CompInv
  <2> QED BY <2>1, <2>2, <2>3, <2>4 DEF FilesInv
<1>4. ASSUME NEW id \in Ids, CompactRemove(id)
      PROVE  FilesInv'
  <2>1. /\ comp'.rm = comp.rm \ {id} /\ id \in comp.rm
        /\ UNCHANGED <<mode, todo, lfs, maxLog, report, late, left>>
        /\ DOMAIN files' = DOMAIN files \ {id}
    BY <1>0, <1>4, CompRemoves DEF CompactRemove, Drop
  <2>2. mode = "up"
    BY <2>1, IdleTypes DEF CompInv
  <2> QED BY <2>1, <2>2 DEF FilesInv
<1>20. ASSUME NEW id \in Ids, CompactRemoveFails(id)
      PROVE  FilesInv'
  <2>1. /\ comp'.rm = comp.rm \ {id} /\ id \in comp.rm /\ left' = left \cup {id}
        /\ UNCHANGED <<mode, todo, lfs, maxLog, report, late>>
        /\ DOMAIN files' = DOMAIN files
    BY <1>0, <1>20, CompRemoves, CloseLogsFacts DEF CompactRemoveFails
  <2>2. mode = "up"
    BY <2>1, IdleTypes DEF CompInv
  <2> QED BY <2>1, <2>2 DEF FilesInv
<1>5. CASE CompactNothing \/ CompactFinish \/ CompactFailed \/ CompactSelect
  <2>1. /\ UNCHANGED <<files, mode, todo, lfs, maxLog, report, late, left>>
        /\ comp.rm = {} /\ comp.st # "idle"
    BY <1>5 DEF CompactNothing, CompactFinish, CompactFailed, CompactSelect, CompInv, disk
  <2>2. comp'.rm = {}
    <3>1. CASE comp' = NoComp
      BY <3>1, IdleTypes
    <3>2. CASE CompactSelect
      BY <3>2, SelectFacts
    <3> QED BY <1>5, <3>1, <3>2 DEF CompactNothing, CompactFinish, CompactFailed
  <2> QED BY <2>1, <2>2 DEF FilesInv, CompInv
<1>6. ASSUME NEW k \in Keys, RewriteRecord(k)
      PROVE  FilesInv'
  <2>1. PICK id \in Ids, piece \in Pieces :
          Grows(id, piece) /\ \E r : comp' = [comp EXCEPT !.pending = @ \ {k}, !.new[k] = r]
    BY <1>6, RewriteGrows
  <2>2. comp'.rm = comp.rm
    BY <1>0, <2>1 DEF Comps
  <2>3. comp.rm = {} /\ mode = "up" /\ UNCHANGED <<mode, todo, report, late, left>>
    BY <1>6 DEF RewriteRecord, CompInv
  <2> QED BY <2>1, <2>2, <2>3, GrowsFiles
<1>7. CASE CompactCommit
  <2>1. /\ comp'.rm = comp.rewrite /\ comp.st = "rewrite" /\ lfs' = lfs \ comp.rewrite
        /\ UNCHANGED <<files, mode, todo, maxLog, report, late, left>>
    BY <1>0, <1>7, CompFinishes DEF CompactCommit
  <2>2. mode = "up" /\ comp.rm = {} /\ comp.rewrite \subseteq lfs
    BY <2>1 DEF CompInv
  <2> QED BY <2>1, <2>2 DEF FilesInv
<1>8. CASE OpenStart
  BY <1>8 DEF OpenStart, FilesInv, disk
<1>9. ASSUME NEW id \in Ids, OpenLog(id)
      PROVE  FilesInv'
  <2>1. /\ mode = "opening" /\ id \in todo /\ id \in DOMAIN files /\ DOMAIN files' = DOMAIN files
        /\ maxLog' \in 0 .. MaxLogId /\ maxLog <= maxLog' /\ id <= maxLog'
        /\ lfs' = lfs \cup {id} /\ todo' = todo \ {id}
    BY <1>9, OpenLogFacts
  <2>2. mode' = mode /\ late' = late /\ left' = left
    BY <1>9 DEF OpenLog
  <2>3. \A i \in lfs' : i <= maxLog'
    <3>1. \A a, b, c \in Nat : a <= b /\ b <= c => a <= c
      OBVIOUS
    <3>2. maxLog \in Nat /\ maxLog' \in Nat /\ \A i \in lfs : i \in Nat
      BY <2>1, FileFacts, IdleTypes, StoreAssumption
    <3>3. \A i \in lfs : i <= maxLog'
      BY <2>1, <3>1, <3>2 DEF FilesInv
    <3> QED BY <2>1, <3>3
  <2> QED BY <2>1, <2>2, <2>3 DEF FilesInv
<1>10. ASSUME NEW id \in Ids, OpenMissing(id)
       PROVE  FilesInv'
  BY <1>10 DEF OpenMissing, FilesInv
<1>11. CASE OpenAmnesty
  BY <1>11 DEF OpenAmnesty, FilesInv, disk
<1>12. CASE OpenDone
  <2>1. comp.rm = {}
    BY <1>12, IdleTypes DEF OpenDone, CompInv
  <2> QED BY <1>12, <2>1 DEF OpenDone, FilesInv
<1>13. ASSUME NEW ids, NEW max, CloseFiles(ids, max), report = {}
       PROVE  FilesInv'
  BY <1>13 DEF CloseFiles, FilesInv
<1>14. CASE OpenFail
  BY <1>13, <1>14, OpenFailFacts DEF OpenFail
<1>15. CASE OpenMisconfigured
  BY <1>13, <1>15 DEF OpenMisconfigured, FilesInv
<1>16. CASE Close
  BY <1>13, <1>16 DEF Close, FilesInv
<1>17. CASE WriteCloseHint
  BY <1>17 DEF WriteCloseHint, FilesInv
<1>18. CASE Crash
  BY <1>18 DEF Crash, FilesInv
<1>19. CASE UNCHANGED vars
  BY <1>19 DEF vars, disk, FilesInv
<1> QED BY <1>1, <1>2, <1>3, <1>4, <1>5, <1>6, <1>7, <1>8, <1>9, <1>10, <1>11, <1>12, <1>14, <1>15,
           <1>16, <1>17, <1>18, <1>19, <1>20 DEF Next

-----------------------------------------------------------------------------
(***************************************************************************)
(* No log that writers use is excluded.                                    *)
(***************************************************************************)

\* A log that was open stays writable, and a new one is beyond the hint.
LEMMA GrowsHint ==
  ASSUME Types, HintInv, NEW id, NEW piece, Grows(id, piece), mode = "up", hint' = hint
  PROVE  HintInv'
<1>1. /\ id \in open \/ maxLog < id
      /\ open' \subseteq open \cup {id}
      /\ maxLog' \in Nat /\ maxLog <= maxLog' /\ id \in Nat /\ maxLog \in Nat
  BY FileFacts, IdleTypes, StoreAssumption DEF Grows
<1>2. /\ hint.largest \in Nat /\ hint.largest <= maxLog
      /\ \A i \in open : i \in hint.writable \/ hint.largest < i
  BY StoreAssumption DEF Types, Hint, HintInv
<1>3. \A a, b, c \in Nat : a <= b => (b <= c => a <= c) /\ (b < c => a < c)
  OBVIOUS
<1>4. hint.largest <= maxLog' /\ (maxLog < id => hint.largest < id)
  BY <1>1, <1>2, <1>3
<1> QED BY <1>1, <1>2, <1>4 DEF HintInv

\* Every step keeps the open logs out of the reach of the hint file, which is written with
\* them as writable and is behind every newer log.
LEMMA NextHintInv ==
  ASSUME Types, FilesInv, WriterInv, CompInv, HintInv, [Next]_vars
  PROVE  HintInv'
<1>1. ASSUME NEW k \in Keys, WriteLog(k)
      PROVE  HintInv'
  <2>1. PICK id \in Ids : Grows(id, k)
    BY <1>1, WriteLogGrows
  <2>2. mode = "up" /\ hint' = hint
    BY <1>1 DEF WriteLog
  <2> QED BY <2>1, <2>2, GrowsHint
<1>2. ASSUME NEW k \in Keys, RewriteRecord(k)
      PROVE  HintInv'
  <2>1. PICK id \in Ids, piece \in Pieces : Grows(id, piece)
    BY <1>2, RewriteGrows
  <2>2. mode = "up" /\ hint' = hint
    BY <1>2 DEF RewriteRecord, CompInv
  <2> QED BY <2>1, <2>2, GrowsHint
<1>3. ASSUME UNCHANGED <<hint, mode, maxLog>>, open' \subseteq open
      PROVE  HintInv'
  BY <1>3 DEF HintInv
<1>4. ASSUME NEW k \in Keys, WriteFailed(k) \/ AddRecord(k) \/ FinishWrite(k) \/ Expire(k)
      PROVE  HintInv'
  BY <1>3, <1>4 DEF WriteFailed, AddRecord, FinishWrite, Expire, disk
<1>5. ASSUME CompactBegin \/ CompactSelect \/ CompactFailed \/ CompactCommit \/ OpenAmnesty
             \/ \E id \in Ids : CompactRemove(id) \/ CompactRemoveFails(id)
      PROVE  HintInv'
  BY <1>3, <1>5 DEF CompactBegin, CompactSelect, CompactFailed, CompactCommit, OpenAmnesty, CompactRemove,
     CompactRemoveFails, disk
<1>6. ASSUME hint' = HintNow(open), UNCHANGED <<open, maxLog>>
      PROVE  HintInv'
  <2>1. hint'.largest = maxLog /\ hint'.writable = open /\ maxLog <= maxLog
    BY <1>6, FileFacts DEF HintNow
  <2> QED BY <1>6, <2>1 DEF HintInv
<1>7. CASE CompactNothing \/ CompactFinish \/ OpenDone
  BY <1>6, <1>7 DEF CompactNothing, CompactFinish, OpenDone
<1>8. CASE mode' # "up"
  BY <1>8 DEF HintInv
<1>9. CASE OpenStart \/ OpenFail \/ OpenMisconfigured \/ Close \/ Crash
  BY <1>8, <1>9 DEF OpenStart, OpenFail, OpenMisconfigured, Close, Crash, CloseFiles
<1>10. ASSUME NEW id \in Ids, OpenLog(id) \/ OpenMissing(id)
       PROVE  HintInv'
  BY <1>8, <1>10 DEF OpenLog, OpenMissing
<1>11. CASE WriteCloseHint
  BY <1>8, <1>11 DEF WriteCloseHint, FilesInv
<1>12. CASE UNCHANGED vars
  BY <1>3, <1>12 DEF vars, disk
<1> QED BY <1>1, <1>2, <1>4, <1>5, <1>7, <1>9, <1>10, <1>11, <1>12 DEF Next

-----------------------------------------------------------------------------
(***************************************************************************)
(* A writer has its log for itself.                                        *)
(***************************************************************************)

\* Nothing that a writer relies on changes when its log, the table's record of its piece
\* and the other writers stay.
LEMMA StillOwns ==
  ASSUME WriterInv, NEW k \in Keys, w[k].st # "idle", w'[k] = w[k], UNCHANGED <<mode, comp>>,
         lfs \subseteq lfs', files'[w[k].rec.log] = files[w[k].rec.log], tbl'[k] = tbl[k],
         \A j \in Keys : w'[j].st # "idle" /\ w'[j].rec.log = w[k].rec.log =>
           w[j].st # "idle" /\ w[j].rec.log = w[k].rec.log
  PROVE  Owns(k)'
<1>1. Owns(k)
  BY DEF WriterInv
<1> QED BY <1>1 DEF Owns

\* Without a writer there is nothing to show.
LEMMA NoWriters ==
  ASSUME \A k \in Keys : w'[k].st = "idle"
  PROVE  WriterInv'
BY DEF WriterInv

\* The writer that appends its piece.
LEMMA AppendsToOwn ==
  ASSUME Types, FilesInv, WriterInv, CompInv, NEW k \in Keys, WriteLog(k)
  PROVE  WriterInv'
<1>1. mode = "up" /\ comp.st = "idle" /\ w[k].st = "idle" /\ k \in Pieces
  BY WriteLogGrows
<1>2. PICK id \in Ids :
        /\ Grows(id, k)
        /\ id \notin open \/ id \notin Acquired
        /\ files'[id].synced < Len(files'[id].recs)
        /\ w' = [w EXCEPT ![k] = [st |-> "appended", rec |-> [log |-> id, off |-> Len(files'[id].recs)]]]
        /\ [log |-> id, off |-> Len(files'[id].recs)] \in Rec
  BY WriteLogGrows
<1>3. UNCHANGED <<mode, comp, tbl>>
  BY DEF WriteLog
<1>4. /\ id \in DOMAIN files' /\ Len(files'[id].recs) \in Nat \ {0}
      /\ files'[id].recs[Len(files'[id].recs)] = k
  BY <1>1, <1>2, GrowsFacts
<1>5. /\ lfs' = lfs \cup {id}
      /\ \A i \in DOMAIN files : i # id => files'[i] = files[i]
      /\ id \in open \/ id \notin lfs
  BY <1>2 DEF Grows
<1>6. \A j \in Keys : w[j].st # "idle" => w[j].rec.log # id /\ w[j].rec.log \in lfs
  <2> TAKE j \in Keys
  <2> HAVE w[j].st # "idle"
  <2>1. w[j].rec.log \in lfs /\ w[j].rec.log \in Acquired
    BY DEF WriterInv, Owns, Acquired
  <2> QED BY <1>2, <1>5, <2>1
<1> DEFINE rec == [log |-> id, off |-> Len(files'[id].recs)]
<1>7. rec \in Rec /\ rec # NoRec /\ rec.log = id /\ rec.off = Len(files'[id].recs)
  BY <1>4, RecFacts
<1>8. w'[k] = [st |-> "appended", rec |-> rec] /\ \A j \in Keys : j # k => w'[j] = w[j]
  BY <1>2 DEF Types
<1> HIDE DEF rec
<1>9. w'[k].st = "appended" /\ w'[k].rec = rec
  BY <1>8
<1>10. \A j \in Keys : w'[j].st # "idle" /\ w'[j].rec.log = id => j = k
  BY <1>6, <1>8
<1>11. Owns(k)'
  <2>1. mode' = "up" /\ comp'.st = "idle" /\ rec.log \in lfs'
    BY <1>1, <1>3, <1>5, <1>7
  <2>2. /\ files'[rec.log].recs[rec.off] = k /\ rec.off = Len(files'[rec.log].recs)
        /\ files'[rec.log].synced < rec.off
    BY <1>2, <1>4, <1>7
  <2>3. \A j \in Keys : w'[j].st # "idle" /\ w'[j].rec.log = rec.log => j = k
    BY <1>7, <1>10
  <2> QED BY <1>7, <1>9, <2>1, <2>2, <2>3 DEF Owns
<1>12. ASSUME NEW j \in Keys, w'[j].st # "idle", j # k
       PROVE  Owns(j)'
  <2>1. w'[j] = w[j] /\ w[j].st # "idle" /\ w[j].rec.log # id /\ w[j].rec.log \in lfs
    BY <1>6, <1>8, <1>12
  <2>2. w[j].rec.log \in DOMAIN files
    BY <1>1, <2>1 DEF FilesInv
  <2>3. files'[w[j].rec.log] = files[w[j].rec.log] /\ tbl'[j] = tbl[j] /\ lfs \subseteq lfs'
    BY <1>3, <1>5, <2>1, <2>2
  <2>4. \A i \in Keys : w'[i].st # "idle" /\ w'[i].rec.log = w[j].rec.log =>
          w[i].st # "idle" /\ w[i].rec.log = w[j].rec.log
    <3>1. w'[k].rec.log # w[j].rec.log
      BY <1>7, <1>9, <2>1
    <3> QED BY <1>8, <3>1
  <2> QED BY <1>3, <2>1, <2>3, <2>4, StillOwns
<1> QED BY <1>11, <1>12 DEF WriterInv

\* Every step leaves the writers their logs, or ends all of them.
LEMMA NextWriterInv ==
  ASSUME Types, FilesInv, WriterInv, CompInv, [Next]_vars
  PROVE  WriterInv'
<1>1. \A j, k \in Keys : w[k].st # "idle" /\ w[j].st # "idle" /\ j # k => w[j].rec.log # w[k].rec.log
  BY DEF WriterInv, Owns
<1>2. \A j \in Keys : w[j].st # "idle" => w[j].rec.log \in DOMAIN files
  BY DEF WriterInv, Owns, FilesInv
<1>3. ASSUME NEW k \in Keys, WriteFailed(k)
      PROVE  WriterInv'
  <2>1. /\ w[k].st = "appended" /\ UNCHANGED <<tbl, mode, comp, lfs>>
        /\ w' = [w EXCEPT ![k] = NoWriter]
        /\ \A i \in DOMAIN files : i # w[k].rec.log => files'[i] = files[i]
    BY <1>3, WriteFailedFacts DEF WriteFailed
  <2>2. w'[k].st = "idle" /\ \A j \in Keys : j # k => w'[j] = w[j]
    BY <2>1, IdleTypes DEF Types
  <2>3. ASSUME NEW j \in Keys, w'[j].st # "idle"
        PROVE  Owns(j)'
    <3>1. j # k /\ w'[j] = w[j] /\ w[j].st # "idle"
      BY <2>2, <2>3
    <3>2. files'[w[j].rec.log] = files[w[j].rec.log]
      BY <1>1, <1>2, <2>1, <3>1
    <3>3. \A i \in Keys : w'[i].st # "idle" => w'[i] = w[i]
      BY <2>2
    <3> QED BY <2>1, <3>1, <3>2, <3>3, StillOwns
  <2> QED BY <2>3 DEF WriterInv
<1>4. ASSUME NEW k \in Keys, AddRecord(k)
      PROVE  WriterInv'
  <2>1. /\ w[k].st = "appended" /\ UNCHANGED <<files, mode, comp, lfs>>
        /\ w' = [w EXCEPT ![k].st = "inserted"] /\ tbl' = [tbl EXCEPT ![k] = w[k].rec]
    BY <1>4 DEF AddRecord
  <2>2. w'[k].st = "inserted" /\ w'[k].rec = w[k].rec /\ \A j \in Keys : j # k => w'[j] = w[j]
    <3>1. w' = [w EXCEPT ![k] = [w[k] EXCEPT !.st = "inserted"]] /\ w[k] \in Writers
      BY <2>1, FileFacts
    <3>2. w'[k] = [w[k] EXCEPT !.st = "inserted"] /\ \A j \in Keys : j # k => w'[j] = w[j]
      BY <3>1 DEF Types
    <3> QED BY <3>1, <3>2 DEF Writers
  <2>3. tbl'[k] = w[k].rec /\ \A j \in Keys : j # k => tbl'[j] = tbl[j]
    BY <2>1 DEF Types, Table
  <2>4. \A i \in Keys : w'[i].rec = w[i].rec /\ (w'[i].st # "idle" => w[i].st # "idle")
    BY <2>1, <2>2
  <2>5. Owns(k)'
    <3>1. Owns(k)
      BY <2>1 DEF WriterInv
    <3> QED BY <2>1, <2>2, <2>3, <2>4, <3>1 DEF Owns
  <2>6. ASSUME NEW j \in Keys, w'[j].st # "idle", j # k
        PROVE  Owns(j)'
    <3>1. w'[j] = w[j] /\ w[j].st # "idle" /\ tbl'[j] = tbl[j]
      BY <2>2, <2>3, <2>6
    <3> QED BY <2>1, <2>4, <3>1, StillOwns
  <2> QED BY <2>5, <2>6 DEF WriterInv
<1>5. ASSUME NEW k \in Keys, FinishWrite(k)
      PROVE  WriterInv'
  <2>1. /\ w[k].st = "inserted" /\ UNCHANGED <<tbl, mode, comp, lfs>>
        /\ w' = [w EXCEPT ![k] = NoWriter]
        /\ \A i \in DOMAIN files : i # w[k].rec.log => files'[i] = files[i]
    BY <1>5, CloseLogsFacts DEF FinishWrite
  <2>2. w'[k].st = "idle" /\ \A j \in Keys : j # k => w'[j] = w[j]
    BY <2>1, IdleTypes DEF Types
  <2>3. ASSUME NEW j \in Keys, w'[j].st # "idle"
        PROVE  Owns(j)'
    <3>1. j # k /\ w'[j] = w[j] /\ w[j].st # "idle"
      BY <2>2, <2>3
    <3>2. files'[w[j].rec.log] = files[w[j].rec.log]
      BY <1>1, <1>2, <2>1, <3>1
    <3>3. \A i \in Keys : w'[i].st # "idle" => w'[i] = w[i]
      BY <2>2
    <3> QED BY <2>1, <3>1, <3>2, <3>3, StillOwns
  <2> QED BY <2>3 DEF WriterInv
<1>6. ASSUME UNCHANGED <<files, tbl, mode, comp, lfs, w>>
      PROVE  WriterInv'
  BY <1>6 DEF WriterInv, Owns
<1>7. ASSUME NEW k \in Keys, Expire(k)
      PROVE  WriterInv'
  BY <1>6, <1>7 DEF Expire, disk
<1>8. ASSUME w' = w, mode # "up" \/ comp.st # "idle" \/ (\A k \in Keys : w[k].st = "idle")
      PROVE  WriterInv'
  <2>1. \A k \in Keys : w[k].st = "idle"
    BY <1>8 DEF WriterInv, Owns
  <2> QED BY <1>8, <2>1, NoWriters
<1>9. CASE CompactBegin \/ CompactNothing \/ CompactSelect \/ CompactCommit \/ CompactFinish
  BY <1>8, <1>9 DEF CompactBegin, CompactNothing, CompactSelect, CompactCommit, CompactFinish
<1>10. CASE CompactFailed
  BY <1>8, <1>10 DEF CompactFailed
<1>11. ASSUME NEW id \in Ids, CompactRemove(id) \/ CompactRemoveFails(id)
       PROVE  WriterInv'
  <2>1. comp.st # "idle"
    BY <1>11, IdleTypes DEF CompactRemove, CompactRemoveFails, CompInv
  <2> QED BY <1>8, <1>11, <2>1 DEF CompactRemove, CompactRemoveFails
<1>12. ASSUME NEW k \in Keys, RewriteRecord(k)
       PROVE  WriterInv'
  BY <1>8, <1>12 DEF RewriteRecord
<1>13. CASE OpenStart \/ OpenAmnesty \/ OpenDone \/ OpenFail \/ OpenMisconfigured \/ Close \/ WriteCloseHint
  BY <1>8, <1>13 DEF OpenStart, OpenAmnesty, OpenDone, OpenFail, OpenMisconfigured, Close, CloseFiles,
     WriteCloseHint, FilesInv
<1>14. ASSUME NEW id \in Ids, OpenLog(id) \/ OpenMissing(id)
       PROVE  WriterInv'
  BY <1>8, <1>14 DEF OpenLog, OpenMissing
<1>15. CASE Crash
  <2>1. \A k \in Keys : w'[k].st = "idle"
    BY <1>15, IdleTypes DEF Crash
  <2> QED BY <2>1, NoWriters
<1>16. CASE UNCHANGED vars
  BY <1>6, <1>16 DEF vars, disk
<1> QED BY <1>3, <1>4, <1>5, <1>7, <1>9, <1>10, <1>11, <1>12, <1>13, <1>14, <1>15, <1>16,
           AppendsToOwn DEF Next

-----------------------------------------------------------------------------
(***************************************************************************)
(* A compaction removes only logs that no record points to.                *)
(***************************************************************************)

\* There is nothing to show without a compaction.
LEMMA NoCompaction ==
  ASSUME comp' = NoComp
  PROVE  CompInv'
<1>1. NoComp.st = "idle" /\ NoComp.exp = {} /\ NoComp.rm = {}
  BY DEF NoComp
<1>2. comp'.st = "idle" /\ comp'.exp = {} /\ comp'.rm = {}
  BY <1>1
<1> QED BY <1>2 DEF CompInv

\* CompactBegin: the dead logs are the ones without a record.
LEMMA BeginCompInv ==
  ASSUME Types, CompInv, CompactBegin
  PROVE  CompInv'
<1> DEFINE dead == lfs \ {tbl[k].log : k \in InTable}
           begun == [NoComp EXCEPT !.st = "unlink", !.exp = expired, !.rm = dead]
<1>1. comp' = begun /\ mode' = "up" /\ UNCHANGED <<tbl, expired>>
  BY DEF CompactBegin, disk, ghost
<1>2. dead \in SUBSET Ids /\ expired \in SUBSET Keys
  BY DEF Types
<1>3. \A k \in InTable : tbl[k].log \notin dead
  OBVIOUS
<1> HIDE DEF dead
<1>4. begun.st = "unlink" /\ begun.exp = expired /\ begun.rm = dead
  BY <1>2, CompBegins
<1> HIDE DEF begun
<1>5. comp'.st = "unlink" /\ comp'.exp = expired' /\ comp'.rm = dead
  BY <1>1, <1>4
<1>6. InTable' = InTable
  BY <1>1 DEF InTable
<1> QED BY <1>1, <1>3, <1>5, <1>6 DEF CompInv

\* CompactSelect: the new table has the records that stay, those not to be copied in logs
\* that are not rewritten.
LEMMA SelectCompInv ==
  ASSUME Types, CompInv, CompactSelect
  PROVE  CompInv'
<1>1. /\ comp.st = "unlink" /\ comp'.st = "rewrite" /\ comp'.exp = comp.exp /\ comp'.rm = {}
      /\ comp'.rewrite \subseteq comp'.cand /\ comp'.cand \subseteq lfs
      /\ \A k \in Keys : comp'.new[k] = IF k \in Kept THEN tbl[k] ELSE NoRec
      /\ comp'.pending = {k \in Kept : tbl[k].log \in comp'.rewrite}
  BY SelectFacts
<1>2. mode = "up" /\ comp.exp \subseteq expired
  BY <1>1 DEF CompInv
<1>3. UNCHANGED <<tbl, mode, lfs, expired>>
  BY DEF CompactSelect, disk, ghost
<1>4. InTable' = InTable /\ Kept' = Kept
  BY <1>1, <1>3 DEF InTable, Kept
<1>5. \A k \in Keys : comp'.new[k] # NoRec <=> k \in Kept
  BY <1>1 DEF Kept, InTable
<1>6. \A k \in Kept \ comp'.pending : comp'.new[k].log \notin comp'.rewrite
  <2> TAKE k \in Kept \ comp'.pending
  <2>1. k \in Keys /\ comp'.new[k] = tbl[k] /\ tbl[k].log \notin comp'.rewrite
    BY <1>1 DEF Kept, InTable
  <2> QED BY <2>1
<1> QED BY <1>1, <1>2, <1>3, <1>4, <1>5, <1>6 DEF CompInv

\* RewriteRecord: the copy is in a log that is not rewritten.
LEMMA RewriteCompInv ==
  ASSUME Types, FilesInv, CompInv, NEW k \in Keys, RewriteRecord(k)
  PROVE  CompInv'
<1>0. comp \in Comps /\ comp.st = "rewrite" /\ k \in comp.pending
  BY DEF Types, RewriteRecord
<1>1. PICK id \in Ids, piece \in Pieces :
        /\ Grows(id, piece) /\ id \notin comp.cand
        /\ tbl[k].log \in lfs
        /\ comp' = [comp EXCEPT !.pending = @ \ {k}, !.new[k] = [log |-> id, off |-> Len(files'[id].recs)]]
  BY RewriteGrows
<1> DEFINE rec == [log |-> id, off |-> Len(files'[id].recs)]
           copied == [comp EXCEPT !.pending = @ \ {k}, !.new[k] = rec]
<1>2. rec \in Rec /\ rec # NoRec /\ rec.log = id
  BY <1>1, GrowsFacts, RecFacts
<1>3. comp' = copied
  BY <1>1
<1> HIDE DEF rec
<1>4. /\ copied.st = comp.st /\ copied.exp = comp.exp /\ copied.cand = comp.cand
      /\ copied.rewrite = comp.rewrite /\ copied.rm = comp.rm
      /\ copied.new = [comp.new EXCEPT ![k] = rec] /\ copied.pending = comp.pending \ {k}
  BY <1>0, <1>2 DEF Comps
<1> HIDE DEF copied
<1>5. comp'.new[k] = rec /\ \A j \in Keys : j # k => comp'.new[j] = comp.new[j]
  BY <1>0, <1>3, <1>4, CompFields DEF Table
<1>6. UNCHANGED <<tbl, mode, expired>> /\ lfs \subseteq lfs'
  BY <1>1 DEF RewriteRecord, ghost, Grows
<1>7. InTable' = InTable /\ Kept' = Kept
  BY <1>3, <1>4, <1>6 DEF InTable, Kept
<1>8. mode = "up" /\ comp.exp \subseteq expired
  BY <1>0 DEF CompInv
<1>9. /\ comp.rm = {} /\ comp.rewrite \subseteq comp.cand /\ comp.cand \subseteq lfs
      /\ \A j \in Keys : comp.new[j] # NoRec <=> j \in Kept
      /\ \A j \in Kept \ comp.pending : comp.new[j].log \notin comp.rewrite
  BY <1>0 DEF CompInv
<1>10. k \in Kept /\ comp'.pending \subseteq Kept
  BY <1>0, <1>3, <1>4 DEF CompInv
<1>11. \A j \in Keys : comp'.new[j] # NoRec <=> j \in Kept
  BY <1>2, <1>5, <1>9, <1>10
<1>12. \A j \in Kept \ comp'.pending : comp'.new[j].log \notin comp'.rewrite
  <2> TAKE j \in Kept \ comp'.pending
  <2>1. CASE j = k
    BY <1>1, <1>2, <1>3, <1>4, <1>5, <1>9, <2>1
  <2>2. CASE j # k
    <3>1. j \in Keys /\ j \in Kept \ comp.pending
      BY <1>3, <1>4, <2>2 DEF Kept, InTable
    <3> QED BY <1>3, <1>4, <1>5, <1>9, <2>2, <3>1
  <2> QED BY <2>1, <2>2
<1>13. comp'.st = "rewrite" /\ comp'.exp = comp.exp /\ comp'.rm = {} /\ comp'.rewrite \subseteq comp'.cand
       /\ comp'.cand \subseteq lfs'
  BY <1>0, <1>3, <1>4, <1>6, <1>9
<1> QED BY <1>6, <1>7, <1>8, <1>10, <1>11, <1>12, <1>13 DEF CompInv

\* CompactCommit: what the new table has is not in the rewritten logs.
LEMMA CommitCompInv ==
  ASSUME Types, CompInv, CompactCommit
  PROVE  /\ CompInv' /\ tbl' = comp.new /\ InTable' = Kept
         /\ \A k \in Keys : tbl'[k] # NoRec <=> k \in Kept
<1>0. comp \in Comps /\ comp.st = "rewrite" /\ comp.pending = {} /\ comp.rewrite \in SUBSET Ids
  BY CompFields DEF Types, CompactCommit
<1>1. /\ tbl' = comp.new /\ comp' = [comp EXCEPT !.st = "finish", !.rm = comp.rewrite]
      /\ UNCHANGED <<mode, expired>>
  BY DEF CompactCommit, ghost
<1>2. comp'.st = "finish" /\ comp'.exp = comp.exp /\ comp'.rm = comp.rewrite
  BY <1>0, <1>1 DEF Comps
<1>3. /\ mode = "up" /\ comp.exp \subseteq expired
      /\ \A k \in Keys : comp.new[k] # NoRec <=> k \in Kept
      /\ \A k \in Kept : comp.new[k].log \notin comp.rewrite
  BY <1>0 DEF CompInv
<1>4. InTable' = Kept
  <2>1. InTable' = {k \in Keys : comp.new[k] # NoRec}
    BY <1>1 DEF InTable
  <2>2. Kept \subseteq Keys
    BY DEF Kept, InTable
  <2> QED BY <1>3, <2>1, <2>2
<1>5. \A k \in InTable' : tbl'[k].log \notin comp'.rm
  BY <1>1, <1>2, <1>3, <1>4
<1> QED BY <1>1, <1>2, <1>3, <1>4, <1>5 DEF CompInv

\* Every step keeps the logs a compaction removes free of records.
LEMMA NextCompInv ==
  ASSUME Types, FilesInv, WriterInv, CompInv, [Next]_vars
  PROVE  CompInv'
<1>1. ASSUME comp.st = "idle", comp' = comp
      PROVE  CompInv'
  BY <1>1, NoCompaction DEF CompInv
<1>2. ASSUME NEW k \in Keys, WriteLog(k) \/ WriteFailed(k) \/ AddRecord(k) \/ FinishWrite(k)
      PROVE  CompInv'
  <2>1. comp' = comp
    BY <1>2 DEF WriteLog, WriteFailed, AddRecord, FinishWrite
  <2>2. comp.st = "idle"
    BY <1>2 DEF WriteLog, WriteFailed, AddRecord, FinishWrite, WriterInv, Owns
  <2> QED BY <1>1, <2>1, <2>2
<1>3. ASSUME UNCHANGED <<tbl, mode, lfs, comp>>, expired \subseteq expired'
      PROVE  CompInv'
  <2>1. InTable' = InTable /\ Kept' = Kept
    BY <1>3 DEF InTable, Kept
  <2>2. comp.exp \subseteq expired'
    BY <1>3 DEF CompInv
  <2> QED BY <1>3, <2>1, <2>2 DEF CompInv
<1>4. ASSUME NEW k \in Keys, Expire(k)
      PROVE  CompInv'
  BY <1>3, <1>4 DEF Expire, disk
<1>5. ASSUME NEW id \in Ids, CompactRemove(id) \/ CompactRemoveFails(id)
      PROVE  CompInv'
  <2>0. comp \in Comps
    BY DEF Types
  <2>1. /\ id \in comp.rm /\ comp' = [comp EXCEPT !.rm = @ \ {id}]
        /\ UNCHANGED <<tbl, mode, expired>>
    BY <1>5 DEF CompactRemove, CompactRemoveFails, ghost
  <2>2. comp'.st = comp.st /\ comp'.exp = comp.exp /\ comp'.rm = comp.rm \ {id}
    BY <2>0, <2>1 DEF Comps
  <2>3. comp.st # "idle" /\ comp.st # "rewrite" /\ mode = "up" /\ comp.exp \subseteq expired
        /\ \A k \in InTable : tbl[k].log \notin comp.rm
    BY <2>1, IdleTypes DEF CompInv
  <2>4. InTable' = InTable
    BY <2>1 DEF InTable
  <2> QED BY <2>1, <2>2, <2>3, <2>4 DEF CompInv
<1>6. CASE CompactNothing \/ CompactFailed \/ CompactFinish \/ Crash
  BY <1>6, NoCompaction DEF CompactNothing, CompactFailed, CompactFinish, Crash
<1>7. ASSUME mode # "up", comp' = comp
      PROVE  CompInv'
  BY <1>1, <1>7 DEF CompInv
<1>8. CASE OpenStart \/ OpenAmnesty \/ OpenDone \/ OpenFail \/ OpenMisconfigured \/ WriteCloseHint
  BY <1>7, <1>8 DEF OpenStart, OpenAmnesty, OpenDone, OpenFail, OpenMisconfigured, CloseFiles,
     WriteCloseHint, FilesInv
<1>9. ASSUME NEW id \in Ids, OpenLog(id) \/ OpenMissing(id)
      PROVE  CompInv'
  BY <1>7, <1>9 DEF OpenLog, OpenMissing
<1>10. CASE Close
  BY <1>1, <1>10 DEF Close, CloseFiles
<1>11. CASE UNCHANGED vars
  BY <1>3, <1>11 DEF vars, disk, ghost
<1> QED BY <1>2, <1>4, <1>5, <1>6, <1>8, <1>9, <1>10, <1>11, BeginCompInv, SelectCompInv, RewriteCompInv,
           CommitCompInv DEF Next

\* LeftInv stays when records stay, and nothing more is left.
LEMMA StillLeft ==
  ASSUME LeftInv, tbl' = tbl, left' \subseteq left, comp'.st = "rewrite" => comp' = comp
  PROVE  LeftInv'
<1>1. InTable' = InTable
  BY DEF InTable
<1>2. comp'.st = "rewrite" => Kept' = Kept
  BY <1>1 DEF Kept
<1> QED BY <1>1, <1>2 DEF LeftInv

\* A log that a writer appends to is known, and so none that could not be removed.
LEMMA AddRecordLeft ==
  ASSUME Types, FilesInv, WriterInv, LeftInv, NEW k \in Keys, AddRecord(k)
  PROVE  LeftInv'
<1>1. /\ w[k].st = "appended" /\ tbl' = [tbl EXCEPT ![k] = w[k].rec]
      /\ UNCHANGED <<comp, left>>
  BY DEF AddRecord
<1>2. mode = "up" /\ comp.st = "idle" /\ w[k].rec.log \in lfs
  BY <1>1 DEF WriterInv, Owns
<1>3. w[k].rec.log \notin left
  BY <1>2 DEF FilesInv
<1>4. tbl'[k] = w[k].rec /\ \A j \in Keys : j # k => tbl'[j] = tbl[j]
  BY <1>1 DEF Types, Table
<1>5. \A j \in InTable' : tbl'[j].log \notin left'
  BY <1>1, <1>3, <1>4 DEF LeftInv, InTable
<1> QED BY <1>1, <1>2, <1>5 DEF LeftInv

\* A compaction removes logs that no record points to.
LEMMA RemoveFailsLeft ==
  ASSUME Types, CompInv, LeftInv, NEW id \in Ids, CompactRemoveFails(id)
  PROVE  LeftInv'
<1>1. /\ id \in comp.rm /\ comp' = [comp EXCEPT !.rm = @ \ {id}] /\ left' = left \cup {id}
      /\ tbl' = tbl
  BY DEF CompactRemoveFails
<1>2. comp'.st = comp.st
  BY <1>1 DEF Types, Comps
<1>3. comp.st # "rewrite" /\ \A k \in InTable : tbl[k].log # id
  BY <1>1 DEF CompInv
<1>4. InTable' = InTable
  BY <1>1 DEF InTable
<1> QED BY <1>1, <1>2, <1>3, <1>4 DEF LeftInv

\* The next table starts with records of the one in place.
LEMMA SelectLeft ==
  ASSUME Types, LeftInv, CompactSelect
  PROVE  LeftInv'
<1>1. comp'.exp = comp.exp /\ \A k \in Keys : comp'.new[k] = IF k \in Kept THEN tbl[k] ELSE NoRec
  BY SelectFacts
<1>2. UNCHANGED <<tbl, left>>
  BY DEF CompactSelect, disk
<1>3. InTable' = InTable /\ Kept' = Kept /\ Kept \subseteq InTable /\ InTable \subseteq Keys
  BY <1>1, <1>2 DEF InTable, Kept
<1>4. \A k \in Kept' : comp'.new[k].log \notin left'
  BY <1>1, <1>2, <1>3 DEF LeftInv
<1> QED BY <1>2, <1>3, <1>4 DEF LeftInv

\* A rewrite copies to a known log or to a new one.
LEMMA RewriteLeft ==
  ASSUME Types, FilesInv, CompInv, LeftInv, NEW k \in Keys, RewriteRecord(k)
  PROVE  LeftInv'
<1>0. comp \in Comps /\ comp.st = "rewrite" /\ k \in comp.pending /\ mode = "up"
      /\ UNCHANGED <<tbl, left>>
  BY DEF Types, RewriteRecord, CompInv
<1>1. PICK id \in Ids, piece \in Pieces :
        /\ Grows(id, piece)
        /\ comp' = [comp EXCEPT !.pending = @ \ {k}, !.new[k] = [log |-> id, off |-> Len(files'[id].recs)]]
  BY RewriteGrows
<1>2. id \notin left
  BY <1>0, <1>1 DEF Grows, FilesInv, Types
<1> DEFINE rec == [log |-> id, off |-> Len(files'[id].recs)]
<1>3. rec.log = id
  OBVIOUS
<1>4. comp' = [comp EXCEPT !.pending = @ \ {k}, !.new[k] = rec]
  BY <1>1
<1> HIDE DEF rec
<1>5. comp'.exp = comp.exp /\ comp'.new = [comp.new EXCEPT ![k] = rec]
  BY <1>0, <1>4 DEF Comps
<1>6. comp'.new[k] = rec /\ \A j \in Keys : j # k => comp'.new[j] = comp.new[j]
  BY <1>0, <1>5, CompFields DEF Table
<1>7. InTable' = InTable /\ Kept' = Kept /\ Kept \subseteq Keys
  BY <1>0, <1>5 DEF InTable, Kept
<1>8. \A j \in Kept' : comp'.new[j].log \notin left'
  BY <1>0, <1>2, <1>3, <1>6, <1>7 DEF LeftInv
<1> QED BY <1>0, <1>7, <1>8 DEF LeftInv

\* The records that the committed table has were in the next table.
LEMMA CommitLeft ==
  ASSUME Types, CompInv, LeftInv, CompactCommit
  PROVE  LeftInv'
<1>1. comp.st = "rewrite" /\ left' = left /\ comp'.st = "finish"
  <2>1. comp \in Comps /\ comp' = [comp EXCEPT !.st = "finish", !.rm = comp.rewrite]
    BY DEF Types, CompactCommit
  <2> QED BY <2>1 DEF CompactCommit, Comps
<1>2. tbl' = comp.new /\ InTable' = Kept
  BY CommitCompInv
<1> QED BY <1>1, <1>2 DEF LeftInv

\* Every step keeps the logs that could not be removed free of records.
LEMMA NextLeftInv ==
  ASSUME Types, FilesInv, WriterInv, CompInv, LeftInv, [Next]_vars
  PROVE  LeftInv'
<1>1. ASSUME NEW k \in Keys, WriteLog(k) \/ WriteFailed(k) \/ FinishWrite(k) \/ Expire(k)
      PROVE  LeftInv'
  BY <1>1, StillLeft DEF WriteLog, WriteFailed, FinishWrite, Expire, disk
<1>2. ASSUME NEW id \in Ids, CompactRemove(id)
      PROVE  LeftInv'
  <2>1. comp'.st = comp.st /\ comp.st # "rewrite"
    <3>1. comp' = [comp EXCEPT !.rm = @ \ {id}] /\ id \in comp.rm
      BY <1>2 DEF CompactRemove
    <3> QED BY <3>1 DEF Types, Comps, CompInv
  <2> QED BY <1>2, <2>1, StillLeft DEF CompactRemove
<1>3. CASE CompactBegin
  <2>1. comp'.st = "unlink"
    <3> DEFINE dead == lfs \ {tbl[k].log : k \in InTable}
    <3>1. comp' = [NoComp EXCEPT !.st = "unlink", !.exp = expired, !.rm = dead]
      BY <1>3 DEF CompactBegin
    <3>2. dead \in SUBSET Ids /\ expired \in SUBSET Keys
      BY DEF Types
    <3> HIDE DEF dead
    <3> QED BY <3>1, <3>2, CompBegins
  <2> QED BY <1>3, <2>1, StillLeft DEF CompactBegin, disk
<1>4. CASE CompactNothing \/ CompactFailed \/ CompactFinish
  <2>1. comp' = NoComp /\ tbl' = tbl /\ left' = left
    BY <1>4 DEF CompactNothing, CompactFailed, CompactFinish, disk
  <2> QED BY <2>1, IdleTypes, StillLeft
<1>5. ASSUME left' = {}, comp'.st # "rewrite"
      PROVE  LeftInv'
  BY <1>5 DEF LeftInv
<1>6. CASE Crash
  BY <1>5, <1>6, IdleTypes DEF Crash
<1>7. CASE mode # "up" /\ ((OpenStart \/ OpenAmnesty \/ OpenDone \/ WriteCloseHint)
                          \/ \E id \in Ids : OpenLog(id) \/ OpenMissing(id))
  <2>1. comp.st = "idle" /\ left = {}
    BY <1>7 DEF CompInv, FilesInv
  <2>2. comp' = comp /\ left' = left
    BY <1>7 DEF OpenStart, OpenAmnesty, OpenDone, WriteCloseHint, OpenLog, OpenMissing
  <2> QED BY <1>5, <2>1, <2>2
<1>8. (OpenStart \/ OpenAmnesty \/ OpenDone \/ WriteCloseHint)
        \/ (\E id \in Ids : OpenLog(id) \/ OpenMissing(id)) => mode # "up"
  BY DEF OpenStart, OpenAmnesty, OpenDone, WriteCloseHint, OpenLog, OpenMissing, FilesInv
<1>9. CASE OpenFail \/ OpenMisconfigured \/ Close
  <2>1. comp' = comp /\ left' = {}
    BY <1>9 DEF OpenFail, OpenMisconfigured, Close, CloseFiles
  <2>2. comp.st # "rewrite"
    BY <1>9 DEF OpenFail, OpenMisconfigured, Close, CompInv
  <2> QED BY <1>5, <2>1, <2>2
<1>10. CASE UNCHANGED vars
  BY <1>10, StillLeft DEF vars, disk
<1> QED BY <1>1, <1>2, <1>3, <1>4, <1>6, <1>7, <1>8, <1>9, <1>10, AddRecordLeft, RemoveFailsLeft, SelectLeft,
           RewriteLeft, CommitLeft DEF Next

-----------------------------------------------------------------------------
(***************************************************************************)
(* Records point to their pieces, unless the machine loses what was not    *)
(* synced.                                                                 *)
(***************************************************************************)

\* What is at rec stays there when no log and no piece goes.
LEMMA SamePieces ==
  ASSUME DOMAIN files' = DOMAIN files, \A id \in DOMAIN files : files'[id].recs = files[id].recs,
         NEW rec, NEW k, Holds(rec, k)
  PROVE  Holds(rec, k)'
BY DEF Holds

\* FinishWrite, opening a log and CloseFiles sync logs and change no piece.
LEMMA ClosedPieces ==
  ASSUME Types, NEW ids, files' = CloseLogs(ids) \/ files' = files
  PROVE  DOMAIN files' = DOMAIN files /\ \A id \in DOMAIN files : files'[id].recs = files[id].recs
BY CloseLogsFacts

\* What StillPointed needs of the other variables.
PointsLeft ==
  /\ Live' \subseteq InTable \cup amnesty' /\ report' = {}
  /\ comp'.st = "rewrite" => comp' = comp
  /\ mode' = "opening" => \A k \in Keys : tails'[k] # NoRec => tails'[k].log \in DOMAIN files'
  /\ \A k \in Keys : w'[k].st = "appended" => ~(tbl[k].log = w'[k].rec.log /\ tbl[k].off = w'[k].rec.off)

\* PointedInv stays when records and pieces stay.
LEMMA StillPointed ==
  ASSUME PointedInv, PointsLeft, tbl' = tbl, \A rec, k : Holds(rec, k) => Holds(rec, k)'
  PROVE  PointedInv'
<1>1. InTable' = InTable
  BY DEF InTable
<1>2. \A k \in InTable' : Holds(tbl[k], k)'
  BY <1>1 DEF PointedInv
<1>3. comp'.st = "rewrite" => \A k \in Kept' : Holds(comp.new[k], k)'
  <2> HAVE comp'.st = "rewrite"
  <2>1. comp' = comp /\ Kept' = Kept
    BY <1>1 DEF Kept, PointsLeft
  <2>2. \A k \in Kept : Holds(comp.new[k], k)
    BY <2>1 DEF PointedInv
  <2> QED BY <2>1, <2>2
<1> QED BY <1>1, <1>2, <1>3 DEF PointedInv, PointsLeft

\* A new piece is where no record points to.
LEMMA WriteLogPointed ==
  ASSUME Types, FilesInv, CompInv, PointedInv, NEW k \in Keys, WriteLog(k)
  PROVE  PointedInv'
<1>1. mode = "up" /\ comp.st = "idle" /\ k \in Pieces
  BY WriteLogGrows
<1>2. PICK id \in Ids :
        /\ Grows(id, k)
        /\ w' = [w EXCEPT ![k] = [st |-> "appended", rec |-> [log |-> id, off |-> Len(files'[id].recs)]]]
        /\ [log |-> id, off |-> Len(files'[id].recs)] \in Rec
  BY WriteLogGrows
<1>3. UNCHANGED <<tbl, mode, comp, report, acked, expired, amnesty>>
  BY DEF WriteLog, ghost
<1>4. \A rec, j : Holds(rec, j) => Holds(rec, j)' /\ ~(rec.log = id /\ rec.off = Len(files'[id].recs))
  BY <1>1, <1>2, GrowsFacts
<1>5. ~(tbl[k].log = id /\ tbl[k].off = Len(files'[id].recs))
  <2>1. tbl[k].log = id => k \in InTable
    BY FileFacts, RecFacts DEF InTable
  <2>2. tbl[k].log = id => Holds(tbl[k], k)
    BY <2>1 DEF PointedInv
  <2> QED BY <1>4, <2>2
<1>6. /\ w'[k].rec.log = id /\ w'[k].rec.off = Len(files'[id].recs)
      /\ \A j \in Keys : j # k => w'[j] = w[j]
  BY <1>2 DEF Types
<1>7. PointsLeft
  <2>1. \A j \in Keys : w'[j].st = "appended" => ~(tbl[j].log = w'[j].rec.log /\ tbl[j].off = w'[j].rec.off)
    BY <1>5, <1>6 DEF PointedInv
  <2>2. Live' \subseteq InTable \cup amnesty' /\ report' = {}
    BY <1>3 DEF PointedInv, Live
  <2> QED BY <1>1, <1>3, <2>1, <2>2 DEF PointsLeft
<1> QED BY <1>3, <1>4, <1>7, StillPointed

\* A failed write loses its own piece, which no record points to.
LEMMA WriteFailedPointed ==
  ASSUME Types, FilesInv, WriterInv, CompInv, PointedInv, NEW k \in Keys, WriteFailed(k)
  PROVE  PointedInv'
<1> DEFINE id == w[k].rec.log
           off == w[k].rec.off
<1>1. /\ w[k].st = "appended" /\ id \in lfs /\ id \in DOMAIN files
      /\ DOMAIN files' = DOMAIN files
      /\ \A i \in DOMAIN files : i # id => files'[i] = files[i]
      /\ \A i \in DOMAIN files[id].recs :
           i # off => i \in DOMAIN files'[id].recs /\ files'[id].recs[i] = files[id].recs[i]
  BY WriteFailedFacts
<1>2. mode = "up" /\ comp.st = "idle" /\ files[id].recs[off] = k
  BY <1>1 DEF WriterInv, Owns
<1>3. ~(tbl[k].log = id /\ tbl[k].off = off)
  BY <1>1 DEF PointedInv
<1>4. UNCHANGED <<tbl, mode, comp, report, acked, expired, amnesty>>
  BY DEF WriteFailed, ghost
<1>5. \A j \in Keys : w'[j].st = "appended" => w'[j] = w[j]
  BY IdleTypes DEF WriteFailed, Types
<1> HIDE DEF id, off
<1>6. InTable' = InTable
  BY <1>4 DEF InTable
<1>7. ASSUME NEW j \in InTable
      PROVE  Holds(tbl[j], j)'
  <2>1. /\ tbl[j].log \in DOMAIN files /\ tbl[j].off \in DOMAIN files[tbl[j].log].recs
        /\ files[tbl[j].log].recs[tbl[j].off] = j
    BY <1>7 DEF PointedInv, Holds
  <2>2. CASE tbl[j].log = id
    <3>1. tbl[j].off # off
      BY <1>2, <1>3, <2>1, <2>2
    <3>2. tbl[j].off \in DOMAIN files'[id].recs /\ files'[id].recs[tbl[j].off] = j
      BY <1>1, <2>1, <2>2, <3>1
    <3> QED BY <1>1, <1>4, <2>2, <3>2 DEF Holds
  <2>3. CASE tbl[j].log # id
    BY <1>1, <1>4, <2>1, <2>3 DEF Holds
  <2> QED BY <2>2, <2>3
<1>8. \A j \in Keys : w'[j].st = "appended" => ~(tbl'[j].log = w'[j].rec.log /\ tbl'[j].off = w'[j].rec.off)
  BY <1>4, <1>5 DEF PointedInv
<1>9. Live' \subseteq InTable' \cup amnesty' /\ report' = {} /\ mode' = "up" /\ comp'.st = "idle"
  BY <1>2, <1>4, <1>6 DEF PointedInv, Live
<1> QED BY <1>6, <1>7, <1>8, <1>9 DEF PointedInv

\* AddRecord: the record of the piece that was appended.
LEMMA AddRecordPointed ==
  ASSUME Types, FilesInv, WriterInv, PointedInv, NEW k \in Keys, AddRecord(k)
  PROVE  PointedInv'
<1> DEFINE rec == w[k].rec
<1>1. /\ w[k].st = "appended" /\ tbl' = [tbl EXCEPT ![k] = rec] /\ w' = [w EXCEPT ![k].st = "inserted"]
      /\ UNCHANGED <<files, mode, comp, report, acked, expired, amnesty>>
  BY DEF AddRecord, ghost
<1>2. /\ mode = "up" /\ comp.st = "idle" /\ rec # NoRec /\ rec.log \in lfs
      /\ rec.off = Len(files[rec.log].recs) /\ files[rec.log].recs[rec.off] = k
  BY <1>1 DEF WriterInv, Owns
<1>3. rec.log \in DOMAIN files /\ rec.off \in DOMAIN files[rec.log].recs
  <2>1. rec.log \in DOMAIN files /\ rec.off \in Nat \ {0}
    BY <1>2, FileFacts, RecFacts DEF FilesInv
  <2>2. \A n \in Nat \ {0} : n \in 1 .. n
    OBVIOUS
  <2>3. DOMAIN files[rec.log].recs = 1 .. Len(files[rec.log].recs)
    BY <2>1, FileFacts, LogFacts
  <2>4. rec.off \in 1 .. Len(files[rec.log].recs)
    BY <1>2, <2>1, <2>2
  <2> QED BY <2>1, <2>3, <2>4
<1> HIDE DEF rec
<1>4. tbl'[k] = rec /\ \A j \in Keys : j # k => tbl'[j] = tbl[j]
  BY <1>1 DEF Types, Table
<1>5. w'[k].st = "inserted" /\ \A j \in Keys : j # k => w'[j] = w[j]
  <2>1. w' = [w EXCEPT ![k] = [w[k] EXCEPT !.st = "inserted"]] /\ w[k] \in Writers
    BY <1>1, FileFacts
  <2>2. w'[k] = [w[k] EXCEPT !.st = "inserted"] /\ \A j \in Keys : j # k => w'[j] = w[j]
    BY <2>1 DEF Types
  <2> QED BY <2>1, <2>2 DEF Writers
<1>6. InTable' = InTable \cup {k}
  BY <1>2, <1>4 DEF InTable
<1>7. ASSUME NEW j \in InTable'
      PROVE  Holds(tbl[j], j)'
  <2>1. CASE j = k
    BY <1>1, <1>2, <1>3, <1>4, <2>1 DEF Holds
  <2>2. CASE j # k
    <3>1. Holds(tbl[j], j) /\ tbl'[j] = tbl[j]
      BY <1>4, <1>6, <2>2 DEF PointedInv, InTable
    <3> QED BY <1>1, <3>1 DEF Holds
  <2> QED BY <2>1, <2>2
<1>8. \A j \in Keys : w'[j].st = "appended" => ~(tbl'[j].log = w'[j].rec.log /\ tbl'[j].off = w'[j].rec.off)
  BY <1>4, <1>5 DEF PointedInv
<1>9. Live' \subseteq InTable' \cup amnesty' /\ report' = {} /\ mode' = "up" /\ comp'.st = "idle"
  BY <1>1, <1>2, <1>6 DEF PointedInv, Live
<1> QED BY <1>7, <1>8, <1>9 DEF PointedInv

\* FinishWrite: what is acknowledged has a record.
LEMMA FinishWritePointed ==
  ASSUME Types, WriterInv, PointedInv, NEW k \in Keys, FinishWrite(k)
  PROVE  PointedInv'
<1>1. w[k].st = "inserted" /\ mode = "up" /\ comp.st = "idle" /\ tbl[k] # NoRec
  BY DEF FinishWrite, WriterInv, Owns
<1>2. UNCHANGED <<tbl, mode, comp, report, expired, amnesty>> /\ acked' = acked \cup {k}
  BY DEF FinishWrite
<1>3. \A rec, j : Holds(rec, j) => Holds(rec, j)'
  <2>1. \E ids : files' = CloseLogs(ids) \/ files' = files
    BY DEF FinishWrite
  <2> QED BY <2>1, ClosedPieces, SamePieces
<1>4. \A j \in Keys : w'[j].st = "appended" => w'[j] = w[j]
  BY IdleTypes DEF FinishWrite, Types
<1>5. PointsLeft
  <2>1. \A j \in Keys : w'[j].st = "appended" => ~(tbl[j].log = w'[j].rec.log /\ tbl[j].off = w'[j].rec.off)
    BY <1>4 DEF PointedInv
  <2>2. Live' \subseteq InTable \cup amnesty' /\ report' = {}
    BY <1>1, <1>2 DEF PointedInv, Live, InTable
  <2> QED BY <1>1, <1>2, <2>1, <2>2 DEF PointsLeft
<1> QED BY <1>2, <1>3, <1>5, StillPointed

\* CompactRemove: no record points to the log that goes.
LEMMA RemovePointed ==
  ASSUME Types, WriterInv, CompInv, PointedInv, NEW id \in Ids, CompactRemove(id)
  PROVE  PointedInv'
<1>1. /\ id \in comp.rm /\ files' = Drop(files, id) /\ comp' = [comp EXCEPT !.rm = @ \ {id}]
      /\ UNCHANGED <<tbl, mode, w, report, acked, expired, amnesty>>
  BY DEF CompactRemove, ghost
<1>2. comp.st # "rewrite" /\ comp.st # "idle" /\ mode = "up" /\ \A k \in InTable : tbl[k].log # id
  BY <1>1, IdleTypes DEF CompInv
<1>3. comp'.st = comp.st
  BY <1>1 DEF Types, Comps
<1>4. DOMAIN files' = DOMAIN files \ {id} /\ \A i \in DOMAIN files \ {id} : files'[i] = files[i]
  BY <1>1 DEF Drop
<1>5. InTable' = InTable
  BY <1>1 DEF InTable
<1>6. \A k \in InTable : Holds(tbl[k], k)'
  BY <1>1, <1>2, <1>4 DEF PointedInv, Holds
<1>7. \A k \in Keys : w'[k].st = "appended" => ~(tbl'[k].log = w'[k].rec.log /\ tbl'[k].off = w'[k].rec.off)
  BY <1>1 DEF PointedInv
<1>8. Live' \subseteq InTable' \cup amnesty' /\ report' = {} /\ mode' = "up" /\ comp'.st # "rewrite"
  BY <1>1, <1>2, <1>3, <1>5 DEF PointedInv, Live
<1> QED BY <1>5, <1>6, <1>7, <1>8 DEF PointedInv

\* CompactSelect: the new table starts as the one in place.
LEMMA SelectPointed ==
  ASSUME Types, CompInv, PointedInv, CompactSelect
  PROVE  PointedInv'
<1>1. /\ comp.st = "unlink" /\ comp'.exp = comp.exp
      /\ \A k \in Keys : comp'.new[k] = IF k \in Kept THEN tbl[k] ELSE NoRec
  BY SelectFacts
<1>2. UNCHANGED <<files, tbl, mode, w, report, acked, expired, amnesty>> /\ mode = "up"
  BY <1>1 DEF CompactSelect, disk, ghost, CompInv
<1>3. InTable' = InTable /\ Kept' = Kept /\ Kept \subseteq InTable /\ InTable \subseteq Keys
  BY <1>1, <1>2 DEF InTable, Kept
<1>4. \A k \in InTable : Holds(tbl[k], k)'
  BY <1>2 DEF PointedInv, Holds
<1>5. \A k \in Kept' : Holds(comp.new[k], k)'
  <2> TAKE k \in Kept'
  <2>1. k \in InTable /\ k \in Keys /\ comp'.new[k] = tbl[k] /\ tbl' = tbl
    BY <1>1, <1>2, <1>3
  <2>2. Holds(tbl[k], k)'
    BY <1>4, <2>1
  <2> QED BY <2>1, <2>2 DEF Holds
<1>6. \A k \in Keys : w'[k].st = "appended" => ~(tbl'[k].log = w'[k].rec.log /\ tbl'[k].off = w'[k].rec.off)
  BY <1>2 DEF PointedInv
<1>7. Live' \subseteq InTable' \cup amnesty' /\ report' = {} /\ mode' = "up"
  BY <1>2, <1>3 DEF PointedInv, Live
<1> QED BY <1>3, <1>4, <1>5, <1>6, <1>7 DEF PointedInv

\* RewriteRecord: what is copied is the piece.
LEMMA RewritePointed ==
  ASSUME Types, FilesInv, CompInv, PointedInv, NEW k \in Keys, RewriteRecord(k)
  PROVE  PointedInv'
<1>0. comp \in Comps /\ comp.st = "rewrite" /\ k \in comp.pending /\ mode = "up"
  BY DEF Types, RewriteRecord, CompInv
<1>1. PICK id \in Ids, piece \in Pieces :
        /\ Grows(id, piece)
        /\ piece = files[tbl[k].log].recs[tbl[k].off]
        /\ comp' = [comp EXCEPT !.pending = @ \ {k}, !.new[k] = [log |-> id, off |-> Len(files'[id].recs)]]
  BY RewriteGrows
<1>2. k \in Kept /\ Kept \subseteq InTable /\ InTable \subseteq Keys
  BY <1>0 DEF CompInv, Kept, InTable
<1>3. piece = k
  BY <1>1, <1>2 DEF PointedInv, Holds
<1> DEFINE rec == [log |-> id, off |-> Len(files'[id].recs)]
           copied == [comp EXCEPT !.pending = @ \ {k}, !.new[k] = rec]
<1>4. rec \in Rec /\ rec.log = id /\ rec.off = Len(files'[id].recs)
  BY <1>1, GrowsFacts, RecFacts
<1>5. comp' = copied
  BY <1>1
<1> HIDE DEF rec
<1>6. copied.exp = comp.exp /\ copied.new = [comp.new EXCEPT ![k] = rec]
  BY <1>0, <1>4 DEF Comps
<1> HIDE DEF copied
<1>7. comp'.new[k] = rec /\ \A j \in Keys : j # k => comp'.new[j] = comp.new[j]
  BY <1>0, <1>5, <1>6, CompFields DEF Table
<1>8. UNCHANGED <<tbl, mode, w, report, acked, expired, amnesty>>
  BY DEF RewriteRecord, ghost
<1>9. InTable' = InTable /\ Kept' = Kept
  BY <1>5, <1>6, <1>8 DEF InTable, Kept
<1>10. \A r, j : Holds(r, j) => Holds(r, j)'
  BY <1>1, GrowsFacts
<1>11. \A r : r.log = id /\ r.off = Len(files'[id].recs) => Holds(r, k)'
  BY <1>1, <1>3, GrowsFacts
<1>12. \A j \in InTable : Holds(tbl[j], j)'
  <2>1. \A j \in InTable : Holds(tbl[j], j)
    BY DEF PointedInv
  <2> QED BY <1>8, <1>10, <2>1
<1>13. \A j \in Kept : Holds(comp.new[j], j)'
  <2> TAKE j \in Kept
  <2>1. CASE j = k
    BY <1>4, <1>7, <1>11, <2>1 DEF Holds
  <2>2. CASE j # k
    <3>1. Holds(comp.new[j], j) /\ comp'.new[j] = comp.new[j]
      BY <1>0, <1>2, <1>7, <2>2 DEF PointedInv
    <3> QED BY <1>10, <3>1 DEF Holds
  <2> QED BY <2>1, <2>2
<1>14. \A j \in Keys : w'[j].st = "appended" => ~(tbl'[j].log = w'[j].rec.log /\ tbl'[j].off = w'[j].rec.off)
  BY <1>8 DEF PointedInv
<1>15. Live' \subseteq InTable' \cup amnesty' /\ report' = {} /\ mode' = "up"
  BY <1>0, <1>8, <1>9 DEF PointedInv, Live
<1> QED BY <1>9, <1>12, <1>13, <1>14, <1>15 DEF PointedInv

\* CompactCommit: the new table has what was acknowledged and is not expired.
LEMMA CommitPointed ==
  ASSUME Types, WriterInv, CompInv, PointedInv, CompactCommit
  PROVE  PointedInv'
<1>0. comp \in Comps /\ comp.st = "rewrite" /\ mode = "up"
  BY DEF Types, CompactCommit, CompInv
<1>1. tbl' = comp.new /\ InTable' = Kept /\ \A k \in Keys : w[k].st = "idle"
  BY <1>0, CommitCompInv DEF WriterInv, Owns
<1>2. UNCHANGED <<files, mode, w, report, acked, expired, amnesty>> /\ comp'.st = "finish"
  BY <1>0 DEF CompactCommit, ghost, Comps
<1>3. \A k \in Kept : Holds(comp.new[k], k)
  BY <1>0 DEF PointedInv
<1>4. \A k \in InTable' : Holds(tbl[k], k)'
  BY <1>1, <1>2, <1>3 DEF Holds
<1>5. Live' \subseteq InTable' \cup amnesty'
  <2>1. Live \subseteq InTable \cup amnesty /\ comp.exp \subseteq expired
    BY DEF PointedInv, CompInv
  <2> QED BY <1>1, <1>2, <2>1 DEF Live, Kept
<1>6. report' = {} /\ mode' = "up" /\ \A k \in Keys : w'[k].st = "idle"
  BY <1>0, <1>1, <1>2 DEF PointedInv
<1> QED BY <1>2, <1>4, <1>5, <1>6 DEF PointedInv

\* OpenLog: a record whose log is opened is not invalid, as the log has the piece.
LEMMA OpenLogPointed ==
  ASSUME Types, FilesInv, WriterInv, CompInv, PointedInv, NEW id \in Ids, OpenLog(id)
  PROVE  PointedInv'
<1> DEFINE recs == files[id].recs
<1>1. /\ mode = "opening" /\ report = {} /\ id \in DOMAIN files /\ recs \in Seq(Pieces)
      /\ DOMAIN files' = DOMAIN files /\ \A i \in DOMAIN files : files'[i].recs = files[i].recs
  BY OpenLogFacts
<1>2. UNCHANGED <<mode, tails, w, comp, acked, expired, amnesty>>
  BY DEF OpenLog, ghost
<1>3. Invalid(id, recs) = {}
  <2> SUFFICES ASSUME NEW k \in Keys, tbl[k].log = id
               PROVE  k \in InLog(recs)
    BY DEF Invalid
  <2>1. k \in InTable
    BY FileFacts, RecFacts DEF InTable
  <2>2. tbl[k].off \in DOMAIN recs /\ recs[tbl[k].off] = k
    BY <2>1 DEF PointedInv, Holds
  <2> QED BY <2>2 DEF InLog
<1>4. /\ report' = {}
      /\ \A k \in Keys :
           \/ tbl'[k] = tbl[k]
           \/ /\ tbl'[k] # NoRec /\ tbl'[k].log = id
              /\ tbl'[k].off \in DOMAIN recs /\ recs[tbl'[k].off] = k
  <2>1. CASE ReconcileLog(id, recs)
    BY <1>1, <1>3, <2>1, ReconciledFacts DEF ReconcileLog
  <2>2. CASE UNCHANGED <<tbl, tblSynced, report>>
    BY <1>1, <2>2
  <2> QED BY <2>1, <2>2 DEF OpenLog
<1>5. DOMAIN files' = DOMAIN files /\ files'[id].recs = recs
  BY <1>1
<1> HIDE DEF recs
<1>6. ASSUME NEW k \in InTable'
      PROVE  Holds(tbl[k], k)'
  <2>1. k \in Keys /\ tbl'[k] # NoRec
    BY <1>6 DEF InTable
  <2>2. CASE tbl'[k] = tbl[k]
    <3>1. Holds(tbl[k], k)
      BY <2>1, <2>2 DEF PointedInv, InTable
    <3>2. Holds(tbl[k], k) => /\ tbl[k].log \in DOMAIN files' /\ tbl[k].off \in DOMAIN files'[tbl[k].log].recs
                              /\ files'[tbl[k].log].recs[tbl[k].off] = k
      BY <1>1 DEF Holds
    <3> QED BY <2>2, <3>1, <3>2 DEF Holds
  <2>3. CASE tbl'[k].log = id /\ tbl'[k].off \in DOMAIN recs /\ recs[tbl'[k].off] = k
    BY <1>1, <1>5, <2>3 DEF Holds
  <2> QED BY <1>4, <2>1, <2>2, <2>3
<1>7. \A k \in Keys : w[k].st = "idle" /\ comp.st = "idle"
  BY <1>1 DEF WriterInv, Owns, CompInv
<1>8. \A k \in Keys : w'[k].st = "idle" /\ comp'.st = "idle"
  BY <1>2, <1>7
<1>9. Live' \subseteq InTable' \cup amnesty'
  <2>1. Live' = Live /\ Live \subseteq InTable \cup amnesty /\ InTable \subseteq InTable'
    BY <1>2, <1>4 DEF Live, PointedInv, InTable
  <2> QED BY <1>2, <2>1
<1>10. comp'.st = "idle"
  BY <1>1, <1>2 DEF CompInv
<1>11. \A k \in Keys : tails'[k] # NoRec => tails'[k].log \in DOMAIN files'
  BY <1>1, <1>2 DEF PointedInv
<1> QED BY <1>4, <1>6, <1>8, <1>9, <1>10, <1>11 DEF PointedInv

\* Every step but a crash that loses something keeps records and pieces together.
LEMMA NextPointedInv ==
  ASSUME ~PowerLoss \/ ~Crash, Types, FilesInv, WriterInv, CompInv, PointedInv, [Next]_vars
  PROVE  PointedInv' /\ amnesty' = amnesty
<1>0. /\ Live \subseteq InTable \cup amnesty /\ report = {}
      /\ mode = "opening" => \A k \in Keys : tails[k] # NoRec => tails[k].log \in DOMAIN files
      /\ \A k \in Keys : w[k].st = "appended" => ~(tbl[k].log = w[k].rec.log /\ tbl[k].off = w[k].rec.off)
  BY DEF PointedInv
<1>1. ASSUME UNCHANGED <<tbl, report, amnesty>>, \E ids : files' = CloseLogs(ids) \/ files' = files,
             acked' = acked, expired \subseteq expired', comp'.st = "rewrite" => comp' = comp,
             mode' = "opening" => (mode = "opening" /\ tails' = tails) \/ tails' = tbl,
             w' = w \/ \A k \in Keys : w'[k].st = "idle"
      PROVE  PointedInv' /\ amnesty' = amnesty
  <2>1. /\ DOMAIN files' = DOMAIN files /\ \A rec, k : Holds(rec, k) => Holds(rec, k)'
    BY <1>1, ClosedPieces, SamePieces
  <2>2. \A k \in InTable : tbl[k].log \in DOMAIN files
    BY DEF PointedInv, Holds
  <2>3. mode' = "opening" => \A k \in Keys : tails'[k] # NoRec => tails'[k].log \in DOMAIN files'
    BY <1>0, <1>1, <2>1, <2>2 DEF InTable
  <2>4. Live' \subseteq InTable \cup amnesty' /\ report' = {}
    BY <1>0, <1>1 DEF Live
  <2>5. \A k \in Keys : w'[k].st = "appended" => ~(tbl[k].log = w'[k].rec.log /\ tbl[k].off = w'[k].rec.off)
    BY <1>0, <1>1
  <2>6. PointsLeft
    BY <1>1, <2>3, <2>4, <2>5 DEF PointsLeft
  <2> QED BY <1>1, <2>1, <2>6, StillPointed
<1>2. ASSUME NEW k \in Keys, Expire(k)
      PROVE  PointedInv' /\ amnesty' = amnesty
  BY <1>1, <1>2 DEF Expire, disk
<1>3. CASE CompactBegin
  <2>1. comp'.st = "unlink"
    <3> DEFINE dead == lfs \ {tbl[k].log : k \in InTable}
    <3>1. /\ dead \in SUBSET Ids /\ expired \in SUBSET Keys
          /\ comp' = [NoComp EXCEPT !.st = "unlink", !.exp = expired, !.rm = dead]
      BY <1>3 DEF Types, CompactBegin
    <3> HIDE DEF dead
    <3> QED BY <3>1, CompBegins
  <2>2. mode' = "up" /\ w' = w /\ UNCHANGED <<files, tbl, report, acked, expired, amnesty>>
    BY <1>3 DEF CompactBegin, disk, ghost
  <2> QED BY <1>1, <2>1, <2>2
<1>4. CASE CompactNothing \/ CompactFinish \/ CompactFailed
  <2>1. comp'.st = "idle" /\ UNCHANGED <<files, tbl, report, acked, expired, amnesty, w, mode>> /\ mode = "up"
    BY <1>4, IdleTypes DEF CompactNothing, CompactFinish, CompactFailed, CompInv, disk, ghost
  <2> QED BY <1>1, <2>1
<1>15. ASSUME NEW id \in Ids, CompactRemoveFails(id)
       PROVE  PointedInv' /\ amnesty' = amnesty
  <2>1. /\ files' = CloseLogs({id}) /\ UNCHANGED <<tbl, report, acked, expired, amnesty, w, mode>>
        /\ comp' = [comp EXCEPT !.rm = @ \ {id}] /\ id \in comp.rm
    BY <1>15 DEF CompactRemoveFails, ghost
  <2>2. comp.st # "rewrite" /\ mode = "up"
    BY <2>1, IdleTypes DEF CompInv
  <2>3. comp'.st # "rewrite" /\ mode' = "up"
    BY <2>1, <2>2, CompRemoves DEF Types
  <2> QED BY <1>1, <2>1, <2>3
<1>5. CASE OpenStart
  BY <1>1, <1>5 DEF OpenStart, disk, ghost
<1>6. ASSUME NEW id \in Ids, OpenMissing(id)
      PROVE  FALSE
  <2>1. PICK k \in Keys : tails[k].log = id
    BY <1>6 DEF OpenMissing
  <2>2. mode = "opening" /\ todo = {} /\ id \notin lfs
    BY <1>6 DEF OpenMissing
  <2>3. tails[k] # NoRec
    BY <2>1, FileFacts, RecFacts
  <2>4. id \in DOMAIN files
    BY <1>0, <2>1, <2>2, <2>3
  <2> QED BY <2>2, <2>4 DEF FilesInv
<1>7. CASE OpenAmnesty
  BY <1>0, <1>7 DEF OpenAmnesty
<1>8. CASE OpenDone
  BY <1>1, <1>8 DEF OpenDone, ghost
<1>9. ASSUME NEW ids, NEW max, CloseFiles(ids, max)
      PROVE  PointedInv' /\ amnesty' = amnesty
  <2>1. /\ files' = CloseLogs(ids) /\ mode' = "down"
        /\ UNCHANGED <<tbl, report, acked, expired, amnesty, w, comp>>
    BY <1>9 DEF CloseFiles, ghost
  <2> QED BY <1>1, <2>1
<1>10. CASE OpenFail \/ OpenMisconfigured \/ Close
  BY <1>9, <1>10 DEF OpenFail, OpenMisconfigured, Close
<1>11. CASE WriteCloseHint
  BY <1>1, <1>11 DEF WriteCloseHint, ghost
<1>12. CASE Crash
  <2>1. files' = files /\ tbl' = tbl /\ comp'.st = "idle" /\ mode' = "down" /\ report' = {}
        /\ UNCHANGED <<acked, expired, amnesty>> /\ \A k \in Keys : w'[k].st = "idle"
    BY <1>12, IdleTypes, CrashFacts DEF Crash, ghost
  <2> QED BY <1>0, <1>1, <2>1
<1>13. CASE UNCHANGED vars
  BY <1>1, <1>13 DEF vars, disk, ghost
<1>14. ASSUME \/ \E k \in Keys : \/ WriteLog(k) \/ WriteFailed(k) \/ AddRecord(k) \/ FinishWrite(k)
                               \/ RewriteRecord(k)
              \/ CompactSelect \/ CompactCommit \/ \E id \in Ids : CompactRemove(id) \/ OpenLog(id)
       PROVE  amnesty' = amnesty
  BY <1>14 DEF WriteLog, WriteFailed, AddRecord, FinishWrite, RewriteRecord, CompactSelect, CompactCommit,
               CompactRemove, OpenLog, ghost
<1> QED BY <1>2, <1>3, <1>4, <1>5, <1>6, <1>7, <1>8, <1>10, <1>11, <1>12, <1>13, <1>14, <1>15, WriteLogPointed,
           WriteFailedPointed, AddRecordPointed, FinishWritePointed, RemovePointed, SelectPointed,
           RewritePointed, CommitPointed, OpenLogPointed DEF Next

-----------------------------------------------------------------------------
(***************************************************************************)
(* Theorems.                                                               *)
(***************************************************************************)

\* The store starts with no log, no record, and no process.
LEMMA InitInv == Init => Inv
<1> SUFFICES ASSUME Init
             PROVE  Inv
  OBVIOUS
<1>1. /\ files = <<>> /\ DOMAIN files = {} /\ tbl = [k \in Keys |-> NoRec] /\ tblSynced = tbl /\ tails = tbl
      /\ hint = NoHint /\ late = NoLate /\ mode = "down" /\ todo = {} /\ lfs = {} /\ open = {} /\ maxLog = 0
      /\ w = [k \in Keys |-> NoWriter] /\ comp = NoComp
      /\ report = {} /\ acked = {} /\ expired = {} /\ amnesty = {} /\ left = {}
  BY DEF Init
<1>2. InTable = {} /\ \A k \in Keys : w[k].st = "idle"
  BY <1>1, IdleTypes DEF InTable
<1>3. Types
  <2>1. files \in [DOMAIN files -> Log]
    BY <1>1
  <2> QED BY <1>1, <2>1, IdleTypes DEF Types
<1>4. FilesInv /\ HintInv
  BY <1>1 DEF FilesInv, HintInv
<1>5. WriterInv
  BY <1>2 DEF WriterInv
<1>6. CompInv
  <2>1. NoComp.st = "idle" /\ NoComp.exp = {}
    BY DEF NoComp
  <2> QED BY <1>1, <1>2, <2>1 DEF CompInv
<1>7. PointedInv
  BY <1>1, <1>2, IdleTypes DEF PointedInv, Live
<1>8. LeftInv
  BY <1>1 DEF LeftInv
<1> QED BY <1>1, <1>3, <1>4, <1>5, <1>6, <1>7, <1>8 DEF Inv

\* The inductive invariant: every reachable state, whatever is appended, compacted,
\* opened, closed or stopped.
THEOREM Invariance == Spec => []Inv
<1>1. Inv /\ [Next]_vars => Inv'
  BY NextTypes, NextFilesInv, NextWriterInv, NextCompInv, NextLeftInv, NextHintInv, NextPointedInv DEF Inv
<1> QED BY <1>1, InitInv, PTL DEF Spec

\* The type invariant of the store.
THEOREM TypeCorrect == Spec => []TypeOK
<1>1. Types /\ FilesInv => TypeOK
  <2> SUFFICES ASSUME Types, FilesInv
               PROVE  TypeOK
    OBVIOUS
  <2>1. todo \subseteq DOMAIN files /\ lfs \subseteq DOMAIN files
    BY DEF Types, FilesInv
  <2>2. \A id \in DOMAIN files :
          files[id].recs \in Seq(Keys \cup {Bad}) /\ files[id].synced \in 0 .. Len(files[id].recs)
    <3> TAKE id \in DOMAIN files
    <3>1. /\ files[id].recs \in Seq(Pieces) /\ Len(files[id].recs) \in Nat /\ files[id].synced \in Nat
          /\ files[id].synced <= Len(files[id].recs)
      BY FileFacts, LogFacts
    <3> QED BY <3>1 DEF Pieces
  <2>3. comp.st \in {"idle", "unlink", "rewrite", "finish"}
    BY CompFields DEF Types
  <2>4. w \in [Keys -> [st : {"idle", "appended", "inserted"}, rec : Rec]]
    BY DEF Types, Writers
  <2>5. /\ {report, acked, expired, amnesty} \subseteq SUBSET Keys
        /\ {tbl, tblSynced, tails} \subseteq [Keys -> Rec]
    BY DEF Types, Table
  <2> QED BY <2>1, <2>2, <2>3, <2>4, <2>5 DEF TypeOK, Types
<1>2. Inv => TypeOK
  BY <1>1 DEF Inv
<1> QED BY <1>2, Invariance, PTL

\* No log file of an open store is outside its set of logs, but for the ones a compaction
\* is removing or could not remove: after any crash, failed compaction or failed open
\* NewStore finds them all.
THEOREM NoOrphansHolds == Spec => []NoOrphans
<1>1. Inv => NoOrphans
  BY DEF Inv, FilesInv, NoOrphans
<1> QED BY <1>1, Invariance, PTL

\* A log that writers may append to is not excluded by the hint file, also not by an older
\* one that a crash left in force.
THEOREM WritableNotExcludedHolds == Spec => []WritableNotExcluded
<1>1. Inv => WritableNotExcluded
  <2> SUFFICES ASSUME Inv, mode = "up", NEW id \in open
               PROVE  ~Excluded(id)
    BY DEF WritableNotExcluded
  <2>1. id \in Nat /\ hint.largest \in Nat
    BY FileFacts, IdleTypes, StoreAssumption DEF Inv, Types, Hint
  <2>2. id \in hint.writable \/ hint.largest < id
    BY DEF Inv, HintInv
  <2> QED BY <2>1, <2>2 DEF Excluded
<1> QED BY <1>1, Invariance, PTL

\* What a record of an open store points to is in a known log.
LEMMA PointedReadable ==
  ASSUME Types, FilesInv, CompInv, LeftInv, PointedInv, mode = "up", NEW k \in InTable
  PROVE  Readable(k)
<1>1. tbl[k].log \in DOMAIN files /\ tbl[k].off \in DOMAIN files[tbl[k].log].recs
      /\ files[tbl[k].log].recs[tbl[k].off] = k
  BY DEF PointedInv, Holds
<1>2. tbl[k].log \notin comp.rm \cup left /\ DOMAIN files = lfs \cup comp.rm \cup left
  BY DEF CompInv, LeftInv, FilesInv
<1> QED BY <1>1, <1>2 DEF Readable

\* Crashes of the process, failed writes, failed compactions and failed opens leave every
\* record of an open store with its piece.
THEOREM NoDanglingHolds ==
  ASSUME ~PowerLoss
  PROVE  Spec => []NoDangling
<1>1. Inv => NoDangling
  BY PointedReadable DEF Inv, NoDangling
<1> QED BY <1>1, Invariance, PTL

\* The same for what was promised: a piece whose upload was acknowledged and that has not
\* expired can be read whenever the store is open.
THEOREM AckedReadableHolds ==
  ASSUME ~PowerLoss
  PROVE  Spec => []AckedReadable
<1>1. Inv => AckedReadable
  <2> SUFFICES ASSUME Inv, mode = "up", NEW k \in Live
               PROVE  Readable(k)
    BY DEF AckedReadable
  <2>1. k \in InTable /\ PointedInv
    BY DEF Inv, PointedInv
  <2> QED BY <2>1, PointedReadable DEF Inv
<1> QED BY <1>1, Invariance, PTL

-----------------------------------------------------------------------------
(***************************************************************************)
(* A machine that loses what was not synced.                               *)
(***************************************************************************)

\* The log id has the bytes of k.
In(k, id) == \E i \in DOMAIN files[id].recs : files[id].recs[i] = k

\* A writer is at work on k.
Busy(k) == w[k].st # "idle"

\* The log of rec was torn before rec, and has the bytes of k nowhere.
Cut(rec, k) ==
  /\ \A i \in DOMAIN files[rec.log].recs : rec.off <= i => files[rec.log].recs[i] \notin Keys
  /\ ~In(k, rec.log)

\* What the hint file excludes is synced, and so is what it would exclude if it were written now:
\* the logs of an open store that are closed, and every log of a store that is not open.  What
\* the disk's table has in these logs is there.
SyncedInv ==
  /\ \A id \in DOMAIN files : Excluded(id) => Whole(files[id])
  /\ \A k \in Keys : tblSynced[k].log \in DOMAIN files /\ Excluded(tblSynced[k].log) => Holds(tblSynced[k], k)
  /\ mode = "up" =>
       /\ \A id \in lfs \ open : Whole(files[id])
       /\ comp.st # "rewrite" =>
            \A k \in Keys : tblSynced[k].log \in lfs \ open => Holds(tblSynced[k], k)
  /\ mode # "up" =>
       /\ \A id \in DOMAIN files : Whole(files[id])
       /\ \A k \in Keys : tblSynced[k] # NoRec => Holds(tblSynced[k], k)

\* Nothing is lost.
Sound == PointedInv /\ SyncedInv

\* Without an error a piece is in one log only, but for the copy of a compaction, and once.
OnceInv ==
  /\ \A id \in DOMAIN files : \A i \in DOMAIN files[id].recs :
       /\ files[id].recs[i] \in Keys
       /\ \A j \in DOMAIN files[id].recs : files[id].recs[i] = files[id].recs[j] => i = j
  /\ \A id \in DOMAIN files : \A k \in Keys : In(k, id) =>
       /\ k \in acked \/ Busy(k)
       /\ tbl[k] # NoRec /\ id \notin comp.rm =>
            id = tbl[k].log \/ (comp.st = "rewrite" /\ id = comp.new[k].log)
       /\ w[k].st = "appended" => id = w[k].rec.log
  /\ comp.st = "rewrite" => \A k \in Kept :
       /\ k \in comp.pending => comp.new[k] = tbl[k] /\ tbl[k].log \in comp.rewrite
       /\ tbl[k].log \notin comp.rewrite => comp.new[k] = tbl[k]

\* The disk's table differs from the page cache by records that are not acknowledged yet.
TableInv ==
  \A k \in Keys :
    /\ tblSynced[k] = tbl[k] \/ (tblSynced[k] = NoRec /\ w[k].st = "inserted")
    /\ tbl[k] # NoRec => k \in acked \/ w[k].st = "inserted"
    /\ Busy(k) => k \notin acked
    /\ w[k].st = "appended" => tbl[k] = NoRec

\* A full log is synced, or its writer is about to sync it.
FullInv ==
  \A id \in DOMAIN files :
    Full(files[id]) => Whole(files[id]) \/ \E k \in Keys : Busy(k) /\ w[k].rec.log = id

\* While the store is closed the hint file excludes every log, or will when Close has written it.
BehindHint ==
  \A id \in DOMAIN files :
    /\ mode = "opening" \/ (mode = "down" /\ late = NoLate) => Excluded(id)
    /\ late # NoLate => id <= late.largest /\ late.writable = {}

\* What holds before the first crash, if there was no error.
Fresh == OnceInv /\ TableInv /\ FullInv /\ BehindHint

\* What a power loss leaves, until an open has checked every log: a record has its piece, or its
\* log was torn before it or is gone, and then the open that comes to that log finds it out.  The
\* logs that the open is done with, and those that the hint file excludes, have what the records
\* say.  The last parts are for the full logs, which the open closes: what the disk's table has in
\* one is there, or the piece is nowhere and the log is still to be checked.
Damaged ==
  /\ mode # "up"
  /\ \A id \in DOMAIN files : Whole(files[id])
  /\ \A k \in InTable :
       /\ tbl[k].log \in lfs => Holds(tbl[k], k)
       /\ tbl[k].log \in DOMAIN files => Holds(tbl[k], k) \/ Cut(tbl[k], k)
       /\ mode = "opening" => tbl[k].log \in lfs \/ tails[k] = tbl[k]
  /\ \A k \in Keys : \A rec \in {tbl[k], tblSynced[k]} :
       rec.log \in DOMAIN files /\ Excluded(rec.log) => Holds(rec, k)
  /\ Live \subseteq InTable \cup amnesty \cup report
  /\ \A k \in Keys :
       /\ tblSynced[k] = tbl[k] \/ (k \in InTable /\ tbl[k].log \in lfs)
       /\ tblSynced[k].log \in DOMAIN files /\ Full(files[tblSynced[k].log]) =>
            \/ Holds(tblSynced[k], k)
            \/ tblSynced[k].log \notin lfs /\ \A id \in DOMAIN files : ~In(k, id)
  /\ late # NoLate => files = <<>>
  /\ mode = "opening" => \A id \in lfs \ open : Full(files[id])

\* At most one crash so far, and no error.
Calm == crashes <= 1 /\ errors = 0

\* The inductive invariant: sound, or damaged once and not yet repaired.
PowerInv ==
  /\ crashes \in Nat /\ errors \in Nat
  /\ errors = 0 => left = {}
  /\ Calm => \/ Sound /\ (crashes = 0 => Fresh)
             \/ crashes = 1 /\ Damaged

-----------------------------------------------------------------------------
(***************************************************************************)
(* Synced logs.                                                            *)
(***************************************************************************)

\* Closing logs syncs them, and unsyncs none.
LEMMA ClosedWhole ==
  ASSUME Types, NEW ids
  PROVE  /\ \A log \in Log : Whole(Synced(log))
         /\ \A id \in DOMAIN files : /\ id \in ids => Whole(CloseLogs(ids)[id])
                                     /\ Whole(files[id]) => Whole(CloseLogs(ids)[id])
         /\ \A id \in DOMAIN files : CloseLogs(ids)[id].recs = files[id].recs
<1>1. \A log \in Log : Whole(Synced(log))
  <2> TAKE log \in Log
  <2>1. Synced(log).synced = Len(log.recs) /\ Synced(log).recs = log.recs
    BY DEF Synced, Log
  <2> QED BY <2>1 DEF Whole
<1>2. \A id \in DOMAIN files :
        CloseLogs(ids)[id] = IF id \in ids THEN Synced(files[id]) ELSE files[id]
  BY DEF CloseLogs
<1> QED BY <1>1, <1>2, CloseLogsFacts, FileFacts

\* A log that is open, or newer than all others, is not excluded.
LEMMA OpenNotExcluded ==
  ASSUME Types, HintInv, mode = "up", NEW id \in Ids, id \in open \/ maxLog < id
  PROVE  ~Excluded(id)
<1>1. id \in Nat /\ hint.largest \in Nat /\ maxLog \in Nat
  BY FileFacts, IdleTypes, StoreAssumption DEF Types, Hint
<1>2. hint.largest <= maxLog /\ (id \in open => id \in hint.writable \/ hint.largest < id)
  BY DEF HintInv
<1>3. \A a, b, c \in Nat : a <= b /\ b < c => ~(c <= a)
  OBVIOUS
<1>4. \A a, c \in Nat : a < c => ~(c <= a)
  OBVIOUS
<1> QED BY <1>1, <1>2, <1>3, <1>4 DEF Excluded

\* There is nothing more to show of a store that is not open when everything is synced.
LEMMA ClosedSynced ==
  ASSUME mode' # "up", \A id \in DOMAIN files' : Whole(files'[id]),
         \A k \in Keys : tblSynced'[k] # NoRec => Holds(tblSynced[k], k)',
         0 \notin DOMAIN files'
  PROVE  SyncedInv'
<1>1. ASSUME NEW k \in Keys, tblSynced'[k].log \in DOMAIN files'
      PROVE  Holds(tblSynced[k], k)'
  <2>1. tblSynced'[k] # NoRec
    BY <1>1 DEF NoRec
  <2> QED BY <2>1
<1> QED BY <1>1 DEF SyncedInv

\* SyncedInv stays when no log grows and the hint file and the disk's table stay.
LEMMA StillSynced ==
  ASSUME Types, SyncedInv, \E ids : files' = CloseLogs(ids) \/ files' = files, UNCHANGED <<hint, tblSynced>>,
         mode' = mode \/ (mode # "up" /\ mode' # "up"), mode = "up" => lfs' \ open' \subseteq lfs \ open,
         lfs \subseteq DOMAIN files, comp'.st # "rewrite" => comp.st # "rewrite"
  PROVE  SyncedInv'
<1>1. /\ DOMAIN files' = DOMAIN files
      /\ \A id \in DOMAIN files : Whole(files[id]) => Whole(files'[id])
      /\ \A rec, k : Holds(rec, k) => Holds(rec, k)'
  BY ClosedPieces, SamePieces, ClosedWhole
<1>2. \A id : Excluded(id)' <=> Excluded(id)
  BY DEF Excluded
<1>3. \A k \in Keys : tblSynced'[k] = tblSynced[k]
  OBVIOUS
<1>4. /\ \A id \in DOMAIN files' : Excluded(id)' => Whole(files'[id])
      /\ \A k \in Keys : tblSynced'[k].log \in DOMAIN files' /\ Excluded(tblSynced[k].log)'
           => Holds(tblSynced[k], k)'
  BY <1>1, <1>2, <1>3 DEF SyncedInv
<1>5. CASE mode = "up" /\ mode' = "up"
  <2>1. /\ \A id \in lfs' \ open' : Whole(files'[id])
        /\ comp'.st # "rewrite" =>
             \A k \in Keys : tblSynced'[k].log \in lfs' \ open' => Holds(tblSynced[k], k)'
    BY <1>1, <1>3, <1>5 DEF SyncedInv
  <2> QED BY <1>4, <1>5, <2>1 DEF SyncedInv
<1>6. CASE mode # "up" /\ mode' # "up"
  <2>1. /\ \A id \in DOMAIN files' : Whole(files'[id])
        /\ \A k \in Keys : tblSynced'[k] # NoRec => Holds(tblSynced[k], k)'
    BY <1>1, <1>3, <1>6 DEF SyncedInv
  <2> QED BY <1>4, <1>6, <2>1 DEF SyncedInv
<1> QED BY <1>5, <1>6

\* A log that grows is not excluded, and stays open or is synced while a compaction copies to it.
LEMMA GrowsSynced ==
  ASSUME Types, FilesInv, HintInv, SyncedInv, mode = "up", NEW id, NEW piece \in Pieces, Grows(id, piece),
         UNCHANGED <<hint, tblSynced, mode>>, open \subseteq open' \cup {id},
         id \in open' \/ (comp'.st = "rewrite" /\ Whole(files'[id])),
         comp'.st # "rewrite" => comp.st # "rewrite"
  PROVE  SyncedInv'
<1>1. /\ id \in Ids /\ (id \in open \/ (id \notin DOMAIN files /\ maxLog < id))
      /\ DOMAIN files' = DOMAIN files \cup {id} /\ lfs' = lfs \cup {id}
      /\ \A i \in DOMAIN files : i # id => files'[i] = files[i]
  BY DEF Grows
<1>2. \A rec, k : Holds(rec, k) => Holds(rec, k)'
  BY GrowsFacts
<1>3. ~Excluded(id)
  BY <1>1, OpenNotExcluded
<1>4. \A i : Excluded(i)' <=> Excluded(i)
  BY DEF Excluded
<1>5. \A i \in DOMAIN files' : Excluded(i)' => Whole(files'[i])
  BY <1>1, <1>3, <1>4 DEF SyncedInv
<1>6. \A k \in Keys : tblSynced'[k].log \in DOMAIN files' /\ Excluded(tblSynced[k].log)'
        => Holds(tblSynced[k], k)'
  BY <1>1, <1>2, <1>3, <1>4 DEF SyncedInv
<1>7. \A i \in lfs' \ open' : i # id => i \in lfs \ open /\ i \in DOMAIN files
  BY <1>1 DEF FilesInv
<1>8. \A i \in lfs' \ open' : Whole(files'[i])
  BY <1>1, <1>7 DEF SyncedInv
<1>9. comp'.st # "rewrite" => \A k \in Keys : tblSynced'[k].log \in lfs' \ open' => Holds(tblSynced[k], k)'
  BY <1>2, <1>7 DEF SyncedInv
<1> QED BY <1>5, <1>6, <1>8, <1>9 DEF SyncedInv

\* A record that points to its piece is in a log, and that log has the piece.
LEMMA HoldsFacts ==
  ASSUME Types, NEW rec, NEW k, Holds(rec, k)
  PROVE  rec.log \in DOMAIN files /\ rec.log \in Ids /\ In(k, rec.log) /\ rec # NoRec
BY FileFacts, IdleTypes DEF Holds, In

\* When the piece of every record is there, no record is invalid.
LEMMA NoneInvalid ==
  ASSUME Types, PointedInv, NEW id \in DOMAIN files
  PROVE  Invalid(id, files[id].recs) = {}
<1> SUFFICES ASSUME NEW k \in Keys, tbl[k].log = id
             PROVE  k \in InLog(files[id].recs)
  BY DEF Invalid
<1>1. k \in InTable
  BY FileFacts, RecFacts DEF InTable
<1> QED BY <1>1 DEF PointedInv, Holds, InLog

\* ... and no log is missing.
LEMMA NoneMissing ==
  ASSUME Types, FilesInv, PointedInv, NEW id \in Ids, OpenMissing(id)
  PROVE  FALSE
<1>1. PICK k \in Keys : tails[k].log = id
  BY DEF OpenMissing
<1>2. mode = "opening" /\ todo = {} /\ id \notin lfs
  BY DEF OpenMissing
<1>3. tails[k] # NoRec
  BY <1>1, FileFacts, RecFacts
<1> QED BY <1>1, <1>2, <1>3 DEF PointedInv, FilesInv

\* A new hint file excludes logs that are closed, and those are synced.
LEMMA HintSynced ==
  ASSUME Types, FilesInv, CompInv, SyncedInv, mode = "up", comp.st # "rewrite", comp.rm = {}, left = {},
         hint' = HintNow(open), comp' = NoComp, UNCHANGED <<files, tblSynced, lfs, open, mode>>
  PROVE  SyncedInv'
<1>1. DOMAIN files = lfs
  BY DEF FilesInv
<1>2. \A id : Excluded(id)' => id \notin open
  BY DEF Excluded, HintNow
<1>3. \A rec, k : Holds(rec, k)' <=> Holds(rec, k)
  BY DEF Holds
<1>4. /\ \A id \in lfs \ open : Whole(files[id])
      /\ \A k \in Keys : tblSynced[k].log \in lfs \ open => Holds(tblSynced[k], k)
  BY DEF SyncedInv
<1>5. /\ \A id \in DOMAIN files' : Excluded(id)' => Whole(files'[id])
      /\ \A k \in Keys : tblSynced'[k].log \in DOMAIN files' /\ Excluded(tblSynced[k].log)'
           => Holds(tblSynced[k], k)'
  BY <1>1, <1>2, <1>3, <1>4
<1> QED BY <1>3, <1>4, <1>5 DEF SyncedInv

\* FinishWrite: both files are synced before the log may be closed.
LEMMA FinishWriteSynced ==
  ASSUME SyncWrites, Types, FilesInv, WriterInv, CompInv, PointedInv, SyncedInv,
         NEW k \in Keys, FinishWrite(k)
  PROVE  SyncedInv'
<1> DEFINE id == w[k].rec.log
<1>1. /\ mode = "up" /\ UNCHANGED <<mode, hint, lfs, comp>>
      /\ files' = CloseLogs({id}) /\ tblSynced' = tbl /\ open' \in {open, open \ {id}}
  BY DEF FinishWrite, WriterInv, Owns
<1> HIDE DEF id
<1>2. /\ DOMAIN files' = DOMAIN files
      /\ \A i \in DOMAIN files : (i = id \/ Whole(files[i])) => Whole(files'[i])
      /\ \A rec, j : Holds(rec, j) => Holds(rec, j)'
  BY <1>1, ClosedPieces, SamePieces, ClosedWhole
<1>3. \A i : Excluded(i)' <=> Excluded(i)
  BY <1>1 DEF Excluded
<1>4. \A j \in Keys : tblSynced'[j] # NoRec => Holds(tblSynced[j], j)'
  <2> TAKE j \in Keys
  <2>1. tbl[j] # NoRec => Holds(tbl[j], j)
    BY DEF PointedInv, InTable
  <2>2. Holds(tbl[j], j) => Holds(tblSynced[j], j)'
    <3> HAVE Holds(tbl[j], j)
    <3>1. /\ tbl[j].log \in DOMAIN files /\ tbl[j].off \in DOMAIN files[tbl[j].log].recs
          /\ files[tbl[j].log].recs[tbl[j].off] = j
      BY DEF Holds
    <3>2. files'[tbl[j].log].recs = files[tbl[j].log].recs
      BY <1>1, <3>1, ClosedWhole
    <3> QED BY <1>1, <1>2, <3>1, <3>2 DEF Holds
  <2> QED BY <1>1, <2>1, <2>2
<1>5. 0 \notin DOMAIN files /\ lfs \subseteq DOMAIN files
  BY <1>1, IdleTypes DEF Types, FilesInv
<1>6. \A j \in Keys : tblSynced'[j].log \in DOMAIN files => Holds(tblSynced[j], j)'
  BY <1>4, <1>5 DEF NoRec
<1>7. \A i \in lfs' \ open' : i = id \/ i \in lfs \ open
  BY <1>1
<1>8. \A i \in lfs' \ open' : Whole(files'[i])
  BY <1>1, <1>2, <1>5, <1>7 DEF SyncedInv
<1>9. \A i \in DOMAIN files' : Excluded(i)' => Whole(files'[i])
  BY <1>2, <1>3 DEF SyncedInv
<1>10. lfs' \subseteq DOMAIN files'
  BY <1>1, <1>2, <1>5
<1> QED BY <1>1, <1>2, <1>5, <1>6, <1>8, <1>9, <1>10 DEF SyncedInv

\* CompactRemove: what is left of the files is as before.
LEMMA RemoveSynced ==
  ASSUME Types, FilesInv, WriterInv, CompInv, SyncedInv, NEW id \in Ids, CompactRemove(id)
  PROVE  SyncedInv'
<1>1. /\ id \in comp.rm /\ files' = Drop(files, id) /\ UNCHANGED <<tblSynced, hint, mode, lfs, open>>
      /\ comp' = [comp EXCEPT !.rm = @ \ {id}]
  BY DEF CompactRemove
<1>2. comp'.st = comp.st
  BY <1>1, CompRemoves DEF Types
<1>3. mode = "up"
  BY <1>1, IdleTypes DEF CompInv
<1>4. id \notin lfs
  BY <1>1, <1>3 DEF FilesInv
<1>5. /\ DOMAIN files' = DOMAIN files \ {id}
      /\ \A i \in DOMAIN files' : files'[i] = files[i]
  BY <1>1 DEF Drop
<1>6. \A rec, k : Holds(rec, k) /\ rec.log # id => Holds(rec, k)'
  BY <1>5 DEF Holds
<1>7. \A i : Excluded(i)' <=> Excluded(i)
  BY <1>1 DEF Excluded
<1>8. \A k \in Keys : tblSynced'[k].log \in DOMAIN files' /\ Excluded(tblSynced[k].log)'
        => Holds(tblSynced[k], k)'
  BY <1>1, <1>5, <1>6, <1>7 DEF SyncedInv
<1>9. \A i \in lfs' \ open' : Whole(files'[i])
  BY <1>1, <1>3, <1>4, <1>5 DEF SyncedInv, FilesInv
<1>10. comp'.st # "rewrite" => \A k \in Keys : tblSynced'[k].log \in lfs' \ open' => Holds(tblSynced[k], k)'
  BY <1>1, <1>2, <1>3, <1>4, <1>6 DEF SyncedInv
<1> QED BY <1>1, <1>3, <1>5, <1>7, <1>8, <1>9, <1>10 DEF SyncedInv

\* CompactCommit: the table that is put in place is synced, and its records point to their pieces.
LEMMA CommitSynced ==
  ASSUME Types, FilesInv, CompInv, PointedInv, SyncedInv, CompactCommit
  PROVE  SyncedInv'
<1>1. /\ comp.st = "rewrite" /\ mode = "up" /\ tblSynced' = comp.new /\ UNCHANGED <<files, hint, mode>>
      /\ lfs' \ open' \subseteq lfs \ open
  BY DEF CompactCommit, CompInv
<1>2. \A k \in Keys : comp.new[k] # NoRec => Holds(comp.new[k], k)
  BY <1>1 DEF CompInv, PointedInv
<1>3. \A k \in Keys : tblSynced'[k] # NoRec => Holds(tblSynced[k], k)'
  <2> TAKE k \in Keys
  <2>1. Holds(comp.new[k], k) => Holds(tblSynced[k], k)'
    BY <1>1 DEF Holds
  <2> QED BY <1>1, <1>2, <2>1
<1>4. 0 \notin DOMAIN files' /\ 0 \notin lfs'
  BY <1>1, IdleTypes DEF Types, CompactCommit
<1>5. \A i : Excluded(i)' <=> Excluded(i)
  BY <1>1 DEF Excluded
<1>6. \A k \in Keys : tblSynced'[k] = NoRec => tblSynced'[k].log = 0
  BY DEF NoRec
<1>7. \A i \in lfs' \ open' : Whole(files'[i])
  BY <1>1 DEF SyncedInv
<1>8. \A i \in DOMAIN files' : Excluded(i)' => Whole(files'[i])
  BY <1>1, <1>5 DEF SyncedInv
<1> QED BY <1>1, <1>3, <1>4, <1>6, <1>7, <1>8 DEF SyncedInv

\* Closing all files syncs them and the table.
LEMMA CloseFilesSynced ==
  ASSUME Types, FilesInv, CompInv, PointedInv, SyncedInv, mode = "up" => comp.st = "idle", left = {},
         NEW ids, NEW max, CloseFiles(ids, max), lfs \subseteq ids
  PROVE  SyncedInv'
<1>1. /\ files' = CloseLogs(ids) /\ tblSynced' = tbl /\ mode' = "down"
  BY DEF CloseFiles
<1>2. mode = "up" => DOMAIN files = lfs
  BY IdleTypes DEF FilesInv, CompInv
<1>3. \A id \in DOMAIN files : id \in ids \/ Whole(files[id])
  BY <1>2 DEF SyncedInv
<1>4. DOMAIN files' = DOMAIN files /\ \A id \in DOMAIN files' : Whole(files'[id])
  BY <1>1, <1>3, ClosedWhole, ClosedPieces
<1>5. \A k \in Keys : tblSynced'[k] # NoRec => Holds(tblSynced[k], k)'
  <2> TAKE k \in Keys
  <2>1. tbl[k] # NoRec => Holds(tbl[k], k)
    BY DEF PointedInv, InTable
  <2>2. Holds(tbl[k], k) => Holds(tblSynced[k], k)'
    <3> HAVE Holds(tbl[k], k)
    <3>1. /\ tbl[k].log \in DOMAIN files /\ tbl[k].off \in DOMAIN files[tbl[k].log].recs
          /\ files[tbl[k].log].recs[tbl[k].off] = k
      BY DEF Holds
    <3>2. files'[tbl[k].log].recs = files[tbl[k].log].recs
      BY <1>1, <3>1, ClosedWhole
    <3> QED BY <1>1, <1>4, <3>1, <3>2 DEF Holds
  <2> QED BY <1>1, <2>1, <2>2
<1>6. 0 \notin DOMAIN files'
  BY <1>4, IdleTypes DEF Types
<1> QED BY <1>1, <1>4, <1>5, <1>6, ClosedSynced

\* Every step but a failed one and a crash keeps the logs that the hint file excludes, and those
\* it will exclude, synced, and what the disk's table has in them there.
LEMMA NextSyncedInv ==
  ASSUME SyncWrites, Types, FilesInv, WriterInv, CompInv, HintInv, PointedInv, SyncedInv, left = {},
         ~Crash, ~CompactFailed, \A k \in Keys : ~WriteFailed(k),
         \A id \in Ids : ~CompactRemoveFails(id), [Next]_vars
  PROVE  SyncedInv'
<1>0. lfs \subseteq DOMAIN files
  BY DEF FilesInv, Types
<1>1. ASSUME NEW k \in Keys, WriteLog(k)
      PROVE  SyncedInv'
  <2>1. /\ mode = "up" /\ comp.st = "idle" /\ k \in Pieces
        /\ \E id \in Ids : Grows(id, k) /\ open' = open \cup {id}
    BY <1>1, WriteLogGrows
  <2>2. UNCHANGED <<hint, tblSynced, mode, comp>>
    BY <1>1 DEF WriteLog
  <2> QED BY <2>1, <2>2, GrowsSynced
<1>2. ASSUME NEW k \in Keys, AddRecord(k) \/ Expire(k)
      PROVE  SyncedInv'
  BY <1>0, <1>2, StillSynced DEF AddRecord, Expire, disk
<1>3. CASE CompactBegin
  <2>1. comp.st = "idle" /\ comp.st # "rewrite" /\ lfs' \ open' \subseteq lfs \ open
    BY <1>3 DEF CompactBegin
  <2> QED BY <1>0, <1>3, <2>1, StillSynced DEF CompactBegin, disk
<1>4. CASE CompactNothing \/ CompactFinish
  <2>1. /\ comp.st \in {"unlink", "finish"} /\ comp.rm = {} /\ hint' = HintNow(open) /\ comp' = NoComp
        /\ UNCHANGED <<files, tblSynced, lfs, open, mode>>
    BY <1>4 DEF CompactNothing, CompactFinish
  <2>2. mode = "up" /\ comp.st # "rewrite"
    BY <2>1 DEF CompInv
  <2> QED BY <2>1, <2>2, HintSynced
<1>5. CASE CompactSelect
  <2>1. comp.st # "rewrite" /\ UNCHANGED <<files, tblSynced, hint, mode, lfs, open>>
    BY <1>5 DEF CompactSelect, disk
  <2> QED BY <1>0, <2>1, StillSynced
<1>6. ASSUME NEW k \in Keys, RewriteRecord(k)
      PROVE  SyncedInv'
  <2>1. PICK id \in Ids, piece \in Pieces :
          /\ Grows(id, piece) /\ open \subseteq open' \cup {id}
          /\ id \in open' \/ Whole(files'[id])
          /\ comp' = [comp EXCEPT !.pending = @ \ {k}, !.new[k] = [log |-> id, off |-> Len(files'[id].recs)]]
    BY <1>6, RewriteGrows
  <2>2. /\ UNCHANGED <<hint, tblSynced, mode>> /\ comp.st = "rewrite" /\ mode = "up"
    BY <1>6 DEF RewriteRecord, CompInv
  <2>3. comp'.st = comp.st
    BY <2>1 DEF Types, Comps
  <2> QED BY <2>1, <2>2, <2>3, GrowsSynced
<1>8. CASE OpenStart
  BY <1>0, <1>8, StillSynced DEF OpenStart, disk
<1>9. ASSUME NEW id \in Ids, OpenLog(id)
      PROVE  SyncedInv'
  <2>1. mode = "opening" /\ id \in DOMAIN files /\ UNCHANGED <<hint, mode, comp>>
    BY <1>9, OpenLogFacts DEF OpenLog
  <2>2. Invalid(id, files[id].recs) = {}
    BY <2>1, NoneInvalid
  <2>3. tblSynced' = tblSynced /\ \E ids : files' = CloseLogs(ids) \/ files' = files
    BY <1>9, <2>2 DEF OpenLog, ReconcileLog
  <2> QED BY <1>0, <2>1, <2>3, StillSynced
<1>10. ASSUME NEW id \in Ids, OpenMissing(id)
       PROVE  FALSE
  BY <1>10, NoneMissing
<1>11. CASE OpenAmnesty
  BY <1>11 DEF OpenAmnesty, PointedInv
<1>12. CASE OpenDone
  <2>1. /\ mode = "opening" /\ todo = {} /\ mode' = "up" /\ UNCHANGED <<files, tblSynced, lfs, open, comp>>
    BY <1>12 DEF OpenDone
  <2>2. \A id \in DOMAIN files : Whole(files[id])
    BY <2>1 DEF SyncedInv
  <2>3. \A k \in Keys : tblSynced'[k].log \in DOMAIN files' => Holds(tblSynced[k], k)'
    <3> TAKE k \in Keys
    <3>1. tblSynced[k].log \in DOMAIN files => Holds(tblSynced[k], k)
      BY <2>1, IdleTypes DEF SyncedInv, Types
    <3> QED BY <2>1, <3>1 DEF Holds
  <2> QED BY <1>0, <2>1, <2>2, <2>3 DEF SyncedInv
<1>13. CASE OpenFail \/ OpenMisconfigured \/ Close
  <2>1. /\ mode = "up" => comp.st = "idle"
        /\ \E ids, max : CloseFiles(ids, max) /\ lfs \subseteq ids
    <3>1. CASE OpenFail
      <4>1. mode = "opening" /\ \E ids, max : CloseFiles(lfs \cup ids, max)
        BY <3>1, OpenFailFacts
      <4> QED BY <4>1
    <3>2. CASE OpenMisconfigured
      BY <3>2 DEF OpenMisconfigured
    <3>3. CASE Close
      BY <3>3 DEF Close
    <3> QED BY <1>13, <3>1, <3>2, <3>3
  <2> QED BY <2>1, CloseFilesSynced
<1>14. CASE WriteCloseHint
  <2>1. mode # "up" /\ UNCHANGED <<files, tblSynced, mode>>
    BY <1>14 DEF WriteCloseHint, FilesInv
  <2>2. 0 \notin DOMAIN files'
    BY <2>1, IdleTypes DEF Types
  <2>3. \A k \in Keys : tblSynced'[k] # NoRec => Holds(tblSynced[k], k)'
    BY <2>1 DEF SyncedInv, Holds
  <2> QED BY <2>1, <2>2, <2>3, ClosedSynced DEF SyncedInv
<1>15. CASE UNCHANGED vars
  BY <1>0, <1>15, StillSynced DEF vars, disk
<1> QED BY <1>1, <1>2, <1>3, <1>4, <1>5, <1>6, <1>8, <1>9, <1>10, <1>11, <1>12, <1>13, <1>14, <1>15,
           FinishWriteSynced, RemoveSynced, CommitSynced DEF Next

-----------------------------------------------------------------------------
(***************************************************************************)
(* Before the first crash.                                                 *)
(***************************************************************************)

\* OnceInv stays when records and pieces stay.
LEMMA StillOnce ==
  ASSUME OnceInv,
         \A id \in DOMAIN files' : /\ id \in DOMAIN files /\ files'[id].recs = files[id].recs
                                   /\ id \notin comp'.rm => id \notin comp.rm,
         tbl' = tbl, \A k \in Keys : k \in acked \/ Busy(k) => k \in acked' \/ Busy(k)',
         \A k \in Keys : w'[k].st = "appended" => w'[k] = w[k],
         comp.st = "rewrite" \/ comp'.st = "rewrite" => comp' = comp
  PROVE  OnceInv'
<1>1. \A id \in DOMAIN files' : \A k : In(k, id)' => id \in DOMAIN files /\ In(k, id)
  BY DEF In
<1>2. \A id \in DOMAIN files' : \A i \in DOMAIN files'[id].recs :
        /\ files'[id].recs[i] \in Keys
        /\ \A j \in DOMAIN files'[id].recs : files'[id].recs[i] = files'[id].recs[j] => i = j
  BY DEF OnceInv
<1>3. ASSUME NEW id \in DOMAIN files', NEW k \in Keys, In(k, id)'
      PROVE  /\ k \in acked' \/ Busy(k)'
             /\ tbl'[k] # NoRec /\ id \notin comp'.rm =>
                  id = tbl'[k].log \/ (comp'.st = "rewrite" /\ id = comp'.new[k].log)
             /\ w'[k].st = "appended" => id = w'[k].rec.log
  BY <1>1, <1>3 DEF OnceInv
<1>4. comp'.st = "rewrite" => \A k \in Kept' :
        /\ k \in comp'.pending => comp'.new[k] = tbl'[k] /\ tbl'[k].log \in comp'.rewrite
        /\ tbl'[k].log \notin comp'.rewrite => comp'.new[k] = tbl'[k]
  <2> HAVE comp'.st = "rewrite"
  <2>1. comp' = comp /\ Kept' = Kept
    BY DEF Kept, InTable
  <2> QED BY <2>1 DEF OnceInv
<1> QED BY <1>2, <1>3, <1>4 DEF OnceInv

\* A log that grows gets the piece, and no other.
LEMMA GrowsIn ==
  ASSUME Types, FilesInv, NEW id, NEW piece \in Pieces, Grows(id, piece)
  PROVE  /\ DOMAIN files' = DOMAIN files \cup {id}
         /\ \A i \in DOMAIN files' : \A k :
              In(k, i)' => (i \in DOMAIN files /\ In(k, i)) \/ (i = id /\ k = piece)
<1>1. /\ DOMAIN files' = DOMAIN files \cup {id}
      /\ \A i \in DOMAIN files : i # id => files'[i] = files[i]
  BY DEF Grows
<1> DEFINE recs == IF id \in DOMAIN files THEN files[id].recs ELSE <<>>
<1>2. recs \in Seq(Pieces) /\ files'[id].recs = Append(recs, piece)
  BY FileFacts DEF Grows
<1>3. \A j \in DOMAIN files'[id].recs : files'[id].recs[j] = piece \/
                                        (j \in DOMAIN recs /\ files'[id].recs[j] = recs[j])
  <2> HIDE DEF recs
  <2> QED BY <1>2
<1>4. \A j \in DOMAIN recs : id \in DOMAIN files
  OBVIOUS
<1>5. ASSUME NEW i \in DOMAIN files', NEW k, In(k, i)'
      PROVE  (i \in DOMAIN files /\ In(k, i)) \/ (i = id /\ k = piece)
  <2>1. PICK j \in DOMAIN files'[i].recs : files'[i].recs[j] = k
    BY <1>5 DEF In
  <2>2. CASE i = id
    BY <1>3, <1>4, <2>1, <2>2 DEF In
  <2>3. CASE i # id
    BY <1>1, <2>1, <2>3 DEF In
  <2> QED BY <2>2, <2>3
<1> QED BY <1>1, <1>5

\* It still has every piece once when it gets one that it did not have.
LEMMA GrowsOnce ==
  ASSUME Types, FilesInv, NEW id, NEW piece \in Keys, Grows(id, piece), OnceInv,
         id \in DOMAIN files => ~In(piece, id)
  PROVE  \A i \in DOMAIN files' : \A n \in DOMAIN files'[i].recs :
           /\ files'[i].recs[n] \in Keys
           /\ \A m \in DOMAIN files'[i].recs : files'[i].recs[n] = files'[i].recs[m] => n = m
<1>1. /\ DOMAIN files' = DOMAIN files \cup {id}
      /\ \A i \in DOMAIN files : i # id => files'[i] = files[i]
  BY DEF Grows
<1> DEFINE recs == IF id \in DOMAIN files THEN files[id].recs ELSE <<>>
<1>2. recs \in Seq(Pieces) /\ files'[id].recs = Append(recs, piece)
  BY FileFacts DEF Grows
<1>3. \A n \in DOMAIN recs : /\ recs[n] \in Keys /\ recs[n] # piece
                             /\ \A m \in DOMAIN recs : recs[n] = recs[m] => n = m
  BY DEF OnceInv, In
<1>4. \A n \in DOMAIN files'[id].recs :
        /\ files'[id].recs[n] \in Keys
        /\ \A m \in DOMAIN files'[id].recs : files'[id].recs[n] = files'[id].recs[m] => n = m
  <2> HIDE DEF recs
  <2>1. piece \in Pieces
    BY DEF Pieces
  <2> DEFINE new == files'[id].recs
             last == Len(recs) + 1
  <2>2. /\ DOMAIN new = DOMAIN recs \cup {last} /\ new[last] = piece
        /\ \A n \in DOMAIN recs : new[n] = recs[n]
    BY <1>2, <2>1
  <2> HIDE DEF new, last
  <2>3. \A n \in DOMAIN new : new[n] \in Keys /\ \A m \in DOMAIN new : new[n] = new[m] => n = m
    BY <1>3, <2>2
  <2> QED BY <2>3 DEF new
<1>5. ASSUME NEW i \in DOMAIN files', i # id
      PROVE  \A n \in DOMAIN files'[i].recs :
               /\ files'[i].recs[n] \in Keys
               /\ \A m \in DOMAIN files'[i].recs : files'[i].recs[n] = files'[i].recs[m] => n = m
  BY <1>1, <1>5 DEF OnceInv
<1> QED BY <1>4, <1>5

\* WriteLog: a piece that is uploaded for the first time is in no log yet.
LEMMA WriteLogOnce ==
  ASSUME Types, FilesInv, CompInv, OnceInv, TableInv, NEW k \in Keys, WriteLog(k)
  PROVE  OnceInv'
<1>1. PICK id \in Ids :
        /\ Grows(id, k)
        /\ w' = [w EXCEPT ![k] = [st |-> "appended", rec |-> [log |-> id, off |-> Len(files'[id].recs)]]]
  BY WriteLogGrows
<1>2. /\ w[k].st = "idle" /\ k \notin acked /\ comp.st = "idle" /\ k \in Pieces
      /\ UNCHANGED <<tbl, comp, acked>>
  BY WriteLogGrows DEF WriteLog, ghost
<1>3. tbl[k] = NoRec /\ \A i \in DOMAIN files : ~In(k, i)
  BY <1>2 DEF TableInv, OnceInv, Busy
<1>4. w'[k].st = "appended" /\ w'[k].rec.log = id /\ \A j \in Keys : j # k => w'[j] = w[j]
  BY <1>1 DEF Types
<1>5. \A i \in DOMAIN files' : \A j : In(j, i)' => (i \in DOMAIN files /\ In(j, i)) \/ (i = id /\ j = k)
  BY <1>1, <1>2, GrowsIn
<1>6. ASSUME NEW i \in DOMAIN files', NEW j \in Keys, In(j, i)'
      PROVE  /\ j \in acked' \/ Busy(j)'
             /\ tbl'[j] # NoRec /\ i \notin comp'.rm => i = tbl'[j].log
             /\ w'[j].st = "appended" => i = w'[j].rec.log
  <2>1. CASE i \in DOMAIN files /\ In(j, i)
    <3>1. j # k
      BY <1>3, <2>1
    <3> QED BY <1>2, <1>4, <2>1, <3>1 DEF OnceInv, Busy
  <2>2. CASE i = id /\ j = k
    BY <1>2, <1>3, <1>4, <2>2 DEF Busy
  <2> QED BY <1>5, <1>6, <2>1, <2>2
<1>7. \A i \in DOMAIN files' : \A n \in DOMAIN files'[i].recs :
        /\ files'[i].recs[n] \in Keys
        /\ \A m \in DOMAIN files'[i].recs : files'[i].recs[n] = files'[i].recs[m] => n = m
  BY <1>1, <1>3, GrowsOnce
<1>8. comp'.st # "rewrite"
  BY <1>2
<1> QED BY <1>6, <1>7, <1>8 DEF OnceInv

\* AddRecord: the piece is in the log its record points to, and in no other.
LEMMA AddRecordOnce ==
  ASSUME Types, WriterInv, OnceInv, NEW k \in Keys, AddRecord(k)
  PROVE  OnceInv'
<1>1. /\ w[k].st = "appended" /\ tbl' = [tbl EXCEPT ![k] = w[k].rec] /\ w' = [w EXCEPT ![k].st = "inserted"]
      /\ UNCHANGED <<files, comp, acked>>
  BY DEF AddRecord, ghost
<1>2. comp.st = "idle"
  BY <1>1 DEF WriterInv, Owns
<1>3. tbl'[k] = w[k].rec /\ \A j \in Keys : j # k => tbl'[j] = tbl[j] /\ w'[j] = w[j]
  BY <1>1 DEF Types, Table
<1>4. w'[k].st = "inserted"
  <2>1. w' = [w EXCEPT ![k] = [w[k] EXCEPT !.st = "inserted"]] /\ w[k] \in Writers
    BY <1>1, FileFacts
  <2>2. w'[k] = [w[k] EXCEPT !.st = "inserted"]
    BY <2>1 DEF Types
  <2> QED BY <2>1, <2>2 DEF Writers
<1>5. ASSUME NEW i \in DOMAIN files', NEW j \in Keys, In(j, i)'
      PROVE  /\ j \in acked' \/ Busy(j)'
             /\ tbl'[j] # NoRec /\ i \notin comp'.rm => i = tbl'[j].log
             /\ w'[j].st = "appended" => i = w'[j].rec.log
  <2>1. i \in DOMAIN files /\ In(j, i)
    BY <1>1, <1>5 DEF In
  <2>2. /\ j \in acked \/ Busy(j)
        /\ tbl[j] # NoRec /\ i \notin comp.rm => i = tbl[j].log
        /\ w[j].st = "appended" => i = w[j].rec.log
    BY <1>2, <2>1 DEF OnceInv
  <2>3. CASE j = k
    BY <1>1, <1>3, <1>4, <2>2, <2>3 DEF Busy
  <2>4. CASE j # k
    BY <1>1, <1>3, <2>2, <2>4 DEF Busy
  <2> QED BY <2>3, <2>4
<1>6. comp'.st # "rewrite"
  BY <1>1, <1>2
<1>7. \A i \in DOMAIN files' : \A n \in DOMAIN files'[i].recs :
        /\ files'[i].recs[n] \in Keys
        /\ \A m \in DOMAIN files'[i].recs : files'[i].recs[n] = files'[i].recs[m] => n = m
  BY <1>1 DEF OnceInv
<1> QED BY <1>5, <1>6, <1>7 DEF OnceInv

\* CompactSelect: the new table starts as the one in place.
LEMMA SelectOnce ==
  ASSUME Types, OnceInv, CompactSelect
  PROVE  OnceInv'
<1>1. /\ comp.st = "unlink" /\ comp.rm = {} /\ comp'.exp = comp.exp
      /\ \A k \in Keys : comp'.new[k] = IF k \in Kept THEN tbl[k] ELSE NoRec
      /\ comp'.pending = {k \in Kept : tbl[k].log \in comp'.rewrite}
  BY SelectFacts
<1>2. UNCHANGED <<files, tbl, w, acked>>
  BY DEF CompactSelect, disk, ghost
<1>3. Kept' = Kept /\ Kept \subseteq Keys
  BY <1>1, <1>2 DEF Kept, InTable
<1>4. \A k \in Kept' : /\ k \in comp'.pending => comp'.new[k] = tbl'[k] /\ tbl'[k].log \in comp'.rewrite
                       /\ tbl'[k].log \notin comp'.rewrite => comp'.new[k] = tbl'[k]
  BY <1>1, <1>2, <1>3
<1>5. ASSUME NEW i \in DOMAIN files', NEW j \in Keys, In(j, i)'
      PROVE  /\ j \in acked' \/ Busy(j)'
             /\ tbl'[j] # NoRec => i = tbl'[j].log
             /\ w'[j].st = "appended" => i = w'[j].rec.log
  <2>1. i \in DOMAIN files /\ In(j, i)
    BY <1>2, <1>5 DEF In
  <2> QED BY <1>1, <1>2, <2>1 DEF OnceInv, Busy
<1>6. \A i \in DOMAIN files' : \A n \in DOMAIN files'[i].recs :
        /\ files'[i].recs[n] \in Keys
        /\ \A m \in DOMAIN files'[i].recs : files'[i].recs[n] = files'[i].recs[m] => n = m
  BY <1>2 DEF OnceInv
<1> QED BY <1>4, <1>5, <1>6 DEF OnceInv

\* RewriteRecord: the piece is in the log it is copied from only, and then in the new one.
LEMMA RewriteOnce ==
  ASSUME Types, FilesInv, WriterInv, CompInv, PointedInv, OnceInv, NEW k \in Keys, RewriteRecord(k)
  PROVE  OnceInv'
<1>1. PICK id \in Ids, piece \in Pieces :
        /\ Grows(id, piece) /\ id # tbl[k].log
        /\ piece = files[tbl[k].log].recs[tbl[k].off]
        /\ comp' = [comp EXCEPT !.pending = @ \ {k}, !.new[k] = [log |-> id, off |-> Len(files'[id].recs)]]
  BY RewriteGrows
<1> DEFINE at == [log |-> id, off |-> Len(files'[id].recs)]
<1>2. /\ comp.st = "rewrite" /\ k \in comp.pending /\ comp.rm = {} /\ k \in Kept /\ k \in InTable
      /\ UNCHANGED <<tbl, w, acked>>
  BY DEF RewriteRecord, CompInv, Kept, ghost
<1>3. Holds(tbl[k], k) /\ comp.new[k] = tbl[k] /\ tbl[k].log \in comp.rewrite
  BY <1>2 DEF PointedInv, OnceInv
<1>4. piece = k /\ In(k, tbl[k].log) /\ tbl[k].log \in DOMAIN files /\ tbl[k] # NoRec
  BY <1>1, <1>3, HoldsFacts DEF Holds
<1>5. id \in DOMAIN files => ~In(k, id)
  BY <1>1, <1>2, <1>3, <1>4 DEF OnceInv
<1>6. \A i \in DOMAIN files' : \A j : In(j, i)' => (i \in DOMAIN files /\ In(j, i)) \/ (i = id /\ j = k)
  BY <1>1, <1>4, GrowsIn
<1>7. \A i \in DOMAIN files' : \A n \in DOMAIN files'[i].recs :
        /\ files'[i].recs[n] \in Keys
        /\ \A m \in DOMAIN files'[i].recs : files'[i].recs[n] = files'[i].recs[m] => n = m
  BY <1>1, <1>4, <1>5, GrowsOnce
<1>8. /\ comp' = [comp EXCEPT !.pending = @ \ {k}, !.new[k] = at] /\ at.log = id
  BY <1>1
<1> HIDE DEF at
<1>9. /\ comp'.st = "rewrite" /\ comp'.exp = comp.exp /\ comp'.rewrite = comp.rewrite
      /\ comp'.pending = comp.pending \ {k} /\ comp'.rm = {}
      /\ comp'.new[k] = at /\ \A j \in Keys : j # k => comp'.new[j] = comp.new[j]
  <2>1. comp'.new = [comp.new EXCEPT ![k] = at] /\ comp.new \in Table
    BY <1>8 DEF Types, Comps
  <2>2. comp'.new[k] = at /\ \A j \in Keys : j # k => comp'.new[j] = comp.new[j]
    BY <2>1 DEF Table
  <2> QED BY <1>2, <1>8, <2>2 DEF Types, Comps
<1>10. ASSUME NEW i \in DOMAIN files', NEW j \in Keys, In(j, i)'
       PROVE  /\ j \in acked' \/ Busy(j)'
              /\ tbl'[j] # NoRec => i = tbl'[j].log \/ i = comp'.new[j].log
              /\ w'[j].st = "appended" => i = w'[j].rec.log
  <2>1. CASE i \in DOMAIN files /\ In(j, i)
    <3>1. /\ j \in acked \/ Busy(j)
          /\ tbl[j] # NoRec => i = tbl[j].log \/ i = comp.new[j].log
          /\ w[j].st = "appended" => i = w[j].rec.log
      BY <1>2, <2>1 DEF OnceInv
    <3>2. comp.new[j].log = tbl[j].log \/ comp'.new[j] = comp.new[j]
      BY <1>3, <1>9
    <3>3. tbl[j] # NoRec => i = tbl[j].log \/ i = comp'.new[j].log
      BY <3>1, <3>2
    <3> QED BY <1>2, <3>1, <3>3 DEF Busy
  <2>2. CASE i = id /\ j = k
    <3>1. k \in acked \/ Busy(k)
      BY <1>4 DEF OnceInv
    <3>2. w[k].st # "appended"
      BY <1>2 DEF WriterInv, Owns
    <3> QED BY <1>2, <1>8, <1>9, <2>2, <3>1, <3>2 DEF Busy
  <2> QED BY <1>6, <1>10, <2>1, <2>2
<1>11. Kept' = Kept /\ Kept \subseteq Keys
  BY <1>2, <1>9 DEF Kept, InTable
<1>12. \A j \in Kept' : /\ j \in comp'.pending => comp'.new[j] = tbl'[j] /\ tbl'[j].log \in comp'.rewrite
                        /\ tbl'[j].log \notin comp'.rewrite => comp'.new[j] = tbl'[j]
  BY <1>2, <1>3, <1>9, <1>11 DEF OnceInv
<1> QED BY <1>7, <1>9, <1>10, <1>12 DEF OnceInv

\* CompactCommit: a piece that was rewritten is in a log that goes and in its new one.
LEMMA CommitOnce ==
  ASSUME Types, WriterInv, CompInv, OnceInv, CompactCommit
  PROVE  OnceInv'
<1>1. /\ comp.st = "rewrite" /\ comp.pending = {} /\ comp.rm = {} /\ tbl' = comp.new
      /\ comp' = [comp EXCEPT !.st = "finish", !.rm = comp.rewrite] /\ UNCHANGED <<files, w, acked>>
      /\ \A k \in Keys : comp.new[k] # NoRec <=> k \in Kept
  BY DEF CompactCommit, CompInv, ghost
<1>2. comp'.st = "finish" /\ comp'.rm = comp.rewrite
  BY <1>1 DEF Types, Comps
<1>3. ASSUME NEW i \in DOMAIN files', NEW j \in Keys, In(j, i)'
      PROVE  /\ j \in acked' \/ Busy(j)'
             /\ tbl'[j] # NoRec /\ i \notin comp'.rm => i = tbl'[j].log
             /\ w'[j].st = "appended" => i = w'[j].rec.log
  <2>1. i \in DOMAIN files /\ In(j, i)
    BY <1>1, <1>3 DEF In
  <2>2. /\ j \in acked \/ Busy(j)
        /\ tbl[j] # NoRec => i = tbl[j].log \/ i = comp.new[j].log
        /\ w[j].st = "appended" => i = w[j].rec.log
    BY <1>1, <2>1 DEF OnceInv
  <2>3. ASSUME tbl'[j] # NoRec, i \notin comp'.rm
        PROVE  i = tbl'[j].log
    <3>1. j \in Kept /\ tbl[j] # NoRec
      BY <1>1, <2>3 DEF Kept, InTable
    <3>2. tbl[j].log \notin comp.rewrite => comp.new[j] = tbl[j]
      BY <1>1, <3>1 DEF OnceInv
    <3> QED BY <1>1, <1>2, <2>2, <2>3, <3>1, <3>2
  <2> QED BY <1>1, <2>2, <2>3 DEF Busy
<1>4. \A i \in DOMAIN files' : \A n \in DOMAIN files'[i].recs :
        /\ files'[i].recs[n] \in Keys
        /\ \A m \in DOMAIN files'[i].recs : files'[i].recs[n] = files'[i].recs[m] => n = m
  BY <1>1 DEF OnceInv
<1>5. comp'.st # "rewrite"
  BY <1>2
<1> QED BY <1>3, <1>4, <1>5 DEF OnceInv

\* Every step of an undisturbed store keeps every piece once, or twice while a compaction copies it.
LEMMA NextOnce ==
  ASSUME Types, FilesInv, WriterInv, CompInv, PointedInv, Fresh,
         ~Crash, ~CompactFailed, \A k \in Keys : ~WriteFailed(k), \A id \in Ids : ~CompactRemoveFails(id), [Next]_vars
  PROVE  OnceInv'
<1>0. OnceInv /\ TableInv /\ BehindHint
  BY DEF Fresh
<1>1. ASSUME UNCHANGED <<tbl, acked, w>>, \E ids : files' = CloseLogs(ids) \/ files' = files,
             comp.st = "rewrite" \/ comp'.st = "rewrite" => comp' = comp, comp.rm \subseteq comp'.rm
      PROVE  OnceInv'
  <2>1. \A id \in DOMAIN files' : id \in DOMAIN files /\ files'[id].recs = files[id].recs
    BY <1>1, ClosedPieces
  <2> QED BY <1>0, <1>1, <2>1, StillOnce DEF Busy
<1>2. ASSUME NEW k \in Keys, FinishWrite(k)
      PROVE  OnceInv'
  <2>1. /\ UNCHANGED <<tbl, comp>> /\ \E ids : files' = CloseLogs(ids) \/ files' = files
        /\ acked' = acked \cup {k} /\ w' = [w EXCEPT ![k] = NoWriter]
    BY <1>2 DEF FinishWrite
  <2>2. \A id \in DOMAIN files' : id \in DOMAIN files /\ files'[id].recs = files[id].recs
    BY <2>1, ClosedPieces
  <2>3. w'[k].st = "idle" /\ \A j \in Keys : j # k => w'[j] = w[j]
    BY <2>1, IdleTypes DEF Types
  <2> QED BY <1>0, <2>1, <2>2, <2>3, StillOnce DEF Busy
<1>3. ASSUME NEW k \in Keys, Expire(k)
      PROVE  OnceInv'
  BY <1>1, <1>3 DEF Expire, disk
<1>4. CASE CompactBegin
  <2>1. comp.st = "idle" /\ comp = NoComp /\ comp.rm = {}
    BY <1>4, IdleTypes DEF CompactBegin, CompInv
  <2>2. comp'.st = "unlink"
    BY <1>4, <2>1 DEF CompactBegin, NoComp
  <2> QED BY <1>1, <1>4, <2>1, <2>2 DEF CompactBegin, disk, ghost
<1>5. ASSUME NEW id \in Ids, CompactRemove(id)
      PROVE  OnceInv'
  <2>1. /\ id \in comp.rm /\ files' = Drop(files, id) /\ UNCHANGED <<tbl, w, acked>>
        /\ comp' = [comp EXCEPT !.rm = @ \ {id}]
    BY <1>5 DEF CompactRemove, ghost
  <2>2. comp.st # "rewrite" /\ comp'.st = comp.st /\ comp'.rm = comp.rm \ {id}
    BY <2>1, CompRemoves DEF Types, CompInv
  <2>3. \A i \in DOMAIN files' : i \in DOMAIN files /\ files'[i].recs = files[i].recs /\ i # id
    BY <2>1 DEF Drop
  <2> QED BY <1>0, <2>1, <2>2, <2>3, StillOnce DEF Busy
<1>6. CASE CompactNothing \/ CompactFinish
  <2>1. /\ comp.st \in {"unlink", "finish"} /\ comp.rm = {} /\ comp' = NoComp
        /\ UNCHANGED <<files, tbl, w, acked>>
    BY <1>6 DEF CompactNothing, CompactFinish, ghost
  <2> QED BY <1>1, <2>1, IdleTypes
<1>7. CASE OpenStart \/ OpenAmnesty \/ OpenDone \/ WriteCloseHint \/ UNCHANGED vars
  BY <1>1, <1>7 DEF OpenStart, OpenAmnesty, OpenDone, WriteCloseHint, vars, disk, ghost
<1>8. ASSUME NEW id \in Ids, OpenLog(id)
      PROVE  OnceInv'
  <2>1. mode = "opening" /\ id \in DOMAIN files
    BY <1>8, OpenLogFacts
  <2>2. Excluded(id)
    BY <1>0, <2>1 DEF BehindHint
  <2> QED BY <1>1, <1>8, <2>2 DEF OpenLog, ghost
<1>9. ASSUME NEW id \in Ids, OpenMissing(id)
      PROVE  FALSE
  BY <1>9, NoneMissing
<1>10. CASE OpenFail \/ OpenMisconfigured \/ Close
  <2>1. ASSUME NEW ids, NEW max, CloseFiles(ids, max)
        PROVE  OnceInv'
    BY <1>1, <2>1 DEF CloseFiles, ghost
  <2> QED BY <1>10, <2>1 DEF OpenFail, OpenMisconfigured, Close
<1> QED BY <1>0, <1>2, <1>3, <1>4, <1>5, <1>6, <1>7, <1>8, <1>9, <1>10, WriteLogOnce, AddRecordOnce,
           SelectOnce, RewriteOnce, CommitOnce DEF Next

\* Every step of an undisturbed store keeps the table synced but for what is being uploaded.
LEMMA NextTable ==
  ASSUME SyncWrites, Types, FilesInv, WriterInv, CompInv, PointedInv, Fresh,
         ~Crash, ~CompactFailed, \A k \in Keys : ~WriteFailed(k), \A id \in Ids : ~CompactRemoveFails(id), [Next]_vars
  PROVE  TableInv'
<1>0. TableInv /\ BehindHint
  BY DEF Fresh
<1>1. ASSUME UNCHANGED <<tbl, acked, w>>, tblSynced' = tblSynced \/ tblSynced' = tbl
      PROVE  TableInv'
  BY <1>0, <1>1 DEF TableInv, Busy
<1>2. ASSUME NEW k \in Keys, WriteLog(k)
      PROVE  TableInv'
  <2>1. PICK rec : w' = [w EXCEPT ![k] = [st |-> "appended", rec |-> rec]]
    BY <1>2 DEF WriteLog
  <2>2. w'[k].st = "appended" /\ \A j \in Keys : j # k => w'[j] = w[j]
    BY <2>1 DEF Types
  <2>3. w[k].st = "idle" /\ k \notin acked /\ UNCHANGED <<tbl, tblSynced, acked>>
    BY <1>2 DEF WriteLog, ghost
  <2> QED BY <1>0, <2>2, <2>3 DEF TableInv, Busy
<1>3. ASSUME NEW k \in Keys, AddRecord(k)
      PROVE  TableInv'
  <2>1. /\ w[k].st = "appended" /\ tbl' = [tbl EXCEPT ![k] = w[k].rec] /\ w' = [w EXCEPT ![k].st = "inserted"]
        /\ UNCHANGED <<tblSynced, acked>>
    BY <1>3 DEF AddRecord, ghost
  <2>2. \A j \in Keys : j # k => tbl'[j] = tbl[j] /\ w'[j] = w[j]
    BY <2>1 DEF Types, Table
  <2>3. w'[k].st = "inserted"
    <3>1. w' = [w EXCEPT ![k] = [w[k] EXCEPT !.st = "inserted"]] /\ w[k] \in Writers
      BY <2>1, FileFacts
    <3>2. w'[k] = [w[k] EXCEPT !.st = "inserted"]
      BY <3>1 DEF Types
    <3> QED BY <3>1, <3>2 DEF Writers
  <2>4. tbl[k] = NoRec /\ tblSynced[k] = NoRec /\ k \notin acked
    BY <1>0, <2>1 DEF TableInv, Busy
  <2> QED BY <1>0, <2>1, <2>2, <2>3, <2>4 DEF TableInv, Busy
<1>4. ASSUME NEW k \in Keys, FinishWrite(k)
      PROVE  TableInv'
  <2>1. /\ tblSynced' = tbl /\ tbl' = tbl /\ acked' = acked \cup {k} /\ w' = [w EXCEPT ![k] = NoWriter]
    BY <1>4 DEF FinishWrite
  <2>2. w'[k].st = "idle" /\ \A j \in Keys : j # k => w'[j] = w[j]
    BY <2>1, IdleTypes DEF Types
  <2> QED BY <1>0, <2>1, <2>2 DEF TableInv, Busy
<1>5. ASSUME NEW k \in Keys, Expire(k) \/ RewriteRecord(k)
      PROVE  TableInv'
  BY <1>1, <1>5 DEF Expire, RewriteRecord, disk, ghost
<1>6. CASE \/ CompactBegin \/ CompactNothing \/ CompactSelect \/ CompactFinish
           \/ \E id \in Ids : CompactRemove(id)
  BY <1>1, <1>6 DEF CompactBegin, CompactNothing, CompactSelect, CompactFinish, CompactRemove, disk, ghost
<1>7. CASE CompactCommit
  <2>1. /\ comp.st = "rewrite" /\ tbl' = comp.new /\ tblSynced' = comp.new /\ UNCHANGED <<acked, w>>
        /\ \A k \in Keys : comp.new[k] # NoRec => tbl[k] # NoRec
    BY <1>7 DEF CompactCommit, CompInv, Kept, InTable, ghost
  <2>2. \A k \in Keys : ~Busy(k)
    BY <2>1 DEF WriterInv, Owns, Busy
  <2>3. \A k \in Keys : w[k].st # "inserted" /\ w[k].st # "appended"
    BY <2>2 DEF Busy
  <2> QED BY <1>0, <2>1, <2>2, <2>3 DEF TableInv, Busy
<1>8. CASE OpenStart \/ OpenAmnesty \/ OpenDone \/ WriteCloseHint \/ UNCHANGED vars
  BY <1>1, <1>8 DEF OpenStart, OpenAmnesty, OpenDone, WriteCloseHint, vars, disk, ghost
<1>9. ASSUME NEW id \in Ids, OpenLog(id)
      PROVE  TableInv'
  <2>1. mode = "opening" /\ id \in DOMAIN files
    BY <1>9, OpenLogFacts
  <2>2. Excluded(id)
    BY <1>0, <2>1 DEF BehindHint
  <2> QED BY <1>1, <1>9, <2>2 DEF OpenLog, ghost
<1>10. CASE OpenFail \/ OpenMisconfigured \/ Close
  <2>1. ASSUME NEW ids, NEW max, CloseFiles(ids, max)
        PROVE  TableInv'
    BY <1>1, <2>1 DEF CloseFiles, ghost
  <2> QED BY <1>10, <2>1 DEF OpenFail, OpenMisconfigured, Close
<1> QED BY <1>2, <1>3, <1>4, <1>5, <1>6, <1>7, <1>8, <1>9, <1>10, NoneMissing DEF Next

\* FullInv stays when no log grows.
LEMMA StillFull ==
  ASSUME FullInv, \A id \in DOMAIN files' : /\ id \in DOMAIN files /\ files'[id].recs = files[id].recs
                                            /\ Whole(files[id]) => Whole(files'[id]),
         \A k \in Keys : Busy(k) => w'[k].rec = w[k].rec /\ (Busy(k)' \/ Whole(files'[w[k].rec.log]))
  PROVE  FullInv'
<1> SUFFICES ASSUME NEW id \in DOMAIN files', Full(files'[id]), ~Whole(files'[id])
             PROVE  \E k \in Keys : Busy(k)' /\ w'[k].rec.log = id
  BY DEF FullInv
<1>1. id \in DOMAIN files /\ Full(files[id]) /\ ~Whole(files[id])
  BY DEF Full
<1>2. PICK k \in Keys : Busy(k) /\ w[k].rec.log = id
  BY <1>1 DEF FullInv
<1> QED BY <1>2

\* Every step leaves a full log synced, or acquired by the writer that filled it.
LEMMA NextFull ==
  ASSUME SyncWrites, Types, FilesInv, WriterInv, CompInv, PointedInv, Fresh,
         ~Crash, ~CompactFailed, \A k \in Keys : ~WriteFailed(k), \A id \in Ids : ~CompactRemoveFails(id), [Next]_vars
  PROVE  FullInv'
<1>0. FullInv
  BY DEF Fresh
<1>1. ASSUME w' = w, \E ids : files' = CloseLogs(ids) \/ files' = files
      PROVE  FullInv'
  <2>1. \A id \in DOMAIN files' : /\ id \in DOMAIN files /\ files'[id].recs = files[id].recs
                                  /\ Whole(files[id]) => Whole(files'[id])
    BY <1>1, ClosedPieces, ClosedWhole
  <2> QED BY <1>0, <1>1, <2>1, StillFull DEF Busy
<1>2. ASSUME NEW k \in Keys, WriteLog(k)
      PROVE  FullInv'
  <2>1. PICK id \in Ids :
          /\ Grows(id, k)
          /\ w' = [w EXCEPT ![k] = [st |-> "appended", rec |-> [log |-> id, off |-> Len(files'[id].recs)]]]
    BY <1>2, WriteLogGrows
  <2>2. w[k].st = "idle"
    BY <1>2 DEF WriteLog
  <2>3. w'[k].st = "appended" /\ w'[k].rec.log = id /\ \A j \in Keys : j # k => w'[j] = w[j]
    BY <2>1 DEF Types
  <2>4. \A i \in DOMAIN files' : i = id \/ (i \in DOMAIN files /\ files'[i] = files[i])
    BY <2>1 DEF Grows
  <2>5. \A j \in Keys : Busy(j) => Busy(j)' /\ w'[j] = w[j]
    BY <2>2, <2>3 DEF Busy
  <2>6. Busy(k)'
    BY <2>3 DEF Busy
  <2> QED BY <1>0, <2>3, <2>4, <2>5, <2>6 DEF FullInv
<1>3. ASSUME NEW k \in Keys, AddRecord(k)
      PROVE  FullInv'
  <2>1. /\ w[k].st = "appended" /\ w' = [w EXCEPT ![k].st = "inserted"] /\ files' = files
    BY <1>3 DEF AddRecord
  <2>2. w'[k].st = "inserted" /\ w'[k].rec = w[k].rec
    <3>1. w' = [w EXCEPT ![k] = [w[k] EXCEPT !.st = "inserted"]] /\ w[k] \in Writers
      BY <2>1, FileFacts
    <3>2. w'[k] = [w[k] EXCEPT !.st = "inserted"]
      BY <3>1 DEF Types
    <3> QED BY <3>1, <3>2 DEF Writers
  <2>3. \A j \in Keys : j # k => w'[j] = w[j]
    BY <2>1 DEF Types
  <2> QED BY <1>0, <2>1, <2>2, <2>3, StillFull DEF Busy
<1>4. ASSUME NEW k \in Keys, FinishWrite(k)
      PROVE  FullInv'
  <2> DEFINE id == w[k].rec.log
  <2>1. /\ files' = CloseLogs({id}) /\ w' = [w EXCEPT ![k] = NoWriter]
        /\ id \in lfs /\ lfs \subseteq DOMAIN files
    BY <1>4 DEF FinishWrite, WriterInv, Owns, FilesInv
  <2> HIDE DEF id
  <2>2. \A i \in DOMAIN files' : /\ i \in DOMAIN files /\ files'[i].recs = files[i].recs
                                 /\ i = id \/ Whole(files[i]) => Whole(files'[i])
    BY <2>1, ClosedPieces, ClosedWhole
  <2>3. w'[k].st = "idle" /\ \A j \in Keys : j # k => w'[j] = w[j]
    BY <2>1, IdleTypes DEF Types
  <2> SUFFICES ASSUME NEW i \in DOMAIN files', Full(files'[i]), ~Whole(files'[i])
               PROVE  \E j \in Keys : Busy(j)' /\ w'[j].rec.log = i
    BY DEF FullInv
  <2>4. i \in DOMAIN files /\ Full(files[i]) /\ ~Whole(files[i]) /\ i # id
    BY <2>2 DEF Full
  <2>5. PICK j \in Keys : Busy(j) /\ w[j].rec.log = i
    BY <1>0, <2>4 DEF FullInv
  <2>6. j # k
    BY <2>4, <2>5 DEF id
  <2> QED BY <2>3, <2>5, <2>6 DEF Busy
<1>5. ASSUME NEW k \in Keys, RewriteRecord(k)
      PROVE  FullInv'
  <2>1. PICK id \in Ids, piece \in Pieces : Grows(id, piece) /\ (Full(files'[id]) => Whole(files'[id]))
    BY <1>5, RewriteGrows
  <2>2. \A i \in DOMAIN files' : i = id \/ (i \in DOMAIN files /\ files'[i] = files[i])
    BY <2>1 DEF Grows
  <2>3. w' = w
    BY <1>5 DEF RewriteRecord
  <2> QED BY <1>0, <2>1, <2>2, <2>3 DEF FullInv, Busy
<1>6. CASE CompactBegin \/ CompactNothing \/ CompactSelect \/ CompactFinish \/ CompactCommit
  BY <1>1, <1>6 DEF CompactBegin, CompactNothing, CompactSelect, CompactFinish, CompactCommit, disk
<1>7. ASSUME NEW id \in Ids, CompactRemove(id)
      PROVE  FullInv'
  <2>1. files' = Drop(files, id) /\ w' = w
    BY <1>7 DEF CompactRemove
  <2>2. \A i \in DOMAIN files' : i \in DOMAIN files /\ files'[i] = files[i]
    BY <2>1 DEF Drop
  <2> QED BY <1>0, <2>1, <2>2, StillFull DEF Busy
<1>8. CASE OpenStart \/ OpenAmnesty \/ OpenDone \/ WriteCloseHint \/ UNCHANGED vars
           \/ (\E k \in Keys : Expire(k)) \/ \E id \in Ids : OpenLog(id)
  BY <1>1, <1>8 DEF OpenStart, OpenAmnesty, OpenDone, WriteCloseHint, Expire, OpenLog, vars, disk, ghost
<1>9. CASE OpenFail \/ OpenMisconfigured \/ Close
  <2>1. ASSUME NEW ids, NEW max, CloseFiles(ids, max)
        PROVE  FullInv'
    BY <1>1, <2>1 DEF CloseFiles
  <2> QED BY <1>9, <2>1 DEF OpenFail, OpenMisconfigured, Close
<1> QED BY <1>2, <1>3, <1>4, <1>5, <1>6, <1>7, <1>8, <1>9, NoneMissing DEF Next

\* An undisturbed store is opened with a hint file that excludes all logs: Close has synced them.
LEMMA NextBehind ==
  ASSUME ~OpenFails, Types, FilesInv, WriterInv, CompInv, PointedInv, Fresh, ~Crash, [Next]_vars
  PROVE  BehindHint'
<1>0. BehindHint
  BY DEF Fresh
<1>1. ASSUME mode' = "up", late' = late, mode = "up" \/ late = NoLate
      PROVE  BehindHint'
  BY <1>1 DEF BehindHint, FilesInv
<1>2. CASE mode = "up" /\ ~Close
  <2>1. mode' = mode /\ late' = late
    BY <1>2 DEF Next, WriteLog, WriteFailed, AddRecord, FinishWrite, Expire, CompactBegin, CompactRemove,
       CompactRemoveFails, CompactNothing, CompactSelect, RewriteRecord, CompactFailed, CompactCommit, CompactFinish,
       OpenStart, OpenLog, OpenMissing, OpenAmnesty, OpenDone, OpenFail, OpenMisconfigured, WriteCloseHint,
       FilesInv, vars
  <2> QED BY <1>1, <1>2, <2>1
<1>3. CASE Close
  <2>1. /\ mode = "up" /\ comp.st = "idle" /\ DOMAIN files' = DOMAIN files /\ mode' = "down"
        /\ late' = [largest |-> maxLog, writable |-> {}]
    BY <1>3 DEF Close, CloseFiles, CloseLogs
  <2>2. \A id \in DOMAIN files : id <= maxLog
    BY <2>1, IdleTypes DEF FilesInv, CompInv
  <2>3. late' # NoLate
    <3>1. maxLog \in Nat /\ \A n \in Nat : n # 0 - 1
      BY FileFacts
    <3> QED BY <2>1, <3>1 DEF NoLate
  <2> QED BY <2>1, <2>2, <2>3 DEF BehindHint
<1>4. CASE mode # "up"
  <2>1. comp.st = "idle" /\ \A k \in Keys : w[k].st = "idle"
    BY <1>4 DEF CompInv, WriterInv, Owns
  <2>2. CASE OpenDone
    BY <1>1, <2>2 DEF OpenDone, FilesInv
  <2>3. CASE OpenMisconfigured
    <3>1. DOMAIN files' = {}
      BY <2>3 DEF OpenMisconfigured, CloseFiles, CloseLogs, FilesInv
    <3> QED BY <3>1 DEF BehindHint
  <2>4. CASE WriteCloseHint
    <3>1. /\ late # NoLate /\ hint' = late /\ files' = files /\ late' = NoLate
      BY <2>4 DEF WriteCloseHint
    <3>2. \A id \in DOMAIN files : id <= hint'.largest /\ id \notin hint'.writable
      BY <1>0, <3>1 DEF BehindHint
    <3> QED BY <3>1, <3>2 DEF BehindHint, Excluded
  <2>5. ASSUME DOMAIN files' = DOMAIN files, UNCHANGED <<hint, late>>,
               mode' = mode \/ (mode = "down" /\ late = NoLate)
        PROVE  BehindHint'
    BY <1>0, <1>4, <2>5 DEF BehindHint, Excluded, Types
  <2>6. CASE \/ OpenStart \/ OpenAmnesty \/ UNCHANGED vars
             \/ (\E k \in Keys : Expire(k)) \/ \E id \in Ids : OpenLog(id)
    BY <2>5, <2>6 DEF OpenStart, OpenAmnesty, OpenLog, Expire, CloseLogs, vars, disk
  <2>7. ASSUME NEW k \in Keys,
               WriteLog(k) \/ WriteFailed(k) \/ AddRecord(k) \/ FinishWrite(k) \/ RewriteRecord(k)
        PROVE  FALSE
    BY <1>4, <2>1, <2>7 DEF WriteLog, WriteFailed, AddRecord, FinishWrite, RewriteRecord
  <2>8. ~CompactBegin /\ ~CompactNothing /\ ~CompactSelect /\ ~CompactFailed /\ ~CompactCommit
        /\ ~CompactFinish /\ ~Close /\ ~OpenFail
        /\ \A id \in Ids : ~CompactRemove(id) /\ ~CompactRemoveFails(id)
    BY <1>4, <2>1, IdleTypes DEF CompInv, CompactBegin, CompactNothing, CompactSelect, CompactFailed,
       CompactCommit, CompactFinish, Close, OpenFail, CompactRemove, CompactRemoveFails
  <2> QED BY <2>2, <2>3, <2>4, <2>6, <2>7, <2>8, NoneMissing DEF Next
<1> QED BY <1>2, <1>3, <1>4

-----------------------------------------------------------------------------
(***************************************************************************)
(* The power loss.                                                         *)
(***************************************************************************)

\* What is left of a log: every piece up to a point, beyond which there is none, and all that was
\* synced.
LEMMA RemainsCut ==
  ASSUME NEW log \in Log, NEW rest \in Remains(log)
  PROVE  /\ Whole(rest) /\ (Full(rest) => Full(log))
         /\ \A i \in DOMAIN rest.recs : /\ i \in DOMAIN log.recs
                                        /\ rest.recs[i] = log.recs[i] \/ rest.recs[i] = Bad
         /\ \A off \in DOMAIN log.recs :
              \/ off \in DOMAIN rest.recs /\ rest.recs[off] = log.recs[off]
              \/ ~Whole(log) /\ \A i \in DOMAIN rest.recs : off <= i => rest.recs[i] = Bad
<1>1. /\ log.recs \in Seq(Pieces) /\ Len(log.recs) \in Nat /\ log.synced \in Nat
      /\ DOMAIN log.recs = 1 .. Len(log.recs)
  BY LogFacts
<1>2. PICK r : /\ rest = [recs |-> r, synced |-> Len(r)]
               /\ \E n \in log.synced .. Len(log.recs) :
                    \/ r = SubSeq(log.recs, 1, n)
                    \/ r = [i \in DOMAIN log.recs |-> IF i <= n THEN log.recs[i] ELSE Bad]
  BY DEF Remains
<1>3. PICK n \in log.synced .. Len(log.recs) :
        \/ r = SubSeq(log.recs, 1, n)
        \/ r = [i \in DOMAIN log.recs |-> IF i <= n THEN log.recs[i] ELSE Bad]
  BY <1>2
<1>4. n \in Nat /\ n <= Len(log.recs) /\ log.synced <= n
  BY <1>1
<1>5. rest.recs = r /\ rest.synced = Len(r)
  BY <1>2
<1>6. CASE r = SubSeq(log.recs, 1, n)
  <2>1. /\ Len(r) = n /\ DOMAIN r = 1 .. n
        /\ \A i \in 1 .. n : r[i] = log.recs[i]
    BY <1>1, <1>4, <1>6
  <2>2. \A i \in 1 .. Len(log.recs) :
          i \in 1 .. n \/ (log.synced < Len(log.recs) /\ \A j \in 1 .. n : ~(i <= j))
    BY <1>1, <1>4
  <2>3. log.synced < Len(log.recs) => ~Whole(log)
    BY <1>1 DEF Whole
  <2>4. n >= MaxLogSize => Len(log.recs) >= MaxLogSize
    BY <1>1, <1>4, StoreAssumption
  <2>5. 1 .. n \subseteq 1 .. Len(log.recs)
    BY <1>1, <1>4
  <2> QED BY <1>1, <1>5, <2>1, <2>2, <2>3, <2>4, <2>5 DEF Whole, Full
<1>7. CASE r = [i \in DOMAIN log.recs |-> IF i <= n THEN log.recs[i] ELSE Bad]
  <2>1. /\ DOMAIN r = 1 .. Len(log.recs)
        /\ \A i \in 1 .. Len(log.recs) : r[i] = IF i <= n THEN log.recs[i] ELSE Bad
    BY <1>1, <1>7
  <2>2. Len(r) = Len(log.recs)
    BY <1>1, <2>1
  <2>3. \A i \in 1 .. Len(log.recs) :
          i <= n \/ (log.synced < Len(log.recs) /\ \A j \in 1 .. Len(log.recs) : i <= j => ~(j <= n))
    BY <1>1, <1>4
  <2>4. log.synced < Len(log.recs) => ~Whole(log)
    BY <1>1 DEF Whole
  <2>5. \A i \in DOMAIN rest.recs :
          i \in DOMAIN log.recs /\ (rest.recs[i] = log.recs[i] \/ rest.recs[i] = Bad)
    BY <1>1, <1>5, <2>1
  <2>6. \A off \in DOMAIN log.recs :
          \/ off \in DOMAIN rest.recs /\ rest.recs[off] = log.recs[off]
          \/ ~Whole(log) /\ \A i \in DOMAIN rest.recs : off <= i => rest.recs[i] = Bad
    <3> TAKE off \in DOMAIN log.recs
    <3>1. CASE off <= n
      BY <1>1, <1>5, <2>1, <3>1
    <3>2. CASE ~(off <= n)
      <4>1. ~Whole(log) /\ \A j \in 1 .. Len(log.recs) : off <= j => ~(j <= n)
        BY <1>1, <2>3, <2>4, <3>2
      <4> QED BY <1>5, <2>1, <4>1
    <3> QED BY <3>1, <3>2
  <2> QED BY <1>5, <2>2, <2>5, <2>6 DEF Whole, Full
<1> QED BY <1>3, <1>6, <1>7

\* A power loss tears logs only where the table's records are cut off, and nothing in what the hint
\* file excludes.
LEMMA CrashDamages ==
  ASSUME PowerLoss, Types, FilesInv, WriterInv, CompInv, Sound, Fresh, Crash
  PROVE  Damaged'
<1>0. PointedInv /\ SyncedInv /\ OnceInv /\ TableInv /\ FullInv
  BY DEF Sound, Fresh
<1>1. /\ \A id \in DOMAIN files' : /\ id \in DOMAIN files /\ files[id] \in Log
                                   /\ files'[id] \in Remains(files[id])
      /\ tblSynced' = tbl' /\ \A k \in Keys : tbl'[k] \in {tbl[k], tblSynced[k]}
  BY CrashLeft, FileFacts
<1>2. /\ mode' = "down" /\ lfs' = {} /\ late' = NoLate /\ UNCHANGED <<hint, acked, expired, amnesty>>
  BY DEF Crash, ghost
<1>3. \A k \in Keys : /\ tbl'[k] = NoRec \/ tbl'[k] = tbl[k]
                      /\ k \in acked => tbl'[k] = tbl[k]
  BY <1>0, <1>1 DEF TableInv, Busy
<1>4. 0 \notin DOMAIN files'
  BY <1>1, IdleTypes DEF Types
<1>5. ASSUME NEW k \in Keys, NEW i \in DOMAIN files', In(k, i)'
      PROVE  i \in DOMAIN files /\ In(k, i)
  <2>1. PICK n \in DOMAIN files'[i].recs : files'[i].recs[n] = k
    BY <1>5 DEF In
  <2>2. n \in DOMAIN files[i].recs /\ (files'[i].recs[n] = files[i].recs[n] \/ files'[i].recs[n] = Bad)
    BY <1>1, <1>5, RemainsCut
  <2> QED BY <1>1, <1>5, <2>1, <2>2, StoreAssumption DEF In
<1>6. ASSUME NEW k \in Keys, tbl'[k].log \in DOMAIN files'
      PROVE  /\ Holds(tbl[k], k)' \/ (Cut(tbl[k], k)' /\ ~Whole(files[tbl[k].log]))
             /\ tbl'[k] = tbl[k] /\ tbl[k] # NoRec
  <2>1. tbl'[k] = tbl[k] /\ tbl[k] # NoRec
    BY <1>3, <1>4, <1>6 DEF NoRec
  <2>2. Holds(tbl[k], k)
    BY <1>0, <2>1 DEF PointedInv, InTable
  <2> DEFINE id == tbl[k].log
             off == tbl[k].off
  <2>3. /\ off \in DOMAIN files[id].recs /\ files[id].recs[off] = k
        /\ \A i \in DOMAIN files[id].recs : files[id].recs[i] = k => i = off
    BY <1>0, <1>1, <1>6, <2>1, <2>2 DEF Holds, OnceInv
  <2>4. /\ id \in DOMAIN files' /\ off \in Nat
        /\ \A i \in DOMAIN files'[id].recs :
             /\ i \in DOMAIN files[id].recs
             /\ files'[id].recs[i] = files[id].recs[i] \/ files'[id].recs[i] = Bad
        /\ \/ off \in DOMAIN files'[id].recs /\ files'[id].recs[off] = files[id].recs[off]
           \/ ~Whole(files[id]) /\ \A i \in DOMAIN files'[id].recs : off <= i => files'[id].recs[i] = Bad
    <3>1. off \in Nat
      BY <2>1, FileFacts DEF InTable
    <3>2. files[id] \in Log /\ files'[id] \in Remains(files[id]) /\ id \in DOMAIN files'
      BY <1>1, <1>6, <2>1
    <3> HIDE DEF id, off
    <3> QED BY <2>3, <3>1, <3>2, RemainsCut
  <2>5. CASE off \in DOMAIN files'[id].recs /\ files'[id].recs[off] = files[id].recs[off]
    BY <2>1, <2>3, <2>4, <2>5 DEF Holds
  <2>6. CASE ~Whole(files[id]) /\ \A i \in DOMAIN files'[id].recs : off <= i => files'[id].recs[i] = Bad
    <3>1. Bad \notin Keys
      BY StoreAssumption
    <3>2. ~In(k, id)'
      <4> SUFFICES ASSUME NEW i \in DOMAIN files'[id].recs, files'[id].recs[i] = k
                   PROVE  FALSE
        BY <2>1 DEF In
      <4>1. i = off
        BY <2>3, <2>4, <3>1
      <4>2. off <= off
        BY <2>4
      <4> QED BY <2>6, <3>1, <4>1, <4>2
    <3>3. Cut(tbl[k], k)'
      BY <2>1, <2>6, <3>1, <3>2 DEF Cut
    <3> QED BY <2>1, <2>6, <3>3
  <2> QED BY <2>1, <2>4, <2>5, <2>6
<1>7. \A k \in InTable' : tbl'[k].log \in DOMAIN files' => Holds(tbl[k], k)' \/ Cut(tbl[k], k)'
  BY <1>6 DEF InTable
<1>8. ASSUME NEW k \in Keys, NEW rec \in {tbl'[k], tblSynced'[k]},
             rec.log \in DOMAIN files', Excluded(rec.log)'
      PROVE  Holds(tbl[k], k)' /\ rec = tbl'[k]
  <2>1. rec = tbl'[k]
    BY <1>1
  <2>2. Excluded(tbl'[k].log) /\ tbl'[k].log \in DOMAIN files
    BY <1>1, <1>2, <1>8, <2>1 DEF Excluded
  <2>3. Whole(files[tbl'[k].log])
    BY <1>0, <2>2 DEF SyncedInv
  <2> QED BY <1>6, <1>8, <2>1, <2>3
<1>9. Live' \subseteq InTable' \cup amnesty'
  <2>1. Live' = Live /\ Live \subseteq acked /\ Live \subseteq Keys /\ Live \subseteq InTable \cup amnesty
    BY <1>0, <1>2 DEF Live, PointedInv, Types
  <2> QED BY <1>2, <1>3, <2>1 DEF InTable
<1>10. ASSUME NEW k \in Keys, tblSynced'[k].log \in DOMAIN files', Full(files'[tblSynced'[k].log])
       PROVE  \/ Holds(tblSynced[k], k)'
              \/ tblSynced'[k].log \notin lfs' /\ \A i \in DOMAIN files' : ~In(k, i)'
  <2>1. tblSynced'[k] = tbl'[k] /\ tbl'[k].log \in DOMAIN files'
    BY <1>1, <1>10
  <2>2. CASE Holds(tbl[k], k)'
    BY <2>1, <2>2 DEF Holds
  <2>3. CASE Cut(tbl[k], k)' /\ ~Whole(files[tbl[k].log])
    <3> DEFINE id == tbl[k].log
    <3>1. tbl'[k] = tbl[k] /\ tbl[k] # NoRec /\ id \in DOMAIN files /\ Full(files[id])
      <4>1. tbl'[k] = tbl[k] /\ tbl[k] # NoRec
        BY <1>6, <2>1
      <4>2. id \in DOMAIN files /\ files[id] \in Log /\ files'[id] \in Remains(files[id]) /\ Full(files'[id])
        BY <1>1, <1>10, <2>1, <4>1
      <4> HIDE DEF id
      <4> QED BY <4>1, <4>2, RemainsCut
    <3>2. PICK j \in Keys : Busy(j) /\ w[j].rec.log = id
      BY <1>0, <2>3, <3>1 DEF FullInv
    <3>3. comp.st = "idle" /\ comp.rm = {}
      BY <3>2, IdleTypes DEF WriterInv, Owns, Busy, CompInv
    <3>4. ~In(k, id)'
      BY <2>3, <3>1 DEF Cut
    <3>5. ASSUME NEW i \in DOMAIN files', In(k, i)'
          PROVE  FALSE
      <4>1. i \in DOMAIN files /\ In(k, i)
        BY <1>5, <3>5
      <4>2. i = id
        BY <1>0, <3>1, <3>3, <4>1 DEF OnceInv
      <4> QED BY <3>1, <3>4, <3>5, <4>2
    <3> QED BY <1>2, <3>5
  <2> QED BY <1>6, <2>1, <2>2, <2>3
<1>11. \A id \in DOMAIN files' : Whole(files'[id])
  <2> TAKE id \in DOMAIN files'
  <2>1. files[id] \in Log /\ files'[id] \in Remains(files[id])
    BY <1>1
  <2> QED BY <2>1, RemainsCut
<1>12. \A k \in Keys : \A rec \in {tbl'[k], tblSynced'[k]} :
         rec.log \in DOMAIN files' /\ Excluded(rec.log)' => Holds(rec, k)'
  <2> TAKE k \in Keys
  <2> TAKE rec \in {tbl'[k], tblSynced'[k]}
  <2> HAVE rec.log \in DOMAIN files' /\ Excluded(rec.log)'
  <2> QED BY <1>8 DEF Holds
<1>13. Live' \subseteq InTable' \cup amnesty' \cup report'
  BY <1>9
<1> QED BY <1>1, <1>2, <1>7, <1>10, <1>11, <1>12, <1>13 DEF Damaged

-----------------------------------------------------------------------------
(***************************************************************************)
(* The open that follows.                                                  *)
(***************************************************************************)

\* A function from a finite set to numbers has a greatest value.
LEMMA FiniteMax ==
  ASSUME NEW K, IsFiniteSet(K), K # {}, NEW f, \A k \in K : f[k] \in Nat
  PROVE  \E k \in K : \A j \in K : f[j] <= f[k]
<1> DEFINE R == OpToRel(<, Nat)
           above(k) == {j \in K : f[j] > f[k]}
           T == {Cardinality(above(k)) : k \in K}
<1>1. IsWellFoundedOn(R, Nat)
  BY NatLessThanWellFounded
<1>2. \A x, y \in Nat : x < y => <<x, y>> \in R
  BY DEF OpToRel
<1> HIDE DEF R
<1>3. \A k \in K : IsFiniteSet(above(k)) /\ Cardinality(above(k)) \in Nat
  <2> TAKE k \in K
  <2>1. above(k) \in SUBSET K
    OBVIOUS
  <2> HIDE DEF above
  <2>2. IsFiniteSet(above(k))
    BY <2>1, FS_Subset
  <2> QED BY <2>2, FS_CardinalityType
<1>4. T \subseteq Nat /\ T # {}
  BY <1>3
<1>5. PICK t \in T : \A u \in T : ~(<<u, t>> \in R)
  BY <1>1, <1>4, WFMin
<1>6. PICK m \in K : t = Cardinality(above(m))
  BY <1>5
<1>7. \A k \in K : ~(Cardinality(above(k)) < Cardinality(above(m)))
  BY <1>2, <1>3, <1>5, <1>6
<1>8. ASSUME NEW j \in K, f[j] > f[m]
      PROVE  FALSE
  <2>1. \A a, b, c \in Nat : a > b /\ b > c => a > c
    OBVIOUS
  <2>2. \A a \in Nat : ~(a > a)
    OBVIOUS
  <2>3. above(j) \in SUBSET above(m) /\ j \in above(m) /\ j \notin above(j)
    BY <1>8, <2>1, <2>2
  <2> HIDE DEF above
  <2>4. Cardinality(above(j)) <= Cardinality(above(m)) /\ Cardinality(above(m)) # Cardinality(above(j))
    BY <1>3, <2>3, FS_Subset
  <2>5. \A a, b \in Nat : a <= b /\ b # a => a < b
    OBVIOUS
  <2> QED BY <1>3, <1>7, <2>4, <2>5
<1>9. \A a, b \in Nat : ~(a > b) => a <= b
  OBVIOUS
<1> QED BY <1>8, <1>9

\* When the table and a log agree on the tail, the log has a piece at or beyond every record.
LEMMA TailsAgree ==
  ASSUME Types, NEW id \in DOMAIN files, TableTail(id) = LogTail(files[id].recs),
         NEW k \in Keys, tails[k].log = id
  PROVE  \E i \in DOMAIN files[id].recs : tails[k].off <= i /\ files[id].recs[i] \in Keys
<1> DEFINE recs == files[id].recs
           K == {j \in Keys : tails[j].log = id}
           f == [j \in K |-> tails[j].off]
           at(j) == [key |-> j, off |-> tails[j].off]
           S == {at(j) : j \in K}
<1>1. K \in SUBSET Keys /\ k \in K
  OBVIOUS
<1>2. IsFiniteSet(K)
  BY <1>1, StoreAssumption, FS_Subset
<1>3. \A j \in K : f[j] \in Nat /\ f[j] = tails[j].off
  <2> TAKE j \in K
  <2>1. tails[j] \in Rec
    BY FileFacts
  <2>2. tails[j].off \in Nat
    BY <2>1, RecFacts DEF NoRec
  <2> QED BY <2>2
<1> HIDE DEF f
<1>4. PICK m \in K : \A j \in K : f[j] <= f[m]
  <2> HIDE DEF K
  <2> QED BY <1>1, <1>2, <1>3, FiniteMax
<1>5. TableTail(id) = Newest(S, TailLen)
  BY DEF TableTail
<1>6. at(m) \in S /\ at(m).off = f[m]
  BY <1>3
<1>7. {q \in S : q.off > at(m).off} = {}
  <2>1. \A j \in K : ~(at(j).off > at(m).off)
    <3>1. \A a, b \in Nat : a <= b => ~(a > b)
      OBVIOUS
    <3>2. \A j \in K : at(j).off = f[j]
      BY <1>3
    <3> QED BY <1>3, <1>4, <3>1, <3>2
  <2> HIDE DEF at, K
  <2> QED BY <2>1
<1>8. at(m) \in TableTail(id)
  <2>1. 0 < TailLen
    BY StoreAssumption
  <2> HIDE DEF S, at
  <2> QED BY <1>5, <1>6, <1>7, <2>1, FS_EmptySet DEF Newest
<1>9. PICK i \in DOMAIN recs : recs[i] \in Keys /\ at(m) = [key |-> recs[i], off |-> i]
  <2>1. at(m) \in LogTail(recs)
    BY <1>8
  <2> HIDE DEF at, recs
  <2> QED BY <2>1 DEF LogTail, Newest
<1>10. at(m).off = i
  <2> HIDE DEF at
  <2> QED BY <1>9
<1>11. f[k] <= i /\ f[k] = tails[k].off
  BY <1>1, <1>3, <1>4, <1>6, <1>10
<1> QED BY <1>9, <1>11

\* What reconcileLog makes of the table: a record goes and is reported, or stays and its piece, if
\* it points to this log, is there, or points to the piece in this log.
LEMMA ReconcileLeaves ==
  ASSUME Types, NEW id \in Ids, NEW recs \in Seq(Pieces), ReconcileLog(id, recs)
  PROVE  /\ \A k \in Keys :
              \/ k \in report' /\ tbl'[k] = NoRec
              \/ tbl'[k] = tbl[k] /\ (tbl[k].log = id => k \in InLog(recs))
              \/ /\ tbl'[k] # NoRec /\ tbl'[k].log = id
                 /\ tbl'[k].off \in DOMAIN recs /\ recs[tbl'[k].off] = k
         /\ \/ tblSynced' = tbl'
            \/ tblSynced' = tblSynced /\ report' = {} /\ \A k \in Keys : tbl[k].log = id => k \in InLog(recs)
<1>1. tbl' = Reconciled(id, recs) /\ report' = Invalid(id, recs)
      /\ tblSynced' = IF Invalid(id, recs) = {} THEN tblSynced ELSE tbl'
  BY DEF ReconcileLog
<1>2. \A k \in Keys : k \notin Invalid(id, recs) => (tbl[k].log = id => k \in InLog(recs))
  BY DEF Invalid
<1>3. \A k \in Keys : k \in Invalid(id, recs) => tbl'[k] = NoRec
  BY <1>1 DEF Reconciled
<1>4. \A k \in Keys :
        \/ k \in Invalid(id, recs)
        \/ tbl'[k] = tbl[k]
        \/ /\ tbl'[k] # NoRec /\ tbl'[k].log = id
           /\ tbl'[k].off \in DOMAIN recs /\ recs[tbl'[k].off] = k
  BY <1>1, ReconciledFacts
<1>5. Invalid(id, recs) # {} => tblSynced' = tbl'
  BY <1>1
<1>6. Invalid(id, recs) = {} => tblSynced' = tblSynced
  BY <1>1
<1> QED BY <1>1, <1>2, <1>3, <1>4, <1>5, <1>6

\* What closing a log that is full does to a damaged store: nothing.
LEMMA SameDamage ==
  ASSUME Types, \E ids : files' = CloseLogs(ids) \/ files' = files, \A id \in DOMAIN files : Whole(files[id])
  PROVE  /\ DOMAIN files' = DOMAIN files
         /\ \A id \in DOMAIN files : Whole(files'[id]) /\ (Full(files'[id]) <=> Full(files[id]))
         /\ \A id \in DOMAIN files : \A k : In(k, id)' <=> In(k, id)
         /\ \A rec, k : Holds(rec, k) => Holds(rec, k)'
         /\ \A rec, k : rec.log \in DOMAIN files /\ Cut(rec, k) => Cut(rec, k)'
<1>1. /\ DOMAIN files' = DOMAIN files /\ \A id \in DOMAIN files : files'[id].recs = files[id].recs
      /\ \A id \in DOMAIN files : Whole(files'[id])
  BY ClosedPieces, ClosedWhole
<1>2. \A id \in DOMAIN files : \A k : In(k, id)' <=> In(k, id)
  BY <1>1 DEF In
<1>3. \A id \in DOMAIN files : Full(files'[id]) <=> Full(files[id])
  BY <1>1 DEF Full
<1>4. \A rec, k : rec.log \in DOMAIN files /\ Cut(rec, k) => Cut(rec, k)'
  BY <1>1, <1>2 DEF Cut
<1>5. \A rec, k : Holds(rec, k) => Holds(rec, k)'
  BY <1>1, SamePieces
<1> QED BY <1>1, <1>2, <1>3, <1>4, <1>5

\* A log that is opened is checked, or need not be: what the table then has in it is there.
LEMMA OpenLogSolid ==
  ASSUME Types, FilesInv, Damaged, NEW id \in Ids, OpenLog(id)
  PROVE  /\ \A k \in Keys :
              \/ k \in report' /\ tbl'[k] = NoRec
              \/ tbl'[k] = tbl[k]
              \/ tbl'[k] # NoRec /\ tbl'[k].log = id
         /\ \A k \in InTable' : tbl'[k].log = id => Holds(tbl[k], k)'
         /\ \/ tblSynced' = tbl'
            \/ tblSynced' = tblSynced /\ report' = {} /\ \A k \in Keys : tbl[k].log = id => In(k, id)
         /\ Excluded(id) => tbl' = tbl /\ tblSynced' = tblSynced
<1> DEFINE recs == files[id].recs
<1>1. mode = "opening" /\ report = {} /\ id \in DOMAIN files /\ recs \in Seq(Pieces)
  BY OpenLogFacts
<1>2. /\ DOMAIN files' = DOMAIN files /\ files'[id].recs = recs
      /\ \A rec, k : Holds(rec, k) => Holds(rec, k)'
  BY <1>1, OpenLogFacts, SamePieces
<1>3. \A k : k \in InLog(recs) => In(k, id)
  BY DEF InLog, In
<1>4. CASE ~Excluded(id) /\ ReconcileLog(id, recs)
  <2>1. ASSUME NEW k \in InTable', tbl'[k].log = id
        PROVE  Holds(tbl[k], k)'
    <3>1. k \in Keys /\ tbl'[k] # NoRec
      BY <2>1 DEF InTable
    <3>2. CASE tbl'[k] = tbl[k] /\ (tbl[k].log = id => k \in InLog(recs))
      <4>1. In(k, id) /\ k \in InTable /\ tbl[k].log = id
        BY <1>3, <2>1, <3>1, <3>2 DEF InTable
      <4>2. Holds(tbl[k], k)
        BY <1>1, <4>1 DEF Damaged, Cut
      <4>3. Holds(tbl[k], k) => Holds(tbl'[k], k)
        BY <3>2
      <4>4. Holds(tbl'[k], k)
        BY <4>2, <4>3
      <4>5. /\ tbl'[k].off \in DOMAIN recs /\ recs[tbl'[k].off] = k
        BY <2>1, <4>4 DEF Holds
      <4> HIDE DEF recs
      <4> QED BY <1>1, <1>2, <2>1, <4>5 DEF Holds
    <3>3. CASE tbl'[k].off \in DOMAIN recs /\ recs[tbl'[k].off] = k
      <4> HIDE DEF recs
      <4> QED BY <1>1, <1>2, <2>1, <3>3 DEF Holds
    <3> QED BY <1>1, <1>4, <3>1, <3>2, <3>3, ReconcileLeaves
  <2> QED BY <1>1, <1>3, <1>4, <2>1, ReconcileLeaves
<1>5. CASE UNCHANGED <<tbl, tblSynced, report>> /\ (Excluded(id) \/ TableTail(id) = LogTail(recs))
  <2>1. ASSUME NEW k \in InTable, tbl[k].log = id
        PROVE  Holds(tbl[k], k)
    <3>1. CASE Excluded(id)
      BY <1>1, <2>1, <3>1 DEF Damaged, InTable
    <3>2. CASE TableTail(id) = LogTail(recs) /\ id \notin lfs
      <4>1. tails[k] = tbl[k] /\ k \in Keys
        BY <1>1, <2>1, <3>2 DEF Damaged, InTable
      <4>2. \E i \in DOMAIN files[id].recs : tbl[k].off <= i /\ files[id].recs[i] \in Keys
        BY <1>1, <2>1, <3>2, <4>1, TailsAgree
      <4> QED BY <1>1, <2>1, <4>2 DEF Damaged, Cut
    <3>3. CASE id \in lfs
      BY <2>1, <3>3 DEF Damaged
    <3> QED BY <1>5, <3>1, <3>2, <3>3
  <2>2. \A k \in Keys : tbl[k].log = id => k \in InTable
    BY FileFacts, RecFacts DEF InTable
  <2>3. \A k \in Keys : tbl[k].log = id => In(k, id)
    BY <2>1, <2>2, HoldsFacts
  <2>4. \A k \in InTable' : tbl'[k].log = id => Holds(tbl[k], k)'
    <3> TAKE k \in InTable'
    <3> HAVE tbl'[k].log = id
    <3>1. k \in InTable /\ tbl'[k] = tbl[k]
      BY <1>5 DEF InTable
    <3>2. Holds(tbl[k], k)
      BY <2>1, <3>1
    <3> QED BY <1>2, <3>1, <3>2 DEF Holds
  <2> QED BY <1>1, <1>5, <2>3, <2>4
<1> QED BY <1>4, <1>5 DEF OpenLog

\* A log was checked, or was not there: the damage is confined to the logs that are still to be opened.
LEMMA CheckedDamage ==
  ASSUME Types, FilesInv, Damaged, mode = "opening", report = {}, NEW id \in Ids, lfs' \subseteq DOMAIN files,
         lfs' \subseteq lfs \cup {id},
         lfs \subseteq lfs', \E ids : files' = CloseLogs(ids) \/ files' = files,
         UNCHANGED <<hint, mode, late, acked, expired, amnesty>>,
         \A k \in Keys : \/ k \in report' /\ tbl'[k] = NoRec
                         \/ tbl'[k] = tbl[k]
                         \/ tbl'[k] # NoRec /\ tbl'[k].log = id /\ id \in lfs',
         \A k \in InTable' : tbl'[k].log = id => Holds(tbl[k], k)' /\ id \in lfs',
         \/ tblSynced' = tbl'
         \/ tblSynced' = tblSynced /\ report' = {} /\ \A k \in Keys : tbl[k].log = id => In(k, id),
         id \in DOMAIN files /\ Excluded(id) => tbl' = tbl /\ tblSynced' = tblSynced,
         \A k \in Keys : tails[k].log # id => tails'[k] = tails[k],
         \A i \in lfs' \ open' : Full(files[i])
  PROVE  Damaged'
<1>1. /\ DOMAIN files' = DOMAIN files
      /\ \A i \in DOMAIN files : Whole(files'[i]) /\ (Full(files'[i]) <=> Full(files[i]))
      /\ \A i \in DOMAIN files : \A k : In(k, i)' <=> In(k, i)
      /\ \A rec, k : Holds(rec, k) => Holds(rec, k)'
      /\ \A rec, k : rec.log \in DOMAIN files /\ Cut(rec, k) => Cut(rec, k)'
  BY SameDamage DEF Damaged
<1>2. 0 \notin DOMAIN files /\ lfs \subseteq DOMAIN files
  BY IdleTypes DEF Types, FilesInv
<1>3. \A k \in Keys : tbl'[k] = tbl[k] /\ Holds(tbl[k], k) => Holds(tbl[k], k)'
  <2> TAKE k \in Keys
  <2> HAVE tbl'[k] = tbl[k] /\ Holds(tbl[k], k)
  <2>1. Holds(tbl'[k], k)
    BY DEF Holds
  <2> QED BY <1>1, <2>1 DEF Holds
<1>4. ASSUME NEW k \in InTable'
      PROVE  /\ tbl'[k].log \in lfs' => Holds(tbl[k], k)'
             /\ tbl'[k].log \in DOMAIN files' => Holds(tbl[k], k)' \/ Cut(tbl[k], k)'
             /\ tbl'[k].log \in lfs' \/ tails'[k] = tbl'[k]
  <2>1. k \in Keys /\ tbl'[k] # NoRec
    BY <1>4 DEF InTable
  <2>2. CASE tbl'[k].log = id
    BY <1>4, <2>2
  <2>3. CASE tbl'[k] = tbl[k] /\ tbl'[k].log # id
    <3>1. k \in InTable
      BY <2>1, <2>3 DEF InTable
    <3>2. /\ tbl[k].log \in lfs => Holds(tbl[k], k)
          /\ tbl[k].log \in DOMAIN files => Holds(tbl[k], k) \/ Cut(tbl[k], k)
          /\ tbl[k].log \in lfs \/ tails[k] = tbl[k]
      BY <3>1 DEF Damaged
    <3>3. tbl[k].log \in DOMAIN files /\ Cut(tbl[k], k) => Cut(tbl[k], k)'
      <4> HAVE tbl[k].log \in DOMAIN files /\ Cut(tbl[k], k)
      <4>1. tbl'[k].log \in DOMAIN files /\ Cut(tbl'[k], k)
        BY <2>3 DEF Cut
      <4> QED BY <1>1, <4>1 DEF Cut
    <3> QED BY <1>1, <1>3, <2>1, <2>3, <3>2, <3>3
  <2> QED BY <2>1, <2>2, <2>3
<1>5. \A k \in Keys : tblSynced'[k] = tblSynced[k] /\ Holds(tblSynced[k], k) => Holds(tblSynced[k], k)'
  <2> TAKE k \in Keys
  <2> HAVE tblSynced'[k] = tblSynced[k] /\ Holds(tblSynced[k], k)
  <2>1. Holds(tblSynced'[k], k)
    BY DEF Holds
  <2> QED BY <1>1, <2>1 DEF Holds
<1>6. ASSUME NEW k \in Keys, NEW rec \in {tbl'[k], tblSynced'[k]},
             rec.log \in DOMAIN files', Excluded(rec.log)'
      PROVE  Holds(rec, k)
  <2>1. rec.log \in DOMAIN files /\ Excluded(rec.log) /\ rec # NoRec
    BY <1>1, <1>2, <1>6 DEF Excluded, NoRec
  <2>2. rec \in {tbl[k], tblSynced[k]}
    BY <1>6, <2>1
  <2> QED BY <2>1, <2>2 DEF Damaged
<1>7. \A k \in Keys : \A rec \in {tbl'[k], tblSynced'[k]} :
        rec.log \in DOMAIN files' /\ Excluded(rec.log)' => Holds(rec, k)'
  <2> TAKE k \in Keys
  <2> TAKE rec \in {tbl'[k], tblSynced'[k]}
  <2> HAVE rec.log \in DOMAIN files' /\ Excluded(rec.log)'
  <2>1. Holds(rec, k)
    BY <1>6
  <2>2. rec.log \in DOMAIN files /\ rec.off \in DOMAIN files[rec.log].recs /\ files[rec.log].recs[rec.off] = k
    BY <2>1 DEF Holds
  <2>3. files'[rec.log].recs = files[rec.log].recs
    BY <2>2, ClosedPieces
  <2> QED BY <1>1, <2>2, <2>3 DEF Holds
<1>8. Live' \subseteq InTable' \cup amnesty' \cup report'
  <2>1. Live' = Live /\ Live \subseteq Keys /\ Live \subseteq InTable \cup amnesty
    BY DEF Live, Damaged, Types
  <2>2. \A k \in Keys : k \in InTable => k \in InTable' \cup report'
    BY DEF InTable
  <2> QED BY <2>1, <2>2
<1>9. ASSUME NEW k \in Keys
      PROVE  tblSynced'[k] = tbl'[k] \/ (k \in InTable' /\ tbl'[k].log \in lfs')
  BY <1>9 DEF Damaged, InTable
<1>10. ASSUME NEW k \in Keys, tblSynced'[k].log \in DOMAIN files', Full(files'[tblSynced'[k].log])
       PROVE  \/ Holds(tblSynced[k], k)'
              \/ tblSynced'[k].log \notin lfs' /\ \A i \in DOMAIN files' : ~In(k, i)'
  <2>1. CASE tblSynced' = tbl'
    <3>1. tbl'[k] # NoRec /\ k \in InTable'
      BY <1>1, <1>2, <1>10, <2>1 DEF NoRec, InTable
    <3>2. CASE Holds(tbl[k], k)'
      BY <2>1, <3>2 DEF Holds
    <3>3. CASE tbl'[k].log # id /\ ~Holds(tbl[k], k)'
      <4>1. tbl'[k] = tbl[k] /\ k \in InTable
        BY <3>1, <3>3 DEF InTable
      <4>2. ~Holds(tbl[k], k)
        BY <1>3, <3>3, <4>1
      <4>3. tblSynced[k] = tbl[k]
        BY <4>1, <4>2 DEF Damaged
      <4>4. ~Holds(tblSynced[k], k)
        <5>1. Holds(tblSynced[k], k) => Holds(tbl[k], k)
          BY <4>3 DEF Holds
        <5> QED BY <4>2, <5>1
      <4>5. tblSynced'[k] = tblSynced[k]
        BY <2>1, <4>1, <4>3
      <4>6. tblSynced[k].log \notin lfs /\ \A i \in DOMAIN files : ~In(k, i)
        BY <1>1, <1>10, <4>4, <4>5 DEF Damaged
      <4> QED BY <1>1, <2>1, <3>3, <4>5, <4>6
    <3> QED BY <3>1, <3>2, <3>3
  <2>2. CASE tblSynced' = tblSynced /\ \A j \in Keys : tbl[j].log = id => In(j, id)
    <3>1. CASE Holds(tblSynced[k], k)
      BY <1>5, <2>2, <3>1
    <3>2. CASE tblSynced[k].log \notin lfs /\ \A i \in DOMAIN files : ~In(k, i)
      <4>1. tblSynced[k].log # id
        <5>1. \A i \in DOMAIN files : i = id => tbl[k].log # id
          BY <2>2, <3>2
        <5>2. tblSynced[k].log = id => tblSynced[k] # tbl[k]
          BY <1>1, <1>10, <2>2, <5>1
        <5>3. tblSynced[k] # tbl[k] => Holds(tbl[k], k)
          BY DEF Damaged
        <5>4. ~Holds(tbl[k], k)
          BY <3>2, HoldsFacts
        <5> QED BY <5>2, <5>3, <5>4
      <4> QED BY <1>1, <2>2, <3>2, <4>1
    <3> QED BY <1>1, <1>10, <2>2, <3>1, <3>2 DEF Damaged
  <2> QED BY <2>1, <2>2
<1>11. late' = NoLate /\ mode' # "up" /\ \A i \in DOMAIN files' : Whole(files'[i])
  BY <1>1 DEF FilesInv
<1>12. \A i \in lfs' \ open' : i \in DOMAIN files /\ Full(files'[i])
  BY <1>1
<1> QED BY <1>4, <1>7, <1>8, <1>9, <1>10, <1>11, <1>12 DEF Damaged

\* OpenLog: the log is checked, unless the hint file or its tail shows that nothing is lost there.
LEMMA OpenLogDamaged ==
  ASSUME Types, FilesInv, Damaged, NEW id \in Ids, OpenLog(id)
  PROVE  Damaged'
<1>1. /\ mode = "opening" /\ report = {} /\ id \in DOMAIN files
      /\ lfs' = lfs \cup {id} /\ lfs \subseteq DOMAIN files
      /\ UNCHANGED <<hint, mode, tails, late, acked, expired, amnesty>>
      /\ files' = CloseLogs({id}) \/ files' = files
      /\ open' = IF Full(files[id]) THEN open ELSE open \cup {id}
  BY OpenLogFacts DEF OpenLog, ghost, FilesInv
<1>2. \A i \in lfs' \ open' : Full(files[i])
  BY <1>1 DEF Damaged
<1>3. \E ids : files' = CloseLogs(ids) \/ files' = files
  BY <1>1
<1>4. \A k \in Keys : \/ k \in report' /\ tbl'[k] = NoRec
                      \/ tbl'[k] = tbl[k]
                      \/ tbl'[k] # NoRec /\ tbl'[k].log = id /\ id \in lfs'
  BY <1>1, OpenLogSolid
<1>5. \A k \in InTable' : tbl'[k].log = id => Holds(tbl[k], k)' /\ id \in lfs'
  BY <1>1, OpenLogSolid
<1>6. \/ tblSynced' = tbl'
      \/ tblSynced' = tblSynced /\ report' = {} /\ \A k \in Keys : tbl[k].log = id => In(k, id)
  BY OpenLogSolid
<1>7. Excluded(id) => tbl' = tbl /\ tblSynced' = tblSynced
  BY OpenLogSolid
<1> QED BY <1>1, <1>2, <1>3, <1>4, <1>5, <1>6, <1>7, CheckedDamage

\* OpenMissing: the records of a log that is lost as a whole go and are reported.
LEMMA OpenMissingDamaged ==
  ASSUME Types, FilesInv, Damaged, NEW id \in Ids, OpenMissing(id)
  PROVE  Damaged'
<1>1. /\ mode = "opening" /\ report = {} /\ todo = {} /\ id \notin lfs /\ ReconcileLog(id, <<>>)
      /\ tails' = [k \in Keys |-> IF tails[k].log = id THEN NoRec ELSE tails[k]]
      /\ UNCHANGED <<files, hint, mode, lfs, open, late, acked, expired, amnesty>>
  BY DEF OpenMissing, ghost
<1>2. DOMAIN files = lfs /\ id \notin DOMAIN files
  BY <1>1 DEF FilesInv
<1> DEFINE recs == <<>>
<1>3. recs \in Seq(Pieces) /\ InLog(recs) = {} /\ DOMAIN recs = {} /\ ReconcileLog(id, recs)
  BY <1>1 DEF InLog
<1> HIDE DEF recs
<1>4. /\ \A k \in Keys : \/ k \in report' /\ tbl'[k] = NoRec
                         \/ tbl'[k] = tbl[k] /\ tbl[k].log # id
      /\ \/ tblSynced' = tbl'
         \/ tblSynced' = tblSynced /\ report' = {} /\ \A k \in Keys : tbl[k].log # id
  <2>1. /\ \A k \in Keys :
             \/ k \in report' /\ tbl'[k] = NoRec
             \/ tbl'[k] = tbl[k] /\ (tbl[k].log = id => k \in InLog(recs))
             \/ /\ tbl'[k] # NoRec /\ tbl'[k].log = id
                /\ tbl'[k].off \in DOMAIN recs /\ recs[tbl'[k].off] = k
        /\ \/ tblSynced' = tbl'
           \/ tblSynced' = tblSynced /\ report' = {} /\ \A k \in Keys : tbl[k].log = id => k \in InLog(recs)
    BY <1>3, ReconcileLeaves
  <2> QED BY <1>3, <2>1
<1>5. \A k \in InTable' : tbl'[k].log # id
  BY <1>4 DEF InTable
<1>6. \A i \in lfs' \ open' : Full(files[i])
  BY <1>1 DEF Damaged
<1>7. \A k \in Keys : tails[k].log # id => tails'[k] = tails[k]
  BY <1>1
<1> QED BY <1>1, <1>2, <1>4, <1>5, <1>6, <1>7, CheckedDamage

\* OpenDone: every log is checked, and the store is as if nothing had happened.
LEMMA OpenDoneSound ==
  ASSUME Types, FilesInv, WriterInv, CompInv, Damaged, OpenDone
  PROVE  Sound'
<1>1. /\ mode = "opening" /\ report = {} /\ todo = {} /\ TailsLeft = {}
      /\ hint' = HintNow(open) /\ mode' = "up"
      /\ UNCHANGED <<files, tbl, tblSynced, lfs, open, w, comp, report, acked, expired, amnesty>>
  BY DEF OpenDone, ghost
<1>2. DOMAIN files = lfs /\ comp.st = "idle" /\ \A k \in Keys : w[k].st = "idle"
  BY <1>1 DEF FilesInv, CompInv, WriterInv, Owns
<1>3. ASSUME NEW k \in InTable
      PROVE  Holds(tbl[k], k)
  <2>1. tbl[k].log \in lfs \/ (tails[k] = tbl[k] /\ tails[k] # NoRec /\ k \in Keys)
    BY <1>1 DEF Damaged, InTable
  <2>2. tbl[k].log \in lfs
    BY <1>1, <2>1 DEF TailsLeft
  <2> QED BY <2>2 DEF Damaged
<1>4. InTable' = InTable /\ Live' \subseteq InTable' \cup amnesty'
  BY <1>1 DEF InTable, Live, Damaged
<1>5. \A k \in InTable' : Holds(tbl[k], k)'
  BY <1>1, <1>3, <1>4 DEF Holds
<1>6. PointedInv'
  BY <1>1, <1>2, <1>4, <1>5 DEF PointedInv
<1>7. \A i \in DOMAIN files : Whole(files[i]) /\ (i \notin open => Full(files[i]))
  BY <1>1, <1>2 DEF Damaged
<1>8. \A k \in Keys : tblSynced[k].log \in lfs /\ tblSynced[k].log \notin open => Holds(tblSynced[k], k)
  BY <1>2, <1>7 DEF Damaged
<1>9. \A k \in Keys : Holds(tblSynced[k], k) => Holds(tblSynced[k], k)'
  BY <1>1 DEF Holds
<1>10. \A i : Excluded(i)' => i \notin open
  BY <1>1 DEF Excluded, HintNow
<1>11. SyncedInv'
  BY <1>1, <1>2, <1>7, <1>8, <1>9, <1>10 DEF SyncedInv
<1> QED BY <1>6, <1>11 DEF Sound

\* The damage stays as it is when no file and no record changes.
LEMMA StillDamaged ==
  ASSUME Types, FilesInv, Damaged, UNCHANGED <<files, tbl, tblSynced, hint>>, mode' # "up",
         lfs' = lfs, open' = open, Live' \subseteq InTable \cup amnesty' \cup report',
         late' # NoLate => files = <<>>,
         mode' = "opening" => tails' = tbl \/ (mode = "opening" /\ tails' = tails),
         mode' = "opening" => mode = "opening" \/ lfs = {}
  PROVE  Damaged'
<1>1. /\ \A rec, k : Holds(rec, k)' <=> Holds(rec, k)
      /\ \A rec, k : Cut(rec, k)' <=> Cut(rec, k)
      /\ \A k, id : In(k, id)' <=> In(k, id)
      /\ \A id : Excluded(id)' <=> Excluded(id)
      /\ InTable' = InTable
  BY DEF Holds, Cut, In, Excluded, InTable
<1>2. /\ \A id \in DOMAIN files' : Whole(files'[id])
      /\ \A k \in InTable' :
           /\ tbl'[k].log \in lfs' => Holds(tbl[k], k)'
           /\ tbl'[k].log \in DOMAIN files' => Holds(tbl[k], k)' \/ Cut(tbl[k], k)'
           /\ mode' = "opening" => tbl'[k].log \in lfs' \/ tails'[k] = tbl'[k]
  <2>1. \A k : (Holds(tbl[k], k) => Holds(tbl[k], k)') /\ (Cut(tbl[k], k) => Cut(tbl[k], k)')
    BY DEF Holds, Cut, In
  <2> QED BY <1>1, <2>1 DEF Damaged
<1>3. \A k \in Keys : \A rec \in {tbl'[k], tblSynced'[k]} :
        rec.log \in DOMAIN files' /\ Excluded(rec.log)' => Holds(rec, k)'
  <2> TAKE k \in Keys
  <2> TAKE rec \in {tbl'[k], tblSynced'[k]}
  <2> HAVE rec.log \in DOMAIN files' /\ Excluded(rec.log)'
  <2>1. rec \in {tbl[k], tblSynced[k]} /\ rec.log \in DOMAIN files /\ Excluded(rec.log)
    BY DEF Excluded
  <2>2. Holds(rec, k)
    BY <2>1 DEF Damaged
  <2> QED BY <2>2 DEF Holds
<1>4. \A k \in Keys :
        /\ tblSynced'[k] = tbl'[k] \/ (k \in InTable' /\ tbl'[k].log \in lfs')
        /\ tblSynced'[k].log \in DOMAIN files' /\ Full(files'[tblSynced'[k].log]) =>
             \/ Holds(tblSynced[k], k)'
             \/ tblSynced'[k].log \notin lfs' /\ \A id \in DOMAIN files' : ~In(k, id)'
  <2>1. \A k : Holds(tblSynced[k], k) => Holds(tblSynced[k], k)'
    BY DEF Holds
  <2> QED BY <1>1, <2>1 DEF Damaged
<1>5. Live' \subseteq InTable' \cup amnesty' \cup report'
  BY <1>1
<1>6. mode' = "opening" => \A id \in lfs' \ open' : Full(files'[id])
  BY DEF Damaged
<1> QED BY <1>2, <1>3, <1>4, <1>5, <1>6 DEF Damaged

\* A store without a log file has nothing that could be damaged.
LEMMA EmptyDamaged ==
  ASSUME mode' = "down", files' = <<>>, lfs' = {}, Live' \subseteq InTable' \cup amnesty' \cup report',
         \A k \in Keys : tblSynced'[k] = tbl'[k]
  PROVE  Damaged'
<1>1. DOMAIN files' = {}
  OBVIOUS
<1> QED BY <1>1 DEF Damaged

\* An open after a power loss confines the damage log by log, until the store is up.
LEMMA NextDamaged ==
  ASSUME ~OpenFails, Types, FilesInv, WriterInv, CompInv, Damaged, ~Crash, [Next]_vars
  PROVE  Damaged' \/ Sound'
<1>1. /\ mode # "up" /\ comp.st = "idle" /\ comp.rm = {} /\ \A k \in Keys : w[k].st = "idle"
      /\ Live \subseteq InTable \cup amnesty \cup report /\ mode \in {"down", "opening"}
      /\ late # NoLate => files = <<>>
  BY IdleTypes DEF Damaged, CompInv, WriterInv, Owns, Types
<1>2. CASE OpenStart
  BY <1>1, <1>2, StillDamaged DEF OpenStart, disk, ghost, FilesInv, Live
<1>3. CASE OpenAmnesty
  <2>1. UNCHANGED <<files, tbl, tblSynced, hint, mode, lfs, open, late, tails, acked, expired>>
        /\ amnesty' = amnesty \cup report
    BY <1>3 DEF OpenAmnesty, disk
  <2> QED BY <1>1, <2>1, StillDamaged DEF Live
<1>4. ASSUME NEW k \in Keys, Expire(k)
      PROVE  Damaged'
  <2>1. UNCHANGED <<files, tbl, tblSynced, hint, mode, lfs, open, late, tails, acked, amnesty, report>>
        /\ expired' = expired \cup {k}
    BY <1>4 DEF Expire, disk
  <2> QED BY <1>1, <2>1, StillDamaged DEF Live
<1>5. CASE UNCHANGED vars
  BY <1>1, <1>5, StillDamaged DEF vars, disk, ghost, Live
<1>6. CASE WriteCloseHint
  <2>1. files = <<>> /\ mode = "down" /\ lfs = {}
    BY <1>1, <1>6 DEF WriteCloseHint, FilesInv
  <2>2. UNCHANGED <<files, tbl, tblSynced, mode, lfs, open, acked, expired, amnesty, report>>
    BY <1>6 DEF WriteCloseHint, ghost
  <2> QED BY <2>1, <2>2, EmptyDamaged DEF Damaged, Live, InTable
<1>7. CASE OpenMisconfigured
  <2>1. DOMAIN files = {} /\ lfs = {} /\ report = {}
    BY <1>7 DEF OpenMisconfigured, FilesInv
  <2>2. /\ files' = CloseLogs({}) /\ mode' = "down" /\ lfs' = {} /\ tblSynced' = tbl
        /\ UNCHANGED <<tbl, acked, expired, amnesty, report>>
    BY <1>7 DEF OpenMisconfigured, CloseFiles, ghost
  <2>3. files' = <<>>
    BY <2>1, <2>2 DEF CloseLogs
  <2> QED BY <1>1, <2>1, <2>2, <2>3, EmptyDamaged DEF Live, InTable
<1>8. ASSUME NEW k \in Keys,
             WriteLog(k) \/ WriteFailed(k) \/ AddRecord(k) \/ FinishWrite(k) \/ RewriteRecord(k)
      PROVE  FALSE
  BY <1>1, <1>8 DEF WriteLog, WriteFailed, AddRecord, FinishWrite, RewriteRecord
<1>9. ~CompactBegin /\ ~CompactNothing /\ ~CompactSelect /\ ~CompactFailed /\ ~CompactCommit
      /\ ~CompactFinish /\ ~Close /\ ~OpenFail
      /\ \A id \in Ids : ~CompactRemove(id) /\ ~CompactRemoveFails(id)
  BY <1>1 DEF CompactBegin, CompactNothing, CompactSelect, CompactFailed, CompactCommit,
     CompactFinish, Close, OpenFail, CompactRemove, CompactRemoveFails
<1> QED BY <1>2, <1>3, <1>4, <1>5, <1>6, <1>7, <1>8, <1>9, OpenLogDamaged, OpenMissingDamaged,
           OpenDoneSound DEF Next

-----------------------------------------------------------------------------
(***************************************************************************)
(* One power loss.                                                         *)
(***************************************************************************)

\* The counters count the crashes and the errors.
LEMMA NextCounts ==
  ASSUME crashes \in Nat, errors \in Nat, [Next]_vars
  PROVE  /\ crashes' \in Nat /\ errors' \in Nat
         /\ crashes' = IF Crash THEN crashes + 1 ELSE crashes
         /\ errors' = 0 => /\ errors = 0 /\ ~CompactFailed /\ \A k \in Keys : ~WriteFailed(k)
                           /\ \A id \in Ids : ~CompactRemoveFails(id)
                           /\ left' \subseteq left
<1>1. ASSUME Crash
      PROVE  crashes' = crashes + 1 /\ errors' = errors /\ left' \subseteq left
  BY <1>1 DEF Crash
<1>2. ASSUME CompactFailed \/ (\E k \in Keys : WriteFailed(k)) \/ \E id \in Ids : CompactRemoveFails(id)
      PROVE  crashes' = crashes /\ errors' = errors + 1
  BY <1>2 DEF CompactFailed, WriteFailed, CompactRemoveFails
<1>3. ASSUME NEW k \in Keys, WriteLog(k) \/ AddRecord(k) \/ FinishWrite(k) \/ Expire(k) \/ RewriteRecord(k)
      PROVE  UNCHANGED <<crashes, errors>> /\ left' \subseteq left
  BY <1>3 DEF WriteLog, AddRecord, FinishWrite, Expire, RewriteRecord
<1>4. ASSUME NEW id \in Ids, CompactRemove(id) \/ OpenLog(id) \/ OpenMissing(id)
      PROVE  UNCHANGED <<crashes, errors>> /\ left' \subseteq left
  BY <1>4 DEF CompactRemove, OpenLog, OpenMissing
<1>5. ASSUME \/ CompactBegin \/ CompactNothing \/ CompactSelect \/ CompactCommit \/ CompactFinish
             \/ OpenStart \/ OpenAmnesty \/ OpenDone \/ WriteCloseHint \/ UNCHANGED vars
      PROVE  UNCHANGED <<crashes, errors>> /\ left' \subseteq left
  BY <1>5 DEF CompactBegin, CompactNothing, CompactSelect, CompactCommit, CompactFinish, OpenStart,
     OpenAmnesty, OpenDone, WriteCloseHint, vars
<1>6. ASSUME Close \/ OpenFail \/ OpenMisconfigured
      PROVE  UNCHANGED <<crashes, errors>> /\ left' \subseteq left
  BY <1>6 DEF Close, OpenFail, OpenMisconfigured, CloseFiles
<1>7. \/ Crash
      \/ CompactFailed \/ (\E k \in Keys : WriteFailed(k)) \/ \E id \in Ids : CompactRemoveFails(id)
      \/ UNCHANGED <<crashes, errors>> /\ left' \subseteq left
  BY <1>3, <1>4, <1>5, <1>6 DEF Next
<1>8. \A n \in Nat : n + 1 \in Nat /\ n + 1 # n /\ n + 1 # 0
  OBVIOUS
<1> QED BY <1>1, <1>2, <1>7, <1>8

\* The store starts with nothing to lose.
LEMMA InitPower == Init => PowerInv
<1> SUFFICES ASSUME Init
             PROVE  PowerInv
  OBVIOUS
<1>1. /\ files = <<>> /\ DOMAIN files = {} /\ tbl = [k \in Keys |-> NoRec] /\ tblSynced = tbl /\ tails = tbl
      /\ mode = "down" /\ w = [k \in Keys |-> NoWriter] /\ comp = NoComp /\ late = NoLate
      /\ report = {} /\ acked = {} /\ left = {} /\ crashes = 0 /\ errors = 0
  BY DEF Init
<1>2. \A k \in Keys : tbl[k] = NoRec /\ tblSynced[k] = NoRec /\ w[k].st = "idle"
  BY <1>1, IdleTypes
<1>3. InTable = {} /\ comp.st = "idle"
  BY <1>1, <1>2, IdleTypes DEF InTable
<1>4. PointedInv
  BY <1>1, <1>2, <1>3 DEF PointedInv, Live
<1>5. SyncedInv
  BY <1>1, <1>2 DEF SyncedInv
<1>6. OnceInv /\ FullInv
  BY <1>1, <1>3 DEF OnceInv, FullInv
<1>7. TableInv
  BY <1>1, <1>2 DEF TableInv, Busy
<1>8. BehindHint
  BY <1>1 DEF BehindHint
<1> QED BY <1>1, <1>4, <1>5, <1>6, <1>7, <1>8 DEF PowerInv, Sound, Fresh

\* One power loss and no error leave the store sound or what it repairs when it is opened.
LEMMA NextPower ==
  ASSUME PowerLoss, SyncWrites, ~OpenFails, Inv, PowerInv, [Next]_vars
  PROVE  PowerInv'
<1>0. /\ Types /\ FilesInv /\ WriterInv /\ CompInv /\ HintInv
      /\ crashes \in Nat /\ errors \in Nat
  BY DEF Inv, PowerInv
<1>1. /\ crashes' \in Nat /\ errors' \in Nat
      /\ crashes' = IF Crash THEN crashes + 1 ELSE crashes
      /\ errors' = 0 => /\ errors = 0 /\ ~CompactFailed /\ \A k \in Keys : ~WriteFailed(k)
                        /\ \A id \in Ids : ~CompactRemoveFails(id)
                        /\ left' \subseteq left
  BY <1>0, NextCounts
<1>6. errors' = 0 => left' = {}
  BY <1>1 DEF PowerInv
<1>2. SUFFICES ASSUME Calm'
               PROVE  (Sound' /\ (crashes' = 0 => Fresh')) \/ (crashes' = 1 /\ Damaged')
  BY <1>1, <1>6 DEF PowerInv
<1>3. /\ crashes' <= 1 /\ errors = 0 /\ ~CompactFailed /\ \A k \in Keys : ~WriteFailed(k)
      /\ (\A id \in Ids : ~CompactRemoveFails(id)) /\ left = {}
  BY <1>1, <1>2 DEF Calm, PowerInv
<1>4. CASE Crash
  <2>1. crashes = 0 /\ crashes' = 1
    <3>1. \A n \in Nat : n + 1 <= 1 => n = 0 /\ n + 1 = 1
      OBVIOUS
    <3> QED BY <1>0, <1>1, <1>3, <1>4, <3>1
  <2>2. Sound /\ Fresh
    BY <1>3, <2>1 DEF PowerInv, Calm
  <2> QED BY <1>0, <1>4, <2>1, <2>2, CrashDamages
<1>5. CASE ~Crash
  <2>1. crashes' = crashes
    BY <1>1, <1>5
  <2>2. Calm
    BY <1>3, <2>1 DEF Calm
  <2>3. CASE Sound /\ (crashes = 0 => Fresh)
    <3>1. Sound'
      BY <1>0, <1>3, <1>5, <2>3, NextPointedInv, NextSyncedInv DEF Sound
    <3>2. ASSUME crashes' = 0
          PROVE  Fresh'
      <4>1. Fresh /\ PointedInv
        BY <2>1, <2>3, <3>2 DEF Sound
      <4>2. OnceInv'
        BY <1>0, <1>3, <1>5, <4>1, NextOnce
      <4>3. TableInv'
        BY <1>0, <1>3, <1>5, <4>1, NextTable
      <4>4. FullInv'
        BY <1>0, <1>3, <1>5, <4>1, NextFull
      <4>5. BehindHint'
        BY <1>0, <1>5, <4>1, NextBehind
      <4> QED BY <4>2, <4>3, <4>4, <4>5 DEF Fresh
    <3> QED BY <3>1, <3>2
  <2>4. CASE crashes = 1 /\ Damaged
    <3>1. Damaged' \/ Sound'
      BY <1>0, <1>5, <2>4, NextDamaged
    <3>2. crashes' = 1
      BY <2>1, <2>4
    <3>3. crashes' # 0
      BY <3>2
    <3> QED BY <3>1, <3>2, <3>3 DEF Sound
  <2> QED BY <2>2, <2>3, <2>4 DEF PowerInv
<1> QED BY <1>4, <1>5

\* The invariant that holds through one power loss, over every state of the specification.
THEOREM PowerInvariance ==
  ASSUME PowerLoss, SyncWrites, ~OpenFails
  PROVE  Spec => []PowerInv
<1>1. Inv /\ PowerInv /\ [Next]_vars => PowerInv'
  BY NextPower
<1> QED BY <1>1, InitPower, Invariance, PTL DEF Spec

\* One power loss, and no error of the disk, at any step and with any part of what was not synced
\* lost: the logs that the hint file lets the next open skip are synced, and what the disk's table
\* has in them is there.
THEOREM ExcludedSoundHolds ==
  ASSUME PowerLoss, SyncWrites, ~OpenFails
  PROVE  Spec => [](Calm => ExcludedSound)
<1>1. Inv /\ PowerInv /\ Calm => ExcludedSound
  <2> SUFFICES ASSUME Inv, PowerInv, Calm, NEW id \in DOMAIN files, Excluded(id)
               PROVE  /\ files[id].synced = Len(files[id].recs)
                      /\ \A k \in Keys : tblSynced[k].log = id =>
                           /\ tblSynced[k].off \in DOMAIN files[id].recs
                           /\ files[id].recs[tblSynced[k].off] = k
    BY DEF ExcludedSound
  <2>1. /\ Whole(files[id])
        /\ \A k \in Keys : tblSynced[k].log = id => Holds(tblSynced[k], k)
    BY DEF PowerInv, Sound, SyncedInv, Damaged
  <2> QED BY <2>1 DEF Whole, Holds
<1> QED BY <1>1, Invariance, PowerInvariance, PTL

\* After one power loss every record of an open store points to its piece: the records of what was
\* lost are gone when NewStore returns.
THEOREM NoDanglingAfterPowerLoss ==
  ASSUME PowerLoss, SyncWrites, ~OpenFails
  PROVE  Spec => [](Calm => NoDangling)
<1>1. Inv /\ PowerInv /\ Calm => NoDangling
  <2> SUFFICES ASSUME Inv, PowerInv, Calm, mode = "up", NEW k \in InTable
               PROVE  Readable(k)
    BY DEF NoDangling
  <2>1. PointedInv
    BY DEF PowerInv, Damaged, Sound
  <2> QED BY <2>1, PointedReadable DEF Inv
<1> QED BY <1>1, Invariance, PowerInvariance, PTL

\* And an acknowledged piece that has not expired can be read, or was reported as lost.  Without a
\* power loss it can be read whatever fails.
THEOREM NoSilentLossHolds ==
  ASSUME SyncWrites, ~OpenFails
  PROVE  Spec => [](Calm => NoSilentLoss)
<1>1. Inv /\ PowerInv /\ Calm => NoSilentLoss
  <2> SUFFICES ASSUME Inv, PowerInv, Calm, mode = "up", NEW k \in Live
               PROVE  Readable(k) \/ k \in amnesty
    BY DEF NoSilentLoss
  <2>1. PointedInv
    BY DEF PowerInv, Damaged, Sound
  <2>2. k \in InTable \/ k \in amnesty
    BY <2>1 DEF PointedInv
  <2> QED BY <2>1, <2>2, PointedReadable DEF Inv
<1>2. AckedReadable => NoSilentLoss
  BY DEF AckedReadable, NoSilentLoss
<1>3. CASE PowerLoss
  BY <1>1, <1>3, Invariance, PowerInvariance, PTL
<1>4. CASE ~PowerLoss
  BY <1>2, <1>4, AckedReadableHolds, PTL
<1> QED BY <1>3, <1>4
=============================================================================
