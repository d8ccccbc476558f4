------------------------------ MODULE OxgStore ------------------------------
(***************************************************************************)
(* The storage engine of oxgraph-db: a store directory holding a           *)
(* superblock, one base file and one delta-log per generation and a writer *)
(* lock, used by any number of Db handles (one per process).               *)
(*                                                                         *)
(* Db::create, Db::open, the write transaction (begin_write, commit,       *)
(* rollback) and the checkpoint are sequences of file operations; a step   *)
(* of this module is one file operation, so that handles interleave        *)
(* between any two of them and a crash may fall between any two of them.   *)
(*                                                                         *)
(* The graph is abstracted to what recovery must keep: the set of live     *)
(* element ids and the id allocator.  OxgOverlay models the graph itself.  *)
(***************************************************************************)
EXTENDS Naturals, Sequences

CONSTANTS
  Handles,    \* Db handles; each lives in a process of its own
  None,       \* an absent file, or nobody (a value outside every other set)
  Torn,       \* a log record that does not parse
  Faults,     \* the failures the environment may produce, see FaultKinds
  MaxId,      \* bound: element ids are 1..MaxId
  MaxLsn,     \* bound on the commit sequence
  MaxTxn,     \* bound on transaction ids
  MaxGen,     \* bound on base generations
  MaxCrash    \* bound on the number of process and machine crashes

(***************************************************************************)
(* append    write_all or sync_all of a log record fails                   *)
(* rollback  and so does the set_len that should undo it                   *)
(* prepare   a step before the superblock rename fails (fold, create)      *)
(* publish   the directory fsync after the superblock rename fails         *)
(* reopen    an I/O error inside Db::open                                  *)
(* kill      a process dies; what it wrote stays in the page cache         *)
(* gap       and it may die between the superblock rename and the fsync    *)
(* power     the machine dies; what was not synced may be lost             *)
(* race      two Db::create calls overlap                                  *)
(* overlap   Db::open reads or truncates a log another handle works on     *)
(* unlink    a fold unlinks the generation a Db::open is reading           *)
(***************************************************************************)
FaultKinds ==
  {"append", "rollback", "prepare", "publish", "reopen", "kill", "gap",
   "power", "race", "overlap", "unlink"}

Ids == 1..MaxId
Lsns == 0..MaxLsn
Txns == 0..MaxTxn
Gens == 0..MaxGen

\* What a merged view holds: the visible elements and the id watermark.
Content == [live : SUBSET Ids, next : 1..(MaxId + 1)]

\* One commit record: its stamps, its operations and its trailing watermark.
Frame == [lsn : Lsns, txn : Txns, add : SUBSET Ids, del : SUBSET Ids,
          next : 1..(MaxId + 1)]

Superblock == [gen : Gens, seq : Lsns, txn : Txns]
BaseFile == [view : Content, seq : Lsns, txn : Txns]
LogFile == Seq(Frame \cup {Torn})

ASSUME BoundsAssumption ==
  MaxId \in Nat /\ MaxLsn \in Nat /\ MaxTxn \in Nat /\ MaxGen \in Nat /\ MaxCrash \in Nat

ASSUME ValuesAssumption ==
  /\ Faults \subseteq FaultKinds
  /\ None \notin Handles
  /\ None \notin Superblock
  /\ None \notin BaseFile
  /\ None \notin LogFile
  /\ Torn \notin Frame

VARIABLES
  sb,         \* super.oxgdb as the processes see it, or None
  sbDurable,  \* the super.oxgdb a power loss falls back to
  base,       \* base[g]: base-g.oxgdb, or None
  log,        \* log[g]: the records of delta-g.log, or None
  synced,     \* synced[g]: how many records of delta-g.log are fsynced
  lock,       \* who holds the advisory lock on store.lock, or None
  pc,         \* where each handle is in its current operation
  db,         \* Db: base_generation, current (lsn, view), last_transaction_id
  delta,      \* Writer: the staged WriteOverlay and the eof of its append
  scan,       \* locals of Db::open: frontier, frames still to fold
  acked,      \* history: the frontier of the last acknowledged commit
  used,       \* history: every element id an acknowledged commit published
  crashes     \* how many crashes there have been

disk == <<sb, sbDurable, base, log, synced>>
ghost == <<acked, used>>
vars == <<disk, lock, pc, db, delta, scan, ghost, crashes>>

EmptyView == [live |-> {}, next |-> 1]
NoDb == [gen |-> 0, lsn |-> 0, txn |-> 0, view |-> EmptyView]
NoDelta == [add |-> {}, del |-> {}, next |-> 1, eof |-> 0]
NoScan == [gen |-> 0, lsn |-> 0, txn |-> 0, view |-> EmptyView, recs |-> <<>>,
           valid |-> 0, floor |-> [lsn |-> 0, view |-> EmptyView]]

CreateSteps == {"create_base", "create_log", "create_publish", "create_sync"}
OpenSteps == {"open_super", "open_base", "open_log", "open_truncate", "open_fold"}
WriteSteps == {"txn", "append", "sync"}
FoldSteps == {"fold_base", "fold_log", "fold_publish", "fold_sync"}
Pcs == {"closed", "idle"} \cup CreateSteps \cup OpenSteps \cup WriteSteps \cup FoldSteps

DbState == [gen : Gens, lsn : Lsns, txn : Txns, view : Content]
DeltaState == [add : SUBSET Ids, del : SUBSET Ids, next : 1..(MaxId + 1), eof : Nat]
Frontier == [lsn : Lsns, view : Content]
ScanState == [gen : Gens, lsn : Lsns, txn : Txns, view : Content, recs : Seq(Frame),
              valid : Nat, floor : Frontier]

Init ==
  /\ sb = None
  /\ sbDurable = None
  /\ base = [g \in Gens |-> None]
  /\ log = [g \in Gens |-> None]
  /\ synced = [g \in Gens |-> 0]
  /\ lock = None
  /\ pc = [h \in Handles |-> "closed"]
  /\ db = [h \in Handles |-> NoDb]
  /\ delta = [h \in Handles |-> NoDelta]
  /\ scan = [h \in Handles |-> NoScan]
  /\ acked = [lsn |-> 0, view |-> EmptyView]
  /\ used = {}
  /\ crashes = 0

-----------------------------------------------------------------------------
(* Helpers *)

Goto(h, step) == pc' = [pc EXCEPT ![h] = step]

Larger(a, b) == IF a > b THEN a ELSE b
Smaller(a, b) == IF a < b THEN a ELSE b
\* Mutant: the recovered watermark is the base's, the frame's is ignored.
Apply_NoWatermark(view, frame) ==
  [live |-> (view.live \cup frame.add) \ frame.del, next |-> view.next]

\* The view after folding one frame: creations, then tombstones; the watermark
\* is the elementwise maximum.
Apply(view, frame) ==
  [live |-> (view.live \cup frame.add) \ frame.del,
   next |-> Larger(view.next, frame.next)]

\* A missing log reads as an empty one.
Records(g) == IF log[g] = None THEN <<>> ELSE log[g]

\* The first n records all parse and their lsns ascend strictly.
Parses(recs, n) ==
  /\ \A i \in 1..n : recs[i] # Torn
  /\ \A i \in 2..n : recs[i].lsn > recs[i - 1].lsn

\* n is the length of the longest prefix that parses.
ValidLen(recs, n) ==
  /\ n <= Len(recs)
  /\ Parses(recs, n)
  /\ n < Len(recs) => ~Parses(recs, n + 1)

\* Record n + 1 stops the scan silently (a torn tail) rather than loudly.  An
\* unparsable record is the tail when nothing follows it; when bytes do follow,
\* its length field may still claim all of them.  A repeated or falling lsn is
\* always loud.
TornTail(recs, n) == n < Len(recs) /\ recs[n + 1] = Torn
Interior(recs, n) == n + 1 < Len(recs)
LoudAt(recs, n) ==
  n < Len(recs) /\ (recs[n + 1] = Torn => Interior(recs, n))

\* Nobody else is between the first and the last operation of an append or of a
\* truncating open, unless the environment allows such overlaps: Db::open takes
\* no lock.
LogQuiet(h) ==
  "overlap" \in Faults \/
  \A k \in Handles \ {h} : pc[k] \notin {"append", "sync", "open_truncate"}

\* A directory fsync makes the last superblock rename durable as well.
SyncDirectory == sbDurable' = sb

\* The file with its length set to n records: cut, or extended with zeros that
\* parse as nothing.
SetLen(recs, n) == IF n <= Len(recs) THEN SubSeq(recs, 1, n) ELSE Append(recs, Torn)

\* The handle's file system locals go back to their defaults.
ClearScan(h) == scan' = [scan EXCEPT ![h] = NoScan]

-----------------------------------------------------------------------------
(* Db::create *)

\* The existence check.  Nothing is locked: without "race" the environment
\* promises that creations do not overlap.
CreateCheck(h) ==
  /\ pc[h] = "closed"
  /\ sb = None
  /\ "race" \in Faults \/ \A k \in Handles : pc[k] \notin CreateSteps
  /\ Goto(h, "create_base")
  /\ UNCHANGED <<disk, lock, db, delta, scan, ghost, crashes>>

CreateBase(h) ==
  /\ pc[h] = "create_base"
  /\ base' = [base EXCEPT ![0] = [view |-> EmptyView, seq |-> 0, txn |-> 0]]
  /\ SyncDirectory
  /\ Goto(h, "create_log")
  /\ UNCHANGED <<sb, log, synced, lock, db, delta, scan, ghost, crashes>>

CreateLog(h) ==
  /\ pc[h] = "create_log"
  /\ log' = [log EXCEPT ![0] = <<>>]
  /\ synced' = [synced EXCEPT ![0] = 0]
  /\ SyncDirectory
  /\ Goto(h, "create_publish")
  /\ UNCHANGED <<sb, base, lock, db, delta, scan, ghost, crashes>>

CreatePublish(h) ==
  /\ pc[h] = "create_publish"
  /\ sb' = [gen |-> 0, seq |-> 0, txn |-> 0]
  /\ Goto(h, "create_sync")
  /\ UNCHANGED <<sbDurable, base, log, synced, lock, db, delta, scan, ghost, crashes>>

CreateSync(h) ==
  /\ pc[h] = "create_sync"
  /\ SyncDirectory
  /\ Goto(h, "open_super")
  /\ UNCHANGED <<sb, base, log, synced, lock, db, delta, scan, ghost, crashes>>

\* A step of create fails: the files written so far stay.
CreateFail(h) ==
  /\ \/ "prepare" \in Faults /\ pc[h] \in CreateSteps \ {"create_sync"}
     \/ "publish" \in Faults /\ pc[h] = "create_sync"
  /\ Goto(h, "closed")
  /\ UNCHANGED <<disk, lock, db, delta, scan, ghost, crashes>>

Create(h) ==
  \/ CreateCheck(h) \/ CreateBase(h) \/ CreateLog(h) \/ CreatePublish(h)
  \/ CreateSync(h) \/ CreateFail(h)

-----------------------------------------------------------------------------
(* Db::open, called by the user, at the end of create, and by a fold (which   *)
(* then holds the lock).                                                      *)

OpenSuperblock(h) ==
  /\ pc[h] \in {"closed", "open_super"}
  /\ sb # None
  /\ scan' = [scan EXCEPT ![h] =
       [NoScan EXCEPT !.gen = sb.gen, !.lsn = sb.seq, !.txn = sb.txn, !.floor = acked]]
  /\ Goto(h, "open_base")
  /\ UNCHANGED <<disk, lock, db, delta, ghost, crashes>>

OpenBase(h) ==
  /\ pc[h] = "open_base"
  /\ base[scan[h].gen] # None
  /\ scan' = [scan EXCEPT ![h].view = base[scan[h].gen].view]
  /\ Goto(h, "open_log")
  /\ UNCHANGED <<disk, lock, db, delta, ghost, crashes>>

\* read_log and wal::replay: keep the valid prefix, note a torn tail.
OpenLog(h) ==
  /\ pc[h] = "open_log"
  /\ LogQuiet(h)
  /\ LET recs == Records(scan[h].gen) IN
       \E n \in 0..Len(recs) :
         /\ ValidLen(recs, n)
         /\ n = Len(recs) \/ TornTail(recs, n)
         /\ scan' = [scan EXCEPT ![h].recs = SubSeq(recs, 1, n), ![h].valid = n]
         /\ Goto(h, IF n < Len(recs) THEN "open_truncate" ELSE "open_fold")
  /\ UNCHANGED <<disk, lock, db, delta, ghost, crashes>>

\* truncate_log cuts the file as it is now to the length found good before.
OpenTruncate(h) ==
  /\ pc[h] = "open_truncate"
  /\ log[scan[h].gen] # None
  /\ LET g == scan[h].gen
         n == scan[h].valid IN
       /\ log' = [log EXCEPT ![g] = SetLen(log[g], n)]
       /\ synced' = [synced EXCEPT ![g] = Len(SetLen(log[g], n))]
  /\ Goto(h, "open_fold")
  /\ UNCHANGED <<sb, sbDurable, base, lock, db, delta, scan, ghost, crashes>>
\* Mutant: the transaction id of the replayed frames is not taken over.
OpenFold_NoTxn(h) ==
  /\ pc[h] = "open_fold"
  /\ scan[h].recs # <<>>
  /\ LET frame == Head(scan[h].recs) IN
       scan' = [scan EXCEPT ![h].view = Apply(scan[h].view, frame),
                            ![h].lsn = frame.lsn,
                            ![h].recs = Tail(scan[h].recs)]
  /\ UNCHANGED <<disk, lock, pc, db, delta, ghost, crashes>>

\* One turn of the replay loop.
OpenFold(h) ==
  /\ pc[h] = "open_fold"
  /\ scan[h].recs # <<>>
  /\ LET frame == Head(scan[h].recs) IN
       scan' = [scan EXCEPT ![h].view = Apply(scan[h].view, frame),
                            ![h].lsn = frame.lsn,
                            ![h].txn = Larger(scan[h].txn, frame.txn),
                            ![h].recs = Tail(scan[h].recs)]
  /\ UNCHANGED <<disk, lock, pc, db, delta, ghost, crashes>>

Opened(h) ==
  [gen |-> scan[h].gen, lsn |-> scan[h].lsn, txn |-> scan[h].txn, view |-> scan[h].view]

OpenDone(h) ==
  /\ pc[h] = "open_fold"
  /\ scan[h].recs = <<>>
  /\ lock # h
  /\ db' = [db EXCEPT ![h] = Opened(h)]
  /\ ClearScan(h)
  /\ Goto(h, "idle")
  /\ UNCHANGED <<disk, lock, delta, ghost, crashes>>

\* Loud corruption, a file unlinked meanwhile, or an I/O error.  Inside a fold
\* the error leaves the handle as it was.
OpenFails(h) ==
  \/ pc[h] = "open_super" /\ sb = None
  \/ pc[h] = "open_base" /\ base[scan[h].gen] = None
  \/ /\ pc[h] = "open_log"
     /\ LET recs == Records(scan[h].gen) IN
          \E n \in 0..Len(recs) : ValidLen(recs, n) /\ LoudAt(recs, n)
  \/ pc[h] = "open_truncate" /\ log[scan[h].gen] = None
  \/ pc[h] \in OpenSteps \ {"open_fold"} /\ "reopen" \in Faults

OpenFail(h) ==
  /\ OpenFails(h)
  /\ Goto(h, IF lock = h THEN "idle" ELSE "closed")
  /\ lock' = IF lock = h THEN None ELSE lock
  /\ ClearScan(h)
  /\ UNCHANGED <<disk, db, delta, ghost, crashes>>

\* The Db is dropped.
Close(h) ==
  /\ pc[h] = "idle"
  /\ db' = [db EXCEPT ![h] = NoDb]
  /\ Goto(h, "closed")
  /\ UNCHANGED <<disk, lock, delta, scan, ghost, crashes>>

Open(h) ==
  \/ OpenSuperblock(h) \/ OpenBase(h) \/ OpenLog(h) \/ OpenTruncate(h)
  \/ OpenFold(h) \/ OpenDone(h) \/ OpenFail(h)

-----------------------------------------------------------------------------
(* Db::write: begin_write, the closure, then commit or rollback. *)

\* try_lock succeeds; the transaction id is burned at once.  (When somebody
\* holds the lock the call returns WriterLockHeld and changes nothing.)
BeginWrite(h) ==
  /\ pc[h] = "idle"
  /\ lock = None
  /\ db[h].txn < MaxTxn
  /\ lock' = h
  /\ db' = [db EXCEPT ![h].txn = @ + 1]
  /\ delta' = [delta EXCEPT ![h] = [NoDelta EXCEPT !.next = db[h].view.next]]
  /\ Goto(h, "txn")
  /\ UNCHANGED <<disk, scan, ghost, crashes>>
\* Mutant: the allocator does not check for overflow.
CreateElement_Wraps(h) ==
  /\ pc[h] = "txn"
  /\ delta' = [delta EXCEPT ![h].add = @ \cup {delta[h].next}, ![h].next = @ + 1]
  /\ UNCHANGED <<disk, lock, pc, db, scan, ghost, crashes>>

CreateElement(h) ==
  /\ pc[h] = "txn"
  /\ delta[h].next <= MaxId
  /\ delta' = [delta EXCEPT ![h].add = @ \cup {delta[h].next}, ![h].next = @ + 1]
  /\ UNCHANGED <<disk, lock, pc, db, scan, ghost, crashes>>

TombstoneElement(h) ==
  /\ pc[h] = "txn"
  /\ \E id \in (db[h].view.live \cup delta[h].add) \ delta[h].del :
       delta' = [delta EXCEPT ![h].del = @ \cup {id}]
  /\ UNCHANGED <<disk, lock, pc, db, scan, ghost, crashes>>

Dirty(h) == delta[h].add # {} \/ delta[h].del # {}

\* The closure fails, or nothing was staged: no frame, the lock is released.
Rollback(h) ==
  /\ pc[h] = "txn"
  /\ lock' = None
  /\ delta' = [delta EXCEPT ![h] = NoDelta]
  /\ Goto(h, "idle")
  /\ UNCHANGED <<disk, db, scan, ghost, crashes>>

Lsn(h) == db[h].lsn + 1

FrameOf(h) ==
  [lsn |-> Lsn(h), txn |-> db[h].txn, add |-> delta[h].add, del |-> delta[h].del,
   next |-> delta[h].next]

\* append_commit: seek to the end, and the first bytes of the record arrive.
\* The log is created when it is absent.
AppendPart(h) ==
  /\ pc[h] = "txn"
  /\ Dirty(h)
  /\ Lsn(h) <= MaxLsn
  /\ LogQuiet(h)
  /\ LET g == db[h].gen IN
       /\ log' = [log EXCEPT ![g] = Append(Records(g), Torn)]
       /\ synced' = [synced EXCEPT ![g] = IF log[g] = None THEN 0 ELSE @]
       /\ delta' = [delta EXCEPT ![h].eof = Len(Records(g))]
  /\ Goto(h, "append")
  /\ UNCHANGED <<sb, sbDurable, base, lock, db, scan, ghost, crashes>>

\* The rest of the record arrives.  If the file is no longer what the first
\* bytes left, the rest lands on its own and does not parse.
AppendRest(h) ==
  /\ pc[h] = "append"
  /\ LET g == db[h].gen
         recs == Records(g)
         n == Len(recs) IN
       log' = [log EXCEPT ![g] =
                 IF n = delta[h].eof + 1 /\ recs[n] = Torn
                 THEN [recs EXCEPT ![n] = FrameOf(h)]
                 ELSE Append(recs, Torn)]
  /\ Goto(h, "sync")
  /\ UNCHANGED <<sb, sbDurable, base, synced, lock, db, delta, scan, ghost, crashes>>
\* Mutant: the commit is published without sync_all.
CommitSync_NoSync(h) ==
  /\ pc[h] = "sync"
  /\ LET view == Apply(db[h].view, FrameOf(h)) IN
       /\ db' = [db EXCEPT ![h].lsn = Lsn(h), ![h].view = view]
       /\ acked' = [lsn |-> Lsn(h), view |-> view]
       /\ used' = used \cup view.live
  /\ lock' = None
  /\ delta' = [delta EXCEPT ![h] = NoDelta]
  /\ Goto(h, "idle")
  /\ UNCHANGED <<sb, sbDurable, base, log, synced, scan, crashes>>

\* sync_all returns; the new snapshot is published and the lock released.
CommitSync(h) ==
  /\ pc[h] = "sync"
  /\ LET g == db[h].gen
         view == Apply(db[h].view, FrameOf(h)) IN
       /\ synced' = [synced EXCEPT ![g] = Len(Records(g))]
       /\ db' = [db EXCEPT ![h].lsn = Lsn(h), ![h].view = view]
       /\ acked' = [lsn |-> Lsn(h), view |-> view]
       /\ used' = used \cup view.live
  /\ lock' = None
  /\ delta' = [delta EXCEPT ![h] = NoDelta]
  /\ Goto(h, "idle")
  /\ UNCHANGED <<sb, sbDurable, base, log, scan, crashes>>
\* Mutant: a failed append is not rolled back.
AppendFail_NoRollback(h) ==
  /\ pc[h] \in {"append", "sync"}
  /\ "append" \in Faults
  /\ lock' = None
  /\ delta' = [delta EXCEPT ![h] = NoDelta]
  /\ Goto(h, "idle")
  /\ UNCHANGED <<disk, db, scan, ghost, crashes>>

\* Mutant: the error path of a failed append keeps the writer lock.
AppendFail_KeepsLock(h) ==
  /\ pc[h] \in {"append", "sync"}
  /\ "append" \in Faults
  /\ delta' = [delta EXCEPT ![h] = NoDelta]
  /\ Goto(h, "idle")
  /\ UNCHANGED <<disk, lock, db, scan, ghost, crashes>>

\* The write or the fsync fails: rollback_to cuts the file back to eof, or its
\* own failure is swallowed; either way the caller gets an error.
AppendFail(h) ==
  /\ pc[h] \in {"append", "sync"}
  /\ "append" \in Faults
  /\ LET g == db[h].gen IN
       \/ /\ log' = [log EXCEPT ![g] = SetLen(Records(g), delta[h].eof)]
          /\ synced' = [synced EXCEPT ![g] = Smaller(@, delta[h].eof)]
       \/ /\ "rollback" \in Faults
          /\ UNCHANGED <<log, synced>>
  /\ lock' = None
  /\ delta' = [delta EXCEPT ![h] = NoDelta]
  /\ Goto(h, "idle")
  /\ UNCHANGED <<sb, sbDurable, base, db, scan, ghost, crashes>>

Write(h) ==
  \/ BeginWrite(h) \/ CreateElement(h) \/ TombstoneElement(h) \/ Rollback(h)
  \/ AppendPart(h) \/ AppendRest(h) \/ CommitSync(h) \/ AppendFail(h)

-----------------------------------------------------------------------------
(* Db::checkpoint_inner, called by compact or after a commit by the policy. *)

FoldBegin(h) ==
  /\ pc[h] = "idle"
  /\ lock = None
  /\ db[h].gen < MaxGen
  /\ lock' = h
  /\ Goto(h, "fold_base")
  /\ UNCHANGED <<disk, db, delta, scan, ghost, crashes>>

FoldBase(h) ==
  /\ pc[h] = "fold_base"
  /\ base' = [base EXCEPT ![db[h].gen + 1] =
                [view |-> db[h].view, seq |-> db[h].lsn, txn |-> db[h].txn]]
  /\ SyncDirectory
  /\ Goto(h, "fold_log")
  /\ UNCHANGED <<sb, log, synced, lock, db, delta, scan, ghost, crashes>>

FoldLog(h) ==
  /\ pc[h] = "fold_log"
  /\ log' = [log EXCEPT ![db[h].gen + 1] = <<>>]
  /\ synced' = [synced EXCEPT ![db[h].gen + 1] = 0]
  /\ SyncDirectory
  /\ Goto(h, "fold_publish")
  /\ UNCHANGED <<sb, base, lock, db, delta, scan, ghost, crashes>>
\* Mutant: the superblock is stamped with the sequence of the old base.
FoldPublish_OldSeq(h) ==
  /\ pc[h] = "fold_publish"
  /\ base[db[h].gen] # None
  /\ sb' = [gen |-> db[h].gen + 1, seq |-> base[db[h].gen].seq, txn |-> db[h].txn]
  /\ Goto(h, "fold_sync")
  /\ UNCHANGED <<sbDurable, base, log, synced, lock, db, delta, scan, ghost, crashes>>

\* The rename that publishes the superblock: the linearization point.
FoldPublish(h) ==
  /\ pc[h] = "fold_publish"
  /\ sb' = [gen |-> db[h].gen + 1, seq |-> db[h].lsn, txn |-> db[h].txn]
  /\ Goto(h, "fold_sync")
  /\ UNCHANGED <<sbDurable, base, log, synced, lock, db, delta, scan, ghost, crashes>>

FoldSync(h) ==
  /\ pc[h] = "fold_sync"
  /\ SyncDirectory
  /\ Goto(h, "open_super")
  /\ UNCHANGED <<sb, base, log, synced, lock, db, delta, scan, ghost, crashes>>

\* The reopen succeeded: adopt it, unlink the old generation (an unlink that
\* fails is ignored), release the lock.
FoldDone(h) ==
  /\ pc[h] = "open_fold"
  /\ scan[h].recs = <<>>
  /\ lock = h
  /\ \/ "unlink" \in Faults
     \/ \A k \in Handles \ {h} : pc[k] \notin {"open_base", "open_log"}
  /\ db' = [db EXCEPT ![h] = Opened(h)]
  /\ \E b \in {None, base[db[h].gen]} : base' = [base EXCEPT ![db[h].gen] = b]
  /\ \E l \in {None, log[db[h].gen]} : log' = [log EXCEPT ![db[h].gen] = l]
  /\ ClearScan(h)
  /\ lock' = None
  /\ Goto(h, "idle")
  /\ UNCHANGED <<sb, sbDurable, synced, delta, ghost, crashes>>
\* Mutant: a failed fold removes the base it wrote, wherever it failed.
FoldFail_CleansUp(h) ==
  /\ \/ "prepare" \in Faults /\ pc[h] \in FoldSteps \ {"fold_sync"}
     \/ "publish" \in Faults /\ pc[h] = "fold_sync"
  /\ base' = [base EXCEPT ![db[h].gen + 1] = None]
  /\ lock' = None
  /\ Goto(h, "idle")
  /\ UNCHANGED <<sb, sbDurable, log, synced, db, delta, scan, ghost, crashes>>

\* A step before the reopen fails; the handle keeps its old generation.
FoldFail(h) ==
  /\ \/ "prepare" \in Faults /\ pc[h] \in FoldSteps \ {"fold_sync"}
     \/ "publish" \in Faults /\ pc[h] = "fold_sync"
  /\ lock' = None
  /\ Goto(h, "idle")
  /\ UNCHANGED <<disk, db, delta, scan, ghost, crashes>>

Fold(h) ==
  \/ FoldBegin(h) \/ FoldBase(h) \/ FoldLog(h) \/ FoldPublish(h) \/ FoldSync(h)
  \/ FoldDone(h) \/ FoldFail(h)

-----------------------------------------------------------------------------
(* Crashes *)

\* The process dies and the kernel drops its lock.
Kill(h) ==
  /\ "kill" \in Faults
  /\ crashes < MaxCrash
  /\ pc[h] # "closed"
  /\ pc[h] \in {"create_sync", "fold_sync"} => "gap" \in Faults
  /\ crashes' = crashes + 1
  /\ lock' = IF lock = h THEN None ELSE lock
  /\ db' = [db EXCEPT ![h] = NoDb]
  /\ delta' = [delta EXCEPT ![h] = NoDelta]
  /\ ClearScan(h)
  /\ Goto(h, "closed")
  /\ UNCHANGED <<disk, ghost>>

\* What a power loss leaves of a log: its synced records, some of the others,
\* and possibly part of the next one.
Survivors(recs, m, torn) ==
  IF m >= Len(recs) THEN recs
  ELSE IF torn THEN Append(SubSeq(recs, 1, m), Torn) ELSE SubSeq(recs, 1, m)

PowerLoss ==
  /\ "power" \in Faults
  /\ crashes < MaxCrash
  /\ crashes' = crashes + 1
  /\ sb' \in {sb, sbDurable}
  /\ sbDurable' = sb'
  /\ \E extra \in Lsns, torn \in BOOLEAN :
       log' = [g \in Gens |->
                 IF log[g] = None THEN None
                 ELSE Survivors(log[g], synced[g] + extra, torn)]
  /\ synced' = [g \in Gens |-> IF log'[g] = None THEN 0 ELSE Len(log'[g])]
  /\ lock' = None
  /\ pc' = [h \in Handles |-> "closed"]
  /\ db' = [h \in Handles |-> NoDb]
  /\ delta' = [h \in Handles |-> NoDelta]
  /\ scan' = [h \in Handles |-> NoScan]
  /\ UNCHANGED <<base, ghost>>

-----------------------------------------------------------------------------

Handle(h) == Create(h) \/ Open(h) \/ Close(h) \/ Write(h) \/ Fold(h) \/ Kill(h)

Next == PowerLoss \/ \E h \in Handles : Handle(h)

Spec == Init /\ [][Next]_vars

\* Nobody retries or calls by himself, but a call that has started runs: every
\* handle keeps taking the steps of the operation it is in.
Running(h) ==
  /\ pc[h] \notin {"closed", "idle"}
  /\ Handle(h)

FairSpec == Spec /\ \A h \in Handles : WF_vars(Running(h))

-----------------------------------------------------------------------------
(* Properties *)

\* Every variable keeps to its type.
TypeOK ==
  /\ sb \in Superblock \cup {None}
  /\ sbDurable \in Superblock \cup {None}
  /\ base \in [Gens -> BaseFile \cup {None}]
  /\ log \in [Gens -> LogFile \cup {None}]
  /\ synced \in [Gens -> Nat]
  /\ lock \in Handles \cup {None}
  /\ pc \in [Handles -> Pcs]
  /\ db \in [Handles -> DbState]
  /\ delta \in [Handles -> DeltaState]
  /\ scan \in [Handles -> ScanState]
  /\ acked \in Frontier
  /\ used \in SUBSET Ids
  /\ crashes \in 0..MaxCrash

\* The base file that either version of the superblock names is there: no crash,
\* failed fold or fold of a stale handle unlinks the generation a reopen needs.
LiveBase ==
  \A s \in {sb, sbDurable} : s # None => base[s.gen] # None

\* Recovery ends at the acknowledged frontier or above it: an open that has
\* folded its last frame holds every commit acknowledged when it started.
RecoveredAcked ==
  \A h \in Handles :
    pc[h] = "open_fold" /\ scan[h].recs = <<>> =>
      /\ scan[h].lsn >= scan[h].floor.lsn
      /\ scan[h].lsn = scan[h].floor.lsn => scan[h].view = scan[h].floor.view

\* The live log never makes Db::open fail with LogCorrupt, whatever crash or
\* failed append it went through.
LogReplayable ==
  sb # None =>
    LET recs == Records(sb.gen) IN
      \A n \in 0..Len(recs) : ValidLen(recs, n) => ~LoudAt(recs, n)

\* A transaction never allocates an id that an acknowledged commit has used,
\* even after the element was tombstoned and folded away.
NoIdReuse ==
  \A h \in Handles : pc[h] \in WriteSteps => delta[h].add \cap used = {}

\* A running transaction's id is above the id of every frame in its log and
\* above the id its superblock carries.
TxnIdFresh ==
  \A h \in Handles :
    pc[h] = "txn" =>
      /\ db[h].txn > sb.txn
      /\ \A i \in DOMAIN Records(db[h].gen) :
           Records(db[h].gen)[i] # Torn => Records(db[h].gen)[i].txn < db[h].txn

\* The reopen at the end of a fold finds exactly the state that was folded.
FoldPreservesView ==
  \A h \in Handles :
    pc[h] = "open_fold" /\ scan[h].recs = <<>> /\ lock = h =>
      Opened(h) = [db[h] EXCEPT !.gen = @ + 1]

\* The lock is held by a handle inside a write or a fold and by nobody else: no two
\* handles stage or fold at once, and no return path leaves the lock behind.
LockWithinCall ==
  \A h \in Handles :
    /\ pc[h] \in WriteSteps \cup FoldSteps => lock = h
    /\ lock = h => pc[h] \in WriteSteps \cup FoldSteps \cup OpenSteps

\* Every lock holder gives the lock up: commit, rollback, checkpoint and each of
\* their error paths end with the lock released.
LockReleased == \A h \in Handles : lock = h ~> lock # h

\* Ids stay retired: neither an element id nor a transaction id comes back through a
\* tombstone, a fold, a rollback, a crash or a reopen, each of which recovers the two
\* allocators from another place (superblock, base watermark, log records).
IdsRetired == NoIdReuse /\ TxnIdFresh
=============================================================================
