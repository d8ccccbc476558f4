--------------------------- MODULE OxgStore_proofs ---------------------------
(***************************************************************************)
(* Proofs about OxgStore, for any set of handles, any faults and any       *)
(* bounds: type correctness, the writer lock, and, as long as creations do *)
(* not overlap, the base files a reopen needs.                             *)
(*                                                                         *)
(* Then what a store recovers: for one handle at a time, any bounds, any   *)
(* number of crashes of the process and of the machine and any failed      *)
(* append, rollback by set_len, fold or creation, a reopen holds every     *)
(* acknowledged commit, its log replays, and ids stay retired.  The faults *)
(* left out there are the ones after which the code does lose a commit:    *)
(* the set_len that fails after a failed append, the directory fsync that  *)
(* fails after the superblock rename, the reopen that fails inside a fold, *)
(* and a process that dies between that rename and that fsync.  Several    *)
(* handles are left out there for the same reason.                         *)
(*                                                                         *)
(* Last, that one handle over the files implements the atomic, durable     *)
(* database of OxgDbSpec, for any bounds, any number of power losses and   *)
(* every failure of an append, a fold or a creation.                       *)
(***************************************************************************)
EXTENDS OxgStoreRefines, OxgInduction, SequenceTheorems, TLAPS

USE DEF Gens, Lsns, Txns, Ids, Content, Superblock, BaseFile

-----------------------------------------------------------------------------
(* Facts about the helpers *)

\* Folding a well-formed frame into a view gives a view.
LEMMA ApplyType ==
  ASSUME NEW view \in Content, NEW frame \in Frame
  PROVE  Apply(view, frame) \in Content
BY DEF Apply, Larger, Frame

\* set_len gives a log again, however long the file was.
LEMMA SetLenType ==
  ASSUME NEW recs \in LogFile, NEW n \in Nat
  PROVE  SetLen(recs, n) \in LogFile
BY DEF SetLen, LogFile

\* A missing log reads as a log.
LEMMA RecordsType ==
  ASSUME log \in [Gens -> LogFile \cup {None}], NEW g \in Gens
  PROVE  Records(g) \in LogFile /\ Len(Records(g)) \in Nat
BY DEF Records, LogFile

\* What a power loss leaves of a log is a log.
LEMMA SurvivorsType ==
  ASSUME NEW recs \in LogFile, NEW m \in Nat, NEW torn \in BOOLEAN
  PROVE  Survivors(recs, m, torn) \in LogFile
BY DEF Survivors, LogFile

\* The initial values of the handle-local records are of their types.
LEMMA Defaults ==
  /\ EmptyView \in Content
  /\ NoDb \in DbState
  /\ NoDelta \in DeltaState
  /\ NoScan \in ScanState
BY BoundsAssumption DEF EmptyView, NoDb, NoDelta, NoScan, DbState, DeltaState, ScanState,
   LogFile, Frontier

-----------------------------------------------------------------------------
(* Type correctness *)

\* A prefix that parses holds only frames.
LEMMA ParsedType ==
  ASSUME NEW recs \in LogFile, NEW n \in 0..Len(recs), Parses(recs, n)
  PROVE  SubSeq(recs, 1, n) \in Seq(Frame)
<1>1. \A i \in 1..n : recs[i] \in Frame
  BY DEF Parses, LogFile
<1>2. /\ Len(SubSeq(recs, 1, n)) = n
      /\ \A i \in 1..n : SubSeq(recs, 1, n)[i] = recs[i]
  BY DEF LogFile
<1>3. SubSeq(recs, 1, n) \in Seq(Frame \cup {Torn})
  BY DEF LogFile
<1> QED BY <1>1, <1>2, <1>3

\* The overflow checks made when an append or a fold starts (checked_next on the
\* lsn, checked_add on the generation) still hold when their results are used.
InBounds ==
  \A h \in Handles :
    /\ pc[h] \in {"append", "sync"} => db[h].lsn < MaxLsn
    /\ pc[h] \in FoldSteps => db[h].gen < MaxGen

\* A directory without a store is well typed and within the bounds.
LEMMA InitType == Init => TypeOK /\ InBounds
BY BoundsAssumption, Defaults DEF Init, TypeOK, InBounds, FoldSteps, Pcs, LogFile, Frontier, EmptyView

\* Every step of Db::create keeps the types.
LEMMA CreateType ==
  ASSUME TypeOK, NEW h \in Handles, Create(h)
  PROVE  TypeOK'
<1> USE BoundsAssumption DEF TypeOK, Pcs, CreateSteps, OpenSteps, Goto, disk, ghost
<1>1. CASE CreateCheck(h)
  BY <1>1 DEF CreateCheck
<1>2. CASE CreateBase(h)
  BY <1>2, Defaults DEF CreateBase, SyncDirectory
<1>3. CASE CreateLog(h)
  BY <1>3 DEF CreateLog, SyncDirectory, LogFile
<1>4. CASE CreatePublish(h)
  BY <1>4 DEF CreatePublish
<1>5. CASE CreateSync(h)
  BY <1>5 DEF CreateSync, SyncDirectory
<1>6. CASE CreateFail(h)
  BY <1>6 DEF CreateFail
<1> QED BY <1>1, <1>2, <1>3, <1>4, <1>5, <1>6 DEF Create

\* Every step of Db::open keeps the types: what replay folds are frames.
LEMMA OpenType ==
  ASSUME TypeOK, NEW h \in Handles, Open(h)
  PROVE  TypeOK'
<1> USE BoundsAssumption DEF TypeOK, Pcs, OpenSteps, Goto, disk, ghost
<1>1. CASE OpenSuperblock(h)
  BY <1>1, Defaults, ValuesAssumption DEF OpenSuperblock, ScanState
<1>2. CASE OpenBase(h)
  <2>1. scan[h] \in ScanState /\ scan[h].gen \in Gens
    BY DEF ScanState
  <2>2. base[scan[h].gen] \in BaseFile
    BY <1>2, <2>1 DEF OpenBase
  <2>3. base[scan[h].gen].view \in Content
    BY <2>2
  <2>4. scan' \in [Handles -> ScanState]
    BY <1>2, <2>1, <2>3 DEF OpenBase, ScanState
  <2> QED BY <1>2, <2>4 DEF OpenBase
<1>3. CASE OpenLog(h)
  <2> DEFINE recs == Records(scan[h].gen)
  <2>1. recs \in LogFile /\ scan[h] \in ScanState
    BY RecordsType DEF ScanState
  <2>2. PICK n \in 0..Len(recs) :
          /\ Parses(recs, n)
          /\ scan' = [scan EXCEPT ![h].recs = SubSeq(recs, 1, n), ![h].valid = n]
          /\ Goto(h, IF n < Len(recs) THEN "open_truncate" ELSE "open_fold")
    BY <1>3 DEF OpenLog, ValidLen
  <2>3. SubSeq(recs, 1, n) \in Seq(Frame) /\ n \in Nat
    BY SMTT(30), <2>1, <2>2, ParsedType DEF LogFile
  <2> HIDE DEF recs
  <2>4. scan' \in [Handles -> ScanState]
    BY <2>1, <2>2, <2>3 DEF ScanState
  <2> QED BY <1>3, <2>2, <2>4 DEF OpenLog
<1>4. CASE OpenTruncate(h)
  <2> DEFINE g == scan[h].gen
             cut == SetLen(log[g], scan[h].valid)
  <2>1. g \in Gens /\ scan[h].valid \in Nat
    BY DEF ScanState
  <2>2. log[g] \in LogFile
    BY <1>4, <2>1 DEF OpenTruncate
  <2>3. cut \in LogFile
    BY <2>1, <2>2, SetLenType
  <2>5. Len(cut) \in Nat
    <3> HIDE DEF cut
    <3> QED BY <2>3 DEF LogFile
  <2>4. log' = [log EXCEPT ![g] = cut] /\ synced' = [synced EXCEPT ![g] = Len(cut)]
    BY <1>4 DEF OpenTruncate
  <2> HIDE DEF g, cut
  <2>6. log' \in [Gens -> LogFile \cup {None}] /\ synced' \in [Gens -> Nat]
    BY <2>1, <2>3, <2>4, <2>5
  <2> QED BY <1>4, <2>6 DEF OpenTruncate
<1>5. CASE OpenFold(h)
  <2> DEFINE frame == Head(scan[h].recs)
  <2>1. frame \in Frame /\ Tail(scan[h].recs) \in Seq(Frame)
    BY <1>5, SMTT(30) DEF OpenFold, ScanState
  <2>2. scan[h] \in ScanState /\ scan[h].view \in Content /\ scan[h].txn \in Txns
    BY DEF ScanState
  <2>3. Apply(scan[h].view, frame) \in Content
    BY <2>1, <2>2, ApplyType
  <2>4. frame.lsn \in Lsns /\ Larger(scan[h].txn, frame.txn) \in Txns
    BY <2>1, <2>2 DEF Frame, Larger
  <2>5. scan' = [scan EXCEPT ![h].view = Apply(scan[h].view, frame), ![h].lsn = frame.lsn,
                             ![h].txn = Larger(scan[h].txn, frame.txn),
                             ![h].recs = Tail(scan[h].recs)]
    BY <1>5 DEF OpenFold
  <2> HIDE DEF frame
  <2>6. scan' \in [Handles -> ScanState]
    BY <2>1, <2>2, <2>3, <2>4, <2>5 DEF ScanState
  <2> QED BY <1>5, <2>6 DEF OpenFold
<1>6. CASE OpenDone(h)
  BY <1>6, Defaults DEF OpenDone, Opened, ClearScan, ScanState, DbState
<1>7. CASE OpenFail(h)
  BY <1>7, Defaults DEF OpenFail, ClearScan
<1> QED BY <1>1, <1>2, <1>3, <1>4, <1>5, <1>6, <1>7 DEF Open

\* Every step of a write transaction, failed appends included, keeps the types.
LEMMA WriteType ==
  ASSUME TypeOK, InBounds, NEW h \in Handles, Write(h)
  PROVE  TypeOK'
<1>b. ASSUME db[h].lsn \in Lsns, pc[h] \in {"append", "sync"}
      PROVE  Lsn(h) \in Lsns
  BY <1>b, BoundsAssumption DEF InBounds, Lsn
<1> USE BoundsAssumption DEF TypeOK, Pcs, WriteSteps, Goto, disk, ghost
<1>0. /\ db[h] \in DbState /\ db[h].gen \in Gens /\ db[h].lsn \in Lsns
      /\ db[h].txn \in Txns /\ db[h].view \in Content
      /\ delta[h] \in DeltaState /\ delta[h].add \in SUBSET Ids /\ delta[h].del \in SUBSET Ids
      /\ delta[h].next \in 1..(MaxId + 1) /\ delta[h].eof \in Nat
  BY DEF DbState, DeltaState
<1>g. /\ Records(db[h].gen) \in LogFile
      /\ Len(Records(db[h].gen)) \in Nat
  BY <1>0, RecordsType
<1>f. ASSUME Lsn(h) \in Lsns PROVE FrameOf(h) \in Frame
  BY <1>0, <1>f DEF FrameOf, Frame
<1>1. CASE BeginWrite(h)
  <2>1. db[h].view.next \in 1..(MaxId + 1) /\ db[h].txn + 1 \in Txns
    BY SMTT(30), <1>0, <1>1 DEF BeginWrite
  <2>2. db' \in [Handles -> DbState]
    BY <1>0, <1>1, <2>1 DEF BeginWrite, DbState
  <2>3. delta' \in [Handles -> DeltaState]
    BY <1>1, <2>1, Defaults DEF BeginWrite, DeltaState
  <2> QED BY <1>1, <2>2, <2>3 DEF BeginWrite
<1>2. CASE CreateElement(h)
  <2>1. delta[h].next \in Ids /\ delta[h].next + 1 \in 1..(MaxId + 1)
    BY SMTT(30), <1>0, <1>2 DEF CreateElement
  <2>2. delta' \in [Handles -> DeltaState]
    BY <1>0, <1>2, <2>1 DEF CreateElement, DeltaState
  <2> QED BY <1>2, <2>2 DEF CreateElement
<1>3. CASE TombstoneElement(h)
  <2>1. PICK id \in (db[h].view.live \cup delta[h].add) \ delta[h].del :
          delta' = [delta EXCEPT ![h].del = @ \cup {id}]
    BY <1>3 DEF TombstoneElement
  <2>2. id \in Ids
    BY <1>0, <2>1
  <2>3. delta' \in [Handles -> DeltaState]
    BY <1>0, <2>1, <2>2 DEF DeltaState
  <2> QED BY <1>3, <2>3 DEF TombstoneElement
<1>4. CASE Rollback(h)
  BY <1>4, Defaults DEF Rollback
<1>5. CASE AppendPart(h)
  <2> DEFINE g == db[h].gen
             recs == Records(g)
  <2>1. /\ log' = [log EXCEPT ![g] = Append(recs, Torn)]
        /\ synced' = [synced EXCEPT ![g] = IF log[g] = None THEN 0 ELSE @]
        /\ delta' = [delta EXCEPT ![h].eof = Len(recs)]
    BY <1>5 DEF AppendPart
  <2>2. Append(recs, Torn) \in LogFile /\ Len(recs) \in Nat
    BY <1>g DEF LogFile
  <2> HIDE DEF recs, g
  <2>3. delta' \in [Handles -> DeltaState]
    BY <1>0, <2>1, <2>2 DEF DeltaState
  <2>4. log' \in [Gens -> LogFile \cup {None}] /\ synced' \in [Gens -> Nat]
    BY <1>0, <2>1, <2>2 DEF g
  <2> QED BY <1>5, <2>3, <2>4 DEF AppendPart
<1>6. CASE AppendRest(h)
  <2> DEFINE g == db[h].gen
             recs == Records(g)
             n == Len(recs)
             file == IF n = delta[h].eof + 1 /\ recs[n] = Torn
                     THEN [recs EXCEPT ![n] = FrameOf(h)]
                     ELSE Append(recs, Torn)
  <2>1. log' = [log EXCEPT ![g] = file]
    BY <1>6 DEF AppendRest
  <2>2. Append(recs, Torn) \in LogFile
    BY <1>g DEF LogFile
  <2>3. FrameOf(h) \in Frame
    BY <1>0, <1>b, <1>f, <1>6 DEF AppendRest
  <2>4. ASSUME n = delta[h].eof + 1
        PROVE  [recs EXCEPT ![n] = FrameOf(h)] \in LogFile
    <3>1. recs \in Seq(Frame \cup {Torn}) /\ n \in 1..Len(recs)
      BY SMTT(30), <1>0, <1>g, <2>4 DEF LogFile
    <3> HIDE DEF recs, n
    <3> QED BY <2>3, <3>1, ExceptSeq DEF LogFile
  <2>5. file \in LogFile
    BY <2>2, <2>4
  <2> HIDE DEF file, g
  <2>6. log' \in [Gens -> LogFile \cup {None}]
    BY <1>0, <2>1, <2>5 DEF g
  <2> QED BY <1>6, <2>6 DEF AppendRest
<1>7. CASE CommitSync(h)
  <2> DEFINE g == db[h].gen
             view == Apply(db[h].view, FrameOf(h))
  <2>1. Lsn(h) \in Lsns
    BY <1>0, <1>b, <1>7 DEF CommitSync
  <2>2. view \in Content /\ view.live \subseteq Ids
    BY <1>0, <1>f, <2>1, ApplyType
  <2>3. /\ synced' = [synced EXCEPT ![g] = Len(Records(g))]
        /\ db' = [db EXCEPT ![h].lsn = Lsn(h), ![h].view = view]
        /\ acked' = [lsn |-> Lsn(h), view |-> view]
        /\ used' = used \cup view.live
    BY <1>7 DEF CommitSync
  <2>4. synced' \in [Gens -> Nat]
    BY <1>0, <1>g, <2>3
  <2> HIDE DEF view
  <2>5. db' \in [Handles -> DbState]
    BY <1>0, <2>1, <2>2, <2>3 DEF DbState
  <2>6. acked' \in Frontier /\ used' \in SUBSET Ids
    BY <2>1, <2>2, <2>3 DEF Frontier
  <2> QED BY <1>7, <2>4, <2>5, <2>6, Defaults DEF CommitSync
<1>8. CASE AppendFail(h)
  <2> DEFINE g == db[h].gen
             cut == SetLen(Records(g), delta[h].eof)
  <2>1. cut \in LogFile /\ Smaller(synced[g], delta[h].eof) \in Nat
    BY <1>0, <1>g, SetLenType DEF Smaller
  <2>2. \/ /\ log' = [log EXCEPT ![g] = cut]
           /\ synced' = [synced EXCEPT ![g] = Smaller(@, delta[h].eof)]
        \/ UNCHANGED <<log, synced>>
    BY <1>8 DEF AppendFail
  <2> HIDE DEF cut
  <2>3. log' \in [Gens -> LogFile \cup {None}] /\ synced' \in [Gens -> Nat]
    BY <1>0, <2>1, <2>2
  <2> QED BY <1>8, <2>3, Defaults DEF AppendFail
<1> QED BY <1>1, <1>2, <1>3, <1>4, <1>5, <1>6, <1>7, <1>8 DEF Write

\* Every step of a checkpoint keeps the types.
LEMMA FoldType ==
  ASSUME TypeOK, InBounds, NEW h \in Handles, Fold(h)
  PROVE  TypeOK'
<1>b. ASSUME db[h].gen \in Gens, pc[h] \in FoldSteps
      PROVE  db[h].gen + 1 \in Gens
  BY <1>b, BoundsAssumption DEF InBounds
<1> USE BoundsAssumption DEF TypeOK, Pcs, FoldSteps, Goto, disk, ghost
<1>0. /\ db[h] \in DbState /\ db[h].gen \in Gens /\ db[h].lsn \in Lsns
      /\ db[h].txn \in Txns /\ db[h].view \in Content
      /\ pc[h] \in FoldSteps => db[h].gen + 1 \in Gens
  BY <1>b DEF DbState
<1>1. CASE FoldBegin(h)
  BY <1>1 DEF FoldBegin
<1>2. CASE FoldBase(h)
  BY <1>0, <1>2 DEF FoldBase, SyncDirectory
<1>3. CASE FoldLog(h)
  <2>1. <<>> \in LogFile
    BY DEF LogFile
  <2>2. log' \in [Gens -> LogFile \cup {None}] /\ synced' \in [Gens -> Nat]
    BY <1>0, <1>3, <2>1 DEF FoldLog
  <2> QED BY <1>3, <2>2 DEF FoldLog, SyncDirectory
<1>4. CASE FoldPublish(h)
  BY <1>0, <1>4 DEF FoldPublish
<1>5. CASE FoldSync(h)
  BY <1>5 DEF FoldSync, SyncDirectory, OpenSteps
<1>6. CASE FoldDone(h)
  <2>1. Opened(h) \in DbState
    BY DEF Opened, ScanState, DbState
  <2>2. base' \in [Gens -> BaseFile \cup {None}] /\ log' \in [Gens -> LogFile \cup {None}]
    BY <1>0, <1>6 DEF FoldDone
  <2> QED BY <1>6, <2>1, <2>2, Defaults DEF FoldDone, ClearScan
<1>7. CASE FoldFail(h)
  BY <1>7 DEF FoldFail
<1> QED BY <1>1, <1>2, <1>3, <1>4, <1>5, <1>6, <1>7 DEF Fold

\* Process and machine crashes and dropping a handle keep the types.
LEMMA CrashType ==
  ASSUME TypeOK, PowerLoss \/ \E h \in Handles : Kill(h) \/ Close(h)
  PROVE  TypeOK'
<1> USE BoundsAssumption, Defaults DEF TypeOK, Pcs, Goto, disk, ghost
<1>1. CASE PowerLoss
  <2>1. sb' \in Superblock \cup {None} /\ sbDurable' \in Superblock \cup {None}
    BY <1>1 DEF PowerLoss
  <2>2. log' \in [Gens -> LogFile \cup {None}]
    <3>1. PICK extra \in Lsns, torn \in BOOLEAN :
            log' = [g \in Gens |-> IF log[g] = None THEN None
                                   ELSE Survivors(log[g], synced[g] + extra, torn)]
      BY <1>1 DEF PowerLoss
    <3>2. ASSUME NEW g \in Gens, log[g] # None
          PROVE  Survivors(log[g], synced[g] + extra, torn) \in LogFile
      BY <3>2, SurvivorsType
    <3> QED BY <3>1, <3>2
  <2>3. synced' \in [Gens -> Nat]
    BY <1>1, <2>2 DEF PowerLoss, LogFile
  <2>4. crashes' \in 0..MaxCrash
    BY SMTT(30), <1>1 DEF PowerLoss
  <2>5. /\ db' \in [Handles -> DbState] /\ delta' \in [Handles -> DeltaState]
        /\ scan' \in [Handles -> ScanState] /\ pc' \in [Handles -> Pcs]
    BY <1>1 DEF PowerLoss
  <2> QED BY <1>1, <2>1, <2>2, <2>3, <2>4, <2>5 DEF PowerLoss
<1>2. ASSUME NEW h \in Handles, Kill(h) PROVE TypeOK'
  BY <1>2 DEF Kill, ClearScan
<1>3. ASSUME NEW h \in Handles, Close(h) PROVE TypeOK'
  BY <1>3 DEF Close
<1> QED BY <1>1, <1>2, <1>3

\* A commit or a fold under way has room for its next sequence or generation.
LEMMA BoundsStep == TypeOK /\ InBounds /\ [Next]_vars => InBounds'
<1> SUFFICES ASSUME TypeOK, InBounds, [Next]_vars, NEW k \in Handles
    PROVE  /\ pc'[k] \in {"append", "sync"} => db'[k].lsn < MaxLsn
           /\ pc'[k] \in FoldSteps => db'[k].gen < MaxGen
  BY DEF InBounds
<1> USE BoundsAssumption DEF InBounds, Goto, FoldSteps, CreateSteps, OpenSteps
<1>0. pc \in [Handles -> Pcs] /\ db \in [Handles -> DbState] /\ db[k].lsn \in Lsns
  BY DEF TypeOK, DbState
<1>1. ASSUME NEW h \in Handles, Create(h) \/ Open(h) \/ Close(h) \/ Kill(h)
      PROVE  /\ db'[k] = db[k] /\ pc'[k] = pc[k]
             \/ pc'[k] \notin {"append", "sync"} \cup FoldSteps
  <2>1. CASE Create(h)
    BY <1>0, <2>1 DEF Create, CreateCheck, CreateBase, CreateLog, CreatePublish, CreateSync,
       CreateFail
  <2>2. CASE Open(h)
    BY <1>0, <2>2 DEF Open, OpenSuperblock, OpenBase, OpenLog, OpenTruncate, OpenFold,
       OpenDone, OpenFail
  <2>3. CASE Close(h) \/ Kill(h)
    BY <1>0, <2>3 DEF Close, Kill
  <2> QED BY <1>1, <2>1, <2>2, <2>3
<1>2. ASSUME NEW h \in Handles, Write(h)
      PROVE  /\ pc'[k] \in {"append", "sync"} => db'[k].lsn < MaxLsn
             /\ pc'[k] \in FoldSteps => db'[k].gen < MaxGen
  BY <1>0, <1>2 DEF Write, BeginWrite, CreateElement, TombstoneElement, Rollback,
     AppendPart, AppendRest, CommitSync, AppendFail, Lsn
<1>3. ASSUME NEW h \in Handles, Fold(h)
      PROVE  /\ pc'[k] \in {"append", "sync"} => db'[k].lsn < MaxLsn
             /\ pc'[k] \in FoldSteps => db'[k].gen < MaxGen
  BY <1>0, <1>3 DEF Fold, FoldBegin, FoldBase, FoldLog, FoldPublish, FoldSync, FoldDone,
     FoldFail
<1>4. CASE PowerLoss
  BY <1>4 DEF PowerLoss
<1>5. CASE UNCHANGED vars
  BY <1>5 DEF vars
<1> QED BY <1>1, <1>2, <1>3, <1>4, <1>5 DEF Next, Handle

\* The types and the bounds together are an invariant.
LEMMA TypeInductive == Spec => [](TypeOK /\ InBounds)
<1>1. Init => TypeOK /\ InBounds
  BY InitType
<1>2. TypeOK /\ InBounds /\ [Next]_vars => TypeOK'
  <2> SUFFICES ASSUME TypeOK, InBounds, [Next]_vars PROVE TypeOK'
    OBVIOUS
  <2>1. CASE UNCHANGED vars
    BY <2>1 DEF vars, disk, ghost, TypeOK
  <2>2. CASE Next
    BY <2>2, CreateType, OpenType, WriteType, FoldType, CrashType DEF Next, Handle
  <2> QED BY <2>1, <2>2
<1>3. TypeOK /\ InBounds /\ [Next]_vars => (TypeOK /\ InBounds)'
  BY <1>2, BoundsStep
<1> QED BY <1>1, <1>3, PTL DEF Spec

\* Every reachable state is of the types TypeOK lists: no operation, fault or
\* crash of any number of handles leaves a file, a frontier or a handle's local
\* state malformed.
THEOREM TypeCorrect == Spec => []TypeOK
BY TypeInductive, PTL

-----------------------------------------------------------------------------
(* The writer lock *)

\* A step of any handle keeps the lock with whoever is inside a write or a fold.
LEMMA LockKept ==
  ASSUME TypeOK, LockWithinCall, NEW h \in Handles, Handle(h)
  PROVE  LockWithinCall'
<1> USE ValuesAssumption DEF LockWithinCall, CreateSteps, OpenSteps, WriteSteps, FoldSteps, Goto
<1>0. pc \in [Handles -> Pcs]
  BY DEF TypeOK
<1>1. CASE Create(h)
  BY <1>0, <1>1 DEF Create, CreateCheck, CreateBase, CreateLog, CreatePublish, CreateSync, CreateFail
<1>2. CASE Open(h)
  <2>1. CASE OpenSuperblock(h) \/ OpenBase(h) \/ OpenTruncate(h) \/ OpenFold(h) \/ OpenDone(h)
    BY <1>0, <2>1 DEF OpenSuperblock, OpenBase, OpenTruncate, OpenFold, OpenDone
  <2>2. CASE OpenLog(h)
    BY <1>0, <2>2 DEF OpenLog
  <2>3. CASE OpenFail(h)
    BY <1>0, <2>3 DEF OpenFail
  <2> QED BY <1>2, <2>1, <2>2, <2>3 DEF Open
<1>3. CASE Write(h)
  <2>1. CASE BeginWrite(h) \/ CreateElement(h) \/ TombstoneElement(h) \/ Rollback(h)
    BY <1>0, <2>1 DEF BeginWrite, CreateElement, TombstoneElement, Rollback
  <2>2. CASE AppendPart(h) \/ AppendRest(h) \/ CommitSync(h)
    BY <1>0, <2>2 DEF AppendPart, AppendRest, CommitSync
  <2>3. CASE AppendFail(h)
    BY <1>0, <2>3 DEF AppendFail
  <2> QED BY <1>3, <2>1, <2>2, <2>3 DEF Write
<1>4. CASE Fold(h)
  <2>1. CASE FoldBegin(h) \/ FoldBase(h) \/ FoldLog(h) \/ FoldPublish(h) \/ FoldSync(h)
    BY <1>0, <2>1 DEF FoldBegin, FoldBase, FoldLog, FoldPublish, FoldSync
  <2>2. CASE FoldDone(h) \/ FoldFail(h)
    BY <1>0, <2>2 DEF FoldDone, FoldFail
  <2> QED BY <1>4, <2>1, <2>2 DEF Fold
<1>5. CASE Close(h) \/ Kill(h)
  BY <1>0, <1>5 DEF Close, Kill
<1> QED BY <1>1, <1>2, <1>3, <1>4, <1>5 DEF Handle

\* Whatever fails, crashes or overlaps, creations included: a handle inside a write
\* or a fold holds the advisory lock, hence at most one is, and a handle that has
\* returned from its call, with success or with an error, does not hold it.
THEOREM LockSafe == Spec => []LockWithinCall
<1>1. Init => LockWithinCall
  BY ValuesAssumption DEF Init, LockWithinCall, CreateSteps, OpenSteps, WriteSteps, FoldSteps
<1>2. TypeOK /\ LockWithinCall /\ [Next]_vars => LockWithinCall'
  <2> SUFFICES ASSUME TypeOK, LockWithinCall, [Next]_vars PROVE LockWithinCall'
    OBVIOUS
  <2>1. CASE UNCHANGED vars
    BY <2>1 DEF vars, LockWithinCall
  <2>2. CASE PowerLoss
    BY <2>2, ValuesAssumption DEF PowerLoss, LockWithinCall, WriteSteps, FoldSteps
  <2> QED BY <2>1, <2>2, LockKept DEF Next
<1> QED BY <1>1, <1>2, TypeCorrect, PTL DEF Spec

-----------------------------------------------------------------------------
(***************************************************************************)
(* The live base                                                           *)
(*                                                                         *)
(* LiveBase is not inductive: that FoldDone may unlink the old base rests  *)
(* on the superblock, durable by then, naming the next generation, which   *)
(* rests on nobody else having published since, which rests on the lock.   *)
(* Creation publishes without the lock and is safe only when creations do  *)
(* not overlap.                                                            *)
(***************************************************************************)

Making == {"create_base", "create_log", "create_publish"}

\* A fold in its later steps has its base in place, and from the rename on the
\* superblock names it; the reopen inside a fold finds it durable.
FoldInv ==
  \A h \in Handles :
    /\ pc[h] \in {"fold_log", "fold_publish", "fold_sync"} => base[db[h].gen + 1] # None
    /\ pc[h] = "fold_sync" => sb.gen = db[h].gen + 1
    /\ pc[h] \in OpenSteps /\ lock = h => sb.gen = db[h].gen + 1 /\ sbDurable = sb

\* There is a superblock for whoever is past its publication, none for whoever
\* is before it, and one creator at a time.
CreateInv ==
  \A h \in Handles :
    /\ pc[h] \notin {"closed"} \cup Making => sb # None
    /\ pc[h] \in Making => sb = None /\ \A k \in Handles : k # h => pc[k] \notin CreateSteps
    /\ pc[h] \in {"create_log", "create_publish"} => base[0] # None

StoreInv == LiveBase /\ LockWithinCall /\ FoldInv /\ CreateInv

\* Db::create publishes only a base it has written, if no other creation runs.
LEMMA CreateKeeps ==
  ASSUME "race" \notin Faults, TypeOK, InBounds, StoreInv, NEW h \in Handles, Create(h)
  PROVE  StoreInv'
<1> USE BoundsAssumption, ValuesAssumption DEF StoreInv, LiveBase, LockWithinCall, FoldInv, CreateInv,
    Making, CreateSteps, OpenSteps, WriteSteps, FoldSteps, Goto, disk, ghost
<1>0. /\ pc \in [Handles -> Pcs] /\ db \in [Handles -> DbState]
      /\ base \in [Gens -> BaseFile \cup {None}]
      /\ \A k \in Handles : db[k].gen \in Gens
      /\ sb \in Superblock \cup {None} /\ sbDurable \in Superblock \cup {None}
  BY DEF TypeOK, DbState
<1>1. CASE CreateCheck(h)
  BY <1>0, <1>1 DEF CreateCheck
<1>2. CASE CreateBase(h)
  <2> DEFINE file == [view |-> EmptyView, seq |-> 0, txn |-> 0]
  <2>1. file # None
    BY Defaults
  <2>2. base' = [base EXCEPT ![0] = file] /\ sbDurable' = sb /\ 0 \in Gens
    BY <1>2 DEF CreateBase, SyncDirectory
  <2> HIDE DEF file
  <2>3. \A g \in Gens : base[g] # None => base'[g] # None
    BY <1>0, <2>1, <2>2
  <2> QED BY <1>0, <1>2, <2>1, <2>2, <2>3 DEF CreateBase
<1>3. CASE CreateLog(h)
  BY <1>0, <1>3 DEF CreateLog, SyncDirectory
<1>4. CASE CreatePublish(h)
  BY SMTT(30), <1>0, <1>4 DEF CreatePublish
<1>5. CASE CreateSync(h)
  BY <1>0, <1>5 DEF CreateSync, SyncDirectory
<1>6. CASE CreateFail(h)
  BY <1>0, <1>6 DEF CreateFail
<1> QED BY <1>1, <1>2, <1>3, <1>4, <1>5, <1>6 DEF Create

\* Db::open changes no file but a log, and gives the lock up when it fails.
LEMMA OpenKeeps ==
  ASSUME "race" \notin Faults, TypeOK, InBounds, StoreInv, NEW h \in Handles, Open(h)
  PROVE  StoreInv'
<1> USE BoundsAssumption, ValuesAssumption DEF StoreInv, LiveBase, LockWithinCall, FoldInv, CreateInv,
    Making, CreateSteps, OpenSteps, WriteSteps, FoldSteps, Goto, disk, ghost
<1>0. /\ pc \in [Handles -> Pcs] /\ db \in [Handles -> DbState]
      /\ base \in [Gens -> BaseFile \cup {None}]
      /\ \A k \in Handles : db[k].gen \in Gens
      /\ sb \in Superblock \cup {None} /\ sbDurable \in Superblock \cup {None}
  BY DEF TypeOK, DbState
<1>1. CASE OpenSuperblock(h)
  BY <1>0, <1>1 DEF OpenSuperblock
<1>2. CASE OpenBase(h)
  BY <1>0, <1>2 DEF OpenBase
<1>3. CASE OpenLog(h)
  BY <1>0, <1>3 DEF OpenLog
<1>4. CASE OpenTruncate(h)
  BY <1>0, <1>4 DEF OpenTruncate
<1>5. CASE OpenFold(h)
  BY <1>0, <1>5 DEF OpenFold
<1>6. CASE OpenDone(h)
  BY <1>0, <1>6 DEF OpenDone
<1>7. CASE OpenFail(h)
  BY <1>0, <1>7 DEF OpenFail
<1> QED BY <1>1, <1>2, <1>3, <1>4, <1>5, <1>6, <1>7 DEF Open

\* A write transaction touches neither a superblock nor a base.
LEMMA WriteKeeps ==
  ASSUME "race" \notin Faults, TypeOK, InBounds, StoreInv, NEW h \in Handles, Write(h)
  PROVE  StoreInv'
<1> USE BoundsAssumption, ValuesAssumption DEF StoreInv, LiveBase, LockWithinCall, FoldInv, CreateInv,
    Making, CreateSteps, OpenSteps, WriteSteps, FoldSteps, Goto, disk, ghost
<1>0. /\ pc \in [Handles -> Pcs] /\ db \in [Handles -> DbState]
      /\ base \in [Gens -> BaseFile \cup {None}]
      /\ \A k \in Handles : db[k].gen \in Gens
      /\ sb \in Superblock \cup {None} /\ sbDurable \in Superblock \cup {None}
  BY DEF TypeOK, DbState
<1>1. CASE BeginWrite(h)
  BY <1>0, <1>1 DEF BeginWrite
<1>2. CASE CreateElement(h)
  BY <1>0, <1>2 DEF CreateElement
<1>3. CASE TombstoneElement(h)
  BY <1>0, <1>3 DEF TombstoneElement
<1>4. CASE Rollback(h)
  BY <1>0, <1>4 DEF Rollback
<1>5. CASE AppendPart(h)
  BY <1>0, <1>5 DEF AppendPart
<1>6. CASE AppendRest(h)
  BY <1>0, <1>6 DEF AppendRest
<1>7. CASE CommitSync(h)
  BY <1>0, <1>7 DEF CommitSync
<1>8. CASE AppendFail(h)
  BY <1>0, <1>8 DEF AppendFail
<1> QED BY <1>1, <1>2, <1>3, <1>4, <1>5, <1>6, <1>7, <1>8 DEF Write

\* A checkpoint, whatever step of it fails, leaves both superblocks with a base.
LEMMA FoldKeeps ==
  ASSUME "race" \notin Faults, TypeOK, InBounds, StoreInv, NEW h \in Handles, Fold(h)
  PROVE  StoreInv'
<1> USE BoundsAssumption, ValuesAssumption DEF StoreInv, LiveBase, LockWithinCall, FoldInv, CreateInv,
    Making, CreateSteps, OpenSteps, WriteSteps, FoldSteps, Goto, disk, ghost
<1>0. /\ pc \in [Handles -> Pcs] /\ db \in [Handles -> DbState]
      /\ base \in [Gens -> BaseFile \cup {None}]
      /\ \A k \in Handles : db[k].gen \in Gens
      /\ sb \in Superblock \cup {None} /\ sbDurable \in Superblock \cup {None}
  BY DEF TypeOK, DbState
<1>1. CASE FoldBegin(h)
  BY <1>0, <1>1 DEF FoldBegin
<1>2. CASE FoldBase(h)
  <2> DEFINE file == [view |-> db[h].view, seq |-> db[h].lsn, txn |-> db[h].txn]
  <2>1. file # None
    BY SMTT(30) DEF TypeOK, DbState
  <2>2. base' = [base EXCEPT ![db[h].gen + 1] = file] /\ sbDurable' = sb
    BY <1>2 DEF FoldBase, SyncDirectory
  <2>3. db[h].gen + 1 \in Gens
    BY <1>0, <1>2 DEF FoldBase, InBounds
  <2> HIDE DEF file
  <2>4. \A g \in Gens : base[g] # None => base'[g] # None
    BY <1>0, <2>1, <2>2, <2>3
  <2>5. base'[db[h].gen + 1] # None
    BY <1>0, <2>1, <2>2, <2>3
  <2>6. lock = h /\ \A k \in Handles : k # h => pc[k] \notin FoldSteps
    BY <1>2 DEF FoldBase
  <2> QED BY SMTT(30), <1>0, <1>2, <2>2, <2>4, <2>5, <2>6 DEF FoldBase
<1>3. CASE FoldLog(h)
  BY <1>0, <1>3 DEF FoldLog, SyncDirectory
<1>4. CASE FoldPublish(h)
  <2> DEFINE super == [gen |-> db[h].gen + 1, seq |-> db[h].lsn, txn |-> db[h].txn]
  <2>1. db[h].gen + 1 \in Gens
    BY <1>0, <1>4 DEF FoldPublish, InBounds
  <2>2. super \in Superblock /\ super.gen = db[h].gen + 1
    BY <2>1 DEF TypeOK, DbState
  <2>6. super # None
    BY <2>2
  <2>3. sb' = super
    BY <1>4 DEF FoldPublish
  <2> HIDE DEF super
  <2>4. lock = h /\ \A k \in Handles : k # h => pc[k] \notin FoldSteps /\ lock # k
    BY <1>4 DEF FoldPublish
  <2>5. \A k \in Handles : pc[k] \notin Making
    BY <1>4 DEF FoldPublish
  <2> QED BY <1>0, <1>4, <2>2, <2>6, <2>3, <2>4, <2>5 DEF FoldPublish
<1>5. CASE FoldSync(h)
  BY <1>0, <1>5 DEF FoldSync, SyncDirectory
<1>6. CASE FoldDone(h)
  BY SMTT(30), <1>0, <1>6 DEF FoldDone
<1>7. CASE FoldFail(h)
  BY <1>0, <1>7 DEF FoldFail
<1> QED BY <1>1, <1>2, <1>3, <1>4, <1>5, <1>6, <1>7 DEF Fold

\* A crash falls back to a superblock whose base is still there.
LEMMA CrashKeeps ==
  ASSUME TypeOK, StoreInv, PowerLoss \/ \E h \in Handles : Kill(h) \/ Close(h)
  PROVE  StoreInv'
<1> USE ValuesAssumption DEF StoreInv, LiveBase, LockWithinCall, FoldInv, CreateInv,
    Making, CreateSteps, OpenSteps, WriteSteps, FoldSteps, Goto, disk, ghost
<1>0. pc \in [Handles -> Pcs] /\ db \in [Handles -> DbState]
  BY DEF TypeOK
<1>1. CASE PowerLoss
  BY <1>1 DEF PowerLoss
<1>2. ASSUME NEW h \in Handles, Kill(h) PROVE StoreInv'
  BY <1>0, <1>2 DEF Kill
<1>3. ASSUME NEW h \in Handles, Close(h) PROVE StoreInv'
  BY <1>0, <1>3 DEF Close
<1> QED BY <1>1, <1>2, <1>3

\* The bases, the lock, the folds under way and the creations together are an invariant.
LEMMA StoreInvariant == ASSUME "race" \notin Faults PROVE Spec => []StoreInv
<1>1. Init => StoreInv
  BY ValuesAssumption DEF Init, StoreInv, LiveBase, LockWithinCall, FoldInv, CreateInv, Making,
     CreateSteps, OpenSteps, WriteSteps, FoldSteps
<1>2. TypeOK /\ InBounds /\ StoreInv /\ [Next]_vars => StoreInv'
  <2> SUFFICES ASSUME TypeOK, InBounds, StoreInv, [Next]_vars PROVE StoreInv'
    OBVIOUS
  <2>1. CASE UNCHANGED vars
    BY <2>1 DEF vars, disk, ghost, StoreInv, LiveBase, LockWithinCall, FoldInv, CreateInv
  <2>2. CASE Next
    BY <2>2, CreateKeeps, OpenKeeps, WriteKeeps, FoldKeeps, CrashKeeps DEF Next, Handle
  <2> QED BY <2>1, <2>2
<1> QED BY <1>1, <1>2, TypeInductive, PTL DEF Spec

\* Whatever crashes, fails or runs beside whatever else, and however stale the
\* handles are that fold, the base named by the superblock and the base named by
\* the superblock a power loss would fall back to are both on disk, as long as
\* creations do not overlap.
THEOREM LiveBaseSafe == "race" \notin Faults => (Spec => []LiveBase)
<1> SUFFICES ASSUME "race" \notin Faults PROVE Spec => []LiveBase
  OBVIOUS
<1>1. StoreInv => LiveBase
  BY DEF StoreInv
<1> QED BY <1>1, StoreInvariant, PTL

-----------------------------------------------------------------------------
(***************************************************************************)
(* The reopen inside a fold                                                *)
(*                                                                         *)
(* A fold does not adopt what it wrote: it opens the new generation like   *)
(* any other opener.  That the reopen finds the folded state rests on the  *)
(* three files it wrote staying as written until it has read them, with    *)
(* openers that truncate and extend logs running beside it.                *)
(***************************************************************************)

\* A log without a frame: nothing, or a tail that parses as nothing.  Another
\* opener's set_len may leave the second.
Blank(recs) == recs # <<>> => recs[1] = Torn

BaseWritten(h) ==
  base[db[h].gen + 1] = [view |-> db[h].view, seq |-> db[h].lsn, txn |-> db[h].txn]
LogWritten(h) == Blank(Records(db[h].gen + 1))
Published(h) == sb = [gen |-> db[h].gen + 1, seq |-> db[h].lsn, txn |-> db[h].txn]

\* What the handle inside a fold has written, and what its reopen has read back.
ReopenAt(h) ==
  /\ pc[h] \in {"fold_log", "fold_publish", "fold_sync"} \cup OpenSteps => BaseWritten(h)
  /\ pc[h] \in {"fold_publish", "fold_sync"} \cup OpenSteps => LogWritten(h)
  /\ pc[h] \in {"fold_sync"} \cup OpenSteps => Published(h)
  /\ pc[h] \in OpenSteps \ {"open_super"} =>
       scan[h].gen = db[h].gen + 1 /\ scan[h].lsn = db[h].lsn /\ scan[h].txn = db[h].txn
  /\ pc[h] \in {"open_log", "open_truncate", "open_fold"} => scan[h].view = db[h].view
  /\ pc[h] \in {"open_truncate", "open_fold"} => scan[h].recs = <<>>

ReopenInv == \A h \in Handles : lock = h => ReopenAt(h)

\* A set_len never brings a frame into a log that has none.
LEMMA SetLenBlank ==
  ASSUME NEW recs \in LogFile, NEW n \in Nat, Blank(recs)
  PROVE  Blank(SetLen(recs, n))
<1>1. CASE n <= Len(recs)
  <2>1. SetLen(recs, n) = SubSeq(recs, 1, n)
    BY <1>1 DEF SetLen
  <2>2. n > 0 => recs # <<>> /\ SubSeq(recs, 1, n)[1] = recs[1]
    BY <1>1 DEF LogFile
  <2>3. n = 0 => SubSeq(recs, 1, n) = <<>>
    BY DEF LogFile
  <2> QED BY <2>1, <2>2, <2>3 DEF Blank
<1>2. CASE ~(n <= Len(recs))
  <2>1. SetLen(recs, n) = Append(recs, Torn)
    BY <1>2 DEF SetLen
  <2>2. CASE recs = <<>>
    BY <2>1, <2>2 DEF Blank
  <2>3. CASE recs # <<>>
    <3>1. Len(recs) >= 1 /\ Append(recs, Torn)[1] = recs[1]
      BY <2>3 DEF LogFile
    <3> QED BY <2>1, <2>3, <3>1 DEF Blank
  <2> QED BY <2>2, <2>3
<1> QED BY <1>1, <1>2

\* While a handle folds, the others leave its files alone, but for truncating its
\* empty log: they may open the store, and nothing that writes is open to them.
LEMMA OthersKeepFold ==
  ASSUME TypeOK, StoreInv, NEW h \in Handles, NEW k \in Handles, k # h, lock = h, Handle(k)
  PROVE  /\ lock' = h /\ sb' = sb /\ base' = base
         /\ pc'[h] = pc[h] /\ db'[h] = db[h] /\ scan'[h] = scan[h]
         /\ \A g \in Gens : Blank(Records(g)) => Blank(Records(g)')
<1> USE ValuesAssumption DEF StoreInv, LockWithinCall, CreateInv, Making,
    CreateSteps, OpenSteps, WriteSteps, FoldSteps, Goto, disk
<1>0. /\ pc \in [Handles -> Pcs] /\ db \in [Handles -> DbState] /\ scan \in [Handles -> ScanState]
      /\ log \in [Gens -> LogFile \cup {None}]
  BY DEF TypeOK
<1>1. sb # None /\ pc[k] \notin Making \cup WriteSteps \cup FoldSteps
  OBVIOUS
<1>2. CASE Create(k)
  BY <1>0, <1>1, <1>2 DEF Create, CreateCheck, CreateBase, CreateLog, CreatePublish, CreateSync,
     CreateFail, Records
<1>3. CASE OpenTruncate(k)
  <2> DEFINE g0 == scan[k].gen
             cut == SetLen(log[g0], scan[k].valid)
  <2>1. g0 \in Gens /\ scan[k].valid \in Nat /\ log[g0] \in LogFile
    BY <1>0, <1>3 DEF OpenTruncate, ScanState
  <2>2. cut \in LogFile /\ (Blank(log[g0]) => Blank(cut))
    BY <2>1, SetLenType, SetLenBlank
  <2>3. log' = [log EXCEPT ![g0] = cut]
    BY <1>3 DEF OpenTruncate
  <2> HIDE DEF cut, g0
  <2>4. \A g \in Gens : Blank(Records(g)) => Blank(Records(g)')
    BY <1>0, <2>1, <2>2, <2>3 DEF Records
  <2> QED BY <1>0, <1>3, <2>4 DEF OpenTruncate
<1>4. CASE OpenSuperblock(k) \/ OpenBase(k) \/ OpenLog(k) \/ OpenFold(k) \/ OpenDone(k) \/ OpenFail(k)
  BY <1>0, <1>4 DEF OpenSuperblock, OpenBase, OpenLog, OpenFold, OpenDone, OpenFail, ClearScan, Records
<1>5. CASE Write(k)
  BY <1>0, <1>1, <1>5 DEF Write, BeginWrite, CreateElement, TombstoneElement, Rollback, AppendPart,
     AppendRest, CommitSync, AppendFail
<1>6. CASE Fold(k)
  BY <1>0, <1>1, <1>6 DEF Fold, FoldBegin, FoldBase, FoldLog, FoldPublish, FoldSync, FoldDone, FoldFail
<1>7. CASE Close(k) \/ Kill(k)
  BY <1>0, <1>7 DEF Close, Kill, ClearScan, Records
<1> QED BY <1>2, <1>3, <1>4, <1>5, <1>6, <1>7 DEF Handle, Open

\* Nobody takes the lock for somebody else.
LEMMA LockTaken ==
  ASSUME NEW h \in Handles, NEW k \in Handles, k # h, lock # h, Handle(k)
  PROVE  lock' # h
BY ValuesAssumption DEF Handle, Create, CreateCheck, CreateBase, CreateLog, CreatePublish, CreateSync,
   CreateFail, Open, OpenSuperblock, OpenBase, OpenLog, OpenTruncate, OpenFold, OpenDone, OpenFail,
   Close, Write, BeginWrite, CreateElement, TombstoneElement, Rollback, AppendPart, AppendRest,
   CommitSync, AppendFail, Fold, FoldBegin, FoldBase, FoldLog, FoldPublish, FoldSync, FoldDone,
   FoldFail, Kill

\* What one handle's reopen inside a fold relies on stays true while another steps.
LEMMA ReopenOthers ==
  ASSUME TypeOK, InBounds, StoreInv, NEW h \in Handles, NEW k \in Handles, k # h, lock = h,
         Handle(k), ReopenAt(h)
  PROVE  ReopenAt(h)'
<1>1. /\ sb' = sb /\ base' = base
      /\ pc'[h] = pc[h] /\ db'[h] = db[h] /\ scan'[h] = scan[h]
      /\ \A g \in Gens : Blank(Records(g)) => Blank(Records(g)')
  BY OthersKeepFold
<1>2. pc[h] \in {"fold_publish", "fold_sync"} \cup OpenSteps => db[h].gen + 1 \in Gens
  <2>1. db[h].gen \in Gens
    BY DEF TypeOK, DbState
  <2>2. pc[h] \in FoldSteps => db[h].gen + 1 \in Gens
    BY <2>1, BoundsAssumption DEF InBounds
  <2>3. pc[h] \in OpenSteps => db[h].gen + 1 = sb.gen /\ sb # None
    BY DEF StoreInv, FoldInv, CreateInv, Making, OpenSteps
  <2> QED BY <2>2, <2>3 DEF FoldSteps, TypeOK
<1>3. (LogWritten(h) => LogWritten(h)') \/ pc[h] \notin {"fold_publish", "fold_sync"} \cup OpenSteps
  BY <1>1, <1>2 DEF LogWritten
<1> QED BY <1>1, <1>3 DEF ReopenAt, BaseWritten, Published

\* A fold writes the three files in turn, and its reopen reads them back.
LEMMA ReopenOwn ==
  ASSUME TypeOK, InBounds, StoreInv, NEW h \in Handles, Handle(h), lock = h => ReopenAt(h),
         lock' = h
  PROVE  ReopenAt(h)'
<1> USE ValuesAssumption, BoundsAssumption DEF CreateSteps, OpenSteps, WriteSteps, FoldSteps, Goto
<1>0. /\ pc \in [Handles -> Pcs] /\ db \in [Handles -> DbState] /\ scan \in [Handles -> ScanState]
      /\ base \in [Gens -> BaseFile \cup {None}] /\ log \in [Gens -> LogFile \cup {None}]
      /\ db[h] \in DbState /\ db[h].gen \in Gens /\ scan[h] \in ScanState
  BY DEF TypeOK, DbState
<1>1. pc[h] \in FoldSteps => db[h].gen + 1 \in Gens
  BY <1>0 DEF InBounds
<1>l. lock = h => pc[h] \in WriteSteps \cup FoldSteps \cup OpenSteps
  BY DEF StoreInv, LockWithinCall
<1>2. CASE Create(h)
  BY <1>0, <1>2, <1>l DEF Create, CreateCheck, CreateBase, CreateLog, CreatePublish, CreateSync,
     CreateFail
<1>3. CASE OpenSuperblock(h)
  <2>1. lock = h /\ BaseWritten(h) /\ LogWritten(h) /\ Published(h)
    BY <1>3, <1>l DEF OpenSuperblock, ReopenAt
  <2>2. scan'[h].gen = sb.gen /\ scan'[h].lsn = sb.seq /\ scan'[h].txn = sb.txn
    BY <1>0, <1>3 DEF OpenSuperblock, NoScan
  <2> QED BY <1>0, <1>3, <2>1, <2>2 DEF OpenSuperblock, ReopenAt, BaseWritten, LogWritten, Published,
       Records, disk
<1>4. CASE OpenBase(h)
  <2>1. /\ lock = h /\ BaseWritten(h) /\ LogWritten(h) /\ Published(h)
        /\ scan[h].gen = db[h].gen + 1 /\ scan[h].lsn = db[h].lsn /\ scan[h].txn = db[h].txn
    BY <1>4 DEF OpenBase, ReopenAt
  <2>2. base[scan[h].gen].view = db[h].view
    BY <2>1 DEF BaseWritten
  <2>3. /\ scan'[h].gen = scan[h].gen /\ scan'[h].lsn = scan[h].lsn /\ scan'[h].txn = scan[h].txn
        /\ scan'[h].view = db[h].view
    BY <1>0, <1>4, <2>2 DEF OpenBase, ScanState
  <2> QED BY <1>0, <1>4, <2>1, <2>3 DEF OpenBase, ReopenAt, BaseWritten, LogWritten, Published,
       Records, disk
<1>5. CASE OpenLog(h)
  <2> DEFINE recs == Records(scan[h].gen)
  <2>1. lock = h /\ LogWritten(h) /\ scan[h].gen = db[h].gen + 1
    BY <1>5 DEF OpenLog, ReopenAt
  <2>2. PICK n \in 0..Len(recs) :
          /\ ValidLen(recs, n)
          /\ scan' = [scan EXCEPT ![h].recs = SubSeq(recs, 1, n), ![h].valid = n]
    BY <1>5 DEF OpenLog
  <2>3. recs \in LogFile /\ Blank(recs)
    BY <1>0, <2>1, RecordsType DEF LogWritten, ScanState
  <2>4. n = 0
    BY SMTT(30), <2>2, <2>3 DEF ValidLen, Parses, Blank, LogFile
  <2>5. SubSeq(recs, 1, n) = <<>>
    BY <2>3, <2>4 DEF LogFile
  <2> HIDE DEF recs
  <2>6. /\ scan'[h].recs = <<>> /\ scan'[h].gen = scan[h].gen /\ scan'[h].lsn = scan[h].lsn
        /\ scan'[h].txn = scan[h].txn /\ scan'[h].view = scan[h].view
    BY <1>0, <2>2, <2>5 DEF ScanState
  <2>7. pc'[h] \in {"open_truncate", "open_fold"} /\ sb' = sb /\ base' = base /\ log' = log /\ db' = db
    BY <1>0, <1>5 DEF OpenLog, disk
  <2> QED BY <1>5, <2>1, <2>6, <2>7 DEF OpenLog, ReopenAt, BaseWritten, LogWritten, Published, Records
<1>6. CASE OpenTruncate(h)
  <2> DEFINE g == scan[h].gen
             cut == SetLen(log[g], scan[h].valid)
  <2>1. /\ g \in Gens /\ scan[h].valid \in Nat /\ log[g] \in LogFile /\ g = db[h].gen + 1
        /\ Blank(log[g])
    BY <1>0, <1>6 DEF OpenTruncate, ScanState, ReopenAt, LogWritten, Records
  <2>2. cut \in LogFile /\ Blank(cut)
    BY <2>1, SetLenType, SetLenBlank
  <2>3. log' = [log EXCEPT ![g] = cut]
    BY <1>6 DEF OpenTruncate
  <2> HIDE DEF cut
  <2>4. LogWritten(h)'
    BY <1>0, <1>6, <2>1, <2>2, <2>3 DEF LogWritten, Records, OpenTruncate
  <2> QED BY <1>0, <1>6, <2>4 DEF OpenTruncate, ReopenAt, BaseWritten, Published
<1>7. CASE OpenFold(h)
  BY <1>7 DEF OpenFold, ReopenAt
<1>8. CASE OpenDone(h) \/ OpenFail(h)
  BY <1>8 DEF OpenDone, OpenFail
<1>9. CASE Close(h) \/ Kill(h)
  BY <1>9, <1>l DEF Close, Kill
<1>10. CASE Write(h)
  BY <1>0, <1>10 DEF Write, BeginWrite, CreateElement, TombstoneElement, Rollback, AppendPart,
     AppendRest, CommitSync, AppendFail, ReopenAt
<1>11. CASE Fold(h)
  <2>1. CASE FoldBegin(h)
    BY <1>0, <2>1 DEF FoldBegin, ReopenAt
  <2>2. CASE FoldBase(h)
    BY <1>0, <1>1, <2>2 DEF FoldBase, ReopenAt, BaseWritten
  <2>3. CASE FoldLog(h)
    BY <1>0, <1>1, <2>3 DEF FoldLog, ReopenAt, BaseWritten, LogWritten, Blank, Records
  <2>4. CASE FoldPublish(h)
    BY <1>0, <1>1, <2>4 DEF FoldPublish, ReopenAt, BaseWritten, LogWritten, Published, Records
  <2>5. CASE FoldSync(h)
    BY <1>0, <2>5 DEF FoldSync, ReopenAt, BaseWritten, LogWritten, Published, Records
  <2>6. CASE FoldDone(h) \/ FoldFail(h)
    BY <2>6 DEF FoldDone, FoldFail
  <2> QED BY <1>11, <2>1, <2>2, <2>3, <2>4, <2>5, <2>6 DEF Fold
<1> QED BY <1>2, <1>3, <1>4, <1>5, <1>6, <1>7, <1>8, <1>9, <1>10, <1>11 DEF Handle, Open

\* What a fold has written stays as written until its reopen has read it.
LEMMA ReopenInvariant == ASSUME "race" \notin Faults PROVE Spec => []ReopenInv
<1>1. Init => ReopenInv
  BY ValuesAssumption DEF Init, ReopenInv
<1>2. TypeOK /\ InBounds /\ StoreInv /\ ReopenInv /\ [Next]_vars => ReopenInv'
  <2> SUFFICES ASSUME TypeOK, InBounds, StoreInv, ReopenInv, [Next]_vars,
                      NEW h \in Handles, lock' = h
      PROVE  ReopenAt(h)'
    BY DEF ReopenInv
  <2>1. CASE UNCHANGED vars
    BY <2>1 DEF vars, disk, ReopenInv, ReopenAt, BaseWritten, LogWritten, Published, Records
  <2>2. CASE PowerLoss
    BY <2>2, ValuesAssumption DEF PowerLoss
  <2>3. ASSUME NEW k \in Handles, Handle(k) PROVE ReopenAt(h)'
    <3>1. CASE k = h
      BY <2>3, <3>1, ReopenOwn DEF ReopenInv
    <3>2. CASE k # h /\ lock = h
      BY <2>3, <3>2, ReopenOthers DEF ReopenInv
    <3>3. CASE k # h /\ lock # h
      BY <2>3, <3>3, LockTaken
    <3> QED BY <3>1, <3>2, <3>3
  <2> QED BY <2>1, <2>2, <2>3 DEF Next
<1> QED BY <1>1, <1>2, TypeInductive, StoreInvariant, PTL DEF Spec

\* As long as creations do not overlap, the reopen that ends a fold finds the view,
\* the sequence and the transaction id that were folded, one generation on, however
\* many handles open, truncate and crash beside it and whatever steps fail.
THEOREM FoldExact == "race" \notin Faults => (Spec => []FoldPreservesView)
<1> SUFFICES ASSUME "race" \notin Faults PROVE Spec => []FoldPreservesView
  OBVIOUS
<1>1. TypeOK /\ ReopenInv => FoldPreservesView
  <2> SUFFICES ASSUME TypeOK, ReopenInv, NEW h \in Handles, pc[h] = "open_fold",
                      scan[h].recs = <<>>, lock = h
      PROVE  Opened(h) = [db[h] EXCEPT !.gen = @ + 1]
    BY DEF FoldPreservesView
  <2>1. ReopenAt(h) /\ db[h] \in DbState
    BY DEF ReopenInv, TypeOK
  <2> QED BY <2>1 DEF ReopenAt, Opened, OpenSteps, DbState
<1> QED BY <1>1, TypeInductive, ReopenInvariant, PTL

-----------------------------------------------------------------------------
(* What one handle recovers *)

\* One handle.
Alone == \E h \in Handles : \A k \in Handles : k = h

\* The failures a store is meant to survive.
Survivable == Faults \cap {"race", "rollback", "publish", "reopen", "gap"} = {}

-----------------------------------------------------------------------------
(***************************************************************************)
(* The trail of a superblock                                               *)
(*                                                                         *)
(* What replay computes is a fold over the log.  Its intermediate results  *)
(* are a sequence w of frontiers: w[0] is the base and w[i] the state      *)
(* after the i-th frame.  The invariant says that such a sequence exists,  *)
(* so that no step has to compute the fold: an append extends w by one, a  *)
(* cut shortens it, and a publication starts a new one.                    *)
(***************************************************************************)

\* A log of f frames and at most one record behind them that does not parse.
Framed(recs, f) ==
  /\ f <= Len(recs) /\ Len(recs) <= f + 1
  /\ \A i \in 1..f : recs[i] # Torn
  /\ Len(recs) = f + 1 => recs[f + 1] = Torn

Bounded(view) == \A id \in view.live : id < view.next

\* w holds the frontiers that replaying recs over a base goes through.
Trail(seq, view, recs, w, f) ==
  /\ Framed(recs, f)
  /\ w[0] = [lsn |-> seq, view |-> view]
  /\ \A i \in 1..f : w[i].lsn = recs[i].lsn /\ w[i].view = Apply(w[i - 1].view, recs[i])
  /\ \A i \in 0..f : \A j \in 0..f : i < j => w[i].lsn < w[j].lsn
  /\ \A i \in 0..f : Bounded(w[i].view)

\* The acknowledged frontier is in the base, or one of the frontiers that the n
\* synced records lead to; from there on the watermark is above every used id.
Covers(seq, w, f, n, ack, ids) ==
  /\ ack.lsn < seq \/ \E m \in 0..f : m <= n /\ w[m] = ack
  /\ \A i \in 0..f : ack.lsn <= w[i].lsn => \A id \in ids : id < w[i].view.next

Walk == [Nat -> Frontier]

\* The parts of a frontier.
LEMMA FrontierParts ==
  ASSUME NEW x \in Frontier
  PROVE  /\ x.lsn \in Nat /\ x.lsn \in Lsns /\ x.view \in Content
         /\ x.view.next \in Nat /\ x.view.live \in SUBSET Ids
         /\ x = [lsn |-> x.lsn, view |-> x.view]
BY BoundsAssumption DEF Frontier

\* Every step of a walk is a frontier.
LEMMA WalkAt ==
  ASSUME NEW w \in Walk, NEW i \in Nat
  PROVE  w[i] \in Frontier /\ w[i].lsn \in Nat /\ w[i].view \in Content /\ w[i].view.next \in Nat
<1>1. w[i] \in Frontier
  BY DEF Walk
<1> QED BY <1>1, FrontierParts

\* A base alone is a trail of no frames.
LEMMA TrailNew ==
  ASSUME NEW seq \in Lsns, NEW view \in Content, Bounded(view)
  PROVE  /\ [i \in Nat |-> [lsn |-> seq, view |-> view]] \in Walk
         /\ Trail(seq, view, <<>>, [i \in Nat |-> [lsn |-> seq, view |-> view]], 0)
BY DEF Trail, Framed, Walk, Frontier

\* The first bytes of a record change nothing that replay sees.
LEMMA TrailTorn ==
  ASSUME NEW seq, NEW view, NEW recs \in LogFile, NEW w \in Walk, NEW f \in Nat,
         Trail(seq, view, recs, w, f), Len(recs) = f
  PROVE  Trail(seq, view, Append(recs, Torn), w, f)
<1>1. /\ Len(Append(recs, Torn)) = f + 1 /\ Append(recs, Torn)[f + 1] = Torn
      /\ \A i \in 1..f : Append(recs, Torn)[i] = recs[i]
  BY DEF LogFile
<1> HIDE DEF LogFile
<1> QED BY <1>1 DEF Trail, Framed

\* A shorter log leads through the first frontiers of the longer one.
LEMMA TrailCut ==
  ASSUME NEW seq, NEW view, NEW recs, NEW cut, NEW w \in Walk, NEW f \in Nat, NEW e \in 0..f,
         Trail(seq, view, recs, w, f), Framed(cut, e), \A i \in 1..e : cut[i] = recs[i]
  PROVE  Trail(seq, view, cut, w, e)
BY DEF Trail

\* The watermark never falls along a trail, and folding a frame keeps ids below it.
LEMMA ApplyBounded ==
  ASSUME NEW view \in Content, NEW frame \in Frame, Bounded(view),
         \A id \in frame.add : id < frame.next
  PROVE  Bounded(Apply(view, frame)) /\ view.next <= Apply(view, frame).next
<1>1. /\ view.next \in Nat /\ frame.next \in Nat /\ view.live \in SUBSET Nat
      /\ frame.add \in SUBSET Nat
  BY BoundsAssumption DEF Frame
<1>2. /\ Apply(view, frame).live = (view.live \cup frame.add) \ frame.del
      /\ Apply(view, frame).next = Larger(view.next, frame.next)
  BY DEF Apply
<1>3. view.next <= Larger(view.next, frame.next) /\ frame.next <= Larger(view.next, frame.next)
      /\ Larger(view.next, frame.next) \in Nat
  BY <1>1 DEF Larger
<1>4. ASSUME NEW id \in Apply(view, frame).live PROVE id < Apply(view, frame).next
  BY <1>1, <1>2, <1>3, <1>4 DEF Bounded
<1> QED BY <1>2, <1>3, <1>4 DEF Bounded

\* A frame that takes the place of the torn record extends the trail by one.
LEMMA TrailFrame ==
  ASSUME NEW seq, NEW view, NEW recs \in LogFile, NEW w \in Walk, NEW f \in Nat,
         Trail(seq, view, recs, w, f), Len(recs) = f + 1,
         NEW frame \in Frame, w[f].lsn < frame.lsn, \A id \in frame.add : id < frame.next,
         NEW x, x = [lsn |-> frame.lsn, view |-> Apply(w[f].view, frame)]
  PROVE  /\ [w EXCEPT ![f + 1] = x] \in Walk
         /\ Trail(seq, view, [recs EXCEPT ![f + 1] = frame], [w EXCEPT ![f + 1] = x], f + 1)
<1> DEFINE new == [recs EXCEPT ![f + 1] = frame]
           v == [w EXCEPT ![f + 1] = x]
<1>0. \A i \in Nat : w[i] \in Frontier /\ w[i].lsn \in Nat /\ w[i].view \in Content
  BY WalkAt
<1>1. x \in Frontier /\ Bounded(x.view) /\ x.lsn = frame.lsn /\ x.view = Apply(w[f].view, frame)
  <2>1. w[f].view \in Content /\ Bounded(w[f].view)
    BY <1>0 DEF Trail
  <2>2. Apply(w[f].view, frame) \in Content /\ Bounded(Apply(w[f].view, frame))
    BY <2>1, ApplyType, ApplyBounded
  <2>3. frame.lsn \in Lsns
    BY DEF Frame
  <2> QED BY <2>2, <2>3 DEF Frontier
<1>2. v \in Walk /\ v[f + 1] = x /\ \A i \in 0..f : v[i] = w[i]
  BY <1>1 DEF Walk
<1>3. /\ new \in LogFile /\ Len(new) = f + 1 /\ new[f + 1] = frame
      /\ \A i \in 1..f : new[i] = recs[i]
  BY ExceptSeq DEF LogFile
<1>4. Framed(new, f + 1)
  BY <1>3, ValuesAssumption DEF Framed, Trail
<1> HIDE DEF new, v
<1>5. v[0] = [lsn |-> seq, view |-> view]
  BY <1>2 DEF Trail
<1>6. ASSUME NEW i \in 1..(f + 1)
      PROVE  v[i].lsn = new[i].lsn /\ v[i].view = Apply(v[i - 1].view, new[i])
  <2>1. CASE i = f + 1
    <3>1. v[i] = x /\ new[i] = frame /\ v[i - 1] = w[f]
      BY <1>2, <1>3, <2>1
    <3> QED BY <1>1, <3>1
  <2>2. CASE i \in 1..f
    <3>1. v[i] = w[i] /\ new[i] = recs[i] /\ v[i - 1] = w[i - 1]
      BY <1>2, <1>3, <2>2
    <3>2. w[i].lsn = recs[i].lsn /\ w[i].view = Apply(w[i - 1].view, recs[i])
      BY <2>2 DEF Trail
    <3> QED BY <3>1, <3>2
  <2> QED BY <2>1, <2>2
<1>7. ASSUME NEW i \in 0..(f + 1), NEW j \in 0..(f + 1), i < j PROVE v[i].lsn < v[j].lsn
  <2>1. i \in 0..f /\ v[i] = w[i]
    BY <1>2, <1>7
  <2>2. CASE j \in 0..f
    BY <1>2, <1>7, <2>1, <2>2 DEF Trail
  <2>3. CASE j = f + 1
    <3>1. w[i].lsn \in Nat /\ w[f].lsn \in Nat /\ frame.lsn \in Nat
      BY <1>0, <2>1, BoundsAssumption DEF Frame
    <3>2. i < f => w[i].lsn < w[f].lsn
      BY <2>1 DEF Trail
    <3>3. i = f \/ i < f
      BY <2>1
    <3>4. w[i].lsn <= w[f].lsn
      BY <3>1, <3>2, <3>3
    <3>5. v[j].lsn = frame.lsn
      BY <1>1, <1>2, <2>3
    <3> QED BY <2>1, <3>1, <3>4, <3>5
  <2> QED BY <2>2, <2>3
<1>8. \A i \in 0..(f + 1) : Bounded(v[i].view)
  BY <1>1, <1>2 DEF Trail
<1>9. Trail(seq, view, new, v, f + 1)
  BY <1>4, <1>5, <1>6, <1>7, <1>8 DEF Trail
<1> QED BY <1>2, <1>9 DEF new, v

\* The log of a trail replays: the scan stops after its frames, and never loudly.
LEMMA TrailReplays ==
  ASSUME NEW seq, NEW view, NEW recs \in LogFile, NEW w \in Walk, NEW f \in Nat,
         Trail(seq, view, recs, w, f), NEW n \in 0..Len(recs), ValidLen(recs, n)
  PROVE  n = f /\ ~LoudAt(recs, n)
<1>0. Len(recs) \in Nat /\ Framed(recs, f)
  BY DEF LogFile, Trail
<1>1. n <= f
  BY <1>0 DEF ValidLen, Parses, Framed
<1>2. ASSUME n < f PROVE FALSE
  <2>1. \A i \in 1..(n + 1) : recs[i] # Torn
    BY <1>0, <1>2 DEF Framed
  <2>2. ASSUME NEW i \in 2..(n + 1) PROVE recs[i].lsn > recs[i - 1].lsn
    <3>1. i \in 1..f /\ i - 1 \in 1..f
      BY <1>2
    <3>2. w[i].lsn = recs[i].lsn /\ w[i - 1].lsn = recs[i - 1].lsn
      BY <3>1 DEF Trail
    <3>3. w[i - 1].lsn < w[i].lsn
      BY <3>1 DEF Trail
    <3>4. w[i].lsn \in Nat /\ w[i - 1].lsn \in Nat
      BY <3>1, WalkAt
    <3> QED BY <3>2, <3>3, <3>4
  <2>3. Parses(recs, n + 1)
    BY <2>1, <2>2 DEF Parses
  <2> QED BY <1>0, <1>2, <2>3 DEF ValidLen, Framed
<1>3. n = f
  BY <1>1, <1>2
<1> QED BY <1>0, <1>3 DEF LoudAt, Interior, Framed

\* The end of a trail is at the acknowledged frontier or above it.
LEMMA CoversTop ==
  ASSUME NEW seq \in Lsns, NEW view, NEW recs, NEW w \in Walk, NEW f \in Nat,
         Trail(seq, view, recs, w, f), NEW n, NEW ack \in Frontier, NEW ids,
         Covers(seq, w, f, n, ack, ids)
  PROVE  /\ ack.lsn <= w[f].lsn
         /\ ack.lsn = w[f].lsn => ack = w[f]
         /\ \A id \in ids : id < w[f].view.next
<1>0. \A i \in Nat : w[i] \in Frontier /\ w[i].lsn \in Nat
  BY WalkAt
<1>1. ack.lsn \in Nat /\ seq \in Nat
  BY BoundsAssumption DEF Frontier
<1>2. w[0].lsn = seq /\ w[0].lsn <= w[f].lsn
  BY <1>0 DEF Trail
<1>3. ack.lsn <= w[f].lsn /\ (ack.lsn = w[f].lsn => ack = w[f])
  <2>1. CASE ack.lsn < seq
    BY <1>0, <1>1, <1>2, <2>1
  <2>2. ASSUME NEW m \in 0..f, w[m] = ack PROVE <1>3!1 /\ <1>3!2
    BY <1>0, <2>2 DEF Trail
  <2> QED BY <2>1, <2>2 DEF Covers
<1> QED BY <1>0, <1>1, <1>3 DEF Covers

\* A cut that keeps the synced records keeps what is covered.
LEMMA CoversCut ==
  ASSUME NEW seq, NEW w, NEW f \in Nat, NEW n \in Nat, NEW ack, NEW ids,
         Covers(seq, w, f, n, ack, ids), NEW e \in 0..f, NEW p \in Nat,
         \A m \in 0..f : m <= n => m <= e /\ m <= p
  PROVE  Covers(seq, w, e, p, ack, ids)
BY DEF Covers

\* A cut that keeps the acknowledged frontier keeps what is covered.
LEMMA CoversBack ==
  ASSUME NEW seq \in Lsns, NEW view, NEW recs, NEW w \in Walk, NEW f \in Nat, NEW n \in Nat,
         NEW ack \in Frontier, NEW ids,
         Trail(seq, view, recs, w, f), Covers(seq, w, f, n, ack, ids),
         NEW e \in 0..f, ack.lsn <= w[e].lsn, NEW p \in Nat, \A m \in 0..e : m <= n => m <= p
  PROVE  Covers(seq, w, e, p, ack, ids)
<1>1. ASSUME NEW m \in 0..f, m <= n, w[m] = ack PROVE m \in 0..e /\ m <= p
  <2>1. w[m].lsn \in Nat /\ w[e].lsn \in Nat
    BY WalkAt
  <2>2. ~(e < m)
    BY <1>1, <2>1 DEF Trail
  <2> QED BY <1>1, <2>2
<1> QED BY <1>1 DEF Covers

\* A frame at the end takes nothing away.
LEMMA CoversFrame ==
  ASSUME NEW seq \in Lsns, NEW view, NEW recs, NEW w \in Walk, NEW f \in Nat, NEW n \in Nat,
         NEW ack \in Frontier, NEW ids \in SUBSET Ids,
         Trail(seq, view, recs, w, f), Covers(seq, w, f, n, ack, ids),
         NEW x \in Frontier, w[f].view.next <= x.view.next
  PROVE  Covers(seq, [w EXCEPT ![f + 1] = x], f + 1, n, ack, ids)
<1> DEFINE v == [w EXCEPT ![f + 1] = x]
<1>1. v[f + 1] = x /\ \A i \in 0..f : v[i] = w[i]
  BY DEF Walk
<1>2. \A id \in ids : id < x.view.next
  <2>1. \A id \in ids : id < w[f].view.next
    BY CoversTop
  <2>2. w[f].view.next \in Nat /\ x.view.next \in Nat /\ ids \in SUBSET Nat
    BY WalkAt, FrontierParts, BoundsAssumption
  <2> QED BY <2>1, <2>2
<1> HIDE DEF v
<1>3. ack.lsn < seq \/ \E m \in 0..(f + 1) : m <= n /\ v[m] = ack
  <2>1. ASSUME NEW m \in 0..f, m <= n, w[m] = ack PROVE \E i \in 0..(f + 1) : i <= n /\ v[i] = ack
    BY <1>1, <2>1
  <2> QED BY <2>1 DEF Covers
<1>4. \A i \in 0..(f + 1) : ack.lsn <= v[i].lsn => \A id \in ids : id < v[i].view.next
  BY <1>1, <1>2 DEF Covers
<1>5. Covers(seq, v, f + 1, n, ack, ids)
  BY <1>3, <1>4 DEF Covers
<1> QED BY <1>5 DEF v

-----------------------------------------------------------------------------
(* The inductive invariant *)

\* The trail of a superblock on the disk as it is, and that it covers what was
\* acknowledged.
SafeTrail(s, w, f) ==
  /\ Trail(s.seq, base[s.gen].view, Records(s.gen), w, f)
  /\ Covers(s.seq, w, f, synced[s.gen], acked, used)

Recoverable(s) == \E w \in Walk : \E f \in Nat : SafeTrail(s, w, f)

Resting == {"idle", "txn", "fold_base", "fold_log", "fold_publish"}
Published0 == [view |-> EmptyView, seq |-> 0, txn |-> 0]

Front(h) == [lsn |-> db[h].lsn, view |-> db[h].view]

\* The handle's snapshot is the end of the trail; a commit under way is one record,
\* torn and then whole, behind it.
WriterAt(h, w, f) ==
  /\ pc[h] \in Resting =>
       db[h].gen = sb.gen /\ Len(Records(sb.gen)) = f /\ w[f] = Front(h)
  /\ pc[h] = "append" =>
       /\ db[h].gen = sb.gen /\ Len(Records(sb.gen)) = f + 1
       /\ delta[h].eof = f /\ w[f] = Front(h)
  /\ pc[h] = "sync" =>
       /\ db[h].gen = sb.gen /\ Len(Records(sb.gen)) = f /\ f = delta[h].eof + 1
       /\ Records(sb.gen)[f] = FrameOf(h) /\ w[f - 1] = Front(h) /\ acked.lsn <= db[h].lsn

\* The staged ids lie between the snapshot's watermark and the transaction's.
Staged(h) ==
  pc[h] \in WriteSteps =>
    /\ db[h].view.next <= delta[h].next
    /\ \A id \in delta[h].add : db[h].view.next <= id /\ id < delta[h].next

\* The handle's transaction id is not below any on disk, and above all of them once
\* begin_write has taken a new one.
TxnAt(h, f) ==
  /\ pc[h] \in Resting \cup {"append", "sync"} =>
       sb.txn <= db[h].txn /\ \A i \in 1..f : Records(sb.gen)[i].txn <= db[h].txn
  /\ pc[h] \in {"txn", "append"} =>
       sb.txn < db[h].txn /\ \A i \in 1..f : Records(sb.gen)[i].txn < db[h].txn

\* A fold publishes a base that holds the snapshot and an empty log.
FoldAt(h) ==
  /\ pc[h] \in {"fold_log", "fold_publish"} => BaseWritten(h)
  /\ pc[h] = "fold_publish" => Records(db[h].gen + 1) = <<>>

\* An open walks the trail: it has reached w[k] and has the other frames before it.
OpenAt(h, w, f) ==
  /\ pc[h] \in OpenSteps \ {"open_super"} =>
       scan[h].gen = sb.gen /\ scan[h].floor = acked /\ sb.txn <= scan[h].txn
  /\ pc[h] \in {"open_base", "open_log", "open_truncate"} => scan[h].lsn = sb.seq
  /\ pc[h] \in {"open_log", "open_truncate"} => scan[h].view = base[sb.gen].view
  /\ pc[h] = "open_truncate" =>
       /\ Len(Records(sb.gen)) = f + 1 /\ scan[h].valid = f /\ Len(scan[h].recs) = f
       /\ \A i \in 1..f : scan[h].recs[i] = Records(sb.gen)[i]
  /\ pc[h] = "open_fold" =>
       \E k \in 0..f :
         /\ Len(Records(sb.gen)) = f /\ Len(scan[h].recs) = f - k
         /\ w[k] = [lsn |-> scan[h].lsn, view |-> scan[h].view]
         /\ \A i \in 1..(f - k) : scan[h].recs[i] = Records(sb.gen)[k + i]
         /\ \A i \in 1..k : Records(sb.gen)[i].txn <= scan[h].txn

HandleAt(h, w, f) ==
  WriterAt(h, w, f) /\ Staged(h) /\ TxnAt(h, f) /\ FoldAt(h) /\ OpenAt(h, w, f)

\* A creation under way; and the durable superblock lags only between a rename and
\* its fsync.
MakeAt(h) ==
  /\ pc[h] \notin {"create_sync", "fold_sync"} => sbDurable = sb
  /\ pc[h] \in {"create_log", "create_publish"} => base[0] = Published0
  /\ pc[h] = "create_publish" => Records(0) = <<>>

\* Nothing was acknowledged yet.
Pristine == acked = [lsn |-> 0, view |-> EmptyView] /\ used = {}

LiveTrail ==
  \E w \in Walk : \E f \in Nat : SafeTrail(sb, w, f) /\ \A h \in Handles : HandleAt(h, w, f)

DurableInv ==
  /\ sbDurable = None => Pristine
  /\ sbDurable # None => Recoverable(sbDurable)
  /\ sb # None => LiveTrail
  /\ \A h \in Handles : MakeAt(h)

-----------------------------------------------------------------------------
(* The invariant after a step *)

\* A step that ends with the superblock durable need only show the live trail.
LEMMA LiveStep ==
  ASSUME Alone, NEW h \in Handles, sb' # None, sbDurable' = sb', pc'[h] \notin CreateSteps,
         NEW w \in Walk, NEW f \in Nat, SafeTrail(sb, w, f)', HandleAt(h, w, f)'
  PROVE  DurableInv'
<1>1. \A k \in Handles : k = h
  BY DEF Alone
<1>2. LiveTrail'
  BY <1>1 DEF LiveTrail
<1>3. Recoverable(sbDurable)'
  <2>1. SafeTrail(sbDurable, w, f)'
    BY DEF SafeTrail
  <2> QED BY <2>1 DEF Recoverable
<1>4. MakeAt(h)'
  BY DEF MakeAt, CreateSteps
<1> QED BY <1>1, <1>2, <1>3, <1>4 DEF DurableInv

\* A trail stays while its files and the acknowledged frontier do.
LEMMA TrailKept ==
  ASSUME NEW w, NEW f, SafeTrail(sb, w, f), UNCHANGED <<sb, base, log, synced, acked, used>>
  PROVE  SafeTrail(sb, w, f)'
BY DEF SafeTrail, Records

\* The live trail of a store with a superblock and one handle.
LEMMA LivePick ==
  ASSUME DurableInv, NEW h \in Handles, sb # None
  PROVE  \E w \in Walk : \E f \in Nat : SafeTrail(sb, w, f) /\ HandleAt(h, w, f)
BY DEF DurableInv, LiveTrail

\* Outside a creation a handle that is doing something has a superblock.
LEMMA HasSuper ==
  ASSUME TypeOK, StoreInv, DurableInv, NEW h \in Handles,
         pc[h] \notin {"closed", "create_sync", "fold_sync"} \cup Making
  PROVE  sb # None /\ sb \in Superblock /\ sbDurable = sb /\ base[sb.gen] # None
BY DEF TypeOK, StoreInv, CreateInv, LiveBase, DurableInv, MakeAt, Making

\* Db::create ends with an empty trail: nothing was acknowledged before it.
LEMMA CreateDurable ==
  ASSUME Alone, Survivable, TypeOK, StoreInv, DurableInv, NEW h \in Handles, Create(h)
  PROVE  DurableInv'
<1> USE DEF CreateSteps, OpenSteps, WriteSteps, FoldSteps, Goto
<1>0. \A k \in Handles : k = h
  BY DEF Alone
<1>t. /\ pc \in [Handles -> Pcs] /\ base \in [Gens -> BaseFile \cup {None}]
      /\ log \in [Gens -> LogFile \cup {None}] /\ 0 \in Gens /\ 0 \in Lsns
  BY BoundsAssumption DEF TypeOK
<1>m. pc[h] \in Making => sb = None /\ sbDurable = None /\ Pristine
  BY DEF StoreInv, CreateInv, DurableInv, MakeAt, Making
<1>1. CASE CreateCheck(h)
  <2>1. sb = None /\ sbDurable = None /\ Pristine
    BY <1>1 DEF CreateCheck, DurableInv, MakeAt
  <2>2. /\ sb' = None /\ sbDurable' = None /\ pc'[h] = "create_base"
        /\ acked' = acked /\ used' = used
    BY <1>t, <1>1, <2>1 DEF CreateCheck, disk, ghost
  <2> QED BY <1>0, <2>1, <2>2 DEF DurableInv, MakeAt, Pristine
<1>2. CASE CreateBase(h)
  <2>1. /\ sb' = None /\ sbDurable' = None /\ pc'[h] = "create_log" /\ Pristine
        /\ acked' = acked /\ used' = used /\ base'[0] = Published0
    BY <1>t, <1>m, <1>2 DEF CreateBase, SyncDirectory, Making, ghost, Published0
  <2> QED BY <1>0, <2>1 DEF DurableInv, MakeAt, Pristine
<1>3. CASE CreateLog(h)
  <2>1. /\ sb' = None /\ sbDurable' = None /\ pc'[h] = "create_publish" /\ Pristine
        /\ acked' = acked /\ used' = used /\ base' = base /\ log'[0] = <<>>
    BY <1>t, <1>m, <1>3 DEF CreateLog, SyncDirectory, Making, ghost
  <2>2. base[0] = Published0
    BY <1>3 DEF CreateLog, DurableInv, MakeAt
  <2> QED BY <1>0, <2>1, <2>2 DEF DurableInv, MakeAt, Pristine, Records
<1>4. CASE CreatePublish(h)
  <2> DEFINE w == [i \in Nat |-> [lsn |-> 0, view |-> EmptyView]]
  <2>1. /\ sb'.gen = 0 /\ sb'.seq = 0 /\ sbDurable' = None /\ pc'[h] = "create_sync" /\ Pristine
        /\ acked' = acked /\ used' = used /\ base' = base /\ log' = log /\ synced' = synced
    BY <1>t, <1>m, <1>4 DEF CreatePublish, Making, ghost
  <2>2. base[0] = Published0 /\ Records(0) = <<>>
    BY <1>4 DEF CreatePublish, DurableInv, MakeAt
  <2>3. w \in Walk /\ Trail(0, EmptyView, <<>>, w, 0)
    BY <1>t, TrailNew, Defaults DEF Bounded, EmptyView
  <2>4. synced[0] \in Nat
    BY <1>t DEF TypeOK
  <2>5. w[0] = acked
    BY <2>1 DEF Pristine
  <2> HIDE DEF w
  <2>6. Covers(0, w, 0, synced[0], acked, used)
    BY <2>1, <2>4, <2>5 DEF Covers, Pristine
  <2>7. SafeTrail(sb, w, 0)'
    BY <2>1, <2>2, <2>3, <2>6 DEF SafeTrail, Records, Published0
  <2>8. HandleAt(h, w, 0)'
    BY <2>1 DEF HandleAt, WriterAt, Staged, TxnAt, FoldAt, OpenAt, Resting
  <2>9. LiveTrail'
    BY <1>0, <2>3, <2>7, <2>8 DEF LiveTrail
  <2> QED BY <1>0, <2>1, <2>9 DEF DurableInv, MakeAt, Pristine
<1>5. CASE CreateSync(h)
  <2>1. sb # None
    BY <1>5 DEF CreateSync, StoreInv, CreateInv, Making
  <2>2. /\ sb' = sb /\ sbDurable' = sb /\ pc'[h] = "open_super"
        /\ UNCHANGED <<sb, base, log, synced, acked, used>>
    BY <1>t, <1>5 DEF CreateSync, SyncDirectory, ghost
  <2>3. PICK w \in Walk, f \in Nat : SafeTrail(sb, w, f)
    BY <2>1, LivePick
  <2>4. SafeTrail(sb, w, f)'
    BY <2>2, <2>3, TrailKept
  <2>5. HandleAt(h, w, f)'
    BY <2>2 DEF HandleAt, WriterAt, Staged, TxnAt, FoldAt, OpenAt, Resting
  <2> QED BY <2>1, <2>2, <2>4, <2>5, LiveStep
<1>6. CASE CreateFail(h)
  <2>1. pc[h] \in Making
    BY <1>6 DEF CreateFail, Survivable, Making
  <2>2. /\ sb' = None /\ sbDurable' = None /\ Pristine /\ pc'[h] = "closed"
        /\ acked' = acked /\ used' = used
    BY <1>t, <1>m, <1>6, <2>1 DEF CreateFail, disk, ghost
  <2> QED BY <1>0, <2>2 DEF DurableInv, MakeAt, Pristine
<1> QED BY <1>1, <1>2, <1>3, <1>4, <1>5, <1>6 DEF Create

\* A handle that adopts what its open has folded rests at the end of the trail.
LEMMA OpenedAtEnd ==
  ASSUME TypeOK, NEW h \in Handles, sb \in Superblock, NEW w \in Walk, NEW f \in Nat,
         SafeTrail(sb, w, f), HandleAt(h, w, f), pc[h] = "open_fold", scan[h].recs = <<>>,
         pc'[h] = "idle", db'[h] = Opened(h), sb' = sb, Records(sb.gen)' = Records(sb.gen)
  PROVE  HandleAt(h, w, f)'
<1>1. scan[h].gen = sb.gen /\ sb.txn <= scan[h].txn
  BY DEF HandleAt, OpenAt, OpenSteps
<1>2. PICK k \in 0..f :
         /\ Len(Records(sb.gen)) = f /\ Len(scan[h].recs) = f - k
         /\ w[k] = [lsn |-> scan[h].lsn, view |-> scan[h].view]
         /\ \A i \in 1..k : Records(sb.gen)[i].txn <= scan[h].txn
  BY DEF HandleAt, OpenAt
<1>3. k = f
  BY <1>2
<1>4. /\ db'[h].gen = sb.gen /\ db'[h].lsn = scan[h].lsn /\ db'[h].txn = scan[h].txn
      /\ db'[h].view = scan[h].view
  BY <1>1 DEF Opened
<1>5. w[f] = Front(h)'
  BY <1>2, <1>3, <1>4 DEF Front
<1>6. WriterAt(h, w, f)' /\ TxnAt(h, f)'
  BY <1>1, <1>2, <1>3, <1>4, <1>5 DEF WriterAt, TxnAt, Resting
<1> QED BY <1>6 DEF HandleAt, Staged, FoldAt, OpenAt, WriteSteps, OpenSteps

\* Db::open walks the live trail to its end, and cuts at most a torn record behind it.
LEMMA OpenDurable ==
  ASSUME Alone, Survivable, TypeOK, StoreInv, DurableInv, NEW h \in Handles, Open(h)
  PROVE  DurableInv'
<1> USE DEF CreateSteps, OpenSteps, WriteSteps, FoldSteps, Goto
<1>0. \A k \in Handles : k = h
  BY DEF Alone
<1>t. /\ pc \in [Handles -> Pcs] /\ base \in [Gens -> BaseFile \cup {None}]
      /\ log \in [Gens -> LogFile \cup {None}] /\ scan \in [Handles -> ScanState]
      /\ scan[h] \in ScanState /\ acked \in Frontier
      /\ sb \in Superblock \cup {None} /\ db \in [Handles -> DbState]
  BY DEF TypeOK
<1>s. /\ sb # None /\ sb \in Superblock /\ sbDurable = sb /\ base[sb.gen] # None
      /\ pc[h] \in {"closed"} \cup OpenSteps
  <2>1. pc[h] \in {"closed"} \cup OpenSteps
    BY DEF Open, OpenSuperblock, OpenBase, OpenLog, OpenTruncate, OpenFold, OpenDone, OpenFail, OpenFails
  <2>2. pc[h] = "closed" => sb # None
    BY DEF Open, OpenSuperblock, OpenBase, OpenLog, OpenTruncate, OpenFold, OpenDone, OpenFail, OpenFails
  <2>3. pc[h] \in OpenSteps => sb # None
    BY DEF StoreInv, CreateInv, Making
  <2>4. sb # None
    BY <2>1, <2>2, <2>3
  <2>5. sb \in Superblock /\ sbDurable = sb
    BY <1>t, <2>1, <2>4 DEF DurableInv, MakeAt
  <2>6. base[sb.gen] # None
    BY <2>4 DEF StoreInv, LiveBase
  <2> QED BY <2>1, <2>4, <2>5, <2>6
<1>w. PICK w \in Walk, f \in Nat : SafeTrail(sb, w, f) /\ HandleAt(h, w, f)
  BY <1>s, LivePick
<1>r. /\ sb.gen \in Gens /\ sb.seq \in Lsns /\ sb.seq \in Nat /\ sb.txn \in Nat
      /\ Records(sb.gen) \in LogFile /\ Len(Records(sb.gen)) \in Nat
      /\ Trail(sb.seq, base[sb.gen].view, Records(sb.gen), w, f)
      /\ w[0] = [lsn |-> sb.seq, view |-> base[sb.gen].view] /\ Framed(Records(sb.gen), f)
  <2>1. sb.gen \in Gens /\ sb.seq \in Lsns /\ sb.seq \in Nat /\ sb.txn \in Nat
    BY <1>s, BoundsAssumption
  <2>2. Records(sb.gen) \in LogFile /\ Len(Records(sb.gen)) \in Nat
    BY <1>t, <2>1, RecordsType
  <2> QED BY <1>w, <2>1, <2>2 DEF SafeTrail, Trail
<1>1. CASE OpenSuperblock(h)
  <2>1. /\ sb' = sb /\ sbDurable' = sb /\ pc'[h] = "open_base"
        /\ UNCHANGED <<sb, base, log, synced, acked, used>>
    BY <1>t, <1>s, <1>1 DEF OpenSuperblock, disk, ghost
  <2>2. scan'[h] = [NoScan EXCEPT !.gen = sb.gen, !.lsn = sb.seq, !.txn = sb.txn, !.floor = acked]
    BY <1>t, <1>1 DEF OpenSuperblock
  <2>3. scan'[h].gen = sb.gen /\ scan'[h].lsn = sb.seq /\ scan'[h].txn = sb.txn /\ scan'[h].floor = acked
    BY <2>2 DEF NoScan
  <2>4. HandleAt(h, w, f)'
    BY <1>r, <2>1, <2>3 DEF HandleAt, WriterAt, Staged, TxnAt, FoldAt, OpenAt, Resting
  <2> QED BY <1>s, <1>w, <2>1, <2>4, TrailKept, LiveStep
<1>2. CASE OpenBase(h)
  <2>1. /\ sb' = sb /\ sbDurable' = sb /\ pc'[h] = "open_log"
        /\ UNCHANGED <<sb, base, log, synced, acked, used>>
    BY <1>t, <1>s, <1>2 DEF OpenBase, disk, ghost
  <2>2. /\ scan[h].gen = sb.gen /\ scan[h].floor = acked /\ sb.txn <= scan[h].txn
        /\ scan[h].lsn = sb.seq
    BY <1>2, <1>w DEF OpenBase, HandleAt, OpenAt
  <2>3. /\ scan'[h].gen = scan[h].gen /\ scan'[h].lsn = scan[h].lsn /\ scan'[h].txn = scan[h].txn
        /\ scan'[h].floor = scan[h].floor /\ scan'[h].view = base[sb.gen].view
    BY <1>t, <1>2, <2>2 DEF OpenBase, ScanState
  <2>4. HandleAt(h, w, f)'
    BY <1>r, <2>1, <2>2, <2>3 DEF HandleAt, WriterAt, Staged, TxnAt, FoldAt, OpenAt, Resting
  <2> QED BY <1>s, <1>w, <2>1, <2>4, TrailKept, LiveStep
<1>3. CASE OpenLog(h)
  <2> DEFINE recs == Records(sb.gen)
  <2>1. /\ sb' = sb /\ sbDurable' = sb /\ UNCHANGED <<sb, base, log, synced, acked, used>>
    BY <1>t, <1>s, <1>3 DEF OpenLog, disk, ghost
  <2>2. /\ scan[h].gen = sb.gen /\ scan[h].floor = acked /\ sb.txn <= scan[h].txn
        /\ scan[h].lsn = sb.seq /\ scan[h].view = base[sb.gen].view
    BY <1>3, <1>w DEF OpenLog, HandleAt, OpenAt
  <2>3. PICK n \in 0..Len(recs) :
          /\ ValidLen(recs, n)
          /\ scan' = [scan EXCEPT ![h].recs = SubSeq(recs, 1, n), ![h].valid = n]
          /\ Goto(h, IF n < Len(recs) THEN "open_truncate" ELSE "open_fold")
    BY <1>3, <2>2 DEF OpenLog
  <2>4. n = f
    BY <1>r, <2>3, TrailReplays
  <2>5. f <= Len(recs) /\ Len(SubSeq(recs, 1, f)) = f /\ \A i \in 1..f : SubSeq(recs, 1, f)[i] = recs[i]
    BY <1>r, <2>3, <2>4 DEF LogFile
  <2>6. pc'[h] = IF f < Len(recs) THEN "open_truncate" ELSE "open_fold"
    BY <1>t, <2>3, <2>4
  <2>7. /\ scan'[h].gen = scan[h].gen /\ scan'[h].lsn = scan[h].lsn /\ scan'[h].txn = scan[h].txn
        /\ scan'[h].floor = scan[h].floor /\ scan'[h].view = scan[h].view
        /\ scan'[h].recs = SubSeq(recs, 1, f) /\ scan'[h].valid = f
    <3> HIDE DEF recs
    <3> QED BY <1>t, <2>3, <2>4 DEF ScanState
  <2>8. Records(sb.gen)' = recs
    BY <2>1 DEF Records
  <2>9. Len(recs) \in {f, f + 1}
    BY <1>r DEF Framed
  <2> HIDE DEF recs
  <2>10. OpenAt(h, w, f)'
    <3>1. CASE pc'[h] = "open_truncate"
      <4>1. Len(recs) = f + 1
        BY <2>6, <2>9, <3>1
      <4> QED BY <2>1, <2>2, <2>5, <2>7, <2>8, <3>1, <4>1 DEF OpenAt
    <3>2. CASE pc'[h] = "open_fold"
      <4>1. Len(recs) = f
        BY <2>5, <2>6, <2>9, <3>2
      <4>2. /\ Len(recs) = f /\ Len(scan'[h].recs) = f - 0
            /\ w[0] = [lsn |-> scan'[h].lsn, view |-> scan'[h].view]
            /\ \A i \in 1..(f - 0) : scan'[h].recs[i] = recs[0 + i]
            /\ \A i \in 1..0 : recs[i].txn <= scan'[h].txn
        BY <1>r, <2>2, <2>5, <2>7, <4>1
      <4> QED BY <2>1, <2>2, <2>7, <2>8, <3>2, <4>2 DEF OpenAt
    <3> QED BY <2>6, <3>1, <3>2
  <2>11. HandleAt(h, w, f)'
    BY <2>6, <2>10 DEF HandleAt, WriterAt, Staged, TxnAt, FoldAt, Resting
  <2> QED BY <1>s, <1>w, <2>1, <2>6, <2>11, TrailKept, LiveStep
<1>4. CASE OpenTruncate(h)
  <2> DEFINE g == sb.gen
             cut == SetLen(log[g], f)
  <2>1. /\ scan[h].gen = g /\ scan[h].floor = acked /\ sb.txn <= scan[h].txn
        /\ scan[h].lsn = sb.seq /\ scan[h].view = base[g].view
        /\ Len(Records(g)) = f + 1 /\ scan[h].valid = f /\ Len(scan[h].recs) = f
        /\ \A i \in 1..f : scan[h].recs[i] = Records(g)[i]
    BY <1>4, <1>w DEF OpenTruncate, HandleAt, OpenAt
  <2>2. Records(g) = log[g] /\ log[g] # None
    BY <1>4, <2>1 DEF OpenTruncate, Records
  <2>3. /\ log' = [log EXCEPT ![g] = cut] /\ synced' = [synced EXCEPT ![g] = Len(cut)]
        /\ pc'[h] = "open_fold" /\ UNCHANGED <<sb, sbDurable, base, scan, acked, used>>
    BY <1>t, <1>4, <2>1 DEF OpenTruncate, ghost
  <2>4. cut \in LogFile /\ Len(cut) = f /\ \A i \in 1..f : cut[i] = Records(g)[i]
    BY <1>r, <2>1, <2>2 DEF SetLen, LogFile
  <2>5. cut # None /\ synced \in [Gens -> Nat]
    BY <2>4, ValuesAssumption DEF TypeOK
  <2> HIDE DEF cut
  <2>6. Records(g)' = cut /\ synced'[g] = f
    BY <1>t, <1>r, <2>3, <2>4, <2>5 DEF Records
  <2>7. Framed(cut, f)
    BY <1>r, <2>4 DEF Framed
  <2>8. Trail(sb.seq, base[g].view, cut, w, f)
    BY <1>r, <2>4, <2>7, TrailCut
  <2>9. Covers(sb.seq, w, f, f, acked, used)
    BY <1>w, <1>r, <2>5, CoversCut DEF SafeTrail
  <2>10. SafeTrail(sb, w, f)'
    BY <2>3, <2>6, <2>8, <2>9 DEF SafeTrail
  <2>11. /\ Len(cut) = f /\ Len(scan[h].recs) = f - 0
         /\ w[0] = [lsn |-> scan[h].lsn, view |-> scan[h].view]
         /\ \A i \in 1..(f - 0) : scan[h].recs[i] = cut[0 + i]
         /\ \A i \in 1..0 : cut[i].txn <= scan[h].txn
    <3>1. w[0] = [lsn |-> scan[h].lsn, view |-> scan[h].view]
      BY <1>r, <2>1
    <3>2. Len(cut) = f /\ Len(scan[h].recs) = f - 0
      BY <2>1, <2>4
    <3>3. \A i \in 1..(f - 0) : scan[h].recs[i] = cut[0 + i]
      BY <2>1, <2>4
    <3> QED BY <3>1, <3>2, <3>3
  <2>12. OpenAt(h, w, f)'
    BY <2>1, <2>3, <2>6, <2>11 DEF OpenAt
  <2>13. HandleAt(h, w, f)'
    BY <2>3, <2>12 DEF HandleAt, WriterAt, Staged, TxnAt, FoldAt, Resting
  <2> QED BY <1>s, <2>3, <2>10, <2>13, LiveStep
<1>5. CASE OpenFold(h)
  <2> DEFINE recs == Records(sb.gen)
             frame == Head(scan[h].recs)
  <2>1. /\ sb' = sb /\ sbDurable' = sb /\ pc'[h] = "open_fold"
        /\ UNCHANGED <<sb, base, log, synced, acked, used>>
    BY <1>t, <1>s, <1>5 DEF OpenFold, disk, ghost
  <2>2. scan[h].gen = sb.gen /\ scan[h].floor = acked /\ sb.txn <= scan[h].txn
    BY <1>5, <1>w DEF OpenFold, HandleAt, OpenAt
  <2>3. PICK k \in 0..f :
         /\ Len(recs) = f /\ Len(scan[h].recs) = f - k
         /\ w[k] = [lsn |-> scan[h].lsn, view |-> scan[h].view]
         /\ \A i \in 1..(f - k) : scan[h].recs[i] = recs[k + i]
         /\ \A i \in 1..k : recs[i].txn <= scan[h].txn
    BY <1>5, <1>w DEF OpenFold, HandleAt, OpenAt
  <2>4. scan[h].recs \in Seq(Frame) /\ scan[h].recs # <<>> /\ scan[h].txn \in Nat
    BY <1>t, <1>5, BoundsAssumption DEF OpenFold, ScanState
  <2>5. /\ k < f /\ Len(Tail(scan[h].recs)) = f - (k + 1)
        /\ \A i \in 1..(f - (k + 1)) : Tail(scan[h].recs)[i] = scan[h].recs[i + 1]
        /\ frame = scan[h].recs[1] /\ frame \in Frame
    BY <2>3, <2>4
  <2>6. frame = recs[k + 1]
    BY <2>3, <2>5
  <2>7. /\ scan'[h].gen = scan[h].gen /\ scan'[h].floor = scan[h].floor
        /\ scan'[h].view = Apply(scan[h].view, frame) /\ scan'[h].lsn = frame.lsn
        /\ scan'[h].txn = Larger(scan[h].txn, frame.txn) /\ scan'[h].recs = Tail(scan[h].recs)
    BY <1>t, <1>5 DEF OpenFold, ScanState
  <2>8. frame.txn \in Nat
    BY <2>5, BoundsAssumption DEF Frame
  <2>9. /\ scan'[h].txn \in Nat /\ scan[h].txn <= scan'[h].txn /\ frame.txn <= scan'[h].txn
    BY <2>4, <2>7, <2>8 DEF Larger
  <2>10. Records(sb.gen)' = recs
    BY <2>1 DEF Records
  <2>p. \A i \in 1..f : recs[i] \in Frame
    BY <1>r, <2>3 DEF LogFile, Framed
  <2> HIDE DEF recs, frame
  <2>11. w[k + 1] = [lsn |-> scan'[h].lsn, view |-> scan'[h].view]
    <3>1. w[k].view = scan[h].view
      BY <2>3
    <3>2. k + 1 \in 1..f /\ (k + 1) - 1 = k
      BY <2>3, <2>5
    <3>3. w[k + 1].lsn = recs[k + 1].lsn /\ w[k + 1].view = Apply(w[(k + 1) - 1].view, recs[k + 1])
      BY <1>r, <3>2 DEF Trail, recs
    <3>4. w[k + 1] = [lsn |-> w[k + 1].lsn, view |-> w[k + 1].view]
      BY <3>2, WalkAt, FrontierParts
    <3> QED BY <2>6, <2>7, <3>1, <3>2, <3>3, <3>4
  <2>12. \A i \in 1..(f - (k + 1)) : scan'[h].recs[i] = recs[(k + 1) + i]
    <3> SUFFICES ASSUME NEW i \in 1..(f - (k + 1)) PROVE scan'[h].recs[i] = recs[(k + 1) + i]
      OBVIOUS
    <3>1. i + 1 \in 1..(f - k) /\ k + (i + 1) = (k + 1) + i
      BY <2>3, <2>5
    <3> QED BY <2>3, <2>5, <2>7, <3>1
  <2>13. \A i \in 1..(k + 1) : recs[i].txn <= scan'[h].txn
    <3> SUFFICES ASSUME NEW i \in 1..(k + 1) PROVE recs[i].txn <= scan'[h].txn
      OBVIOUS
    <3>1. CASE i = k + 1
      BY <2>6, <2>9, <3>1
    <3>2. CASE i \in 1..k
      <4>1. recs[i].txn <= scan[h].txn
        BY <2>3, <3>2
      <4>2. recs[i].txn \in Nat
        <5>1. i \in 1..f
          BY <2>5, <3>2
        <5>2. recs[i] \in Frame
          BY <2>p, <5>1
        <5> QED BY <5>2, BoundsAssumption DEF Frame
      <4> QED BY <2>4, <2>9, <4>1, <4>2
    <3> QED BY <3>1, <3>2
  <2>14. /\ k + 1 \in 0..f /\ Len(scan'[h].recs) = f - (k + 1)
    BY <2>5, <2>7
  <2>15. sb.txn <= scan'[h].txn
    BY <1>r, <2>2, <2>4, <2>9
  <2>16. OpenAt(h, w, f)'
    BY <2>1, <2>2, <2>3, <2>7, <2>10, <2>11, <2>12, <2>13, <2>14, <2>15 DEF OpenAt
  <2>17. HandleAt(h, w, f)'
    BY <2>1, <2>16 DEF HandleAt, WriterAt, Staged, TxnAt, FoldAt, Resting
  <2> QED BY <1>s, <1>w, <2>1, <2>17, TrailKept, LiveStep
<1>6. CASE OpenDone(h)
  <2>1. /\ sb' = sb /\ sbDurable' = sb /\ pc'[h] = "idle" /\ db'[h] = Opened(h)
        /\ UNCHANGED <<sb, base, log, synced, acked, used>>
    BY <1>t, <1>s, <1>6 DEF OpenDone, disk, ghost
  <2>2. Records(sb.gen)' = Records(sb.gen)
    BY <2>1 DEF Records
  <2>3. HandleAt(h, w, f)'
    BY <1>s, <1>w, <1>6, <2>1, <2>2, OpenedAtEnd DEF OpenDone
  <2> QED BY <1>s, <1>w, <2>1, <2>3, TrailKept, LiveStep
<1>7. CASE OpenFail(h)
  <2>1. OpenFails(h)
    BY <1>7 DEF OpenFail
  <2>2. "reopen" \notin Faults
    BY DEF Survivable
  <2>3. scan[h].gen = sb.gen \/ pc[h] = "open_super"
    BY <1>w, <2>1, <2>2 DEF OpenFails, HandleAt, OpenAt
  <2>4. pc[h] = "open_truncate" => log[sb.gen] # None
    BY <1>w, <1>r DEF HandleAt, OpenAt, Records
  <2>5. pc[h] # "open_super"
    BY <1>s, <2>1, <2>2 DEF OpenFails
  <2>6. pc[h] = "open_log"
    BY <1>s, <2>1, <2>2, <2>3, <2>4, <2>5 DEF OpenFails
  <2>7. \E n \in 0..Len(Records(sb.gen)) :
          ValidLen(Records(sb.gen), n) /\ LoudAt(Records(sb.gen), n)
    BY <2>1, <2>2, <2>3, <2>6 DEF OpenFails
  <2> QED BY <1>r, <2>7, TrailReplays
<1> QED BY <1>1, <1>2, <1>3, <1>4, <1>5, <1>6, <1>7 DEF Open

\* The parts of a handle's local state.
LEMMA LocalParts ==
  ASSUME NEW d \in DbState, NEW o \in DeltaState
  PROVE  /\ d.gen \in Gens /\ d.lsn \in Lsns /\ d.lsn \in Nat /\ d.txn \in Txns /\ d.txn \in Nat
         /\ d.view \in Content /\ d.view.next \in Nat
         /\ o.next \in Nat /\ o.add \in SUBSET Nat /\ o.eof \in Nat
<1>1. /\ d.gen \in Gens /\ d.lsn \in Lsns /\ d.txn \in Txns /\ d.view \in Content
      /\ o.next \in 1..(MaxId + 1) /\ o.add \in SUBSET Ids /\ o.eof \in Nat
  BY DEF DbState, DeltaState
<1> QED BY <1>1, BoundsAssumption

\* A write transaction extends the trail by the frame it appends; a failed append cuts
\* the file back to the frontier it started from.
LEMMA WriteDurable ==
  ASSUME Alone, Survivable, TypeOK, InBounds, StoreInv, DurableInv, NEW h \in Handles, Write(h)
  PROVE  DurableInv'
<1> USE DEF CreateSteps, OpenSteps, WriteSteps, FoldSteps, Goto
<1>t. /\ pc \in [Handles -> Pcs] /\ base \in [Gens -> BaseFile \cup {None}]
      /\ log \in [Gens -> LogFile \cup {None}] /\ db \in [Handles -> DbState]
      /\ delta \in [Handles -> DeltaState] /\ synced \in [Gens -> Nat]
      /\ acked \in Frontier /\ used \in SUBSET Ids
  BY DEF TypeOK
<1>d. /\ db[h] \in DbState /\ db[h].lsn \in Lsns /\ db[h].lsn \in Nat /\ db[h].txn \in Nat
      /\ db[h].view \in Content /\ db[h].view.next \in Nat
      /\ delta[h] \in DeltaState /\ delta[h].next \in Nat /\ delta[h].add \in SUBSET Nat
      /\ delta[h].eof \in Nat
  BY <1>t, LocalParts
<1>p. pc[h] \in {"idle", "txn", "append", "sync"}
  BY DEF Write, BeginWrite, CreateElement, TombstoneElement, Rollback, AppendPart, AppendRest,
     CommitSync, AppendFail
<1>s. sb # None /\ sb \in Superblock /\ sbDurable = sb
  BY <1>p, HasSuper DEF Making
<1>w. PICK w \in Walk, f \in Nat : SafeTrail(sb, w, f) /\ HandleAt(h, w, f)
  BY <1>s, LivePick
<1>r. /\ sb.gen \in Gens /\ sb.seq \in Lsns /\ sb.txn \in Nat
      /\ Records(sb.gen) \in LogFile /\ Len(Records(sb.gen)) \in Nat
      /\ Trail(sb.seq, base[sb.gen].view, Records(sb.gen), w, f)
      /\ Framed(Records(sb.gen), f)
      /\ Covers(sb.seq, w, f, synced[sb.gen], acked, used)
      /\ synced[sb.gen] \in Nat
  <2>1. sb.gen \in Gens /\ sb.seq \in Lsns /\ sb.txn \in Nat
    BY <1>s, BoundsAssumption
  <2>2. Records(sb.gen) \in LogFile /\ Len(Records(sb.gen)) \in Nat /\ synced[sb.gen] \in Nat
    BY <1>t, <2>1, RecordsType
  <2> QED BY <1>w, <2>1, <2>2 DEF SafeTrail, Trail
<1>x. \A i \in 1..f : Records(sb.gen)[i] \in Frame /\ Records(sb.gen)[i].txn \in Nat
  <2>1. \A i \in 1..f : Records(sb.gen)[i] \in Frame
    BY <1>r DEF Framed, LogFile
  <2> QED BY <2>1, BoundsAssumption DEF Frame
<1>g. db[h].gen = sb.gen
  BY <1>p, <1>w DEF HandleAt, WriterAt, Resting
<1>n. acked.lsn \in Nat
  BY <1>t, FrontierParts
<1>1. CASE BeginWrite(h)
  <2>1. /\ sb' = sb /\ sbDurable' = sb /\ pc'[h] = "txn" /\ pc[h] = "idle"
        /\ UNCHANGED <<sb, base, log, synced, acked, used>>
    BY <1>t, <1>s, <1>1 DEF BeginWrite, disk, ghost
  <2>2. /\ db'[h].txn = db[h].txn + 1 /\ db'[h].gen = db[h].gen /\ db'[h].lsn = db[h].lsn
        /\ db'[h].view = db[h].view
    BY <1>t, <1>d, <1>1 DEF BeginWrite, DbState
  <2>3. delta'[h].add = {} /\ delta'[h].next = db[h].view.next
    BY <1>t, <1>1 DEF BeginWrite, NoDelta
  <2>4. Records(sb.gen)' = Records(sb.gen)
    BY <2>1 DEF Records
  <2>5. WriterAt(h, w, f)'
    BY <1>w, <2>1, <2>2, <2>4 DEF HandleAt, WriterAt, Resting, Front
  <2>6. sb.txn <= db[h].txn /\ \A i \in 1..f : Records(sb.gen)[i].txn <= db[h].txn
    BY <1>w, <2>1 DEF HandleAt, TxnAt, Resting
  <2>7. sb.txn < db[h].txn + 1 /\ \A i \in 1..f : Records(sb.gen)[i].txn < db[h].txn + 1
    BY SMTT(30), <1>d, <1>r, <1>x, <2>6
  <2>8. sb.txn <= db[h].txn + 1 /\ \A i \in 1..f : Records(sb.gen)[i].txn <= db[h].txn + 1
    BY <1>d, <1>r, <1>x, <2>6
  <2>9. TxnAt(h, f)' /\ Staged(h)'
    BY <1>d, <2>1, <2>2, <2>3, <2>4, <2>7, <2>8 DEF TxnAt, Staged
  <2>10. HandleAt(h, w, f)'
    BY <2>1, <2>5, <2>9 DEF HandleAt, FoldAt, OpenAt
  <2> QED BY <1>s, <1>w, <2>1, <2>10, TrailKept, LiveStep
<1>2. CASE CreateElement(h) \/ TombstoneElement(h)
  <2>1. /\ sb' = sb /\ sbDurable' = sb /\ pc' = pc /\ pc[h] = "txn" /\ db' = db
        /\ UNCHANGED <<sb, base, log, synced, acked, used>>
    BY <1>t, <1>s, <1>2 DEF CreateElement, TombstoneElement, disk, ghost
  <2>2. \/ delta'[h].add = delta[h].add \cup {delta[h].next} /\ delta'[h].next = delta[h].next + 1
        \/ delta'[h].add = delta[h].add /\ delta'[h].next = delta[h].next
    BY <1>t, <1>d, <1>2 DEF CreateElement, TombstoneElement, DeltaState
  <2>3. Records(sb.gen)' = Records(sb.gen)
    BY <2>1 DEF Records
  <2>4. /\ db[h].view.next <= delta[h].next
        /\ \A id \in delta[h].add : db[h].view.next <= id /\ id < delta[h].next
    BY <1>w, <2>1 DEF HandleAt, Staged
  <2>5. Staged(h)'
    BY <1>d, <2>1, <2>2, <2>4 DEF Staged
  <2>6. HandleAt(h, w, f)'
    BY <1>w, <2>1, <2>3, <2>5 DEF HandleAt, WriterAt, TxnAt, FoldAt, OpenAt, Front, Resting
  <2> QED BY <1>s, <1>w, <2>1, <2>6, TrailKept, LiveStep
<1>3. CASE Rollback(h)
  <2>1. /\ sb' = sb /\ sbDurable' = sb /\ pc'[h] = "idle" /\ pc[h] = "txn" /\ db' = db
        /\ UNCHANGED <<sb, base, log, synced, acked, used>>
    BY <1>t, <1>s, <1>3 DEF Rollback, disk, ghost
  <2>2. Records(sb.gen)' = Records(sb.gen)
    BY <2>1 DEF Records
  <2>3. HandleAt(h, w, f)'
    BY <1>w, <2>1, <2>2 DEF HandleAt, WriterAt, Staged, TxnAt, FoldAt, OpenAt, Front, Resting
  <2> QED BY <1>s, <1>w, <2>1, <2>3, TrailKept, LiveStep
<1>4. CASE AppendPart(h)
  <2> DEFINE g == sb.gen
             recs == Records(g)
  <2>1. /\ log' = [log EXCEPT ![g] = Append(recs, Torn)]
        /\ synced' = [synced EXCEPT ![g] = IF log[g] = None THEN 0 ELSE @]
        /\ delta' = [delta EXCEPT ![h].eof = Len(recs)]
        /\ pc[h] = "txn" /\ pc'[h] = "append" /\ UNCHANGED <<sb, sbDurable, base, db, acked, used>>
    BY <1>t, <1>g, <1>4 DEF AppendPart, ghost
  <2>2. Len(recs) = f /\ w[f] = Front(h)
    BY <1>w, <2>1 DEF HandleAt, WriterAt, Resting
  <2>3. /\ Append(recs, Torn) \in LogFile /\ Len(Append(recs, Torn)) = f + 1
        /\ \A i \in 1..f : Append(recs, Torn)[i] = recs[i]
    BY <1>r, <2>2 DEF LogFile
  <2>4. Trail(sb.seq, base[g].view, Append(recs, Torn), w, f)
    BY <1>r, <2>2, TrailTorn
  <2>5. Covers(sb.seq, w, f, synced'[g], acked, used)
    <3>1. CASE log[g] = None
      <4>1. f = 0 /\ synced'[g] = 0
        BY <1>t, <1>r, <2>1, <2>2, <3>1 DEF Records
      <4> QED BY <1>r, <4>1 DEF Covers
    <3>2. CASE log[g] # None
      BY <1>t, <1>r, <2>1, <3>2
    <3> QED BY <3>1, <3>2
  <2>6. Records(g)' = Append(recs, Torn)
    <3>1. Append(recs, Torn) # None
      BY <2>3, ValuesAssumption
    <3> HIDE DEF recs
    <3> QED BY <1>t, <1>r, <2>1, <3>1 DEF Records
  <2>7. SafeTrail(sb, w, f)'
    BY <2>1, <2>4, <2>5, <2>6 DEF SafeTrail
  <2>8. delta'[h].eof = f /\ delta'[h].add = delta[h].add /\ delta'[h].next = delta[h].next
    <3> HIDE DEF recs
    <3> QED BY <1>t, <1>d, <2>1, <2>2 DEF DeltaState
  <2> HIDE DEF recs
  <2>9. WriterAt(h, w, f)'
    BY <1>g, <2>1, <2>2, <2>3, <2>6, <2>8 DEF WriterAt, Front, Resting
  <2>10. sb.txn < db[h].txn /\ \A i \in 1..f : recs[i].txn < db[h].txn
    BY <1>w, <2>1 DEF HandleAt, TxnAt, recs
  <2>11. sb.txn <= db[h].txn /\ \A i \in 1..f : recs[i].txn <= db[h].txn
    BY <1>w, <2>1 DEF HandleAt, TxnAt, recs, Resting
  <2>12. TxnAt(h, f)'
    BY <2>1, <2>3, <2>6, <2>10, <2>11 DEF TxnAt
  <2>13. Staged(h)'
    BY <1>w, <2>1, <2>8 DEF HandleAt, Staged
  <2>14. HandleAt(h, w, f)'
    BY <2>1, <2>9, <2>12, <2>13 DEF HandleAt, FoldAt, OpenAt
  <2> QED BY <1>s, <2>1, <2>7, <2>14, LiveStep
<1>5. CASE AppendRest(h)
  <2> DEFINE g == sb.gen
             recs == Records(g)
             frame == FrameOf(h)
             new == [recs EXCEPT ![f + 1] = frame]
  <2>1. /\ pc[h] = "append" /\ pc'[h] = "sync"
        /\ UNCHANGED <<sb, sbDurable, base, synced, db, delta, acked, used>>
    BY <1>t, <1>5 DEF AppendRest, ghost
  <2>2. Len(recs) = f + 1 /\ delta[h].eof = f /\ w[f] = Front(h)
    BY <1>w, <2>1 DEF HandleAt, WriterAt
  <2>3. recs[f + 1] = Torn
    BY <1>r, <2>2 DEF Framed
  <2>4. log' = [log EXCEPT ![g] = new]
    BY <1>g, <1>5, <2>2, <2>3 DEF AppendRest
  <2>5. frame \in Frame /\ frame.lsn = db[h].lsn + 1 /\ frame.txn = db[h].txn
        /\ frame.add = delta[h].add /\ frame.next = delta[h].next
    <3>1. db[h].lsn + 1 \in Lsns
      BY <1>d, <2>1, BoundsAssumption DEF InBounds
    <3> QED BY <1>d, <3>1 DEF FrameOf, Frame, Lsn, DeltaState, DbState
  <2>6. w[f].lsn = db[h].lsn /\ w[f].view = db[h].view
    BY <2>2 DEF Front
  <2>7. w[f].lsn < frame.lsn
    BY <1>d, <2>5, <2>6
  <2>8. \A id \in frame.add : id < frame.next
    BY <1>w, <2>1, <2>5 DEF HandleAt, Staged
  <2>9. /\ new \in LogFile /\ Len(new) = f + 1 /\ new[f + 1] = frame
        /\ \A i \in 1..f : new[i] = recs[i]
    <3> HIDE DEF frame
    <3> QED BY <1>r, <2>2, <2>5, ExceptSeq DEF LogFile
  <2> HIDE DEF recs, frame
  <2>x. PICK x : x = [lsn |-> frame.lsn, view |-> Apply(w[f].view, frame)]
    OBVIOUS
  <2>v. PICK v : v = [w EXCEPT ![f + 1] = x]
    OBVIOUS
  <2>10. v \in Walk /\ Trail(sb.seq, base[g].view, new, v, f + 1)
    BY ZenonT(60), <1>r, <2>2, <2>5, <2>7, <2>8, <2>x, <2>v, TrailFrame DEF recs
  <2>11. x \in Frontier /\ w[f].view.next <= x.view.next
    <3>1. w[f].view \in Content /\ Bounded(w[f].view)
      BY <1>r, WalkAt DEF Trail
    <3>2. Apply(w[f].view, frame) \in Content /\ w[f].view.next <= Apply(w[f].view, frame).next
      BY <2>5, <2>8, <3>1, ApplyType, ApplyBounded
    <3>3. frame.lsn \in Lsns
      BY <2>5 DEF Frame
    <3> QED BY <2>x, <3>2, <3>3 DEF Frontier
  <2>12. Covers(sb.seq, v, f + 1, synced[g], acked, used)
    BY <1>t, <1>r, <2>11, <2>v, CoversFrame
  <2>13. v[f] = Front(h)
    BY <2>2, <2>v DEF Walk
  <2>14. acked.lsn <= db[h].lsn
    <3>1. acked.lsn <= w[f].lsn
      BY <1>t, <1>r, CoversTop
    <3> QED BY <2>6, <3>1
  <2> HIDE DEF new
  <2>15. Records(g)' = new
    <3>1. new # None
      BY <2>9, ValuesAssumption
    <3> QED BY <1>t, <1>r, <2>1, <2>4, <3>1 DEF Records
  <2>16. SafeTrail(sb, v, f + 1)'
    BY <2>1, <2>10, <2>12, <2>15 DEF SafeTrail
  <2>17. FrameOf(h)' = frame /\ Front(h)' = Front(h)
    BY <2>1 DEF frame, FrameOf, Lsn, Front
  <2>18. (f + 1) - 1 = f /\ f + 1 = delta[h].eof + 1
    BY <2>2
  <2>19. WriterAt(h, v, f + 1)'
    BY <1>g, <2>1, <2>9, <2>13, <2>14, <2>15, <2>17, <2>18 DEF WriterAt, Resting
  <2>20. sb.txn <= db[h].txn /\ \A i \in 1..f : recs[i].txn <= db[h].txn
    BY <1>w, <2>1 DEF HandleAt, TxnAt, recs
  <2>21. \A i \in 1..(f + 1) : new[i].txn <= db[h].txn
    BY <1>d, <2>5, <2>9, <2>20
  <2>22. TxnAt(h, f + 1)'
    BY <2>1, <2>15, <2>20, <2>21 DEF TxnAt, Resting
  <2>23. HandleAt(h, v, f + 1)'
    BY <1>w, <2>1, <2>19, <2>22 DEF HandleAt, Staged, FoldAt, OpenAt
  <2> QED BY <1>s, <2>1, <2>10, <2>16, <2>23, LiveStep
<1>6. CASE CommitSync(h)
  <2> DEFINE g == sb.gen
             recs == Records(g)
             view == Apply(db[h].view, FrameOf(h))
  <2>1. /\ pc[h] = "sync" /\ pc'[h] = "idle" /\ synced' = [synced EXCEPT ![g] = Len(recs)]
        /\ db' = [db EXCEPT ![h].lsn = Lsn(h), ![h].view = view]
        /\ acked' = [lsn |-> Lsn(h), view |-> view] /\ used' = used \cup view.live
        /\ UNCHANGED <<sb, sbDurable, base, log>>
    BY <1>t, <1>g, <1>6 DEF CommitSync
  <2>2. /\ Len(recs) = f /\ f = delta[h].eof + 1 /\ recs[f] = FrameOf(h) /\ w[f - 1] = Front(h)
    BY <1>w, <2>1 DEF HandleAt, WriterAt
  <2>3. f \in 1..f /\ f \in 0..f
    BY <1>d, <2>2
  <2>4. w[f].lsn = Lsn(h) /\ w[f].view = view
    <3>1. w[f].lsn = recs[f].lsn /\ w[f].view = Apply(w[f - 1].view, recs[f])
      BY <1>r, <2>3 DEF Trail
    <3>2. w[f - 1].view = db[h].view
      BY <2>2 DEF Front
    <3>3. FrameOf(h).lsn = Lsn(h)
      BY DEF FrameOf
    <3> QED BY <2>2, <3>1, <3>2, <3>3
  <2>5. acked' = w[f]
    <3>1. w[f] = [lsn |-> w[f].lsn, view |-> w[f].view]
      BY WalkAt, FrontierParts
    <3> HIDE DEF view
    <3> QED BY <2>1, <2>4, <3>1
  <2> HIDE DEF view, recs
  <2>6. /\ db'[h].lsn = Lsn(h) /\ db'[h].view = view /\ db'[h].gen = db[h].gen
        /\ db'[h].txn = db[h].txn
    BY <1>t, <1>d, <2>1 DEF DbState
  <2>7. Records(g)' = recs /\ synced'[g] = f
    BY <1>t, <1>r, <2>1, <2>2 DEF Records, recs
  <2>8. \A id \in used \cup view.live : id < w[f].view.next
    <3>1. \A id \in used : id < w[f].view.next
      BY <1>t, <1>r, CoversTop
    <3>2. Bounded(w[f].view)
      BY <1>r, <2>3 DEF Trail
    <3> QED BY <2>4, <3>1, <3>2 DEF Bounded
  <2>9. \A i \in 0..f : w[f].lsn <= w[i].lsn => i = f
    <3>1. \A i \in 0..f : w[i].lsn \in Nat
      BY WalkAt
    <3> QED BY <1>r, <2>3, <3>1 DEF Trail
  <2>10. Covers(sb.seq, w, f, f, w[f], used \cup view.live)
    BY <2>3, <2>8, <2>9 DEF Covers
  <2>11. SafeTrail(sb, w, f)'
    BY <1>r, <2>1, <2>5, <2>7, <2>10 DEF SafeTrail, recs
  <2>12. w[f] = Front(h)'
    BY <2>1, <2>5, <2>6 DEF Front
  <2>13. WriterAt(h, w, f)'
    BY <1>g, <2>1, <2>2, <2>6, <2>7, <2>12 DEF WriterAt, Resting
  <2>14. TxnAt(h, f)'
    BY <1>w, <2>1, <2>6, <2>7 DEF HandleAt, TxnAt, Resting, recs
  <2>15. HandleAt(h, w, f)'
    BY <2>1, <2>13, <2>14 DEF HandleAt, Staged, FoldAt, OpenAt
  <2> QED BY <1>s, <2>1, <2>11, <2>15, LiveStep
<1>7. CASE AppendFail(h)
  <2>e. PICK e \in Nat : e = delta[h].eof
    BY <1>d
  <2> DEFINE g == sb.gen
             recs == Records(g)
             cut == SetLen(recs, e)
  <2>1. /\ pc[h] \in {"append", "sync"} /\ pc'[h] = "idle"
        /\ log' = [log EXCEPT ![g] = cut] /\ synced' = [synced EXCEPT ![g] = Smaller(@, e)]
        /\ UNCHANGED <<sb, sbDurable, base, db, acked, used>>
    <3>1. "rollback" \notin Faults
      BY DEF Survivable
    <3> QED BY <1>t, <1>g, <1>7, <2>e, <3>1 DEF AppendFail, ghost
  <2>2. /\ e \in 0..f /\ Len(recs) = e + 1 /\ w[e] = Front(h) /\ acked.lsn <= w[e].lsn
    <3>1. CASE pc[h] = "append"
      <4>1. Len(recs) = f + 1 /\ e = f /\ w[f] = Front(h)
        BY <1>w, <2>e, <3>1 DEF HandleAt, WriterAt
      <4>2. acked.lsn <= w[f].lsn
        BY <1>t, <1>r, CoversTop
      <4> QED BY <4>1, <4>2
    <3>2. CASE pc[h] = "sync"
      <4>1. Len(recs) = f /\ f = e + 1 /\ w[f - 1] = Front(h) /\ acked.lsn <= db[h].lsn
        BY <1>w, <2>e, <3>2 DEF HandleAt, WriterAt
      <4>2. f - 1 = e
        BY <1>d, <4>1
      <4> QED BY <1>d, <4>1, <4>2 DEF Front
    <3> QED BY <2>1, <3>1, <3>2
  <2>3. cut \in LogFile /\ Len(cut) = e /\ \A i \in 1..e : cut[i] = recs[i]
    BY <1>d, <1>r, <2>2, SMTT(30) DEF SetLen, LogFile
  <2>4. Smaller(synced[g], e) \in Nat /\ \A m \in 0..e : m <= synced[g] => m <= Smaller(synced[g], e)
    BY <1>d, <1>r DEF Smaller
  <2> HIDE DEF recs, cut
  <2>5. Framed(cut, e)
    BY <1>d, <1>r, <2>2, <2>3 DEF Framed, recs
  <2>6. Trail(sb.seq, base[g].view, cut, w, e)
    BY <1>r, <2>2, <2>3, <2>5, TrailCut DEF recs
  <2>7. Covers(sb.seq, w, e, Smaller(synced[g], e), acked, used)
    BY SMTT(30), <1>t, <1>r, <2>2, <2>4, CoversBack
  <2>8. Records(g)' = cut /\ synced'[g] = Smaller(synced[g], e)
    <3>1. cut # None
      BY <2>3, ValuesAssumption
    <3> QED BY <1>t, <1>r, <2>1, <3>1 DEF Records
  <2>9. SafeTrail(sb, w, e)'
    BY <2>1, <2>6, <2>7, <2>8 DEF SafeTrail
  <2>10. WriterAt(h, w, e)'
    BY <1>g, <2>1, <2>2, <2>3, <2>8 DEF WriterAt, Resting, Front
  <2>11. TxnAt(h, e)'
    BY <1>w, <2>1, <2>2, <2>3, <2>8 DEF HandleAt, TxnAt, Resting, recs
  <2>12. HandleAt(h, w, e)'
    BY <2>1, <2>10, <2>11 DEF HandleAt, Staged, FoldAt, OpenAt
  <2> QED BY <1>s, <1>d, <2>1, <2>9, <2>12, LiveStep
<1> QED BY <1>1, <1>2, <1>3, <1>4, <1>5, <1>6, <1>7 DEF Write

\* A fold leaves the live trail alone until it publishes a base that holds its end; the
\* trail of the superblock a power loss falls back to stays until the next is durable.
LEMMA FoldDurable ==
  ASSUME Alone, Survivable, TypeOK, InBounds, StoreInv, DurableInv, NEW h \in Handles, Fold(h)
  PROVE  DurableInv'
<1> USE DEF CreateSteps, OpenSteps, WriteSteps, FoldSteps, Goto
<1>0. \A k \in Handles : k = h
  BY DEF Alone
<1>t. /\ pc \in [Handles -> Pcs] /\ base \in [Gens -> BaseFile \cup {None}]
      /\ log \in [Gens -> LogFile \cup {None}] /\ db \in [Handles -> DbState]
      /\ synced \in [Gens -> Nat] /\ acked \in Frontier /\ used \in SUBSET Ids
      /\ sb \in Superblock \cup {None}
  BY DEF TypeOK
<1>d. /\ db[h] \in DbState /\ db[h].gen \in Gens /\ db[h].gen \in Nat /\ db[h].lsn \in Lsns
      /\ db[h].txn \in Txns /\ db[h].view \in Content
  BY <1>t, BoundsAssumption DEF DbState
<1>p. pc[h] \in {"idle", "fold_base", "fold_log", "fold_publish", "fold_sync", "open_fold"}
  BY DEF Fold, FoldBegin, FoldBase, FoldLog, FoldPublish, FoldSync, FoldDone, FoldFail
<1>s. sb # None /\ sb \in Superblock /\ (pc[h] # "fold_sync" => sbDurable = sb)
  BY <1>t, <1>p DEF StoreInv, CreateInv, Making, DurableInv, MakeAt
<1>w. PICK w \in Walk, f \in Nat : SafeTrail(sb, w, f) /\ HandleAt(h, w, f)
  BY <1>s, LivePick
<1>r. /\ sb.gen \in Gens /\ sb.seq \in Lsns
      /\ Trail(sb.seq, base[sb.gen].view, Records(sb.gen), w, f)
      /\ Covers(sb.seq, w, f, synced[sb.gen], acked, used)
  BY <1>s, <1>w DEF SafeTrail
<1>n. pc[h] \in {"fold_base", "fold_log", "fold_publish"} =>
        db[h].gen = sb.gen /\ db[h].gen + 1 \in Gens /\ db[h].gen + 1 # sb.gen
  <2>1. pc[h] \in {"fold_base", "fold_log", "fold_publish"} => db[h].gen = sb.gen
    BY <1>w DEF HandleAt, WriterAt, Resting
  <2>2. pc[h] \in {"fold_base", "fold_log", "fold_publish"} => db[h].gen + 1 \in Gens
    BY <1>d, BoundsAssumption DEF InBounds
  <2> QED BY <1>d, <2>1, <2>2
<1>1. CASE FoldBegin(h) \/ FoldFail(h)
  <2>1. pc[h] \in {"idle", "fold_base", "fold_log", "fold_publish"}
    BY <1>1 DEF FoldBegin, FoldFail, Survivable
  <2>2. /\ sb' = sb /\ sbDurable' = sb /\ pc'[h] \in {"idle", "fold_base"} /\ db' = db
        /\ UNCHANGED <<sb, base, log, synced, acked, used>>
    BY <1>t, <1>s, <1>1, <2>1 DEF FoldBegin, FoldFail, disk, ghost
  <2>3. Records(sb.gen)' = Records(sb.gen)
    BY <2>2 DEF Records
  <2>4. HandleAt(h, w, f)'
    BY <1>w, <2>1, <2>2, <2>3 DEF HandleAt, WriterAt, Staged, TxnAt, FoldAt, OpenAt, Front, Resting
  <2> QED BY <1>s, <1>w, <2>2, <2>4, TrailKept, LiveStep
<1>2. CASE FoldBase(h)
  <2>1. /\ pc[h] = "fold_base" /\ pc'[h] = "fold_log" /\ sbDurable' = sb
        /\ base' = [base EXCEPT ![db[h].gen + 1] =
                      [view |-> db[h].view, seq |-> db[h].lsn, txn |-> db[h].txn]]
        /\ UNCHANGED <<sb, log, synced, db, acked, used>>
    BY <1>t, <1>2 DEF FoldBase, SyncDirectory, ghost
  <2>2. base'[sb.gen] = base[sb.gen] /\ BaseWritten(h)'
    BY <1>t, <1>n, <1>r, <2>1 DEF BaseWritten
  <2>3. Records(sb.gen)' = Records(sb.gen)
    BY <2>1 DEF Records
  <2>4. SafeTrail(sb, w, f)'
    BY <1>r, <2>1, <2>2, <2>3 DEF SafeTrail
  <2>5. HandleAt(h, w, f)'
    BY <1>w, <2>1, <2>2, <2>3 DEF HandleAt, WriterAt, Staged, TxnAt, FoldAt, OpenAt, Front, Resting
  <2> QED BY <1>s, <2>1, <2>4, <2>5, LiveStep
<1>3. CASE FoldLog(h)
  <2>1. /\ pc[h] = "fold_log" /\ pc'[h] = "fold_publish" /\ sbDurable' = sb
        /\ log' = [log EXCEPT ![db[h].gen + 1] = <<>>]
        /\ synced' = [synced EXCEPT ![db[h].gen + 1] = 0]
        /\ UNCHANGED <<sb, base, db, acked, used>>
    BY <1>t, <1>3 DEF FoldLog, SyncDirectory, ghost
  <2>2. /\ Records(sb.gen)' = Records(sb.gen) /\ synced'[sb.gen] = synced[sb.gen]
        /\ Records(db[h].gen + 1)' = <<>>
    BY <1>t, <1>n, <1>r, <2>1 DEF Records
  <2>3. BaseWritten(h)'
    BY <1>w, <2>1 DEF HandleAt, FoldAt, BaseWritten
  <2>4. SafeTrail(sb, w, f)'
    BY <1>r, <2>1, <2>2 DEF SafeTrail
  <2>5. HandleAt(h, w, f)'
    BY <1>w, <2>1, <2>2, <2>3 DEF HandleAt, WriterAt, Staged, TxnAt, FoldAt, OpenAt, Front, Resting
  <2> QED BY <1>s, <2>1, <2>4, <2>5, LiveStep
<1>4. CASE FoldPublish(h)
  <2>1. /\ pc[h] = "fold_publish" /\ pc'[h] = "fold_sync"
        /\ sb' = [gen |-> db[h].gen + 1, seq |-> db[h].lsn, txn |-> db[h].txn]
        /\ UNCHANGED <<sbDurable, base, log, synced, db, acked, used>>
    BY <1>t, <1>4 DEF FoldPublish, ghost
  <2>2. BaseWritten(h) /\ Records(db[h].gen + 1) = <<>>
    BY <1>w, <2>1 DEF HandleAt, FoldAt
  <2>3. w[f].lsn = db[h].lsn /\ w[f].view = db[h].view
    BY <1>w, <2>1 DEF HandleAt, WriterAt, Front, Resting
  <2>4. Bounded(db[h].view)
    BY <1>r, <2>3 DEF Trail
  <2>5. PICK v : v = [i \in Nat |-> [lsn |-> db[h].lsn, view |-> db[h].view]]
    OBVIOUS
  <2>6. v \in Walk /\ Trail(db[h].lsn, db[h].view, <<>>, v, 0)
    BY <1>d, <2>4, <2>5, TrailNew
  <2>7. v[0] = w[f]
    <3>1. w[f] = [lsn |-> w[f].lsn, view |-> w[f].view]
      BY WalkAt, FrontierParts
    <3> QED BY <2>3, <2>5, <3>1
  <2>8. synced[db[h].gen + 1] \in Nat
    BY <1>t, <1>n, <2>1
  <2>9. Covers(db[h].lsn, v, 0, synced[db[h].gen + 1], acked, used)
    <3>1. /\ acked.lsn <= w[f].lsn /\ (acked.lsn = w[f].lsn => acked = w[f])
          /\ \A id \in used : id < w[f].view.next
      BY <1>t, <1>r, CoversTop
    <3>2. acked.lsn \in Nat /\ w[f].lsn \in Nat
      BY <1>t, WalkAt, FrontierParts
    <3>3. acked.lsn < db[h].lsn \/ v[0] = acked
      BY <2>3, <2>7, <3>1, <3>2
    <3> QED BY <2>7, <2>8, <3>1, <3>3 DEF Covers
  <2>10. sb'.gen = db[h].gen + 1 /\ sb'.seq = db[h].lsn
    BY <2>1
  <2>11. base'[sb'.gen].view = db[h].view /\ Records(sb.gen)' = <<>>
    BY <2>1, <2>2, <2>10 DEF BaseWritten, Records
  <2>12. SafeTrail(sb, v, 0)'
    BY <2>1, <2>6, <2>9, <2>10, <2>11 DEF SafeTrail
  <2>13. HandleAt(h, v, 0)'
    BY <2>1 DEF HandleAt, WriterAt, Staged, TxnAt, FoldAt, OpenAt, Resting
  <2>14. LiveTrail'
    BY <1>0, <2>6, <2>12, <2>13 DEF LiveTrail
  <2>15. SafeTrail(sbDurable, w, f)'
    BY <1>s, <1>w, <2>1 DEF SafeTrail, Records
  <2>16. Recoverable(sbDurable)'
    BY <2>15 DEF Recoverable
  <2>17. sbDurable' # None /\ MakeAt(h)'
    BY <1>s, <2>1 DEF MakeAt
  <2> QED BY <1>0, <2>14, <2>16, <2>17 DEF DurableInv
<1>5. CASE FoldSync(h)
  <2>1. /\ sbDurable' = sb /\ pc'[h] = "open_super"
        /\ UNCHANGED <<sb, base, log, synced, acked, used>>
    BY <1>t, <1>5 DEF FoldSync, SyncDirectory, ghost
  <2>2. HandleAt(h, w, f)'
    BY <2>1 DEF HandleAt, WriterAt, Staged, TxnAt, FoldAt, OpenAt, Resting
  <2> QED BY <1>s, <1>w, <2>1, <2>2, TrailKept, LiveStep
<1>6. CASE FoldDone(h)
  <2>1. /\ pc[h] = "open_fold" /\ pc'[h] = "idle" /\ db'[h] = Opened(h) /\ scan[h].recs = <<>>
        /\ lock = h /\ UNCHANGED <<sb, sbDurable, synced, acked, used>>
    BY <1>t, <1>6 DEF FoldDone, ghost
  <2>2. sb.gen # db[h].gen
    BY <1>d, <2>1 DEF StoreInv, FoldInv
  <2>3. base'[sb.gen] = base[sb.gen] /\ log'[sb.gen] = log[sb.gen]
    BY <1>t, <1>r, <1>6, <2>2 DEF FoldDone
  <2>4. Records(sb.gen)' = Records(sb.gen)
    BY <2>1, <2>3 DEF Records
  <2>5. SafeTrail(sb, w, f)'
    BY <1>r, <2>1, <2>3, <2>4 DEF SafeTrail
  <2>6. HandleAt(h, w, f)'
    BY <1>s, <1>w, <2>1, <2>4, OpenedAtEnd
  <2> QED BY <1>s, <2>1, <2>5, <2>6, LiveStep
<1> QED BY <1>1, <1>2, <1>3, <1>4, <1>5, <1>6 DEF Fold

\* What a power loss leaves of a framed log is a framed log that keeps its synced frames.
LEMMA SurvivorsFramed ==
  ASSUME NEW recs \in LogFile, NEW f \in Nat, Framed(recs, f), NEW m \in Nat, NEW torn \in BOOLEAN,
         NEW left, left = Survivors(recs, m, torn),
         NEW e, e = IF m >= Len(recs) THEN f ELSE m
  PROVE  /\ e \in 0..f /\ Framed(left, e) /\ \A i \in 1..e : left[i] = recs[i]
         /\ Len(left) \in Nat /\ e <= Len(left)
         /\ \A k \in 0..f : k <= m => k <= e
<1>0. Len(recs) \in Nat
  BY DEF LogFile
<1>1. CASE m >= Len(recs)
  <2>1. left = recs /\ e = f
    BY <1>1 DEF Survivors
  <2> QED BY <1>0, <1>1, <2>1 DEF Framed
<1>2. CASE m < Len(recs)
  <2> DEFINE cut == SubSeq(recs, 1, m)
  <2>1. m <= f /\ e = m
    BY <1>0, <1>2 DEF Framed
  <2>2. /\ cut \in LogFile /\ Len(cut) = m /\ \A i \in 1..m : cut[i] = recs[i]
        /\ Len(Append(cut, Torn)) = m + 1 /\ Append(cut, Torn)[m + 1] = Torn
        /\ \A i \in 1..m : Append(cut, Torn)[i] = recs[i]
    BY <1>0, <1>2 DEF LogFile
  <2> HIDE DEF cut
  <2>3. left = cut \/ left = Append(cut, Torn)
    BY <1>0, <1>2 DEF Survivors, cut
  <2>4. m \in 0..f /\ \A i \in 1..m : recs[i] # Torn
    BY <2>1 DEF Framed
  <2>5. CASE left = cut
    BY <2>1, <2>2, <2>4, <2>5 DEF Framed
  <2>6. CASE left = Append(cut, Torn)
    BY <2>1, <2>2, <2>4, <2>6 DEF Framed
  <2> QED BY <2>3, <2>5, <2>6
<1> QED BY <1>0, <1>1, <1>2

\* Whatever superblock a power loss falls back to, it keeps a trail.
LEMMA LossRecoverable ==
  ASSUME TypeOK, PowerLoss, NEW s \in Superblock, Recoverable(s)
  PROVE  \E w \in Walk : \E f \in Nat : SafeTrail(s, w, f)'
<1>1. PICK w \in Walk, f \in Nat : SafeTrail(s, w, f)
  BY DEF Recoverable
<1>2. PICK extra \in Lsns, torn \in BOOLEAN :
        log' = [g \in Gens |-> IF log[g] = None THEN None
                               ELSE Survivors(log[g], synced[g] + extra, torn)]
  BY DEF PowerLoss
<1>3. /\ s.gen \in Gens /\ synced[s.gen] \in Nat /\ synced[s.gen] + extra \in Nat
      /\ log[s.gen] \in LogFile \cup {None} /\ extra \in Nat
  BY <1>2, BoundsAssumption DEF TypeOK
<1>4. /\ UNCHANGED <<base, acked, used>>
      /\ synced'[s.gen] = IF log'[s.gen] = None THEN 0 ELSE Len(log'[s.gen])
      /\ log'[s.gen] = IF log[s.gen] = None THEN None
                       ELSE Survivors(log[s.gen], synced[s.gen] + extra, torn)
  BY <1>2, <1>3 DEF PowerLoss, ghost
<1>5. /\ Trail(s.seq, base[s.gen].view, Records(s.gen), w, f)
      /\ Covers(s.seq, w, f, synced[s.gen], acked, used) /\ Framed(Records(s.gen), f)
  BY <1>1 DEF SafeTrail, Trail
<1>6. CASE log[s.gen] = None
  <2>1. Records(s.gen)' = Records(s.gen) /\ synced'[s.gen] = 0 /\ f = 0
    BY <1>4, <1>5, <1>6 DEF Records, Framed
  <2>2. Covers(s.seq, w, f, 0, acked, used)
    BY <1>5, <2>1 DEF Covers
  <2>3. SafeTrail(s, w, f)'
    BY <1>4, <1>5, <2>1, <2>2 DEF SafeTrail
  <2> QED BY <2>3
<1>7. CASE log[s.gen] # None
  <2> DEFINE recs == log[s.gen]
             cut == Survivors(recs, synced[s.gen] + extra, torn)
  <2>1. recs \in LogFile /\ Records(s.gen) = recs
    BY <1>3, <1>7 DEF Records
  <2>2. cut \in LogFile /\ cut # None
    BY <1>3, <2>1, SurvivorsType, ValuesAssumption
  <2>m. PICK m \in Nat : m = synced[s.gen] + extra
    BY <1>3
  <2>e. PICK e : e = IF m >= Len(recs) THEN f ELSE m
    OBVIOUS
  <2>3. /\ e \in 0..f /\ Framed(cut, e) /\ \A i \in 1..e : cut[i] = recs[i]
        /\ Len(cut) \in Nat /\ e <= Len(cut)
        /\ \A k \in 0..f : k <= m => k <= e
    <3>1. Framed(recs, f)
      BY <1>5, <2>1
    <3>2. cut = Survivors(recs, m, torn)
      BY <2>m, Zenon
    <3> HIDE DEF recs, cut
    <3> QED BY <2>1, <2>e, <3>1, <3>2, SurvivorsFramed
  <2> HIDE DEF recs, cut
  <2>4. Records(s.gen)' = cut /\ synced'[s.gen] = Len(cut)
    BY <1>4, <1>7, <2>2 DEF Records, recs, cut
  <2>5. Trail(s.seq, base[s.gen].view, cut, w, e)
    BY <1>5, <2>1, <2>3, TrailCut
  <2>6. \A k \in 0..f : k <= synced[s.gen] => k <= e /\ k <= Len(cut)
    BY <1>3, <2>m, <2>3
  <2>7. Covers(s.seq, w, e, Len(cut), acked, used)
    BY <1>3, <1>5, <2>3, <2>6, CoversCut
  <2>8. SafeTrail(s, w, e)'
    BY <1>4, <2>4, <2>5, <2>7 DEF SafeTrail
  <2> QED BY <2>3, <2>8
<1> QED BY <1>6, <1>7

\* A crash of the process or of the machine leaves a superblock with a trail, or a
\* directory in which nothing was ever acknowledged.
LEMMA CrashDurable ==
  ASSUME Alone, Survivable, TypeOK, StoreInv, DurableInv,
         PowerLoss \/ \E h \in Handles : Kill(h) \/ Close(h)
  PROVE  DurableInv'
<1> USE DEF CreateSteps, OpenSteps, WriteSteps, FoldSteps, Goto
<1>1. CASE PowerLoss
  <2>1. /\ sb' \in {sb, sbDurable} /\ sbDurable' = sb' /\ UNCHANGED <<acked, used>>
        /\ \A h \in Handles : pc'[h] = "closed"
    BY <1>1 DEF PowerLoss, ghost
  <2>2. sb' = None => Pristine
    <3>1. sb = None => sbDurable = None
      BY DEF Alone, DurableInv, MakeAt, StoreInv, CreateInv, Making
    <3> QED BY <2>1, <3>1 DEF DurableInv
  <2>3. sb' # None => LiveTrail'
    <3> SUFFICES ASSUME sb' # None PROVE LiveTrail'
      OBVIOUS
    <3>1. PICK s \in Superblock : s = sb'
      BY <2>1 DEF TypeOK
    <3>2. Recoverable(s)
      BY <2>1, <3>1 DEF DurableInv, LiveTrail, Recoverable
    <3>3. PICK w \in Walk, f \in Nat : SafeTrail(s, w, f)'
      BY <1>1, <3>2, LossRecoverable
    <3>4. SafeTrail(sb, w, f)'
      BY <3>1, <3>3 DEF SafeTrail
    <3>5. \A h \in Handles : HandleAt(h, w, f)'
      BY <2>1 DEF HandleAt, WriterAt, Staged, TxnAt, FoldAt, OpenAt, Resting
    <3> QED BY <3>4, <3>5 DEF LiveTrail
  <2>4. sb' # None => Recoverable(sbDurable)'
    BY <2>1, <2>3 DEF LiveTrail, Recoverable, SafeTrail
  <2>5. \A h \in Handles : MakeAt(h)'
    BY <2>1 DEF MakeAt
  <2> QED BY <2>1, <2>2, <2>3, <2>4, <2>5 DEF DurableInv, Pristine
<1>2. ASSUME NEW h \in Handles, Kill(h) \/ Close(h) PROVE DurableInv'
  <2>1. pc[h] \notin {"create_sync", "fold_sync"}
    BY <1>2 DEF Kill, Close, Survivable
  <2>2. pc \in [Handles -> Pcs]
    BY DEF TypeOK
  <2>3. /\ UNCHANGED <<sb, base, log, synced, acked, used>> /\ sbDurable' = sbDurable
        /\ sbDurable = sb /\ pc'[h] = "closed"
    BY <1>2, <2>1, <2>2 DEF Kill, Close, disk, ghost, DurableInv, MakeAt
  <2>4. CASE sb = None
    BY <2>3, <2>4 DEF DurableInv, MakeAt, Pristine, Alone
  <2>5. CASE sb # None
    <3>1. PICK w \in Walk, f \in Nat : SafeTrail(sb, w, f)
      BY <2>5, LivePick
    <3>2. HandleAt(h, w, f)'
      BY <2>3 DEF HandleAt, WriterAt, Staged, TxnAt, FoldAt, OpenAt, Resting
    <3> QED BY <2>3, <2>5, <3>1, <3>2, TrailKept, LiveStep
  <2> QED BY <2>4, <2>5
<1> QED BY <1>1, <1>2

-----------------------------------------------------------------------------
(* What follows from it *)

\* The trails are an invariant of a store with one handle and survivable failures.
LEMMA DurableInvariant == ASSUME Alone, Survivable PROVE Spec => []DurableInv
<1>0. "race" \notin Faults
  BY DEF Survivable
<1>1. Init => DurableInv
  <2> SUFFICES ASSUME Init PROVE DurableInv
    OBVIOUS
  <2>1. sb = None /\ sbDurable = None /\ Pristine /\ \A h \in Handles : pc[h] = "closed"
    BY DEF Init, Pristine
  <2> QED BY <2>1 DEF DurableInv, MakeAt
<1>2. TypeOK /\ InBounds /\ StoreInv /\ DurableInv /\ [Next]_vars => DurableInv'
  <2> SUFFICES ASSUME TypeOK, InBounds, StoreInv, DurableInv, [Next]_vars PROVE DurableInv'
    OBVIOUS
  <2>1. CASE UNCHANGED vars
    <3>1. UNCHANGED <<sb, sbDurable, base, log, synced, pc, db, delta, scan, acked, used>>
      BY <2>1 DEF vars, disk, ghost
    <3>2. \A g : Records(g)' = Records(g)
      BY <3>1 DEF Records
    <3>3. \A s, w, f : SafeTrail(s, w, f) => SafeTrail(s, w, f)'
      BY <3>1, <3>2 DEF SafeTrail
    <3>4. ASSUME NEW h, NEW w, NEW f, HandleAt(h, w, f) PROVE HandleAt(h, w, f)'
      <4>1. Front(h)' = Front(h) /\ FrameOf(h)' = FrameOf(h)
        BY <3>1 DEF Front, FrameOf, Lsn
      <4>2. WriterAt(h, w, f)'
        BY <3>1, <3>2, <3>4, <4>1 DEF HandleAt, WriterAt
      <4>3. Staged(h)' /\ TxnAt(h, f)'
        BY <3>1, <3>2, <3>4 DEF HandleAt, Staged, TxnAt
      <4>4. FoldAt(h)'
        BY <3>1, <3>2, <3>4 DEF HandleAt, FoldAt, BaseWritten
      <4>5. OpenAt(h, w, f)'
        BY <3>1, <3>2, <3>4 DEF HandleAt, OpenAt
      <4> QED BY <4>2, <4>3, <4>4, <4>5 DEF HandleAt
    <3>5. \A h : MakeAt(h) => MakeAt(h)'
      BY <3>1, <3>2 DEF MakeAt
    <3>6. LiveTrail => LiveTrail'
      BY <3>1, <3>3, <3>4 DEF LiveTrail, SafeTrail
    <3>7. Recoverable(sbDurable) => Recoverable(sbDurable)'
      BY <3>1, <3>3 DEF Recoverable, SafeTrail
    <3> QED BY <3>1, <3>5, <3>6, <3>7 DEF DurableInv, Pristine
  <2>2. CASE PowerLoss
    BY <2>2, CrashDurable
  <2>3. ASSUME NEW h \in Handles, Handle(h) PROVE DurableInv'
    BY <2>3, CreateDurable, OpenDurable, WriteDurable, FoldDurable, CrashDurable DEF Handle
  <2> QED BY <2>1, <2>2, <2>3 DEF Next
<1> QED BY <1>0, <1>1, <1>2, TypeInductive, StoreInvariant, PTL DEF Spec

\* One handle, any number of crashes between any two file operations, any torn append:
\* an open that has folded its last frame is at the acknowledged frontier, with the
\* acknowledged view, or above it.
THEOREM AckedRecovered == Alone /\ Survivable => (Spec => []RecoveredAcked)
<1> SUFFICES ASSUME Alone, Survivable PROVE Spec => []RecoveredAcked
  OBVIOUS
<1>0. "race" \notin Faults
  BY DEF Survivable
<1>1. TypeOK /\ StoreInv /\ DurableInv => RecoveredAcked
  <2> SUFFICES ASSUME TypeOK, StoreInv, DurableInv, NEW h \in Handles, pc[h] = "open_fold",
                      scan[h].recs = <<>>
      PROVE  /\ scan[h].lsn >= scan[h].floor.lsn
             /\ scan[h].lsn = scan[h].floor.lsn => scan[h].view = scan[h].floor.view
    BY DEF RecoveredAcked
  <2>1. sb # None /\ sb \in Superblock
    BY HasSuper DEF Making
  <2>2. PICK w \in Walk, f \in Nat : SafeTrail(sb, w, f) /\ HandleAt(h, w, f)
    BY <2>1, LivePick
  <2>3. scan[h].floor = acked
    BY <2>2 DEF HandleAt, OpenAt, OpenSteps
  <2>4. PICK k \in 0..f : Len(scan[h].recs) = f - k /\ w[k] = [lsn |-> scan[h].lsn, view |-> scan[h].view]
    BY <2>2 DEF HandleAt, OpenAt
  <2>5. k = f
    BY <2>4
  <2>6. acked \in Frontier /\ sb.seq \in Lsns
    BY <2>1 DEF TypeOK
  <2>7. acked.lsn <= w[f].lsn /\ (acked.lsn = w[f].lsn => acked = w[f])
    BY ZenonT(60), <2>2, <2>6, CoversTop DEF SafeTrail
  <2>8. w[f].lsn = scan[h].lsn /\ w[f].view = scan[h].view
    BY <2>4, <2>5
  <2>9. acked.lsn \in Nat /\ w[f].lsn \in Nat
    BY <2>6, FrontierParts, WalkAt
  <2> QED BY <2>3, <2>7, <2>8, <2>9
<1> QED BY <1>0, <1>1, TypeInductive, StoreInvariant, DurableInvariant, PTL

\* No crash and no failed append leaves a live log that Db::open refuses with LogCorrupt.
THEOREM LogsReplay == Alone /\ Survivable => (Spec => []LogReplayable)
<1> SUFFICES ASSUME Alone, Survivable PROVE Spec => []LogReplayable
  OBVIOUS
<1>1. TypeOK /\ DurableInv => LogReplayable
  <2> SUFFICES ASSUME TypeOK, DurableInv, sb # None, NEW n \in 0..Len(Records(sb.gen)),
                      ValidLen(Records(sb.gen), n)
      PROVE  ~LoudAt(Records(sb.gen), n)
    BY DEF LogReplayable
  <2>1. PICK w \in Walk, f \in Nat : SafeTrail(sb, w, f)
    BY DEF DurableInv, LiveTrail
  <2>2. sb.gen \in Gens /\ log \in [Gens -> LogFile \cup {None}]
    BY DEF TypeOK
  <2>3. Records(sb.gen) \in LogFile
    BY <2>2, RecordsType
  <2> QED BY <2>1, <2>3, TrailReplays DEF SafeTrail
<1> QED BY <1>1, TypeInductive, DurableInvariant, PTL

\* No id comes back: a transaction stages no element id that an acknowledged commit has
\* ever published, and its own id is above every one on disk, whatever tombstone, fold,
\* rollback, crash and reopen lies between.
THEOREM RetiredIds == Alone /\ Survivable => (Spec => []IdsRetired)
<1> SUFFICES ASSUME Alone, Survivable PROVE Spec => []IdsRetired
  OBVIOUS
<1>0. "race" \notin Faults
  BY DEF Survivable
<1>1. TypeOK /\ StoreInv /\ DurableInv => NoIdReuse
  <2> SUFFICES ASSUME TypeOK, StoreInv, DurableInv, NEW h \in Handles, pc[h] \in WriteSteps,
                      NEW id \in delta[h].add, id \in used
      PROVE  FALSE
    BY DEF NoIdReuse
  <2>1. sb # None /\ sb \in Superblock
    BY HasSuper DEF Making, WriteSteps
  <2>2. PICK w \in Walk, f \in Nat : SafeTrail(sb, w, f) /\ HandleAt(h, w, f)
    BY <2>1, LivePick
  <2>3. acked \in Frontier /\ sb.seq \in Lsns /\ db[h] \in DbState /\ delta[h] \in DeltaState
    BY <2>1 DEF TypeOK
  <2>4. \E e \in 0..f : w[e] = Front(h) /\ acked.lsn <= w[e].lsn
    <3>1. CASE pc[h] \in {"txn", "append"}
      <4>1. w[f] = Front(h)
        BY <2>2, <3>1 DEF HandleAt, WriterAt, Resting
      <4>2. acked.lsn <= w[f].lsn
        BY <2>2, <2>3, CoversTop DEF SafeTrail
      <4> QED BY <4>1, <4>2
    <3>2. CASE pc[h] = "sync"
      <4>1. f = delta[h].eof + 1 /\ w[f - 1] = Front(h) /\ acked.lsn <= db[h].lsn
        BY <2>2, <3>2 DEF HandleAt, WriterAt
      <4>2. f - 1 \in 0..f
        BY <2>3, <4>1, LocalParts
      <4> QED BY <4>1, <4>2 DEF Front
    <3> QED BY <3>1, <3>2 DEF WriteSteps
  <2>5. id < db[h].view.next
    BY <2>2, <2>4 DEF SafeTrail, Covers, Front
  <2>6. db[h].view.next <= id
    BY <2>2 DEF HandleAt, Staged
  <2> QED BY <2>3, <2>5, <2>6, LocalParts
<1>2. TypeOK /\ StoreInv /\ DurableInv => TxnIdFresh
  <2> SUFFICES ASSUME TypeOK, StoreInv, DurableInv, NEW h \in Handles, pc[h] = "txn"
      PROVE  /\ db[h].txn > sb.txn
             /\ \A i \in DOMAIN Records(db[h].gen) :
                  Records(db[h].gen)[i] # Torn => Records(db[h].gen)[i].txn < db[h].txn
    BY DEF TxnIdFresh
  <2>1. sb # None /\ sb \in Superblock
    BY HasSuper DEF Making
  <2>2. PICK w \in Walk, f \in Nat : SafeTrail(sb, w, f) /\ HandleAt(h, w, f)
    BY <2>1, LivePick
  <2>3. db[h].gen = sb.gen /\ Len(Records(sb.gen)) = f
    BY <2>2 DEF HandleAt, WriterAt, Resting
  <2>4. sb.txn < db[h].txn /\ \A i \in 1..f : Records(sb.gen)[i].txn < db[h].txn
    BY <2>2 DEF HandleAt, TxnAt
  <2>5. sb.gen \in Gens /\ sb.txn \in Nat /\ log \in [Gens -> LogFile \cup {None}] /\ db[h].txn \in Nat
    BY <2>1, BoundsAssumption, LocalParts DEF TypeOK
  <2>6. DOMAIN Records(sb.gen) = 1..f
    BY <2>3, <2>5, RecordsType DEF LogFile
  <2> QED BY <2>3, <2>4, <2>5, <2>6
<1> QED BY <1>0, <1>1, <1>2, TypeInductive, StoreInvariant, DurableInvariant, PTL DEF IdsRetired

-----------------------------------------------------------------------------
(* Replay *)

\* The fold over a log that has a trail ends where the trail does.
LEMMA ReplayedTrail ==
  ASSUME NEW seq, NEW view, NEW recs, NEW w \in Walk, NEW f \in Nat, NEW n \in Nat,
         Len(recs) \in Nat, n <= Len(recs), Trail(seq, view, recs, w, f)
  PROVE  Replayed(seq, view, recs, n) = w[IF n <= f THEN n ELSE f]
<1> DEFINE Def(u) == [i \in 0..n |->
                        IF i = 0 THEN [lsn |-> seq, view |-> view]
                        ELSE IF recs[i] = Torn THEN u[i - 1]
                        ELSE [lsn |-> recs[i].lsn, view |-> Apply(u[i - 1].view, recs[i])]]
           v == [i \in 0..n |-> w[IF i <= f THEN i ELSE f]]
           upto == CHOOSE u : u = Def(u)
<1>1. v = Def(v)
  <2> SUFFICES ASSUME NEW i \in 0..n
      PROVE  v[i] = IF i = 0 THEN [lsn |-> seq, view |-> view]
                    ELSE IF recs[i] = Torn THEN v[i - 1]
                    ELSE [lsn |-> recs[i].lsn, view |-> Apply(v[i - 1].view, recs[i])]
    OBVIOUS
  <2>1. CASE i = 0
    BY <2>1 DEF Trail
  <2>2. CASE i # 0 /\ i <= f
    <3>1. i \in 1..f /\ i - 1 \in 0..n /\ i - 1 <= f
      BY <2>2
    <3>2. recs[i] # Torn /\ w[i].lsn = recs[i].lsn /\ w[i].view = Apply(w[i - 1].view, recs[i])
      BY <3>1 DEF Trail, Framed
    <3>3. w[i] = [lsn |-> w[i].lsn, view |-> w[i].view]
      BY <3>1, FrontierParts DEF Walk
    <3>4. v[i] = w[i] /\ v[i - 1] = w[i - 1]
      BY <2>2, <3>1
    <3> QED BY <2>2, <3>2, <3>3, <3>4
  <2>3. CASE i > f
    <3>1. i = f + 1 /\ recs[i] = Torn
      BY <2>3 DEF Trail, Framed
    <3>2. v[i] = w[f] /\ v[i - 1] = w[f]
      BY <2>3, <3>1
    <3> QED BY <2>3, <3>1, <3>2
  <2> QED BY <2>1, <2>2, <2>3
<1> HIDE DEF v
<1>2. upto = Def(upto)
  <2>1. \E u : u = Def(u)
    BY <1>1
  <2> QED BY <2>1
<1>3. Replayed(seq, view, recs, n) = upto[n]
  BY DEF Replayed
<1> HIDE DEF upto
<1>4. ASSUME NEW k \in 0..n, upto[k] # v[k] PROVE FALSE
  <2> DEFINE T == {i \in 0..n : upto[i] # v[i]}
  <2>1. PICK i \in T : \A j \in T : i <= j
    <3>1. T \in SUBSET Nat /\ T # {}
      BY <1>4
    <3> HIDE DEF T
    <3> QED BY <3>1, LeastMember
  <2>2. i # 0 => upto[i - 1] = v[i - 1]
    BY <2>1
  <2>3. upto[i] = Def(upto)[i] /\ v[i] = Def(v)[i]
    BY <1>1, <1>2
  <2>4. Def(upto)[i] = Def(v)[i]
    BY <2>1, <2>2
  <2> QED BY <2>1, <2>3, <2>4
<1>5. v[n] = w[IF n <= f THEN n ELSE f]
  BY DEF v
<1> QED BY <1>3, <1>4, <1>5

-----------------------------------------------------------------------------
(***************************************************************************)
(* The inductive invariant                                                 *)
(*                                                                         *)
(* The abstract frontier is made of the synced records only, so the        *)
(* invariant says which these are: all of them, but for the record of a    *)
(* commit under way.  A process that dies after the last byte of a record  *)
(* and before its sync would leave one more, which the next open shows and *)
(* a power loss still takes away; deaths of the process alone are excluded *)
(* here, and covered by the theorems of OxgStore_proofs.                   *)
(***************************************************************************)

Mild == Survivable /\ "kill" \notin Faults

\* All records are synced, but for the one of a commit that changes something.
SyncedAt(h) ==
  /\ pc[h] \notin {"append", "sync"} =>
       \A s \in {sb, sbDurable} : s # None => synced[s.gen] = Len(Records(s.gen))
  /\ pc[h] \in {"append", "sync"} => synced[sb.gen] = delta[h].eof /\ Dirty(h)
  /\ pc[h] = "create_publish" => synced[0] = 0
  /\ pc[h] = "fold_publish" => synced[db[h].gen + 1] = 0

\* A transaction tombstones what it sees.
DropsAt(h) ==
  pc[h] \in WriteSteps => delta[h].del \subseteq db[h].view.live \cup delta[h].add

\* Until the directory is synced, the old generation stands for what was folded.
FoldedAt(h) == pc[h] = "fold_sync" => sbDurable # None /\ OnDisk(sbDurable) = Front(h)

\* A creation that has renamed its superblock has written an empty store.
MadeAt(h) ==
  pc[h] = "create_sync" =>
    /\ sbDurable = None /\ sb = [gen |-> 0, seq |-> 0, txn |-> 0]
    /\ base[0] = Published0 /\ Records(0) = <<>>

RefineInv == \A h \in Handles : SyncedAt(h) /\ DropsAt(h) /\ FoldedAt(h) /\ MadeAt(h)

Safe == TypeOK /\ InBounds /\ StoreInv /\ DurableInv /\ ReopenInv /\ RefineInv

\* An open handle serves what a reopen would find.
Current == seen # None => durable # None /\ seen = durable

\* The files of a superblock, all of whose records are synced, stand for the end of
\* its trail.
LEMMA DiskEnd ==
  ASSUME TypeOK, NEW s \in Superblock, NEW w \in Walk, NEW f \in Nat, SafeTrail(s, w, f),
         synced[s.gen] <= Len(Records(s.gen))
  PROVE  /\ OnDisk(s) = w[IF synced[s.gen] <= f THEN synced[s.gen] ELSE f]
         /\ synced[s.gen] = Len(Records(s.gen)) => OnDisk(s) = w[f]
<1>1. s.gen \in Gens /\ synced[s.gen] \in Nat /\ log \in [Gens -> LogFile \cup {None}]
  BY DEF TypeOK
<1>2. Len(Records(s.gen)) \in Nat
  BY <1>1, RecordsType DEF LogFile
<1>3. Trail(s.seq, base[s.gen].view, Records(s.gen), w, f) /\ f <= Len(Records(s.gen))
  BY DEF SafeTrail, Trail, Framed
<1>4. OnDisk(s) = w[IF synced[s.gen] <= f THEN synced[s.gen] ELSE f]
  BY <1>1, <1>2, <1>3, ReplayedTrail DEF OnDisk
<1>5. synced[s.gen] = Len(Records(s.gen)) => (IF synced[s.gen] <= f THEN synced[s.gen] ELSE f) = f
  BY <1>1, <1>3
<1> QED BY <1>4, <1>5

\* With one handle there is no other.
LEMMA OnlyHandle == ASSUME Alone, NEW h \in Handles PROVE handle = h /\ \A k \in Handles : k = h
<1>1. \A k \in Handles : k = h
  BY DEF Alone
<1>2. handle \in Handles
  BY DEF handle
<1> QED BY <1>1, <1>2

\* Once published, a folded generation stands for what the handle holds.
LEMMA FoldedDisk ==
  ASSUME Alone, Safe, NEW h \in Handles, lock = h, pc[h] \in {"fold_sync"} \cup OpenSteps
  PROVE  sb # None /\ OnDisk(sb) = Front(h)
<1> USE DEF OpenSteps
<1>1. TypeOK /\ DurableInv /\ SyncedAt(h) /\ ReopenAt(h)
  BY DEF Safe, RefineInv, ReopenInv
<1>2. sb # None /\ sb \in Superblock
  BY <1>1 DEF Safe, StoreInv, CreateInv, Making, TypeOK
<1>3. PICK w \in Walk, f \in Nat : SafeTrail(sb, w, f) /\ HandleAt(h, w, f)
  BY <1>1, <1>2, LivePick
<1>4. /\ sb.gen = db[h].gen + 1 /\ sb.seq = db[h].lsn /\ base[sb.gen].view = db[h].view
      /\ Blank(Records(sb.gen))
  BY <1>1 DEF ReopenAt, BaseWritten, LogWritten, Published
<1>5. w[0] = [lsn |-> sb.seq, view |-> base[sb.gen].view] /\ Framed(Records(sb.gen), f)
  BY <1>3 DEF SafeTrail, Trail
<1>6. Records(sb.gen) \in LogFile
  BY <1>1, <1>2, RecordsType DEF TypeOK
<1>7. f = 0
  BY <1>4, <1>5, <1>6 DEF Framed, Blank, LogFile
<1>8. synced[sb.gen] = Len(Records(sb.gen)) /\ Len(Records(sb.gen)) \in Nat
  BY <1>1, <1>2, <1>6 DEF SyncedAt, LogFile
<1>9. OnDisk(sb) = w[f]
  BY <1>1, <1>2, <1>3, <1>8, DiskEnd
<1> QED BY <1>2, <1>4, <1>5, <1>7, <1>9 DEF Front

\* An open handle's frontier is the one the durable files stand for: at rest, with a
\* commit half written, and from the publication of a fold to the end of its reopen.
LEMMA Serves == Alone /\ Safe => Current
<1> SUFFICES ASSUME Alone, Safe, seen # None PROVE durable # None /\ seen = durable
  BY DEF Current
<1> USE DEF CreateSteps, OpenSteps, WriteSteps, FoldSteps, Resting
<1>h. PICK h \in Handles : \A k \in Handles : k = h
  BY DEF Alone
<1>0. handle = h
  BY <1>h, OnlyHandle
<1>1. Serving(h) /\ seen = Front(h)
  BY <1>0 DEF seen, Front
<1>2. /\ TypeOK /\ StoreInv /\ DurableInv /\ SyncedAt(h) /\ FoldedAt(h)
      /\ (lock = h => ReopenAt(h))
  BY DEF Safe, RefineInv, ReopenInv
<1>3. Front(h) \in Frontier
  BY <1>2 DEF TypeOK, DbState, Front, Frontier
<1>4. /\ pc[h] \in {"idle"} \cup WriteSteps \cup FoldSteps \cup OpenSteps
      /\ pc[h] \in OpenSteps => lock = h
  BY <1>1 DEF Serving
<1>5. sbDurable # None /\ OnDisk(sbDurable) = Front(h)
  <2>1. CASE pc[h] = "fold_sync"
    BY <1>2, <2>1 DEF FoldedAt
  <2>2. CASE pc[h] # "fold_sync"
    <3>1. sb # None /\ sb \in Superblock /\ sbDurable = sb
      BY <1>2, <1>4, <2>2, HasSuper DEF Making
    <3>2. PICK w \in Walk, f \in Nat : SafeTrail(sb, w, f) /\ HandleAt(h, w, f)
      BY <1>2, <3>1, LivePick
    <3>3. sb.gen \in Gens /\ synced[sb.gen] \in Nat /\ delta[h].eof \in Nat
      BY <1>2, <3>1 DEF TypeOK, DeltaState
    <3>4. CASE pc[h] \in Resting
      <4>1. w[f] = Front(h) /\ synced[sb.gen] = Len(Records(sb.gen)) /\ Len(Records(sb.gen)) = f
        BY <1>2, <3>1, <3>2, <3>4 DEF HandleAt, WriterAt, SyncedAt
      <4> QED BY <1>2, <3>1, <3>2, <4>1, DiskEnd
    <3>5. CASE pc[h] = "append"
      <4>1. w[f] = Front(h) /\ synced[sb.gen] = f /\ Len(Records(sb.gen)) = f + 1
        BY <1>2, <3>1, <3>2, <3>5 DEF HandleAt, WriterAt, SyncedAt
      <4> QED BY <1>2, <3>1, <3>2, <4>1, DiskEnd
    <3>6. CASE pc[h] = "sync"
      <4>1. w[f - 1] = Front(h) /\ synced[sb.gen] = f - 1 /\ Len(Records(sb.gen)) = f
        BY <1>2, <3>1, <3>2, <3>3, <3>6 DEF HandleAt, WriterAt, SyncedAt
      <4>2. f - 1 <= f /\ synced[sb.gen] <= Len(Records(sb.gen))
        BY <4>1
      <4>3. OnDisk(sb) = w[f - 1]
        BY <1>2, <3>1, <3>2, <4>1, <4>2, DiskEnd
      <4> QED BY <3>1, <4>1, <4>3
    <3>7. CASE pc[h] \in OpenSteps
      BY <1>4, <3>1, <3>7, FoldedDisk
    <3> QED BY <1>4, <2>2, <3>4, <3>5, <3>6, <3>7
  <2> QED BY <2>1, <2>2
<1>6. durable = Front(h)
  BY <1>5 DEF durable
<1> QED BY <1>1, <1>6

-----------------------------------------------------------------------------
(* The invariant after a step *)

\* The superblock of a store whose handle is past its creation and outside the window
\* between a rename and its fsync.
LEMMA OneSuper ==
  ASSUME Alone, Safe, NEW h \in Handles,
         pc[h] \notin {"closed", "create_sync", "fold_sync"} \cup Making
  PROVE  /\ sb # None /\ sb \in Superblock /\ sbDurable = sb /\ sb.gen \in Gens
         /\ synced[sb.gen] \in Nat /\ Records(sb.gen) \in LogFile
         /\ \E w \in Walk : \E f \in Nat : SafeTrail(sb, w, f) /\ HandleAt(h, w, f)
<1>1. TypeOK /\ StoreInv /\ DurableInv
  BY DEF Safe
<1>2. sb # None /\ sb \in Superblock /\ sbDurable = sb
  BY <1>1, HasSuper
<1>3. sb.gen \in Gens /\ synced[sb.gen] \in Nat /\ log \in [Gens -> LogFile \cup {None}]
  BY <1>1, <1>2 DEF TypeOK
<1> QED BY <1>1, <1>2, <1>3, RecordsType, LivePick

\* Db::create leaves an empty log, with nothing in it to sync.
LEMMA CreateRefine ==
  ASSUME Alone, Mild, Safe, NEW h \in Handles, Create(h)
  PROVE  RefineInv'
<1> USE DEF CreateSteps, OpenSteps, WriteSteps, FoldSteps, Goto
<1>0. /\ \A k \in Handles : k = h
      /\ pc \in [Handles -> Pcs] /\ synced \in [Gens -> Nat] /\ 0 \in Gens
      /\ log \in [Gens -> LogFile \cup {None}]
      /\ SyncedAt(h) /\ MakeAt(h)
  BY BoundsAssumption DEF Alone, Safe, TypeOK, RefineInv, DurableInv
<1>m. pc[h] \in Making => sb = None /\ sbDurable = None
  BY <1>0 DEF Safe, StoreInv, CreateInv, MakeAt, Making
<1>1. pc'[h] \notin WriteSteps \cup {"fold_sync", "fold_publish"}
  BY <1>0 DEF Create, CreateCheck, CreateBase, CreateLog, CreatePublish, CreateSync, CreateFail
<1>2. SyncedAt(h)'
  <2>1. CASE CreateCheck(h)
    BY <1>0, <1>1, <2>1 DEF CreateCheck, SyncedAt, MakeAt, disk
  <2>2. CASE CreateBase(h)
    BY <1>0, <1>1, <1>m, <2>2 DEF CreateBase, SyncDirectory, SyncedAt, Making
  <2>3. CASE CreateLog(h)
    BY <1>0, <1>1, <1>m, <2>3 DEF CreateLog, SyncDirectory, SyncedAt, Making
  <2>4. CASE CreatePublish(h)
    <3>1. synced[0] = 0 /\ Records(0) = <<>>
      BY <1>0, <2>4 DEF CreatePublish, SyncedAt, MakeAt
    <3>2. sb'.gen = 0 /\ sbDurable' = None /\ synced' = synced /\ log' = log /\ pc'[h] = "create_sync"
      BY <1>0, <1>m, <2>4 DEF CreatePublish, Making
    <3> QED BY <3>1, <3>2 DEF SyncedAt, Records
  <2>5. CASE CreateSync(h)
    <3>1. /\ sb' = sb /\ sbDurable' = sb /\ synced' = synced /\ log' = log /\ pc[h] = "create_sync"
          /\ pc'[h] = "open_super"
      BY <1>0, <2>5 DEF CreateSync, SyncDirectory
    <3> QED BY <1>0, <3>1 DEF SyncedAt, Records
  <2>6. CASE CreateFail(h)
    <3>1. pc[h] \in Making
      BY <2>6 DEF CreateFail, Mild, Survivable, Making
    <3> QED BY <1>0, <1>1, <1>m, <2>6, <3>1 DEF CreateFail, SyncedAt, disk
  <2> QED BY <2>1, <2>2, <2>3, <2>4, <2>5, <2>6 DEF Create
<1>3. MadeAt(h)'
  <2>1. CASE CreatePublish(h)
    <3>1. base[0] = Published0 /\ Records(0) = <<>> /\ sbDurable = None
      BY <1>0, <1>m, <2>1 DEF CreatePublish, MakeAt, Making
    <3> QED BY <2>1, <3>1 DEF CreatePublish, MadeAt, Records
  <2>2. CASE ~CreatePublish(h)
    BY <1>0, <2>2 DEF Create, CreateCheck, CreateBase, CreateLog, CreateSync, CreateFail, MadeAt
  <2> QED BY <2>1, <2>2
<1> QED BY <1>0, <1>1, <1>2, <1>3 DEF RefineInv, DropsAt, FoldedAt

\* Db::open syncs what it truncates and writes nothing else.
LEMMA OpenRefine ==
  ASSUME Alone, Mild, Safe, NEW h \in Handles, Open(h)
  PROVE  RefineInv'
<1> USE DEF CreateSteps, OpenSteps, WriteSteps, FoldSteps, Goto
<1>0. /\ \A k \in Handles : k = h
      /\ pc \in [Handles -> Pcs] /\ synced \in [Gens -> Nat]
      /\ log \in [Gens -> LogFile \cup {None}] /\ scan \in [Handles -> ScanState]
      /\ SyncedAt(h)
  BY DEF Alone, Safe, TypeOK, RefineInv
<1>1. pc[h] \in {"closed"} \cup OpenSteps /\ pc'[h] \in {"closed", "idle"} \cup OpenSteps
  BY <1>0 DEF Open, OpenSuperblock, OpenBase, OpenLog, OpenTruncate, OpenFold, OpenDone, OpenFail, OpenFails
<1>2. SyncedAt(h)'
  <2>1. CASE OpenTruncate(h)
    <3> DEFINE g == scan[h].gen
               cut == SetLen(log[g], scan[h].valid)
    <3>1. pc[h] = "open_truncate" /\ log[g] # None
      BY <2>1 DEF OpenTruncate
    <3>2. /\ sb # None /\ sb \in Superblock /\ sbDurable = sb
          /\ \E w \in Walk : \E f \in Nat : SafeTrail(sb, w, f) /\ HandleAt(h, w, f)
      BY <3>1, OneSuper DEF Making
    <3>3. g = sb.gen /\ g \in Gens
      BY <3>1, <3>2 DEF HandleAt, OpenAt
    <3>4. cut \in LogFile
      BY <1>0, <3>1, <3>3, SetLenType DEF ScanState
    <3>5. /\ log' = [log EXCEPT ![g] = cut] /\ synced' = [synced EXCEPT ![g] = Len(cut)]
          /\ sb' = sb /\ sbDurable' = sbDurable
      BY <2>1 DEF OpenTruncate
    <3> HIDE DEF cut
    <3>6. log'[g] = cut /\ log'[g] # None /\ synced'[g] = Len(cut)
      BY <1>0, <3>3, <3>4, <3>5, ValuesAssumption
    <3>7. synced'[sb'.gen] = Len(Records(sb.gen)')
      BY <3>3, <3>5, <3>6 DEF Records
    <3> QED BY <1>1, <3>2, <3>5, <3>7 DEF SyncedAt
  <2>2. CASE OpenSuperblock(h) \/ OpenBase(h) \/ OpenLog(h) \/ OpenFold(h) \/ OpenDone(h) \/ OpenFail(h)
    <3>1. UNCHANGED <<sb, sbDurable, log, synced>>
      BY <2>2 DEF OpenSuperblock, OpenBase, OpenLog, OpenFold, OpenDone, OpenFail, disk
    <3> QED BY <1>0, <1>1, <3>1 DEF SyncedAt, Records
  <2> QED BY <2>1, <2>2 DEF Open
<1> QED BY <1>0, <1>1, <1>2 DEF RefineInv, DropsAt, FoldedAt, MadeAt

\* A write transaction leaves one record unsynced while its commit is under way, and
\* the commit or the cut after a failed append closes the gap.
LEMMA WriteRefine ==
  ASSUME Alone, Mild, Safe, NEW h \in Handles, Write(h)
  PROVE  RefineInv'
<1> USE DEF CreateSteps, OpenSteps, WriteSteps, FoldSteps, Goto, Resting
<1>0. /\ \A k \in Handles : k = h
      /\ pc \in [Handles -> Pcs] /\ synced \in [Gens -> Nat]
      /\ log \in [Gens -> LogFile \cup {None}] /\ delta \in [Handles -> DeltaState]
      /\ db \in [Handles -> DbState] /\ delta[h].eof \in Nat /\ delta[h] \in DeltaState
      /\ SyncedAt(h) /\ DropsAt(h)
  BY DEF Alone, Safe, TypeOK, RefineInv, DeltaState
<1>p. pc[h] \in {"idle", "txn", "append", "sync"} /\ pc'[h] \in {"idle", "txn", "append", "sync"}
  BY <1>0 DEF Write, BeginWrite, CreateElement, TombstoneElement, Rollback, AppendPart, AppendRest,
     CommitSync, AppendFail
<1>s. /\ sb # None /\ sb \in Superblock /\ sbDurable = sb /\ sb.gen \in Gens
      /\ synced[sb.gen] \in Nat /\ Records(sb.gen) \in LogFile /\ Len(Records(sb.gen)) \in Nat
      /\ UNCHANGED <<sb, sbDurable>>
  <2>1. UNCHANGED <<sb, sbDurable>>
    BY DEF Write, BeginWrite, CreateElement, TombstoneElement, Rollback, AppendPart, AppendRest,
       CommitSync, AppendFail, disk
  <2> QED BY <1>p, <2>1, OneSuper DEF Making, LogFile
<1>w. PICK w \in Walk, f \in Nat : SafeTrail(sb, w, f) /\ HandleAt(h, w, f)
  BY <1>p, OneSuper DEF Making
<1>g. db[h].gen = sb.gen
  BY <1>p, <1>w DEF HandleAt, WriterAt
<1>1. CASE BeginWrite(h) \/ CreateElement(h) \/ TombstoneElement(h) \/ Rollback(h)
  <2>1. /\ UNCHANGED <<log, synced>> /\ pc[h] \in {"idle", "txn"} /\ pc'[h] \in {"idle", "txn"}
    BY <1>0, <1>1 DEF BeginWrite, CreateElement, TombstoneElement, Rollback, disk
  <2>2. SyncedAt(h)'
    BY <1>0, <1>s, <2>1 DEF SyncedAt, Records
  <2>3. DropsAt(h)'
    <3>1. CASE BeginWrite(h)
      BY <1>0, <3>1 DEF BeginWrite, DropsAt, NoDelta
    <3>2. CASE CreateElement(h)
      BY <1>0, <3>2 DEF CreateElement, DropsAt, DeltaState
    <3>3. CASE TombstoneElement(h)
      BY <1>0, <3>3 DEF TombstoneElement, DropsAt, DeltaState
    <3>4. CASE Rollback(h)
      BY <1>0, <3>4 DEF Rollback, DropsAt
    <3> QED BY <1>1, <3>1, <3>2, <3>3, <3>4
  <2> QED BY <1>0, <2>1, <2>2, <2>3 DEF RefineInv, FoldedAt, MadeAt
<1>2. CASE AppendPart(h)
  <2>1. /\ pc[h] = "txn" /\ pc'[h] = "append" /\ db' = db /\ Dirty(h)
        /\ synced'[sb.gen] = IF log[sb.gen] = None THEN 0 ELSE synced[sb.gen]
        /\ delta'[h].eof = Len(Records(sb.gen)) /\ delta'[h].add = delta[h].add
        /\ delta'[h].del = delta[h].del
    BY <1>0, <1>s, <1>g, <1>2 DEF AppendPart, DeltaState
  <2>2. synced[sb.gen] = Len(Records(sb.gen)) /\ (log[sb.gen] = None => Len(Records(sb.gen)) = 0)
    BY <1>0, <1>s, <2>1 DEF SyncedAt, Records
  <2>3. SyncedAt(h)'
    BY <1>s, <2>1, <2>2 DEF SyncedAt, Dirty
  <2> QED BY <1>0, <2>1, <2>3 DEF RefineInv, FoldedAt, DropsAt, MadeAt
<1>3. CASE AppendRest(h)
  <2>1. pc[h] = "append" /\ pc'[h] = "sync" /\ UNCHANGED <<db, delta, synced>>
    BY <1>0, <1>3 DEF AppendRest
  <2> QED BY <1>0, <1>s, <2>1 DEF RefineInv, SyncedAt, DropsAt, FoldedAt, MadeAt, Dirty
<1>4. CASE CommitSync(h)
  <2>1. /\ pc'[h] = "idle" /\ log' = log /\ synced'[sb.gen] = Len(Records(sb.gen))
    BY <1>0, <1>s, <1>g, <1>4 DEF CommitSync
  <2> QED BY <1>0, <1>s, <2>1 DEF RefineInv, SyncedAt, DropsAt, FoldedAt, MadeAt, Records
<1>5. CASE AppendFail(h)
  <2> DEFINE cut == SetLen(Records(sb.gen), delta[h].eof)
  <2>1. /\ pc[h] \in {"append", "sync"} /\ pc'[h] = "idle"
        /\ log' = [log EXCEPT ![sb.gen] = cut]
        /\ synced' = [synced EXCEPT ![sb.gen] = Smaller(@, delta[h].eof)]
    BY <1>0, <1>g, <1>5 DEF AppendFail, Mild, Survivable
  <2>2. synced[sb.gen] = delta[h].eof
    BY <1>0, <2>1 DEF SyncedAt
  <2>3. synced'[sb.gen] = delta[h].eof
    BY <1>0, <1>s, <2>1, <2>2 DEF Smaller
  <2>4. delta[h].eof <= Len(Records(sb.gen))
    BY <1>0, <1>s, <1>w, <2>1 DEF HandleAt, WriterAt
  <2>5. cut \in LogFile /\ Len(cut) = delta[h].eof
    BY <1>0, <1>s, <2>4 DEF SetLen, LogFile
  <2> HIDE DEF cut
  <2>6. log'[sb.gen] = cut /\ log'[sb.gen] # None
    BY <1>0, <1>s, <2>1, <2>5, ValuesAssumption
  <2>7. synced'[sb'.gen] = Len(Records(sb.gen)')
    BY <1>s, <2>3, <2>5, <2>6 DEF Records
  <2> QED BY <1>0, <1>s, <2>1, <2>7 DEF RefineInv, SyncedAt, DropsAt, FoldedAt, MadeAt
<1> QED BY <1>1, <1>2, <1>3, <1>4, <1>5 DEF Write

\* A fold publishes a generation with an empty log; the old one stands until the
\* directory is synced.
LEMMA FoldRefine ==
  ASSUME Alone, Mild, Safe, Current, NEW h \in Handles, Fold(h)
  PROVE  RefineInv'
<1> USE DEF CreateSteps, OpenSteps, WriteSteps, FoldSteps, Goto, Resting
<1>0. /\ \A k \in Handles : k = h
      /\ pc \in [Handles -> Pcs] /\ synced \in [Gens -> Nat]
      /\ log \in [Gens -> LogFile \cup {None}] /\ db \in [Handles -> DbState]
      /\ db[h].gen \in Gens /\ SyncedAt(h) /\ FoldedAt(h)
      /\ pc[h] \in FoldSteps => db[h].gen + 1 \in Gens /\ db[h].gen + 1 # db[h].gen
  BY SMTT(30), BoundsAssumption DEF Alone, Safe, TypeOK, RefineInv, DbState, InBounds
<1>1. CASE FoldBegin(h) \/ FoldFail(h)
  <2>1. /\ pc[h] \notin {"append", "sync"} /\ pc'[h] \in {"idle", "fold_base"}
        /\ UNCHANGED <<sb, sbDurable, log, synced>>
    BY <1>0, <1>1 DEF FoldBegin, FoldFail, disk
  <2> QED BY <1>0, <2>1 DEF RefineInv, SyncedAt, DropsAt, FoldedAt, MadeAt, Records
<1>2. CASE FoldBase(h)
  <2>1. /\ pc[h] = "fold_base" /\ pc'[h] = "fold_log" /\ UNCHANGED <<sb, log, synced>>
        /\ sbDurable' = sb
    BY <1>0, <1>2 DEF FoldBase, SyncDirectory
  <2> QED BY <1>0, <2>1 DEF RefineInv, SyncedAt, DropsAt, FoldedAt, MadeAt, Records
<1>3. CASE FoldLog(h)
  <2>1. /\ pc[h] = "fold_log" /\ pc'[h] = "fold_publish" /\ sb' = sb /\ db' = db
        /\ sbDurable' = sb /\ log' = [log EXCEPT ![db[h].gen + 1] = <<>>]
        /\ synced' = [synced EXCEPT ![db[h].gen + 1] = 0]
    BY <1>0, <1>3 DEF FoldLog, SyncDirectory
  <2>2. sb # None /\ sb.gen = db[h].gen
    BY <2>1, OneSuper DEF Making, HandleAt, WriterAt
  <2>3. /\ synced'[db[h].gen + 1] = 0 /\ synced'[sb.gen] = synced[sb.gen]
        /\ log'[sb.gen] = log[sb.gen]
    BY <1>0, <2>1, <2>2
  <2>4. synced[sb.gen] = Len(Records(sb.gen))
    BY <1>0, <2>1, <2>2 DEF SyncedAt
  <2> QED BY <1>0, <2>1, <2>2, <2>3, <2>4 DEF RefineInv, SyncedAt, DropsAt, FoldedAt, MadeAt, Records
<1>4. CASE FoldPublish(h)
  <2>1. /\ pc[h] = "fold_publish" /\ pc'[h] = "fold_sync" /\ sb'.gen = db[h].gen + 1 /\ db' = db
        /\ UNCHANGED <<sbDurable, base, log, synced>>
    BY <1>0, <1>4 DEF FoldPublish
  <2>2. sb # None /\ sbDurable = sb /\ Records(db[h].gen + 1) = <<>>
    BY <2>1, OneSuper DEF Making, HandleAt, FoldAt
  <2>3. synced[db[h].gen + 1] = 0 /\ synced[sb.gen] = Len(Records(sb.gen))
    BY <1>0, <2>1, <2>2 DEF SyncedAt
  <2>4. SyncedAt(h)'
    BY <2>1, <2>2, <2>3 DEF SyncedAt, Records
  <2>5. OnDisk(sbDurable) = Front(h) /\ sbDurable # None
    <3>1. handle = h
      BY OnlyHandle
    <3>2. seen = Front(h)
      BY <2>1, <3>1 DEF seen, Serving, Front
    <3>3. Front(h) # None
      <4>1. Front(h) \in Frontier
        BY <1>0 DEF DbState, Front, Frontier
      <4> QED BY <4>1, FrontierAssumption
    <3> QED BY <2>2, <3>2, <3>3 DEF Current, durable
  <2>6. OnDisk(sbDurable)' = OnDisk(sbDurable) /\ Front(h)' = Front(h)
    BY <2>1 DEF OnDisk, Records, Front
  <2> QED BY <1>0, <2>1, <2>2, <2>4, <2>5, <2>6 DEF RefineInv, DropsAt, FoldedAt, MadeAt
<1>5. CASE FoldSync(h)
  <2>1. /\ pc[h] = "fold_sync" /\ pc'[h] = "open_super" /\ UNCHANGED <<sb, log, synced>>
        /\ sbDurable' = sb
    BY <1>0, <1>5 DEF FoldSync, SyncDirectory
  <2> QED BY <1>0, <2>1 DEF RefineInv, SyncedAt, DropsAt, FoldedAt, MadeAt, Records
<1>6. CASE FoldDone(h)
  <2>1. /\ pc[h] = "open_fold" /\ lock = h /\ pc'[h] = "idle" /\ UNCHANGED <<sb, sbDurable, synced>>
        /\ \E l \in {None, log[db[h].gen]} : log' = [log EXCEPT ![db[h].gen] = l]
    BY <1>0, <1>6 DEF FoldDone
  <2>2. sbDurable = sb /\ sb.gen = db[h].gen + 1 /\ sb # None
    BY <2>1, OneSuper DEF Safe, StoreInv, FoldInv, Making
  <2>3. log'[sb.gen] = log[sb.gen]
    BY <1>0, <2>1, <2>2
  <2>4. synced[sb.gen] = Len(Records(sb.gen))
    BY <1>0, <2>1, <2>2 DEF SyncedAt
  <2> QED BY <1>0, <2>1, <2>2, <2>3, <2>4 DEF RefineInv, SyncedAt, DropsAt, FoldedAt, MadeAt, Records
<1> QED BY <1>1, <1>2, <1>3, <1>4, <1>5, <1>6 DEF Fold

\* A power loss leaves nothing unsynced.
LEMMA LossRefine ==
  ASSUME Alone, Mild, Safe, PowerLoss \/ \E h \in Handles : Kill(h) \/ Close(h)
  PROVE  RefineInv'
<1> USE DEF CreateSteps, OpenSteps, WriteSteps, FoldSteps, Goto
<1>1. CASE PowerLoss
  <2>1. /\ \A h \in Handles : pc'[h] = "closed"
        /\ sb' \in {sb, sbDurable} /\ sbDurable' = sb'
        /\ \A g \in Gens : synced'[g] = IF log'[g] = None THEN 0 ELSE Len(log'[g])
    BY <1>1 DEF PowerLoss
  <2>2. sb' # None => sb'.gen \in Gens
    BY <2>1 DEF Safe, TypeOK
  <2>3. ASSUME NEW h \in Handles PROVE SyncedAt(h)' /\ DropsAt(h)' /\ FoldedAt(h)' /\ MadeAt(h)'
    BY <2>1, <2>2 DEF SyncedAt, DropsAt, FoldedAt, MadeAt, Records
  <2> QED BY <2>3 DEF RefineInv
<1>2. ASSUME NEW h \in Handles, Close(h) PROVE RefineInv'
  <2>1. /\ pc[h] = "idle" /\ pc'[h] = "closed" /\ UNCHANGED <<sb, sbDurable, log, synced>>
        /\ \A k \in Handles : k = h
    BY <1>2 DEF Close, disk, Alone, Safe, TypeOK
  <2>2. SyncedAt(h)
    BY DEF Safe, RefineInv
  <2> QED BY <2>1, <2>2 DEF RefineInv, SyncedAt, DropsAt, FoldedAt, MadeAt, Records
<1> QED BY <1>1, <1>2 DEF Kill, Mild

-----------------------------------------------------------------------------
(* The steps of the files are steps of the database *)

\* What a power loss leaves of a generation is the state after some of its frames, of
\* all synced ones at least.
LEMMA LossDisk ==
  ASSUME TypeOK, PowerLoss, NEW s \in Superblock, NEW w \in Walk, NEW f \in Nat, SafeTrail(s, w, f)
  PROVE  \E e \in 0..f :
           /\ Replayed(s.seq, base'[s.gen].view, Records(s.gen)', synced'[s.gen]) = w[e]
           /\ Len(Records(s.gen)) <= synced[s.gen] => e = f
           /\ \A k \in 0..f : k <= synced[s.gen] => k <= e
<1>1. PICK extra \in Lsns, torn \in BOOLEAN :
        log' = [g \in Gens |-> IF log[g] = None THEN None
                               ELSE Survivors(log[g], synced[g] + extra, torn)]
  BY DEF PowerLoss
<1>2. /\ s.gen \in Gens /\ synced[s.gen] \in Nat /\ extra \in Nat
      /\ log[s.gen] \in LogFile \cup {None}
  BY <1>1, BoundsAssumption DEF TypeOK
<1>3. /\ base' = base /\ synced'[s.gen] = IF log'[s.gen] = None THEN 0 ELSE Len(log'[s.gen])
      /\ log'[s.gen] = IF log[s.gen] = None THEN None
                       ELSE Survivors(log[s.gen], synced[s.gen] + extra, torn)
  BY <1>1, <1>2 DEF PowerLoss
<1>4. Trail(s.seq, base[s.gen].view, Records(s.gen), w, f) /\ Framed(Records(s.gen), f)
  BY DEF SafeTrail, Trail
<1>5. CASE log[s.gen] = None
  <2>1. Records(s.gen) = <<>> /\ Records(s.gen)' = <<>> /\ synced'[s.gen] = 0 /\ f = 0
    BY <1>3, <1>4, <1>5 DEF Records, Framed
  <2>2. Replayed(s.seq, base[s.gen].view, Records(s.gen), 0) = w[0]
    BY <1>4, <2>1, ReplayedTrail
  <2> QED BY <1>3, <2>1, <2>2
<1>6. CASE log[s.gen] # None
  <2> DEFINE recs == log[s.gen]
  <2>m. PICK m \in Nat : m = synced[s.gen] + extra
    BY <1>2
  <2>c. PICK cut : cut = Survivors(recs, m, torn)
    OBVIOUS
  <2>e. PICK e : e = IF m >= Len(recs) THEN f ELSE m
    OBVIOUS
  <2>1. recs \in LogFile /\ Records(s.gen) = recs
    BY <1>2, <1>6 DEF Records
  <2>2. cut \in LogFile /\ cut # None
    BY <2>1, <2>c, SurvivorsType, ValuesAssumption
  <2>3. /\ e \in 0..f /\ Framed(cut, e) /\ \A i \in 1..e : cut[i] = recs[i]
        /\ Len(cut) \in Nat /\ e <= Len(cut)
        /\ \A k \in 0..f : k <= m => k <= e
    <3>1. Framed(recs, f)
      BY <1>4, <2>1
    <3> HIDE DEF recs
    <3> QED BY <2>1, <2>c, <2>e, <3>1, SurvivorsFramed
  <2>4. log'[s.gen] = cut
    BY <1>3, <1>6, <2>c, <2>m
  <2> HIDE DEF recs
  <2>5. Records(s.gen)' = cut /\ synced'[s.gen] = Len(cut)
    BY <1>3, <2>2, <2>4 DEF Records
  <2>6. Trail(s.seq, base[s.gen].view, cut, w, e)
    BY <1>4, <2>1, <2>3, TrailCut
  <2>7. Replayed(s.seq, base[s.gen].view, cut, Len(cut)) = w[IF Len(cut) <= e THEN Len(cut) ELSE e]
    BY <2>3, <2>6, ReplayedTrail
  <2>8. (IF Len(cut) <= e THEN Len(cut) ELSE e) = e
    BY <2>3
  <2>9. Len(Records(s.gen)) <= synced[s.gen] => e = f
    <3>1. Len(recs) \in Nat
      BY <2>1 DEF LogFile
    <3> QED BY <1>2, <2>1, <2>m, <2>e, <3>1
  <2>10. \A k \in 0..f : k <= synced[s.gen] => k <= e
    BY <1>2, <2>m, <2>3
  <2> QED BY <1>3, <2>3, <2>5, <2>7, <2>8, <2>9, <2>10
<1> QED BY <1>5, <1>6

\* The frame a commit has written takes the handle's frontier to a successor: its ids
\* are new, and it changes something.
LEMMA FrameCommits ==
  ASSUME Alone, Safe, NEW h \in Handles, pc[h] = "sync"
  PROVE  Abstract!Committed(Front(h), [lsn |-> Lsn(h), view |-> Apply(db[h].view, FrameOf(h))])
<1> DEFINE view == Apply(db[h].view, FrameOf(h))
<1>0. /\ SyncedAt(h) /\ DropsAt(h)
      /\ db[h] \in DbState /\ delta[h] \in DeltaState
  BY DEF Safe, RefineInv, TypeOK
<1>1. /\ db[h].lsn \in Nat /\ db[h].view \in Content /\ db[h].view.next \in 1..(MaxId + 1)
      /\ db[h].view.live \in SUBSET Ids /\ delta[h].add \in SUBSET Ids
      /\ delta[h].del \in SUBSET Ids /\ delta[h].next \in 1..(MaxId + 1)
  BY <1>0, BoundsAssumption DEF DbState, DeltaState
<1>2. PICK w \in Walk, f \in Nat : SafeTrail(sb, w, f) /\ HandleAt(h, w, f)
  BY OneSuper DEF Making
<1>3. /\ db[h].view.next <= delta[h].next
      /\ \A id \in delta[h].add : db[h].view.next <= id /\ id < delta[h].next
      /\ delta[h].del \subseteq db[h].view.live \cup delta[h].add
      /\ delta[h].add # {} \/ delta[h].del # {}
  BY <1>0, <1>2 DEF HandleAt, Staged, DropsAt, SyncedAt, Dirty, WriteSteps
<1>4. /\ view.live = (db[h].view.live \cup delta[h].add) \ delta[h].del
      /\ view.next = delta[h].next
      /\ view = [live |-> (db[h].view.live \cup delta[h].add) \ delta[h].del, next |-> delta[h].next]
  BY <1>1, <1>3 DEF Apply, FrameOf, Larger
<1>5. \A id \in view.live : id < view.next
  <2>1. /\ f = delta[h].eof + 1 /\ Records(sb.gen)[f] = FrameOf(h) /\ w[f - 1] = Front(h)
    BY <1>2 DEF HandleAt, WriterAt
  <2>2. f \in 1..f /\ w[f - 1].view = db[h].view
    BY <1>0, <2>1 DEF DeltaState, Front
  <2>3. w[f].view = Apply(w[f - 1].view, Records(sb.gen)[f]) /\ Bounded(w[f].view)
    BY <1>2, <2>2 DEF SafeTrail, Trail
  <2> QED BY <2>1, <2>2, <2>3 DEF Bounded
<1> HIDE DEF view
<1>6. view # db[h].view
  <2>1. CASE delta[h].add # {}
    BY <1>1, <1>3, <1>4, <2>1, BoundsAssumption
  <2>2. CASE delta[h].add = {}
    BY <1>3, <1>4, <2>2
  <2> QED BY <2>1, <2>2
<1>7. \E k \in SUBSET Front(h).view.live, n \in Front(h).view.next..(MaxId + 1) :
         \E r \in SUBSET {id \in 1..MaxId : id >= Front(h).view.next} :
           [lsn |-> Lsn(h), view |-> view]
             = [lsn |-> Front(h).lsn + 1, view |-> [live |-> k \cup r, next |-> n]]
  <2> DEFINE kept == db[h].view.live \ delta[h].del
             fresh == delta[h].add \ delta[h].del
  <2>1. kept \in SUBSET db[h].view.live
    OBVIOUS
  <2>2. delta[h].next \in db[h].view.next..(MaxId + 1)
    BY <1>1, <1>3, BoundsAssumption
  <2>3. fresh \in SUBSET {id \in 1..MaxId : id >= db[h].view.next}
    BY <1>1, <1>3, BoundsAssumption
  <2>4. kept \cup fresh = (db[h].view.live \cup delta[h].add) \ delta[h].del
    OBVIOUS
  <2> HIDE DEF kept, fresh
  <2>5. [lsn |-> Lsn(h), view |-> view]
          = [lsn |-> Front(h).lsn + 1, view |-> [live |-> kept \cup fresh, next |-> delta[h].next]]
    BY <1>4, <2>4 DEF Lsn, Front
  <2>6. Front(h).view = db[h].view
    BY DEF Front
  <2> QED BY <2>1, <2>2, <2>3, <2>5, <2>6
<1>8. [lsn |-> Lsn(h), view |-> view].view = view /\ Front(h).view = db[h].view
  BY DEF Front
<1>9. Abstract!Committed(Front(h), [lsn |-> Lsn(h), view |-> view])
  BY <1>5, <1>6, <1>7, <1>8 DEF Abstract!Committed
<1> QED BY <1>9 DEF view

\* The truncating open drops the torn record only.
LEMMA TruncateKeeps ==
  ASSUME Alone, Safe, NEW h \in Handles, OpenTruncate(h)
  PROVE  durable' = durable
<1>1. pc[h] = "open_truncate" /\ TypeOK /\ SyncedAt(h)
  BY DEF OpenTruncate, Safe, RefineInv
<1>2. /\ sb # None /\ sb \in Superblock /\ sbDurable = sb /\ sb.gen \in Gens
      /\ synced[sb.gen] = Len(Records(sb.gen)) /\ synced[sb.gen] \in Nat
      /\ Records(sb.gen) \in LogFile
  BY <1>1, OneSuper DEF Making, SyncedAt
<1>3. PICK w \in Walk, f \in Nat : SafeTrail(sb, w, f) /\ HandleAt(h, w, f)
  BY <1>1, OneSuper DEF Making
<1> DEFINE cut == SetLen(log[sb.gen], f)
<1>4. /\ scan[h].gen = sb.gen /\ scan[h].valid = f /\ Len(Records(sb.gen)) = f + 1
  BY <1>1, <1>3 DEF HandleAt, OpenAt, OpenSteps
<1>5. /\ log' = [log EXCEPT ![sb.gen] = cut] /\ synced' = [synced EXCEPT ![sb.gen] = Len(cut)]
      /\ UNCHANGED <<sb, sbDurable, base>> /\ Records(sb.gen) = log[sb.gen]
  BY <1>4 DEF OpenTruncate, Records
<1>6. cut \in LogFile /\ Len(cut) = f /\ \A i \in 1..f : cut[i] = Records(sb.gen)[i]
  BY <1>2, <1>4, <1>5 DEF SetLen, LogFile
<1> HIDE DEF cut
<1>7. log'[sb.gen] = cut /\ cut # None /\ synced'[sb.gen] = f
  BY <1>1, <1>2, <1>5, <1>6, ValuesAssumption DEF TypeOK
<1>8. Records(sb.gen)' = cut
  BY <1>5, <1>7 DEF Records
<1>9. Trail(sb.seq, base[sb.gen].view, Records(sb.gen), w, f)
  BY <1>3 DEF SafeTrail
<1>10. Framed(cut, f)
  BY <1>6, <1>9 DEF Trail, Framed
<1>11. Trail(sb.seq, base[sb.gen].view, cut, w, f)
  BY <1>6, <1>9, <1>10, TrailCut
<1>12. Replayed(sb.seq, base[sb.gen].view, cut, f) = w[f]
  BY <1>6, <1>11, ReplayedTrail
<1>13. OnDisk(sb) = w[f]
  BY <1>1, <1>2, <1>3, DiskEnd
<1> QED BY <1>2, <1>5, <1>7, <1>8, <1>12, <1>13 DEF durable, OnDisk

\* A creation whose superblock is not durable yet has written an empty store.
LEMMA EmptyDisk ==
  ASSUME Safe, NEW h \in Handles, pc[h] = "create_sync"
  PROVE  OnDisk(sb) = Abstract!Initial /\ sbDurable = None /\ sb # None /\ synced[sb.gen] = Len(Records(sb.gen))
<1>1. /\ sbDurable = None /\ sb = [gen |-> 0, seq |-> 0, txn |-> 0] /\ sb # None
      /\ base[0] = Published0 /\ Records(0) = <<>>
  BY DEF Safe, RefineInv, MadeAt, StoreInv, CreateInv, Making
<1>2. synced[0] = 0 /\ synced[sb.gen] = Len(Records(sb.gen))
  BY <1>1 DEF Safe, RefineInv, SyncedAt
<1>3. 0 \in Lsns /\ EmptyView \in Content /\ Bounded(EmptyView)
  BY BoundsAssumption DEF EmptyView, Bounded
<1>4. PICK w \in Walk : w[0] = [lsn |-> 0, view |-> EmptyView] /\ Trail(0, EmptyView, <<>>, w, 0)
  BY <1>3, TrailNew DEF Trail
<1>5. Replayed(0, EmptyView, <<>>, 0) = w[0]
  BY <1>4, ReplayedTrail
<1>6. OnDisk(sb) = Replayed(0, EmptyView, <<>>, 0)
  BY <1>1, <1>2 DEF OnDisk, Published0
<1> QED BY <1>1, <1>2, <1>4, <1>5, <1>6 DEF Abstract!Initial, EmptyView

\* A power loss takes nothing from a generation whose records are all synced.
LEMMA LossKeeps ==
  ASSUME Safe, PowerLoss, NEW s, s \in {sb, sbDurable}, s # None,
         synced[s.gen] = Len(Records(s.gen))
  PROVE  Replayed(s.seq, base'[s.gen].view, Records(s.gen)', synced'[s.gen]) = OnDisk(s)
<1>1. TypeOK /\ DurableInv /\ s \in Superblock
  BY DEF Safe, TypeOK
<1>2. PICK w \in Walk, f \in Nat : SafeTrail(s, w, f)
  BY <1>1 DEF DurableInv, Recoverable, LiveTrail
<1>3. synced[s.gen] \in Nat
  BY <1>1 DEF TypeOK
<1>4. OnDisk(s) = w[f]
  BY <1>1, <1>2, <1>3, DiskEnd
<1>5. PICK e \in 0..f :
        /\ Replayed(s.seq, base'[s.gen].view, Records(s.gen)', synced'[s.gen]) = w[e]
        /\ Len(Records(s.gen)) <= synced[s.gen] => e = f
  BY <1>1, <1>2, LossDisk
<1> QED BY <1>3, <1>4, <1>5

\* A power loss is a crash of the abstract database: what was durable is, but for a
\* creation or a commit under way, which may have reached the disk whole.
LEMMA LossSimulates ==
  ASSUME Alone, Mild, Safe, Current, PowerLoss
  PROVE  Abstract!Crash
<1> USE DEF CreateSteps, OpenSteps, WriteSteps, FoldSteps
<1>h. PICK h \in Handles : \A k \in Handles : k = h
  BY DEF Alone
<1>0. handle = h
  BY <1>h, OnlyHandle
<1>1. /\ TypeOK /\ StoreInv /\ DurableInv /\ SyncedAt(h) /\ FoldedAt(h) /\ MadeAt(h) /\ MakeAt(h)
      /\ LockWithinCall /\ CreateInv
  BY DEF Safe, RefineInv, DurableInv, StoreInv
<1>2. seen' = None
  BY <1>0 DEF PowerLoss, seen, Serving
<1>s. PICK s : s = sb'
  OBVIOUS
<1>3. s \in {sb, sbDurable} /\ sbDurable' = s
  BY <1>s DEF PowerLoss
<1>4. s # None =>
        durable' = Replayed(s.seq, base'[s.gen].view, Records(s.gen)', synced'[s.gen])
  BY <1>3 DEF durable, OnDisk
<1>5. CASE s = None
  <2>1. sbDurable = None
    BY <1>1, <1>3, <1>5 DEF MakeAt, CreateInv, Making
  <2>2. durable = None /\ durable' = None
    BY <1>3, <1>5, <2>1 DEF durable
  <2> QED BY <1>2, <2>2 DEF Abstract!Crash
<1>6. CASE s # None /\ pc[h] = "create_sync"
  <2>1. /\ OnDisk(sb) = Abstract!Initial /\ sbDurable = None /\ synced[sb.gen] = Len(Records(sb.gen))
        /\ s = sb
    BY <1>3, <1>6, EmptyDisk
  <2>2. durable = None /\ durable' = Abstract!Initial
    BY <1>4, <1>6, <2>1, LossKeeps DEF durable
  <2> QED BY <1>2, <2>2 DEF Abstract!Crash
<1>7. CASE s # None /\ pc[h] \notin {"create_sync", "append", "sync"}
  <2>1. durable' = OnDisk(s)
    BY <1>1, <1>3, <1>4, <1>7, LossKeeps DEF SyncedAt
  <2>2. CASE s = sbDurable
    BY <1>2, <1>7, <2>1, <2>2 DEF durable, Abstract!Crash
  <2>3. CASE s # sbDurable
    <3>1. s = sb /\ pc[h] = "fold_sync" /\ lock = h
      BY <1>1, <1>3, <1>7, <2>3 DEF MakeAt, LockWithinCall
    <3>2. durable = Front(h) /\ OnDisk(s) = Front(h)
      BY <1>1, <3>1, FoldedDisk DEF FoldedAt, durable
    <3> QED BY <1>2, <2>1, <3>2 DEF Abstract!Crash
  <2> QED BY <2>2, <2>3
<1>8. CASE s # None /\ pc[h] \in {"append", "sync"}
  <2>1. /\ sb # None /\ sb \in Superblock /\ sbDurable = sb /\ s = sb
        /\ synced[sb.gen] \in Nat
    BY <1>3, <1>8, OneSuper DEF Making
  <2>2. PICK w \in Walk, f \in Nat : SafeTrail(sb, w, f) /\ HandleAt(h, w, f)
    BY <1>8, OneSuper DEF Making
  <2>3. PICK e \in 0..f : durable' = w[e] /\ \A k \in 0..f : k <= synced[sb.gen] => k <= e
    BY <1>1, <1>4, <1>8, <2>1, <2>2, LossDisk
  <2>4. Front(h) # None /\ seen = Front(h) /\ durable = Front(h)
    <3>1. Front(h) \in Frontier
      BY <1>1 DEF TypeOK, DbState, Front, Frontier
    <3>2. seen = Front(h)
      BY <1>0, <1>8 DEF seen, Serving, Front
    <3> QED BY <3>1, <3>2, FrontierAssumption DEF Current
  <2>5. CASE pc[h] = "append"
    <3>1. w[f] = Front(h) /\ synced[sb.gen] = f
      BY <1>1, <2>2, <2>5 DEF HandleAt, WriterAt, SyncedAt
    <3>2. e = f
      BY <2>3, <3>1
    <3> QED BY <1>2, <2>3, <2>4, <3>1, <3>2 DEF Abstract!Crash
  <2>6. CASE pc[h] = "sync"
    <3>1. /\ f = synced[sb.gen] + 1 /\ Records(sb.gen)[f] = FrameOf(h) /\ w[f - 1] = Front(h)
      BY <1>1, <2>2, <2>6 DEF HandleAt, WriterAt, SyncedAt
    <3>2. e = f \/ e = f - 1
      BY <2>1, <2>3, <3>1
    <3>3. CASE e = f - 1
      BY <1>2, <2>3, <2>4, <3>1, <3>3 DEF Abstract!Crash
    <3>4. CASE e = f
      <4>1. /\ w[f].lsn = Records(sb.gen)[f].lsn
            /\ w[f].view = Apply(w[f - 1].view, Records(sb.gen)[f])
        <5>1. f \in 1..f
          BY <2>1, <3>1
        <5> QED BY <2>2, <5>1 DEF SafeTrail, Trail
      <4>2. w[f] = [lsn |-> w[f].lsn, view |-> w[f].view]
        BY FrontierParts, WalkAt
      <4>3. w[f] = [lsn |-> Lsn(h), view |-> Apply(db[h].view, FrameOf(h))]
        BY <3>1, <4>1, <4>2 DEF FrameOf, Front
      <4>4. Abstract!Committed(durable, durable')
        BY <2>3, <2>4, <2>6, <3>4, <4>3, FrameCommits
      <4> QED BY <1>2, <2>4, <4>4 DEF Abstract!Crash
    <3> QED BY <3>2, <3>3, <3>4
  <2> QED BY <1>8, <2>5, <2>6
<1> QED BY <1>5, <1>6, <1>7, <1>8

\* Each step of the store is a step of the abstract database, or leaves the durable and
\* the served frontier alone.
LEMMA Simulates ==
  ASSUME Alone, Mild, Safe, Current, Safe', Current', [Next]_vars
  PROVE  [Abstract!Next]_(Abstract!vars)
<1> USE DEF CreateSteps, OpenSteps, WriteSteps, FoldSteps, Goto
<1>h. PICK h \in Handles : \A k \in Handles : k = h
  BY DEF Alone
<1>0. handle = h
  BY <1>h, OnlyHandle
<1>t. /\ pc \in [Handles -> Pcs] /\ db \in [Handles -> DbState] /\ db[h] \in DbState
      /\ db'[h] \in DbState /\ (lock = h => ReopenAt(h)) /\ LockWithinCall /\ MadeAt(h)
      /\ MakeAt(h) /\ SyncedAt(h) /\ TypeOK
  BY DEF Safe, TypeOK, ReopenInv, StoreInv, RefineInv, DurableInv
<1>s. /\ Serving(h) => seen = Front(h) /\ seen = durable /\ durable # None /\ seen # None
      /\ ~Serving(h) => seen = None
  <2>1. Front(h) # None
    BY <1>t, FrontierAssumption DEF DbState, Front, Frontier
  <2> QED BY <1>0, <2>1 DEF Current, seen, Front
<1>n. /\ Serving(h)' => seen' = Front(h)' /\ seen' = durable' /\ durable' # None /\ seen' # None
      /\ ~Serving(h)' => seen' = None
  <2>1. Front(h)' # None
    <3>1. Front(h)' \in Frontier
      BY <1>t DEF DbState, Front, Frontier
    <3> QED BY <3>1, FrontierAssumption
  <2> QED BY <1>0, <2>1 DEF Current, seen, Front
<1>k. UNCHANGED disk => durable' = durable
  BY DEF disk, durable, OnDisk, Records
<1>1. CASE UNCHANGED vars
  <2>1. UNCHANGED <<disk, pc, lock, db>>
    BY <1>1 DEF vars
  <2> QED BY <1>0, <1>k, <2>1 DEF seen, Serving, Abstract!vars
<1>2. CASE Write(h) /\ ~CommitSync(h)
  <2>1. /\ pc[h] \in {"idle"} \cup WriteSteps /\ pc'[h] \in {"idle"} \cup WriteSteps
        /\ db'[h].lsn = db[h].lsn /\ db'[h].view = db[h].view
    BY <1>t, <1>2 DEF Write, BeginWrite, CreateElement, TombstoneElement, Rollback, AppendPart,
       AppendRest, AppendFail, DbState
  <2> QED BY <1>s, <1>n, <2>1 DEF Serving, Front, Abstract!vars
<1>3. CASE CommitSync(h)
  <2>1. /\ pc[h] = "sync" /\ pc'[h] = "idle"
        /\ db'[h].lsn = Lsn(h) /\ db'[h].view = Apply(db[h].view, FrameOf(h))
    BY <1>t, <1>3 DEF CommitSync, DbState
  <2>2. Abstract!Committed(Front(h), Front(h)')
    BY <2>1, FrameCommits DEF Front
  <2>3. Abstract!Commit
    BY <1>s, <1>n, <2>1, <2>2 DEF Serving, Abstract!Commit
  <2> QED BY <2>3 DEF Abstract!Next
<1>4. CASE Fold(h)
  <2>1. /\ Serving(h) /\ Serving(h)'
    BY <1>t, <1>4 DEF Fold, FoldBegin, FoldBase, FoldLog, FoldPublish, FoldSync, FoldDone, FoldFail,
       Serving, LockWithinCall
  <2>2. db'[h].lsn = db[h].lsn /\ db'[h].view = db[h].view
    <3>1. CASE FoldDone(h)
      BY <1>t, <3>1 DEF FoldDone, ReopenAt, Opened
    <3>2. CASE ~FoldDone(h)
      BY <1>4, <3>2 DEF Fold, FoldBegin, FoldBase, FoldLog, FoldPublish, FoldSync, FoldFail
    <3> QED BY <3>1, <3>2
  <2> QED BY <1>s, <1>n, <2>1, <2>2 DEF Front, Abstract!vars
<1>5. CASE Create(h)
  <2>1. ~Serving(h) /\ ~Serving(h)'
    BY <1>t, <1>5 DEF Create, CreateCheck, CreateBase, CreateLog, CreatePublish, CreateSync, CreateFail,
       Serving, LockWithinCall
  <2>2. CASE CreateSync(h)
    <3>1. /\ pc[h] = "create_sync" /\ sbDurable' = sb /\ UNCHANGED <<sb, base, log, synced>>
      BY <2>2 DEF CreateSync, SyncDirectory
    <3>2. OnDisk(sb) = Abstract!Initial /\ sbDurable = None /\ sb # None
      BY <3>1, EmptyDisk
    <3>3. OnDisk(sbDurable)' = OnDisk(sb)
      BY <3>1 DEF OnDisk, Records
    <3>4. durable = None /\ durable' = Abstract!Initial
      BY <3>1, <3>2, <3>3 DEF durable
    <3>5. Abstract!Create
      BY <1>s, <1>n, <2>1, <3>4 DEF Abstract!Create
    <3> QED BY <3>5 DEF Abstract!Next
  <2>3. CASE ~CreateSync(h)
    <3>m. pc[h] \in Making => sb = None /\ sbDurable = None
      BY <1>t DEF Safe, StoreInv, CreateInv, MakeAt, Making
    <3>1. sbDurable' = sbDurable /\ (sbDurable # None => UNCHANGED <<base, log, synced>>)
      BY <1>5, <2>3, <3>m DEF Create, CreateCheck, CreateBase, CreateLog, CreatePublish, CreateFail,
         SyncDirectory, disk, Making
    <3>2. durable' = durable
      BY <3>1 DEF durable, OnDisk, Records
    <3> QED BY <1>s, <1>n, <2>1, <3>2 DEF Abstract!vars
  <2> QED BY <2>2, <2>3
<1>6. CASE Open(h) /\ lock = h
  <2>1. Serving(h) /\ Serving(h)' /\ db' = db
    BY <1>t, <1>6, ValuesAssumption DEF Open, OpenSuperblock, OpenBase, OpenLog, OpenTruncate, OpenFold, OpenDone,
       OpenFail, OpenFails, Serving, LockWithinCall
  <2> QED BY <1>s, <1>n, <2>1 DEF Front, Abstract!vars
<1>7. CASE Open(h) /\ lock # h
  <2>1. CASE OpenDone(h)
    <3>1. UNCHANGED disk /\ ~Serving(h) /\ Serving(h)'
      BY <1>t, <1>7, <2>1 DEF OpenDone, Serving
    <3>2. Abstract!Open
      BY <1>s, <1>n, <1>k, <3>1 DEF Abstract!Open
    <3> QED BY <3>2 DEF Abstract!Next
  <2>2. CASE ~OpenDone(h)
    <3>1. ~Serving(h) /\ ~Serving(h)'
      BY <1>t, <1>7, <2>2 DEF Open, OpenSuperblock, OpenBase, OpenLog, OpenTruncate, OpenFold,
         OpenFail, OpenFails, Serving
    <3>2. durable' = durable
      <4>1. CASE OpenTruncate(h)
        BY <4>1, TruncateKeeps
      <4>2. CASE ~OpenTruncate(h)
        BY <1>7, <1>k, <2>2, <4>2 DEF Open, OpenSuperblock, OpenBase, OpenLog, OpenFold, OpenFail
      <4> QED BY <4>1, <4>2
    <3> QED BY <1>s, <1>n, <3>1, <3>2 DEF Abstract!vars
  <2> QED BY <2>1, <2>2
<1>8. CASE Close(h)
  <2>1. UNCHANGED disk /\ Serving(h) /\ ~Serving(h)'
    BY <1>t, <1>8 DEF Close, Serving
  <2>2. Abstract!Close
    BY <1>s, <1>n, <1>k, <2>1 DEF Abstract!Close
  <2> QED BY <2>2 DEF Abstract!Next
<1>9. CASE PowerLoss
  BY <1>9, LossSimulates DEF Abstract!Next
<1> QED BY <1>h, <1>1, <1>2, <1>3, <1>4, <1>5, <1>6, <1>7, <1>8, <1>9 DEF Next, Handle, Kill, Mild

-----------------------------------------------------------------------------
(* The theorem *)

\* With one handle and no failure that loses a commit, every reachable state has the
\* invariants of the store and the one about its synced records.
LEMMA RefineInvariant == ASSUME Alone, Mild PROVE Spec => []Safe
<1>0. "race" \notin Faults /\ Survivable
  BY DEF Mild, Survivable
<1>1. Init => RefineInv
  <2> SUFFICES ASSUME Init PROVE RefineInv
    OBVIOUS
  <2>1. sb = None /\ sbDurable = None /\ \A h \in Handles : pc[h] = "closed"
    BY DEF Init
  <2> QED BY <2>1 DEF RefineInv, SyncedAt, DropsAt, FoldedAt, MadeAt, WriteSteps
<1>2. Safe /\ [Next]_vars => RefineInv'
  <2> SUFFICES ASSUME Safe, [Next]_vars PROVE RefineInv'
    OBVIOUS
  <2>c. Current
    BY Serves
  <2>1. CASE UNCHANGED vars
    <3>1. UNCHANGED <<sb, sbDurable, base, log, synced, pc, db, delta>>
      BY <2>1 DEF vars, disk
    <3> QED BY <3>1 DEF Safe, RefineInv, SyncedAt, DropsAt, FoldedAt, MadeAt, Dirty, OnDisk, Front, Records
  <2>2. CASE PowerLoss
    BY <2>2, LossRefine
  <2>3. ASSUME NEW h \in Handles, Handle(h) PROVE RefineInv'
    BY <2>c, <2>3, CreateRefine, OpenRefine, WriteRefine, FoldRefine, LossRefine DEF Handle
  <2> QED BY <2>1, <2>2, <2>3 DEF Next
<1>3. Safe <=> TypeOK /\ InBounds /\ StoreInv /\ DurableInv /\ ReopenInv /\ RefineInv
  BY DEF Safe
<1>4. Spec => [](TypeOK /\ InBounds)
  BY TypeInductive
<1>5. Spec => []StoreInv /\ []ReopenInv /\ []DurableInv
  BY <1>0, StoreInvariant, ReopenInvariant, DurableInvariant
<1> QED BY <1>1, <1>2, <1>3, <1>4, <1>5, PTL DEF Spec

\* One Db handle over the files of a store, through creations, reopens, commits, folds,
\* failed appends, folds and creations and any number of power losses, behaves as the
\* atomic database of OxgDbSpec: what it serves is what a reopen would find, commits
\* move it forward one at a time, and a power loss takes or completes at most the
\* commit under way.  (Db::open, Db::create, commit, checkpoint_inner.)
THEOREM Implements == Alone /\ Mild => (Spec => ImplementsDb)
<1> SUFFICES ASSUME Alone, Mild PROVE Spec => ImplementsDb
  OBVIOUS
<1>1. Init => Abstract!Init
  <2> SUFFICES ASSUME Init PROVE Abstract!Init
    OBVIOUS
  <2>1. handle \in Handles
    BY DEF Alone, handle
  <2>2. durable = None /\ seen = None
    BY <2>1 DEF Init, durable, seen, Serving, WriteSteps, FoldSteps, OpenSteps
  <2> QED BY <2>2 DEF Abstract!Init
<1>2. Safe => Current
  BY Serves
<1>3. Safe /\ Current /\ Safe' /\ Current' /\ [Next]_vars => [Abstract!Next]_(Abstract!vars)
  BY Simulates
<1>4. Spec => []Safe
  BY RefineInvariant
<1> QED BY <1>1, <1>2, <1>3, <1>4, PTL DEF Spec, ImplementsDb, Abstract!Spec
=============================================================================
