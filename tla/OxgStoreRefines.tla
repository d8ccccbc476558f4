--------------------------- MODULE OxgStoreRefines ---------------------------
(***************************************************************************)
(* One handle over the files of OxgStore implements the atomic, durable    *)
(* database of OxgDbSpec.                                                  *)
(***************************************************************************)
EXTENDS OxgStore

ASSUME FrontierAssumption == None \notin Frontier

\* The only handle of this specification.
handle == CHOOSE h \in Handles : TRUE

\* The frontier after the first n records of a log are folded over a base.  A
\* record that does not parse adds nothing.
Replayed(seq, view, recs, n) ==
  LET upto[i \in 0..n] ==
        IF i = 0 THEN [lsn |-> seq, view |-> view]
        ELSE IF recs[i] = Torn THEN upto[i - 1]
        ELSE [lsn |-> recs[i].lsn, view |-> Apply(upto[i - 1].view, recs[i])]
  IN  upto[n]

\* What a superblock stands for on the disk: its base and the synced records of its log.
OnDisk(s) == Replayed(s.seq, base[s.gen].view, Records(s.gen), synced[s.gen])

\* The frontier a reopen would find after a power loss.
durable == IF sbDurable = None THEN None ELSE OnDisk(sbDurable)

\* A handle serves a frontier from the end of its open on, also while it folds.
Serving(h) ==
  pc[h] \in {"idle"} \cup WriteSteps \cup FoldSteps \/ (pc[h] \in OpenSteps /\ lock = h)

seen ==
  IF Serving(handle) THEN [lsn |-> db[handle].lsn, view |-> db[handle].view] ELSE None

Abstract == INSTANCE OxgDbSpec WITH durable <- durable, seen <- seen

\* Every step of the files (creation, recovery, commits with their torn and lost
\* tails, folds and their crash windows) is a step of the atomic database or
\* does not show there.
ImplementsDb == Abstract!Spec
=============================================================================
