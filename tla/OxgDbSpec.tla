------------------------------ MODULE OxgDbSpec ------------------------------
(***************************************************************************)
(* What oxgraph-db promises a program that keeps one Db handle: a store is *)
(* one durable frontier, commits move it forward one at a time, a handle   *)
(* serves the frontier, and a crash loses no more than the transaction in  *)
(* flight, which it may also complete.  Files, generations, checkpoints    *)
(* and recovery do not show.                                               *)
(***************************************************************************)
EXTENDS Naturals

CONSTANTS
  None,     \* no store, or a handle that is not open
  MaxId     \* bound: element ids are 1..MaxId

VARIABLES
  durable,  \* None, or the frontier [lsn, view] a reopen would find
  seen      \* None, or the frontier the open handle serves

vars == <<durable, seen>>

Initial == [lsn |-> 0, view |-> [live |-> {}, next |-> 1]]

\* What one commit may do to a frontier: the next lsn, and a view that keeps some of
\* the elements and whose new ones carry ids never allocated before.
Committed(f, g) ==
  /\ \E kept \in SUBSET f.view.live, next \in f.view.next..(MaxId + 1) :
       \E fresh \in SUBSET {id \in 1..MaxId : id >= f.view.next} :
         g = [lsn |-> f.lsn + 1, view |-> [live |-> kept \cup fresh, next |-> next]]
  /\ g.view # f.view
  /\ \A id \in g.view.live : id < g.view.next

Init == durable = None /\ seen = None

Create ==
  /\ durable = None
  /\ durable' = Initial
  /\ UNCHANGED seen

Open ==
  /\ seen = None
  /\ durable # None
  /\ seen' = durable
  /\ UNCHANGED durable

Commit ==
  /\ seen # None
  /\ seen = durable
  /\ Committed(durable, durable')
  /\ seen' = durable'

Close ==
  /\ seen # None
  /\ seen' = None
  /\ UNCHANGED durable

\* The handle is gone.  A creation or a commit that was in flight may or may not
\* have reached the disk.
Crash ==
  /\ seen' = None
  /\ \/ UNCHANGED durable
     \/ durable = None /\ durable' = Initial
     \/ durable # None /\ seen = durable /\ Committed(durable, durable')

Next == Create \/ Open \/ Commit \/ Close \/ Crash

Spec == Init /\ [][Next]_vars
=============================================================================
