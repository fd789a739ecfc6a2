---------------------------- MODULE PlacementLog ----------------------------
(***************************************************************************)
(* What the persistence of one canvas promises, with no stream, worker or  *)
(* cursor in sight: accepted writes are kept in the order they were        *)
(* accepted, they become durable in that same order, and a user is         *)
(* credited exactly one point for each durable write of theirs.            *)
(* docs/contracts/persistence-worker.md calls this "exactly-once durable". *)
(***************************************************************************)
EXTENDS Integers, FiniteSets

CONSTANT Users

VARIABLES
  log,      \* the accepted writes: records with at least the fields id and user
  durable,  \* those of them that are durable
  credit    \* the points of each user

logVars == <<log, durable, credit>>

By(u, writes) == {e \in writes : e.user = u}

LogInit ==
  /\ log = {}
  /\ durable = {}
  /\ credit = [u \in Users |-> 0]

\* New writes are numbered after every write accepted before them.
Accept ==
  /\ log \subseteq log'
  /\ \A e \in log, f \in log' \ log : e.id < f.id
  /\ UNCHANGED <<durable, credit>>

\* A non-empty batch of accepted writes becomes durable, leaving no gap behind it.
Persist ==
  /\ durable \subseteq durable' /\ durable # durable'
  /\ durable' \subseteq log
  /\ \A e \in log, f \in durable' : e.id <= f.id => e \in durable'
  /\ credit' = [u \in Users |-> credit[u] + Cardinality(By(u, durable' \ durable))]
  /\ UNCHANGED log

LogNext == Accept \/ Persist

LogSpec == LogInit /\ [][LogNext]_logVars
=============================================================================
