------------------------- MODULE ConfigSyncWorkerMC -------------------------
(* ConfigSyncWorker for TLC: the lists are such that there are uploads by PUT *)
(* and in chunks, which add or remove users.                                 *)
EXTENDS ConfigSyncWorker, TLC

CONSTANTS u1, u2, u3

Lists == {{u1, u2}, {u2, u3}, {u3}}

Budget(env, faults) == budget = [env |-> env, faults |-> faults]

\* One link with two changes and a fault, or two links whose uploads wait for each
\* other with one change.
StartInit ==
  /\ Init
  /\ \A l \in Link : lists[l] = {u1, u2}
  /\ \/ Cardinality(rows) = 1 /\ Budget(2, 1)
     \/ rows = Link /\ Budget(1, 0)

StartSpec == StartInit /\ [][Next]_vars /\ Fairness

\* Every link has just changed: a list that shrinks, which is held, and lists that grow,
\* whose commits take their time.
BusyInit ==
  /\ UploadInit
  /\ rows = Link /\ queued = Link
  /\ \E l \in Link :
       /\ lists = [k \in Link |-> IF k = l THEN {u1, u2} ELSE {}]
       /\ wanted = [k \in Link |-> IF k = l THEN {} ELSE {u1, u2}]
  /\ pending = [l \in Link |-> NotDue] /\ ready = {}
  /\ dropped = {} /\ postponed = {} /\ waited = [l \in Link |-> 0]
  /\ Budget(0, 0)

BusySpec == BusyInit /\ [][Next]_vars

AllOrNone == {{}, {u1, u2}}

Symmetry == Permutations(Link)
=============================================================================
