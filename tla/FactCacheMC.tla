---------------------------- MODULE FactCacheMC ----------------------------
(* Two members who each follow one of two channels; the first holds a role. *)
EXTENDS FactCache, TLC

CONSTANTS u1, u2, c1, c2, l1, l2

Entries == {<<u1, c1>>, <<u2, c2>>}
SlowEntries == {<<u1, c1>>}

\* Two changes and a fault; or three changes about one channel that both links share.
StartInit ==
  /\ Init
  /\ role_links[l1].channel = c1 /\ role_links[l2].channel # NoChannel
  /\ truth = [e \in Entry |-> IF e = <<u2, c2>> THEN {"follows"} ELSE {}]
  /\ \/ budget = [env |-> 2, faults |-> 1]
     \/ budget = [env |-> 3, faults |-> 0] /\ role_links[l2].channel = c1

StartSpec == StartInit /\ [][Next]_vars /\ Fairness
=============================================================================
