--------------------------- MODULE ConnectionsMC ---------------------------
(* Two members of the guild of two links, two accounts and two channels. *)
EXTENDS Connections, TLC

CONSTANTS m1, m2, a1, a2, c1, c2, l1, l2, r1, r2, follow

AllJoined == [j \in Link |-> Member]

\* One member is linked, and one link connected or both to one channel; two outside
\* requests and a fault, or three requests.
StartInit ==
  /\ Init
  /\ linked = (m1 :> a1 @@ m2 :> NoAccount)
  /\ registered = {l1, l2}
  /\ channel[l1] = c1 /\ channel[l2] \in {c1, NoChannel}
  /\ rows = Account \X Connected
  /\ \/ budget = [env |-> 2, faults |-> 1]
     \/ budget = [env |-> 3, faults |-> 0] /\ channel[l2] = NoChannel

StartSpec == StartInit /\ [][Next]_vars /\ Fairness
=============================================================================
