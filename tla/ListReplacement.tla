-------------------------- MODULE ListReplacement --------------------------
(***************************************************************************)
(* What sync_for_role_link asks of upload_users: a link's list is replaced *)
(* as a whole by the list that was handed over, or it is left alone.       *)
(* "done" means that it was replaced; "held", "gone" and "inactive" that it *)
(* was not; after "failed" nobody knows, and the write may still be carried *)
(* out later, as a whole.                                                  *)
(***************************************************************************)
CONSTANTS User, Link, NoLink

VARIABLES
  lists,  \* [Link -> SUBSET User], the lists in RoleLogic
  write,  \* the replacement under way
  strays  \* writes the service has given up on that may still be carried out

vars == <<lists, write, strays>>

NoWrite == [phase |-> "none", link |-> NoLink, list |-> {}, outcome |-> "none"]

Init ==
  /\ lists \in [Link -> SUBSET User]
  /\ write = NoWrite
  /\ strays = {}

Begin(l, list) ==
  /\ write = NoWrite
  /\ write' = [phase |-> "out", link |-> l, list |-> list, outcome |-> "none"]
  /\ UNCHANGED <<lists, strays>>

Replace ==
  /\ write.phase = "out"
  /\ lists' = [lists EXCEPT ![write.link] = write.list]
  /\ write' = [write EXCEPT !.phase = "landed"]
  /\ UNCHANGED strays

Over(outcome) ==
  write' = [phase |-> "over", link |-> write.link, list |-> write.list, outcome |-> outcome]

Done ==
  /\ write.phase = "landed"
  /\ Over("done")
  /\ UNCHANGED <<lists, strays>>

Refused ==
  /\ write.phase = "out"
  /\ \E outcome \in {"held", "gone", "inactive"} : Over(outcome)
  /\ UNCHANGED <<lists, strays>>

Failed ==
  /\ write.phase \in {"out", "landed"}
  /\ Over("failed")
  /\ \/ UNCHANGED strays
     \/ write.phase = "out" /\ strays' = strays \cup {<<write.link, write.list>>}
  /\ UNCHANGED lists

\* The caller has taken the outcome.
Taken ==
  /\ write.phase = "over"
  /\ write' = NoWrite
  /\ UNCHANGED <<lists, strays>>

\* The service restarts in the middle of a call.
Abandoned ==
  /\ write.phase # "none"
  /\ write' = NoWrite
  /\ \/ UNCHANGED strays
     \/ write.phase = "out" /\ strays' = strays \cup {<<write.link, write.list>>}
  /\ UNCHANGED lists

StrayLands ==
  \E s \in strays :
    /\ lists' = [lists EXCEPT ![s[1]] = s[2]]
    /\ strays' = strays \ {s}
    /\ UNCHANGED write

StrayLost == \E s \in strays : strays' = strays \ {s} /\ UNCHANGED <<lists, write>>

Next ==
  \/ \E l \in Link, list \in SUBSET User : Begin(l, list)
  \/ Replace \/ Done \/ Refused \/ Failed \/ Taken \/ Abandoned
  \/ StrayLands \/ StrayLost

Spec == Init /\ [][Next]_vars
=============================================================================
