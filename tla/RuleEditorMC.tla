---------------------------- MODULE RuleEditorMC ----------------------------
(* RuleEditor with interchangeable tabs and requests.                        *)
EXTENDS RuleEditor, TLC

Bounds(env, faults, removals, busy, syncs) ==
  budget = [env |-> env, faults |-> faults, removals |-> removals, busy |-> busy, syncs |-> syncs]

\* A new link whose channel is connected, and two tabs.
NewInit == Init /\ row.tree = "nobody" /\ row.connected /\ Bounds(0, 0, 0, 2, 0)

NewSpec == NewInit /\ [][Next]_vars

\* A link with a rule about its channel, and one tab while the channel and the link
\* come and go and requests fail.
ConfiguredInit ==
  /\ Init
  /\ row.tree \in ChannelRule /\ row.connected
  /\ Bounds(2, 1, 0, 1, 2) \/ Bounds(1, 1, 1, 1, 1)

MixedSpec == (NewInit \/ ConfiguredInit) /\ [][Next]_vars

Symmetry == Permutations(Tab) \cup Permutations(Save)
=============================================================================
