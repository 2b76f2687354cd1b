----------------------------- MODULE RoleSyncMC -----------------------------
(* RoleSync on small instances: one guild, one channel, one callback.        *)
EXTENDS RoleSync, TLC

CONSTANTS g1

OneGuild == [l \in Link |-> g1]

\* The links start with a rule about the connected channel.
ConfiguredInit == Init /\ \A l \in Link : role_links[l].rule = "channel"

ConfiguredSpec == ConfiguredInit /\ [][Next]_vars

ConfiguredFairSpec == ConfiguredSpec /\ Fairness

Symmetry == Permutations(User) \cup Permutations(Link)
=============================================================================
