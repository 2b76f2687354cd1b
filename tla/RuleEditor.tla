----------------------------- MODULE RuleEditor -----------------------------
(***************************************************************************)
(* The rule editor: several dashboard tabs (templates/role_config.html) load, *)
(* edit, refresh and save the rule of one role link, against the handlers    *)
(* role_config_data and role_config_save with their optimistic lock, while   *)
(* the channel is connected and disconnected and the link deleted and        *)
(* registered anew.  A save takes three statements, each a step of its own.  *)
(***************************************************************************)
EXTENDS Naturals, FiniteSets

CONSTANTS
  Tab, Save,     \* dashboard tabs; save requests
  ChannelRule,   \* rules that need a connected channel
  DefaultRule,   \* the one the advanced builder fills an empty rule with: is_follower
  NoRow, NoTab,
  Live, Gone,    \* what an answered save copies: the edit buffer; nothing, the page is gone
  MaxVersion,    \* bound: saves of one row
  MaxId,         \* bound: rows registered
  MaxEnv,        \* bound: connects, disconnects, deletions, reloads of a page
  MaxFaults,     \* bound: requests that end before they are through
  MaxRemovals,   \* bound: removals of the last group
  MaxBusy,       \* bound: tabs open at a time, and saves under way
  MaxSyncs       \* bound: config syncs of the link

Rule == ChannelRule \cup {"nobody", "anyone"}

Row == [id : 1..MaxId, tree : Rule, version : 0..MaxVersion, connected : BOOLEAN]

ASSUME ConstantsAssumption ==
  /\ {"nobody", "anyone"} \cap ChannelRule = {} /\ DefaultRule \in ChannelRule
  /\ NoRow \notin Row /\ NoTab \notin Tab /\ Live # Gone /\ {Live, Gone} \cap Rule = {}
  /\ MaxVersion \in Nat /\ MaxId \in Nat \ {0} /\ MaxEnv \in Nat /\ MaxFaults \in Nat
  /\ MaxRemovals \in Nat /\ MaxBusy \in Nat \ {0} /\ MaxSyncs \in Nat

VARIABLES
  row,       \* the row of role_links
  tab,       \* each tab's page state
  refresh,   \* the answer to each tab's refreshFromServer, under way
  save,      \* the requests
  telling,   \* connects and disconnects past their UPDATE, the event not yet sent: how
             \* many each page waits for, and how many no page does (NoTab)
  due,       \* whether a config event is on its way to the config sync worker
  changed,   \* whether the rule or its channel has changed since the worker read them
  lost,      \* history: a change whose event was never sent, since the last sync
  lastId,    \* of role_links.id
  budget     \* what is left of the bounds

vars == <<row, tab, refresh, save, telling, due, changed, lost, lastId, budget>>

\* config, version, connected, edit and dirty are the page's; shown, id and exact are
\* history: the stored rule the page last loaded or wrote, the row it was in, and
\* whether the version it was given is the one of that rule; clean, that an answered
\* save found the edit buffer as it was sent; refilled, that the buffer holds what the
\* builder put in place of its last group, and the page took it for nothing to save.
Closed == [open |-> FALSE, config |-> "nobody", version |-> 0, connected |-> FALSE,
           edit |-> "nobody", dirty |-> FALSE,
           shown |-> "nobody", id |-> 0, exact |-> TRUE, clean |-> TRUE,
           refilled |-> FALSE]

\* cfg is what the answer will be copied from; seen, id, exact and lapsed are history:
\* what the page showed, and that the channel was disconnected, or the row deleted,
\* after the check.
NoSave == [pc |-> "idle", tab |-> NoTab, tree |-> "nobody", version |-> 0, cfg |-> Gone,
           seen |-> "nobody", id |-> 0, exact |-> TRUE, lapsed |-> FALSE, reply |-> 0]

TabState == [open : BOOLEAN, config : Rule, version : 0..MaxVersion, connected : BOOLEAN,
             edit : Rule, dirty : BOOLEAN,
             shown : Rule, id : 0..MaxId, exact : BOOLEAN, clean : BOOLEAN,
             refilled : BOOLEAN]

SaveState == [pc : {"idle", "sent", "checked", "updated", "saved", "refused"},
              tab : Tab \cup {NoTab}, tree : Rule, version : 0..MaxVersion,
              cfg : Rule \cup {Live, Gone},
              seen : Rule, id : 0..MaxId, exact : BOOLEAN, lapsed : BOOLEAN,
              reply : 0..MaxVersion]

Registered(id) == [id |-> id, tree |-> "nobody", version |-> 0, connected |-> FALSE]

Budget == [env : 0..MaxEnv, faults : 0..MaxFaults, removals : 0..MaxRemovals,
           busy : 1..MaxBusy, syncs : 0..MaxSyncs]

Spend(kind) ==
  /\ budget[kind] > 0
  /\ budget' = [budget EXCEPT ![kind] = @ - 1]

\* A row as the migration or an earlier save left it, and no page open.
Init ==
  /\ row \in [id : {1}, tree : Rule, version : {0}, connected : BOOLEAN]
  /\ tab = [t \in Tab |-> Closed]
  /\ refresh = [t \in Tab |-> NoRow]
  /\ save = [s \in Save |-> NoSave]
  /\ telling = [w \in Tab \cup {NoTab} |-> 0]
  /\ due = FALSE
  /\ changed = FALSE
  /\ lost = FALSE
  /\ lastId = 1
  /\ budget \in Budget

-----------------------------------------------------------------------------
(* The page                                                                  *)

\* load(); a reload ends the page that was open: its requests run on, unheard.  An
\* unconfigured link is offered as "anyone", still to be saved.
Load(t) ==
  /\ row # NoRow
  /\ IF tab[t].open THEN Spend("env")
     ELSE Cardinality({u \in Tab : tab[u].open}) < budget.busy /\ UNCHANGED budget
  /\ LET offered == IF row.tree = "nobody" THEN "anyone" ELSE row.tree IN
       tab' = [tab EXCEPT ![t] =
                 [open |-> TRUE, config |-> row.tree, version |-> row.version,
                  connected |-> row.connected, edit |-> offered, dirty |-> offered # row.tree,
                  shown |-> row.tree, id |-> row.id, exact |-> TRUE, clean |-> TRUE,
                  refilled |-> FALSE]]
  /\ refresh' = [refresh EXCEPT ![t] = NoRow]
  /\ save' = [s \in Save |-> IF save[s].pc # "idle" /\ save[s].tab = t
                             THEN [save[s] EXCEPT !.cfg = Gone] ELSE save[s]]
  /\ telling' = [telling EXCEPT ![NoTab] = @ + telling[t], ![t] = 0]
  /\ UNCHANGED <<row, due, changed, lost, lastId>>

\* choose(), and the advanced builder but for the removal of the last group.
Edit(t, rule) ==
  /\ tab[t].open
  /\ rule # "nobody"
  /\ tab' = [tab EXCEPT ![t].edit = rule, ![t].dirty = rule # tab[t].config,
                        ![t].refilled = FALSE]
  /\ UNCHANGED <<row, refresh, save, telling, due, changed, lost, lastId, budget>>

\* The builder's "remove" on the only group left: whether there is something to save is
\* worked out on the empty rule, which renderRule then fills with the default.
RemoveLastGroup(t) ==
  /\ tab[t].open
  /\ Spend("removals")
  /\ tab[t].edit \in ChannelRule
  /\ tab' = [tab EXCEPT ![t].edit = DefaultRule, ![t].dirty = tab[t].config # "nobody",
                        ![t].refilled = tab[t].config = "nobody"]
  /\ UNCHANGED <<row, refresh, save, telling, due, changed, lost, lastId>>

\* doSave: the button works when there is something to save, and again while an
\* earlier save is on its way.
Send(t, s) ==
  /\ tab[t].open /\ tab[t].dirty
  /\ tab[t].edit \in ChannelRule => tab[t].connected
  /\ save[s] = NoSave
  /\ Cardinality({r \in Save : save[r] # NoSave}) < budget.busy
  /\ save' = [save EXCEPT ![s] =
                [NoSave EXCEPT !.pc = "sent", !.tab = t, !.tree = tab[t].edit,
                               !.version = tab[t].version, !.cfg = Live,
                               !.seen = tab[t].shown, !.id = tab[t].id, !.exact = tab[t].exact]]
  /\ UNCHANGED <<row, tab, refresh, telling, due, changed, lost, lastId, budget>>

\* refreshFromServer, one at a time: the server's answer, and what the page makes of
\* it when it arrives.
RefreshRead(t) ==
  /\ tab[t].open /\ refresh[t] = NoRow
  /\ row # NoRow
  /\ refresh' = [refresh EXCEPT ![t] = row]
  /\ UNCHANGED <<row, tab, save, telling, due, changed, lost, lastId, budget>>

\* Faulty variant: the version is taken over even when the rule is not.
RefreshArrivesVersion(t) ==
  /\ refresh[t] # NoRow
  /\ refresh' = [refresh EXCEPT ![t] = NoRow]
  /\ tab' = [tab EXCEPT ![t].connected = refresh[t].connected, ![t].version = refresh[t].version,
                        ![t].id = refresh[t].id]
  /\ UNCHANGED <<row, save, telling, due, changed, lost, lastId, budget>>

\* A changed rule is taken over, with its version, unless there is something to
\* save.  The same rule may come back written differently and count as changed.
RefreshArrives(t) ==
  /\ refresh[t] # NoRow
  /\ refresh' = [refresh EXCEPT ![t] = NoRow]
  /\ LET d == refresh[t] IN
       \/ /\ ~tab[t].dirty
          /\ d.tree # tab[t].config \/ d.tree \in ChannelRule
          /\ tab' = [tab EXCEPT ![t] =
                       [open |-> TRUE, config |-> d.tree, version |-> d.version,
                        connected |-> d.connected, edit |-> d.tree, dirty |-> FALSE,
                        shown |-> d.tree, id |-> d.id, exact |-> TRUE, clean |-> TRUE,
                        refilled |-> FALSE]]
          /\ save' = [s \in Save |-> IF save[s].tab = t /\ save[s].cfg = Live
                                     THEN [save[s] EXCEPT !.cfg = tab[t].edit] ELSE save[s]]
       \/ /\ tab[t].dirty \/ d.tree = tab[t].config
          /\ tab' = [tab EXCEPT ![t].connected = d.connected]
          /\ UNCHANGED save
  /\ UNCHANGED <<row, telling, due, changed, lost, lastId, budget>>

\* The answer to a save.  On success the page takes the version it is given and
\* copies the edit buffer, as it is by now, into config.
Answer(s) ==
  /\ save[s].pc \in {"saved", "refused"}
  /\ save' = [save EXCEPT ![s] = NoSave]
  /\ LET t == save[s].tab
         cfg == IF save[s].cfg = Live THEN tab[t].edit ELSE save[s].cfg
     IN tab' = IF save[s].pc = "refused" \/ save[s].cfg = Gone THEN tab
               ELSE [tab EXCEPT ![t].version = save[s].reply, ![t].config = cfg,
                                ![t].dirty = FALSE, ![t].refilled = FALSE,
                                ![t].shown = save[s].tree, ![t].id = save[s].id,
                                ![t].exact = save[s].reply = save[s].version + 1,
                                ![t].clean = cfg = save[s].tree /\ tab[t].edit = cfg]
  /\ UNCHANGED <<row, refresh, telling, due, changed, lost, lastId, budget>>

-----------------------------------------------------------------------------
(* role_config_save                                                          *)

Refused(s) == save' = [save EXCEPT ![s].pc = "refused"]

\* A rule about a channel needs one connected.
SaveCheck(s) ==
  /\ save[s].pc = "sent" /\ save[s].tree \in ChannelRule
  /\ IF row # NoRow /\ row.connected THEN save' = [save EXCEPT ![s].pc = "checked"]
     ELSE Refused(s)
  /\ UNCHANGED <<row, tab, refresh, telling, due, changed, lost, lastId, budget>>

\* Ready for the UPDATE.
Checked(s) == save[s].pc = "checked" \/ (save[s].pc = "sent" /\ save[s].tree = "anyone")

\* Faulty variants: the UPDATE without its version, and without the check before it.
SaveUpdateAnyVersion(s) ==
  /\ Checked(s)
  /\ IF row # NoRow
     THEN /\ row.version < MaxVersion
          /\ row' = [row EXCEPT !.tree = save[s].tree, !.version = @ + 1]
          /\ save' = [save EXCEPT ![s].pc = "updated", ![s].id = row.id]
          /\ changed' = TRUE
     ELSE Refused(s) /\ UNCHANGED <<row, changed>>
  /\ UNCHANGED <<tab, refresh, telling, due, lost, lastId, budget>>

SaveUpdateUnchecked(s) ==
  /\ Checked(s) \/ save[s].pc = "sent"
  /\ IF row # NoRow /\ row.version = save[s].version
     THEN /\ row.version < MaxVersion
          /\ row' = [row EXCEPT !.tree = save[s].tree, !.version = @ + 1]
          /\ save' = [save EXCEPT ![s].pc = "updated", ![s].id = row.id]
          /\ changed' = TRUE
     ELSE Refused(s) /\ UNCHANGED <<row, changed>>
  /\ UNCHANGED <<tab, refresh, telling, due, lost, lastId, budget>>

\* The UPDATE with the version the page sent: stored, or else 404 or 409.
SaveUpdate(s) ==
  /\ Checked(s)
  /\ IF row # NoRow /\ row.version = save[s].version
     THEN /\ row.version < MaxVersion
          /\ row' = [row EXCEPT !.tree = save[s].tree, !.version = @ + 1]
          /\ save' = [save EXCEPT ![s].pc = "updated", ![s].id = row.id]
          /\ changed' = TRUE
     ELSE Refused(s) /\ UNCHANGED <<row, changed>>
  /\ UNCHANGED <<tab, refresh, telling, due, lost, lastId, budget>>

\* The version for the answer comes from a statement of its own; then the config event
\* is sent.  A row deleted meanwhile makes it an error.
SaveReadVersion(s) ==
  /\ save[s].pc = "updated"
  /\ IF row # NoRow
     THEN save' = [save EXCEPT ![s].pc = "saved", ![s].reply = row.version] /\ due' = TRUE
     ELSE Refused(s) /\ UNCHANGED due
  /\ UNCHANGED <<row, tab, refresh, telling, changed, lost, lastId, budget>>

\* A statement fails, or the page is gone and the server drops the handler: after the
\* UPDATE the rule is stored and nobody told.
SaveFails(s) ==
  /\ save[s].pc \in {"sent", "checked", "updated"}
  /\ Spend("faults")
  /\ Refused(s)
  /\ lost' = (lost \/ save[s].pc = "updated")
  /\ UNCHANGED <<row, tab, refresh, telling, due, changed, lastId>>

-----------------------------------------------------------------------------
(* The other handlers, and the worker                                        *)

\* The saves that have passed the check.
Lapse == save' = [s \in Save |-> IF save[s].pc = "checked"
                                 THEN [save[s] EXCEPT !.lapsed = TRUE] ELSE save[s]]

\* connect_callback's UPDATE; the cache and the subscriptions come before the event.
Connect ==
  /\ row # NoRow
  /\ Spend("env")
  /\ row' = [row EXCEPT !.connected = TRUE]
  /\ changed' = TRUE
  /\ telling' = [telling EXCEPT ![NoTab] = @ + 1]
  /\ UNCHANGED <<tab, refresh, save, due, lost, lastId>>

\* Faulty variants: the rule goes with the channel; the worker is not told.
DisconnectAndClear(t) ==
  /\ row # NoRow
  /\ tab[t].open
  /\ Spend("env")
  /\ row' = [row EXCEPT !.connected = FALSE, !.tree = "nobody"]
  /\ changed' = TRUE
  /\ telling' = [telling EXCEPT ![t] = @ + 1]
  /\ Lapse
  /\ UNCHANGED <<tab, refresh, due, lost, lastId>>

DisconnectSilent(t) ==
  /\ row # NoRow
  /\ tab[t].open
  /\ Spend("env")
  /\ row' = [row EXCEPT !.connected = FALSE]
  /\ changed' = TRUE
  /\ Lapse
  /\ UNCHANGED <<tab, refresh, telling, due, lost, lastId>>

\* broadcaster_disconnect's UPDATE; the clean-up, with its calls, comes before the event.
Disconnect(t) ==
  /\ row # NoRow
  /\ tab[t].open
  /\ Spend("env")
  /\ row' = [row EXCEPT !.connected = FALSE]
  /\ changed' = TRUE
  /\ telling' = [telling EXCEPT ![t] = @ + 1]
  /\ Lapse
  /\ UNCHANGED <<tab, refresh, due, lost, lastId>>

\* Their end: the config event is sent, and the page that disconnects takes note of it.
Tell(w) ==
  /\ telling[w] > 0
  /\ telling' = [telling EXCEPT ![w] = @ - 1]
  /\ due' = TRUE
  /\ tab' = [t \in Tab |-> IF t = w THEN [tab[t] EXCEPT !.connected = FALSE] ELSE tab[t]]
  /\ UNCHANGED <<row, refresh, save, changed, lost, lastId, budget>>

\* The gateway fails the callback, or the page is gone and the server drops the handler,
\* before the event is sent.
TellFails(w) ==
  /\ telling[w] > 0
  /\ Spend("faults")
  /\ telling' = [telling EXCEPT ![w] = @ - 1]
  /\ lost' = TRUE
  /\ UNCHANGED <<row, tab, refresh, save, due, changed, lastId>>

\* delete_config, or delete_orphan_role_link.
DeleteRow ==
  /\ row # NoRow
  /\ Spend("env")
  /\ row' = NoRow
  /\ changed' = FALSE
  /\ Lapse
  /\ UNCHANGED <<tab, refresh, telling, due, lost, lastId>>

\* register: a new row starts at version 0 again.
Register ==
  /\ row = NoRow
  /\ lastId < MaxId
  /\ lastId' = lastId + 1
  /\ row' = Registered(lastId')
  /\ UNCHANGED <<tab, refresh, save, telling, due, changed, lost, budget>>

\* The config sync worker reads the row.
ConfigSync ==
  /\ due
  /\ Spend("syncs")
  /\ due' = FALSE
  /\ changed' = FALSE
  /\ lost' = FALSE
  /\ UNCHANGED <<row, tab, refresh, save, telling, lastId>>

Next ==
  \/ \E t \in Tab : \/ Load(t) \/ RefreshRead(t) \/ RefreshArrives(t) \/ Disconnect(t)
                    \/ RemoveLastGroup(t)
                    \/ \E rule \in Rule : Edit(t, rule)
                    \/ \E s \in Save : Send(t, s)
  \/ \E s \in Save : \/ SaveCheck(s) \/ SaveUpdate(s) \/ SaveReadVersion(s) \/ SaveFails(s)
                     \/ Answer(s)
  \/ \E w \in Tab \cup {NoTab} : Tell(w) \/ TellFails(w)
  \/ Connect \/ DeleteRow \/ Register \/ ConfigSync

Spec == Init /\ [][Next]_vars

-----------------------------------------------------------------------------
(* Properties                                                                *)

\* Types, and: no save stores the unconfigured rule, and none wears off.
TypeOK ==
  /\ row \in Row \cup {NoRow}
  /\ row # NoRow => (row.id <= lastId /\ (row.version > 0 => row.tree # "nobody"))
  /\ tab \in [Tab -> TabState]
  /\ refresh \in [Tab -> Row \cup {NoRow}]
  /\ save \in [Save -> SaveState]
  /\ \A s \in Save : save[s].pc # "idle" => save[s].tab \in Tab /\ save[s].tree # "nobody"
  /\ telling \in [Tab \cup {NoTab} -> Nat]
  /\ due \in BOOLEAN /\ changed \in BOOLEAN /\ lost \in BOOLEAN
  /\ lastId \in 1..MaxId
  /\ budget \in Budget

\* A page with the current version shows the stored rule: what it last loaded or wrote
\* is what is stored, and, unless something is left to save, its buffer holds
\* it.  The exceptions have names: a save's answer gave it the version of another tab's
\* save (not exact), or was copied from a buffer edited since it was sent (not clean), or
\* the only group of a link not yet configured was removed and the default stands in its
\* place with nothing to save (refilled).
ShowsStored ==
  \A t \in Tab :
    (/\ tab[t].open /\ tab[t].exact
     /\ row # NoRow /\ tab[t].id = row.id /\ tab[t].version = row.version) =>
      /\ tab[t].shown = row.tree
      /\ tab[t].clean =>
           /\ tab[t].config = row.tree
           /\ \/ tab[t].dirty \/ tab[t].edit = row.tree
              \/ tab[t].refilled /\ row.tree = "nobody"

Stores(s) == save[s].pc # "updated" /\ save'[s].pc = "updated"

\* A save replaces only the rule its page last loaded or wrote, unless the page had the
\* version of another tab's save, or the row was deleted and registered anew.
ReplacesWhatWasShown ==
  [][\A s \in Save : Stores(s) =>
       row.tree = save[s].seen \/ ~save[s].exact \/ row.id # save[s].id]_vars

\* A rule about a channel is stored only while one is connected, unless the channel was
\* disconnected, or the row deleted, between the check and the UPDATE.
NoNoopRule ==
  [][\A s \in Save : (Stores(s) /\ save[s].tree \in ChannelRule) =>
       row.connected \/ save[s].lapsed]_vars

\* The config sync worker has synced the stored rule and channel, or an event will
\* make it, or a save, a connect or a disconnect is about to send one, or one of them
\* ended between its UPDATE and the event.
ChangeReachesWorker ==
  changed => \/ due \/ lost
             \/ \E s \in Save : save[s].pc = "updated"
             \/ \E w \in Tab \cup {NoTab} : telling[w] > 0

-----------------------------------------------------------------------------
(* What the repository says and the code does not keep                       *)

\* "only update if the version still matches what the editor loaded, so a second tab
\* can't silently clobber", admin.rs: a save replaces only the rule its page last
\* loaded or wrote.  The code does not keep this: the version in a save's answer is
\* read after the UPDATE by a statement of its own, and may be another tab's.
NoSilentClobber == [][\A s \in Save : Stores(s) => row.tree = save[s].seen]_vars
=============================================================================
