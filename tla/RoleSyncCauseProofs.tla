------------------------ MODULE RoleSyncCauseProofs ------------------------
(***************************************************************************)
(* An unlinked user keeps a role only for a named reason.  The invariant    *)
(* says of a user whose last unlink the worker has taken up on its own      *)
(* (Forsaken) that whoever still holds the user by name can only take roles *)
(* away.  So no step adds such a user to a list or clears one of suspicion, *)
(* and while the strip runs, what it knows of the lists (TaskKnows, of      *)
(* DriftInv) says which links it still has to call for.                     *)
(*                                                                          *)
(* And a link that lives loses its row only to an old token.  The invariant *)
(* follows every copy of a row: none has a token from the future, and what  *)
(* a task was told is gone has been deleted since the copy was made.        *)
(***************************************************************************)
EXTENDS RoleSyncProofs

\* The worker is taking l from u.
Departing(l, u) ==
  /\ task[Worker].user = u
  /\ \/ task[Worker].pc = "assignments"
     \/ task[Worker].pc = "strip" /\ task[Worker].at[l] # "none"

\* The property, in the terms of the invariant; the second for the state after a step.
LEMMA RoleMeansDeparting ==
  NoRoleAfterUnlink <=>
    \A l \in Link, u \in User :
      Forsaken(u) /\ <<l, u>> \in remote => <<l, u>> \in suspect \/ Departing(l, u)
BY DEF NoRoleAfterUnlink, Forsaken, Departing

LEMMA RoleMeansDepartingNext ==
  (\A l \in Link, u \in User :
     Forsaken(u)' /\ <<l, u>> \in remote' => <<l, u>> \in suspect' \/ Departing(l, u)')
  => NoRoleAfterUnlink'
BY DEF NoRoleAfterUnlink, Forsaken, Departing

\* What a task does by itself, failures included.
TaskStepOf(p) ==
  \/ SyncStep(p) \/ SyncFails(p) \/ StripFails(p)
  \/ \E l \in Link : CallFails(p, l) \/ OrphanStays(p, l)
  \/ p \in Callback /\ CallbackDropped(p)

LEMMA MovedTask ==
  ASSUME TypeOK, NEW p \in Proc, NEW l \in Link, task' = [task EXCEPT ![p] = Moved(@, l, "none")]
  PROVE  \/ task'[p] = Idle /\ task[p].pc = "apply"
         \/ task'[p].user = task[p].user /\ task'[p].pc = task[p].pc
<1>1. task'[p] = Moved(task[p], l, "none")
  BY DEF TypeOK
<1>2. task[p] \in TaskState
  BY DEF TypeOK
<1> QED BY <1>1, <1>2 DEF Moved, TaskState

LEMMA StagedTask ==
  ASSUME TypeOK, NEW p \in Proc, NEW l \in Link, NEW stage \in Stage,
         task' = [task EXCEPT ![p].at[l] = stage]
  PROVE  task'[p].user = task[p].user /\ task'[p].pc = task[p].pc
<1>1. task'[p] = [task[p] EXCEPT !.at[l] = stage]
  BY DEF TypeOK
<1>2. task[p] \in TaskState
  BY DEF TypeOK
<1> QED BY <1>1, <1>2 DEF TaskState

LEMMA ReadTask ==
  ASSUME NEW t \in TaskState, NEW pc, NEW a, NEW b
  PROVE  /\ [t EXCEPT !.pc = pc, !.guilds = a, !.rows = b].user = t.user
         /\ [t EXCEPT !.pc = pc, !.channels = a, !.at = b].user = t.user
         /\ [t EXCEPT !.pc = pc, !.rows = a, !.at = b].user = t.user
         /\ [t EXCEPT !.pc = pc, !.rows = a, !.at = b].pc = pc
         /\ [t EXCEPT !.pc = pc, !.guilds = a].user = t.user
         /\ [t EXCEPT !.pc = pc, !.channels = a].user = t.user
         /\ [t EXCEPT !.pc = pc].user = t.user
BY DEF TaskState

\* A task keeps its user until it ends; only for a linked user does it get past its
\* first read, and a strip ends by wiping the mirror or by failing.
LEMMA TaskKeepsUser ==
  ASSUME TypeOK, NEW p \in Proc, TaskStepOf(p)
  PROVE  /\ \A q \in Proc \ {p} : task'[q] = task[q]
         /\ \/ /\ task'[p] = Idle
               /\ task[p].pc \in {"assignments", "strip"} =>
                    p \in Callback \/ StripFails(p) \/ WipeMirror(p)
            \/ /\ task'[p].user = task[p].user
               /\ \/ task'[p].pc = task[p].pc
                  \/ task[p].pc = "linked" /\ task[p].user \in linked_accounts
                  \/ task[p].pc = "assignments" /\ task'[p].pc = "strip"
                  \/ task[p].pc \in {"guilds", "links", "cache", "existing"}
<1>0. \A t : task' = [task EXCEPT ![p] = t] => \A q \in Proc \ {p} : task'[q] = task[q]
  BY DEF TypeOK
<1>1. CASE \E l \in Link : \/ CallDeclined(p, l) \/ CallFails(p, l) \/ WriteMirror(p, l)
                           \/ MirrorWriteFails(p, l) \/ DeleteOrphan(p, l) \/ OrphanStays(p, l)
  <2>1. PICK l \in Link : task' = [task EXCEPT ![p] = Moved(@, l, "none")]
    BY <1>1 DEF CallDeclined, CallFails, WriteMirror, MirrorWriteFails, DeleteOrphan, OrphanStays
  <2> QED BY <2>1, MovedTask DEF TypeOK
<1>2. CASE \E l \in Link : CallAccepted(p, l) \/ CallFindsLinkGone(p, l) \/ StripCall(p, l)
  <2>1. PICK l \in Link, stage \in Stage : task' = [task EXCEPT ![p].at[l] = stage]
    BY <1>2 DEF CallAccepted, CallFindsLinkGone, StripCall, Stage
  <2> QED BY <2>1, StagedTask DEF TypeOK
<1>3. CASE ReadLinked(p)
  <2>1. PICK t : /\ task' = [task EXCEPT ![p] = t]
                 /\ task[p].pc = "linked"
                 /\ \/ t = Idle
                    \/ t = [task[p] EXCEPT !.pc = "guilds"] /\ task[p].user \in linked_accounts
    BY <1>3 DEF ReadLinked
  <2>2. task'[p] = t /\ task[p] \in TaskState
    BY <2>1 DEF TypeOK
  <2>3. [task[p] EXCEPT !.pc = "guilds"].user = task[p].user
    BY <2>2, ReadTask
  <2>4. \A q \in Proc \ {p} : task'[q] = task[q]
    BY <1>0, <2>1
  <2> QED BY <2>1, <2>2, <2>3, <2>4
<1>4. CASE ReadGuilds(p)
  <2> DEFINE guilds == {g \in Guild : <<g, task[p].user>> \in members}
  <2>1. PICK t : /\ task' = [task EXCEPT ![p] = t]
                 /\ task[p].pc = "guilds"
                 /\ t = Idle \/ t = [task[p] EXCEPT !.pc = "links", !.guilds = guilds]
    BY <1>4 DEF ReadGuilds
  <2> HIDE DEF guilds
  <2>2. task'[p] = t /\ task[p] \in TaskState
    BY <2>1 DEF TypeOK
  <2>3. [task[p] EXCEPT !.pc = "links", !.guilds = guilds].user = task[p].user
    BY <2>2, ReadTask
  <2>4. \A q \in Proc \ {p} : task'[q] = task[q]
    BY <1>0, <2>1
  <2> QED BY <2>1, <2>2, <2>3, <2>4
<1>5. CASE ReadLinks(p)
  <2> DEFINE rows == [l \in Link |-> IF GuildOf[l] \in task[p].guilds THEN role_links[l] ELSE NoRow]
  <2>1. PICK t : /\ task' = [task EXCEPT ![p] = t]
                 /\ task[p].pc = "links"
                 /\ t = Idle \/ t = [task[p] EXCEPT !.pc = "cache", !.guilds = {}, !.rows = rows]
    BY <1>5 DEF ReadLinks
  <2> HIDE DEF rows
  <2>2. task'[p] = t /\ task[p] \in TaskState
    BY <2>1 DEF TypeOK
  <2>3. [task[p] EXCEPT !.pc = "cache", !.guilds = {}, !.rows = rows].user = task[p].user
    BY <2>2, ReadTask
  <2>4. \A q \in Proc \ {p} : task'[q] = task[q]
    BY <1>0, <2>1
  <2> QED BY <2>1, <2>2, <2>3, <2>4
<1>6. CASE ReadCache(p)
  <2>1. /\ task' = [task EXCEPT ![p] = [task[p] EXCEPT !.pc = "existing",
                                                       !.channels = ChannelsOf(task[p].user)]]
        /\ task[p].pc = "cache"
    BY <1>6 DEF ReadCache
  <2> QED BY <2>1, ReadTask DEF TypeOK
<1>7. CASE ReadExisting(p)
  <2>1. PICK t : /\ task' = [task EXCEPT ![p] = t]
                 /\ task[p].pc = "existing"
                 /\ t = Idle \/ t = [task[p] EXCEPT !.pc = "apply", !.channels = {}, !.at = Plan(p)]
    BY <1>7 DEF ReadExisting
  <2>2. task'[p] = t /\ task[p] \in TaskState
    BY <2>1 DEF TypeOK
  <2>3. [task[p] EXCEPT !.pc = "apply", !.channels = {}, !.at = Plan(p)].user = task[p].user
    BY <2>2, ReadTask
  <2>4. \A q \in Proc \ {p} : task'[q] = task[q]
    BY <1>0, <2>1
  <2> QED BY <2>1, <2>2, <2>3, <2>4
<1>8. CASE ReadAssignments(p)
  <2> DEFINE held(l) == <<l, task[p].user>> \in role_assignments /\ role_links[l] # NoRow
             rows == [l \in Link |-> IF held(l) THEN role_links[l] ELSE NoRow]
             at == [l \in Link |-> IF held(l) THEN "remove" ELSE "none"]
  <2>1. /\ task' = [task EXCEPT ![p] = [task[p] EXCEPT !.pc = "strip", !.rows = rows, !.at = at]]
        /\ task[p].pc = "assignments"
    BY <1>8 DEF ReadAssignments
  <2> HIDE DEF rows, at
  <2> QED BY <2>1, ReadTask DEF TypeOK
<1>9. CASE SyncFails(p) \/ StripFails(p) \/ WipeMirror(p) \/ (p \in Callback /\ CallbackDropped(p))
  <2>1. task' = [task EXCEPT ![p] = Idle]
    BY <1>9 DEF SyncFails, StripFails, WipeMirror, CallbackDropped
  <2>2. SyncFails(p) => task[p].pc \notin {"assignments", "strip"}
    BY DEF SyncFails
  <2> QED BY <1>9, <2>1, <2>2 DEF TypeOK
<1> QED BY <1>1, <1>2, <1>3, <1>4, <1>5, <1>6, <1>7, <1>8, <1>9 DEF TaskStepOf, SyncStep

\* ... and what it changes besides: a list or a suspicion only for the user of a sync
\* that makes its calls, unless it makes the pair suspect.
LEMMA TaskTouches ==
  ASSUME TypeOK, NEW p \in Proc, TaskStepOf(p)
  PROVE  /\ UNCHANGED <<linked_accounts, raced, config>>
         /\ queue' = queue \/ \E u \in User : queue' = Append(queue, [kind |-> "linked", user |-> u])
         /\ \A l \in Link, u \in User :
              /\ <<l, u>> \in remote' /\ <<l, u>> \notin suspect'
              /\ ~(task[p].user = u /\ task[p].pc = "apply")
              => <<l, u>> \in remote /\ <<l, u>> \notin suspect
<1>1. CASE \/ ReadLinked(p) \/ ReadGuilds(p) \/ ReadLinks(p) \/ ReadCache(p) \/ ReadExisting(p)
           \/ SyncFails(p) \/ WipeMirror(p)
           \/ \E l \in Link : CallDeclined(p, l) \/ CallFindsLinkGone(p, l) \/ WriteMirror(p, l)
  <2>1. SyncFails(p) => task[p].user \in User
    BY TaskUser DEF SyncFails
  <2> QED BY <1>1, <2>1 DEF ReadLinked, ReadGuilds, ReadLinks, ReadCache, ReadExisting, SyncFails, WipeMirror,
             CallDeclined, CallFindsLinkGone, WriteMirror, db, rlogic, ghosts
<1>2. CASE \E l \in Link : CallAccepted(p, l)
  BY <1>2 DEF CallAccepted, Calling, Carried, Settled, db
<1>3. CASE \E l \in Link : CallFails(p, l)
  BY <1>3 DEF CallFails, Calling, Carried, db
<1>4. CASE \E l \in Link : MirrorWriteFails(p, l) \/ OrphanStays(p, l)
  BY <1>4 DEF MirrorWriteFails, OrphanStays, db, rlogic
<1>5. CASE \E l \in Link : DeleteOrphan(p, l)
  BY <1>5 DEF DeleteOrphan, DropRow, PairsOf, rlogic
<1>6. CASE ReadAssignments(p) \/ StripFails(p) \/ (p \in Callback /\ CallbackDropped(p))
  BY <1>6 DEF ReadAssignments, StripFails, CallbackDropped, db, rlogic
<1>7. CASE \E l \in Link : StripCall(p, l)
  BY <1>7 DEF StripCall, db
<1> QED BY <1>1, <1>2, <1>3, <1>4, <1>5, <1>6, <1>7 DEF TaskStepOf, SyncStep

\* An event more, a user linked or known to be raced: nobody becomes forsaken.
LEMMA WasForsaken ==
  ASSUME TypeOK, NEW u \in User, Forsaken(u)',
         u \in linked_accounts => u \in linked_accounts',
         raced \subseteq raced',
         queue' = queue \/ \E e \in Event : queue' = Append(queue, e)
  PROVE  Forsaken(u)
<1>1. u \notin linked_accounts \cup raced
  BY DEF Forsaken
<1>2. ASSUME NEW i \in DOMAIN queue PROVE i \in DOMAIN queue' /\ queue'[i] = queue[i]
  <2>1. queue \in Seq(Event) /\ i \in 1..Len(queue)
    BY <1>2 DEF TypeOK
  <2>2. CASE queue' = queue
    BY <1>2, <2>2
  <2>3. ASSUME NEW e \in Event, queue' = Append(queue, e)
        PROVE  i \in DOMAIN queue' /\ queue'[i] = queue[i]
    BY <2>1, <2>3
  <2> QED BY <2>2, <2>3
<1>3. \A i \in DOMAIN queue : queue[i] # [kind |-> "unlinked", user |-> u]
  BY <1>2 DEF Forsaken
<1> QED BY <1>1, <1>3 DEF Forsaken

\* A task's step: the part of UnlinkInv that DriftInv does not cover.
LEMMA UnlinkTask ==
  ASSUME UnlinkInv, DriftInv', NEW p \in Proc, TaskStepOf(p)
  PROVE  NoRoleAfterUnlink' /\ ForsakenForGood' /\ ListIsFresh'
<1>1. TypeOK
  BY DEF UnlinkInv, DriftInv
<1>2. UNCHANGED <<linked_accounts, raced, config>>
  BY <1>1, TaskTouches
<1>3. ASSUME NEW u \in User, Forsaken(u)' PROVE Forsaken(u) /\ NobodyAdds(u)
  <2>1. queue' = queue \/ \E e \in Event : queue' = Append(queue, e)
    BY <1>1, TaskTouches DEF Event
  <2> QED BY <1>1, <1>2, <1>3, <2>1, WasForsaken DEF UnlinkInv, ForsakenForGood
<1>4. Worker \in Proc /\ Callback \subseteq Proc /\ Worker \notin Callback
  BY ConstantsAssumption DEF Proc
<1>5. ListIsFresh'
  BY <1>2 DEF UnlinkInv, ListIsFresh
<1>6. ASSUME NEW u \in User, Forsaken(u)' PROVE NobodyAdds(u)'
  <2>1. Forsaken(u) /\ NobodyAdds(u)
    BY <1>3, <1>6
  <2>2. Idle.user # u
    BY ConstantsAssumption DEF Idle
  <2>3. \A q \in Callback : task'[q].user # u
    BY <1>1, <1>4, <2>1, <2>2, TaskKeepsUser DEF NobodyAdds
  <2>4. task'[Worker].user = u => task'[Worker].pc \in {"linked", "assignments", "strip"}
    BY <1>1, <1>4, <2>1, <2>2, TaskKeepsUser DEF NobodyAdds, Forsaken
  <2> QED BY <1>2, <2>1, <2>3, <2>4 DEF NobodyAdds
<1>7. ASSUME NEW l \in Link, NEW u \in User, Forsaken(u)', <<l, u>> \in remote', <<l, u>> \notin suspect'
      PROVE  Departing(l, u)'
  <2>1. Forsaken(u) /\ NobodyAdds(u)
    BY <1>3, <1>7
  <2>2. task[p].user = u => p = Worker /\ task[p].pc \in {"linked", "assignments", "strip"}
    BY <2>1 DEF NobodyAdds, Proc
  <2>3. <<l, u>> \in remote /\ <<l, u>> \notin suspect
    BY <1>1, <1>7, <2>2, TaskTouches
  <2>4. Departing(l, u)
    BY <2>1, <2>3, RoleMeansDeparting DEF UnlinkInv
  <2>5. CASE p # Worker
    <3>1. task'[Worker] = task[Worker]
      BY <1>1, <1>4, <2>5, TaskKeepsUser
    <3> QED BY <2>4, <3>1 DEF Departing
  <2>6. CASE p = Worker
    <3>1. task[p].user = u /\ task[p].pc \in {"assignments", "strip"}
      BY <2>4, <2>6 DEF Departing
    <3>2. ~StripFails(p)
      BY <1>7, <3>1 DEF StripFails, PairsBy
    <3>3. ~WipeMirror(p)
      BY <2>4, <2>6 DEF WipeMirror, Departing, Resting
    <3>4. task'[p].user = u /\ task'[p].pc \in {"assignments", "strip"}
      BY <1>1, <1>4, <2>6, <3>1, <3>2, <3>3, TaskKeepsUser
    <3>5. Sound(l, u)'
      BY <1>7 DEF DriftInv, PairsSound
    <3>6. task'[p].pc = "strip" => task'[p].at[l] # "none"
      BY <1>7, <3>4, <3>5 DEF Sound, TaskKnows
    <3> QED BY <2>6, <3>4, <3>6 DEF Departing
  <2> QED BY <2>5, <2>6
<1> QED BY <1>5, <1>6, <1>7, RoleMeansDepartingNext DEF ForsakenForGood

\* The list a config sync holds is empty, has just been queried or is being sent.
LEMMA ListOrigin ==
  ASSUME TypeOK, ListIsFresh, ConfigStep \/ ConfigAnswerLost
  PROVE  \/ config'.list = {}
         \/ config'.pc = "upload" /\ config'.list \subseteq linked_accounts
         \/ ConfigUploaded /\ config'.pc = "mirror" /\ config'.list = config.list
<1>1. config \in ConfigState /\ ConfigIdle.list = {}
  BY DEF TypeOK, ConfigIdle
<1>2. ASSUME NEW c \in ConfigState, NEW pc, NEW a, NEW b
      PROVE  /\ [c EXCEPT !.pc = pc].list = c.list /\ [c EXCEPT !.pc = pc].pc = pc
             /\ [[c EXCEPT !.row = a] EXCEPT !.pc = pc].list = c.list
             /\ [c EXCEPT !.pc = pc, !.members = a].list = c.list
             /\ [c EXCEPT !.pc = pc, !.members = a, !.list = b].list = b
             /\ [c EXCEPT !.pc = pc, !.list = a, !.members = b].list = a
             /\ [c EXCEPT !.pc = pc, !.list = a, !.members = b].pc = pc
  BY DEF ConfigState
<1>3. CASE \E l \in Link : ConfigStart(l)
  BY <1>3 DEF ConfigStart, ConfigIdle
<1>4. CASE \/ ConfigGivesUp \/ ConfigHeld \/ ConfigAnswerLost \/ ConfigDeleteOrphan \/ ConfigWriteMirror
           \/ ConfigMirrorWriteFails
  BY <1>1, <1>4 DEF ConfigGivesUp, ConfigHeld, ConfigAnswerLost, ConfigDeleteOrphan, ConfigWriteMirror,
         ConfigMirrorWriteFails
<1>5. CASE ConfigReadLink
  <2>1. config.list = {}
    BY <1>5 DEF ConfigReadLink, ListIsFresh
  <2>2. \/ config' = ConfigIdle
        \/ config' = [[config EXCEPT !.row = role_links[config.link]] EXCEPT !.pc = "upload"]
        \/ config' = [[config EXCEPT !.row = role_links[config.link]] EXCEPT !.pc = "members"]
    BY <1>5 DEF ConfigReadLink
  <2>3. /\ [[config EXCEPT !.row = role_links[config.link]] EXCEPT !.pc = "upload"].list = config.list
        /\ [[config EXCEPT !.row = role_links[config.link]] EXCEPT !.pc = "members"].list = config.list
    BY <1>1, <1>2
  <2> QED BY <1>1, <2>1, <2>2, <2>3
<1>6. CASE ConfigReadMembers
  <2> DEFINE ids == {u \in User : <<GuildOf[config.link], u>> \in members}
  <2>1. config.list = {}
    BY <1>6 DEF ConfigReadMembers, ListIsFresh
  <2>2. \/ config' = [config EXCEPT !.pc = "upload", !.list = {}, !.members = {}]
        \/ config' = [config EXCEPT !.pc = "info", !.members = ids]
    BY <1>6 DEF ConfigReadMembers, ToUpload
  <2> HIDE DEF ids
  <2>3. /\ [config EXCEPT !.pc = "upload", !.list = {}, !.members = {}].list = {}
        /\ [config EXCEPT !.pc = "info", !.members = ids].list = config.list
    BY <1>1, <1>2
  <2> QED BY <2>1, <2>2, <2>3
<1>7. CASE ConfigReadInfo
  <2>1. config.list = {} /\ config' = [config EXCEPT !.pc = "query"]
    BY <1>7 DEF ConfigReadInfo, ListIsFresh
  <2> QED BY <1>1, <1>2, <2>1
<1>8. CASE ConfigQuery
  <2>1. PICK list \in QualifyingLists :
          config' = [config EXCEPT !.pc = "upload", !.list = list, !.members = {}]
    BY <1>8 DEF ConfigQuery, ToUpload
  <2>2. list \subseteq linked_accounts
    BY DEF QualifyingLists
  <2> QED BY <1>1, <1>2, <2>1, <2>2
<1>9. CASE ConfigFindsLinkGone
  <2>1. config' = [config EXCEPT !.pc = "orphan", !.members = {}, !.list = {}]
    BY <1>9 DEF ConfigFindsLinkGone
  <2> QED BY <1>1, <1>2, <2>1
<1>10. CASE ConfigUploaded
  <2>1. config' = [config EXCEPT !.pc = "mirror"]
    BY <1>10 DEF ConfigUploaded
  <2> QED BY <1>1, <1>2, <1>10, <2>1
<1> QED BY <1>3, <1>4, <1>5, <1>6, <1>7, <1>8, <1>9, <1>10 DEF ConfigStep

\* A replacing write takes effect for users of its list, whom it clears of suspicion.
LEMMA ConfigTouches ==
  ASSUME TypeOK, ConfigStep \/ ConfigAnswerLost, NEW l \in Link, NEW u \in User, u \notin config.list,
         <<l, u>> \in remote', <<l, u>> \notin suspect'
  PROVE  <<l, u>> \in remote /\ <<l, u>> \notin suspect
<1>1. CASE ConfigUploaded
  BY <1>1 DEF ConfigUploaded, Replaced, Settled, PairsOf
<1>2. CASE ConfigAnswerLost
  BY <1>2 DEF ConfigAnswerLost, Replaced, PairsOf
<1>3. CASE ConfigDeleteOrphan
  BY <1>3 DEF ConfigDeleteOrphan, DropRow, PairsOf, rlogic
<1>4. CASE ~(ConfigUploaded \/ ConfigAnswerLost \/ ConfigDeleteOrphan)
  BY <1>4 DEF ConfigStep, ConfigStart, ConfigReadLink, ConfigReadMembers, ConfigReadInfo, ConfigQuery,
         ConfigGivesUp, ConfigFindsLinkGone, ConfigHeld, ConfigWriteMirror, ConfigMirrorWriteFails,
         rlogic, ghosts
<1> QED BY <1>1, <1>2, <1>3, <1>4

\* The config sync worker's step.
LEMMA UnlinkConfig ==
  ASSUME UnlinkInv, ConfigStep \/ ConfigAnswerLost
  PROVE  NoRoleAfterUnlink' /\ ForsakenForGood' /\ ListIsFresh'
<1>1. UNCHANGED <<linked_accounts, raced, queue, task>>
  BY DEF ConfigStep, ConfigStart, ConfigReadLink, ConfigReadMembers, ConfigReadInfo, ConfigQuery, ConfigGivesUp,
         ConfigFindsLinkGone, ConfigUploaded, ConfigHeld, ConfigAnswerLost, ConfigDeleteOrphan,
         ConfigWriteMirror, ConfigMirrorWriteFails, db, ghosts
<1>2. /\ TypeOK /\ ListIsFresh
      /\ \A u \in User : Forsaken(u) => NobodyAdds(u)
  BY DEF UnlinkInv, DriftInv, ForsakenForGood
<1>3. ListIsFresh'
  BY <1>2, ListOrigin DEF ListIsFresh
<1>4. ASSUME NEW u \in User, Forsaken(u)' PROVE Forsaken(u) /\ NobodyAdds(u)
  BY <1>1, <1>2, <1>4 DEF Forsaken
<1>5. ASSUME NEW u \in User, Forsaken(u)' PROVE NobodyAdds(u)'
  <2>1. u \notin config'.list
    BY <1>2, <1>4, <1>5, ListOrigin DEF NobodyAdds, Forsaken
  <2> QED BY <1>1, <1>4, <1>5, <2>1 DEF NobodyAdds
<1>6. ASSUME NEW l \in Link, NEW u \in User, Forsaken(u)', <<l, u>> \in remote', <<l, u>> \notin suspect'
      PROVE  Departing(l, u)'
  <2>1. <<l, u>> \in remote /\ <<l, u>> \notin suspect
    BY <1>2, <1>4, <1>6, ConfigTouches DEF NobodyAdds
  <2>2. Departing(l, u)
    BY <1>4, <1>6, <2>1, RoleMeansDeparting DEF UnlinkInv
  <2> QED BY <1>1, <2>2 DEF Departing
<1> QED BY <1>3, <1>5, <1>6, RoleMeansDepartingNext DEF ForsakenForGood

\* Requests and outside changes: whoever unlinks has an event queued or is known to be
\* raced, and a callback begins with a user it has linked.
LEMMA UnlinkRequests ==
  ASSUME UnlinkInv, \/ Environment
                    \/ \E w \in User : LinkAccountCut(w) \/ UnlinkCut(w)
  PROVE  NoRoleAfterUnlink' /\ ForsakenForGood' /\ ListIsFresh'
<1>1. TypeOK
  BY DEF UnlinkInv, DriftInv
<1>2. config' = config
  BY DEF Environment, Unlink, LinkAccount, LinkAccountCut, UnlinkCut, FactChanges, MembershipChanges, Register,
         DeleteConfig, Disconnect, ToggleLink, DeleteLink, CreateLink, SaveRule, ConnectChannel,
         CleanupExpired
<1>3. \A l \in Link, u \in User :
        <<l, u>> \in remote' /\ <<l, u>> \notin suspect' => <<l, u>> \in remote /\ <<l, u>> \notin suspect
  BY DEF Environment, Unlink, LinkAccount, LinkAccountCut, UnlinkCut, FactChanges, MembershipChanges, Register,
         DeleteConfig, Disconnect, ToggleLink, DeleteLink, CreateLink, SaveRule, ConnectChannel,
         CleanupExpired, DropRow, PairsOf, rlogic, ghosts
<1>4. ASSUME NEW u \in User, Forsaken(u)' PROVE Forsaken(u)
  <2>1. CASE Unlink(u)
    <3>1. [kind |-> "unlinked", user |-> u] \in Event
      BY DEF Event
    <3>2. Len(queue) + 1 \in DOMAIN queue' /\ queue'[Len(queue) + 1] = [kind |-> "unlinked", user |-> u]
      BY <1>1, <2>1, <3>1 DEF Unlink, TypeOK
    <3> QED BY <1>4, <3>2 DEF Forsaken
  <2>2. CASE UnlinkCut(u)
    BY <1>4, <2>2 DEF UnlinkCut, Forsaken
  <2>3. CASE ~(Unlink(u) \/ UnlinkCut(u))
    <3>1. u \in linked_accounts => u \in linked_accounts'
      <4>1. CASE \E w \in User : Unlink(w) \/ UnlinkCut(w)
        BY <2>3, <4>1 DEF Unlink, UnlinkCut
      <4>2. CASE \E w \in User : LinkAccountCut(w) \/ \E p \in Callback : LinkAccount(p, w)
        BY <4>2 DEF LinkAccount, LinkAccountCut
      <4>3. CASE ~\E w \in User : \/ Unlink(w) \/ UnlinkCut(w) \/ LinkAccountCut(w)
                                 \/ \E p \in Callback : LinkAccount(p, w)
        <5>1. linked_accounts' = linked_accounts
          BY <4>3 DEF Environment, FactChanges, MembershipChanges, Register, DeleteConfig, Disconnect,
                 ToggleLink, DeleteLink, CreateLink, SaveRule, ConnectChannel, CleanupExpired, db
        <5> QED BY <5>1
      <4> QED BY <4>1, <4>2, <4>3
    <3>2. raced \subseteq raced'
      BY DEF Environment, Unlink, LinkAccount, LinkAccountCut, UnlinkCut, FactChanges, MembershipChanges, Register,
             DeleteConfig, Disconnect, ToggleLink, DeleteLink, CreateLink, SaveRule, ConnectChannel,
             CleanupExpired, ghosts
    <3>3. queue' = queue \/ \E e \in Event : queue' = Append(queue, e)
      BY DEF Environment, Unlink, LinkAccount, LinkAccountCut, UnlinkCut, FactChanges, MembershipChanges, Register,
             DeleteConfig, Disconnect, ToggleLink, DeleteLink, CreateLink, SaveRule, ConnectChannel,
             CleanupExpired, Event
    <3> QED BY <1>1, <1>4, <3>1, <3>2, <3>3, WasForsaken
  <2> QED BY <2>1, <2>2, <2>3
<1>5. /\ task'[Worker] = task[Worker]
      /\ \A p \in Callback : task'[p] = task[p] \/ \E w \in linked_accounts' : task'[p].user = w
  <2>1. CASE \E w \in User : \E p \in Callback : LinkAccount(p, w)
    <3>1. PICK w \in User, p \in Callback : LinkAccount(p, w)
      BY <2>1
    <3>2. p \in Proc /\ Worker \in Proc /\ p # Worker /\ Callback \subseteq Proc
      BY ConstantsAssumption DEF Proc
    <3>3. \A q \in Proc \ {p} : task'[q] = task[q]
      BY <1>1, <3>1 DEF LinkAccount, TypeOK
    <3>4. task'[p] = task[p] \/ task'[p] = Begin(w, "linked")
      BY <1>1, <3>1, <3>2 DEF LinkAccount, TypeOK
    <3>5. Begin(w, "linked").user = w /\ w \in linked_accounts'
      BY <3>1 DEF Begin, Idle, LinkAccount
    <3> QED BY <3>2, <3>3, <3>4, <3>5
  <2>2. CASE ~ \E w \in User : \E p \in Callback : LinkAccount(p, w)
    <3>1. task' = task
      BY <2>2 DEF Environment, Unlink, LinkAccountCut, UnlinkCut, FactChanges, MembershipChanges, Register,
             DeleteConfig, Disconnect, ToggleLink, DeleteLink, CreateLink, SaveRule, ConnectChannel,
             CleanupExpired
    <3> QED BY <3>1
  <2> QED BY <2>1, <2>2
<1>6. ListIsFresh'
  BY <1>2 DEF UnlinkInv, ListIsFresh
<1>7. ASSUME NEW u \in User, Forsaken(u)' PROVE NobodyAdds(u)'
  <2>1. NobodyAdds(u) /\ u \notin linked_accounts'
    BY <1>4, <1>7 DEF UnlinkInv, ForsakenForGood, Forsaken
  <2> QED BY <1>2, <1>5, <2>1 DEF NobodyAdds
<1>8. ASSUME NEW l \in Link, NEW u \in User, Forsaken(u)', <<l, u>> \in remote', <<l, u>> \notin suspect'
      PROVE  Departing(l, u)'
  <2>1. Departing(l, u)
    BY <1>3, <1>4, <1>8, RoleMeansDeparting DEF UnlinkInv
  <2> QED BY <1>5, <2>1 DEF Departing
<1> QED BY <1>6, <1>7, <1>8, RoleMeansDepartingNext DEF ForsakenForGood

\* The worker takes the next event: an unlink that nobody else is entangled with is the
\* moment a user becomes forsaken, and what the mirror names is about to go.
LEMMA UnlinkTakeEvent == UnlinkInv /\ TakeEvent => NoRoleAfterUnlink' /\ ForsakenForGood' /\ ListIsFresh'
<1> SUFFICES ASSUME UnlinkInv, TakeEvent PROVE NoRoleAfterUnlink' /\ ForsakenForGood' /\ ListIsFresh'
  OBVIOUS
<1> DEFINE e == Head(queue)
<1>1. TypeOK /\ ListIsFresh
  BY DEF UnlinkInv, DriftInv
<1>2. /\ task[Worker].pc = "idle" /\ queue # <<>> /\ queue' = Tail(queue)
      /\ UNCHANGED <<linked_accounts, remote, config, suspect>>
  BY DEF TakeEvent, db, rlogic
<1>3. queue \in Seq(Event) /\ e \in Event
  BY <1>1, <1>2 DEF TypeOK
<1>4. Worker \in Proc /\ Callback \subseteq Proc /\ Worker \notin Callback
  BY ConstantsAssumption DEF Proc
<1>5. \A p \in Callback : task'[p] = task[p]
  BY <1>1, <1>4 DEF TakeEvent, TypeOK
<1>6. task'[Worker] = Begin(e.user, IF e.kind = "unlinked" THEN "assignments" ELSE "linked")
  BY <1>1, <1>4 DEF TakeEvent, TypeOK
<1>7. task'[Worker].user = e.user /\ task'[Worker].pc = (IF e.kind = "unlinked" THEN "assignments" ELSE "linked")
  BY <1>6 DEF Begin, Idle
<1>8. ASSUME NEW u \in User, Forsaken(u)', ~(e.kind = "unlinked" /\ e.user = u)
      PROVE  Forsaken(u)
  <2>1. u \notin linked_accounts \cup raced
    BY <1>2, <1>8 DEF TakeEvent, Forsaken
  <2>2. ASSUME NEW i \in DOMAIN queue PROVE queue[i] # [kind |-> "unlinked", user |-> u]
    <3>1. CASE i = 1
      BY <1>8, <3>1, <1>2, <1>3
    <3>2. CASE i # 1
      <4>1. i - 1 \in DOMAIN queue' /\ queue'[i - 1] = queue[i]
        BY <1>2, <1>3, <3>2
      <4> QED BY <1>8, <4>1 DEF Forsaken
    <3> QED BY <3>1, <3>2
  <2> QED BY <2>1, <2>2 DEF Forsaken
<1>9. ASSUME NEW u \in User, Forsaken(u)' PROVE NobodyAdds(u)'
  <2>1. (\A p \in Callback : task[p].user # u) /\ u \notin config.list
    <3>1. CASE e.kind = "unlinked" /\ e.user = u
      <4>1. ~Entangled(u)
        BY <1>9, <3>1 DEF TakeEvent, Forsaken
      <4> QED BY <1>1, <4>1 DEF Entangled, ListIsFresh
    <3>2. CASE ~(e.kind = "unlinked" /\ e.user = u)
      BY <1>8, <1>9, <3>2 DEF UnlinkInv, ForsakenForGood, NobodyAdds
    <3> QED BY <3>1, <3>2
  <2> QED BY <1>2, <1>5, <1>7, <2>1 DEF NobodyAdds
<1>10. ASSUME NEW l \in Link, NEW u \in User, Forsaken(u)', <<l, u>> \in remote', <<l, u>> \notin suspect'
       PROVE  Departing(l, u)'
  <2>1. CASE e.kind = "unlinked" /\ e.user = u
    BY <1>7, <2>1 DEF Departing
  <2>2. CASE ~(e.kind = "unlinked" /\ e.user = u)
    <3>1. Departing(l, u)
      BY <1>2, <1>8, <1>10, <2>2, RoleMeansDeparting DEF UnlinkInv
    <3> QED BY <1>2, <3>1 DEF Departing
  <2> QED BY <2>1, <2>2
<1>11. ListIsFresh'
  BY <1>1, <1>2 DEF ListIsFresh
<1> QED BY <1>9, <1>10, <1>11, RoleMeansDepartingNext DEF ForsakenForGood

\* A restart forgets the unlinks under way, and makes their users' pairs suspect.
LEMMA UnlinkCrash == UnlinkInv /\ Crash => NoRoleAfterUnlink' /\ ForsakenForGood' /\ ListIsFresh'
<1> SUFFICES ASSUME UnlinkInv, Crash PROVE NoRoleAfterUnlink' /\ ForsakenForGood' /\ ListIsFresh'
  OBVIOUS
<1>1. \A p \in Proc : task'[p].user = NoUser
  BY DEF Crash, Idle
<1>2. Worker \in Proc /\ Callback \subseteq Proc
  BY DEF Proc
<1>3. config'.list = {}
  BY DEF Crash, ConfigIdle
<1>4. \A u \in User : NobodyAdds(u)'
  BY <1>1, <1>2, <1>3, ConstantsAssumption DEF NobodyAdds
<1>5. ASSUME NEW l \in Link, NEW u \in User, Forsaken(u)', <<l, u>> \in remote', <<l, u>> \notin suspect'
      PROVE  FALSE
  <2>1. <<l, u>> \in remote /\ <<l, u>> \notin suspect /\ ~Unserved(u)
    BY <1>5 DEF Crash, rlogic
  <2>2. Forsaken(u)
    BY <1>5, <2>1 DEF Forsaken, Crash, db, Unserved
  <2>3. Departing(l, u)
    BY <2>1, <2>2, RoleMeansDeparting DEF UnlinkInv
  <2> QED BY <1>2, <2>1, <2>3 DEF Departing, Unserved
<1> QED BY <1>3, <1>4, <1>5, RoleMeansDepartingNext DEF ForsakenForGood, ListIsFresh

\* At the start only linked users are on a list.
LEMMA UnlinkInit == Init => UnlinkInv
<1> SUFFICES ASSUME Init PROVE UnlinkInv
  OBVIOUS
<1>1. config.list = {} /\ \A p \in Proc : task[p].user = NoUser
  BY DEF Init, ConfigIdle, Idle
<1>2. Worker \in Proc /\ Callback \subseteq Proc
  BY DEF Proc
<1>3. ForsakenForGood /\ ListIsFresh
  BY <1>1, <1>2, ConstantsAssumption DEF ForsakenForGood, NobodyAdds, ListIsFresh
<1>4. remote \subseteq Link \X linked_accounts
  BY DEF Init
<1>5. NoRoleAfterUnlink
  BY <1>4 DEF NoRoleAfterUnlink
<1> QED BY <1>3, <1>5, DriftInit DEF UnlinkInv

LEMMA UnlinkStep == UnlinkInv /\ [Next]_vars => UnlinkInv'
<1> SUFFICES ASSUME UnlinkInv, [Next]_vars PROVE UnlinkInv'
  OBVIOUS
<1>1. DriftInv'
  BY DriftStep DEF UnlinkInv
<1> SUFFICES NoRoleAfterUnlink' /\ ForsakenForGood' /\ ListIsFresh'
  BY <1>1 DEF UnlinkInv
<1>2. CASE TakeEvent
  BY <1>2, UnlinkTakeEvent
<1>3. ASSUME NEW p \in Proc, TaskStepOf(p) PROVE NoRoleAfterUnlink' /\ ForsakenForGood' /\ ListIsFresh'
  BY <1>1, <1>3, UnlinkTask
<1>4. CASE ConfigStep \/ ConfigAnswerLost
  BY <1>4, UnlinkConfig
<1>5. CASE Environment \/ \E w \in User : LinkAccountCut(w) \/ UnlinkCut(w)
  BY <1>5, UnlinkRequests
<1>6. CASE Crash
  BY <1>6, UnlinkCrash
<1>7. CASE UNCHANGED vars
  BY <1>7 DEF vars, db, rlogic, ghosts, UnlinkInv, NoRoleAfterUnlink, ForsakenForGood, Forsaken, NobodyAdds,
         ListIsFresh
<1>8. Next => \/ TakeEvent \/ (\E p \in Proc : TaskStepOf(p)) \/ ConfigStep \/ ConfigAnswerLost \/ Environment
              \/ (\E w \in User : LinkAccountCut(w) \/ UnlinkCut(w)) \/ Crash
  BY DEF Next, Fault, TaskStepOf, Proc
<1> QED BY <1>2, <1>3, <1>4, <1>5, <1>6, <1>7, <1>8

\* An unlinked user who is still on a list is there for one of the named reasons,
\* whatever the interleaving of syncs, callbacks, unlinks, faults and restarts.
THEOREM UnlinkCorrect == Spec => []NoRoleAfterUnlink
<1>1. UnlinkInv => NoRoleAfterUnlink
  BY DEF UnlinkInv
<1> QED BY <1>1, UnlinkInit, UnlinkStep, PTL DEF Spec

-----------------------------------------------------------------------------
(* A live row is lost only to an old token                                   *)

\* Past and Dead after a step, of a copy as it was before.
PastNext(l, row) == row # NoRow => row.token <= upstream'[l].token
DeadNext(l, row) == row.token < upstream'[l].token \/ upstream'[l].state = "gone"

\* A link's token only grows, and a deleted link comes back with a new one.
Ageing(l) ==
  /\ upstream[l].token <= upstream'[l].token
  /\ upstream[l].state = "gone"
       => upstream'[l].state = "gone" \/ upstream[l].token < upstream'[l].token

LEMMA UpstreamTyped ==
  ASSUME TypeOK, NEW l \in Link
  PROVE  upstream[l] \in [token : Nat, state : {"on", "off", "gone"}] /\ upstream[l].token \in Nat
BY DEF TypeOK

LEMMA Steps ==
  ASSUME [Next]_vars
  PROVE  \/ TakeEvent \/ (\E p \in Proc : TaskStepOf(p)) \/ ConfigStep \/ ConfigAnswerLost
         \/ Environment \/ (\E w \in User : LinkAccountCut(w) \/ UnlinkCut(w)) \/ Crash
         \/ UNCHANGED vars
BY DEF Next, Fault, TaskStepOf, Proc

\* The service's own steps leave a row alone or delete it.
LEMMA TaskOnTable ==
  ASSUME NEW p \in Proc, TaskStepOf(p)
  PROVE  /\ UNCHANGED upstream
         /\ role_links' = role_links \/ \E k \in Link : DeleteOrphan(p, k)
<1>1. CASE ReadLinked(p) \/ ReadGuilds(p) \/ ReadLinks(p) \/ ReadCache(p) \/ ReadExisting(p)
  BY <1>1 DEF ReadLinked, ReadGuilds, ReadLinks, ReadCache, ReadExisting, db, rlogic
<1>2. ASSUME NEW k \in Link,
             CallAccepted(p, k) \/ CallDeclined(p, k) \/ CallFindsLinkGone(p, k) \/ CallFails(p, k)
      PROVE  UNCHANGED <<upstream, role_links>>
  BY <1>2 DEF CallAccepted, CallDeclined, CallFindsLinkGone, CallFails, db, rlogic
<1>3. ASSUME NEW k \in Link,
             WriteMirror(p, k) \/ MirrorWriteFails(p, k) \/ OrphanStays(p, k) \/ StripCall(p, k)
      PROVE  UNCHANGED <<upstream, role_links>>
  BY <1>3 DEF WriteMirror, MirrorWriteFails, OrphanStays, StripCall, db, rlogic
<1>4. ASSUME NEW k \in Link, DeleteOrphan(p, k) PROVE UNCHANGED upstream
  BY <1>4 DEF DeleteOrphan, rlogic
<1>5. CASE ReadAssignments(p) \/ WipeMirror(p) \/ SyncFails(p) \/ StripFails(p) \/ CallbackDropped(p)
  BY <1>5 DEF ReadAssignments, WipeMirror, SyncFails, StripFails, CallbackDropped, db, rlogic
<1> QED BY <1>1, <1>2, <1>3, <1>4, <1>5 DEF TaskStepOf, SyncStep

LEMMA ConfigOnTable ==
  ASSUME ConfigStep \/ ConfigAnswerLost
  PROVE  /\ UNCHANGED upstream
         /\ role_links' = role_links \/ ConfigDeleteOrphan
BY DEF ConfigStep, ConfigStart, ConfigReadLink, ConfigReadMembers, ConfigReadInfo, ConfigQuery,
       ConfigGivesUp, ConfigFindsLinkGone, ConfigUploaded, ConfigHeld, ConfigDeleteOrphan,
       ConfigWriteMirror, ConfigMirrorWriteFails, ConfigAnswerLost, db, rlogic

LEMMA UserOnTable ==
  ASSUME NEW u \in User,
         \/ Unlink(u) \/ LinkAccountCut(u) \/ UnlinkCut(u)
         \/ \E p \in Callback : LinkAccount(p, u)
         \/ \E c \in Channel : FactChanges(u, c)
         \/ \E g \in Guild : MembershipChanges(g, u)
  PROVE  UNCHANGED <<upstream, role_links>>
BY DEF Unlink, LinkAccountCut, UnlinkCut, LinkAccount, FactChanges, MembershipChanges, db, rlogic

LEMMA RestOnTable ==
  ASSUME TakeEvent \/ Crash \/ CleanupExpired \/ UNCHANGED vars
  PROVE  UNCHANGED <<upstream, role_links>>
BY DEF TakeEvent, Crash, CleanupExpired, vars, db, rlogic

\* Who turns a link on or off, deletes it or makes it anew.
LEMMA WhoTurnsLinks ==
  ASSUME [Next]_vars
  PROVE  upstream' = upstream \/ \E k \in Link : ToggleLink(k) \/ DeleteLink(k) \/ CreateLink(k)
<1>1. ASSUME NEW l \in Link,
             \/ Register(l) \/ DeleteConfig(l) \/ Disconnect(l)
             \/ (\E rule \in Rule : SaveRule(l, rule)) \/ \E c \in Channel : ConnectChannel(l, c)
      PROVE  UNCHANGED upstream
  BY <1>1 DEF Register, DeleteConfig, Disconnect, SaveRule, ConnectChannel, rlogic
<1>2. CASE Environment
  BY <1>1, <1>2, UserOnTable, RestOnTable DEF Environment
<1> QED BY <1>2, Steps, TaskOnTable, ConfigOnTable, UserOnTable, RestOnTable

\* ... and who writes to the table of links.
LEMMA WhoWritesLinks ==
  ASSUME [Next]_vars
  PROVE  \/ role_links' = role_links
         \/ \E p \in Proc, k \in Link : DeleteOrphan(p, k)
         \/ ConfigDeleteOrphan
         \/ \E k \in Link : \/ Register(k) \/ DeleteConfig(k) \/ Disconnect(k)
                            \/ \E rule \in Rule : SaveRule(k, rule)
                            \/ \E c \in Channel : ConnectChannel(k, c)
<1>1. ASSUME NEW l \in Link, ToggleLink(l) \/ DeleteLink(l) \/ CreateLink(l)
      PROVE  UNCHANGED role_links
  BY <1>1 DEF ToggleLink, DeleteLink, CreateLink, db
<1>2. ASSUME NEW p \in Proc, TaskStepOf(p)
      PROVE  role_links' = role_links \/ \E k \in Link : DeleteOrphan(p, k)
  BY <1>2, TaskOnTable
<1>3. CASE Environment
  BY <1>1, <1>3, UserOnTable, RestOnTable DEF Environment
<1> QED BY <1>2, <1>3, Steps, ConfigOnTable, UserOnTable, RestOnTable

LEMMA UpstreamAges == ASSUME TypeOK, [Next]_vars, NEW l \in Link PROVE Ageing(l)
<1>1. CASE upstream' = upstream
  BY <1>1, UpstreamTyped DEF Ageing
<1>2. ASSUME NEW k \in Link, ToggleLink(k) PROVE Ageing(l)
  <2>1. upstream[k].state # "gone" /\ \E s \in {"on", "off"} : upstream' = [upstream EXCEPT ![k].state = s]
    BY <1>2 DEF ToggleLink
  <2> QED BY <2>1, UpstreamTyped DEF Ageing, TypeOK
<1>3. ASSUME NEW k \in Link, DeleteLink(k) PROVE Ageing(l)
  <2>1. upstream' = [upstream EXCEPT ![k].state = "gone"]
    BY <1>3 DEF DeleteLink
  <2> QED BY <2>1, UpstreamTyped DEF Ageing, TypeOK
<1>4. ASSUME NEW k \in Link, CreateLink(k) PROVE Ageing(l)
  <2>1. upstream' = [upstream EXCEPT ![k] = [token |-> upstream[k].token + 1, state |-> "on"]]
    BY <1>4 DEF CreateLink
  <2> QED BY <2>1, UpstreamTyped DEF Ageing, TypeOK
<1> QED BY <1>1, <1>2, <1>3, <1>4, WhoTurnsLinks

LEMMA CopiesAge ==
  ASSUME TypeOK, TypeOK', NEW l \in Link, Ageing(l), NEW row \in Row \cup {NoRow}, Past(l, row)
  PROVE  PastNext(l, row) /\ (row # NoRow /\ Dead(l, row) => DeadNext(l, row))
<1>1. upstream[l].token \in Nat /\ upstream'[l].token \in Nat
  BY DEF TypeOK
<1>2. row # NoRow => row.token \in Nat
  BY DEF Row
<1> QED BY <1>1, <1>2 DEF Past, Dead, PastNext, DeadNext, Ageing

\* What RoleLogic answers "not found" to is dead.
LEMMA NotFoundIsDead ==
  ASSUME TypeOK, NEW l \in Link, NEW row \in Row, Past(l, row), Answer(l, row.token) = "not_found"
  PROVE  Dead(l, row)
<1>1. upstream[l].state = "gone" \/ upstream[l].token # row.token
  BY DEF Answer
<1>2. upstream[l].token \in Nat /\ row.token \in Nat /\ row.token <= upstream[l].token
  BY RowAssumption DEF TypeOK, Row, Past
<1> QED BY <1>1, <1>2 DEF Dead

\* Where a copy comes from: the table, or where it was.
LEMMA RowTokens ==
  ASSUME TypeOK, [Next]_vars, NEW l \in Link
  PROVE  \/ role_links'[l] = NoRow
         \/ role_links[l] # NoRow /\ role_links'[l].token = role_links[l].token
         \/ role_links'[l].token = upstream[l].token
<1> DEFINE Goal == \/ role_links'[l] = NoRow
                   \/ role_links[l] # NoRow /\ role_links'[l].token = role_links[l].token
                   \/ role_links'[l].token = upstream[l].token
<1>0. role_links \in [Link -> Row \cup {NoRow}]
  BY DEF TypeOK
<1>1. CASE role_links' = role_links
  BY <1>1
<1>2. ASSUME NEW k \in Link, DropRow(k) PROVE Goal
  BY <1>0, <1>2 DEF DropRow
<1>3. ASSUME NEW k \in Link, Register(k) PROVE Goal
  <2> DEFINE r == IF role_links[k] = NoRow
                  THEN [token |-> upstream[k].token, rule |-> "nobody", channel |-> NoChannel]
                  ELSE [role_links[k] EXCEPT !.token = upstream[k].token]
  <2>1. role_links' = [role_links EXCEPT ![k] = r]
    BY <1>3 DEF Register
  <2>2. r.token = upstream[k].token
    BY <1>0 DEF Row
  <2> QED BY <1>0, <2>1, <2>2
<1>4. ASSUME NEW k \in Link, role_links[k] # NoRow,
             \/ \E rule : role_links' = [role_links EXCEPT ![k].rule = rule]
             \/ \E c : role_links' = [role_links EXCEPT ![k].channel = c]
      PROVE  Goal
  <2>1. role_links[k] \in Row
    BY <1>0, <1>4
  <2>2. \A x : [role_links[k] EXCEPT !.rule = x].token = role_links[k].token
               /\ [role_links[k] EXCEPT !.channel = x].token = role_links[k].token
    BY <2>1 DEF Row
  <2>3. CASE k # l
    BY <1>0, <1>4, <2>3
  <2>4. ASSUME NEW x, role_links'[k] = [role_links[k] EXCEPT !.rule = x]
                      \/ role_links'[k] = [role_links[k] EXCEPT !.channel = x]
        PROVE  role_links'[k].token = role_links[k].token
    BY <2>2, <2>4
  <2>5. CASE k = l
    <3>1. \E x : role_links'[k] = [role_links[k] EXCEPT !.rule = x]
                 \/ role_links'[k] = [role_links[k] EXCEPT !.channel = x]
      BY <1>0, <1>4
    <3> QED BY <1>4, <2>4, <2>5, <3>1
  <2> QED BY <2>3, <2>5
<1>5. ASSUME NEW k \in Link,
             \/ Disconnect(k)
             \/ (\E rule \in Rule : SaveRule(k, rule)) \/ \E c \in Channel : ConnectChannel(k, c)
      PROVE  Goal
  <2>1. /\ role_links[k] # NoRow
        /\ \/ \E rule : role_links' = [role_links EXCEPT ![k].rule = rule]
           \/ \E c : role_links' = [role_links EXCEPT ![k].channel = c]
    <3>1. CASE Disconnect(k)
      BY <3>1 DEF Disconnect
    <3>2. CASE \E rule \in Rule : SaveRule(k, rule)
      BY <3>2 DEF SaveRule
    <3>3. CASE \E c \in Channel : ConnectChannel(k, c)
      BY <3>3 DEF ConnectChannel
    <3> QED BY <1>5, <3>1, <3>2, <3>3
  <2> QED BY <1>4, <2>1
<1>6. ASSUME \/ \E p \in Proc, k \in Link : DeleteOrphan(p, k)
             \/ ConfigDeleteOrphan \/ \E k \in Link : DeleteConfig(k)
      PROVE  \E k \in Link : DropRow(k)
  BY <1>6 DEF DeleteOrphan, ConfigDeleteOrphan, DeleteConfig, TypeOK, ConfigCoherent
<1> HIDE DEF Goal
<1>7. Goal
  BY <1>1, <1>2, <1>3, <1>5, <1>6, WhoWritesLinks DEF Goal
<1> QED BY <1>7 DEF Goal

\* What a task has in hand for link l after a step of its own: nothing; a row just read; or
\* the copy it had, given up only if it was or if RoleLogic has just said so.
LEMMA CopyParts ==
  ASSUME NEW t \in TaskState, NEW pc, NEW a, NEW b
  PROVE  /\ [t EXCEPT !.pc = pc, !.guilds = a, !.rows = b].rows = b
         /\ [t EXCEPT !.pc = pc, !.guilds = a, !.rows = b].at = t.at
         /\ [t EXCEPT !.pc = pc, !.channels = a, !.at = b].rows = t.rows
         /\ [t EXCEPT !.pc = pc, !.channels = a, !.at = b].at = b
         /\ [t EXCEPT !.pc = pc, !.rows = a, !.at = b].rows = a
         /\ [t EXCEPT !.pc = pc, !.rows = a, !.at = b].at = b
         /\ [t EXCEPT !.pc = pc, !.guilds = a].rows = t.rows
         /\ [t EXCEPT !.pc = pc, !.guilds = a].at = t.at
         /\ [t EXCEPT !.pc = pc, !.channels = a].rows = t.rows
         /\ [t EXCEPT !.pc = pc, !.channels = a].at = t.at
         /\ [t EXCEPT !.pc = pc].rows = t.rows
         /\ [t EXCEPT !.pc = pc].at = t.at
BY DEF TaskState

KeepsCopy(p, l) ==
  /\ task'[p].rows[l] = task[p].rows[l]
  /\ task'[p].at[l] = "gone" =>
       task[p].at[l] = "gone" \/ Answer(l, task[p].rows[l].token) = "not_found"

LEMMA MovedCopies ==
  ASSUME TypeOK, NEW p \in Proc, NEW k \in Link, task' = [task EXCEPT ![p] = Moved(@, k, "none")],
         NEW l \in Link
  PROVE  task'[p] = Idle \/ KeepsCopy(p, l)
<1>1. task'[p] = Moved(task[p], k, "none") /\ task[p] \in TaskState
  BY DEF TypeOK
<1>2. CASE task'[p] # Idle
  <2>1. task'[p] = [task[p] EXCEPT !.at = [task[p].at EXCEPT ![k] = "none"]]
    BY <1>1, <1>2 DEF Moved
  <2>2. task'[p].rows = task[p].rows /\ task'[p].at = [task[p].at EXCEPT ![k] = "none"]
    BY <1>1, <2>1 DEF TaskState
  <2>3. task[p].at \in [Link -> Stage]
    BY <1>1 DEF TaskState
  <2>4. task'[p].at[l] = "gone" => task[p].at[l] = "gone"
    BY <2>2, <2>3
  <2> QED BY <2>2, <2>4 DEF KeepsCopy
<1> QED BY <1>2

LEMMA StagedCopies ==
  ASSUME TypeOK, NEW p \in Proc, NEW k \in Link, NEW stage \in Stage,
         task' = [task EXCEPT ![p].at[k] = stage],
         stage = "gone" => Answer(k, task[p].rows[k].token) = "not_found",
         NEW l \in Link
  PROVE  KeepsCopy(p, l)
<1>1. task'[p] = [task[p] EXCEPT !.at[k] = stage] /\ task[p] \in TaskState
  BY DEF TypeOK
<1>2. task'[p].rows = task[p].rows /\ task'[p].at = [task[p].at EXCEPT ![k] = stage]
  BY <1>1 DEF TaskState
<1>3. task[p].at \in [Link -> Stage]
  BY <1>1 DEF TaskState
<1>4. l # k => task'[p].at[l] = task[p].at[l]
  BY <1>2, <1>3
<1>5. l = k => task'[p].at[l] = stage
  BY <1>2, <1>3
<1> QED BY <1>2, <1>4, <1>5 DEF KeepsCopy

LEMMA TaskCopies ==
  ASSUME TypeOK, NEW p \in Proc, TaskStepOf(p), NEW l \in Link
  PROVE  \/ task'[p] = Idle
         \/ task'[p].rows[l] \in {NoRow, role_links[l]} /\ task'[p].at[l] # "gone"
         \/ KeepsCopy(p, l)
<1>0. task[p] \in TaskState /\ Coherent(task[p]) /\ \A t : task' = [task EXCEPT ![p] = t] => task'[p] = t
  BY DEF TypeOK
<1>1. CASE \E k \in Link : \/ CallDeclined(p, k) \/ CallFails(p, k) \/ WriteMirror(p, k)
                           \/ MirrorWriteFails(p, k) \/ DeleteOrphan(p, k) \/ OrphanStays(p, k)
  <2>1. PICK k \in Link : task' = [task EXCEPT ![p] = Moved(@, k, "none")]
    BY <1>1 DEF CallDeclined, CallFails, WriteMirror, MirrorWriteFails, DeleteOrphan, OrphanStays
  <2> QED BY <2>1, MovedCopies
<1>2. CASE \E k \in Link : CallAccepted(p, k) \/ CallFindsLinkGone(p, k) \/ StripCall(p, k)
  <2>1. PICK k \in Link, stage \in Stage :
          /\ task' = [task EXCEPT ![p].at[k] = stage]
          /\ stage = "gone" => Answer(k, task[p].rows[k].token) = "not_found"
    BY <1>2 DEF CallAccepted, CallFindsLinkGone, StripCall, Stage
  <2> QED BY <2>1, StagedCopies
<1>3. CASE ReadLinked(p)
  <2>1. task'[p] \in {Idle, [task[p] EXCEPT !.pc = "guilds"]}
    BY <1>0, <1>3 DEF ReadLinked
  <2>2. [task[p] EXCEPT !.pc = "guilds"].rows = task[p].rows /\ [task[p] EXCEPT !.pc = "guilds"].at = task[p].at
    BY <1>0, CopyParts
  <2> QED BY <2>1, <2>2 DEF KeepsCopy
<1>4. CASE ReadGuilds(p)
  <2> DEFINE guilds == {g \in Guild : <<g, task[p].user>> \in members}
             t == [task[p] EXCEPT !.pc = "links", !.guilds = guilds]
  <2>1. task'[p] \in {Idle, t}
    BY <1>0, <1>4 DEF ReadGuilds
  <2> HIDE DEF guilds
  <2>2. t.rows = task[p].rows /\ t.at = task[p].at
    BY <1>0, CopyParts
  <2> QED BY <2>1, <2>2 DEF KeepsCopy
<1>5. CASE ReadLinks(p)
  <2> DEFINE rows == [k \in Link |-> IF GuildOf[k] \in task[p].guilds THEN role_links[k] ELSE NoRow]
             t == [task[p] EXCEPT !.pc = "cache", !.guilds = {}, !.rows = rows]
  <2>1. task'[p] \in {Idle, t}
    BY <1>0, <1>5 DEF ReadLinks
  <2>2. rows[l] \in {NoRow, role_links[l]}
    OBVIOUS
  <2>3. task[p].at[l] # "gone"
    BY <1>0, <1>5 DEF ReadLinks, Coherent
  <2> HIDE DEF rows
  <2>4. t.rows = rows /\ t.at = task[p].at
    BY <1>0, CopyParts
  <2> HIDE DEF t
  <2> QED BY <2>1, <2>2, <2>3, <2>4
<1>6. CASE ReadCache(p)
  <2> DEFINE t == [task[p] EXCEPT !.pc = "existing", !.channels = ChannelsOf(task[p].user)]
  <2>1. task'[p] = t
    BY <1>0, <1>6 DEF ReadCache
  <2>2. t.rows = task[p].rows /\ t.at = task[p].at
    BY <1>0, CopyParts
  <2> HIDE DEF t
  <2> QED BY <2>1, <2>2 DEF KeepsCopy
<1>7. CASE ReadExisting(p)
  <2> DEFINE t == [task[p] EXCEPT !.pc = "apply", !.channels = {}, !.at = Plan(p)]
  <2>1. task'[p] \in {Idle, t}
    BY <1>0, <1>7 DEF ReadExisting
  <2>2. t.rows = task[p].rows /\ t.at = Plan(p)
    BY <1>0, CopyParts
  <2>3. Plan(p)[l] # "gone"
    BY DEF Plan
  <2> HIDE DEF t
  <2> QED BY <2>1, <2>2, <2>3 DEF KeepsCopy
<1>8. CASE ReadAssignments(p)
  <2> DEFINE held(k) == <<k, task[p].user>> \in role_assignments /\ role_links[k] # NoRow
             rows == [k \in Link |-> IF held(k) THEN role_links[k] ELSE NoRow]
             at == [k \in Link |-> IF held(k) THEN "remove" ELSE "none"]
             t == [task[p] EXCEPT !.pc = "strip", !.rows = rows, !.at = at]
  <2>1. task' = [task EXCEPT ![p] = t]
    BY <1>8 DEF ReadAssignments
  <2>2. rows[l] \in {NoRow, role_links[l]} /\ at[l] # "gone"
    OBVIOUS
  <2> HIDE DEF rows, at
  <2>3. t.rows = rows /\ t.at = at
    BY <1>0, CopyParts
  <2> HIDE DEF t
  <2> QED BY <1>0, <2>1, <2>2, <2>3
<1>9. CASE SyncFails(p) \/ StripFails(p) \/ WipeMirror(p) \/ (p \in Callback /\ CallbackDropped(p))
  BY <1>0, <1>9 DEF SyncFails, StripFails, WipeMirror, CallbackDropped
<1> QED BY <1>1, <1>2, <1>3, <1>4, <1>5, <1>6, <1>7, <1>8, <1>9 DEF TaskStepOf, SyncStep

\* ... and every other step leaves a task alone, begins one or ends one.
LEMMA OtherCopies ==
  ASSUME TypeOK, NEW p \in Proc, [Next]_vars, ~\E q \in Proc : TaskStepOf(q)
  PROVE  task'[p] = task[p] \/ task'[p] = Idle \/ \E u \in User : \E pc : task'[p] = Begin(u, pc)
<1>1. CASE TakeEvent
  <2>0. Head(queue) \in Event
    BY <1>1 DEF TakeEvent, TypeOK
  <2>1. Head(queue).user \in User
    BY <2>0 DEF Event
  <2>2. \E pc : task' = [task EXCEPT ![Worker] = Begin(Head(queue).user, pc)]
    BY <1>1 DEF TakeEvent
  <2> QED BY <2>1, <2>2 DEF TypeOK
<1>2. CASE ConfigStep \/ ConfigAnswerLost
  BY <1>2 DEF ConfigStep, ConfigStart, ConfigReadLink, ConfigReadMembers, ConfigReadInfo, ConfigQuery,
       ConfigGivesUp, ConfigFindsLinkGone, ConfigUploaded, ConfigHeld, ConfigDeleteOrphan,
       ConfigWriteMirror, ConfigMirrorWriteFails, ConfigAnswerLost
<1>3. ASSUME NEW u \in User, NEW q \in Callback, LinkAccount(q, u)
      PROVE  task'[p] = task[p] \/ \E pc : task'[p] = Begin(u, pc)
  BY <1>3 DEF LinkAccount, TypeOK
<1>4. ASSUME NEW u \in User,
             \/ Unlink(u) \/ LinkAccountCut(u) \/ UnlinkCut(u)
             \/ \E c \in Channel : FactChanges(u, c)
             \/ \E g \in Guild : MembershipChanges(g, u)
      PROVE  task' = task
  BY <1>4 DEF Unlink, LinkAccountCut, UnlinkCut, FactChanges, MembershipChanges
<1>5. ASSUME NEW k \in Link,
             \/ Register(k) \/ DeleteConfig(k) \/ Disconnect(k)
             \/ ToggleLink(k) \/ DeleteLink(k) \/ CreateLink(k)
             \/ (\E rule \in Rule : SaveRule(k, rule)) \/ \E c \in Channel : ConnectChannel(k, c)
      PROVE  task' = task
  BY <1>5 DEF Register, DeleteConfig, Disconnect, ToggleLink, DeleteLink, CreateLink, SaveRule, ConnectChannel
<1>6. CASE Environment
  BY <1>3, <1>4, <1>5, <1>6 DEF Environment, CleanupExpired
<1>7. CASE Crash
  BY <1>7 DEF Crash
<1> QED BY <1>1, <1>2, <1>4, <1>6, <1>7, Steps DEF vars

\* The same of a config sync.
ConfigKeepsCopy ==
  /\ config'.link = config.link /\ config'.row = config.row
  /\ config'.pc = "orphan" => Answer(config.link, config.row.token) = "not_found"

LEMMA ConfigParts ==
  ASSUME NEW c \in ConfigState, NEW pc, NEW a, NEW b
  PROVE  /\ [c EXCEPT !.pc = pc].link = c.link /\ [c EXCEPT !.pc = pc].row = c.row
         /\ [c EXCEPT !.pc = pc].pc = pc
         /\ [[c EXCEPT !.row = a] EXCEPT !.pc = pc].link = c.link
         /\ [[c EXCEPT !.row = a] EXCEPT !.pc = pc].row = a
         /\ [[c EXCEPT !.row = a] EXCEPT !.pc = pc].pc = pc
         /\ [c EXCEPT !.pc = pc, !.members = a].link = c.link
         /\ [c EXCEPT !.pc = pc, !.members = a].row = c.row
         /\ [c EXCEPT !.pc = pc, !.members = a].pc = pc
         /\ [c EXCEPT !.pc = pc, !.members = a, !.list = b].link = c.link
         /\ [c EXCEPT !.pc = pc, !.members = a, !.list = b].row = c.row
         /\ [c EXCEPT !.pc = pc, !.list = a, !.members = b].link = c.link
         /\ [c EXCEPT !.pc = pc, !.list = a, !.members = b].row = c.row
         /\ [c EXCEPT !.pc = pc, !.list = a, !.members = b].pc = pc
BY DEF ConfigState

LEMMA ConfigCopies ==
  ASSUME TypeOK, ConfigStep \/ ConfigAnswerLost
  PROVE  \/ config' = ConfigIdle
         \/ config'.pc = "link" /\ config'.row = NoRow
         \/ /\ config'.pc # "orphan" /\ config.pc # "idle"
            /\ config'.link = config.link /\ config'.row = role_links[config.link]
         \/ config.pc # "idle" /\ ConfigKeepsCopy
<1>1. config \in ConfigState
  BY DEF TypeOK
<1>2. CASE \E l \in Link : ConfigStart(l)
  BY <1>2 DEF ConfigStart, ConfigIdle
<1>3. CASE \/ ConfigGivesUp \/ ConfigHeld \/ ConfigAnswerLost \/ ConfigDeleteOrphan \/ ConfigWriteMirror
           \/ ConfigMirrorWriteFails
  BY <1>3 DEF ConfigGivesUp, ConfigHeld, ConfigAnswerLost, ConfigDeleteOrphan, ConfigWriteMirror,
         ConfigMirrorWriteFails
<1>4. CASE ConfigReadLink
  <2>1. \/ config' = ConfigIdle
        \/ \E pc \in {"upload", "members"} :
             config' = [[config EXCEPT !.row = role_links[config.link]] EXCEPT !.pc = pc]
    BY <1>4 DEF ConfigReadLink
  <2>2. config.pc # "idle"
    BY <1>4 DEF ConfigReadLink
  <2>3. ASSUME NEW pc \in {"upload", "members"},
               config' = [[config EXCEPT !.row = role_links[config.link]] EXCEPT !.pc = pc]
        PROVE  config'.link = config.link /\ config'.row = role_links[config.link] /\ config'.pc = pc
    <3> DEFINE c == [[config EXCEPT !.row = role_links[config.link]] EXCEPT !.pc = pc]
    <3>1. c.link = config.link /\ c.row = role_links[config.link] /\ c.pc = pc
      BY <1>1, ConfigParts
    <3> QED BY <2>3, <3>1
  <2> QED BY <2>1, <2>2, <2>3
<1>5. CASE ConfigReadMembers
  <2> DEFINE ids == {u \in User : <<GuildOf[config.link], u>> \in members}
  <2>1. \/ config' = [config EXCEPT !.pc = "upload", !.list = {}, !.members = {}]
        \/ config' = [config EXCEPT !.pc = "info", !.members = ids]
    BY <1>5 DEF ConfigReadMembers, ToUpload
  <2> HIDE DEF ids
  <2>2. config.pc # "idle"
    BY <1>5 DEF ConfigReadMembers
  <2> DEFINE a == [config EXCEPT !.pc = "upload", !.list = {}, !.members = {}]
             b == [config EXCEPT !.pc = "info", !.members = ids]
  <2>4. a.link = config.link /\ a.row = config.row /\ a.pc = "upload"
    BY <1>1, ConfigParts
  <2>5. b.link = config.link /\ b.row = config.row /\ b.pc = "info"
    BY <1>1, ConfigParts
  <2>6. config' = a \/ config' = b
    BY <2>1
  <2> HIDE DEF a, b
  <2>3. config'.link = config.link /\ config'.row = config.row /\ config'.pc \in {"upload", "info"}
    BY <2>4, <2>5, <2>6
  <2> QED BY <2>2, <2>3 DEF ConfigKeepsCopy
<1>6. CASE ConfigReadInfo \/ ConfigUploaded
  <2>1. config.pc # "idle" /\ \E pc \in {"query", "mirror"} : config' = [config EXCEPT !.pc = pc]
    BY <1>6 DEF ConfigReadInfo, ConfigUploaded
  <2>2. config'.link = config.link /\ config'.row = config.row /\ config'.pc \in {"query", "mirror"}
    BY <1>1, <2>1, ConfigParts
  <2> QED BY <2>1, <2>2 DEF ConfigKeepsCopy
<1>7. CASE ConfigQuery
  <2>1. config.pc # "idle" /\ \E list : config' = [config EXCEPT !.pc = "upload", !.list = list, !.members = {}]
    BY <1>7 DEF ConfigQuery, ToUpload
  <2>2. config'.link = config.link /\ config'.row = config.row /\ config'.pc = "upload"
    BY <1>1, <2>1, ConfigParts
  <2> QED BY <2>1, <2>2 DEF ConfigKeepsCopy
<1>8. CASE ConfigFindsLinkGone
  <2>1. /\ config.pc # "idle" /\ config' = [config EXCEPT !.pc = "orphan", !.members = {}, !.list = {}]
        /\ Answer(config.link, config.row.token) = "not_found"
    BY <1>8 DEF ConfigFindsLinkGone
  <2>2. config'.link = config.link /\ config'.row = config.row
    BY <1>1, <2>1, ConfigParts
  <2> QED BY <2>1, <2>2 DEF ConfigKeepsCopy
<1> QED BY <1>2, <1>3, <1>4, <1>5, <1>6, <1>7, <1>8 DEF ConfigStep

LEMMA OtherConfig ==
  ASSUME [Next]_vars, ~(ConfigStep \/ ConfigAnswerLost)
  PROVE  config' = config \/ config' = ConfigIdle
<1>1. ASSUME NEW p \in Proc, NEW l \in Link,
             \/ CallAccepted(p, l) \/ CallDeclined(p, l) \/ CallFindsLinkGone(p, l) \/ CallFails(p, l)
             \/ WriteMirror(p, l) \/ MirrorWriteFails(p, l)
             \/ DeleteOrphan(p, l) \/ OrphanStays(p, l) \/ StripCall(p, l)
      PROVE  config' = config
  BY <1>1 DEF CallAccepted, CallDeclined, CallFindsLinkGone, CallFails, WriteMirror, MirrorWriteFails,
         DeleteOrphan, OrphanStays, StripCall
<1>2. ASSUME NEW p \in Proc,
             \/ ReadLinked(p) \/ ReadGuilds(p) \/ ReadLinks(p) \/ ReadCache(p) \/ ReadExisting(p)
             \/ ReadAssignments(p) \/ WipeMirror(p) \/ SyncFails(p) \/ StripFails(p) \/ CallbackDropped(p)
      PROVE  config' = config
  BY <1>2 DEF ReadLinked, ReadGuilds, ReadLinks, ReadCache, ReadExisting, ReadAssignments, WipeMirror,
         SyncFails, StripFails, CallbackDropped
<1>3. ASSUME NEW p \in Proc, TaskStepOf(p) PROVE config' = config
  BY <1>1, <1>2, <1>3 DEF TaskStepOf, SyncStep
<1>4. ASSUME NEW u \in User,
             \/ Unlink(u) \/ LinkAccountCut(u) \/ UnlinkCut(u)
             \/ \E p \in Callback : LinkAccount(p, u)
             \/ \E c \in Channel : FactChanges(u, c)
             \/ \E g \in Guild : MembershipChanges(g, u)
      PROVE  config' = config
  BY <1>4 DEF Unlink, LinkAccountCut, UnlinkCut, LinkAccount, FactChanges, MembershipChanges
<1>5. ASSUME NEW k \in Link,
             \/ Register(k) \/ DeleteConfig(k) \/ Disconnect(k)
             \/ ToggleLink(k) \/ DeleteLink(k) \/ CreateLink(k)
             \/ (\E rule \in Rule : SaveRule(k, rule)) \/ \E c \in Channel : ConnectChannel(k, c)
      PROVE  config' = config
  BY <1>5 DEF Register, DeleteConfig, Disconnect, ToggleLink, DeleteLink, CreateLink, SaveRule, ConnectChannel
<1>6. CASE Environment
  BY <1>4, <1>5, <1>6 DEF Environment, CleanupExpired
<1>7. CASE TakeEvent \/ Crash
  BY <1>7 DEF TakeEvent, Crash
<1> QED BY <1>3, <1>4, <1>6, <1>7, Steps DEF vars

\* The copies after a step: one that was there, or one made of the table as it was.
LEMMA TokensTask ==
  ASSUME TokensInv, TypeOK', [Next]_vars, NEW p \in Proc, NEW l \in Link
  PROVE  PastNext(l, task'[p].rows[l]) /\ (task'[p].at[l] = "gone" => DeadNext(l, task'[p].rows[l]))
<1>1. TypeOK /\ Ageing(l) /\ Past(l, role_links[l]) /\ TaskTokens(task[p], l)
  BY UpstreamAges DEF TokensInv
<1>2. /\ role_links[l] \in Row \cup {NoRow} /\ task[p].rows[l] \in Row \cup {NoRow}
      /\ task[p].at[l] \in Stage /\ (task[p].at[l] # "none" => task[p].rows[l] # NoRow)
  BY <1>1 DEF TypeOK, TaskState, Coherent
<1>3. PastNext(l, role_links[l]) /\ PastNext(l, NoRow)
  BY <1>1, <1>2, CopiesAge DEF PastNext
<1>4. Past(l, task[p].rows[l]) /\ (task[p].at[l] = "gone" => Dead(l, task[p].rows[l]))
  BY <1>1 DEF TaskTokens
<1>5. PastNext(l, task[p].rows[l])
      /\ (task[p].rows[l] # NoRow /\ Dead(l, task[p].rows[l]) => DeadNext(l, task[p].rows[l]))
  BY <1>1, <1>2, <1>4, CopiesAge
<1>6. Idle.rows[l] = NoRow /\ Idle.at[l] = "none" /\ \A u, pc : Begin(u, pc).rows[l] = NoRow /\ Begin(u, pc).at[l] = "none"
  BY DEF Idle, Begin, Resting
<1>7. CASE KeepsCopy(p, l)
  <2>1. task'[p].at[l] = "gone" => task[p].rows[l] # NoRow /\ Dead(l, task[p].rows[l])
    <3>1. CASE task[p].at[l] = "gone"
      BY <1>2, <1>4, <3>1
    <3>2. CASE task'[p].at[l] = "gone" /\ task[p].at[l] # "gone"
      <4>1. Answer(l, task[p].rows[l].token) = "not_found"
        BY <1>7, <3>2 DEF KeepsCopy
      <4>2. task[p].rows[l] # NoRow
        <5>1. task'[p].rows[l] # NoRow
          BY <3>2 DEF TypeOK, Coherent
        <5> QED BY <1>7, <5>1 DEF KeepsCopy
      <4> QED BY <1>1, <1>2, <1>4, <4>1, <4>2, NotFoundIsDead
    <3> QED BY <3>1, <3>2
  <2> QED BY <1>5, <1>7, <2>1 DEF KeepsCopy
<1>8. CASE task'[p].rows[l] \in {NoRow, role_links[l]} /\ task'[p].at[l] # "gone"
  BY <1>3, <1>8
<1>9. CASE task'[p] = Idle \/ \E u \in User : \E pc : task'[p] = Begin(u, pc)
  BY <1>3, <1>6, <1>9
<1>10. CASE task'[p] = task[p]
  BY <1>2, <1>4, <1>5, <1>10
<1>11. CASE TaskStepOf(p)
  BY <1>1, <1>7, <1>8, <1>9, <1>11, TaskCopies
<1>12. CASE \E q \in Proc \ {p} : TaskStepOf(q)
  BY <1>1, <1>10, <1>12, TaskKeepsUser
<1>13. CASE ~\E q \in Proc : TaskStepOf(q)
  BY <1>1, <1>9, <1>10, <1>13, OtherCopies
<1> QED BY <1>11, <1>12, <1>13

LEMMA TokensConfig ==
  ASSUME TokensInv, TypeOK', [Next]_vars
  PROVE  /\ config'.pc # "idle" => PastNext(config'.link, config'.row)
         /\ config'.pc = "orphan" => DeadNext(config'.link, config'.row)
<1>0. TypeOK /\ ConfigTokens
  BY DEF TokensInv
<1>1. CASE config' = ConfigIdle
  BY <1>1 DEF ConfigIdle
<1>2. CASE config'.pc = "link" /\ config'.row = NoRow
  BY <1>2 DEF PastNext
<1>3. CASE config.pc # "idle"
  <2> DEFINE l == config.link
  <2>1. l \in Link /\ Ageing(l) /\ Past(l, role_links[l]) /\ Past(l, config.row)
    BY <1>0, <1>3, UpstreamAges DEF TokensInv, ConfigTokens, TypeOK, ConfigCoherent
  <2>2. role_links[l] \in Row \cup {NoRow} /\ config.row \in Row \cup {NoRow}
    BY <1>0, <2>1 DEF TypeOK, ConfigState
  <2>3. PastNext(l, role_links[l]) /\ PastNext(l, config.row)
        /\ (config.row # NoRow /\ Dead(l, config.row) => DeadNext(l, config.row))
    BY <1>0, <2>1, <2>2, CopiesAge
  <2>4. CASE /\ config'.pc # "orphan"
             /\ config'.link = config.link /\ config'.row = role_links[config.link]
    BY <2>3, <2>4
  <2>5. CASE ConfigKeepsCopy
    <3>1. CASE config'.pc = "orphan"
      <4>1. config.row # NoRow
        BY <3>1, <2>5 DEF ConfigKeepsCopy, TypeOK, ConfigCoherent
      <4>2. Dead(l, config.row)
        BY <1>0, <2>1, <2>2, <2>5, <3>1, <4>1, NotFoundIsDead DEF ConfigKeepsCopy
      <4> QED BY <2>3, <2>5, <4>1, <4>2 DEF ConfigKeepsCopy
    <3>2. CASE config'.pc # "orphan"
      BY <2>3, <2>5, <3>2 DEF ConfigKeepsCopy
    <3> QED BY <3>1, <3>2
  <2>6. CASE config' = config
    <3>1. config.pc = "orphan" => config.row # NoRow /\ Dead(l, config.row)
      BY <1>0 DEF ConfigTokens, TypeOK, ConfigCoherent
    <3> QED BY <2>3, <2>6, <3>1
  <2> QED BY <1>0, <1>1, <1>2, <2>4, <2>5, <2>6, ConfigCopies, OtherConfig
<1>4. CASE config.pc = "idle" /\ config' = config
  BY <1>4
<1> QED BY <1>0, <1>1, <1>2, <1>3, <1>4, ConfigCopies, OtherConfig

LEMMA TokensTable ==
  ASSUME TokensInv, TypeOK', [Next]_vars, NEW l \in Link
  PROVE  PastNext(l, role_links'[l])
<1>1. TypeOK /\ Ageing(l) /\ Past(l, role_links[l])
  BY UpstreamAges DEF TokensInv
<1>2. role_links[l] \in Row \cup {NoRow} /\ upstream[l].token \in Nat /\ upstream'[l].token \in Nat
  BY <1>1 DEF TypeOK
<1>3. PastNext(l, role_links[l])
  BY <1>1, <1>2, CopiesAge
<1> QED BY <1>1, <1>2, <1>3, RowTokens DEF PastNext, Ageing

LEMMA TokensInit == ASSUME Init PROVE TokensInv
<1>1. TypeOK
  BY TypeInit
<1>2. ASSUME NEW l \in Link
      PROVE  Past(l, role_links[l]) /\ \A p \in Proc : TaskTokens(task[p], l)
  <2>1. upstream[l].token = 1 /\ role_links[l].token = 1
    BY <1>2 DEF Init
  <2>2. \A p \in Proc : task[p].rows[l] = NoRow /\ task[p].at[l] = "none"
    BY <1>2 DEF Init, Idle, Resting
  <2> QED BY <2>1, <2>2 DEF Past, TaskTokens
<1>3. ConfigTokens
  BY DEF Init, ConfigIdle, ConfigTokens
<1> QED BY <1>1, <1>2, <1>3 DEF TokensInv

LEMMA TokensStep == ASSUME TokensInv, [Next]_vars PROVE TokensInv'
<1>1. TypeOK'
  BY TypeStep DEF TokensInv
<1>2. \A l \in Link : PastNext(l, role_links'[l])
  BY <1>1, TokensTable
<1>3. \A p \in Proc, l \in Link :
        PastNext(l, task'[p].rows[l]) /\ (task'[p].at[l] = "gone" => DeadNext(l, task'[p].rows[l]))
  BY <1>1, TokensTask
<1>4. ConfigTokens'
  BY <1>1, TokensConfig DEF ConfigTokens, Past, Dead, PastNext, DeadNext
<1> QED BY <1>1, <1>2, <1>3, <1>4 DEF TokensInv, TaskTokens, Past, Dead, PastNext, DeadNext

LEMMA LossHasVerdict ==
  ASSUME TokensInv, [Next]_vars, NEW l \in Link,
         role_links[l] # NoRow, role_links'[l] = NoRow, upstream[l].state # "gone"
  PROVE  /\ Verdicts(l) # {} \/ role_links[l].token < upstream[l].token
         /\ \A token \in Verdicts(l) : token < upstream[l].token
<1>0. TypeOK /\ role_links \in [Link -> Row \cup {NoRow}] /\ NoRow \notin Row
  BY RowAssumption DEF TokensInv, TypeOK
<1>1. Verdicts(l) # {} \/ role_links[l].token < upstream[l].token
  <2>1. ASSUME NEW p \in Proc, NEW k \in Link, DeleteOrphan(p, k)
        PROVE  task[p].at[l] = "gone"
    BY <1>0, <2>1 DEF DeleteOrphan, DropRow
  <2>2. CASE ConfigDeleteOrphan
    BY <1>0, <2>2 DEF ConfigDeleteOrphan, DropRow, Verdicts
  <2>3. ASSUME NEW k \in Link, DeleteConfig(k) PROVE role_links[l].token < upstream[l].token
    BY <1>0, <2>3 DEF DeleteConfig, DropRow
  <2>4. ASSUME NEW k \in Link, Register(k) PROVE FALSE
    <3> DEFINE r == IF role_links[k] = NoRow
                    THEN [token |-> upstream[k].token, rule |-> "nobody", channel |-> NoChannel]
                    ELSE [role_links[k] EXCEPT !.token = upstream[k].token]
    <3>1. role_links' = [role_links EXCEPT ![k] = r] /\ k = l
      BY <1>0, <2>4 DEF Register
    <3>2. upstream[k].token \in Nat /\ role_links[k] \in Row
      BY <1>0, <3>1 DEF TypeOK
    <3>3. [role_links[k] EXCEPT !.token = upstream[k].token] \in Row
      BY <3>2 DEF Row
    <3>4. r \in Row
      BY <1>0, <3>2, <3>3
    <3> QED BY <1>0, <3>1, <3>4
  <2>5. ASSUME NEW k \in Link,
               \/ Disconnect(k)
               \/ (\E rule \in Rule : SaveRule(k, rule)) \/ \E c \in Channel : ConnectChannel(k, c)
        PROVE  FALSE
    <3>1. \/ \E rule \in Rule : role_links' = [role_links EXCEPT ![k].rule = rule]
          \/ \E c \in Channel \cup {NoChannel} : role_links' = [role_links EXCEPT ![k].channel = c]
      <4>1. CASE Disconnect(k)
        BY <4>1 DEF Disconnect
      <4>2. CASE \E rule \in Rule : SaveRule(k, rule)
        BY <4>2 DEF SaveRule
      <4>3. CASE \E c \in Channel : ConnectChannel(k, c)
        BY <4>3 DEF ConnectChannel
      <4> QED BY <2>5, <4>1, <4>2, <4>3
    <3>2. k = l /\ role_links[l] \in Row
      BY <1>0, <3>1
    <3>3. /\ \A rule \in Rule : [role_links[l] EXCEPT !.rule = rule] \in Row
          /\ \A c \in Channel \cup {NoChannel} : [role_links[l] EXCEPT !.channel = c] \in Row
      BY <3>2 DEF Row
    <3> QED BY <1>0, <3>1, <3>2, <3>3
  <2>6. (\E p \in Proc : task[p].at[l] = "gone") => Verdicts(l) # {}
    BY DEF Verdicts
  <2> QED BY <2>1, <2>2, <2>3, <2>4, <2>5, <2>6, WhoWritesLinks
<1>2. ASSUME NEW token \in Verdicts(l) PROVE token < upstream[l].token
  <2>1. CASE \E p \in Proc : task[p].at[l] = "gone" /\ token = task[p].rows[l].token
    BY <2>1 DEF TokensInv, TaskTokens, Dead
  <2>2. CASE config.pc = "orphan" /\ config.link = l /\ token = config.row.token
    BY <2>2 DEF TokensInv, ConfigTokens, Dead
  <2> QED BY <1>2, <2>1, <2>2 DEF Verdicts
<1> QED BY <1>1, <1>2

\* A row whose link lives is deleted only for an answer to a token the link no longer has,
\* or by RoleLogic's own late call about the link before, while the row has its token;
\* whatever the interleaving of syncs, rotations, deletions and registrations: neither a
\* link that is off nor a call that fails costs the service its row.
THEOREM LossCorrect == Spec => LostToOldToken
<1>1. TokensInv /\ [Next]_vars
        => [\A l \in Link :
              role_links[l] # NoRow /\ role_links'[l] = NoRow /\ upstream[l].state # "gone"
                => /\ Verdicts(l) # {} \/ role_links[l].token < upstream[l].token
                   /\ \A token \in Verdicts(l) : token < upstream[l].token]_vars
  BY LossHasVerdict
<1>2. Init => TokensInv
  BY TokensInit
<1>3. TokensInv /\ [Next]_vars => TokensInv'
  BY TokensStep
<1> QED BY <1>1, <1>2, <1>3, PTL DEF Spec, LostToOldToken
=============================================================================
