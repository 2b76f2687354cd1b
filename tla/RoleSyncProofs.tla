--------------------------- MODULE RoleSyncProofs ---------------------------
(***************************************************************************)
(* What RoleSync promises for every number of users, links, guilds and     *)
(* concurrent callbacks, and for every bound.                              *)
(***************************************************************************)
EXTENDS RoleSync, TLAPS

LEMMA IdleIsTask == Idle \in TaskState /\ Coherent(Idle)
BY DEF Idle, TaskState, Coherent, Resting, Stage

LEMMA BeginIsTask ==
  ASSUME NEW u \in User, NEW pc \in {"linked", "assignments"}
  PROVE  Begin(u, pc) \in TaskState /\ Coherent(Begin(u, pc))
BY DEF Begin, Idle, TaskState, Coherent, Resting, Stage

LEMMA MovedIsTask ==
  ASSUME NEW t \in TaskState, Coherent(t), NEW l \in Link
  PROVE  Moved(t, l, "none") \in TaskState /\ Coherent(Moved(t, l, "none"))
BY IdleIsTask DEF Moved, TaskState, Coherent, Stage

LEMMA SettledIsPairs ==
  ASSUME suspect \subseteq Link \X User, NEW S \in SUBSET (Link \X User),
         NEW others \in SUBSET Proc, NEW b \in BOOLEAN
  PROVE  Settled(S, others, b) \subseteq Link \X User
BY DEF Settled, Contested

\* The initial states have the types.
LEMMA TypeInit == Init => TypeOK
<1> SUFFICES ASSUME Init PROVE TypeOK
  OBVIOUS
<1>1. role_links \in [Link -> Row \cup {NoRow}]
  <2> DEFINE R == {r \in [token : {1}, rule : Rule, channel : Channel \cup {NoChannel}] :
                     r.rule = "channel" => r.channel # NoChannel}
  <2>1. R \subseteq Row
    BY DEF Row
  <2>2. role_links \in [Link -> R]
    BY DEF Init
  <2> QED BY <2>1, <2>2
<1>2. remote \subseteq Link \X User /\ role_assignments \subseteq Link \X User
  <2>1. linked_accounts \subseteq User /\ remote \subseteq Link \X linked_accounts
        /\ role_assignments = remote
    BY DEF Init
  <2> QED BY <2>1
<1>3. queue \in Seq(Event)
  <2>1. \A u \in User : <<[kind |-> "updated", user |-> u]>> \in Seq(Event)
    BY DEF Event
  <2>2. linked_accounts \subseteq User
    BY DEF Init
  <2>3. queue = <<>> \/ \E u \in linked_accounts : queue = <<[kind |-> "updated", user |-> u]>>
    BY DEF Init
  <2>4. CASE queue = <<>>
    BY <2>4
  <2>5. CASE queue # <<>>
    <3>1. PICK u \in linked_accounts : queue = <<[kind |-> "updated", user |-> u]>>
      BY <2>3, <2>5
    <3> QED BY <2>1, <2>2, <3>1
  <2> QED BY <2>4, <2>5
<1>4. task \in [Proc -> TaskState] /\ \A p \in Proc : Coherent(task[p])
  BY IdleIsTask DEF Init
<1>5. config \in ConfigState /\ ConfigCoherent(config)
  BY DEF Init, ConfigIdle, ConfigState, ConfigCoherent
<1>6. upstream \in [Link -> [token : Nat, state : {"on", "off", "gone"}]]
  BY DEF Init
<1>7. budget \in [env : 0..MaxEnv, faults : 0..MaxFaults]
  BY ConstantsAssumption DEF Init
<1>8. /\ linked_accounts \subseteq User /\ cache \subseteq User \X Channel
      /\ members \subseteq Guild \X User /\ pending \subseteq Link
      /\ suspect \subseteq Link \X User /\ raced \subseteq User
  BY DEF Init
<1> QED BY <1>1, <1>2, <1>3, <1>4, <1>5, <1>6, <1>7, <1>8 DEF TypeOK

\* One action.
LEMMA TypeTakeEvent == TypeOK /\ TakeEvent => TypeOK'
<1> SUFFICES ASSUME TypeOK, TakeEvent PROVE TypeOK'
  OBVIOUS
<1> DEFINE e == Head(queue)
<1>1. e \in Event /\ queue' \in Seq(Event)
  BY DEF TypeOK, TakeEvent
<1>2. e.user \in User
  BY <1>1 DEF Event
<1>3. task' \in [Proc -> TaskState] /\ \A p \in Proc : Coherent(task'[p])
  <2>1. PICK pc \in {"linked", "assignments"} :
          task' = [task EXCEPT ![Worker] = Begin(e.user, pc)]
    BY DEF TakeEvent
  <2> QED BY <1>2, <2>1, BeginIsTask DEF TypeOK
<1>4. raced' \subseteq User
  BY <1>2 DEF TypeOK, TakeEvent
<1> QED BY <1>1, <1>3, <1>4 DEF TypeOK, TakeEvent, db, rlogic

\* A task that moves on by one await.
Pcs == {"idle", "linked", "guilds", "links", "cache", "existing", "apply", "assignments", "strip"}

LEMMA TaskFields ==
  ASSUME NEW t \in TaskState, NEW pc \in Pcs
  PROVE  /\ \A rows \in [Link -> Row \cup {NoRow}] :
              [t EXCEPT !.pc = pc, !.guilds = {}, !.rows = rows] \in TaskState
         /\ \A at \in [Link -> Stage] :
              [t EXCEPT !.pc = pc, !.channels = {}, !.at = at] \in TaskState
         /\ \A rows \in [Link -> Row \cup {NoRow}], at \in [Link -> Stage] :
              [t EXCEPT !.pc = pc, !.rows = rows, !.at = at] \in TaskState
BY DEF TaskState, Pcs

LEMMA TaskStep ==
  ASSUME TypeOK, NEW p \in Proc, NEW t \in TaskState, Coherent(t),
         task' = [task EXCEPT ![p] = t]
  PROVE  task' \in [Proc -> TaskState] /\ \A q \in Proc : Coherent(task'[q])
BY DEF TypeOK

LEMMA TypeReads ==
  ASSUME TypeOK, NEW p \in Proc,
         ReadLinked(p) \/ ReadGuilds(p) \/ ReadLinks(p) \/ ReadCache(p) \/ ReadExisting(p)
  PROVE  TypeOK'
<1>1. CASE ReadLinked(p)
  BY <1>1, IdleIsTask, ZenonT(60) DEF ReadLinked, TypeOK, TaskState, Coherent, db, rlogic, ghosts
<1>2. CASE ReadGuilds(p)
  BY <1>2, IdleIsTask, ZenonT(60) DEF ReadGuilds, TypeOK, TaskState, Coherent, db, rlogic, ghosts
<1>3. CASE ReadLinks(p)
  <2> DEFINE rows == [l \in Link |-> IF GuildOf[l] \in task[p].guilds
                                        THEN role_links[l] ELSE NoRow]
             t == [task[p] EXCEPT !.pc = "cache", !.guilds = {}, !.rows = rows]
  <2>1. rows \in [Link -> Row \cup {NoRow}]
    BY DEF TypeOK
  <2>2. t \in TaskState
    BY <2>1, TaskFields DEF TypeOK, Pcs
  <2>3. Coherent(t)
    BY <1>3, ZenonT(60) DEF ReadLinks, TypeOK, TaskState, Coherent
  <2>4. PICK s \in {Idle, t} : task' = [task EXCEPT ![p] = s]
    BY <1>3 DEF ReadLinks
  <2> QED BY <1>3, <2>2, <2>3, <2>4, TaskStep, IdleIsTask DEF ReadLinks, TypeOK, db, rlogic, ghosts
<1>4. CASE ReadCache(p)
  BY <1>4, IdleIsTask, ZenonT(60) DEF ReadCache, TypeOK, TaskState, Coherent, db, rlogic, ghosts, ChannelsOf
<1>5. CASE ReadExisting(p)
  <2> DEFINE t == [task[p] EXCEPT !.pc = "apply", !.channels = {}, !.at = Plan(p)]
  <2>1. Plan(p) \in [Link -> Stage]
    BY DEF Plan, Stage
  <2>2. t \in TaskState
    BY <2>1, TaskFields DEF TypeOK, Pcs
  <2>3. Coherent(t)
    BY <1>5 DEF ReadExisting, Coherent, Plan, TypeOK, TaskState
  <2>4. PICK s \in {Idle, t} : task' = [task EXCEPT ![p] = s]
    BY <1>5 DEF ReadExisting
  <2> QED BY <1>5, <2>2, <2>3, <2>4, TaskStep, IdleIsTask DEF ReadExisting, TypeOK, db, rlogic, ghosts
<1> QED BY <1>1, <1>2, <1>3, <1>4, <1>5

LEMMA StageStep ==
  ASSUME TypeOK, NEW p \in Proc, NEW l \in Link, NEW stage \in Stage, task[p].at[l] # "none"
  PROVE  [task[p] EXCEPT !.at[l] = stage] \in TaskState
         /\ Coherent([task[p] EXCEPT !.at[l] = stage])
BY ZenonT(60) DEF TypeOK, TaskState, Coherent

LEMMA SpendStep ==
  ASSUME TypeOK, Spend("env") \/ Spend("faults") \/ SpendBoth
  PROVE  budget' \in [env : 0..MaxEnv, faults : 0..MaxFaults]
<1>1. budget \in [env : 0..MaxEnv, faults : 0..MaxFaults]
  BY DEF TypeOK
<1>2. ASSUME NEW n \in Nat, NEW k \in 0..n, k > 0 PROVE k - 1 \in 0..n
  BY <1>2
<1>3. CASE Spend("env")
  BY <1>1, <1>2, <1>3, ConstantsAssumption DEF Spend
<1>4. CASE Spend("faults")
  BY <1>1, <1>2, <1>4, ConstantsAssumption DEF Spend
<1>5. CASE SpendBoth
  BY <1>1, <1>2, <1>5, ConstantsAssumption DEF SpendBoth
<1> QED BY <1>3, <1>4, <1>5

LEMMA TypeCalls ==
  ASSUME TypeOK, NEW p \in Proc, NEW l \in Link,
         \/ CallAccepted(p, l) \/ CallDeclined(p, l) \/ CallFails(p, l)
         \/ CallFindsLinkGone(p, l) \/ WriteMirror(p, l) \/ MirrorWriteFails(p, l)
         \/ DeleteOrphan(p, l) \/ StripCall(p, l)
  PROVE  TypeOK'
<1> DEFINE x == <<l, task[p].user>>
<1>x. x \in Link \X User
  <2>1. task[p].pc # "idle"
    BY DEF CallAccepted, CallDeclined, CallFails, CallFindsLinkGone, WriteMirror, MirrorWriteFails,
           DeleteOrphan, StripCall, Calling, TypeOK, Coherent
  <2> QED BY <2>1 DEF TypeOK, Coherent
<1>m. /\ Moved(task[p], l, "none") \in TaskState
      /\ Coherent(Moved(task[p], l, "none"))
  BY MovedIsTask DEF TypeOK
<1>1. CASE CallAccepted(p, l)
  <2>1. task' \in [Proc -> TaskState] /\ \A q \in Proc : Coherent(task'[q])
    <3>1. PICK s \in {"added", "removed"} : task' = [task EXCEPT ![p].at[l] = s]
      BY <1>1 DEF CallAccepted
    <3>2. task' = [task EXCEPT ![p] = [task[p] EXCEPT !.at[l] = s]]
      BY <3>1
    <3>3. task[p].at[l] # "none"
      BY <1>1 DEF CallAccepted, Calling
    <3> QED BY <3>2, <3>3, StageStep, TaskStep DEF Stage
  <2>2. suspect' \subseteq Link \X User
    BY <1>1, <1>x DEF CallAccepted, Settled, Contested, TypeOK
  <2>3. remote' \subseteq Link \X User
    BY <1>1, <1>x DEF CallAccepted, Carried, TypeOK
  <2> QED BY <1>1, <2>1, <2>2, <2>3 DEF CallAccepted, TypeOK, db
<1>2. CASE CallDeclined(p, l)
  BY <1>2, <1>m, TaskStep DEF CallDeclined, TypeOK, db, rlogic, ghosts
<1>3. CASE CallFails(p, l)
  <2>1. suspect' \subseteq Link \X User /\ remote' \subseteq Link \X User
    BY <1>3, <1>x DEF CallFails, Carried, TypeOK
  <2>4. budget' \in [env : 0..MaxEnv, faults : 0..MaxFaults]
    BY <1>3, SpendStep DEF CallFails, TypeOK
  <2> QED BY <1>3, <1>m, <2>1, TaskStep, <2>4 DEF CallFails, TypeOK, db
<1>4. CASE CallFindsLinkGone(p, l)
  <2>1. task' = [task EXCEPT ![p] = [task[p] EXCEPT !.at[l] = "gone"]]
    BY <1>4 DEF CallFindsLinkGone
  <2>2. task[p].at[l] # "none"
    BY <1>4 DEF CallFindsLinkGone, Calling
  <2> QED BY <1>4, <2>1, <2>2, StageStep, TaskStep DEF Stage, CallFindsLinkGone, TypeOK, db, rlogic, ghosts
<1>5. CASE WriteMirror(p, l)
  <2>1. role_assignments' \subseteq Link \X User
    BY <1>5, <1>x DEF WriteMirror, TypeOK
  <2> QED BY <1>5, <1>m, <2>1, TaskStep DEF WriteMirror, TypeOK, rlogic, ghosts
<1>6. CASE MirrorWriteFails(p, l)
  <2>1. suspect' \subseteq Link \X User
    BY <1>6, <1>x DEF MirrorWriteFails, TypeOK
  <2>4. budget' \in [env : 0..MaxEnv, faults : 0..MaxFaults]
    BY <1>6, SpendStep DEF MirrorWriteFails, TypeOK
  <2> QED BY <1>6, <1>m, <2>1, TaskStep, <2>4 DEF MirrorWriteFails, TypeOK, db, rlogic
<1>7. CASE DeleteOrphan(p, l)
  <2>1. suspect' \subseteq Link \X User /\ role_assignments' \subseteq Link \X User
        /\ role_links' \in [Link -> Row \cup {NoRow}]
    BY <1>7 DEF DeleteOrphan, DropRow, Contested, PairsOf, TypeOK
  <2> QED BY <1>7, <1>m, <2>1, TaskStep DEF DeleteOrphan, TypeOK, rlogic
<1>8. CASE StripCall(p, l)
  <2>1. task' = [task EXCEPT ![p] = [task[p] EXCEPT !.at[l] = "none"]]
    BY <1>8 DEF StripCall
  <2>2. suspect' \subseteq Link \X User /\ remote' \subseteq Link \X User
    BY <1>8, <1>x DEF StripCall, Contested, TypeOK
  <2>3. task[p].at[l] # "none"
    BY <1>8 DEF StripCall
  <2>4. budget' \in [env : 0..MaxEnv, faults : 0..MaxFaults]
    BY <1>8, SpendStep DEF StripCall, TypeOK
  <2> QED BY <1>8, <2>1, <2>2, <2>3, StageStep, TaskStep, <2>4 DEF Stage, StripCall, TypeOK, db
<1> QED BY <1>1, <1>2, <1>3, <1>4, <1>5, <1>6, <1>7, <1>8

LEMMA TypeStrip ==
  ASSUME TypeOK, NEW p \in Proc, ReadAssignments(p) \/ WipeMirror(p)
  PROVE  TypeOK'
<1>1. CASE ReadAssignments(p)
  <2> DEFINE u == task[p].user
             held(l) == <<l, u>> \in role_assignments /\ role_links[l] # NoRow
             rows == [l \in Link |-> IF held(l) THEN role_links[l] ELSE NoRow]
             at == [l \in Link |-> IF held(l) THEN "remove" ELSE "none"]
             t == [task[p] EXCEPT !.pc = "strip", !.rows = rows, !.at = at]
  <2>1. rows \in [Link -> Row \cup {NoRow}] /\ at \in [Link -> Stage]
    BY DEF TypeOK, Stage
  <2>2. t \in TaskState
    BY <2>1, TaskFields DEF TypeOK, Pcs
  <2>3. task[p].user \in User
    BY <1>1 DEF ReadAssignments, TypeOK, Coherent
  <2>4. t.user = u /\ t.pc = "strip" /\ t.rows = rows /\ t.at = at
    BY DEF TypeOK, TaskState
  <2>5. Coherent(t)
    BY <2>3, <2>4 DEF Coherent
  <2>6. task' = [task EXCEPT ![p] = t]
    BY <1>1 DEF ReadAssignments
  <2>7. suspect' \subseteq Link \X User
    BY <1>1, <2>3 DEF ReadAssignments, Contested, PairsBy, TypeOK
  <2> QED BY <1>1, <2>2, <2>5, <2>6, <2>7, TaskStep DEF ReadAssignments, TypeOK, db, rlogic
<1>2. CASE WipeMirror(p)
  <2>1. role_assignments' \subseteq Link \X User
    BY <1>2 DEF WipeMirror, TypeOK
  <2> QED BY <1>2, <2>1, IdleIsTask, TaskStep DEF WipeMirror, TypeOK, rlogic, ghosts
<1> QED BY <1>1, <1>2

\* The config sync worker.
LEMMA ConfigIdleTyped == ConfigIdle \in ConfigState /\ ConfigCoherent(ConfigIdle)
BY DEF ConfigIdle, ConfigState, ConfigCoherent

LEMMA TypeConfig == TypeOK /\ (ConfigStep \/ ConfigAnswerLost) => TypeOK'
<1> SUFFICES ASSUME TypeOK, ConfigStep \/ ConfigAnswerLost PROVE TypeOK'
  OBVIOUS
<1>p. config.pc # "idle" => PairsOf(config.link) \subseteq Link \X User
  BY DEF PairsOf, TypeOK, ConfigCoherent
<1>1. ASSUME NEW l \in Link, ConfigStart(l) PROVE TypeOK'
  <2>1. config' \in ConfigState /\ ConfigCoherent(config')
    BY <1>1 DEF ConfigStart, ConfigIdle, ConfigState, ConfigCoherent
  <2> QED BY <1>1, <2>1 DEF ConfigStart, TypeOK, db, rlogic, ghosts
<1>2. CASE ConfigReadLink
  <2> DEFINE row == role_links[config.link]
  <2>1. row \in Row \cup {NoRow}
    BY <1>2 DEF ConfigReadLink, TypeOK, ConfigCoherent
  <2>2. \A pc \in {"upload", "members"} : row # NoRow =>
          LET c == [[config EXCEPT !.row = row] EXCEPT !.pc = pc]
          IN c \in ConfigState /\ ConfigCoherent(c)
    BY <1>2, <2>1 DEF ConfigReadLink, TypeOK, ConfigState, ConfigCoherent
  <2>3. config' \in ConfigState /\ ConfigCoherent(config')
    BY <1>2, <2>2, ConfigIdleTyped DEF ConfigReadLink
  <2> QED BY <1>2, <2>3 DEF ConfigReadLink, TypeOK, db, rlogic, ghosts
<1>3. CASE ConfigReadMembers
  <2>1. config' \in ConfigState /\ ConfigCoherent(config')
    BY <1>3 DEF ConfigReadMembers, ToUpload, TypeOK, ConfigState, ConfigCoherent
  <2> QED BY <1>3, <2>1 DEF ConfigReadMembers, TypeOK, db, rlogic, ghosts
<1>4. CASE ConfigReadInfo
  <2>1. config' \in ConfigState /\ ConfigCoherent(config')
    BY <1>4 DEF ConfigReadInfo, TypeOK, ConfigState, ConfigCoherent
  <2> QED BY <1>4, <2>1 DEF ConfigReadInfo, TypeOK, db, rlogic, ghosts
<1>5. CASE ConfigQuery
  <2>1. PICK list \in SUBSET User : config' = ToUpload(list)
    BY <1>5 DEF ConfigQuery, QualifyingLists, TypeOK
  <2>2. config' \in ConfigState /\ ConfigCoherent(config')
    BY <1>5, <2>1 DEF ConfigQuery, ToUpload, TypeOK, ConfigState, ConfigCoherent
  <2> QED BY <1>5, <2>2 DEF ConfigQuery, TypeOK, db, rlogic, ghosts
<1>6. CASE ConfigGivesUp
  <2>1. budget' \in [env : 0..MaxEnv, faults : 0..MaxFaults]
    BY <1>6, SpendStep DEF ConfigGivesUp, TypeOK
  <2> QED BY <1>6, <2>1, ConfigIdleTyped DEF ConfigGivesUp, TypeOK, db, rlogic, ghosts
<1>7. CASE ConfigFindsLinkGone
  <2>1. config' \in ConfigState /\ ConfigCoherent(config')
    BY <1>7 DEF ConfigFindsLinkGone, TypeOK, ConfigState, ConfigCoherent
  <2> QED BY <1>7, <2>1 DEF ConfigFindsLinkGone, TypeOK, db, rlogic, ghosts
<1>8. CASE ConfigUploaded
  <2>1. config' \in ConfigState /\ ConfigCoherent(config')
    BY <1>8 DEF ConfigUploaded, TypeOK, ConfigState, ConfigCoherent
  <2>2. remote' \subseteq Link \X User
    BY <1>8, <1>p DEF ConfigUploaded, Replaced, TypeOK, ConfigState, ConfigCoherent
  <2>3. suspect' \subseteq Link \X User
    BY <1>8, <1>p DEF ConfigUploaded, Settled, Contested, TypeOK
  <2> QED BY <1>8, <2>1, <2>2, <2>3 DEF ConfigUploaded, TypeOK, db
<1>9. CASE ConfigHeld
  <2>1. pending' \subseteq Link
    BY <1>9 DEF ConfigHeld, TypeOK, ConfigCoherent
  <2> QED BY <1>9, <2>1, ConfigIdleTyped DEF ConfigHeld, TypeOK, db, rlogic, ghosts
<1>10. CASE ConfigAnswerLost
  <2>1. budget' \in [env : 0..MaxEnv, faults : 0..MaxFaults]
    BY <1>10, SpendStep DEF ConfigAnswerLost
  <2>2. remote' \subseteq Link \X User
    BY <1>10, <1>p DEF ConfigAnswerLost, Replaced, TypeOK, ConfigState, ConfigCoherent
  <2>3. suspect' \subseteq Link \X User
    BY <1>10, <1>p DEF ConfigAnswerLost, TypeOK
  <2> QED BY <1>10, <2>1, <2>2, <2>3, ConfigIdleTyped DEF ConfigAnswerLost, TypeOK, db
<1>11. CASE ConfigDeleteOrphan
  <2>1. suspect' \subseteq Link \X User /\ role_assignments' \subseteq Link \X User
        /\ role_links' \in [Link -> Row \cup {NoRow}]
    BY <1>11, <1>p DEF ConfigDeleteOrphan, DropRow, Contested, TypeOK
  <2> QED BY <1>11, <2>1, ConfigIdleTyped DEF ConfigDeleteOrphan, TypeOK, rlogic
<1>12. CASE ConfigWriteMirror
  <2>1. role_assignments' \subseteq Link \X User
    BY <1>12, <1>p DEF ConfigWriteMirror, TypeOK, ConfigState, ConfigCoherent
  <2> QED BY <1>12, <2>1, ConfigIdleTyped DEF ConfigWriteMirror, TypeOK, rlogic, ghosts
<1>13. CASE ConfigMirrorWriteFails
  <2>1. suspect' \subseteq Link \X User
    BY <1>13, <1>p DEF ConfigMirrorWriteFails, TypeOK
  <2>2. budget' \in [env : 0..MaxEnv, faults : 0..MaxFaults]
    BY <1>13, SpendStep DEF ConfigMirrorWriteFails, TypeOK
  <2> QED BY <1>13, <2>1, <2>2, ConfigIdleTyped DEF ConfigMirrorWriteFails, TypeOK, db, rlogic
<1> QED BY <1>1, <1>2, <1>3, <1>4, <1>5, <1>6, <1>7, <1>8, <1>9, <1>10, <1>11, <1>12, <1>13
        DEF ConfigStep

\* Requests and outside changes.
LEMMA AppendEvent ==
  ASSUME TypeOK, NEW u \in User, NEW k \in {"updated", "linked", "unlinked"}
  PROVE  Append(queue, [kind |-> k, user |-> u]) \in Seq(Event)
<1>1. [kind |-> k, user |-> u] \in Event
  BY DEF Event
<1> QED BY <1>1 DEF TypeOK

LEMMA RowChange ==
  ASSUME NEW row \in Row
  PROVE  /\ \A rule \in Rule : [row EXCEPT !.rule = rule] \in Row
         /\ \A c \in Channel \cup {NoChannel} : [row EXCEPT !.channel = c] \in Row
         /\ \A n \in Nat : [row EXCEPT !.token = n] \in Row
BY DEF Row

LEMMA TypeUserRequests ==
  ASSUME TypeOK, NEW u \in User,
         \/ Unlink(u) \/ LinkAccountCut(u) \/ UnlinkCut(u)
         \/ \E p \in Callback : LinkAccount(p, u)
         \/ \E c \in Channel : FactChanges(u, c)
         \/ \E g \in Guild : MembershipChanges(g, u)
  PROVE  TypeOK'
<1>1. CASE Unlink(u)
  BY <1>1, AppendEvent, SpendStep DEF Unlink, TypeOK, rlogic, ghosts
<1>2. CASE LinkAccountCut(u)
  <2>1. budget' \in [env : 0..MaxEnv, faults : 0..MaxFaults]
    BY <1>2, SpendStep DEF LinkAccountCut
  <2> QED BY <1>2, <2>1 DEF LinkAccountCut, TypeOK, rlogic, ghosts
<1>3. ASSUME NEW p \in Callback, LinkAccount(p, u) PROVE TypeOK'
  <2>1. cache' \subseteq User \X Channel
    BY <1>3 DEF LinkAccount, Connected, TypeOK
  <2>2. p \in Proc
    BY DEF Proc
  <2>3. task' \in [Proc -> TaskState] /\ \A q \in Proc : Coherent(task'[q])
    BY <1>3, <2>2, BeginIsTask DEF LinkAccount, TypeOK
  <2>4. queue' \in Seq(Event)
    BY <1>3, AppendEvent DEF LinkAccount, TypeOK
  <2>5. budget' \in [env : 0..MaxEnv, faults : 0..MaxFaults]
    BY <1>3, SpendStep DEF LinkAccount
  <2> QED BY <1>3, <2>1, <2>3, <2>4, <2>5 DEF LinkAccount, TypeOK, rlogic, ghosts
<1>4. ASSUME NEW c \in Channel, FactChanges(u, c) PROVE TypeOK'
  <2>1. queue' \in Seq(Event)
    BY <1>4, AppendEvent DEF FactChanges, TypeOK
  <2>2. cache' \subseteq User \X Channel
    BY <1>4 DEF FactChanges, TypeOK
  <2> QED BY <1>4, <2>1, <2>2, SpendStep DEF FactChanges, TypeOK, rlogic, ghosts
<1>5. ASSUME NEW g \in Guild, MembershipChanges(g, u) PROVE TypeOK'
  <2>1. members' \subseteq Guild \X User
    BY <1>5 DEF MembershipChanges, TypeOK
  <2> QED BY <1>5, <2>1, SpendStep DEF MembershipChanges, TypeOK, db, rlogic, ghosts
<1>6. CASE UnlinkCut(u)
  <2>1. budget' \in [env : 0..MaxEnv, faults : 0..MaxFaults]
    BY <1>6, SpendStep DEF UnlinkCut
  <2> QED BY <1>6, <2>1 DEF UnlinkCut, TypeOK, rlogic
<1> QED BY <1>1, <1>2, <1>3, <1>4, <1>5, <1>6

LEMMA TypeLinkRequests ==
  ASSUME TypeOK, NEW l \in Link,
         \/ Register(l) \/ DeleteConfig(l) \/ Disconnect(l)
         \/ ToggleLink(l) \/ DeleteLink(l) \/ CreateLink(l)
         \/ \E rule \in Rule : SaveRule(l, rule)
         \/ \E c \in Channel : ConnectChannel(l, c)
  PROVE  TypeOK'
<1>l. PairsOf(l) \subseteq Link \X User
  BY DEF PairsOf
<1>c. CacheAfterRelease(l) \subseteq User \X Channel
  BY DEF CacheAfterRelease, TypeOK
<1>r. role_links[l] # NoRow => role_links[l] \in Row
  BY DEF TypeOK
<1>1. CASE Register(l)
  <2>1. upstream[l].token \in Nat
    BY DEF TypeOK
  <2>2. [token |-> upstream[l].token, rule |-> "nobody", channel |-> NoChannel] \in Row
    BY <2>1 DEF Row, Rule
  <2>3. role_links' \in [Link -> Row \cup {NoRow}]
    BY <1>1, <1>r, <2>1, <2>2, RowChange DEF Register, TypeOK
  <2> QED BY <1>1, <2>3 DEF Register, TypeOK, rlogic, ghosts
<1>2. CASE DeleteConfig(l)
  <2>1. /\ suspect' \subseteq Link \X User /\ role_assignments' \subseteq Link \X User
        /\ role_links' \in [Link -> Row \cup {NoRow}]
    BY <1>2, <1>l DEF DeleteConfig, DropRow, Contested, TypeOK
  <2> QED BY <1>2, <1>c, <2>1 DEF DeleteConfig, TypeOK, rlogic
<1>3. CASE Disconnect(l)
  <2>1. role_links' \in [Link -> Row \cup {NoRow}]
    BY <1>3, <1>r, RowChange DEF Disconnect, TypeOK
  <2> QED BY <1>3, <1>c, <2>1, SpendStep DEF Disconnect, TypeOK, rlogic, ghosts
<1>4. CASE ToggleLink(l)
  <2>1. upstream' \in [Link -> [token : Nat, state : {"on", "off", "gone"}]]
    BY <1>4 DEF ToggleLink, TypeOK
  <2> QED BY <1>4, <2>1, SpendStep DEF ToggleLink, TypeOK, db, ghosts
<1>5. CASE DeleteLink(l)
  <2>1. upstream' \in [Link -> [token : Nat, state : {"on", "off", "gone"}]]
    BY <1>5 DEF DeleteLink, TypeOK
  <2>2. suspect' \subseteq Link \X User /\ remote' \subseteq Link \X User
    BY <1>5, <1>l DEF DeleteLink, Contested, TypeOK
  <2> QED BY <1>5, <2>1, <2>2, SpendStep DEF DeleteLink, TypeOK, db
<1>6. CASE CreateLink(l)
  <2>1. upstream[l].token + 1 \in Nat
    BY DEF TypeOK
  <2>2. upstream' \in [Link -> [token : Nat, state : {"on", "off", "gone"}]]
    BY <1>6, <2>1 DEF CreateLink, TypeOK
  <2> QED BY <1>6, <2>2, SpendStep DEF CreateLink, TypeOK, db, ghosts
<1>7. ASSUME NEW rule \in Rule, SaveRule(l, rule) PROVE TypeOK'
  <2>1. role_links' \in [Link -> Row \cup {NoRow}]
    BY <1>7, <1>r, RowChange DEF SaveRule, TypeOK
  <2> QED BY <1>7, <2>1, SpendStep DEF SaveRule, TypeOK, rlogic, ghosts
<1>8. ASSUME NEW c \in Channel, ConnectChannel(l, c) PROVE TypeOK'
  <2>1. role_links' \in [Link -> Row \cup {NoRow}]
    BY <1>8, <1>r, RowChange DEF ConnectChannel, TypeOK
  <2>2. budget' \in [env : 0..MaxEnv, faults : 0..MaxFaults]
    BY <1>8, SpendStep DEF ConnectChannel
  <2>3. pending' \subseteq Link
    BY <1>8 DEF ConnectChannel, TypeOK
  <2> QED BY <1>8, <2>1, <2>2, <2>3 DEF ConnectChannel, TypeOK, rlogic, ghosts
<1> QED BY <1>1, <1>2, <1>3, <1>4, <1>5, <1>6, <1>7, <1>8

LEMMA TypeRest ==
  ASSUME TypeOK,
         \/ CleanupExpired \/ Crash
         \/ \E p \in Callback : CallbackDropped(p)
         \/ \E p \in Proc : SyncFails(p) \/ StripFails(p) \/ \E l \in Link : OrphanStays(p, l)
  PROVE  TypeOK'
<1>1. CASE CleanupExpired
  BY <1>1 DEF CleanupExpired, TypeOK, rlogic, ghosts
<1>2. CASE Crash
  <2>1. suspect' \subseteq Link \X User
    BY <1>2 DEF Crash, Contested, TypeOK
  <2>2. queue' \in Seq(Event)
    BY <1>2 DEF Crash
  <2> QED BY <1>2, <2>1, <2>2, IdleIsTask, ConfigIdleTyped, SpendStep DEF Crash, TypeOK, db, rlogic
<1>3. ASSUME NEW p \in Proc, SyncFails(p) PROVE TypeOK'
  <2>1. task[p].user \in User
    BY <1>3 DEF SyncFails, TypeOK, Coherent
  <2>2. queue' \in Seq(Event)
    BY <1>3, <2>1, AppendEvent DEF SyncFails, TypeOK
  <2> QED BY <1>3, <2>2, IdleIsTask, TaskStep, SpendStep DEF SyncFails, TypeOK, db, rlogic, ghosts
<1>4. ASSUME NEW p \in Proc, StripFails(p) PROVE TypeOK'
  <2>1. suspect' \subseteq Link \X User
    BY <1>4 DEF StripFails, PairsBy, TypeOK, Coherent
  <2> QED BY <1>4, <2>1, IdleIsTask, TaskStep, SpendStep DEF StripFails, TypeOK, db, rlogic
<1>5. ASSUME NEW p \in Proc, NEW l \in Link, OrphanStays(p, l) PROVE TypeOK'
  <2>1. suspect' \subseteq Link \X User
    BY <1>5, SMTT(30) DEF OrphanStays, TypeOK, Coherent
  <2>2. Moved(task[p], l, "none") \in TaskState /\ Coherent(Moved(task[p], l, "none"))
    BY MovedIsTask DEF TypeOK
  <2> QED BY <1>5, <2>1, <2>2, TaskStep, SpendStep DEF OrphanStays, TypeOK, db, rlogic
<1>6. ASSUME NEW p \in Callback, CallbackDropped(p) PROVE TypeOK'
  <2>1. p \in Proc
    BY DEF Proc
  <2>2. suspect' \subseteq Link \X User
    BY <1>6 DEF CallbackDropped, Contested, TypeOK
  <2> QED BY <1>6, <2>1, <2>2, IdleIsTask, TaskStep, SpendStep DEF CallbackDropped, TypeOK, db, rlogic
<1> QED BY <1>1, <1>2, <1>3, <1>4, <1>5, <1>6

LEMMA TypeStep == TypeOK /\ [Next]_vars => TypeOK'
<1> SUFFICES ASSUME TypeOK, [Next]_vars PROVE TypeOK'
  OBVIOUS
<1>1. CASE TakeEvent
  BY <1>1, TypeTakeEvent
<1>2. ASSUME NEW p \in Proc, SyncStep(p) PROVE TypeOK'
  BY <1>2, TypeReads, TypeCalls, TypeStrip DEF SyncStep
<1>3. CASE ConfigStep
  BY <1>3, TypeConfig
<1>4. CASE Fault
  BY <1>4, TypeCalls, TypeConfig, TypeUserRequests, TypeRest DEF Fault
<1>5. CASE Environment
  BY <1>5, TypeUserRequests, TypeLinkRequests, TypeRest DEF Environment
<1>6. CASE UNCHANGED vars
  BY <1>6 DEF vars, db, rlogic, ghosts, TypeOK
<1> QED BY <1>1, <1>2, <1>3, <1>4, <1>5, <1>6 DEF Next

\* Every table, list, queue and task keeps its type, and a task only ever calls or
\* writes for a link whose row it has read and for a user it acts on.
THEOREM TypeCorrect == Spec => []TypeOK
BY TypeInit, TypeStep, PTL DEF Spec

-----------------------------------------------------------------------------
(* The mirror and RoleLogic's lists never part without a named cause.  The   *)
(* invariant speaks of one pair of a link and a user at a time: a pair that  *)
(* is not suspect is Sound.  A step either leaves all a pair's Soundness     *)
(* depends on alone (Frame), or is the call, the mirror write or the         *)
(* deletion that is about the pair.                                          *)

SameRole(p, l, u) ==
  \/ task'[p] = task[p]
  \/ ~Writing(p, l, u) /\ ~Writing(p, l, u)'
  \/ /\ task'[p].pc = task[p].pc /\ task'[p].user = task[p].user
     /\ task'[p].at[l] = task[p].at[l]

SameConfig(l) ==
  \/ config' = config
  \/ ~ConfigWriting(l) /\ ~ConfigWriting(l)'

Untouched(l, u) ==
  /\ <<l, u>> \in remote' <=> <<l, u>> \in remote
  /\ <<l, u>> \in role_assignments' <=> <<l, u>> \in role_assignments
  /\ \A p \in Proc : SameRole(p, l, u)
  /\ SameConfig(l)

LEMMA SameRoleWriting ==
  ASSUME NEW p \in Proc, NEW l \in Link, NEW u \in User, SameRole(p, l, u)
  PROVE  Writing(p, l, u)' <=> Writing(p, l, u)
BY DEF SameRole, Writing

\* A step that does not touch a pair leaves it sound.
LEMMA Frame ==
  ASSUME NEW l \in Link, NEW u \in User, Sound(l, u), Untouched(l, u)
  PROVE  Sound(l, u)'
<1>1. \A p \in Proc : Writing(p, l, u)' <=> Writing(p, l, u)
  BY SameRoleWriting DEF Untouched
<1>2. ConfigWriting(l)' <=> ConfigWriting(l)
  BY DEF Untouched, SameConfig, ConfigWriting
<1>3. OneWriter(l, u)'
  BY <1>1, <1>2 DEF Sound, OneWriter
<1>4. TaskKnows(l, u)'
  BY DEF Sound, TaskKnows, Untouched, SameRole, Writing
<1>5. ConfigKnows(l, u)'
  BY <1>2 DEF Sound, ConfigKnows, Untouched, SameConfig
<1>6. Explained(l, u)'
  BY <1>1, <1>2 DEF Sound, Explained, Untouched
<1> QED BY <1>3, <1>4, <1>5, <1>6 DEF Sound

\* sync_for_user done with link k: nothing changes for the other links.
LEMMA MovedRole ==
  ASSUME TypeOK, NEW p \in Proc, NEW k \in Link, task[p].at[k] # "none",
         task' = [task EXCEPT ![p] = Moved(@, k, "none")],
         NEW l \in Link, NEW u \in User,
         \/ l # k \/ u # task[p].user
         \/ task[p].pc = "apply" /\ task[p].at[k] \notin {"added", "removed"}
  PROVE  \A q \in Proc : SameRole(q, l, u)
<1>1. \A q \in Proc : q # p => task'[q] = task[q]
  BY DEF TypeOK
<1>2. task'[p] = Moved(task[p], k, "none")
  BY DEF TypeOK
<1> DEFINE at == [task[p].at EXCEPT ![k] = "none"]
<1>3. at[l] = IF l = k THEN "none" ELSE task[p].at[l]
  BY DEF TypeOK, TaskState
<1>4. task[p].pc \in {"apply", "strip"}
  BY DEF TypeOK, Coherent
<1>5. CASE task[p].pc = "apply" /\ at = Resting
  <2>1. task'[p] = Idle
    BY <1>2, <1>5 DEF Moved
  <2>2. ~Writing(p, l, u)'
    BY <2>1 DEF Writing, Idle
  <2>3. l # k => task[p].at[l] = "none"
    BY <1>3, <1>5 DEF Resting
  <2>4. ~Writing(p, l, u)
    BY <2>3, <1>5 DEF Writing
  <2> QED BY <1>1, <2>2, <2>4 DEF SameRole
<1>6. CASE ~(task[p].pc = "apply" /\ at = Resting)
  <2>1. task'[p] = [task[p] EXCEPT !.at = at]
    BY <1>2, <1>6 DEF Moved
  <2>2. task'[p].pc = task[p].pc /\ task'[p].user = task[p].user /\ task'[p].at = at
    BY <2>1 DEF TypeOK, TaskState
  <2>3. CASE l # k
    BY <2>2, <2>3, <1>1, <1>3 DEF SameRole
  <2>4. CASE l = k /\ u # task[p].user
    BY <2>2, <2>4, <1>1 DEF SameRole, Writing
  <2>5. CASE l = k /\ u = task[p].user
    BY <2>2, <2>5, <1>1, <1>3 DEF SameRole, Writing
  <2> QED BY <2>3, <2>4, <2>5
<1> QED BY <1>5, <1>6

\* ... nor for link k, when a call is what moves it.
LEMMA StageRole ==
  ASSUME TypeOK, NEW p \in Proc, NEW k \in Link, NEW stage \in Stage,
         task' = [task EXCEPT ![p].at[k] = stage],
         NEW l \in Link, NEW u \in User,
         \/ l # k \/ u # task[p].user
         \/ task[p].pc = "apply" /\ {task[p].at[k], stage} \cap {"added", "removed"} = {}
  PROVE  \A q \in Proc : SameRole(q, l, u)
<1>1. \A q \in Proc : q # p => task'[q] = task[q]
  BY DEF TypeOK
<1>2. task'[p] = [task[p] EXCEPT !.at[k] = stage]
  BY DEF TypeOK
<1>3. /\ task'[p].pc = task[p].pc /\ task'[p].user = task[p].user
      /\ task'[p].at = [task[p].at EXCEPT ![k] = stage]
  BY <1>2 DEF TypeOK, TaskState
<1>4. task'[p].at[l] = IF l = k THEN stage ELSE task[p].at[l]
  BY <1>3 DEF TypeOK, TaskState
<1>5. CASE l # k
  BY <1>1, <1>3, <1>4, <1>5 DEF SameRole
<1>6. CASE l = k /\ u # task[p].user
  BY <1>1, <1>3, <1>6 DEF SameRole, Writing
<1>7. CASE l = k /\ u = task[p].user
  BY <1>1, <1>3, <1>4, <1>7 DEF SameRole, Writing
<1> QED BY <1>5, <1>6, <1>7

\* A step that touches no pair.
LEMMA FrameAll ==
  ASSUME PairsSound, suspect \subseteq suspect', remote' = remote,
         role_assignments' = role_assignments,
         \A l \in Link, u \in User : \A q \in Proc : SameRole(q, l, u),
         \A l \in Link : SameConfig(l)
  PROVE  PairsSound'
<1> SUFFICES ASSUME NEW l \in Link, NEW u \in User, <<l, u>> \notin suspect'
             PROVE  Sound(l, u)'
  BY DEF PairsSound
<1>1. Sound(l, u)
  BY DEF PairsSound
<1> QED BY <1>1, Frame DEF Untouched

\* A task that moves without having been, or becoming, a writer.
LEMMA QuietTask ==
  ASSUME TypeOK, NEW p \in Proc, \A q \in Proc \ {p} : task'[q] = task[q],
         \A l \in Link, u \in User : ~Writing(p, l, u) /\ ~Writing(p, l, u)'
  PROVE  \A l \in Link, u \in User : \A q \in Proc : SameRole(q, l, u)
BY DEF SameRole

LEMMA TaskParts ==
  ASSUME NEW t \in TaskState, NEW pc, NEW a, NEW b
  PROVE  /\ [t EXCEPT !.pc = pc, !.guilds = a, !.rows = b].pc = pc
         /\ [t EXCEPT !.pc = pc, !.channels = a, !.at = b].pc = pc
         /\ [t EXCEPT !.pc = pc, !.channels = a, !.at = b].at = b
         /\ [t EXCEPT !.pc = pc, !.guilds = a].pc = pc
         /\ [t EXCEPT !.pc = pc, !.channels = a].pc = pc
         /\ [t EXCEPT !.pc = pc].pc = pc
BY DEF TaskState

LEMMA PairsTakeEvent == TypeOK /\ PairsSound /\ TakeEvent => PairsSound'
<1> SUFFICES ASSUME TypeOK, PairsSound, TakeEvent PROVE PairsSound'
  OBVIOUS
<1>1. Worker \in Proc
  BY DEF Proc
<1>2. task'[Worker].pc \in {"linked", "assignments"} /\ task[Worker].pc = "idle"
  BY <1>1, ZenonT(60) DEF TakeEvent, Begin, Idle, TypeOK
<1>3. \A l \in Link, u \in User : ~Writing(Worker, l, u) /\ ~Writing(Worker, l, u)'
  BY <1>2 DEF Writing
<1>4. \A q \in Proc \ {Worker} : task'[q] = task[q]
  BY DEF TakeEvent, TypeOK
<1>5. UNCHANGED <<role_assignments, remote, config, suspect>>
  BY DEF TakeEvent, db, rlogic
<1>6. \A l \in Link : SameConfig(l)
  BY <1>5 DEF SameConfig
<1>7. \A l \in Link, u \in User : \A q \in Proc : SameRole(q, l, u)
  BY <1>1, <1>3, <1>4, QuietTask
<1> QED BY <1>5, <1>6, <1>7, FrameAll

LEMMA PairsReads ==
  ASSUME TypeOK, PairsSound, NEW p \in Proc,
         \/ ReadLinked(p) \/ ReadGuilds(p) \/ ReadLinks(p) \/ ReadCache(p) \/ ReadExisting(p)
         \/ SyncFails(p)
  PROVE  PairsSound'
<1>1. /\ \A q \in Proc \ {p} : task'[q] = task[q]
      /\ UNCHANGED <<db, rlogic, config, ghosts>>
  BY DEF ReadLinked, ReadGuilds, ReadLinks, ReadCache, ReadExisting, SyncFails, TypeOK
<1>2. task[p].pc \in {"linked", "guilds", "links", "cache", "existing"}
  BY DEF ReadLinked, ReadGuilds, ReadLinks, ReadCache, ReadExisting, SyncFails
<1>3. \A l \in Link, u \in User : ~Writing(p, l, u)'
  <2>1. CASE ReadExisting(p)
    <3> DEFINE t == [task[p] EXCEPT !.pc = "apply", !.channels = {}, !.at = Plan(p)]
    <3>0. PICK s \in {Idle, t} : task' = [task EXCEPT ![p] = s]
      BY <2>1 DEF ReadExisting
    <3>1. task'[p] = Idle \/ task'[p] = t
      BY <3>0 DEF TypeOK
    <3>2. t.pc = "apply" /\ t.at = Plan(p) /\ Idle.pc = "idle"
      BY TaskParts DEF Idle, TypeOK
    <3>3. \A l \in Link : Plan(p)[l] \in {"none", "add", "remove"}
      BY DEF Plan
    <3> QED BY <3>1, <3>2, <3>3 DEF Writing
  <2>2. CASE ReadLinks(p)
    <3> DEFINE rows == [l \in Link |-> IF GuildOf[l] \in task[p].guilds
                                         THEN role_links[l] ELSE NoRow]
               t == [task[p] EXCEPT !.pc = "cache", !.guilds = {}, !.rows = rows]
    <3>1. PICK s \in {Idle, t} : task' = [task EXCEPT ![p] = s]
      BY <2>2 DEF ReadLinks
    <3>2. task'[p] = Idle \/ task'[p] = t
      BY <3>1 DEF TypeOK
    <3>3. t.pc = "cache" /\ Idle.pc = "idle"
      BY TaskParts DEF Idle, TypeOK
    <3> QED BY <3>2, <3>3 DEF Writing
  <2>3. CASE ReadLinked(p) \/ SyncFails(p)
    <3> DEFINE t == [task[p] EXCEPT !.pc = "guilds"]
    <3>1. PICK s \in {Idle, t} : task' = [task EXCEPT ![p] = s]
      BY <2>3 DEF ReadLinked, SyncFails
    <3>2. task'[p] = Idle \/ task'[p] = t
      BY <3>1 DEF TypeOK
    <3>3. t.pc = "guilds" /\ Idle.pc = "idle"
      BY TaskParts DEF Idle, TypeOK
    <3> QED BY <3>2, <3>3 DEF Writing
  <2>4. CASE ReadGuilds(p)
    <3> DEFINE guilds == {g \in Guild : <<g, task[p].user>> \in members}
               t == [task[p] EXCEPT !.pc = "links", !.guilds = guilds]
    <3>1. PICK s \in {Idle, t} : task' = [task EXCEPT ![p] = s]
      BY <2>4 DEF ReadGuilds
    <3>2. task'[p] = Idle \/ task'[p] = t
      BY <3>1 DEF TypeOK
    <3>3. t.pc = "links" /\ Idle.pc = "idle"
      BY TaskParts DEF Idle, TypeOK
    <3> QED BY <3>2, <3>3 DEF Writing
  <2>5. CASE ReadCache(p)
    <3>1. task'[p].pc = "existing"
      BY <2>5, TaskParts DEF ReadCache, TypeOK
    <3> QED BY <3>1 DEF Writing
  <2> QED BY <2>1, <2>2, <2>3, <2>4, <2>5
<1>4. \A l \in Link, u \in User : ~Writing(p, l, u)
  BY <1>2 DEF Writing
<1>5. UNCHANGED <<role_assignments, remote, config, suspect>>
  BY <1>1 DEF db, rlogic, ghosts
<1>6. \A l \in Link : SameConfig(l)
  BY <1>5 DEF SameConfig
<1>7. \A l \in Link, u \in User : \A q \in Proc : SameRole(q, l, u)
  BY <1>1, <1>3, <1>4, QuietTask
<1> QED BY <1>5, <1>6, <1>7, FrameAll

\* A step about one pair: the others are untouched, and it is suspect or sound.
LEMMA OnePair ==
  ASSUME PairsSound, NEW k \in Link, NEW w \in User,
         \A l \in Link, u \in User : <<l, u>> # <<k, w>> =>
           (<<l, u>> \notin suspect' => <<l, u>> \notin suspect) /\ Untouched(l, u),
         <<k, w>> \in suspect' \/ Sound(k, w)'
  PROVE  PairsSound'
<1> SUFFICES ASSUME NEW l \in Link, NEW u \in User, <<l, u>> \notin suspect'
             PROVE  Sound(l, u)'
  BY DEF PairsSound
<1>1. CASE <<l, u>> = <<k, w>>
  BY <1>1
<1>2. CASE <<l, u>> # <<k, w>>
  <2>1. Sound(l, u) /\ Untouched(l, u)
    BY <1>2 DEF PairsSound
  <2> QED BY <2>1, Frame
<1> QED BY <1>1, <1>2

\* A call, and the mirror write after it, concern the pair of the link and the task's user.
LEMMA TaskUser ==
  ASSUME TypeOK, NEW p \in Proc, task[p].pc # "idle"
  PROVE  task[p].user \in User
BY DEF TypeOK, Coherent

LEMMA PairsCallAccepted ==
  ASSUME TypeOK, PairsSound, NEW p \in Proc, NEW k \in Link, CallAccepted(p, k)
  PROVE  PairsSound'
<1>1. task[p].pc = "apply" /\ task[p].at[k] \in {"add", "remove"}
  BY DEF CallAccepted, Calling
<1>2. PICK w \in User : w = task[p].user
  BY <1>1, TaskUser
<1> DEFINE x == <<k, w>>
<1>3. PICK s \in {"added", "removed"} :
        /\ task' = [task EXCEPT ![p].at[k] = s]
        /\ s = "added" => remote' = remote \cup {x}
        /\ s = "removed" => remote' = remote \ {x}
  BY <1>2 DEF CallAccepted, Carried, Calling
<1>4. UNCHANGED <<role_assignments, config>>
  BY DEF CallAccepted, db
<1>5. suspect' = (suspect \ {x}) \cup Contested({x}, Proc \ {p}) \cup (IF ConfigWriting(k) THEN {x} ELSE {})
  BY <1>2 DEF CallAccepted, Settled
<1>6. ASSUME NEW l \in Link, NEW u \in User, <<l, u>> # x
      PROVE  (<<l, u>> \notin suspect' => <<l, u>> \notin suspect) /\ Untouched(l, u)
  <2>1. \A q \in Proc : SameRole(q, l, u)
    BY <1>2, <1>3, <1>6, StageRole DEF Stage
  <2>2. SameConfig(l)
    BY <1>4 DEF SameConfig
  <2> QED BY <1>3, <1>4, <1>5, <1>6, <2>1, <2>2 DEF Untouched
<1>7. ASSUME x \notin suspect' PROVE Sound(k, w)'
  <2>1. ~ConfigWriting(k)
    BY <1>5, <1>7
  <2>2. \A q \in Proc \ {p} : ~Writing(q, k, w)
    BY <1>5, <1>7 DEF Contested
  <2>3. /\ \A q \in Proc \ {p} : task'[q] = task[q]
        /\ task'[p].user = w /\ task'[p].pc = "apply" /\ task'[p].at[k] = s
    BY <1>1, <1>2, <1>3 DEF TypeOK, TaskState
  <2>4. \A q \in Proc \ {p} : ~Writing(q, k, w)'
    BY <2>2, <2>3 DEF Writing
  <2>5. Writing(p, k, w)' /\ ~ConfigWriting(k)'
    BY <2>1, <2>3, <1>4 DEF Writing, ConfigWriting
  <2>6. OneWriter(k, w)' /\ ConfigKnows(k, w)' /\ Explained(k, w)'
    BY <2>4, <2>5 DEF OneWriter, ConfigKnows, Explained
  <2>7. TaskKnows(k, w)'
    BY <1>3, <2>3, <2>4 DEF TaskKnows, Writing
  <2> QED BY <2>6, <2>7 DEF Sound
<1> QED BY <1>6, <1>7, OnePair

\* The call comes to nothing and the action ends: only an answer that was lost
\* makes a difference, and it makes the pair suspect.
LEMMA PairsCallEnds ==
  ASSUME TypeOK, PairsSound, NEW p \in Proc, NEW k \in Link,
         \/ CallDeclined(p, k) \/ CallFails(p, k) \/ MirrorWriteFails(p, k)
  PROVE  PairsSound'
<1>1. /\ task[p].pc = "apply" /\ task[p].at[k] \in {"add", "remove", "added", "removed"}
      /\ task' = [task EXCEPT ![p] = Moved(@, k, "none")]
      /\ UNCHANGED <<role_assignments, config>>
  BY DEF CallDeclined, CallFails, MirrorWriteFails, Calling, db
<1>2. PICK w \in User : w = task[p].user
  BY <1>1, TaskUser
<1> DEFINE x == <<k, w>>
<1>3. \/ /\ task[p].at[k] \in {"add", "remove"} /\ UNCHANGED <<remote, suspect>>
      \/ /\ remote' \in {remote, remote \cup {x}, remote \ {x}}
         /\ suspect' = suspect \cup {x}
  BY <1>2 DEF CallDeclined, CallFails, MirrorWriteFails, Calling, Carried, rlogic, ghosts
<1>4. ASSUME NEW l \in Link, NEW u \in User, <<l, u>> # x
      PROVE  (<<l, u>> \notin suspect' => <<l, u>> \notin suspect) /\ Untouched(l, u)
  <2>1. \A q \in Proc : SameRole(q, l, u)
    BY <1>1, <1>2, <1>4, MovedRole
  <2>2. SameConfig(l)
    BY <1>1 DEF SameConfig
  <2> QED BY <1>1, <1>3, <1>4, <2>1, <2>2 DEF Untouched
<1>5. x \in suspect' \/ Sound(k, w)'
  <2>1. CASE x \in suspect
    BY <1>3, <2>1
  <2>2. CASE x \notin suspect /\ task[p].at[k] \in {"add", "remove"} /\ UNCHANGED <<remote, suspect>>
    <3>1. \A q \in Proc : SameRole(q, k, w)
      BY <1>1, <2>2, MovedRole
    <3>2. Untouched(k, w)
      BY <1>1, <2>2, <3>1 DEF Untouched, SameConfig
    <3> QED BY <2>2, <3>2, Frame DEF PairsSound
  <2> QED BY <1>3, <2>1, <2>2
<1> QED BY <1>4, <1>5, OnePair

\* The mirror write of the only writer puts down what RoleLogic has.
LEMMA PairsWriteMirror ==
  ASSUME TypeOK, PairsSound, NEW p \in Proc, NEW k \in Link, WriteMirror(p, k)
  PROVE  PairsSound'
<1>1. /\ task[p].pc = "apply"
      /\ task' = [task EXCEPT ![p] = Moved(@, k, "none")]
      /\ UNCHANGED <<remote, config, suspect>>
  BY DEF WriteMirror, rlogic, ghosts
<1>2. PICK w \in User : w = task[p].user
  BY <1>1, TaskUser
<1> DEFINE x == <<k, w>>
<1>3. \/ task[p].at[k] = "added" /\ role_assignments' = role_assignments \cup {x}
      \/ task[p].at[k] = "removed" /\ role_assignments' = role_assignments \ {x}
  BY <1>2 DEF WriteMirror
<1>4. ASSUME NEW l \in Link, NEW u \in User, <<l, u>> # x
      PROVE  (<<l, u>> \notin suspect' => <<l, u>> \notin suspect) /\ Untouched(l, u)
  <2>1. \A q \in Proc : SameRole(q, l, u)
    BY <1>1, <1>2, <1>3, <1>4, MovedRole
  <2>2. SameConfig(l)
    BY <1>1 DEF SameConfig
  <2> QED BY <1>1, <1>3, <1>4, <2>1, <2>2 DEF Untouched
<1>5. ASSUME x \notin suspect PROVE Sound(k, w)'
  <2>1. Sound(k, w) /\ Writing(p, k, w)
    BY <1>1, <1>2, <1>3, <1>5 DEF PairsSound, Writing
  <2>2. ~ConfigWriting(k) /\ \A q \in Proc \ {p} : ~Writing(q, k, w)
    BY <2>1 DEF Sound, OneWriter
  <2>3. x \in remote' <=> x \in role_assignments'
    BY <1>1, <1>2, <1>3, <2>1 DEF Sound, TaskKnows
  <2>4. \A q \in Proc \ {p} : task'[q] = task[q]
    BY <1>1 DEF TypeOK
  <2>5. task'[p].pc = "idle" \/ (task'[p].pc = "apply" /\ task'[p].at[k] = "none")
    <3> DEFINE at == [task[p].at EXCEPT ![k] = "none"]
    <3>1. task'[p] = Idle \/ task'[p] = [task[p] EXCEPT !.at = at]
      BY <1>1 DEF TypeOK, Moved
    <3>2. at[k] = "none" /\ Idle.pc = "idle"
      BY DEF Idle, TypeOK, TaskState
    <3>3. LET t == [task[p] EXCEPT !.at = at] IN t.pc = task[p].pc /\ t.at = at
      BY DEF TypeOK, TaskState
    <3> QED BY <1>1, <3>1, <3>2, <3>3
  <2>6. \A q \in Proc : ~Writing(q, k, w)'
    BY <2>2, <2>4, <2>5 DEF Writing
  <2>7. ~ConfigWriting(k)'
    BY <1>1, <2>2 DEF ConfigWriting
  <2>8. TaskKnows(k, w)'
    BY <2>6 DEF TaskKnows, Writing
  <2> QED BY <2>3, <2>6, <2>7, <2>8 DEF Sound, OneWriter, ConfigKnows, Explained
<1>6. x \in suspect' \/ Sound(k, w)'
  BY <1>1, <1>5
<1> QED BY <1>4, <1>6, OnePair

\* A pair nobody writes and both sides agree on is sound.
LEMMA SoundAtRest ==
  ASSUME NEW l \in Link, NEW u \in User,
         \A p \in Proc : ~Writing(p, l, u), ~ConfigWriting(l),
         <<l, u>> \in remote <=> <<l, u>> \in role_assignments
  PROVE  Sound(l, u)
BY DEF Sound, OneWriter, TaskKnows, ConfigKnows, Explained, Writing

LEMMA PairsCallFindsLinkGone ==
  ASSUME TypeOK, PairsSound, NEW p \in Proc, NEW k \in Link, CallFindsLinkGone(p, k)
  PROVE  PairsSound'
<1>1. /\ task[p].pc \in {"apply", "strip"} /\ task[p].at[k] \in {"add", "remove"}
      /\ task' = [task EXCEPT ![p].at[k] = "gone"]
      /\ UNCHANGED <<remote, role_assignments, config, suspect>>
  BY DEF CallFindsLinkGone, Calling, db, rlogic, ghosts
<1> SUFFICES ASSUME NEW l \in Link, NEW u \in User, <<l, u>> \notin suspect'
             PROVE  Sound(l, u)'
  BY DEF PairsSound
<1>2. Sound(l, u)
  BY <1>1 DEF PairsSound
<1>3. CASE l # k \/ u # task[p].user \/ task[p].pc = "apply"
  <2>1. "gone" \in Stage /\ {task[p].at[k], "gone"} \cap {"added", "removed"} = {}
    BY <1>1 DEF Stage
  <2>2. \A q \in Proc : SameRole(q, l, u)
    BY <1>1, <1>3, <2>1, StageRole
  <2> QED BY <1>1, <1>2, <2>2, Frame DEF Untouched, SameConfig
<1>4. CASE l = k /\ u = task[p].user /\ task[p].pc = "strip"
  <2>1. \A q \in Proc \ {p} : task'[q] = task[q]
    BY <1>1 DEF TypeOK
  <2>2. task'[p].pc = "strip" /\ task'[p].user = u /\ task'[p].at[l] = "gone"
    BY <1>1, <1>4 DEF TypeOK, TaskState
  <2>3. \A q \in Proc : Writing(q, l, u)' <=> Writing(q, l, u)
    BY <1>4, <2>1, <2>2 DEF Writing
  <2>4. ConfigWriting(l)' <=> ConfigWriting(l)
    BY <1>1 DEF ConfigWriting
  <2>5. TaskKnows(l, u)'
    BY <1>1, <1>2, <2>1, <2>2 DEF Sound, TaskKnows
  <2>6. OneWriter(l, u)' /\ ConfigKnows(l, u)' /\ Explained(l, u)'
    BY <1>1, <1>2, <2>3, <2>4 DEF Sound, OneWriter, ConfigKnows, Explained
  <2> QED BY <2>5, <2>6 DEF Sound
<1> QED BY <1>1, <1>3, <1>4

\* Deleting a row: what is left unsuspected of its pairs is on neither side, and
\* nobody is writing it.
LEMMA Dropped ==
  ASSUME NEW k \in Link, DropRow(k), NEW u \in User, <<k, u>> \notin suspect'
  PROVE  /\ <<k, u>> \notin remote /\ <<k, u>> \notin role_assignments'
         /\ ~ConfigWriting(k) /\ \A p \in Proc : ~Writing(p, k, u)
BY DEF DropRow, PairsOf, Contested

LEMMA DroppedElsewhere ==
  ASSUME NEW k \in Link, DropRow(k), NEW l \in Link, NEW u \in User, l # k
  PROVE  /\ <<l, u>> \in suspect' <=> <<l, u>> \in suspect
         /\ <<l, u>> \in role_assignments' <=> <<l, u>> \in role_assignments
BY DEF DropRow, PairsOf, Contested

LEMMA PairsDeleteConfig ==
  ASSUME TypeOK, PairsSound, NEW k \in Link, DeleteConfig(k)
  PROVE  PairsSound'
<1>1. DropRow(k) /\ UNCHANGED <<remote, task, config>>
  BY DEF DeleteConfig, rlogic
<1> SUFFICES ASSUME NEW l \in Link, NEW u \in User, <<l, u>> \notin suspect'
             PROVE  Sound(l, u)'
  BY DEF PairsSound
<1>2. CASE l = k
  <2>1. ~ConfigWriting(l)' /\ \A p \in Proc : ~Writing(p, l, u)'
    BY <1>1, <1>2, Dropped DEF ConfigWriting, Writing
  <2> QED BY <1>1, <1>2, <2>1, Dropped, SoundAtRest DEF Sound, OneWriter, TaskKnows, ConfigKnows, Explained, Writing
<1>3. CASE l # k
  <2>1. Sound(l, u)
    BY <1>1, <1>3, DroppedElsewhere DEF PairsSound
  <2> QED BY <1>1, <1>3, <2>1, DroppedElsewhere, Frame DEF Untouched, SameRole, SameConfig
<1> QED BY <1>2, <1>3

LEMMA PairsDeleteOrphan ==
  ASSUME TypeOK, PairsSound, NEW p \in Proc, NEW k \in Link, DeleteOrphan(p, k)
  PROVE  PairsSound'
<1>1. /\ DropRow(k) /\ UNCHANGED <<remote, config>> /\ task[p].at[k] = "gone"
      /\ task' = [task EXCEPT ![p] = Moved(@, k, "none")]
  BY DEF DeleteOrphan, rlogic
<1>2. task[p].pc \in {"apply", "strip"}
  BY <1>1 DEF TypeOK, Coherent
<1>3. \A q \in Proc \ {p} : task'[q] = task[q]
  BY <1>1 DEF TypeOK
<1> SUFFICES ASSUME NEW l \in Link, NEW u \in User, <<l, u>> \notin suspect'
             PROVE  Sound(l, u)'
  BY DEF PairsSound
<1>4. CASE l = k
  <2>1. ~ConfigWriting(l)' /\ \A q \in Proc \ {p} : ~Writing(q, l, u)'
    BY <1>1, <1>3, <1>4, Dropped DEF ConfigWriting, Writing
  <2>2. ~Writing(p, l, u)
    BY <1>1, <1>4, Dropped
  <2>3. task[p].user = u => task[p].pc = "apply"
    BY <1>2, <2>2 DEF Writing
  <2>4. ~Writing(p, l, u)'
    <3> DEFINE at == [task[p].at EXCEPT ![k] = "none"]
    <3>1. task'[p] = Idle \/ task'[p] = [task[p] EXCEPT !.at = at]
      BY <1>1 DEF TypeOK, Moved
    <3>2. at[k] = "none" /\ Idle.pc = "idle"
      BY DEF Idle, TypeOK, TaskState
    <3>3. LET t == [task[p] EXCEPT !.at = at]
          IN t.pc = task[p].pc /\ t.user = task[p].user /\ t.at = at
      BY DEF TypeOK, TaskState
    <3> QED BY <1>4, <2>3, <3>1, <3>2, <3>3 DEF Writing
  <2>5. \A q \in Proc : ~Writing(q, l, u)'
    BY <2>1, <2>4
  <2>6. <<l, u>> \notin remote' /\ <<l, u>> \notin role_assignments'
    BY <1>1, <1>4, Dropped
  <2> QED BY <2>1, <2>5, <2>6 DEF Sound, OneWriter, TaskKnows, ConfigKnows, Explained, Writing
<1>5. CASE l # k
  <2>1. Sound(l, u)
    BY <1>1, <1>5, DroppedElsewhere DEF PairsSound
  <2>2. \A q \in Proc : SameRole(q, l, u)
    BY <1>1, <1>5, MovedRole
  <2> QED BY <1>1, <1>5, <2>1, <2>2, DroppedElsewhere, Frame DEF Untouched, SameConfig
<1> QED BY <1>4, <1>5

\* The link goes upstream, its list with it.
LEMMA PairsDeleteLink ==
  ASSUME TypeOK, PairsSound, NEW k \in Link, DeleteLink(k)
  PROVE  PairsSound'
<1>1. /\ UNCHANGED <<role_assignments, task, config>>
      /\ remote' = remote \ PairsOf(k)
      /\ suspect' = suspect \cup (PairsOf(k) \cap role_assignments) \cup Contested(PairsOf(k), Proc)
                      \cup (IF ConfigWriting(k) THEN PairsOf(k) ELSE {})
  BY DEF DeleteLink, db
<1> SUFFICES ASSUME NEW l \in Link, NEW u \in User, <<l, u>> \notin suspect'
             PROVE  Sound(l, u)'
  BY DEF PairsSound
<1>2. CASE l = k
  <2>1. ~ConfigWriting(l) /\ (\A p \in Proc : ~Writing(p, l, u)) /\ <<l, u>> \notin role_assignments
    BY <1>1, <1>2 DEF Contested, PairsOf
  <2>2. ~ConfigWriting(l)' /\ (\A p \in Proc : ~Writing(p, l, u)')
    BY <1>1, <2>1 DEF ConfigWriting, Writing
  <2>3. <<l, u>> \notin role_assignments' /\ <<l, u>> \notin remote'
    BY <1>1, <1>2, <2>1 DEF PairsOf
  <2> QED BY <2>2, <2>3 DEF Sound, OneWriter, TaskKnows, ConfigKnows, Explained, Writing
<1>3. CASE l # k
  <2>1. Sound(l, u)
    BY <1>1 DEF PairsSound
  <2> QED BY <1>1, <1>3, <2>1, Frame DEF Untouched, SameRole, SameConfig, PairsOf
<1> QED BY <1>2, <1>3

\* A restart makes suspect whatever was being written.
LEMMA PairsCrash == TypeOK /\ PairsSound /\ Crash => PairsSound'
<1> SUFFICES ASSUME TypeOK, PairsSound, Crash, NEW l \in Link, NEW u \in User, <<l, u>> \notin suspect'
             PROVE  Sound(l, u)'
  BY DEF PairsSound
<1>1. Sound(l, u) /\ ~ConfigWriting(l) /\ \A p \in Proc : ~Writing(p, l, u)
  BY DEF Crash, Contested, PairsSound
<1>2. <<l, u>> \in remote' <=> <<l, u>> \in role_assignments'
  BY <1>1 DEF Sound, Explained, Crash, db, rlogic
<1>3. \A p \in Proc : task'[p].pc = "idle"
  BY DEF Crash, Idle
<1>4. config'.pc = "idle"
  BY DEF Crash, ConfigIdle
<1> QED BY <1>2, <1>3, <1>4 DEF Sound, OneWriter, TaskKnows, ConfigKnows, Explained, Writing, ConfigWriting

\* remove_all_assignments works from the mirror: where nobody else is writing, what
\* the mirror does not name is not on RoleLogic's list.
LEMMA PairsReadAssignments ==
  ASSUME TypeOK, MirrorHasRow, PairsSound, NEW p \in Proc, ReadAssignments(p)
  PROVE  PairsSound'
<1>1. PICK w \in User : w = task[p].user
  BY TaskUser DEF ReadAssignments
<1> DEFINE held(l) == <<l, w>> \in role_assignments /\ role_links[l] # NoRow
           rows == [l \in Link |-> IF held(l) THEN role_links[l] ELSE NoRow]
           at == [l \in Link |-> IF held(l) THEN "remove" ELSE "none"]
           t == [task[p] EXCEPT !.pc = "strip", !.rows = rows, !.at = at]
<1>2. task' = [task EXCEPT ![p] = t]
  BY <1>1 DEF ReadAssignments
<1>3. t.pc = "strip" /\ t.user = w /\ t.at = at
  BY <1>1 DEF TypeOK, TaskState
<1>4. /\ task'[p] = t /\ task[p].pc = "assignments"
      /\ \A q \in Proc \ {p} : task'[q] = task[q]
  BY <1>2 DEF TypeOK, ReadAssignments
<1>5. /\ UNCHANGED <<remote, role_assignments, config>>
      /\ suspect' = suspect \cup Contested(PairsBy(w), Proc \ {p})
                      \cup {x \in PairsBy(w) : ConfigWriting(x[1])}
  BY <1>1 DEF ReadAssignments, db, rlogic
<1> SUFFICES ASSUME NEW l \in Link, NEW u \in User, <<l, u>> \notin suspect'
             PROVE  Sound(l, u)'
  BY DEF PairsSound
<1>6. Sound(l, u)
  BY <1>5 DEF PairsSound
<1>7. ~Writing(p, l, u)
  BY <1>4 DEF Writing
<1>8. CASE u # w
  <2>1. \A q \in Proc : SameRole(q, l, u)
    BY <1>3, <1>4, <1>7, <1>8 DEF SameRole, Writing
  <2> QED BY <1>5, <1>6, <2>1, Frame DEF Untouched, SameConfig
<1>9. CASE u = w
  <2>1. ~ConfigWriting(l) /\ \A q \in Proc \ {p} : ~Writing(q, l, u)
    BY <1>5, <1>9 DEF Contested, PairsBy
  <2>2. <<l, u>> \in remote <=> <<l, u>> \in role_assignments
    BY <1>6, <1>7, <2>1 DEF Sound, Explained
  <2>3. /\ ~ConfigWriting(l)' /\ Writing(p, l, u)'
        /\ \A q \in Proc \ {p} : ~Writing(q, l, u)'
    BY <1>3, <1>4, <1>5, <1>9, <2>1 DEF Writing, ConfigWriting
  <2>4. <<l, u>> \in remote' => task'[p].at[l] # "none"
    <3>1. <<l, u>> \in remote' => held(l)
      BY <1>5, <1>9, <2>2 DEF MirrorHasRow
    <3>2. held(l) => at[l] = "remove"
      OBVIOUS
    <3> QED BY <1>3, <1>4, <3>1, <3>2
  <2>5. TaskKnows(l, u)'
    BY <1>3, <1>4, <2>3, <2>4 DEF TaskKnows, Writing
  <2> QED BY <2>3, <2>5 DEF Sound, OneWriter, ConfigKnows, Explained
<1> QED BY <1>8, <1>9

LEMMA PairsStripCall ==
  ASSUME TypeOK, PairsSound, NEW p \in Proc, NEW k \in Link, StripCall(p, k)
  PROVE  PairsSound'
<1>1. /\ task[p].pc = "strip" /\ task' = [task EXCEPT ![p].at[k] = "none"]
      /\ UNCHANGED <<role_assignments, config>>
  BY DEF StripCall, db
<1>2. PICK w \in User : w = task[p].user
  BY <1>1, TaskUser
<1> DEFINE x == <<k, w>>
<1>3. \/ /\ remote' = remote \ {x}
         /\ suspect' = suspect \cup Contested({x}, Proc \ {p})
                         \cup (IF ConfigWriting(k) THEN {x} ELSE {})
      \/ suspect' = suspect \cup {x} /\ UNCHANGED remote
  BY <1>2 DEF StripCall
<1>4. ASSUME NEW l \in Link, NEW u \in User, <<l, u>> # x
      PROVE  (<<l, u>> \notin suspect' => <<l, u>> \notin suspect) /\ Untouched(l, u)
  <2>1. \A q \in Proc : SameRole(q, l, u)
    BY <1>1, <1>2, <1>4, StageRole DEF Stage
  <2>2. SameConfig(l)
    BY <1>1 DEF SameConfig
  <2> QED BY <1>1, <1>3, <1>4, <2>1, <2>2 DEF Untouched
<1>5. ASSUME x \notin suspect' PROVE Sound(k, w)'
  <2>1. /\ remote' = remote \ {x} /\ ~ConfigWriting(k)
        /\ \A q \in Proc \ {p} : ~Writing(q, k, w)
    BY <1>3, <1>5 DEF Contested
  <2>2. /\ \A q \in Proc \ {p} : task'[q] = task[q]
        /\ task'[p].pc = "strip" /\ task'[p].user = w
    BY <1>1, <1>2 DEF TypeOK, TaskState
  <2>3. /\ ~ConfigWriting(k)' /\ Writing(p, k, w)'
        /\ \A q \in Proc \ {p} : ~Writing(q, k, w)'
    BY <1>1, <2>1, <2>2 DEF Writing, ConfigWriting
  <2>4. TaskKnows(k, w)'
    BY <2>1, <2>2, <2>3 DEF TaskKnows, Writing
  <2> QED BY <2>3, <2>4 DEF Sound, OneWriter, ConfigKnows, Explained
<1> QED BY <1>4, <1>5, OnePair

LEMMA PairsWipeMirror ==
  ASSUME TypeOK, PairsSound, NEW p \in Proc, WipeMirror(p)
  PROVE  PairsSound'
<1>1. /\ task[p].pc = "strip" /\ task[p].at = Resting
      /\ UNCHANGED <<remote, config, suspect>>
      /\ \A q \in Proc \ {p} : task'[q] = task[q]
      /\ task'[p] = Idle
  BY DEF WipeMirror, rlogic, ghosts, TypeOK
<1>2. PICK w \in User : w = task[p].user
  BY <1>1, TaskUser
<1>3. role_assignments' = role_assignments \ PairsBy(w)
  BY <1>2 DEF WipeMirror
<1>4. \A l \in Link, u \in User : ~Writing(p, l, u)'
  BY <1>1 DEF Idle, Writing
<1> SUFFICES ASSUME NEW l \in Link, NEW u \in User, <<l, u>> \notin suspect'
             PROVE  Sound(l, u)'
  BY DEF PairsSound
<1>5. Sound(l, u)
  BY <1>1 DEF PairsSound
<1>6. CASE u # w
  <2>1. \A q \in Proc : SameRole(q, l, u)
    BY <1>1, <1>2, <1>4, <1>6 DEF SameRole, Writing
  <2> QED BY <1>1, <1>3, <1>5, <1>6, <2>1, Frame DEF Untouched, SameConfig, PairsBy
<1>7. CASE u = w
  <2>1. Writing(p, l, u)
    BY <1>1, <1>2, <1>7 DEF Writing
  <2>2. ~ConfigWriting(l) /\ \A q \in Proc \ {p} : ~Writing(q, l, u)
    BY <1>5, <2>1 DEF Sound, OneWriter
  <2>3. ~ConfigWriting(l)' /\ \A q \in Proc : ~Writing(q, l, u)'
    BY <1>1, <1>4, <2>2 DEF Writing, ConfigWriting
  <2>4. <<l, u>> \notin remote'
    BY <1>1, <1>2, <1>5, <1>7 DEF Sound, TaskKnows, Resting
  <2>5. <<l, u>> \notin role_assignments'
    BY <1>3, <1>7 DEF PairsBy
  <2> QED BY <2>3, <2>4, <2>5 DEF Sound, OneWriter, TaskKnows, ConfigKnows, Explained, Writing
<1> QED BY <1>6, <1>7

\* The config sync worker.
LEMMA ConfigFrame ==
  ASSUME PairsSound, suspect \subseteq suspect', UNCHANGED <<remote, role_assignments, task>>,
         config.pc # "mirror", config'.pc # "mirror"
  PROVE  PairsSound'
<1>1. \A l \in Link : SameConfig(l)
  BY DEF SameConfig, ConfigWriting
<1>2. \A l \in Link, u \in User : \A q \in Proc : SameRole(q, l, u)
  BY DEF SameRole
<1> QED BY <1>1, <1>2, FrameAll

LEMMA PairsConfigReads ==
  ASSUME TypeOK, PairsSound,
         \/ \E l \in Link : ConfigStart(l)
         \/ ConfigReadLink \/ ConfigReadMembers \/ ConfigReadInfo \/ ConfigQuery
         \/ ConfigGivesUp \/ ConfigFindsLinkGone \/ ConfigHeld
  PROVE  PairsSound'
<1>1. config.pc # "mirror" /\ UNCHANGED <<db, rlogic, task, ghosts>>
  BY DEF ConfigStart, ConfigReadLink, ConfigReadMembers, ConfigReadInfo, ConfigQuery, ConfigGivesUp,
         ConfigFindsLinkGone, ConfigHeld
<1>2. config'.pc # "mirror"
  <2>1. \A c \in ConfigState : /\ [c EXCEPT !.pc = "upload"].pc = "upload"
                               /\ [c EXCEPT !.pc = "query"].pc = "query"
    BY DEF ConfigState
  <2>2. \A c \in ConfigState : \A a, b :
          /\ [c EXCEPT !.pc = "upload", !.list = a, !.members = b].pc = "upload"
          /\ [c EXCEPT !.pc = "info", !.members = a].pc = "info"
          /\ [c EXCEPT !.pc = "orphan", !.members = a, !.list = b].pc = "orphan"
          /\ [[c EXCEPT !.row = a] EXCEPT !.pc = "upload"].pc = "upload"
          /\ [[c EXCEPT !.row = a] EXCEPT !.pc = "members"].pc = "members"
    BY DEF ConfigState
  <2>3. \A l \in Link : [ConfigIdle EXCEPT !.pc = "link", !.link = l].pc = "link"
    BY DEF ConfigIdle
  <2>4. config \in ConfigState /\ ConfigIdle.pc = "idle"
    BY DEF TypeOK, ConfigIdle
  <2>5. CASE (\E l \in Link : ConfigStart(l)) \/ ConfigReadInfo \/ ConfigGivesUp \/ ConfigHeld
    BY <2>1, <2>3, <2>4, <2>5 DEF ConfigStart, ConfigReadInfo, ConfigGivesUp, ConfigHeld
  <2>6. CASE ConfigReadLink
    BY <2>2, <2>4, <2>6 DEF ConfigReadLink
  <2>7. CASE ConfigReadMembers
    <3> DEFINE ids == {u \in User : <<GuildOf[config.link], u>> \in members}
    <3>1. \/ config' = ToUpload({})
          \/ config' = [config EXCEPT !.pc = "info", !.members = ids]
      BY <2>7 DEF ConfigReadMembers
    <3>2. ToUpload({}).pc = "upload" /\ [config EXCEPT !.pc = "info", !.members = ids].pc = "info"
      BY <2>2, <2>4 DEF ToUpload
    <3> QED BY <3>1, <3>2
  <2>8. CASE ConfigQuery
    <3>1. PICK list : config' = ToUpload(list)
      BY <2>8 DEF ConfigQuery
    <3>2. ToUpload(list).pc = "upload"
      BY <2>2, <2>4 DEF ToUpload
    <3> QED BY <3>1, <3>2
  <2>9. CASE ConfigFindsLinkGone
    BY <2>2, <2>4, <2>9 DEF ConfigFindsLinkGone
  <2> QED BY <2>5, <2>6, <2>7, <2>8, <2>9
<1> QED BY <1>1, <1>2, ConfigFrame DEF db, rlogic, ghosts

\* An upload settles every pair of its link that no task is writing ...
LEMMA PairsConfigUploaded ==
  ASSUME TypeOK, PairsSound, ConfigUploaded
  PROVE  PairsSound'
<1>1. PICK k \in Link : k = config.link
  BY DEF ConfigUploaded, TypeOK, ConfigCoherent
<1>2. /\ UNCHANGED <<role_assignments, task>>
      /\ remote' = Replaced(k, config.list)
      /\ suspect' = (suspect \ PairsOf(k)) \cup Contested(PairsOf(k), Proc)
  BY <1>1 DEF ConfigUploaded, Settled, db
<1>3. config.pc = "upload" /\ config'.pc = "mirror" /\ config'.link = k /\ config'.list = config.list
  BY <1>1 DEF ConfigUploaded, TypeOK, ConfigState
<1> SUFFICES ASSUME NEW l \in Link, NEW u \in User, <<l, u>> \notin suspect'
             PROVE  Sound(l, u)'
  BY DEF PairsSound
<1>4. CASE l = k
  <2>1. \A q \in Proc : ~Writing(q, l, u)
    BY <1>2, <1>4 DEF Contested, PairsOf
  <2>2. ConfigWriting(l)' /\ \A q \in Proc : ~Writing(q, l, u)'
    BY <1>2, <1>3, <1>4, <2>1 DEF ConfigWriting, Writing
  <2>3. <<l, u>> \in remote' <=> u \in config'.list
    BY <1>2, <1>3, <1>4 DEF Replaced, PairsOf
  <2> QED BY <2>2, <2>3 DEF Sound, OneWriter, TaskKnows, ConfigKnows, Explained, Writing
<1>5. CASE l # k
  <2>1. Sound(l, u)
    BY <1>2, <1>5 DEF PairsSound, PairsOf
  <2>2. ~ConfigWriting(l) /\ ~ConfigWriting(l)'
    BY <1>3, <1>5 DEF ConfigWriting
  <2>3. <<l, u>> \in remote' <=> <<l, u>> \in remote
    BY <1>2, <1>5 DEF Replaced, PairsOf
  <2> QED BY <1>2, <2>1, <2>2, <2>3, Frame DEF Untouched, SameRole, SameConfig
<1> QED BY <1>4, <1>5

\* ... and the transaction after it makes the mirror the list.
LEMMA PairsConfigWriteMirror ==
  ASSUME TypeOK, PairsSound, ConfigWriteMirror
  PROVE  PairsSound'
<1>1. PICK k \in Link : k = config.link
  BY DEF ConfigWriteMirror, TypeOK, ConfigCoherent
<1>2. /\ UNCHANGED <<remote, suspect, task>>
      /\ role_assignments' = (role_assignments \ PairsOf(k)) \cup ({k} \X config.list)
  BY <1>1 DEF ConfigWriteMirror, rlogic, ghosts
<1>3. config.pc = "mirror" /\ config'.pc = "idle"
  BY DEF ConfigWriteMirror, ConfigIdle
<1> SUFFICES ASSUME NEW l \in Link, NEW u \in User, <<l, u>> \notin suspect'
             PROVE  Sound(l, u)'
  BY DEF PairsSound
<1>4. Sound(l, u) /\ ~ConfigWriting(l)'
  BY <1>2, <1>3 DEF PairsSound, ConfigWriting
<1>5. CASE l = k
  <2>1. ConfigWriting(l)
    BY <1>1, <1>3, <1>5 DEF ConfigWriting
  <2>2. \A q \in Proc : ~Writing(q, l, u)'
    BY <1>2, <1>4, <2>1 DEF Sound, OneWriter, Writing
  <2>3. <<l, u>> \in remote' <=> <<l, u>> \in role_assignments'
    BY <1>2, <1>4, <1>5, <2>1 DEF Sound, ConfigKnows, PairsOf
  <2> QED BY <1>4, <2>2, <2>3 DEF Sound, OneWriter, TaskKnows, ConfigKnows, Explained, Writing
<1>6. CASE l # k
  <2>1. ~ConfigWriting(l)
    BY <1>1, <1>6 DEF ConfigWriting
  <2>2. <<l, u>> \in role_assignments' <=> <<l, u>> \in role_assignments
    BY <1>2, <1>6 DEF PairsOf
  <2> QED BY <1>2, <1>4, <2>1, <2>2, Frame DEF Untouched, SameRole, SameConfig
<1> QED BY <1>5, <1>6

LEMMA PairsConfigFails ==
  ASSUME TypeOK, PairsSound, ConfigAnswerLost \/ ConfigMirrorWriteFails
  PROVE  PairsSound'
<1>1. PICK k \in Link : k = config.link
  BY DEF ConfigAnswerLost, ConfigMirrorWriteFails, TypeOK, ConfigCoherent
<1>2. /\ UNCHANGED <<role_assignments, task>>
      /\ remote' = remote \/ remote' = Replaced(k, config.list)
      /\ suspect' = suspect \cup PairsOf(k)
      /\ config'.pc = "idle"
  BY <1>1 DEF ConfigAnswerLost, ConfigMirrorWriteFails, ConfigIdle, db, rlogic
<1> SUFFICES ASSUME NEW l \in Link, NEW u \in User, <<l, u>> \notin suspect'
             PROVE  Sound(l, u)'
  BY DEF PairsSound
<1>3. Sound(l, u) /\ l # k
  BY <1>2 DEF PairsSound, PairsOf
<1>4. ~ConfigWriting(l) /\ ~ConfigWriting(l)'
  BY <1>1, <1>2, <1>3 DEF ConfigWriting
<1>5. <<l, u>> \in remote' <=> <<l, u>> \in remote
  BY <1>2, <1>3 DEF Replaced, PairsOf
<1> QED BY <1>2, <1>3, <1>4, <1>5, Frame DEF Untouched, SameRole, SameConfig

LEMMA PairsConfigDeleteOrphan ==
  ASSUME TypeOK, PairsSound, ConfigDeleteOrphan
  PROVE  PairsSound'
<1>1. PICK k \in Link : k = config.link
  BY DEF ConfigDeleteOrphan, TypeOK, ConfigCoherent
<1>2. DropRow(k) /\ UNCHANGED <<remote, task>> /\ config.pc = "orphan" /\ config'.pc = "idle"
  BY <1>1 DEF ConfigDeleteOrphan, ConfigIdle, rlogic
<1> SUFFICES ASSUME NEW l \in Link, NEW u \in User, <<l, u>> \notin suspect'
             PROVE  Sound(l, u)'
  BY DEF PairsSound
<1>3. ~ConfigWriting(l) /\ ~ConfigWriting(l)'
  BY <1>2 DEF ConfigWriting
<1>4. CASE l = k
  <2>1. \A q \in Proc : ~Writing(q, l, u)'
    BY <1>2, <1>4, Dropped DEF Writing
  <2>2. <<l, u>> \notin remote' /\ <<l, u>> \notin role_assignments'
    BY <1>2, <1>4, Dropped
  <2> QED BY <1>3, <2>1, <2>2 DEF Sound, OneWriter, TaskKnows, ConfigKnows, Explained, Writing
<1>5. CASE l # k
  <2>1. Sound(l, u)
    BY <1>2, <1>5, DroppedElsewhere DEF PairsSound
  <2> QED BY <1>2, <1>3, <1>5, <2>1, DroppedElsewhere, Frame DEF Untouched, SameRole, SameConfig
<1> QED BY <1>4, <1>5

\* Requests and outside changes touch neither side, nor any task that writes.
LEMMA PairsRequests ==
  ASSUME TypeOK, PairsSound,
         \/ \E u \in User : \/ Unlink(u) \/ LinkAccountCut(u) \/ UnlinkCut(u)
                            \/ \E c \in Channel : FactChanges(u, c)
                            \/ \E g \in Guild : MembershipChanges(g, u)
         \/ \E l \in Link : \/ Register(l) \/ Disconnect(l) \/ ToggleLink(l) \/ CreateLink(l)
                            \/ \E rule \in Rule : SaveRule(l, rule)
                            \/ \E c \in Channel : ConnectChannel(l, c)
         \/ CleanupExpired
  PROVE  PairsSound'
<1>1. UNCHANGED <<remote, role_assignments, task, config, suspect>>
  BY DEF Unlink, LinkAccountCut, UnlinkCut, FactChanges, MembershipChanges, Register, Disconnect, ToggleLink,
         CreateLink, SaveRule, ConnectChannel, CleanupExpired, db, rlogic, ghosts
<1>2. \A l \in Link : SameConfig(l)
  BY <1>1 DEF SameConfig
<1>3. \A l \in Link, u \in User : \A q \in Proc : SameRole(q, l, u)
  BY <1>1 DEF SameRole
<1> QED BY <1>1, <1>2, <1>3, FrameAll

LEMMA PairsLinkAccount ==
  ASSUME TypeOK, PairsSound, NEW p \in Callback, NEW u \in User, LinkAccount(p, u)
  PROVE  PairsSound'
<1>1. p \in Proc /\ task[p].pc = "idle"
  BY DEF Proc, LinkAccount
<1>2. UNCHANGED <<remote, role_assignments, config, suspect>>
  BY DEF LinkAccount, rlogic, ghosts
<1>3. \A q \in Proc \ {p} : task'[q] = task[q]
  BY DEF LinkAccount, TypeOK
<1>4. task'[p].pc \in {"idle", "linked"}
  BY <1>1, ZenonT(60) DEF LinkAccount, Begin, Idle, TypeOK
<1>5. \A l \in Link, w \in User : ~Writing(p, l, w) /\ ~Writing(p, l, w)'
  BY <1>1, <1>4 DEF Writing
<1>6. \A l \in Link : SameConfig(l)
  BY <1>2 DEF SameConfig
<1>7. \A l \in Link, w \in User : \A q \in Proc : SameRole(q, l, w)
  BY <1>1, <1>3, <1>5, QuietTask
<1> QED BY <1>2, <1>6, <1>7, FrameAll

\* What ends a task early makes suspect what the task was writing.
LEMMA PairsOrphanStays ==
  ASSUME TypeOK, PairsSound, NEW p \in Proc, NEW k \in Link, OrphanStays(p, k)
  PROVE  PairsSound'
<1>1. /\ task[p].at[k] = "gone" /\ task' = [task EXCEPT ![p] = Moved(@, k, "none")]
      /\ UNCHANGED <<remote, role_assignments, config>>
      /\ suspect' = suspect \cup {<<k, task[p].user>>}
  BY DEF OrphanStays, db, rlogic
<1> SUFFICES ASSUME NEW l \in Link, NEW u \in User, <<l, u>> \notin suspect'
             PROVE  Sound(l, u)'
  BY DEF PairsSound
<1>2. Sound(l, u) /\ (l # k \/ u # task[p].user)
  BY <1>1 DEF PairsSound
<1>3. \A q \in Proc : SameRole(q, l, u)
  BY <1>1, <1>2, MovedRole
<1> QED BY <1>1, <1>2, <1>3, Frame DEF Untouched, SameConfig

LEMMA PairsTaskEnds ==
  ASSUME TypeOK, PairsSound, NEW p \in Proc,
         StripFails(p) \/ (p \in Callback /\ CallbackDropped(p))
  PROVE  PairsSound'
<1>1. /\ UNCHANGED <<remote, role_assignments, config>>
      /\ \A q \in Proc \ {p} : task'[q] = task[q]
      /\ task'[p] = Idle
  BY DEF StripFails, CallbackDropped, db, rlogic, TypeOK
<1> SUFFICES ASSUME NEW l \in Link, NEW u \in User, <<l, u>> \notin suspect'
             PROVE  Sound(l, u)'
  BY DEF PairsSound
<1>2. Sound(l, u)
  BY DEF PairsSound, StripFails, CallbackDropped
<1>3. ~Writing(p, l, u)
  <2>1. CASE StripFails(p)
    BY <2>1 DEF StripFails, PairsBy, Writing
  <2>2. CASE CallbackDropped(p)
    BY <2>2 DEF CallbackDropped, Contested
  <2> QED BY <2>1, <2>2
<1>4. ~Writing(p, l, u)'
  BY <1>1 DEF Writing, Idle
<1>5. \A q \in Proc : SameRole(q, l, u)
  BY <1>1, <1>3, <1>4 DEF SameRole
<1> QED BY <1>1, <1>2, <1>5, Frame DEF Untouched, SameConfig

LEMMA PairsStep ==
  ASSUME TypeOK, MirrorHasRow, PairsSound, [Next]_vars
  PROVE  PairsSound'
<1>1. CASE TakeEvent
  BY <1>1, PairsTakeEvent
<1>2. ASSUME NEW p \in Proc, SyncStep(p) PROVE PairsSound'
  BY <1>2, PairsReads, PairsCallAccepted, PairsCallEnds, PairsCallFindsLinkGone, PairsWriteMirror,
     PairsDeleteOrphan, PairsStripCall, PairsReadAssignments, PairsWipeMirror DEF SyncStep
<1>3. CASE ConfigStep
  BY <1>3, PairsConfigReads, PairsConfigUploaded, PairsConfigDeleteOrphan, PairsConfigWriteMirror,
     PairsConfigFails DEF ConfigStep
<1>4. CASE Fault
  <2>1. Callback \subseteq Proc
    BY DEF Proc
  <2> QED BY <1>4, <2>1, PairsReads, PairsCallEnds, PairsOrphanStays, PairsTaskEnds, PairsConfigFails,
          PairsRequests, PairsCrash DEF Fault
<1>5. CASE Environment
  BY <1>5, PairsRequests, PairsLinkAccount, PairsDeleteConfig, PairsDeleteLink DEF Environment
<1>6. CASE UNCHANGED vars
  <2>1. UNCHANGED <<remote, role_assignments, task, config, suspect>>
    BY <1>6 DEF vars, db, rlogic, ghosts
  <2>2. \A l \in Link : SameConfig(l)
    BY <2>1 DEF SameConfig
  <2>3. \A l \in Link, u \in User : \A q \in Proc : SameRole(q, l, u)
    BY <2>1 DEF SameRole
  <2> QED BY <2>1, <2>2, <2>3, FrameAll
<1> QED BY <1>1, <1>2, <1>3, <1>4, <1>5, <1>6 DEF Next

\* The foreign key: an insert needs the row, and deleting the row takes the mirror along.
LEMMA MirrorHasRowStep ==
  ASSUME TypeOK, MirrorHasRow, [Next]_vars
  PROVE  MirrorHasRow'
<1>a. ASSUME NEW k \in Link, DropRow(k) PROVE MirrorHasRow'
  BY <1>a DEF DropRow, PairsOf, MirrorHasRow, TypeOK
<1>b. ASSUME role_assignments' \subseteq role_assignments,
             \A l \in Link : role_links[l] # NoRow => role_links'[l] # NoRow
      PROVE  MirrorHasRow'
  BY <1>b DEF MirrorHasRow
<1>r. \A row \in Row : row # NoRow
  BY RowAssumption
<1>1. CASE TakeEvent
  BY <1>1, <1>b DEF TakeEvent, db
<1>2. ASSUME NEW p \in Proc, SyncStep(p) PROVE MirrorHasRow'
  <2>1. CASE \E l \in Link : WriteMirror(p, l)
    <3>1. PICK l \in Link : WriteMirror(p, l)
      BY <2>1
    <3>2. role_links' = role_links
      BY <3>1 DEF WriteMirror
    <3>3. \/ role_links[l] # NoRow /\ role_assignments' = role_assignments \cup {<<l, task[p].user>>}
          \/ role_assignments' \subseteq role_assignments
      BY <3>1 DEF WriteMirror
    <3> QED BY <3>2, <3>3 DEF MirrorHasRow
  <2>2. CASE \E l \in Link : DeleteOrphan(p, l)
    BY <2>2, <1>a DEF DeleteOrphan
  <2>3. CASE WipeMirror(p)
    <3>1. role_assignments' \subseteq role_assignments /\ role_links' = role_links
      BY <2>3 DEF WipeMirror
    <3> QED BY <3>1, <1>b
  <2>4. CASE ~((\E l \in Link : WriteMirror(p, l) \/ DeleteOrphan(p, l)) \/ WipeMirror(p))
    <3>1. UNCHANGED <<role_links, role_assignments>>
      BY <1>2, <2>4 DEF SyncStep, ReadLinked, ReadGuilds, ReadLinks, ReadCache, ReadExisting,
         CallAccepted, CallDeclined, CallFindsLinkGone, MirrorWriteFails, StripCall, ReadAssignments, db
    <3> QED BY <3>1, <1>b
  <2> QED BY <2>1, <2>2, <2>3, <2>4
<1>3. CASE ConfigStep
  <2>1. CASE ConfigWriteMirror
    <3>1. /\ role_links' = role_links /\ (role_links[config.link] # NoRow \/ config.list = {})
          /\ role_assignments' = (role_assignments \ PairsOf(config.link)) \cup ({config.link} \X config.list)
      BY <2>1 DEF ConfigWriteMirror
    <3> QED BY <3>1 DEF MirrorHasRow
  <2>2. CASE ConfigDeleteOrphan
    <3>1. config.link \in Link /\ DropRow(config.link)
      BY <2>2 DEF ConfigDeleteOrphan, TypeOK, ConfigCoherent
    <3> QED BY <3>1, <1>a
  <2>3. CASE ~(ConfigWriteMirror \/ ConfigDeleteOrphan)
    <3>1. UNCHANGED <<role_links, role_assignments>>
      BY <1>3, <2>3 DEF ConfigStep, ConfigStart, ConfigReadLink, ConfigReadMembers, ConfigReadInfo,
         ConfigQuery, ConfigGivesUp, ConfigFindsLinkGone, ConfigUploaded, ConfigHeld,
         ConfigMirrorWriteFails, db
    <3> QED BY <3>1, <1>b
  <2> QED BY <2>1, <2>2, <2>3
<1>4. CASE Fault
  <2>1. UNCHANGED <<role_links, role_assignments>>
    BY <1>4 DEF Fault, SyncFails, StripFails, CallFails, OrphanStays, CallbackDropped,
       ConfigAnswerLost, LinkAccountCut, UnlinkCut, Crash, db
  <2> QED BY <2>1, <1>b
<1>5. CASE Environment
  <2>1. CASE \E l \in Link : DeleteConfig(l)
    BY <2>1, <1>a DEF DeleteConfig
  <2>2. ASSUME NEW k \in Link, Register(k) \/ Disconnect(k) \/ (\E rule \in Rule : SaveRule(k, rule))
                                 \/ (\E c \in Channel : ConnectChannel(k, c))
        PROVE  MirrorHasRow'
    <3>1. role_assignments' = role_assignments /\ \A l \in Link \ {k} : role_links'[l] = role_links[l]
      BY <2>2 DEF Register, Disconnect, SaveRule, ConnectChannel, TypeOK
    <3>2. role_links' \in [Link -> Row \cup {NoRow}]
      BY <2>2, TypeLinkRequests DEF TypeOK
    <3>3. role_links[k] \in Row => role_links'[k] \in Row
      <4>1. role_links[k] \in Row => \/ role_links'[k] = [role_links[k] EXCEPT !.token = upstream[k].token]
                                     \/ \E rule \in Rule : role_links'[k] = [role_links[k] EXCEPT !.rule = rule]
                                     \/ \E c \in Channel \cup {NoChannel} :
                                          role_links'[k] = [role_links[k] EXCEPT !.channel = c]
        <5>1. CASE Register(k)
          BY <5>1, <1>r DEF Register, TypeOK
        <5>2. CASE Disconnect(k)
          BY <5>2 DEF Disconnect, TypeOK
        <5>3. CASE \E rule \in Rule : SaveRule(k, rule)
          BY <5>3 DEF SaveRule, TypeOK
        <5>4. CASE \E c \in Channel : ConnectChannel(k, c)
          BY <5>4 DEF ConnectChannel, TypeOK
        <5> QED BY <2>2, <5>1, <5>2, <5>3, <5>4
      <4>2. upstream[k].token \in Nat
        BY DEF TypeOK
      <4> QED BY <4>1, <4>2, RowChange
    <3> QED BY <3>1, <3>3, <1>r, <1>b DEF TypeOK
  <2>3. CASE \/ CleanupExpired
             \/ \E u \in User : \/ Unlink(u) \/ \E p \in Callback : LinkAccount(p, u)
                                \/ \E c \in Channel : FactChanges(u, c)
                                \/ \E g \in Guild : MembershipChanges(g, u)
             \/ \E l \in Link : ToggleLink(l) \/ DeleteLink(l) \/ CreateLink(l)
    <3>1. UNCHANGED <<role_links, role_assignments>>
      BY <2>3 DEF CleanupExpired, Unlink, LinkAccount, FactChanges, MembershipChanges, ToggleLink,
         DeleteLink, CreateLink, db
    <3> QED BY <3>1, <1>b
  <2> QED BY <1>5, <2>1, <2>2, <2>3 DEF Environment
<1>6. CASE UNCHANGED vars
  BY <1>6, <1>b DEF vars, db
<1> QED BY <1>1, <1>2, <1>3, <1>4, <1>5, <1>6 DEF Next

LEMMA DriftInit == Init => DriftInv
<1> SUFFICES ASSUME Init PROVE DriftInv
  OBVIOUS
<1>1. TypeOK
  BY TypeInit
<1>2. MirrorHasRow
  <2>1. \A l \in Link : role_links[l] \in Row
    BY DEF Init, Row
  <2> QED BY <2>1, RowAssumption DEF MirrorHasRow
<1>3. PairsSound
  <2>1. \A p \in Proc : task[p].pc = "idle"
    BY DEF Init, Idle
  <2>2. config.pc = "idle" /\ role_assignments = remote
    BY DEF Init, ConfigIdle
  <2>3. \A l \in Link, u \in User : ~ConfigWriting(l) /\ \A p \in Proc : ~Writing(p, l, u)
    BY <2>1, <2>2 DEF Writing, ConfigWriting
  <2> QED BY <2>2, <2>3, SoundAtRest DEF PairsSound
<1> QED BY <1>1, <1>2, <1>3 DEF DriftInv

LEMMA DriftStep == DriftInv /\ [Next]_vars => DriftInv'
BY TypeStep, MirrorHasRowStep, PairsStep DEF DriftInv

\* The mirror and RoleLogic's lists only part at a pair that is being written or has
\* been made suspect, whatever the interleaving of syncs, callbacks, unlinks, config
\* syncs, faults and restarts.
THEOREM DriftCorrect == Spec => []DriftHasCause
<1>1. DriftInv => DriftHasCause
  BY DEF DriftInv, PairsSound, Sound, Explained, DriftHasCause
<1> QED BY <1>1, DriftInit, DriftStep, PTL DEF Spec

\* A mirror row never outlives the row of its link.
THEOREM MirrorRowCorrect == Spec => []MirrorHasRow
<1>1. DriftInv => MirrorHasRow
  BY DEF DriftInv
<1> QED BY <1>1, DriftInit, DriftStep, PTL DEF Spec

=============================================================================
