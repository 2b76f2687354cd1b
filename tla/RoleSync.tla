------------------------------ MODULE RoleSync ------------------------------
(***************************************************************************)
(* The core of the service: who holds which Discord role.  RoleLogic keeps *)
(* the authoritative user list of every role link (remote); the service    *)
(* mirrors it in role_assignments.  Three kinds of task change the two, one *)
(* await at a time and without a common lock:                              *)
(*   - the user sync worker, one event after the other (sync_for_user,     *)
(*     remove_all_assignments);                                            *)
(*   - the OAuth callback handlers, which run sync_for_user inline;        *)
(*   - the config sync worker (sync_for_role_link), which replaces a list. *)
(* Every await of these functions is a step of its own.                    *)
(***************************************************************************)
EXTENDS Naturals, Sequences, FiniteSets

CONSTANTS
  User,        \* Discord users
  Guild,       \* Discord servers
  Link,        \* role links, each a (guild_id, role_id) pair
  GuildOf,     \* the guild of each link
  Channel,     \* Twitch broadcasters
  Worker,      \* the user sync worker
  Callback,    \* concurrent twitch_callback requests that sync inline
  NoUser, NoLink, NoRow, NoChannel,
  Limit,       \* RoleLogic's user limit of a link
  MaxEnv,      \* bound: requests and outside changes in a behaviour
  MaxFaults    \* bound: failed or unanswered calls, failed writes, restarts

ASSUME ConstantsAssumption ==
  /\ GuildOf \in [Link -> Guild]
  /\ Worker \notin Callback
  /\ NoUser \notin User
  /\ NoLink \notin Link
  /\ NoChannel \notin Channel
  /\ MaxEnv \in Nat /\ MaxFaults \in Nat

Proc == Callback \cup {Worker}

\* "nobody": unconfigured; "anyone": grant_on_any_relation; "channel":
\* condition groups over the facts about the connected channel.
Rule == {"nobody", "anyone", "channel"}

Row == [token : Nat, rule : Rule, channel : Channel \cup {NoChannel}]

ASSUME RowAssumption == NoRow \notin Row

VARIABLES
  role_links,       \* [Link -> Row or NoRow], the table
  linked_accounts,  \* the linked Discord users
  cache,            \* user_channel_cache: <<user, channel>> whose facts match
  role_assignments, \* the local mirror: <<link, user>>
  members,          \* the Auth Gateway's view: <<guild, user>>
  upstream,         \* RoleLogic: each link's token generation and state
  remote,           \* RoleLogic: the user lists, <<link, user>>
  queue,            \* the user sync channel, senders that wait included
  task,             \* what each Proc is doing
  pending,          \* links with a config event queued, debounced or re-booked
  config,           \* what the config sync worker is doing
  suspect,          \* history: pairs whose mirror row a named cause may have put off
  raced,            \* history: users whose unlink the worker was not told of, or took up
                    \* while another task still acted on their behalf
  budget            \* what is left of the bounds

db     == <<role_links, linked_accounts, cache, role_assignments>>
rlogic == <<upstream, remote>>
ghosts == <<suspect, raced>>
vars   == <<db, members, rlogic, queue, task, pending, config, ghosts, budget>>

-----------------------------------------------------------------------------
(* Shared vocabulary                                                         *)

PairsOf(l) == {l} \X User
PairsBy(u) == Link \X {u}

\* qualifies(): the rule of a row against the channels whose facts match.
Qualifies(row, channels) ==
  \/ row.rule = "anyone"
  \/ row.rule = "channel" /\ row.channel \in channels

ChannelsOf(u) == {c \in Channel : <<u, c>> \in cache}

\* How RoleLogic answers a call made with a token: 403 "Invalid or revoked
\* token", 403 disabled or paused, or it carries the call out.
Answer(l, token) ==
  IF upstream[l].state = "gone" \/ upstream[l].token # token THEN "not_found"
  ELSE IF upstream[l].state = "off" THEN "disabled"
  ELSE "ok"

ListOf(l) == {u \in User : <<l, u>> \in remote}

\* Stages of one link's action in sync_for_user and remove_all_assignments:
\* "add"/"remove": the RoleLogic call is still to be made; "added"/"removed": it
\* was accepted and the mirror write is outstanding; "gone": the orphaned row is
\* about to be deleted.
Stage == {"none", "add", "remove", "added", "removed", "gone"}

Resting == [l \in Link |-> "none"]

Idle == [pc |-> "idle", user |-> NoUser, guilds |-> {}, rows |-> [l \in Link |-> NoRow],
         channels |-> {}, at |-> Resting]

Begin(u, pc) == [Idle EXCEPT !.user = u, !.pc = pc]

ConfigIdle == [pc |-> "idle", link |-> NoLink, row |-> NoRow, members |-> {}, list |-> {}]

\* A task has written a list upstream, or is emptying a user's rows, and its
\* mirror write is outstanding.
Writing(p, l, u) ==
  /\ task[p].user = u
  /\ \/ task[p].pc = "strip"
     \/ task[p].pc = "apply" /\ task[p].at[l] \in {"added", "removed"}

ConfigWriting(l) == config.pc = "mirror" /\ config.link = l

\* The pairs of S on which a task other than those of mine is between its call
\* and its mirror write.
Contested(S, others) ==
  {x \in S : \E p \in others : Writing(p, x[1], x[2])}

Spend(kind) ==
  /\ budget[kind] > 0
  /\ budget' = [budget EXCEPT ![kind] = @ - 1]

SpendBoth ==
  /\ budget.env > 0 /\ budget.faults > 0
  /\ budget' = [env |-> budget.env - 1, faults |-> budget.faults - 1]

Event == [kind : {"updated", "linked", "unlinked"}, user : User]

TaskState ==
  [pc : {"idle", "linked", "guilds", "links", "cache", "existing", "apply", "assignments",
         "strip"},
   user : User \cup {NoUser}, guilds : SUBSET Guild, rows : [Link -> Row \cup {NoRow}],
   channels : SUBSET Channel, at : [Link -> Stage]]

ConfigState ==
  [pc : {"idle", "link", "members", "info", "query", "upload", "orphan", "mirror"},
   link : Link \cup {NoLink}, row : Row \cup {NoRow}, members : SUBSET User,
   list : SUBSET User]

\* A task acts for a user, and calls or writes only for links whose row it has read.
Coherent(t) ==
  /\ t.pc # "idle" => t.user \in User
  /\ \A l \in Link : t.at[l] # "none" => t.rows[l] # NoRow /\ t.pc \in {"apply", "strip"}

ConfigCoherent(c) ==
  /\ c.pc # "idle" => c.link \in Link
  /\ c.pc \notin {"idle", "link"} => c.row # NoRow

TypeOK ==
  /\ role_links \in [Link -> Row \cup {NoRow}]
  /\ linked_accounts \subseteq User
  /\ cache \subseteq User \X Channel
  /\ role_assignments \subseteq Link \X User
  /\ members \subseteq Guild \X User
  /\ upstream \in [Link -> [token : Nat, state : {"on", "off", "gone"}]]
  /\ remote \subseteq Link \X User
  /\ queue \in Seq(Event)
  /\ task \in [Proc -> TaskState]
  /\ \A p \in Proc : Coherent(task[p])
  /\ pending \subseteq Link
  /\ config \in ConfigState
  /\ ConfigCoherent(config)
  /\ suspect \subseteq Link \X User
  /\ raced \subseteq User
  /\ budget \in [env : 0..MaxEnv, faults : 0..MaxFaults]

\* A service that has been running: every link registered, the mirror and RoleLogic
\* agreed on some of those who qualify, at most one sync of a linked user and any
\* config syncs due.
Init ==
  /\ role_links \in [Link -> {r \in [token : {1}, rule : Rule,
                                      channel : Channel \cup {NoChannel}] :
                               r.rule = "channel" => r.channel # NoChannel}]
  /\ linked_accounts \in SUBSET User
  /\ cache \in SUBSET (User \X Channel)
  /\ members = Guild \X User
  /\ upstream = [l \in Link |-> [token |-> 1, state |-> "on"]]
  /\ remote \in {S \in SUBSET (Link \X linked_accounts) :
                   \A l \in Link :
                     /\ Cardinality({u \in User : <<l, u>> \in S}) <= Limit
                     /\ \A u \in User : <<l, u>> \in S =>
                          Qualifies(role_links[l], {c \in Channel : <<u, c>> \in cache})}
  /\ role_assignments = remote
  /\ queue \in {<<>>} \cup {<<[kind |-> "updated", user |-> u]>> : u \in linked_accounts}
  /\ task = [p \in Proc |-> Idle]
  /\ pending \in SUBSET Link
  /\ config = ConfigIdle
  /\ suspect = {}
  /\ raced = {}
  /\ budget = [env |-> MaxEnv, faults |-> MaxFaults]

-----------------------------------------------------------------------------
(* The user sync worker takes the next event                                 *)

\* Someone else still acts on what was true before u unlinked.
Entangled(u) ==
  \/ \E p \in Callback : task[p].user = u
  \/ config.pc \in {"upload", "mirror"} /\ u \in config.list

\* Faulty variant: AccountUnlinked treated like the other events.
TakeEventUniform ==
  /\ task[Worker].pc = "idle"
  /\ queue # <<>>
  /\ queue' = Tail(queue)
  /\ task' = [task EXCEPT ![Worker] = Begin(Head(queue).user, "linked")]
  /\ UNCHANGED <<db, members, rlogic, pending, config, ghosts, budget>>

TakeEvent ==
  /\ task[Worker].pc = "idle"
  /\ queue # <<>>
  /\ queue' = Tail(queue)
  /\ LET e == Head(queue) IN
       IF e.kind = "unlinked"
       THEN /\ task' = [task EXCEPT ![Worker] = Begin(e.user, "assignments")]
            /\ raced' = IF Entangled(e.user) THEN raced \cup {e.user} ELSE raced \ {e.user}
       ELSE /\ task' = [task EXCEPT ![Worker] = Begin(e.user, "linked")]
            /\ raced' = raced
  /\ UNCHANGED <<db, members, rlogic, pending, config, suspect, budget>>

-----------------------------------------------------------------------------
(* sync_for_user: read, decide, then one concurrent action per link          *)

ReadLinked(p) ==
  /\ task[p].pc = "linked"
  /\ task' = [task EXCEPT ![p] = IF task[p].user \in linked_accounts
                                  THEN [@ EXCEPT !.pc = "guilds"] ELSE Idle]
  /\ UNCHANGED <<db, members, rlogic, queue, pending, config, ghosts, budget>>

ReadGuilds(p) ==
  /\ task[p].pc = "guilds"
  /\ LET guilds == {g \in Guild : <<g, task[p].user>> \in members} IN
       task' = [task EXCEPT ![p] = IF guilds = {} THEN Idle
                                    ELSE [@ EXCEPT !.pc = "links", !.guilds = guilds]]
  /\ UNCHANGED <<db, members, rlogic, queue, pending, config, ghosts, budget>>

ReadLinks(p) ==
  /\ task[p].pc = "links"
  /\ LET rows == [l \in Link |-> IF GuildOf[l] \in task[p].guilds
                                   THEN role_links[l] ELSE NoRow] IN
       task' = [task EXCEPT ![p] =
                  IF \A l \in Link : rows[l] = NoRow THEN Idle
                  ELSE [@ EXCEPT !.pc = "cache", !.guilds = {}, !.rows = rows]]
  /\ UNCHANGED <<db, members, rlogic, queue, pending, config, ghosts, budget>>

ReadCache(p) ==
  /\ task[p].pc = "cache"
  /\ task' = [task EXCEPT ![p] = [@ EXCEPT !.pc = "existing",
                                                !.channels = ChannelsOf(task[p].user)]]
  /\ UNCHANGED <<db, members, rlogic, queue, pending, config, ghosts, budget>>

\* The mirror says what the user has; the snapshot, what the user should have.
Plan(p) ==
  LET t == task[p]
      has(l) == <<l, t.user>> \in role_assignments
      at == [l \in Link |->
               IF t.rows[l] = NoRow \/ Qualifies(t.rows[l], t.channels) = has(l) THEN "none"
               ELSE IF has(l) THEN "remove" ELSE "add"]
  IN at

ReadExisting(p) ==
  /\ task[p].pc = "existing"
  /\ task' = [task EXCEPT ![p] = IF Plan(p) = Resting THEN Idle
                                  ELSE [@ EXCEPT !.pc = "apply", !.channels = {}, !.at = Plan(p)]]
  /\ UNCHANGED <<db, members, rlogic, queue, pending, config, ghosts, budget>>

\* A statement or the gateway fails: the sync ends in an error before it has done
\* anything.  The worker logs it; a callback leaves the user to the worker.
SyncFails(p) ==
  /\ task[p].pc \in {"linked", "guilds", "links", "cache", "existing"}
  /\ Spend("faults")
  /\ queue' = IF p = Worker THEN queue
              ELSE Append(queue, [kind |-> "linked", user |-> task[p].user])
  /\ task' = [task EXCEPT ![p] = Idle]
  /\ UNCHANGED <<db, members, rlogic, pending, config, ghosts>>

\* The task with link l at another stage; sync_for_user returns when every link is done.
Moved(t, l, stage) ==
  LET at == [t.at EXCEPT ![l] = stage] IN
    IF t.pc = "apply" /\ at = Resting THEN Idle ELSE [t EXCEPT !.at = at]

\* The list of l has room for u, or u is on it already.
HasRoom(l, u) == u \in ListOf(l) \/ Cardinality(ListOf(l)) < Limit

\* add_user or remove_user takes effect upstream.
Carried(p, l) ==
  LET x == <<l, task[p].user>> IN
    \/ task[p].at[l] = "add" /\ HasRoom(l, task[p].user) /\ remote' = remote \cup {x}
    \/ task[p].at[l] = "remove" /\ remote' = remote \ {x}

Calling(p, l) == task[p].pc = "apply" /\ task[p].at[l] \in {"add", "remove"}

\* The service's write of the pairs in S has reached RoleLogic: it settles them,
\* save where another task is between its own call and mirror write.
Settled(S, others, configWrites) ==
  (suspect \ S) \cup Contested(S, others) \cup (IF configWrites THEN S ELSE {})

CallAccepted(p, l) ==
  /\ Calling(p, l)
  /\ Answer(l, task[p].rows[l].token) = "ok"
  /\ Carried(p, l)
  /\ task' = [task EXCEPT ![p].at[l] = IF @ = "add" THEN "added" ELSE "removed"]
  /\ suspect' = Settled({<<l, task[p].user>>}, Proc \ {p}, ConfigWriting(l))
  /\ UNCHANGED <<db, members, upstream, queue, pending, config, raced, budget>>

\* RoleLinkDisabled, UserLimitReached: the action is given up.
CallDeclined(p, l) ==
  /\ Calling(p, l)
  /\ \/ Answer(l, task[p].rows[l].token) = "disabled"
     \/ /\ Answer(l, task[p].rows[l].token) = "ok"
        /\ task[p].at[l] = "add" /\ ~HasRoom(l, task[p].user)
  /\ task' = [task EXCEPT ![p] = Moved(@, l, "none")]
  /\ UNCHANGED <<db, members, rlogic, queue, pending, config, ghosts, budget>>

\* Any other error: the request never took effect, or it did and the answer was
\* lost.  Either way the action is given up and the mirror left as it was.
CallFails(p, l) ==
  /\ Calling(p, l)
  /\ Spend("faults")
  /\ task' = [task EXCEPT ![p] = Moved(@, l, "none")]
  /\ \/ UNCHANGED <<remote, suspect>>
     \/ /\ Answer(l, task[p].rows[l].token) = "ok"
        /\ Carried(p, l)
        /\ suspect' = suspect \cup {<<l, task[p].user>>}
  /\ UNCHANGED <<db, members, upstream, queue, pending, config, raced>>

\* Faulty variant: a disabled link is taken for a deleted one.
CallFindsLinkGoneOrOff(p, l) ==
  /\ \/ Calling(p, l)
     \/ task[p].pc = "strip" /\ task[p].at[l] = "remove" /\ \A k \in Link : task[p].at[k] # "gone"
  /\ Answer(l, task[p].rows[l].token) # "ok"
  /\ task' = [task EXCEPT ![p].at[l] = "gone"]
  /\ UNCHANGED <<db, members, rlogic, queue, pending, config, ghosts, budget>>

CallFindsLinkGone(p, l) ==
  /\ \/ Calling(p, l)
     \/ task[p].pc = "strip" /\ task[p].at[l] = "remove" /\ \A k \in Link : task[p].at[k] # "gone"
  /\ Answer(l, task[p].rows[l].token) = "not_found"
  /\ task' = [task EXCEPT ![p].at[l] = "gone"]
  /\ UNCHANGED <<db, members, rlogic, queue, pending, config, ghosts, budget>>

\* The mirror write that follows an accepted call.
WriteMirror(p, l) ==
  /\ task[p].pc = "apply"
  /\ LET x == <<l, task[p].user>> IN
       \/ /\ task[p].at[l] = "added" /\ role_links[l] # NoRow
          /\ role_assignments' = role_assignments \cup {x}
       \/ task[p].at[l] = "removed" /\ role_assignments' = role_assignments \ {x}
  /\ task' = [task EXCEPT ![p] = Moved(@, l, "none")]
  /\ UNCHANGED <<role_links, linked_accounts, cache, members, rlogic, queue, pending, config,
                 ghosts, budget>>

\* It fails: the database does, or the link's row was deleted meanwhile and the
\* foreign key rejects the insert.  Either is logged and no more.
MirrorWriteFails(p, l) ==
  /\ task[p].pc = "apply"
  /\ task[p].at[l] \in {"added", "removed"}
  /\ \/ Spend("faults")
     \/ task[p].at[l] = "added" /\ role_links[l] = NoRow /\ UNCHANGED budget
  /\ suspect' = suspect \cup {<<l, task[p].user>>}
  /\ task' = [task EXCEPT ![p] = Moved(@, l, "none")]
  /\ UNCHANGED <<db, members, rlogic, queue, pending, config, raced>>

\* DELETE FROM role_links, whatever its token is by now; the foreign key takes
\* the mirror rows along.
DropRow(l) ==
  /\ role_links' = [role_links EXCEPT ![l] = NoRow]
  /\ role_assignments' = role_assignments \ PairsOf(l)
  /\ suspect' = (suspect \ PairsOf(l)) \cup (PairsOf(l) \cap remote)
                  \cup Contested(PairsOf(l), Proc)
                  \cup (IF ConfigWriting(l) THEN PairsOf(l) ELSE {})

\* delete_orphan_role_link, after a "gone" answer.
DeleteOrphan(p, l) ==
  /\ task[p].at[l] = "gone"
  /\ DropRow(l)
  /\ task' = [task EXCEPT ![p] = Moved(@, l, "none")]
  /\ UNCHANGED <<linked_accounts, cache, members, rlogic, queue, pending, config, raced, budget>>

\* It is best effort: when the statement fails the row stays.
OrphanStays(p, l) ==
  /\ task[p].at[l] = "gone"
  /\ Spend("faults")
  /\ task' = [task EXCEPT ![p] = Moved(@, l, "none")]
  /\ suspect' = suspect \cup {<<l, task[p].user>>}
  /\ UNCHANGED <<db, members, rlogic, queue, pending, config, raced>>

-----------------------------------------------------------------------------
(* remove_all_assignments: one link after the other, then the whole mirror   *)

\* Faulty variant: the links without a broadcaster are skipped.
ReadAssignmentsOfChannels(p) ==
  /\ task[p].pc = "assignments"
  /\ LET u == task[p].user
         held(l) == /\ <<l, u>> \in role_assignments /\ role_links[l] # NoRow
                    /\ role_links[l].channel # NoChannel
     IN /\ task' = [task EXCEPT
                      ![p].pc = "strip",
                      ![p].rows = [l \in Link |-> IF held(l) THEN role_links[l] ELSE NoRow],
                      ![p].at = [l \in Link |-> IF held(l) THEN "remove" ELSE "none"]]
        /\ suspect' = suspect \cup Contested(PairsBy(u), Proc \ {p})
                        \cup {x \in PairsBy(u) : ConfigWriting(x[1])}
  /\ UNCHANGED <<db, members, rlogic, queue, pending, config, raced, budget>>

ReadAssignments(p) ==
  /\ task[p].pc = "assignments"
  /\ LET u == task[p].user
         held(l) == <<l, u>> \in role_assignments /\ role_links[l] # NoRow
     IN /\ task' = [task EXCEPT
                      ![p].pc = "strip",
                      ![p].rows = [l \in Link |-> IF held(l) THEN role_links[l] ELSE NoRow],
                      ![p].at = [l \in Link |-> IF held(l) THEN "remove" ELSE "none"]]
        /\ suspect' = suspect \cup Contested(PairsBy(u), Proc \ {p})
                        \cup {x \in PairsBy(u) : ConfigWriting(x[1])}
  /\ UNCHANGED <<db, members, rlogic, queue, pending, config, raced, budget>>

\* Every error but "gone" is logged and passed over: disabled, or no answer
\* (after which the role may be gone or not).
StripCall(p, l) ==
  /\ task[p].pc = "strip"
  /\ task[p].at[l] = "remove"
  /\ \A k \in Link : task[p].at[k] # "gone"
  /\ task' = [task EXCEPT ![p].at[l] = "none"]
  /\ LET x == <<l, task[p].user>>
         answer == Answer(l, task[p].rows[l].token)
     IN \/ /\ answer = "ok"
           /\ remote' = remote \ {x}
           /\ UNCHANGED budget
           /\ suspect' = suspect \cup Contested({x}, Proc \ {p})
                           \cup (IF ConfigWriting(l) THEN {x} ELSE {})
        \/ /\ answer = "disabled"
           /\ suspect' = suspect \cup {x}
           /\ UNCHANGED <<remote, budget>>
        \/ /\ Spend("faults")
           /\ suspect' = suspect \cup {x}
           /\ UNCHANGED remote
  /\ UNCHANGED <<db, members, upstream, queue, pending, config, raced>>

WipeMirror(p) ==
  /\ task[p].pc = "strip"
  /\ task[p].at = Resting
  /\ role_assignments' = role_assignments \ PairsBy(task[p].user)
  /\ task' = [task EXCEPT ![p] = Idle]
  /\ UNCHANGED <<role_links, linked_accounts, cache, members, rlogic, queue, pending, config,
                 ghosts, budget>>

\* One of its two statements fails: the worker logs that and takes the next event.
StripFails(p) ==
  /\ \/ task[p].pc = "assignments"
     \/ task[p].pc = "strip" /\ task[p].at = Resting
  /\ Spend("faults")
  /\ task' = [task EXCEPT ![p] = Idle]
  /\ suspect' = suspect \cup PairsBy(task[p].user)
  /\ UNCHANGED <<db, members, rlogic, queue, pending, config, raced>>

-----------------------------------------------------------------------------
(* sync_for_role_link, run by the config sync worker for one link at a time  *)

ConfigStart(l) ==
  /\ config.pc = "idle"
  /\ l \in pending
  /\ pending' = pending \ {l}
  /\ config' = [ConfigIdle EXCEPT !.pc = "link", !.link = l]
  /\ UNCHANGED <<db, members, rlogic, queue, task, ghosts, budget>>

\* clear_role() is an upload of the empty list.
ToUpload(list) == [config EXCEPT !.pc = "upload", !.list = list, !.members = {}]

\* Faulty variant: a link whose row is gone is cleared instead of skipped.
ConfigReadLinkOrClear ==
  /\ config.pc = "link"
  /\ LET row == role_links[config.link]
         clear == row = NoRow \/ row.rule = "nobody"
                    \/ (row.rule = "channel" /\ row.channel = NoChannel)
     IN config' = [config EXCEPT !.row = row, !.pc = IF clear THEN "upload" ELSE "members"]
  /\ UNCHANGED <<db, members, rlogic, queue, task, pending, ghosts, budget>>

ConfigReadLink ==
  /\ config.pc = "link"
  /\ LET row == role_links[config.link]
         read == [config EXCEPT !.row = row]
         clear == row.rule = "nobody" \/ (row.rule = "channel" /\ row.channel = NoChannel)
     IN config' = IF row = NoRow THEN ConfigIdle
                  ELSE IF clear THEN [read EXCEPT !.pc = "upload"]
                  ELSE [read EXCEPT !.pc = "members"]
  /\ UNCHANGED <<db, members, rlogic, queue, task, pending, ghosts, budget>>

ConfigReadMembers ==
  /\ config.pc = "members"
  /\ LET ids == {u \in User : <<GuildOf[config.link], u>> \in members} IN
       config' = IF ids = {} THEN ToUpload({})
                 ELSE [config EXCEPT !.pc = "info", !.members = ids]
  /\ UNCHANGED <<db, members, rlogic, queue, task, pending, ghosts, budget>>

\* A statement, the gateway, get_user_info or the upload fails before it takes
\* effect, and the worker drops the sync; so it does when the link is disabled.
ConfigGivesUp ==
  /\ \/ config.pc \notin {"idle", "mirror"} /\ Spend("faults")
     \/ /\ config.pc \in {"info", "upload"}
        /\ Answer(config.link, config.row.token) = "disabled"
        /\ UNCHANGED budget
  /\ config' = ConfigIdle
  /\ UNCHANGED <<db, members, rlogic, queue, task, pending, ghosts>>

ConfigFindsLinkGone ==
  /\ config.pc \in {"info", "upload"}
  /\ Answer(config.link, config.row.token) = "not_found"
  /\ config' = [config EXCEPT !.pc = "orphan", !.members = {}, !.list = {}]
  /\ UNCHANGED <<db, members, rlogic, queue, task, pending, ghosts, budget>>

ConfigReadInfo ==
  /\ config.pc = "info"
  /\ Answer(config.link, config.row.token) = "ok"
  /\ config' = [config EXCEPT !.pc = "query"]
  /\ UNCHANGED <<db, members, rlogic, queue, task, pending, ghosts, budget>>

\* Linked members who qualify, the longest linked first and no more than the
\* limit; how long each has been linked is left open.
QualifyingLists ==
  LET Q == {u \in config.members \cap linked_accounts : Qualifies(config.row, ChannelsOf(u))}
      n == IF Cardinality(Q) < Limit THEN Cardinality(Q) ELSE Limit
  IN {S \in SUBSET Q : Cardinality(S) = n}

ConfigQuery ==
  /\ config.pc = "query"
  /\ \E list \in QualifyingLists : config' = ToUpload(list)
  /\ UNCHANGED <<db, members, rlogic, queue, task, pending, ghosts, budget>>

Replaced(l, list) == (remote \ PairsOf(l)) \cup ({l} \X list)

ConfigUploaded ==
  /\ config.pc = "upload"
  /\ Answer(config.link, config.row.token) = "ok"
  /\ remote' = Replaced(config.link, config.list)
  /\ config' = [config EXCEPT !.pc = "mirror"]
  /\ suspect' = Settled(PairsOf(config.link), Proc, FALSE)
  /\ UNCHANGED <<db, members, upstream, queue, task, pending, raced, budget>>

\* RoleLogic holds a write that would take the role away from someone until an
\* owner confirms: nothing changes, and the link is due again later.
ConfigHeld ==
  /\ config.pc = "upload"
  /\ Answer(config.link, config.row.token) = "ok"
  /\ ~(ListOf(config.link) \subseteq config.list)
  /\ pending' = pending \cup {config.link}
  /\ config' = ConfigIdle
  /\ UNCHANGED <<db, members, rlogic, queue, task, ghosts, budget>>

\* The list is replaced and the answer lost: an error like any other here.
ConfigAnswerLost ==
  /\ config.pc = "upload"
  /\ Answer(config.link, config.row.token) = "ok"
  /\ Spend("faults")
  /\ remote' = Replaced(config.link, config.list)
  /\ config' = ConfigIdle
  /\ suspect' = suspect \cup PairsOf(config.link)
  /\ UNCHANGED <<db, members, upstream, queue, task, pending, raced>>

ConfigDeleteOrphan ==
  /\ config.pc = "orphan"
  /\ DropRow(config.link)
  /\ config' = ConfigIdle
  /\ UNCHANGED <<linked_accounts, cache, members, rlogic, queue, task, pending, raced, budget>>

\* Faulty variant: the transaction inserts without deleting first.
ConfigAddToMirror ==
  /\ config.pc = "mirror"
  /\ role_links[config.link] # NoRow \/ config.list = {}
  /\ role_assignments' = role_assignments \cup ({config.link} \X config.list)
  /\ config' = ConfigIdle
  /\ UNCHANGED <<role_links, linked_accounts, cache, members, rlogic, queue, task, pending,
                 ghosts, budget>>

\* One transaction: delete the link's mirror rows, insert the uploaded list.
ConfigWriteMirror ==
  /\ config.pc = "mirror"
  /\ role_links[config.link] # NoRow \/ config.list = {}
  /\ role_assignments' =
       (role_assignments \ PairsOf(config.link)) \cup ({config.link} \X config.list)
  /\ config' = ConfigIdle
  /\ UNCHANGED <<role_links, linked_accounts, cache, members, rlogic, queue, task, pending,
                 ghosts, budget>>

\* It fails and rolls back: the database does, or the foreign key rejects the
\* insert.  The worker logs it and drops the sync.
ConfigMirrorWriteFails ==
  /\ config.pc = "mirror"
  /\ \/ Spend("faults")
     \/ role_links[config.link] = NoRow /\ config.list # {} /\ UNCHANGED budget
  /\ config' = ConfigIdle
  /\ suspect' = suspect \cup PairsOf(config.link)
  /\ UNCHANGED <<db, members, rlogic, queue, task, pending, raced>>

-----------------------------------------------------------------------------
(* Requests and outside changes                                              *)

\* The channels some link is about.
Connected == {c \in Channel : \E l \in Link : role_links[l] # NoRow /\ role_links[l].channel = c}

\* twitch_callback: the account is linked (again) and the user gets cache rows for the
\* channels of their guilds; the rows of earlier guilds are still there.  When the
\* live status on some of these channels could be read the handler syncs inline,
\* otherwise it leaves that to the worker.
LinkAccount(p, u) ==
  /\ task[p].pc = "idle"
  /\ Spend("env")
  /\ linked_accounts' = linked_accounts \cup {u}
  /\ \/ /\ \E checked \in SUBSET Connected \ {{}} : \E known \in SUBSET checked :
             cache' = (cache \ ({u} \X checked)) \cup ({u} \X known)
        /\ task' = [task EXCEPT ![p] = Begin(u, "linked")]
        /\ UNCHANGED queue
     \/ /\ queue' = Append(queue, [kind |-> "linked", user |-> u])
        /\ UNCHANGED <<cache, task>>
  /\ UNCHANGED <<role_links, role_assignments, members, rlogic, pending, config, ghosts>>

\* ... the gateway fails under populate_cache_for_user: the request ends in an error
\* with the account linked and nobody told.
LinkAccountCut(u) ==
  /\ SpendBoth
  /\ linked_accounts' = linked_accounts \cup {u}
  /\ UNCHANGED <<role_links, cache, role_assignments, members, rlogic, queue, task, pending,
                 config, ghosts>>

\* unlink: delete the row, then send the event.
Unlink(u) ==
  /\ u \in linked_accounts
  /\ Spend("env")
  /\ linked_accounts' = linked_accounts \ {u}
  /\ queue' = Append(queue, [kind |-> "unlinked", user |-> u])
  /\ UNCHANGED <<role_links, cache, role_assignments, members, rlogic, task, pending, config,
                 ghosts>>

\* The row is gone and nobody is told: the client of unlink went away before the
\* event was sent, or twitch_callback failed between its DELETE of the old account
\* and its INSERT of the new one.
UnlinkCut(u) ==
  /\ u \in linked_accounts
  /\ SpendBoth
  /\ linked_accounts' = linked_accounts \ {u}
  /\ raced' = raced \cup {u}
  /\ UNCHANGED <<role_links, cache, role_assignments, members, rlogic, queue, task, pending,
                 config, suspect>>

\* A webhook or the refresh worker records a new fact and asks for a sync.
FactChanges(u, c) ==
  /\ Spend("env")
  /\ cache' = IF <<u, c>> \in cache THEN cache \ {<<u, c>>} ELSE cache \cup {<<u, c>>}
  /\ queue' = IF u \in linked_accounts
              THEN Append(queue, [kind |-> "updated", user |-> u]) ELSE queue
  /\ UNCHANGED <<role_links, linked_accounts, role_assignments, members, rlogic, task, pending,
                 config, ghosts>>

MembershipChanges(g, u) ==
  /\ Spend("env")
  /\ members' = IF <<g, u>> \in members THEN members \ {<<g, u>>} ELSE members \cup {<<g, u>>}
  /\ UNCHANGED <<db, rlogic, queue, task, pending, config, ghosts>>

\* role_config_save: a rule about a channel needs one connected.
SaveRule(l, rule) ==
  /\ role_links[l] # NoRow
  /\ rule = "anyone" \/ (rule = "channel" /\ role_links[l].channel # NoChannel)
  /\ Spend("env")
  /\ role_links' = [role_links EXCEPT ![l].rule = rule]
  /\ pending' = pending \cup {l}
  /\ UNCHANGED <<linked_accounts, cache, role_assignments, members, rlogic, queue, task, config,
                 ghosts>>

\* connect_callback: the broadcaster is bound to the link, the members get cache rows
\* without facts, and the config sync worker is told, unless the gateway fails
\* under populate_cache_for_broadcaster first.
ConnectChannel(l, c) ==
  /\ role_links[l] # NoRow
  /\ role_links' = [role_links EXCEPT ![l].channel = c]
  /\ \/ Spend("env") /\ pending' = pending \cup {l}
     \/ SpendBoth /\ UNCHANGED pending
  /\ UNCHANGED <<linked_accounts, cache, role_assignments, members, rlogic, queue, task, config,
                 ghosts>>

\* cleanup_broadcaster_if_orphaned: the facts about the channel of l go when no
\* other link has it.
CacheAfterRelease(l) ==
  IF \E k \in Link \ {l} : role_links[k] # NoRow /\ role_links[k].channel = role_links[l].channel
  THEN cache ELSE cache \ (User \X {role_links[l].channel})

\* broadcaster_disconnect.
Disconnect(l) ==
  /\ role_links[l] # NoRow
  /\ Spend("env")
  /\ cache' = CacheAfterRelease(l)
  /\ role_links' = [role_links EXCEPT ![l].channel = NoChannel]
  /\ pending' = pending \cup {l}
  /\ UNCHANGED <<linked_accounts, role_assignments, members, rlogic, queue, task, config, ghosts>>

\* cleanup_expired: the facts about channels no link has.
CleanupExpired ==
  /\ cache' = {x \in cache : x[2] \in Connected}
  /\ cache' # cache
  /\ UNCHANGED <<role_links, linked_accounts, role_assignments, members, rlogic, queue, task,
                 pending, config, ghosts, budget>>

\* register: insert the row, or put the new token into the one that is there.
Register(l) ==
  /\ upstream[l].state # "gone"
  /\ IF role_links[l] = NoRow THEN TRUE ELSE role_links[l].token # upstream[l].token
  /\ role_links' = [role_links EXCEPT ![l] =
                      IF @ = NoRow
                      THEN [token |-> upstream[l].token, rule |-> "nobody", channel |-> NoChannel]
                      ELSE [@ EXCEPT !.token = upstream[l].token]]
  /\ UNCHANGED <<linked_accounts, cache, role_assignments, members, rlogic, queue, task, pending,
                 config, ghosts, budget>>

\* delete_config: RoleLogic deleted the link and calls with its old token, perhaps so late
\* that the link is made anew.  The code asks for the row's token and no more; that there
\* is no call while the link lives is RoleLogic's part.
DeleteConfig(l) ==
  /\ role_links[l] # NoRow
  /\ upstream[l].state = "gone" \/ role_links[l].token < upstream[l].token
  /\ DropRow(l)
  /\ cache' = CacheAfterRelease(l)
  /\ UNCHANGED <<linked_accounts, members, rlogic, queue, task, pending, config, raced, budget>>

\* The owner switches the link off or on in RoleLogic.
ToggleLink(l) ==
  /\ upstream[l].state # "gone"
  /\ Spend("env")
  /\ upstream' = [upstream EXCEPT ![l].state = IF @ = "on" THEN "off" ELSE "on"]
  /\ UNCHANGED <<db, members, remote, queue, task, pending, config, ghosts>>

\* The link is deleted in RoleLogic, its user list with it.
DeleteLink(l) ==
  /\ upstream[l].state # "gone"
  /\ Spend("env")
  /\ upstream' = [upstream EXCEPT ![l].state = "gone"]
  /\ remote' = remote \ PairsOf(l)
  /\ suspect' = suspect \cup (PairsOf(l) \cap role_assignments) \cup Contested(PairsOf(l), Proc)
                  \cup (IF ConfigWriting(l) THEN PairsOf(l) ELSE {})
  /\ UNCHANGED <<db, members, queue, task, pending, config, raced>>

\* ... and made anew for the same guild and role: an empty list, a new token.
CreateLink(l) ==
  /\ upstream[l].state = "gone"
  /\ Spend("env")
  /\ upstream' = [upstream EXCEPT ![l] = [token |-> @.token + 1, state |-> "on"]]
  /\ UNCHANGED <<db, members, remote, queue, task, pending, config, ghosts>>

\* An unlink not yet carried out.
Unserved(u) ==
  \/ \E i \in DOMAIN queue : queue[i] = [kind |-> "unlinked", user |-> u]
  \/ \E p \in Proc : task[p].user = u /\ task[p].pc \in {"assignments", "strip"}

\* The process dies and starts again: the channels, the pending map and every task
\* are lost, the database is not.
Crash ==
  /\ Spend("faults")
  /\ queue' = <<>>
  /\ pending' = {}
  /\ task' = [p \in Proc |-> Idle]
  /\ config' = ConfigIdle
  /\ suspect' = suspect \cup Contested(Link \X User, Proc)
                  \cup {x \in Link \X User : ConfigWriting(x[1]) \/ Unserved(x[2])}
  /\ UNCHANGED <<db, members, rlogic, raced>>

\* The client of a callback goes away and the server drops the handler where it is.
CallbackDropped(p) ==
  /\ task[p].pc # "idle"
  /\ Spend("faults")
  /\ task' = [task EXCEPT ![p] = Idle]
  /\ suspect' = suspect \cup Contested(Link \X User, {p})
  /\ UNCHANGED <<db, members, rlogic, queue, pending, config, raced>>

-----------------------------------------------------------------------------
(* The specification                                                         *)

SyncStep(p) ==
  \/ ReadLinked(p) \/ ReadGuilds(p) \/ ReadLinks(p) \/ ReadCache(p) \/ ReadExisting(p)
  \/ \E l \in Link : \/ CallAccepted(p, l) \/ CallDeclined(p, l) \/ CallFindsLinkGone(p, l)
                     \/ WriteMirror(p, l) \/ MirrorWriteFails(p, l)
                     \/ DeleteOrphan(p, l) \/ StripCall(p, l)
  \/ ReadAssignments(p) \/ WipeMirror(p)

ConfigStep ==
  \/ \E l \in Link : ConfigStart(l)
  \/ ConfigReadLink \/ ConfigReadMembers \/ ConfigReadInfo \/ ConfigQuery
  \/ ConfigGivesUp \/ ConfigFindsLinkGone \/ ConfigUploaded \/ ConfigHeld
  \/ ConfigDeleteOrphan \/ ConfigWriteMirror \/ ConfigMirrorWriteFails

Fault ==
  \/ \E p \in Proc : \/ SyncFails(p) \/ StripFails(p)
                     \/ \E l \in Link : CallFails(p, l) \/ OrphanStays(p, l)
  \/ \E p \in Callback : CallbackDropped(p)
  \/ ConfigAnswerLost
  \/ \E u \in User : LinkAccountCut(u) \/ UnlinkCut(u)
  \/ Crash

Environment ==
  \/ \E u \in User : \/ Unlink(u)
                     \/ \E p \in Callback : LinkAccount(p, u)
                     \/ \E c \in Channel : FactChanges(u, c)
                     \/ \E g \in Guild : MembershipChanges(g, u)
  \/ \E l \in Link : \/ Register(l) \/ DeleteConfig(l) \/ Disconnect(l)
                     \/ ToggleLink(l) \/ DeleteLink(l) \/ CreateLink(l)
                     \/ \E rule \in Rule : SaveRule(l, rule)
                     \/ \E c \in Channel : ConnectChannel(l, c)
  \/ CleanupExpired

Next ==
  \/ TakeEvent
  \/ \E p \in Proc : SyncStep(p)
  \/ ConfigStep
  \/ Fault
  \/ Environment

Spec == Init /\ [][Next]_vars

\* Tokio runs every ready task, every call has a timeout and every statement
\* ends: the workers and the callbacks keep going.  Nothing obliges a request,
\* an outside change or a fault to happen.
Fairness ==
  /\ WF_vars(TakeEvent)
  /\ \A p \in Proc : WF_vars(SyncStep(p))
  /\ WF_vars(ConfigStep)

FairSpec == Spec /\ Fairness

-----------------------------------------------------------------------------
(* Properties                                                                *)

\* The mirror and RoleLogic's list disagree about a pair only while a task is
\* between its call and its mirror write, or since a named cause: an overlap with
\* another such write, a lost answer, an error remove_all_assignments passes over,
\* a failed statement, a dropped callback, a restart, the row or the link deleted
\* under the list.  And one later call that nothing overlaps and that is followed by
\* its mirror write puts the pair right again.
DriftHasCause ==
  \A l \in Link, u \in User :
    (<<l, u>> \in remote) # (<<l, u>> \in role_assignments) =>
      \/ <<l, u>> \in suspect
      \/ \E p \in Proc : Writing(p, l, u)
      \/ ConfigWriting(l)

\* An unlinked user still on a list: the unlink is still to be carried out, or the
\* worker was not told of it, or it was taken up while another task acted for the
\* user, or the mirror that remove_all_assignments works from was off.
NoRoleAfterUnlink ==
  \A l \in Link, u \in User :
    <<l, u>> \in remote =>
      \/ u \in linked_accounts
      \/ <<l, u>> \in suspect
      \/ u \in raced
      \/ \E i \in DOMAIN queue : queue[i] = [kind |-> "unlinked", user |-> u]
      \/ /\ task[Worker].user = u
         /\ \/ task[Worker].pc = "assignments"
            \/ task[Worker].pc = "strip" /\ task[Worker].at[l] # "none"

\* ... and it is carried out: an unlinked user eventually leaves every list.
EventuallyStripped ==
  \A l \in Link, u \in User :
    (<<l, u>> \in remote /\ u \notin linked_accounts)
      ~> (<<l, u>> \notin remote \/ u \in linked_accounts \/ <<l, u>> \in suspect \/ u \in raced)

\* The tokens for which RoleLogic has told a task that l is gone, so that it is about to
\* delete the row of l.
Verdicts(l) ==
  {task[p].rows[l].token : p \in {q \in Proc : task[q].at[l] = "gone"}}
    \cup (IF config.pc = "orphan" /\ config.link = l THEN {config.row.token} ELSE {})

\* The row of a link that lives is deleted only by a task that asked with a token the link
\* no longer has, and nobody has given up a link that answered to its token: a link
\* that is off, or that failed to answer, keeps its row.  A row not yet registered anew,
\* still with a token of the link before, RoleLogic may also have deleted itself.
\* (LiveRowKept, below, is what the repository says.)
LostToOldToken ==
  [][\A l \in Link :
       role_links[l] # NoRow /\ role_links'[l] = NoRow /\ upstream[l].state # "gone"
         => /\ Verdicts(l) # {} \/ role_links[l].token < upstream[l].token
            /\ \A token \in Verdicts(l) : token < upstream[l].token]_vars

-----------------------------------------------------------------------------
(* What makes DriftHasCause inductive                                        *)

\* The foreign key of role_assignments.
MirrorHasRow ==
  \A l \in Link, u \in User : <<l, u>> \in role_assignments => role_links[l] # NoRow

OneWriter(l, u) ==
  /\ \A p, q \in Proc : Writing(p, l, u) /\ Writing(q, l, u) => p = q
  /\ ConfigWriting(l) => \A p \in Proc : ~Writing(p, l, u)

\* A writer knows what RoleLogic has.
TaskKnows(l, u) ==
  \A p \in Proc : task[p].user = u =>
    /\ task[p].pc = "apply" /\ task[p].at[l] = "added" => <<l, u>> \in remote
    /\ task[p].pc = "apply" /\ task[p].at[l] = "removed" => <<l, u>> \notin remote
    /\ task[p].pc = "strip" /\ <<l, u>> \in remote => task[p].at[l] # "none"

ConfigKnows(l, u) == ConfigWriting(l) => (<<l, u>> \in remote <=> u \in config.list)

Explained(l, u) ==
  \/ <<l, u>> \in remote <=> <<l, u>> \in role_assignments
  \/ \E p \in Proc : Writing(p, l, u)
  \/ ConfigWriting(l)

Sound(l, u) == OneWriter(l, u) /\ TaskKnows(l, u) /\ ConfigKnows(l, u) /\ Explained(l, u)

\* Whatever is not suspect has at most one writer, which knows what RoleLogic has.
PairsSound == \A l \in Link, u \in User : <<l, u>> \in suspect \/ Sound(l, u)

DriftInv == TypeOK /\ MirrorHasRow /\ PairsSound

-----------------------------------------------------------------------------
(* What makes NoRoleAfterUnlink inductive                                    *)

\* Not linked, and the worker has taken up the user's last unlink on its own.
Forsaken(u) ==
  /\ u \notin linked_accounts \cup raced
  /\ \A i \in DOMAIN queue : queue[i] # [kind |-> "unlinked", user |-> u]

\* Whoever still holds the user by name can only take the role away.
NobodyAdds(u) ==
  /\ \A p \in Callback : task[p].user # u
  /\ task[Worker].user = u => task[Worker].pc \in {"linked", "assignments", "strip"}
  /\ u \notin config.list

ForsakenForGood == \A u \in User : Forsaken(u) => NobodyAdds(u)

\* A list comes from a query of the same sync, or is empty.
ListIsFresh == config.pc \notin {"upload", "mirror"} => config.list = {}

UnlinkInv == DriftInv /\ NoRoleAfterUnlink /\ ForsakenForGood /\ ListIsFresh

-----------------------------------------------------------------------------
(* What makes LostToOldToken inductive                                       *)

\* No copy of a row has a token from the future.
Past(l, row) == row # NoRow => row.token <= upstream[l].token

\* The link that a copy was about has been deleted.
Dead(l, row) == row.token < upstream[l].token \/ upstream[l].state = "gone"

TaskTokens(t, l) == Past(l, t.rows[l]) /\ (t.at[l] = "gone" => Dead(l, t.rows[l]))

ConfigTokens ==
  /\ config.pc # "idle" => Past(config.link, config.row)
  /\ config.pc = "orphan" => Dead(config.link, config.row)

TokensInv ==
  /\ TypeOK
  /\ \A l \in Link : Past(l, role_links[l]) /\ \A p \in Proc : TaskTokens(task[p], l)
  /\ ConfigTokens

-----------------------------------------------------------------------------
(* What the repository says and the code does not keep                       *)

Quiet ==
  /\ queue = <<>> /\ pending = {} /\ config.pc = "idle"
  /\ \A p \in Proc : task[p].pc = "idle"

\* "Role assignments: tracks which users currently have which roles (local
\* mirror)", migrations/001_initial_schema.sql.  Once every task is done, for links
\* that RoleLogic still serves under their first token, the mirror is the list.
\* The code does not keep this: remove_all_assignments asks RoleLogic about the links its
\* SELECT found and then deletes every row of the user.  A row that sync_for_role_link
\* writes in between, for a list it uploaded before the user unlinked, goes unasked: the
\* user stays on the list, and no mirror row is left by which a later task would take him
\* off; only the link's next config sync does.
MirrorTracksRoles ==
  (Quiet /\ \A l \in Link : upstream[l] = [token |-> 1, state |-> "on"])
    => role_assignments = remote

\* "getting this reliably signals the role link has been deleted upstream",
\* rolelogic.rs: a row whose token RoleLogic accepts is never deleted as an orphan.
\* The code does not keep this: delete_orphan_role_link ignores which token the
\* answer was about, so the answer to an old token deletes a row registered anew.
LiveRowKept ==
  [][\A l \in Link : (role_links[l] # NoRow /\ role_links'[l] = NoRow)
       => Answer(l, role_links[l].token) = "not_found"]_vars

=============================================================================
