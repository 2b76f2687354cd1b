# Twitch Follower Role: formal models

The service gives Discord roles to people who follow, or are subscribed to, a
connected Twitch channel.  It does not talk to Discord: it keeps the user list of
each *role link* in an external service, RoleLogic, which hands the roles out.
This directory holds TLA+ models of the service, the TLC configurations that check
them and proofs, checked by TLAPS, of what holds for every value of the constants.

Paths below are relative to the repository (`src/` in PROJECT.json stands for its
root).

## The system

| Part | Code | State it keeps | Operations |
|---|---|---|---|
| Role synchronisation | `src/services/sync.rs`, `src/tasks/user_sync_worker.rs` | the mirror `role_assignments`; RoleLogic's lists through its API | `sync_for_user`, `sync_for_role_link`, `remove_all_assignments`, `clear_role`, `delete_orphan_role_link`, `populate_cache_for_*` |
| Config sync worker | `src/tasks/config_sync_worker.rs` | `pending`: when each link is due, in memory | debounce, sync, re-book a held write |
| RoleLogic client | `src/services/rolelogic.rs` | none (an upload session lives in RoleLogic) | add, remove, replace, chunked upload, classification of errors |
| Rule tree | `src/models`, `src/services/{rule_validator,condition_eval,rule_sql}.rs` | `role_links.rule_tree` | validate, evaluate in Rust, translate to SQL |
| Rule editor | `templates/role_config.html`, `src/routes/admin.rs` | the page's `state`, `dirty`; `rule_tree_version` | load, edit, save with an optimistic lock, refresh on focus |
| Account linking | `src/routes/verification.rs` | `linked_accounts`, `oauth_states` | OAuth callback (links, checks and syncs inline), unlink, refresh |
| Broadcaster connection | `src/routes/broadcaster.rs`, `admin.rs` | `role_links.broadcaster_*`, `eventsub_subscriptions` | connect, disconnect, clean-up of an orphaned broadcaster |
| Plugin API | `src/routes/plugin.rs` | `role_links` | register (upsert the token), delete_config |
| Webhooks | `src/routes/webhooks.rs` | `user_channel_cache` | follow, subscribe, subscription end |
| Refresh worker | `src/tasks/refresh_worker.rs` | `user_channel_cache`, tokens | poll the stalest entry, back off, refresh a token |
| Clean-up task | `src/tasks/mod.rs` | the caches | delete expired states, facts about channels no link has |

How they interact.  Handlers and the refresh worker write PostgreSQL and send a
`UserSyncEvent` or a `ConfigSyncEvent` into a bounded in-memory channel; one worker
per channel takes them one at a time.  There is one exception: the OAuth callback
runs `sync_for_user` itself.  So `sync_for_user` runs in several tasks at once, next
to `sync_for_role_link`; they share the database and RoleLogic and no lock.

What is hard: every sync reads several tables and services in turn and acts on what
it read, many awaits later; it changes RoleLogic first and its own mirror second, in
two systems with no transaction around them; a call may time out after it took
effect; a restart loses the queues; a hyper connection that closes drops a
handler's future at an await; RoleLogic links are deleted and made anew, with new
tokens, behind the service's back; several dashboard tabs edit the same rule.

What makes each part correct:

- *Role synchronisation*: the mirror is RoleLogic's list, or a known cause put it
  off; no unlinked user keeps a role; a live link is never deleted; once nothing
  changes any more the list is who qualifies.
- *Config sync worker*: every change of a rule or channel is synced in the end.
- *Rule tree*: only meaningful rules are stored; the two evaluators agree; the
  generated query binds what it means.
- *Rule editor*: no save overwrites a rule its page never showed; what the page shows as saved
  is stored; a rule about a channel is not stored without one.
- *Account linking*: one Discord user per Twitch account and the other way round,
  through failures between the statements.
- *Broadcaster connection*: a connected channel has its subscriptions and cache
  rows, an abandoned one has neither.
- *Refresh worker, webhooks*: the cache converges to what Twitch says.
- *Upload*: a bulk upload of any size replaces the list at once or not at all.

## Modules

| Module | Of | Uses |
|---|---|---|
| `RoleSync` | who holds which role: workers, callback, RoleLogic's lists and their mirror | |
| `RuleTree` | one link's rule, its validator and its two evaluators | |
| `RuleEditor` | dashboard tabs around one row of `role_links` | |
| `ListReplacement` | what a bulk upload promises (abstract) | |
| `UserUpload` | `upload_users`, request by request | |
| `ConfigSyncWorker` | the worker's loop around uploads | EXTENDS `UserUpload`; implements `ListReplacement` |
| `FactCache` | polls, token renewals and webhooks on `user_channel_cache` | |
| `Broadcaster` | channels connected, disconnected, cleaned up | |
| `Connections` | the same next to accounts linked and unlinked | EXTENDS `Broadcaster` |

`<M>MC` gives constants and initial states for TLC; `<M>Proofs`, `RoleSyncCauseProofs` and
`ConnectionsTypeProofs` hold theorems.  The modules meet at what they share: RoleSync takes
a replacing write as one step, which `UserUpload` shows it may; it takes the cache's facts as
given, which `FactCache` shows them to become; it takes links, accounts and
cache rows as changing in one step, which `Connections` takes apart.
Operators named `...Uniform`, `...OrClear`, `...HalfOpen` and the like, introduced by
the comment "Faulty variant", are what the definition after them would be with a
plausible bug; each breaks one property and none is used in the specification.

### RoleSync

Who holds which role.  Variables and their code:

| Variable | Code |
|---|---|
| `role_links` | the table: a row has a `token`, a `rule` and a `channel` |
| `linked_accounts`, `cache`, `role_assignments` | the tables; `cache` holds the (user, channel) pairs whose facts match a rule about the channel |
| `members` | what the Auth Gateway answers |
| `upstream`, `remote` | RoleLogic: a link's current token and state, and the user lists |
| `queue` | the user sync channel, senders that wait for room included |
| `task` | the locals of every running `sync_for_user` or `remove_all_assignments`, with a program counter per await; a stage per link, because the calls of one sync run concurrently |
| `pending`, `config` | the config sync worker's map and its running `sync_for_role_link` |
| `suspect`, `raced` | history: pairs and users that a named cause may have left wrong |

Each await is an action: `ReadLinked`, `ReadGuilds`, `ReadLinks`, `ReadCache`,
`ReadExisting` (with the decision of the code after it), then per link
`CallAccepted` / `CallDeclined` / `CallFails` / `CallFindsLinkGone` and `WriteMirror` /
`MirrorWriteFails` / `DeleteOrphan` / `OrphanStays`.  `remove_all_assignments` is
`ReadAssignments`, `StripCall` per link, `WipeMirror`; `sync_for_role_link` is the
`Config...` actions, with the replacing write atomic.  `CallFails`, `ConfigAnswerLost` and
`StripCall` let a call that got no answer have taken effect or not.

Abstractions.  A rule is "nobody", "anyone" or about the channel; RuleTree is where
rules are taken apart.  The cache is keyed by the Discord user rather than the Twitch
account and a row without matching facts is no row.  The OAuth callback up to its inline sync, connect,
disconnect and delete_config are one step each (their failures in between are fault
actions: `LinkAccountCut`, `UnlinkCut`, `ConnectChannel`'s second disjunct).  The cap of
ten concurrent calls is left out; the user limit does not change.  Here a pending link may
be synced at any time; the debounce is in ConfigSyncWorker.

### RuleTree

One link's rule, from the JSON the dashboard posts (`Save`, with `ParseRuleTree` and
`ValidateCondition`) to the decision about one linked member by `Qualifies` (Rust) and
by `Selected` (SQL).  JSON values are records that say what they read as; SQL's NULL
is the empty option; a comparison with it is not TRUE, which is all a WHERE clause
without NOT can tell.  `BuildRuleWhere` builds the clause with its numbered
placeholders and its list of binds as the Rust code does, with folds over
groups and conditions (`PushGroup`, `PushCondition` are one round of each loop).  The member's cache row changes by `Follow`, `Subscribe`,
`SubscriptionEnd`, `Refresh`, the channel by `Connect` and `Disconnect`, and the clock
by `TimePasses`; the service and the database share one clock and `Skew` lets Twitch's
be ahead of it.

### RuleEditor

Dashboard tabs around one row of `role_links`.  `Load`, `Edit`, `Send`, `RefreshRead` /
`RefreshArrives` (refreshFromServer's request and what the page does with the answer)
and `Answer` are the page's functions; `SaveCheck`, `SaveUpdate` and `SaveReadVersion`
are the three statements of `role_config_save`, which other handlers run between.
`Edit` works out `dirty` on the rule it shows; `RemoveLastGroup` on the empty rule, which `renderRule`
fills with the default afterwards, so that on an unconfigured link nothing counts as left to save
(`refilled` records it).  `Connect` and `Disconnect` are the handlers' UPDATE; the
clean-up or the spawned task, with its calls to Twitch, comes before the event, so what each page has
still to be told about is counted in `telling`, and ends in `Tell` or, when the callback fails or the handler is
dropped, in `TellFails`.
An answered save copies the edit buffer by reference: `cfg` is `Live` until
a refresh replaces the buffer, and `Gone` once the page was reloaded.  The rules are
"nobody" (unconfigured), "anyone" and those about a channel.  `due` stands for the
config event and `changed` for a rule or channel the config sync worker has not read
yet.  Versions are bounded, not wrapped: 2^31 saves are out of reach.

### ListReplacement, UserUpload, ConfigSyncWorker

How a link's whole list is replaced.  `call` holds the locals of the running
`upload_users`, with a stage per request (`put`; or `start`, `chunk`, `commit`, `swap` and `cancel`);
`lists`, `upstream`, `gate` and `session` are RoleLogic's side, modelled from how the client
reads its answers: the list, whether the link is on, the confirmation of a large removal and the
open upload session.  Each request is answered, refused or fails (`UploadFails`), and a request the
client has given up on may be carried out later (`strays`).  `ConfigSyncWorker` adds the
loop: `queued` (the channel), `pending` (the map, in units of time), `ready` (the round), and the
actions `Receive`, `TimeoutFires`, `SyncBegins` and one action per outcome.  `Restart`
loses the channel, the map and the call.

Time is counted in units of ten minutes, so that a debounce is one unit, the held re-check two
and the confirmation's window six; a commit may take up to three.  What takes seconds takes no
time.  `wanted` is the list the link's rule comes to, which RoleSync computes.  History
variables: `dropped` (links whose last sync came to nothing and is not repeated), `postponed`
(links that were due and that an event has put off) and `waited` (for how long a link whose owner has
confirmed has been due while the worker was busy with other links).

### FactCache

Where the facts come from.  Variables and their code:

| Variable | Code |
|---|---|
| `role_links` | `broadcaster_id` and the pair of tokens; the n-th pair of a channel's owner is `<<channel, n>>` |
| `cache` | `user_channel_cache`: the facts, whether `next_fetch_at` has passed, `fetch_failures` |
| `poll` | the locals of the refresh worker and of one callback's inline checks, with a stage per await |
| `truth`, `fresh`, `alive`, `minted`, `refusing`, `inbox` | Twitch: the facts, which access and refresh tokens it accepts, how many pairs it gave out, channels whose checks it refuses, notifications on their way |
| `behind` | Twitch: facts that have changed and that its API may not show yet |
| `untold` | users whose facts changed since an event for them was last sent |
| `bereft`, `poll[p].unsure` | history: links whose tokens a named cause has cost; facts that changed during a poll, or that the API was behind on when asked |

`Pick`, `ReadToken`, `Answered` / `Unauthorized` / `Refused`, `Refreshed` / `RefreshRefused`,
`StoreToken`, `EraseToken`, `WriteFacts`, `Tell`, `BackOff` are the refresh worker's awaits, each
with its failure; the callback uses the same two checks and renews nothing.  `Notify`
is a webhook handler, `NotifyTwice` and `NotificationLost` what delivery may do to it, and the order
of `inbox` is free.  `LooksUnauthorized` is there because the code looks for "401" in the
text of an error, which for a transport error holds the URL and its ids.

Twitch's API may be slow to show a follow or a subscription that has just been made
(`src/tasks/refresh_worker.rs:15-18`, `240-243`, `src/routes/verification.rs:649-651`): while it is `behind` on a
fact a check is told either value (`Says`), until `CatchesUp`.  The notification may come first, so a
poll begun after a webhook may undo what that wrote; a later poll repairs it.

Abstractions.  The instants at which entries come due are left out: an entry comes due at any
time after the others have had their turn, which is what `CachedInterval` is for; the re-check 90 s
after an inline check is one way of coming due.  The back-off
counts failures up to `MaxFailures`, the number after which PostgreSQL's product of interval
and power is out of range and the UPDATE fails (about 38; 2 in the run).  Times of a
fact (`followed_at`) are in RuleTree.

### Broadcaster, Connections

How accounts and channels come and go.  A request under way is a record in `req` with a stage per
statement or call; requests are alike and take the first free place.

| Variable | Code |
|---|---|
| `linked`, `registered`, `channel`, `rows`, `oauth_states`, `eventsub` | the tables, reduced to who, which link, which channel, and whether there is a row |
| `hooks` | Twitch: the EventSub subscriptions there are |
| `req` | `twitch_callback`, `connect_callback` with the task it spawns, `broadcaster_disconnect`, `delete_config`, each with the clean-up it calls |
| `unlinking`, `events`, `served` | an unlink between its DELETE and its event; the user sync channel; who has the role the account earns |
| `unheard`, `strays`, `unsure`, `owed`, `cut` | history: what a named cause has cost |

`Broadcaster` has `Connect...`, `Hook...` (create_eventsub_subscriptions), `Detach...` and
`Cleanup...` (cleanup_broadcaster_if_orphaned); `Connections` adds the callback of an account
(`AccountTaken`, `AccountKnown`, `AccountNew`, `DeleteOldLink`, `InsertNewLink`,
`InsertRefused` by one of the two UNIQUE keys, `Populate`, `ApplyInline` or `SendLinked`), `Unlink`,
the worker and the refresh worker's event.  `Dropped` is a handler that hyper drops at an await;
a spawned task is not dropped.

Abstractions.  A sync is one step (RoleSync has its awaits) and gives a linked member the role.
A poll sends its event at once (FactCache has its awaits); while one such event waits, a second would
change nothing and is left out.  The tokens are in FactCache.

## What is checked

All bounds are constants named `Max...`; a bound on requests, outside changes or
faults limits how many happen in one behaviour and not when.

| Run | Instance | Properties | Result |
|---|---|---|---|
| `RoleSync` | 2 users, 1 link with a limit of 1, 1 channel, the worker, 1 callback, the config sync; 2 requests or outside changes, 1 fault; 1.4 M states | `TypeOK`, `DriftHasCause`, `NoRoleAfterUnlink`, `LostToOldToken` | hold |
| `RoleSyncLive` | the same with 1 user; 185 k states | `EventuallyStripped` | holds |
| `RoleSyncDrift` | no callback, 1 outside change, no fault | `MirrorTracksRoles` | violated |
| `RoleSyncOrphan` | no callback, 2 outside changes, no fault | `LiveRowKept` | violated |
| `RuleTree` | 70-odd payloads that reach every path of the validator and every operator, groups up to 3 by 2, 6 instants; 20 k states | `TypeOK`, `EvaluatorsAgree`, `QueryRuns` | hold |
| `RuleTreeClock` | the same | `MustAgree` | violated |
| `RuleEditor` | a new link: 2 tabs, 2 requests; or a configured one: 1 tab, 1 request and 2 rows, with 2 outside changes (connects, disconnects, deletions, reloads) and a fault, or 1 of each and a removal of the last group; versions up to 2; 2.1 M states | `TypeOK`, `ShowsStored`, `ChangeReachesWorker`, `ReplacesWhatWasShown`, `NoNoopRule` | hold |
| `RuleEditorClobber` | 2 tabs, 2 requests, versions up to 3 | `NoSilentClobber` | violated |
| `ConfigSyncWorker` | 3 users in 3 lists, PUT up to 1 user, chunks of 1; one link with 2 changes and a fault, or 2 links with 1 change; any number of events that change nothing; 332 k states | `TypeOK`, `NoChangeForgotten`, `ReplacesAsAWhole`, `ConfirmationIsUsed`, `ChangesLand` | hold |
| `ConfigSyncLapse` | 3 links, 2 users in 2 lists, a PUT or one chunk; each link has just changed, nothing more happens | `RecheckInsideTheHour` | violated |
| `FactCache` | 2 users with an entry each, of which one is active, 2 channels, 2 links; 2 outside changes and a fault, or 3 changes about a channel both links share; the API may be slow about the active user; 838 k states | `TypeOK`, `TokenKept`, `PollTellsTruth`, `FactsConverge` | hold |
| `Connections` | 2 members, 2 accounts, 2 links, 2 channels, 1 EventSub type, 2 requests at a time; 2 outside requests and a fault, or 3; 572 k states | `TypeOK`, `CacheComplete`, `LinkKept`, `ConnectedIsHeard`, `AbandonedIsSilent`, `ServedInTheEnd` | hold |

Why the bounds are enough.  In RoleSync, a pair's mirror and list are touched by pairs
of actors: the instance has all three kinds of actor that can overlap, on one pair,
and a second user who competes for the last place; a disagreement takes one overlap
or one fault, and a second request (a relink, a new token) makes the
combinations that undo or hide it.  Nothing a task does for one link depends on
another except the order in `remove_all_assignments`, which the proofs cover for
any number of links.  In RuleTree, a decision concerns one condition at a time and bind
numbers carry over at most from one group to the next, in which one- and two-bind conditions
alternate.  In RuleEditor, an overwritten rule takes two tabs, one save of each and a
third save, which the violation run has and the proofs cover for any number; a refilled page
takes one removal on an unconfigured link, and a lost event one request with its UPDATE and event apart.
In ConfigSyncWorker, links share nothing but the worker's time, so two are enough for one to wait for the
other; the lists make each upload a PUT or two chunks and each change a removal or not, and the
time units keep the order of debounce, re-check, commit and window (1 < 2 < 3 < 6).  `ConfirmationIsUsed`
names the time the other links take and is proved for any number of them; three, the least for which
that time uses up the hour, are in `ConfigSyncLapse`.  In
FactCache, what a poll can race is a webhook, the callback, a reconnect or a revocation, on one entry or
on the other link of the channel; two entries are what it takes for one to be polled before the
other for ever.  The API is slow about one of them (`Slow`), which is polled by the worker and by the
callback; the proofs let it be slow about any.  In Connections, every hazard is a race of two requests about one
account or one channel, or a fault in one; the second member, account, link and channel
are those it is confused with or replaced by.  The subscriptions of a channel are made
and deleted type by type, none looking at another's; the proofs cover any number of types,
requests, members, links and channels.
`CHECK_DEADLOCK FALSE` stands where the system may really come to rest: nothing
queued, nobody at the dashboard, and the bounds spent.

Fairness.  tokio polls a task that is ready, every HTTP call has a timeout and every statement
ends, so a step of a task that stays possible is taken: weak fairness.  No request, outside
change or fault is owed.

- `RoleSyncLive`: the worker's next event, every running task and the config sync worker.
- `ConfigSyncWorker`: the worker weakly (`WorkerStep`); time (`TimePasses`) strongly, because it
  is disabled while an event is about to be taken and events may never end.
- `FactCache`: both pollers weakly; `ComesDue` strongly for each entry, because the clock goes on
  while webhooks and the member's own refreshes make an entry due or not; `CatchesUp` weakly, because
  the API is "briefly" slow (`refresh_worker.rs:15`).
- `Connections`: the worker and an unlink's event weakly; `Poll` strongly for each member, because
  the row it needs may go and come back.

What the properties say.

- `DriftHasCause`: list and mirror differ about a pair only while some task is between its call
  and its mirror write, or since a cause with a name: two writers overlapping,
  a lost answer, an error that is passed over, a failed statement, a dropped callback, a
  restart, a row or link deleted under the list.  One undisturbed call and its mirror write
  clear the suspicion, so the property also says that a later sync repairs the pair.
- `NoRoleAfterUnlink`, `EventuallyStripped`: an unlinked user leaves every list; the reasons
  why not are `suspect` (the mirror, all the strip goes by, was wrong), and `raced` (the
  worker was not told, or another task still acted for the user when it took the event up).
- `LostToOldToken`: a link that lives loses its row only to a task that asked with a token the
  link no longer has, or to RoleLogic's own late call about the link before, while the row still has
  that one's token.  So a link that is switched off, a call that fails and an answer about the
  current token never cost the service a row and the rule in it.  It is what the code does keep of what
  `LiveRowKept`, below, asks.
- `EvaluatorsAgree`: as long as nobody followed in the future, both paths give the role to the
  same people.  `QueryRuns`: each placeholder's parameter is the bind that was pushed
  for it, of the type of its column, and LIMIT's is the limit.
- `ShowsStored`: a page that holds the current version shows the stored rule.
  `ReplacesWhatWasShown`: a save overwrites only what its page showed.  Both name their
  exceptions: a version read after another tab's UPDATE, a buffer edited while the save was under way,
  a row deleted and registered anew, and for `ShowsStored` the removal of the only group of an
  unconfigured link, after which the page shows the default rule, "nobody" is stored and the Save button is off.
- `ChangeReachesWorker`: a change of rule or channel is followed by a config event, unless
  the request ended between the two: a save, a connect, or a disconnect in its clean-up.
  `NoNoopRule`: a rule about a channel is stored only with one connected, unless it was disconnected between check and UPDATE.

- `ReplacesAsAWhole`: the worker with its uploads implements `ListReplacement`: a list is
  replaced as a whole or left alone, at once or by a stray later, and the outcome says which.
  `ConfirmationIsUsed`: a confirmed removal is sent before its confirmation lapses, unless an
  event put the link off, the last sync came to nothing, or the worker was busy with other links for so long
  that with the 20 minutes of the re-check the hour was used up.  `NoChangeForgotten`: while a link's
  list is not what its rule comes to, an event, an entry in the map or the running upload will see to it,
  or its last sync came to nothing; it is what `ChangesLand` needs of every state.  `ChangesLand`: once events for a
  link stop, its list is what its rule comes to, or awaits its owner, or the last sync
  came to nothing, which nothing repeats.
- `TokenKept`: a connected link keeps a pair of tokens Twitch will renew, unless its
  owner revoked it, a refresh got no answer, a statement or a restart came after one, or an erasure
  hit the pair of a reconnect.  `PollTellsTruth`: a poll writes no fact that was not so at
  some time while it ran, unless Twitch's API was behind on it when asked; and a check that failed
  clears none.  `FactsConverge`: in the end the cache is what Twitch says and the user
  sync worker knows, unless there is no row or no pair that works, Twitch refuses, or an entry
  whose back-off is out of range stays due and is always polled first (`Crowded`).
- `CacheComplete`: a linked member of a guild with a connected channel has a cache row, whichever
  came first.  `LinkKept`: only unlink takes an account away.  `ConnectedIsHeard`,
  `AbandonedIsSilent`: subscriptions follow connections, also when links share a channel.  Each
  names its exceptions, which are the gaps of the code: a clean-up that had already found the channel
  abandoned, a channel connected in another's place, a dropped request, a failed call.
  `ServedInTheEnd`: a member who is linked and has a row that can be polled has the role in the end,
  also after an unlink and relink whose events were overtaken or lost.

What the violated runs show.

1. `MirrorTracksRoles`: "Role assignments: tracks which users currently have which roles (local mirror)"
   (`migrations/001_initial_schema.sql:50`).  A config sync uploads a list with a user, who unlinks
   before the mirror is written.  `remove_all_assignments` finds no mirror row of theirs and makes no call; the
   mirror is written; its DELETE wipes the row.  The unlinked user keeps the role and
   the mirror does not know: no `sync_for_user` will take them off, only the next config sync of the link.
2. `LiveRowKept`: the 403 answer "reliably signals the role link has been deleted upstream"
   (`src/services/rolelogic.rs:16`).  It does so for the token it was about;
   `delete_orphan_role_link` deletes the row whatever its token is by then.
3. `MustAgree`: "the two MUST agree" (`src/services/condition_eval.rs:6`).  For a follow stamped
   ahead of our clock one truncates and the other floors.
4. `NoSilentClobber`: "so a second tab can't silently clobber" (`src/routes/admin.rs:622`).  The
   version in the answer is read after the UPDATE by a statement of its own.
5. `RecheckInsideTheHour`: "the re-check has to land inside that hour"
   (`src/tasks/config_sync_worker.rs:13`).  One task syncs all links in turn, and a commit may take half an
   hour: with three links a re-check booked for 20 minutes later may come after the hour.

## What is proved

For every value of the constants, under the assumptions in the modules
(`ConstantsAssumption`, `RowAssumption`; `BodyAssumption`, `MigratedAssumption`,
`FactAssumption`, `ClockAssumption`; `UploadAssumption`, `WorkerAssumption`; `CacheAssumption`,
`NoRowAssumption`; `ConnectionAssumption`), which only say what kind of things the constants
are and that the "no..." values are not among the others:

- `RoleSyncProofs!TypeCorrect`: `Spec => []TypeOK`, one lemma per action.  Its part
  `Coherent` (a task calls and writes only for links whose row it read) is what lets
  the later proofs speak of `task[p].rows[l].token`.
- `RoleSyncProofs!DriftCorrect`: `Spec => []DriftHasCause`.  The property is not
  inductive: it does not say what a task that is between call and write knows.  The
  strengthening `DriftInv` adds, per pair that is not `suspect` (`Sound`): at most one
  writer (`OneWriter`), which knows what RoleLogic has (`TaskKnows`, `ConfigKnows`), and
  otherwise the two sides equal (`Explained`); and `MirrorHasRow`, the foreign key, without which a
  cascade could not be told from a loss.  A frame lemma says that a pair none of whose
  parts a step touches stays sound, so each action is left with the pairs it
  touches.  `MirrorRowCorrect` is the foreign key alone.
- `RoleSyncCauseProofs!UnlinkCorrect`: `Spec => []NoRoleAfterUnlink`, from `UnlinkInv`.  To
  `DriftInv` it adds who may still touch the roles of a viewer whose unlink the worker has taken up
  without interference (`Forsaken`): no callback acts for them, the worker only strips, and they are on no
  list that waits to be uploaded (`ForsakenForGood`, `NobodyAdds`).  `TaskKnows` then says of the strip that
  a link it does not call for, or has called for, has no role left.
- `RoleSyncCauseProofs!LossCorrect`: `Spec => LostToOldToken`, from `TokensInv`: tokens are handed out
  in order, no copy of a row has one that RoleLogic has not given yet (`Past`), and where a task was told
  "gone", the link its copy is about has been deleted since (`Dead`) and does not come back; where RoleLogic's own call
  deletes the row of a link that lives, the row's token is an earlier one.
- `RuleTreeProofs!StoredRuleWellFormed`: `Spec => []TypeOK`; the validator's lemmas say what
  `NormalizeValue` and `ValidateCondition` can return for any payload.
- `RuleTreeProofs!AgreementCorrect`: `Spec => []EvaluatorsAgree`, from the former: for a
  well-formed condition the Rust match and the conjunction of the SQL comparisons are
  equivalent, by cases on the target and on `between`; rules follow by their quantifiers.
- `RuleTreeProofs!QueryCorrect`: `Spec => []QueryRuns`, for any number of groups and conditions.  Both
  loops of `build_rule_where` have an invariant (`RuleBuilt`, `GroupBuilt`: what the clause built so far names
  is what was pushed for it, and a later push moves nothing), each fold is unfolded round by
  round, and the induction on the round is over a set of numbers, whose least counterexample the
  well-founded order gives.

- `RuleEditorProofs`, from `EditorInv`: a tab, an answer under way or a save never holds a
  version ahead of its row's (`Reached`), and one that holds the row's own
  version has its rule (`Fits`).  That is inductive because a row's version only grows and
  a new row has a new id (`RowStep`), so `Framed` leaves each action with the page
  or request it touches.  `ShowsCorrect` (`[]ShowsStored`) and `ReplacesCorrect`
  (`ReplacesWhatWasShown`) follow.  `ShowsStored`'s third exception is
  inductive because only `RemoveLastGroup` makes a page `refilled` and any other edit ends it.
  `ReachesCorrect` and `NoopCorrect` need only `ChannelInv`: a save past the check has a connected channel or has seen it go, a row that is gone owes
  no sync, and a change not yet synced has an event, a save past its UPDATE, something left to tell, or was lost.
  `TypeCorrect` needs to know that a page with something to save never holds the unconfigured rule.

- `ConfigSyncWorkerProofs!TypeCorrect`, from `Coherent`: an open session holds what the running
  call has sent, no more and no less; an upload that joined a foreign session would break it.
  `ConfigSyncWorkerProofs!Refinement`: `Spec => ReplacesAsAWhole`, under the mapping of `call` to
  the abstract write (`Phase`): initial states map to initial states, and every step to a
  step of `ListReplacement` or a stutter.  Coherence is what makes a swap, which installs the
  session, the replacement by the whole list.
- `ConfigSyncWorkerProofs!ConfirmationCorrect`: `Spec => ConfirmationIsUsed`, for any links and times.
  `OnTimeInv` says of each removal that RoleLogic holds (`OwedIsOnTime`) that it is in the running call, or
  booked so that it comes due within the held re-check, or due, and then no older than the
  re-check and what it has waited for other links.
- `ConfigSyncWorkerProofs!RecheckFits`: when does the hour hold after all?  `Spec => RecheckInsideTheHour` for
  a finite set of links with `WindowFits`, `HeldRecheck + MaxSwap * (n - 1) < Window`.  `FitsInv` bounds the
  wait by the commits that came first (`Allowed`: one for each link that is not before it any more), for no link commits
  twice before one that is due, as a round is taken as a whole.  With the code's 20, 30 and 60 minutes two links
  fit and three do not, which `ConfigSyncLapse` shows: the hypothesis is tight.
- `ConfigSyncWorkerProofs!ChangeCorrect`: `Spec => []NoChangeForgotten`, from `ForgottenInv`, which adds
  that the running call sends what the rule comes to unless an event is queued (`CallIsCurrent`): the
  channel is not read while a call runs, so a change in the middle of one is still there when it ends.
- `FactCacheProofs!TypeCorrect`, `PollsTellTruth`, from `Inv`: per poller (`Sound`), what it has
  found so far is what is so at Twitch, for each check that was made and each fact that is
  not `unsure` (`Faithful`; the API was not behind on it when asked and it has not changed since),
  and the callback renews nothing.
  `TokensAreKept`: `[]TokenKept`, which is not inductive because an erasure takes the
  pairs of all links of the channel; `ErasesDead` adds that the pair a worker is about to
  erase is dead, or that no link to which one is owed has it.  That holds through a reconnect
  because a new pair has a number no poller has (`Sound`).
- `ConnectionsTypeProofs!TypeCorrect`: no account has two members, no unregistered link a channel,
  and each request has the locals its next statement reads (`GoodRequest`).
- `ConnectionsProofs!LinksAreKept`, from `Kept`: a request about to insert an account somebody
  has taken meanwhile was told so (`RacedTold`).  `CacheIsComplete`, from `Complete` and `CleanedIsKnown`: as
  soon as a clean-up runs on a channel that is connected, its rows are known to be unsure.
  `ConnectedAreHeard`, from `Hearing`: a recorded subscription exists or is known lost, and one
  that a clean-up is about to cancel has no row.  `AbandonedAreSilent`, from `Tended`: subscriptions and
  rows of an abandoned channel are somebody's work, or strays.

Only model-checked: the liveness properties `EventuallyStripped`, `ChangesLand`, `FactsConverge` and
`ServedInTheEnd`, which rest on fairness and `ENABLED`, beyond the prover.  Every invariant and
action property of a passing run is a theorem.

## Not modelled

The Twitch client's rate limiter, which only delays, sessions, tokens, CSRF and headers, the users
page, previews, health, configuration, the migrations' execution and the one-off
`migrate_to_gateway`: they change no state the other parts depend on, or are I/O
around external services whose results are inputs of the models.  PROJECT.json has the
reason for each.

## Plan

What is left, the most important first:

1. What a quiet system owes in RoleSync (each list is who qualifies), as an abstract specification
   that it converges to.
2. The composition of `FactCache` with RoleSync's worker: an event that is sent before
   the statement that should precede it.
3. What `FactsConverge` and `ServedInTheEnd` need of every state, as theorems; for `ChangesLand`
   and `EventuallyStripped` these are `NoChangeForgotten` and `NoRoleAfterUnlink`.
