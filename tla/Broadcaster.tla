---------------------------- MODULE Broadcaster ----------------------------
(***************************************************************************)
(* Channels: connect_callback with the task it spawns, the disconnect and  *)
(* the deletion of a link, and cleanup_broadcaster_if_orphaned, statement  *)
(* by statement.  A request is a record in `req'.                          *)
(***************************************************************************)
EXTENDS Naturals, FiniteSets

CONSTANTS
  Member,     \* Discord users
  Account,    \* Twitch accounts
  Link, Channel,
  Type,       \* the EventSub types: follow, subscribe, subscription end
  Request,    \* the requests that may be under way at a time
  NoMember, NoAccount, NoLink, NoChannel,
  Joined,     \* the members of the guild of each link
  MaxEnv,     \* bound: log-ins, unlinks, disconnects and deletions in a behaviour
  MaxFaults   \* bound: failures, dropped requests and restarts

ASSUME ConnectionAssumption ==
  /\ NoMember \notin Member /\ NoAccount \notin Account
  /\ NoLink \notin Link /\ NoChannel \notin Channel
  /\ Member \cap Link = {} /\ Type # {}
  /\ Joined \in [Link -> SUBSET Member]
  /\ MaxEnv \in Nat /\ MaxFaults \in Nat

VARIABLES
  linked,       \* linked_accounts: the account of every member
  registered,   \* the links with a row in role_links
  channel,      \* role_links.broadcaster_id
  rows,         \* user_channel_cache: accounts and channels with a row
  oauth_states, \* whose OAuth flow has a state that is still good
  eventsub,     \* eventsub_subscriptions: channels and types
  hooks,        \* Twitch: the subscriptions there are
  req,          \* the requests and spawned tasks under way
  unheard,      \* history: subscriptions that a cause with a name has cost
  strays,       \* history: channels left behind by a cause with a name
  unsure,       \* history: cache rows that a cause with a name has cost
  budget

history  == <<unheard, strays, unsure>>
channels == <<registered, channel, eventsub, hooks>>

NoRequest == [pc |-> "idle", member |-> NoMember, account |-> NoAccount, link |-> NoLink,
              channel |-> NoChannel, todo |-> {}, raced |-> FALSE]

Running(r, pcs) == req[r].pc \in pcs
Goes(r, pc) == req' = [req EXCEPT ![r].pc = pc]
Ends(r)     == req' = [req EXCEPT ![r] = NoRequest]

\* Requests are alike: the next takes the first place that is free.
Free == {r \in Request : req[r] = NoRequest}
Begins(with) ==
  /\ Free # {}
  /\ LET r == CHOOSE x \in Free : TRUE IN req' = [req EXCEPT ![r] = with]

Spend(kind) ==
  /\ budget[kind] > 0
  /\ budget' = [budget EXCEPT ![kind] = @ - 1]

Fault == Spend("faults")
Fine  == UNCHANGED budget

\* The links of a channel; a link without a row has none.
LinksOf(c) == {l \in Link : channel[l] = c}
Connected  == {c \in Channel : LinksOf(c) # {}}

\* The channel that would have no link any more without l.
Left(l) == {c \in Channel : LinksOf(c) = {l}}

Cleaning(c)   == \E r \in Request :
  req[r].channel = c /\ Running(r, {"unrecord", "unsubscribe", "uncache"})
Connecting(c) == \E r \in Request :
  req[r].channel = c /\ Running(r, {"seed", "exists", "create", "record"})
\* A clean-up that has still to look whether the channel is connected.
Detaching(c)  == \E r \in Request : req[r].channel = c /\ Running(r, {"orphaned"})

-----------------------------------------------------------------------------
(* connect, connect_callback                                                 *)

ConnectBegins(l, c) ==
  /\ l \in oauth_states
  /\ oauth_states' = oauth_states \ {l}
  /\ Begins([NoRequest EXCEPT !.pc = "store", !.link = l, !.channel = c])
  /\ Fine
  /\ UNCHANGED <<linked, channels, rows, history>>

\* The channel replaces the one the link had, whose subscriptions and rows nobody looks
\* at; the link has gone, and the callback goes on all the same.
ConnectStores(r) ==
  LET l == req[r].link
      c == req[r].channel IN
  /\ Running(r, {"store"})
  /\ channel' = IF l \in registered THEN [channel EXCEPT ![l] = c] ELSE channel
  /\ strays' = strays \cup (IF l \in registered THEN Left(l) \ {c} ELSE {c} \ Connected)
  /\ unheard' = unheard \cup (IF Cleaning(c) THEN {c} \X Type ELSE {})
  /\ unsure' = unsure \cup (IF Cleaning(c) THEN Account \X {c} ELSE {})
  /\ Goes(r, "seed")
  /\ Fine
  /\ UNCHANGED <<linked, registered, rows, oauth_states, eventsub, hooks>>

\* populate_cache_for_broadcaster: a row for every linked member of the guild.  Then the
\* answer is sent, and a task spawned.
ConnectSeeds(r) ==
  LET c   == req[r].channel
      new == {linked[m] : m \in Joined[req[r].link]} \ {NoAccount} IN
  /\ Running(r, {"seed"})
  /\ rows' = rows \cup (new \X {c})
  /\ unsure' = IF Cleaning(c) THEN unsure ELSE unsure \ (new \X {c})
  /\ req' = [req EXCEPT ![r].pc = "exists", ![r].todo = Type]
  /\ Fine
  /\ UNCHANGED <<linked, channels, oauth_states, unheard, strays>>

\* The gateway fails: no rows and no subscriptions; or Twitch gives the task no app token,
\* and there are no subscriptions.
ConnectFails(r) ==
  /\ \/ Running(r, {"seed"}) /\ unsure' = unsure \cup (Account \X {req[r].channel})
     \/ Running(r, {"exists"}) /\ req[r].todo = Type /\ unsure' = unsure
  /\ Fault
  /\ unheard' = unheard \cup ({req[r].channel} \X Type)
  /\ Ends(r)
  /\ UNCHANGED <<linked, channels, rows, oauth_states, strays>>

-----------------------------------------------------------------------------
(* create_eventsub_subscriptions: a type after the other, then the config    *)
(* event                                                                     *)

Hook(r) == <<req[r].channel, CHOOSE t \in req[r].todo : TRUE>>

NextHook(r) ==
  LET rest == req[r].todo \ {Hook(r)[2]} IN
  req' = [req EXCEPT ![r] = IF rest = {} THEN NoRequest
                            ELSE [@ EXCEPT !.pc = "exists", !.todo = rest]]

HookExists(r) ==
  /\ Running(r, {"exists"})
  /\ Hook(r) \in eventsub
  /\ NextHook(r)
  /\ Fine
  /\ UNCHANGED <<linked, channels, rows, oauth_states, history>>

HookMissing(r) ==
  /\ Running(r, {"exists"})
  /\ Hook(r) \notin eventsub
  /\ Goes(r, "create")
  /\ Fine
  /\ UNCHANGED <<linked, channels, rows, oauth_states, history>>

HookCreated(r) ==
  /\ Running(r, {"create"})
  /\ Hook(r) \notin hooks
  /\ hooks' = hooks \cup {Hook(r)}
  /\ Goes(r, "record")
  /\ Fine
  /\ UNCHANGED <<linked, registered, channel, eventsub, rows, oauth_states, history>>

\* Twitch has one subscription of a type for a channel, and refuses a second.
HookRefused(r) ==
  /\ Running(r, {"create"})
  /\ Hook(r) \in hooks
  /\ NextHook(r)
  /\ Fine
  /\ UNCHANGED <<linked, channels, rows, oauth_states, history>>

HookFails(r) ==
  /\ Running(r, {"create"})
  /\ Fault
  /\ unheard' = unheard \cup {Hook(r)}
  /\ NextHook(r)
  /\ UNCHANGED <<linked, channels, rows, oauth_states, strays, unsure>>

\* The row of a subscription that is gone by now, or that a clean-up is about to delete,
\* keeps later connects from making it again.
HookRecorded(r) ==
  /\ Running(r, {"record"})
  /\ eventsub' = eventsub \cup {Hook(r)}
  /\ unheard' = IF Cleaning(req[r].channel) \/ Hook(r) \notin hooks
                  THEN unheard \cup {Hook(r)} ELSE unheard \ {Hook(r)}
  /\ NextHook(r)
  /\ Fine
  /\ UNCHANGED <<linked, registered, channel, hooks, rows, oauth_states, strays, unsure>>

\* The INSERT's error is ignored: a subscription nothing will delete.
RecordFails(r) ==
  /\ Running(r, {"record"})
  /\ Fault
  /\ strays' = strays \cup {req[r].channel}
  /\ NextHook(r)
  /\ UNCHANGED <<linked, channels, rows, oauth_states, unheard, unsure>>

-----------------------------------------------------------------------------
(* broadcaster_disconnect, delete_config and the clean-up                    *)

\* Both read the link's channel first.
DetachBegins(l, pc) ==
  /\ Spend("env")
  /\ l \in registered
  /\ Begins([NoRequest EXCEPT !.pc = pc, !.link = l, !.channel = channel[l]])
  /\ UNCHANGED <<linked, channels, rows, oauth_states, history>>

\* The statement takes whatever channel the link has by now, and the clean-up is about
\* the one that was read.  A connect under way may subscribe after the clean-up.
Detached(l, read) ==
  /\ channel' = [channel EXCEPT ![l] = NoChannel]
  /\ strays' = strays \cup {c \in Left(l) : c # read \/ Connecting(c)}

DetachStores(r) ==
  LET l == req[r].link IN
  /\ \/ Running(r, {"disconnect"}) /\ registered' = registered
     \/ Running(r, {"delete"}) /\ l \in registered /\ registered' = registered \ {l}
  /\ Detached(l, req[r].channel)
  /\ IF req[r].channel = NoChannel THEN Ends(r) ELSE Goes(r, "orphaned")
  /\ Fine
  /\ UNCHANGED <<linked, eventsub, hooks, rows, oauth_states, unheard, unsure>>

\* 401: the row has gone by itself.
DeleteFindsNothing(r) ==
  /\ Running(r, {"delete"})
  /\ req[r].link \notin registered
  /\ Ends(r)
  /\ Fine
  /\ UNCHANGED <<linked, channels, rows, oauth_states, history>>

\* Faulty variant: the channel is not looked for in the other links.
CleanupAlways(r) ==
  /\ Running(r, {"orphaned"})
  /\ Goes(r, "unrecord")
  /\ Fine
  /\ UNCHANGED <<linked, channels, rows, oauth_states, history>>

CleanupChecks(r) ==
  /\ Running(r, {"orphaned"})
  /\ IF req[r].channel \in Connected THEN Ends(r) ELSE Goes(r, "unrecord")
  /\ Fine
  /\ UNCHANGED <<linked, channels, rows, oauth_states, history>>

CleanupUnrecords(r) ==
  LET found == {h \in eventsub : h[1] = req[r].channel} IN
  /\ Running(r, {"unrecord"})
  /\ eventsub' = eventsub \ found
  /\ req' = [req EXCEPT ![r].pc = IF found = {} THEN "uncache" ELSE "unsubscribe",
                        ![r].todo = {h[2] : h \in found}]
  /\ Fine
  /\ UNCHANGED <<linked, registered, channel, hooks, rows, oauth_states, history>>

\* Faulty variant: the rows are forgotten and Twitch is not told.
CleanupForgets(r) ==
  /\ Running(r, {"unsubscribe"})
  /\ req' = [req EXCEPT ![r].pc = "uncache", ![r].todo = {}]
  /\ Fine
  /\ UNCHANGED <<linked, channels, rows, oauth_states, history>>

CleanupUnsubscribes(r) ==
  /\ Running(r, {"unsubscribe"})
  /\ hooks' = hooks \ {Hook(r)}
  /\ LET rest == req[r].todo \ {Hook(r)[2]} IN
     req' = [req EXCEPT ![r].todo = rest, ![r].pc = IF rest = {} THEN "uncache" ELSE @]
  /\ Fine
  /\ UNCHANGED <<linked, registered, channel, eventsub, rows, oauth_states, history>>

CleanupUncaches(r) ==
  LET c == req[r].channel IN
  /\ Running(r, {"uncache"})
  /\ rows' = rows \ (Account \X {c})
  /\ strays' = IF Connecting(c) \/ \E h \in hooks \cup eventsub : h[1] = c THEN strays
               ELSE strays \ {c}
  /\ Ends(r)
  /\ Fine
  /\ UNCHANGED <<linked, channels, oauth_states, unheard, unsure>>

\* None of its errors ends the clean-up early, but for the first, which reads as
\* "referenced"; what is left then, no later one looks for.
CleanupFails(r) ==
  /\ Running(r, {"orphaned", "unrecord", "unsubscribe", "uncache"})
  /\ Fault
  /\ IF Running(r, {"orphaned", "uncache"}) THEN Ends(r)
     ELSE req' = [req EXCEPT ![r].pc = "uncache", ![r].todo = {}]
  /\ strays' = strays \cup {req[r].channel}
  /\ UNCHANGED <<linked, channels, rows, oauth_states, unheard, unsure>>

-----------------------------------------------------------------------------
(* Outside requests                                                          *)

register(l) ==
  /\ Spend("env")
  /\ l \notin registered
  /\ registered' = registered \cup {l}
  /\ UNCHANGED <<linked, channel, eventsub, hooks, rows, oauth_states, req, history>>

\* delete_orphan_role_link, in a sync: there is no clean-up.
OrphanDeleted(l) ==
  /\ Spend("env")
  /\ l \in registered
  /\ registered' = registered \ {l}
  /\ Detached(l, NoChannel)
  /\ UNCHANGED <<linked, eventsub, hooks, rows, oauth_states, req, unheard, unsure>>

\* Twitch drops a subscription and says so; the notification may be lost.
Revoked(h) ==
  /\ Fault
  /\ h \in hooks
  /\ hooks' = hooks \ {h}
  /\ eventsub' \in {eventsub, eventsub \ {h}}
  /\ unheard' = unheard \cup {h}
  /\ UNCHANGED <<linked, registered, channel, rows, oauth_states, req, strays, unsure>>

\* cleanup_expired: states that are too old, and rows about channels no link has.
StatesExpire ==
  /\ oauth_states # {}
  /\ oauth_states' \in SUBSET oauth_states
  /\ Fine
  /\ UNCHANGED <<linked, channels, rows, req, history>>

RowsExpire ==
  /\ rows' = {x \in rows : x[2] \in Connected}
  /\ Fine
  /\ UNCHANGED <<linked, channels, oauth_states, req, history>>

ChannelStep(r) ==
  \/ ConnectStores(r) \/ ConnectSeeds(r)
  \/ HookExists(r) \/ HookMissing(r) \/ HookCreated(r) \/ HookRefused(r) \/ HookRecorded(r)
  \/ DetachStores(r) \/ DeleteFindsNothing(r)
  \/ CleanupChecks(r) \/ CleanupUnrecords(r) \/ CleanupUnsubscribes(r) \/ CleanupUncaches(r)

ChannelFault(r) ==
  ConnectFails(r) \/ HookFails(r) \/ RecordFails(r) \/ CleanupFails(r)

ChannelWorld ==
  \/ \E l \in Link :
       \/ \E c \in Channel : ConnectBegins(l, c)
       \/ \E pc \in {"disconnect", "delete"} : DetachBegins(l, pc)
       \/ register(l) \/ OrphanDeleted(l)
  \/ \E h \in hooks : Revoked(h)
  \/ StatesExpire \/ RowsExpire

-----------------------------------------------------------------------------
(* Properties                                                                *)

\* A connected channel has its EventSub subscriptions, or its connect is still to make
\* them, or a cause with a name has cost them: a clean-up that had found the channel
\* abandoned, a failed connect, Twitch.  A channel another link still has keeps its own.
ConnectedIsHeard ==
  \A c \in Connected : \A t \in Type :
    <<c, t>> \in hooks \/ <<c, t>> \in unheard \/ Connecting(c)

\* A channel no link has any more has none, nor a row about one, or somebody is at it, or
\* it was left behind by a cause with a name: another channel connected in its place, its
\* link deleted upstream, a connect that came too late, a clean-up that failed.
AbandonedIsSilent ==
  \A c \in Channel \ Connected :
    \/ \A h \in hooks \cup eventsub : h[1] # c
    \/ c \in strays
    \/ Cleaning(c) \/ Detaching(c)
=============================================================================
