---------------------------- MODULE Connections ----------------------------
(***************************************************************************)
(* Accounts next to channels: twitch_callback and unlink, statement by     *)
(* statement, with the events they send, the worker that takes them and    *)
(* the refresh worker's event, among the requests of Broadcaster.  An      *)
(* account meets a channel in user_channel_cache: both sides seed it.      *)
(***************************************************************************)
EXTENDS Broadcaster, Sequences, SequencesExt

VARIABLES
  unlinking, \* members whose unlink has deleted the row and not yet sent its event
  events,    \* the user sync channel
  served,    \* members who have the role their account's facts earn them
  owed,      \* history: members that were linked and have not unlinked since
  cut        \* history: members whose callback ended, for a cause with a name, between
             \* the old link and the new

accounts == <<unlinking, events, served, owed, cut>>
world    == <<channels, rows, oauth_states, history>>
vars     == <<linked, world, req, budget, accounts>>

Pcs == {"idle", "store", "seed", "exists", "create", "record", "disconnect", "delete",
        "orphaned", "unrecord", "unsubscribe", "uncache",
        "select", "replace", "insert", "populate", "apply"}

RequestState ==
  [pc : Pcs, member : Member \cup {NoMember}, account : Account \cup {NoAccount},
   link : Link \cup {NoLink}, channel : Channel \cup {NoChannel}, todo : SUBSET Type,
   raced : BOOLEAN]

Event == [unlinked : BOOLEAN, member : Member]

LinkPcs    == {"store", "seed", "exists", "create", "record", "disconnect", "delete"}
ChannelPcs == {"store", "seed", "exists", "create", "record",
               "orphaned", "unrecord", "unsubscribe", "uncache"}
AccountPcs == {"select", "replace", "insert", "populate", "apply"}
HookPcs    == {"exists", "create", "record", "unsubscribe"}

TypeOK ==
  /\ linked \in [Member -> Account \cup {NoAccount}]
  /\ registered \subseteq Link
  /\ channel \in [Link -> Channel \cup {NoChannel}]
  /\ rows \subseteq Account \X Channel
  /\ oauth_states \subseteq Member \cup Link
  /\ eventsub \subseteq Channel \X Type /\ hooks \subseteq Channel \X Type
  /\ req \in [Request -> RequestState]
  /\ unheard \subseteq Channel \X Type
  /\ strays \subseteq Channel
  /\ unsure \subseteq Account \X Channel
  /\ budget \in [env : 0..MaxEnv, faults : 0..MaxFaults]
  /\ unlinking \subseteq Member
  /\ events \in Seq(Event)
  /\ served \subseteq Member /\ owed \subseteq Member /\ cut \subseteq Member
  /\ \A l \in Link \ registered : channel[l] = NoChannel
  /\ \A m, n \in Member : linked[m] = linked[n] /\ linked[m] # NoAccount => m = n
  /\ \A r \in Request :
       /\ Running(r, {"idle"}) => req[r] = NoRequest
       /\ Running(r, LinkPcs) => req[r].link \in Link
       /\ Running(r, ChannelPcs) => req[r].channel \in Channel
       /\ Running(r, AccountPcs) => req[r].member \in Member /\ req[r].account \in Account
       /\ Running(r, HookPcs) => req[r].todo # {}

\* Everything is as it should be, with rows left over from accounts no longer linked.
Init ==
  /\ linked \in [Member -> Account \cup {NoAccount}]
  /\ \A m, n \in Member : linked[m] = linked[n] /\ linked[m] # NoAccount => m = n
  /\ registered \in SUBSET Link
  /\ channel \in [Link -> Channel \cup {NoChannel}]
  /\ \A l \in Link \ registered : channel[l] = NoChannel
  /\ rows \in SUBSET (Account \X Connected)
  /\ \A l \in Link : \A m \in Joined[l] :
       linked[m] # NoAccount /\ channel[l] # NoChannel => <<linked[m], channel[l]>> \in rows
  /\ oauth_states = {}
  /\ eventsub = Connected \X Type /\ hooks = eventsub
  /\ req = [r \in Request |-> NoRequest]
  /\ unheard = {} /\ strays = {} /\ unsure = {}
  /\ unlinking = {} /\ events = <<>>
  /\ served = {m \in Member : linked[m] # NoAccount}
  /\ owed = served /\ cut = {}
  /\ budget \in [env : 0..MaxEnv, faults : 0..MaxFaults]

-----------------------------------------------------------------------------
(* twitch_login and connect, twitch_callback                                 *)

\* A state for a member's flow, or for that of a link that exists.
Login(x) ==
  /\ Spend("env")
  /\ x \in Member \cup registered
  /\ oauth_states' = oauth_states \cup {x}
  /\ UNCHANGED <<linked, channels, rows, history, req, accounts>>

\* The state is used up; the code is exchanged for the account it is about.
CallbackBegins(m, acc) ==
  /\ m \in oauth_states
  /\ oauth_states' = oauth_states \ {m}
  /\ Begins([NoRequest EXCEPT !.pc = "select", !.member = m, !.account = acc])
  /\ Fine
  /\ UNCHANGED <<linked, channels, rows, history, accounts>>

LinkedTo(acc) == {m \in Member : linked[m] = acc}

AccountTaken(r) ==
  /\ Running(r, {"select"})
  /\ LinkedTo(req[r].account) \ {req[r].member} # {}
  /\ Ends(r)
  /\ Fine
  /\ UNCHANGED <<linked, world, accounts>>

\* The account is the member's already: its login and the member's name are updated.
AccountKnown(r) ==
  /\ Running(r, {"select"})
  /\ LinkedTo(req[r].account) = {req[r].member}
  /\ Goes(r, "populate")
  /\ Fine
  /\ UNCHANGED <<linked, world, accounts>>

\* Faulty variant: another member's account is found out by the key.
AccountAssumedNew(r) ==
  /\ Running(r, {"select"})
  /\ Goes(r, "replace")
  /\ Fine
  /\ UNCHANGED <<linked, world, accounts>>

AccountNew(r) ==
  /\ Running(r, {"select"})
  /\ LinkedTo(req[r].account) = {}
  /\ Goes(r, "replace")
  /\ Fine
  /\ UNCHANGED <<linked, world, accounts>>

DeleteOldLink(r) ==
  /\ Running(r, {"replace"})
  /\ linked' = [linked EXCEPT ![req[r].member] = NoAccount]
  /\ Goes(r, "insert")
  /\ Fine
  /\ UNCHANGED <<world, accounts>>

\* Faulty variant: there is one key, on discord_id.
InsertableByMember(r) == linked[req[r].member] = NoAccount

Insertable(r) == LinkedTo(req[r].account) = {} /\ linked[req[r].member] = NoAccount

\* Whoever is after the same account has lost it.
Inserted(r) ==
  /\ Running(r, {"insert"})
  /\ Insertable(r)
  /\ linked' = [linked EXCEPT ![req[r].member] = req[r].account]
  /\ owed' = owed \cup {req[r].member}
  /\ cut' = cut \ {req[r].member}
  /\ Fine
  /\ UNCHANGED <<world, unlinking, events, served>>

Proceeds(r, pc) ==
  req' = [s \in Request |->
            IF s = r THEN [req[s] EXCEPT !.pc = pc]
            ELSE IF Running(s, {"replace", "insert"}) /\ req[s].account = req[r].account
                   THEN [req[s] EXCEPT !.raced = TRUE] ELSE req[s]]

\* Faulty variant: an account that has rows is not populated again.
InsertNewLinkOnce(r) ==
  /\ Inserted(r)
  /\ Proceeds(r, IF \E x \in rows : x[1] = req[r].account THEN "apply" ELSE "populate")

InsertNewLink(r) ==
  /\ Inserted(r)
  /\ Proceeds(r, "populate")

\* One of the two UNIQUE keys: the request ends in an error.
InsertRefused(r) ==
  /\ Running(r, {"insert"})
  /\ ~Insertable(r)
  /\ cut' = IF req[r].raced THEN cut \cup {req[r].member} ELSE cut
  /\ Ends(r)
  /\ Fine
  /\ UNCHANGED <<linked, world, unlinking, events, served, owed>>

\* The statements of "select" and "replace" may fail too, and change nothing.
CallbackFails(r) ==
  /\ Running(r, {"select", "replace", "insert"})
  /\ Fault
  /\ cut' = IF Running(r, {"insert"}) THEN cut \cup {req[r].member} ELSE cut
  /\ Ends(r)
  /\ UNCHANGED <<linked, world, unlinking, events, served, owed>>

Earned(r) ==
  {<<req[r].account, channel[l]>> : l \in {k \in Link : req[r].member \in Joined[k]}}
    \cap (Account \X Channel)

\* populate_cache_for_user: a row for every channel of the member's guilds.
Populate(r) ==
  /\ Running(r, {"populate"})
  /\ rows' = rows \cup Earned(r)
  /\ unsure' = unsure \ {x \in Earned(r) : ~Cleaning(x[2])}
  /\ Goes(r, "apply")
  /\ Fine
  /\ UNCHANGED <<linked, channels, oauth_states, unheard, strays, accounts>>

PopulateFails(r) ==
  /\ Running(r, {"populate"})
  /\ Fault
  /\ unsure' = unsure \cup ({req[r].account} \X Channel)
  /\ Ends(r)
  /\ UNCHANGED <<linked, channels, rows, oauth_states, unheard, strays, accounts>>

\* sync_for_user, for the role a linked member has earned.
Synced(m) == IF linked[m] = NoAccount THEN served ELSE served \cup {m}

ApplyInline(r) ==
  /\ Running(r, {"apply"})
  /\ served' = Synced(req[r].member)
  /\ Ends(r)
  /\ Fine
  /\ UNCHANGED <<linked, world, unlinking, events, owed, cut>>

\* No channel could be checked, or the inline sync failed.
SendLinked(r) ==
  /\ Running(r, {"apply"})
  /\ events' = Append(events, [unlinked |-> FALSE, member |-> req[r].member])
  /\ Ends(r)
  /\ Fine
  /\ UNCHANGED <<linked, world, unlinking, served, owed, cut>>

-----------------------------------------------------------------------------
(* unlink, and the user sync worker                                          *)

Unlink(m) ==
  /\ Spend("env")
  /\ linked[m] # NoAccount
  /\ linked' = [linked EXCEPT ![m] = NoAccount]
  /\ owed' = owed \ {m}
  /\ unlinking' = unlinking \cup {m}
  /\ UNCHANGED <<world, req, events, served, cut>>

SendUnlinked(m) ==
  /\ m \in unlinking
  /\ unlinking' = unlinking \ {m}
  /\ events' = Append(events, [unlinked |-> TRUE, member |-> m])
  /\ Fine
  /\ UNCHANGED <<linked, world, req, served, owed, cut>>

WorkerTakes ==
  /\ events # <<>>
  /\ events' = Tail(events)
  /\ LET m == Head(events).member IN
     served' = IF Head(events).unlinked THEN served \ {m} ELSE Synced(m)
  /\ Fine
  /\ UNCHANGED <<linked, world, req, unlinking, owed, cut>>

WorkerFails ==
  /\ events # <<>>
  /\ Fault
  /\ events' = Tail(events)
  /\ UNCHANGED <<linked, world, req, unlinking, served, owed, cut>>

\* A row of the member's account that the refresh worker can poll: about a channel that
\* a link of one of the member's guilds has.
Pollable(m) == \E l \in Link : m \in Joined[l] /\ <<linked[m], channel[l]>> \in rows

Updated(m) == [unlinked |-> FALSE, member |-> m]

\* Faulty variant: an event is sent for a member whose facts have changed.
PollQuietly(m) ==
  /\ Pollable(m)
  /\ Fine
  /\ UNCHANGED <<linked, world, req, accounts>>

\* Every poll sends UserUpdated, whether or not the facts have changed; a second such
\* event while one waits would change nothing and is left out.
Poll(m) ==
  /\ Pollable(m)
  /\ ~Contains(events, Updated(m))
  /\ events' = Append(events, Updated(m))
  /\ Fine
  /\ UNCHANGED <<linked, world, req, unlinking, served, owed, cut>>

-----------------------------------------------------------------------------

\* What is lost with the requests R, which end wherever they are.
Lost(R) ==
  LET At(pcs) == {req[r] : r \in {s \in R : Running(s, pcs)}} IN
  /\ req' = [r \in Request |-> IF r \in R THEN NoRequest ELSE req[r]]
  /\ cut' = cut \cup {q.member : q \in At({"insert"})}
  /\ unsure' = unsure \cup (UNION {{q.account} \X Channel : q \in At({"populate"})})
                      \cup (UNION {Account \X {q.channel} : q \in At({"seed"})})
  /\ unheard' = unheard \cup UNION {{q.channel} \X Type :
                                     q \in At({"seed", "exists", "create", "record"})}
  /\ strays' = strays \cup {q.channel : q \in At({"record", "orphaned", "unrecord",
                                                   "unsubscribe", "uncache"})}

\* A client goes away, and hyper drops its handler where it waits; what a handler has
\* spawned goes on.
Dropped(r) ==
  /\ Fault
  /\ req[r] # NoRequest
  /\ ~Running(r, {"exists", "create", "record"})
  /\ Lost({r})
  /\ UNCHANGED <<linked, channels, rows, oauth_states, unlinking, events, served, owed>>

Restart ==
  /\ Fault
  /\ Lost(Request)
  /\ unlinking' = {}
  /\ events' = <<>>
  /\ UNCHANGED <<linked, channels, rows, oauth_states, served, owed>>

AccountStep(r) ==
  \/ AccountTaken(r) \/ AccountKnown(r) \/ AccountNew(r)
  \/ DeleteOldLink(r) \/ InsertNewLink(r) \/ InsertRefused(r)
  \/ Populate(r) \/ ApplyInline(r) \/ SendLinked(r)

ChannelNext ==
  \/ \E r \in Request : ChannelStep(r) \/ ChannelFault(r)
  \/ ChannelWorld

Next ==
  \/ ChannelNext /\ UNCHANGED accounts
  \/ \E r \in Request :
       AccountStep(r) \/ CallbackFails(r) \/ PopulateFails(r) \/ Dropped(r)
  \/ \E x \in Member \cup Link : Login(x)
  \/ \E m \in Member :
       \/ \E acc \in Account : CallbackBegins(m, acc)
       \/ Unlink(m) \/ SendUnlinked(m) \/ Poll(m)
  \/ WorkerTakes \/ WorkerFails
  \/ Restart

Spec == Init /\ [][Next]_vars

\* The worker takes what is queued, an unlink under way sends its event, and every row
\* is polled again and again.
Fairness ==
  /\ WF_vars(WorkerTakes)
  /\ \A m \in Member : WF_vars(SendUnlinked(m)) /\ SF_vars(Poll(m))

FairSpec == Spec /\ Fairness

-----------------------------------------------------------------------------
(* Properties                                                                *)

Populating(m, c) ==
  \E r \in Request :
    \/ Running(r, {"populate"}) /\ req[r].member = m
    \/ Running(r, {"seed"}) /\ req[r].channel = c /\ m \in Joined[req[r].link]

\* A linked member of a guild with a connected channel has the row from which polls and
\* webhooks work, whichever of the two came first; or one of the two is about to seed it,
\* or a cause with a name has cost it: the gateway, a dropped request, a clean-up that
\* had found the channel abandoned.
CacheComplete ==
  \A l \in Link : \A m \in Joined[l] :
    linked[m] # NoAccount /\ channel[l] # NoChannel =>
      \/ <<linked[m], channel[l]>> \in rows
      \/ <<linked[m], channel[l]>> \in unsure
      \/ Populating(m, channel[l])

\* Only unlink takes a member's account away.  A callback that replaces it, or is turned
\* down, leaves the member linked, unless it ends between the two statements: dropped,
\* failed, or overtaken by another member who took the account meanwhile.
LinkKept ==
  \A m \in owed :
    \/ linked[m] # NoAccount
    \/ m \in cut
    \/ \E r \in Request : Running(r, {"insert"}) /\ req[r].member = m

\* A member who links again right after an unlink, and whom the strip of the old link
\* deprives, has the role again in the end; so has one whose callback failed half-way
\* or whose event was lost: every poll of a row says so.
ServedInTheEnd ==
  \A m \in Member : <>[](linked[m] = NoAccount \/ m \in served \/ ~Pollable(m))
=============================================================================
