----------------------------- MODULE FactCache -----------------------------
(***************************************************************************)
(* Where the facts come from.  The refresh worker polls the entry that is  *)
(* due first, with a token of the channel's owner which it renews once;    *)
(* the OAuth callback polls a user it has just linked; Twitch's webhooks   *)
(* write what they say.  All of them write user_channel_cache, a row per   *)
(* user and channel, and tell the user sync worker.                        *)
(***************************************************************************)
EXTENDS Naturals, FiniteSets

CONSTANTS
  User, Channel, Link,
  NoChannel, NoToken, NoRow, NoEntry,
  Entry,       \* the users and channels there may be a row for
  Active,      \* users that hold a role
  Slow,        \* bound: the entries about which Twitch's API may be slow
  MaxFailures, \* the failures after which the back-off is out of INTERVAL's range (38)
  MaxEnv,      \* bound: what owners, members and Twitch do in a behaviour
  MaxFaults    \* bound: requests, statements and messages lost, and restarts

ASSUME CacheAssumption ==
  /\ NoChannel \notin Channel
  /\ NoToken \notin Channel \X Nat
  /\ Entry \subseteq User \X Channel
  /\ NoEntry \notin Entry
  /\ Active \subseteq User /\ Slow \subseteq Entry
  /\ MaxFailures \in Nat /\ MaxEnv \in Nat /\ MaxFaults \in Nat

Fact   == {"follows", "subscribes"}
Poller == {"worker", "callback"}
\* The n-th pair of access and refresh token that the owner of a channel was given.
Token  == Channel \X Nat
Row    == [facts : SUBSET Fact, due : BOOLEAN, failures : 0..MaxFailures]

ASSUME NoRowAssumption == NoRow \notin Row

VARIABLES
  role_links,  \* the table: broadcaster_id and the tokens
  cache,       \* user_channel_cache
  truth,       \* Twitch: the facts
  behind,      \* Twitch: those its API does not tell reliably yet
  fresh,       \* Twitch: the pairs whose access token is accepted
  alive,       \* Twitch: the pairs whose refresh token is accepted
  minted,      \* Twitch: how many pairs the owner of a channel was given
  refusing,    \* Twitch: channels whose checks are refused for good (a 403)
  inbox,       \* Twitch: notifications still to be delivered
  poll,        \* the locals of the two pollers
  untold,      \* users whose facts changed since an event for them was last sent
  bereft,      \* history: links whose tokens a cause with a name has cost
  budget

twitch == <<truth, behind, fresh, alive, minted, refusing, inbox>>
vars   == <<role_links, cache, twitch, poll, untold, bereft, budget>>

\* unsure is history: the facts that changed since the poll began, and those it asked an
\* API about that was behind on them.
Idle == [pc |-> "idle", entry |-> NoEntry, token |-> NoToken, check |-> "follows", facts |-> {},
         renewed |-> FALSE, failed |-> FALSE, unsure |-> {}]

PollState ==
  [pc : {"idle", "token", "check", "refresh", "store", "erase", "write", "backoff", "tell"},
   entry : Entry \cup {NoEntry}, token : Token \cup {NoToken}, check : Fact, facts : SUBSET Fact,
   renewed : BOOLEAN, failed : BOOLEAN, unsure : SUBSET Fact]

Running(p)   == poll[p].pc # "idle"
OwnerOf(e)   == e[2]
ChannelOf(p) == OwnerOf(poll[p].entry)
At(p, pc)    == poll[p].pc = pc

LinksOf(c) == {l \in Link : role_links[l].channel = c}

TypeOK ==
  /\ role_links \in [Link -> [channel : Channel \cup {NoChannel}, token : Token \cup {NoToken}]]
  /\ cache \in [Entry -> Row \cup {NoRow}]
  /\ truth \in [Entry -> SUBSET Fact] /\ behind \in [Entry -> SUBSET Fact]
  /\ fresh \subseteq alive /\ alive \subseteq Token
  /\ minted \in [Channel -> Nat]
  /\ refusing \subseteq Channel
  /\ inbox \subseteq [entry : Entry, fact : Fact, now : BOOLEAN]
  /\ poll \in [Poller -> PollState]
  /\ untold \subseteq User
  /\ bereft \subseteq Link
  /\ budget \in [env : 0..MaxEnv, faults : 0..MaxFaults]
  /\ \A l \in Link : role_links[l].token # NoToken => role_links[l].token[1] = role_links[l].channel
  /\ \A p \in Poller : poll[p].pc = "idle" => poll[p] = Idle
  /\ \A p \in Poller : Running(p) => poll[p].entry \in Entry
  /\ \A p \in Poller : ~At(p, "idle") /\ ~At(p, "token")
       => poll[p].token # NoToken /\ poll[p].token[1] = ChannelOf(p)
  /\ \A t \in alive : t[2] <= minted[t[1]]
  /\ poll["callback"].pc \in {"idle", "check", "write", "tell"}

\* Links connected and not, the cache of the connected channels filled and right.
Init ==
  /\ minted = [c \in Channel |-> 1]
  /\ alive = Channel \X {1}
  /\ fresh = alive
  /\ role_links \in [Link -> {[channel |-> NoChannel, token |-> NoToken]}
                              \cup {[channel |-> c, token |-> <<c, 1>>] : c \in Channel}]
  /\ truth \in [Entry -> SUBSET Fact]
  /\ behind = [e \in Entry |-> {}]
  /\ cache = [e \in Entry |-> IF LinksOf(OwnerOf(e)) = {} THEN NoRow
                              ELSE [facts |-> truth[e], due |-> FALSE, failures |-> 0]]
  /\ refusing = {} /\ inbox = {}
  /\ poll = [p \in Poller |-> Idle]
  /\ untold = {} /\ bereft = {}
  /\ budget \in [env : 0..MaxEnv, faults : 0..MaxFaults]

Spend(kind) ==
  /\ budget[kind] > 0
  /\ budget' = [budget EXCEPT ![kind] = @ - 1]

\* A step that may go wrong: it costs a fault.
Fault == Spend("faults")
Fine  == UNCHANGED budget

-----------------------------------------------------------------------------
(* Which entry, and with which token                                         *)

IsDue(e) == cache[e] # NoRow /\ cache[e].due

\* is_active DESC, fetch_failures ASC.
Before(d, e) ==
  \/ d[1] \in Active /\ e[1] \notin Active
  \/ (d[1] \in Active <=> e[1] \in Active) /\ cache[d].failures < cache[e].failures

\* Faulty variant: entries that failed are not looked at again.
PickHealthy(e) ==
  /\ At("worker", "idle")
  /\ IsDue(e) /\ cache[e].failures = 0
  /\ poll' = [poll EXCEPT !["worker"].pc = "token", !["worker"].entry = e]
  /\ Fine
  /\ UNCHANGED <<role_links, cache, twitch, untold, bereft>>

\* The next stale entry; which of equals, next_fetch_at decides.
Pick(e) ==
  /\ At("worker", "idle")
  /\ IsDue(e)
  /\ \A d \in Entry : IsDue(d) => ~Before(d, e)
  /\ poll' = [poll EXCEPT !["worker"].pc = "token", !["worker"].entry = e]
  /\ Fine
  /\ UNCHANGED <<role_links, cache, twitch, untold, bereft>>

Goes(p, pc)  == poll' = [poll EXCEPT ![p].pc = pc]
Stops(p)     == poll' = [poll EXCEPT ![p] = Idle]
Works(pc, e) == At("worker", pc) /\ e = poll["worker"].entry

\* The tokens of the channel: of any link that has some.
TokensOf(c) == {role_links[l].token : l \in LinksOf(c)} \ {NoToken}

ReadToken(e) ==
  /\ Works("token", e)
  /\ \E t \in TokensOf(OwnerOf(e)) :
       poll' = [poll EXCEPT !["worker"].token = t, !["worker"].pc = "check"]
  /\ Fine
  /\ UNCHANGED <<role_links, cache, twitch, untold, bereft>>

\* No token: the entry is due again in an hour.
FindsNoToken(e) ==
  /\ Works("token", e)
  /\ TokensOf(OwnerOf(e)) = {}
  /\ cache' = IF cache[e] = NoRow THEN cache ELSE [cache EXCEPT ![e].due = FALSE]
  /\ Stops("worker")
  /\ Fine
  /\ UNCHANGED <<role_links, twitch, untold, bereft>>

ReadTokenFails(e) ==
  /\ Works("token", e)
  /\ Fault
  /\ Stops("worker")
  /\ UNCHANGED <<role_links, cache, twitch, untold, bereft>>

\* twitch_callback's inline check of a user's channel, with the token read up front.
CallbackBegins(e) ==
  /\ At("callback", "idle")
  /\ cache[e] # NoRow
  /\ Spend("env")
  /\ \E t \in TokensOf(OwnerOf(e)) :
       poll' = [poll EXCEPT !["callback"] =
                  [Idle EXCEPT !.pc = "check", !.entry = e, !.token = t, !.renewed = TRUE]]
  /\ UNCHANGED <<role_links, cache, twitch, untold, bereft>>

-----------------------------------------------------------------------------
(* check_follower and check_subscription, and refresh_token between them     *)

Accepts(p) == poll[p].token \in fresh

\* After a check: the other one, which is asked whatever came of the first; then the
\* cache.  The callback leaves the row of a check that failed to the worker.
Proceeds(p, new) ==
  poll' = [poll EXCEPT ![p] =
    [new EXCEPT !.check = "subscribes",
                !.pc = IF poll[p].check = "follows" THEN "check"
                       ELSE IF ~new.failed THEN "write"
                       ELSE IF p = "worker" THEN "backoff" ELSE "tell"]]

\* What the API says of a fact: what is so; or either, when it is briefly slow to surface
\* a change.
Says(e, f) == IF f \in behind[e] THEN SUBSET {f} ELSE {truth[e] \cap {f}}

Answered(p) ==
  LET e == poll[p].entry
      f == poll[p].check
  IN
  /\ At(p, "check")
  /\ Accepts(p) /\ ChannelOf(p) \notin refusing
  /\ \E says \in Says(e, f) :
       Proceeds(p, [poll[p] EXCEPT !.facts = @ \cup says,
                                   !.unsure = @ \cup (behind[e] \cap {f})])
  /\ Fine
  /\ UNCHANGED <<role_links, cache, twitch, untold, bereft>>

\* Faulty variant: a subscription that cannot be checked is none.
CheckFailsAsNone(p) ==
  /\ At(p, "check")
  /\ Proceeds(p, [poll[p] EXCEPT !.failed = @ \/ poll[p].check = "follows"])
  /\ UNCHANGED <<role_links, cache, twitch, untold, bereft>>

CheckFails(p) ==
  /\ At(p, "check")
  /\ Proceeds(p, [poll[p] EXCEPT !.failed = TRUE])
  /\ UNCHANGED <<role_links, cache, twitch, untold, bereft>>

\* is_twitch_unauthorized: the worker renews its token, once in a poll.
Renews(p) ==
  /\ At(p, "check")
  /\ ~poll[p].renewed
  /\ poll' = [poll EXCEPT ![p].pc = "refresh", ![p].renewed = TRUE]
  /\ UNCHANGED <<role_links, cache, twitch, untold, bereft>>

\* 401.
Unauthorized(p) ==
  /\ Renews(p) \/ (poll[p].renewed /\ CheckFails(p))
  /\ ~Accepts(p)
  /\ Fine

\* An answer that says no for good, or none at all.
Refused(p) == CheckFails(p) /\ Accepts(p) /\ ChannelOf(p) \in refusing /\ Fine
Unheard(p) == Fault /\ CheckFails(p)

\* The text of a transport error holds the request's URL and with it two ids: "401" in
\* one of them, and any such error is an expired token.
LooksUnauthorized(p) == Fault /\ Renews(p)

\* Twitch gives out a new pair and drops the old one.
Rotate(c) ==
  /\ minted' = [minted EXCEPT ![c] = @ + 1]
  /\ alive' = (alive \ {poll["worker"].token}) \cup {<<c, minted[c] + 1>>}
  /\ fresh' = (fresh \ {poll["worker"].token}) \cup {<<c, minted[c] + 1>>}

Refreshed ==
  LET c == ChannelOf("worker") IN
  /\ At("worker", "refresh")
  /\ poll["worker"].token \in alive
  /\ Rotate(c)
  /\ poll' = [poll EXCEPT !["worker"].pc = "store", !["worker"].token = <<c, minted[c] + 1>>]
  /\ Fine
  /\ UNCHANGED <<role_links, cache, truth, behind, refusing, inbox, untold, bereft>>

RefreshRefused ==
  /\ At("worker", "refresh")
  /\ poll["worker"].token \notin alive
  /\ Goes("worker", "erase")
  /\ Fine
  /\ UNCHANGED <<role_links, cache, twitch, untold, bereft>>

\* No answer, which is an error like the others; Twitch may have renewed the token.
RefreshFails ==
  LET c == ChannelOf("worker") IN
  /\ At("worker", "refresh")
  /\ Fault
  /\ Goes("worker", "erase")
  /\ \/ UNCHANGED <<fresh, alive, minted>>
     \/ poll["worker"].token \in alive /\ Rotate(c)
  /\ bereft' = bereft \cup LinksOf(c)
  /\ UNCHANGED <<role_links, cache, truth, behind, refusing, inbox, untold>>

\* Faulty variant: only the link the token came from gets the new one.
StoreTokenOnce ==
  LET c == ChannelOf("worker") IN
  /\ At("worker", "store")
  /\ \E m \in LinksOf(c) :
       role_links' = [role_links EXCEPT ![m].token = poll["worker"].token]
  /\ bereft' = IF poll["worker"].token \in alive THEN bereft ELSE bereft \cup LinksOf(c)
  /\ Goes("worker", "check")
  /\ Fine
  /\ UNCHANGED <<cache, twitch, untold>>

\* Every link of the channel gets the new pair, which its owner may have revoked by now.
StoreToken ==
  LET c == ChannelOf("worker") IN
  /\ At("worker", "store")
  /\ role_links' = [l \in Link |-> IF l \in LinksOf(c)
                                     THEN [role_links[l] EXCEPT !.token = poll["worker"].token]
                                     ELSE role_links[l]]
  /\ bereft' = IF poll["worker"].token \in alive THEN bereft ELSE bereft \cup LinksOf(c)
  /\ Goes("worker", "check")
  /\ Fine
  /\ UNCHANGED <<cache, twitch, untold>>

\* The UPDATE's error is ignored; the worker goes on with the new token.
StoreFails ==
  /\ At("worker", "store")
  /\ Fault
  /\ bereft' = bereft \cup LinksOf(ChannelOf("worker"))
  /\ Goes("worker", "check")
  /\ UNCHANGED <<role_links, cache, twitch, untold>>

Fails == Proceeds("worker", [poll["worker"] EXCEPT !.failed = TRUE])

\* Every link of the channel loses its pair, whichever that is by now.
EraseToken ==
  LET c == ChannelOf("worker") IN
  /\ At("worker", "erase")
  /\ role_links' = [l \in Link |-> IF l \in LinksOf(c)
                                     THEN [role_links[l] EXCEPT !.token = NoToken]
                                     ELSE role_links[l]]
  /\ bereft' = bereft \cup {l \in LinksOf(c) : role_links[l].token # poll["worker"].token}
  /\ Fails
  /\ Fine
  /\ UNCHANGED <<cache, twitch, untold>>

EraseFails ==
  /\ At("worker", "erase")
  /\ Fault
  /\ Fails
  /\ UNCHANGED <<role_links, cache, twitch, untold, bereft>>

-----------------------------------------------------------------------------
(* The cache and the event                                                   *)

Noted(e, new) ==
  untold' = IF cache[e] # NoRow /\ cache[e].facts # new THEN untold \cup {e[1]} ELSE untold

\* The row is replaced when it is still there, and the event sent either way.
WriteFacts(p) ==
  LET e == poll[p].entry IN
  /\ At(p, "write")
  /\ cache' = IF cache[e] = NoRow THEN cache
              ELSE [cache EXCEPT ![e] = [facts |-> poll[p].facts, due |-> FALSE, failures |-> 0]]
  /\ Noted(e, poll[p].facts)
  /\ Goes(p, "tell")
  /\ Fine
  /\ UNCHANGED <<role_links, twitch, bereft>>

\* The worker goes to the next entry; the callback has an event to send.
WriteFails(p) ==
  /\ At(p, "write")
  /\ Fault
  /\ IF p = "worker" THEN Stops(p) ELSE Goes(p, "tell")
  /\ UNCHANGED <<role_links, cache, twitch, untold, bereft>>

\* LEAST caps the product of the interval and POWER(2, fetch_failures), when there is one.
BackOff(e) ==
  /\ Works("backoff", e)
  /\ cache' = IF cache[e] = NoRow \/ cache[e].failures = MaxFailures THEN cache
              ELSE [cache EXCEPT ![e].due = FALSE, ![e].failures = @ + 1]
  /\ Stops("worker")
  /\ Fine
  /\ UNCHANGED <<role_links, twitch, untold, bereft>>

BackOffFails(e) ==
  /\ Works("backoff", e)
  /\ Fault
  /\ Stops("worker")
  /\ UNCHANGED <<role_links, cache, twitch, untold, bereft>>

Tell(p) ==
  /\ At(p, "tell")
  /\ untold' = untold \ {poll[p].entry[1]}
  /\ Stops(p)
  /\ Fine
  /\ UNCHANGED <<role_links, cache, twitch, bereft>>

\* The user's discord_id cannot be read.
TellFails(p) ==
  /\ At(p, "tell")
  /\ Fault
  /\ Stops(p)
  /\ UNCHANGED <<role_links, cache, twitch, untold, bereft>>

WorkerStep ==
  \/ \E e \in Entry : Pick(e) \/ ReadToken(e) \/ FindsNoToken(e) \/ BackOff(e)
  \/ Refreshed \/ RefreshRefused \/ StoreToken \/ EraseToken

PollStep(p) == Answered(p) \/ Unauthorized(p) \/ Refused(p) \/ WriteFacts(p) \/ Tell(p)

PollFaults ==
  \/ \E e \in Entry : ReadTokenFails(e) \/ BackOffFails(e)
  \/ RefreshFails \/ StoreFails \/ EraseFails
  \/ \E p \in Poller : Unheard(p) \/ LooksUnauthorized(p) \/ WriteFails(p) \/ TellFails(p)

-----------------------------------------------------------------------------
(* Webhooks, and the rest of the world                                       *)

\* handle_follow and handle_subscribe upsert; a subscription's end only updates.
Applied(m) ==
  LET e == m.entry IN
  IF cache[e] = NoRow
    THEN IF m.now THEN [cache EXCEPT ![e] = [facts |-> {m.fact}, due |-> TRUE, failures |-> 0]]
         ELSE cache
    ELSE [cache EXCEPT ![e].facts = IF m.now THEN @ \cup {m.fact} ELSE @ \ {m.fact}]

\* The handler's statements' errors are ignored, and so is one of the user's look-up.
Notify(m) ==
  /\ m \in inbox
  /\ \/ cache' = Applied(m) /\ untold' = untold \ {m.entry[1]} /\ Fine
     \/ Fault /\ cache' = cache /\ untold' = untold \ {m.entry[1]}
     \/ Fault /\ cache' = Applied(m)
        /\ untold' = IF cache' = cache THEN untold ELSE untold \cup {m.entry[1]}
  /\ inbox' = inbox \ {m}
  /\ UNCHANGED <<role_links, truth, behind, fresh, alive, minted, refusing, poll, bereft>>

\* A delivery Twitch takes for lost and repeats.
NotifyTwice(m) ==
  /\ m \in inbox
  /\ Fault
  /\ cache' = Applied(m)
  /\ untold' = untold \ {m.entry[1]}
  /\ UNCHANGED <<role_links, twitch, poll, bereft>>

NotificationLost(m) ==
  /\ m \in inbox
  /\ Fault
  /\ inbox' = inbox \ {m}
  /\ UNCHANGED <<role_links, cache, truth, behind, fresh, alive, minted, refusing, poll, untold, bereft>>

\* A user follows, unfollows, subscribes, or ends a subscription.  Twitch has no
\* notification of an unfollow, and none about channels no link is connected to; and
\* the notification may come before the API tells.
FactChanges(e, f) ==
  LET now == f \notin truth[e] IN
  /\ Spend("env")
  /\ truth' = [truth EXCEPT ![e] = IF now THEN @ \cup {f} ELSE @ \ {f}]
  /\ behind' = IF e \in Slow THEN [behind EXCEPT ![e] = @ \cup {f}] ELSE behind
  /\ inbox' = IF LinksOf(OwnerOf(e)) = {} \/ (f = "follows" /\ ~now) THEN inbox
              ELSE inbox \cup {[entry |-> e, fact |-> f, now |-> now]}
  /\ poll' = [p \in Poller |-> IF Running(p) /\ poll[p].entry = e
                                 THEN [poll[p] EXCEPT !.unsure = @ \cup {f}] ELSE poll[p]]
  /\ UNCHANGED <<role_links, cache, fresh, alive, minted, refusing, untold, bereft>>

CatchesUp(e, f) ==
  /\ f \in behind[e]
  /\ behind' = [behind EXCEPT ![e] = @ \ {f}]
  /\ Fine
  /\ UNCHANGED <<role_links, cache, truth, fresh, alive, minted, refusing, inbox, poll, untold, bereft>>

\* connect_callback stores a new pair and seeds the channel's rows.
Connect(l, c) ==
  /\ Spend("env")
  /\ minted' = [minted EXCEPT ![c] = @ + 1]
  /\ alive' = alive \cup {<<c, minted[c] + 1>>}
  /\ fresh' = fresh \cup {<<c, minted[c] + 1>>}
  /\ role_links' = [role_links EXCEPT ![l] = [channel |-> c, token |-> <<c, minted[c] + 1>>]]
  /\ bereft' = bereft \ {l}
  /\ cache' = [e \in Entry |-> IF OwnerOf(e) = c /\ cache[e] = NoRow
                                 THEN [facts |-> {}, due |-> TRUE, failures |-> 0] ELSE cache[e]]
  /\ UNCHANGED <<truth, behind, refusing, inbox, poll, untold>>

\* Faulty variant: the tokens stay.
DisconnectChannel(l) ==
  /\ Spend("env")
  /\ role_links[l].channel # NoChannel
  /\ role_links' = [role_links EXCEPT ![l].channel = NoChannel]
  /\ cache' = [e \in Entry |-> IF LinksOf(OwnerOf(e)) = {l} THEN NoRow ELSE cache[e]]
  /\ UNCHANGED <<twitch, poll, untold, bereft>>

\* Disconnect, and the clean-up of a channel that was the link's only.
Disconnect(l) ==
  /\ Spend("env")
  /\ role_links[l].channel # NoChannel
  /\ role_links' = [role_links EXCEPT ![l] = [channel |-> NoChannel, token |-> NoToken]]
  /\ cache' = [e \in Entry |-> IF LinksOf(OwnerOf(e)) = {l} THEN NoRow ELSE cache[e]]
  /\ UNCHANGED <<twitch, poll, untold, bereft>>

AccessExpires(c) ==
  /\ Spend("env")
  /\ fresh' = {t \in fresh : t[1] # c}
  /\ UNCHANGED <<role_links, cache, truth, behind, alive, minted, refusing, inbox, poll, untold, bereft>>

\* The owner takes the service's authorization away.
Revoke(c) ==
  /\ Spend("env")
  /\ fresh' = {t \in fresh : t[1] # c}
  /\ alive' = {t \in alive : t[1] # c}
  /\ bereft' = bereft \cup LinksOf(c)
  /\ UNCHANGED <<role_links, cache, truth, behind, minted, refusing, inbox, poll, untold>>

Refuse(c) ==
  /\ Spend("env")
  /\ c \notin refusing
  /\ refusing' = refusing \cup {c}
  /\ UNCHANGED <<role_links, cache, truth, behind, fresh, alive, minted, inbox, poll, untold, bereft>>

\* A member opens the verify page: its rows are due now.
refresh(u) ==
  /\ Spend("env")
  /\ cache' = [e \in Entry |-> IF e[1] = u /\ cache[e] # NoRow
                                 THEN [cache[e] EXCEPT !.due = TRUE] ELSE cache[e]]
  /\ UNCHANGED <<role_links, twitch, poll, untold, bereft>>

Hopeless(e) == cache[e] # NoRow /\ cache[e].failures = MaxFailures

\* CachedInterval stretches the interval with the number of rows, so that a round is
\* over before an entry is due again; except for one that backs off no more.
ComesDue(e) ==
  /\ cache[e] # NoRow /\ ~cache[e].due
  /\ \A d \in Entry : IsDue(d) => Hopeless(d)
  /\ cache' = [cache EXCEPT ![e].due = TRUE]
  /\ Fine
  /\ UNCHANGED <<role_links, twitch, poll, untold, bereft>>

Restart ==
  /\ Fault
  /\ \E p \in Poller : Running(p)
  /\ poll' = [p \in Poller |-> Idle]
  /\ bereft' = IF At("worker", "store") THEN bereft \cup LinksOf(ChannelOf("worker")) ELSE bereft
  /\ UNCHANGED <<role_links, cache, twitch, untold>>

World ==
  \/ \E m \in inbox : Notify(m) \/ NotifyTwice(m) \/ NotificationLost(m)
  \/ \E e \in Entry : CallbackBegins(e) \/ ComesDue(e) \/ \E f \in Fact : FactChanges(e, f) \/ CatchesUp(e, f)
  \/ \E l \in Link : Disconnect(l) \/ \E c \in Channel : Connect(l, c)
  \/ \E c \in Channel : AccessExpires(c) \/ Revoke(c) \/ Refuse(c)
  \/ \E u \in User : refresh(u)

Next ==
  \/ WorkerStep
  \/ \E p \in Poller : PollStep(p)
  \/ PollFaults
  \/ Restart
  \/ World

Spec == Init /\ [][Next]_vars

\* Each poller is a task tokio polls, and its requests have a timeout; time goes on, so
\* every entry comes due; Twitch's API catches up.  Nothing else Twitch, an owner or a member does is owed.
Fairness ==
  /\ WF_vars(WorkerStep \/ PollStep("worker"))
  /\ WF_vars(PollStep("callback"))
  /\ \A e \in Entry : SF_vars(ComesDue(e))
  /\ WF_vars(\E e \in Entry : \E f \in Fact : CatchesUp(e, f))

FairSpec == Spec /\ Fairness

-----------------------------------------------------------------------------
(* Properties                                                                *)

Storing(c) == At("worker", "store") /\ ChannelOf("worker") = c

\* A connected link has a pair Twitch will still renew, the successor of its pair is about
\* to be stored, or a cause with a name has cost it: its owner, a refresh that got no
\* answer, a statement or a restart after it, or an erasure that came after a reconnect.
TokenKept ==
  \A l \in Link \ bereft :
    role_links[l].channel # NoChannel =>
      role_links[l].token \in alive \/ Storing(role_links[l].channel)

Writes(p) == At(p, "write") /\ poll'[p].pc = "tell"

\* What a poll stores is so: a fact is set or cleared wrongly only when it changed after
\* the poll began, or when Twitch's API was still behind on it as the poll asked (a poll
\* begun after the webhook may then undo what that wrote); and a failed check never
\* clears one.
PollTellsTruth ==
  [][\A p \in Poller : Writes(p) =>
       LET e == poll[p].entry IN
       cache'[e] \in {cache[e], NoRow}
         \/ \A f \in Fact \ poll[p].unsure : f \in cache'[e].facts <=> f \in truth[e]]_vars

Crowded(e) ==
  \E d \in Entry \ {e} :
    /\ Hopeless(d) /\ OwnerOf(d) \in refusing
    /\ ~Before(e, d)

\* Whatever webhooks were lost, repeated or overtaken, and whatever polls they raced, the
\* row is in the end what Twitch says and the user sync worker knows; unless there is no
\* row, no token that works, Twitch refuses, or a hopeless entry is always polled first.
FactsConverge ==
  \A e \in Entry :
    <>[](\/ cache[e] = NoRow
         \/ cache[e].facts = truth[e] /\ e[1] \notin untold
         \/ TokensOf(OwnerOf(e)) \cap alive = {}
         \/ OwnerOf(e) \in refusing
         \/ Crowded(e))
=============================================================================
