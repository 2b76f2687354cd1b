--------------------------- MODULE FactCacheProofs ---------------------------
(***************************************************************************)
(* What the pollers, the webhooks and the owners of the channels keep to   *)
(* for every number of users, channels and links: the state is well        *)
(* formed, a poll writes nothing that is not so but for a cause with a     *)
(* name, and no link loses its tokens without one.                         *)
(***************************************************************************)
EXTENDS FactCache, TLAPS

-----------------------------------------------------------------------------
(* The pollers                                                               *)

Checking == {"check", "refresh", "store", "erase"}

\* What TypeOK says of one poller.
GoodPoll(p, q) ==
  /\ q \in PollState
  /\ q.pc = "idle" => q = Idle
  /\ q.pc # "idle" => q.entry \in Entry
  /\ q.pc \notin {"idle", "token"} => q.token # NoToken /\ q.token[1] = OwnerOf(q.entry)
  /\ p = "callback" => q.pc \in {"idle", "check", "write", "tell"}

\* The facts collected so far are so, but for those that changed since or that the API
\* was behind on.
Faithful(q, tr) ==
  /\ q.pc \in {"token"} \cup Checking /\ q.check = "follows" => q.facts = {}
  /\ q.pc \in Checking /\ q.check = "subscribes" /\ ~q.failed =>
       /\ "subscribes" \notin q.facts
       /\ "follows" \in q.unsure \/ ("follows" \in q.facts <=> "follows" \in tr[q.entry])
  /\ q.pc = "write" => \A f \in Fact \ q.unsure : f \in q.facts <=> f \in tr[q.entry]

\* The callback renews nothing; no poller has a pair that nobody was given.
Sound(p, q, tr, mt) ==
  /\ GoodPoll(p, q)
  /\ p = "callback" /\ q.pc # "idle" => q.renewed
  /\ q.pc = "token" => q.check = "follows"
  /\ q.token # NoToken => q.token[2] <= mt[q.token[1]]
  /\ Faithful(q, tr)

PollsSound == \A p \in Poller : Sound(p, poll[p], truth, minted)

\* The rest of TypeOK; no connected link has a pair that nobody was given.
LinksType ==
  /\ role_links \in [Link -> [channel : Channel \cup {NoChannel}, token : Token \cup {NoToken}]]
  /\ \A l \in Link : role_links[l].token # NoToken
       => /\ role_links[l].token[1] = role_links[l].channel
          /\ role_links[l].token[2] <= minted[role_links[l].token[1]]

CacheType == cache \in [Entry -> Row \cup {NoRow}]

TwitchType ==
  /\ truth \in [Entry -> SUBSET Fact] /\ behind \in [Entry -> SUBSET Fact]
  /\ fresh \subseteq alive /\ alive \subseteq Token
  /\ minted \in [Channel -> Nat]
  /\ refusing \subseteq Channel
  /\ inbox \subseteq [entry : Entry, fact : Fact, now : BOOLEAN]
  /\ \A t \in alive : t[2] <= minted[t[1]]

RestType == untold \subseteq User /\ bereft \subseteq Link

BudgetType == budget \in [env : 0..MaxEnv, faults : 0..MaxFaults]

DataType == LinksType /\ CacheType /\ TwitchType /\ RestType /\ BudgetType

Inv == DataType /\ poll \in [Poller -> PollState] /\ PollsSound

LEMMA InvIsTyped == ASSUME Inv PROVE TypeOK
BY DEF Inv, DataType, LinksType, CacheType, TwitchType, RestType, BudgetType,
       PollsSound, Sound, GoodPoll, TypeOK, Running, At, ChannelOf, Poller

\* The poller p goes over to the state s.
Turns(p, s) == s \in PollState /\ poll' = [poll EXCEPT ![p] = s]

Grows == minted' \in [Channel -> Nat] /\ \A c \in Channel : minted[c] <= minted'[c]

LEMMA IdleSound == Idle \in PollState /\ \A p, tr, mt : Sound(p, Idle, tr, mt)
BY DEF Idle, PollState, Sound, GoodPoll, Faithful, Checking, Fact

LEMMA SoundStays ==
  ASSUME Inv, NEW p \in Poller, NEW q, Sound(p, q, truth, minted), Grows
  PROVE  Sound(p, q, truth, minted')
<1>1. ASSUME q.token # NoToken PROVE q.token[2] <= minted'[q.token[1]]
  <2>1. q.token \in Channel \X Nat
    BY <1>1 DEF Sound, GoodPoll, PollState, Token
  <2>2. q.token[2] <= minted[q.token[1]]
    BY <1>1 DEF Sound
  <2>3. q.token[1] \in Channel /\ q.token[2] \in Nat
    BY <2>1
  <2> QED BY <2>2, <2>3 DEF Inv, DataType, TwitchType, Grows
<1> QED BY <1>1 DEF Sound

\* A step of one poller.
LEMMA PollsTurn ==
  ASSUME Inv, NEW p \in Poller, NEW s, Turns(p, s), Sound(p, s, truth, minted'),
         truth' = truth, Grows
  PROVE  poll' \in [Poller -> PollState] /\ PollsSound'
<1>1. poll' = [poll EXCEPT ![p] = s] /\ s \in PollState
  BY DEF Turns
<1>2. \A q \in Poller \ {p} : poll'[q] = poll[q] /\ Sound(q, poll[q], truth, minted')
  BY <1>1, SoundStays DEF Inv, PollsSound
<1>3. poll'[p] = s
  BY <1>1 DEF Inv
<1>4. \A q \in Poller : Sound(q, poll'[q], truth, minted')
  BY <1>2, <1>3
<1> QED BY <1>1, <1>4 DEF Inv, PollsSound

LEMMA PollsStop ==
  ASSUME Inv, NEW p \in Poller, Stops(p), truth' = truth, minted' = minted
  PROVE  poll' \in [Poller -> PollState] /\ PollsSound'
<1>1. Turns(p, Idle) /\ Sound(p, Idle, truth, minted')
  BY IdleSound DEF Turns, Stops
<1>2. Grows
  BY DEF Inv, DataType, TwitchType, Grows
<1> QED BY <1>1, <1>2, PollsTurn

LEMMA PollsRest ==
  ASSUME Inv, poll' = poll, truth' = truth, Grows
  PROVE  poll' \in [Poller -> PollState] /\ PollsSound'
<1>1. \A p \in Poller : Sound(p, poll[p], truth, minted')
  BY SoundStays DEF Inv, PollsSound
<1> QED BY <1>1 DEF Inv, PollsSound

LEMMA PollFields ==
  ASSUME Inv, NEW p \in Poller
  PROVE  Sound(p, poll[p], truth, minted) /\ poll[p] \in PollState
BY DEF Inv, PollsSound

LEMMA GoesTurns ==
  ASSUME Inv, NEW p \in Poller,
         NEW pc \in {"idle", "token", "check", "refresh", "store", "erase", "write", "backoff", "tell"},
         Goes(p, pc)
  PROVE  \E s : /\ Turns(p, s)
                /\ s.pc = pc /\ s.entry = poll[p].entry /\ s.token = poll[p].token
                /\ s.check = poll[p].check /\ s.facts = poll[p].facts
                /\ s.renewed = poll[p].renewed /\ s.failed = poll[p].failed
                /\ s.unsure = poll[p].unsure
<1> DEFINE s == [poll[p] EXCEPT !.pc = pc]
<1>1. poll' = [poll EXCEPT ![p] = s]
  BY DEF Goes
<1>2. /\ s \in PollState
      /\ s.pc = pc /\ s.entry = poll[p].entry /\ s.token = poll[p].token
      /\ s.check = poll[p].check /\ s.facts = poll[p].facts
      /\ s.renewed = poll[p].renewed /\ s.failed = poll[p].failed
      /\ s.unsure = poll[p].unsure
  BY PollFields DEF PollState
<1> HIDE DEF s
<1> QED BY <1>1, <1>2 DEF Turns

\* The next check, with what has been found, or without.
LEMMA ProceedsTurns ==
  ASSUME Inv, NEW p \in Poller, NEW new \in PollState, Proceeds(p, new)
  PROVE  \E s : /\ Turns(p, s)
                /\ s.check = "subscribes"
                /\ s.pc = IF poll[p].check = "follows" THEN "check"
                          ELSE IF ~new.failed THEN "write"
                          ELSE IF p = "worker" THEN "backoff" ELSE "tell"
                /\ s.entry = new.entry /\ s.token = new.token /\ s.facts = new.facts
                /\ s.renewed = new.renewed /\ s.failed = new.failed
                /\ s.unsure = new.unsure
<1> DEFINE pc == IF poll[p].check = "follows" THEN "check"
                 ELSE IF ~new.failed THEN "write"
                 ELSE IF p = "worker" THEN "backoff" ELSE "tell"
           s == [new EXCEPT !.check = "subscribes", !.pc = pc]
<1>1. poll' = [poll EXCEPT ![p] = s]
  BY DEF Proceeds
<1>2. pc \in {"check", "write", "backoff", "tell"} /\ "subscribes" \in Fact
  BY DEF Fact
<1> HIDE DEF pc
<1>3. /\ s \in PollState /\ s.check = "subscribes" /\ s.pc = pc
      /\ s.entry = new.entry /\ s.token = new.token /\ s.facts = new.facts
      /\ s.renewed = new.renewed /\ s.failed = new.failed
      /\ s.unsure = new.unsure
  BY <1>2 DEF PollState
<1> HIDE DEF s
<1> QED BY <1>1, <1>3 DEF Turns, pc

-----------------------------------------------------------------------------
(* How each step leaves the pollers                                          *)

LEMMA PickPolls ==
  ASSUME Inv, NEW e \in Entry, Pick(e)
  PROVE  poll' \in [Poller -> PollState] /\ PollsSound'
<1> DEFINE q == poll["worker"]
           s == [q EXCEPT !.pc = "token", !.entry = e]
<1>1. "worker" \in Poller /\ q = Idle /\ q \in PollState
  BY PollFields DEF Pick, At, Sound, GoodPoll, Poller
<1>2. poll' = [poll EXCEPT !["worker"] = s]
  BY DEF Pick, Inv, Poller
<1>3. /\ s \in PollState /\ s.pc = "token" /\ s.entry = e /\ s.token = q.token
      /\ s.check = q.check /\ s.facts = q.facts
  BY <1>1 DEF PollState
<1>4. q.token = NoToken /\ q.check = "follows" /\ q.facts = {}
  BY <1>1 DEF Idle
<1>5. truth' = truth /\ Grows
  BY DEF Pick, twitch, Inv, DataType, TwitchType, Grows
<1> HIDE DEF q, s
<1>6. Sound("worker", s, truth, minted')
  BY <1>3, <1>4 DEF Sound, GoodPoll, Faithful, Checking
<1> QED BY <1>1, <1>2, <1>3, <1>5, <1>6, PollsTurn DEF Turns

LEMMA TokensAreGiven ==
  ASSUME Inv, NEW c \in Channel, NEW t \in TokensOf(c)
  PROVE  t \in Token /\ t # NoToken /\ t[1] = c /\ t[2] <= minted[t[1]]
BY DEF Inv, DataType, LinksType, TokensOf, LinksOf

LEMMA ReadPolls ==
  ASSUME Inv, NEW e \in Entry, ReadToken(e)
  PROVE  poll' \in [Poller -> PollState] /\ PollsSound'
<1> DEFINE q == poll["worker"]
<1>1. /\ "worker" \in Poller /\ q.pc = "token" /\ e = q.entry /\ q \in PollState
      /\ Sound("worker", q, truth, minted)
  BY PollFields DEF ReadToken, Works, At, Poller
<1>2. OwnerOf(e) \in Channel
  BY CacheAssumption DEF OwnerOf
<1>3. PICK t \in TokensOf(OwnerOf(e)) : poll' = [poll EXCEPT !["worker"].token = t, !["worker"].pc = "check"]
  BY DEF ReadToken
<1> DEFINE s == [q EXCEPT !.token = t, !.pc = "check"]
<1>4. poll' = [poll EXCEPT !["worker"] = s]
  BY <1>3 DEF Inv, Poller
<1>5. t \in Token /\ t # NoToken /\ t[1] = OwnerOf(e) /\ t[2] <= minted[t[1]]
  BY <1>2, TokensAreGiven
<1>6. /\ s \in PollState /\ s.pc = "check" /\ s.entry = e /\ s.token = t
      /\ s.check = q.check /\ s.facts = q.facts
  BY <1>1, <1>5 DEF PollState
<1>7. truth' = truth /\ minted' = minted /\ Grows
  BY DEF ReadToken, twitch, Inv, DataType, TwitchType, Grows
<1>8. q.check = "follows" /\ q.facts = {}
  BY <1>1 DEF Sound, Faithful
<1> HIDE DEF q, s
<1>9. Sound("worker", s, truth, minted')
  BY <1>5, <1>6, <1>7, <1>8 DEF Sound, GoodPoll, Faithful, Checking
<1> QED BY <1>1, <1>4, <1>6, <1>7, <1>9, PollsTurn DEF Turns

LEMMA CallbackPolls ==
  ASSUME Inv, NEW e \in Entry, CallbackBegins(e)
  PROVE  poll' \in [Poller -> PollState] /\ PollsSound'
<1>1. OwnerOf(e) \in Channel /\ "callback" \in Poller
  BY CacheAssumption DEF OwnerOf, Poller
<1>2. PICK t \in TokensOf(OwnerOf(e)) :
        poll' = [poll EXCEPT !["callback"] =
                   [Idle EXCEPT !.pc = "check", !.entry = e, !.token = t, !.renewed = TRUE]]
  BY DEF CallbackBegins
<1> DEFINE s == [Idle EXCEPT !.pc = "check", !.entry = e, !.token = t, !.renewed = TRUE]
<1>3. t \in Token /\ t # NoToken /\ t[1] = OwnerOf(e) /\ t[2] <= minted[t[1]]
  BY <1>1, TokensAreGiven
<1>4. /\ s \in PollState /\ s.pc = "check" /\ s.entry = e /\ s.token = t /\ s.renewed
      /\ s.check = "follows" /\ s.facts = {}
  BY <1>3 DEF PollState, Idle, Fact
<1>5. truth' = truth /\ minted' = minted /\ Grows
  BY DEF CallbackBegins, twitch, Inv, DataType, TwitchType, Grows
<1> HIDE DEF s
<1>6. Sound("callback", s, truth, minted')
  BY <1>3, <1>4, <1>5 DEF Sound, GoodPoll, Faithful, Checking
<1>7. Turns("callback", s)
  BY <1>2, <1>4 DEF Turns, s
<1> QED BY <1>1, <1>5, <1>6, <1>7, PollsTurn

\* What a check finds.
LEMMA AnsweredPolls ==
  ASSUME Inv, NEW p \in Poller, Answered(p)
  PROVE  poll' \in [Poller -> PollState] /\ PollsSound'
<1> DEFINE q == poll[p]
           f == q.check
           D == behind[q.entry] \cap {f}
           New(says) == [q EXCEPT !.facts = @ \cup says, !.unsure = @ \cup D]
<1>1. q \in PollState /\ Sound(p, q, truth, minted) /\ q.pc = "check"
  BY PollFields DEF Answered, At
<1>2. truth' = truth /\ Grows
  BY DEF Answered, twitch, Inv, DataType, TwitchType, Grows
<1>3. /\ q.entry \in Entry /\ q.token # NoToken /\ q.token[1] = OwnerOf(q.entry)
      /\ f \in Fact /\ q.facts \subseteq Fact /\ q.unsure \subseteq Fact
      /\ p = "callback" => q.renewed
      /\ q.token[2] <= minted[q.token[1]]
  BY <1>1 DEF Sound, GoodPoll, PollState
<1>4. PICK says \in Says(q.entry, f) : Proceeds(p, New(says))
  BY DEF Answered
<1> DEFINE new == New(says)
<1>5. says \subseteq {f} /\ (f \in D \/ (f \in says <=> f \in truth[q.entry]))
  BY <1>4 DEF Says
<1>6. /\ new \in PollState /\ new.facts = q.facts \cup says
      /\ new.entry = q.entry /\ new.token = q.token /\ new.renewed = q.renewed
      /\ new.failed = q.failed /\ new.unsure = q.unsure \cup D
  BY <1>1, <1>3, <1>5 DEF PollState
<1>7. /\ f = "follows" => q.facts = {}
      /\ f = "subscribes" /\ ~q.failed =>
           /\ "subscribes" \notin q.facts
           /\ "follows" \in q.unsure \/ ("follows" \in q.facts <=> "follows" \in truth[q.entry])
  BY <1>1 DEF Sound, Faithful, Checking
<1> HIDE DEF new, New, D
<1>8. PICK s : /\ Turns(p, s)
               /\ s.check = "subscribes"
               /\ s.pc = IF f = "follows" THEN "check"
                         ELSE IF ~new.failed THEN "write"
                         ELSE IF p = "worker" THEN "backoff" ELSE "tell"
               /\ s.entry = new.entry /\ s.token = new.token /\ s.facts = new.facts
               /\ s.renewed = new.renewed /\ s.failed = new.failed
               /\ s.unsure = new.unsure
  BY <1>4, <1>6, ProceedsTurns DEF new
<1> HIDE DEF q
<1>9. Faithful(s, truth)
  <2>1. CASE f = "follows"
    BY <2>1, <1>5, <1>6, <1>7, <1>8 DEF Faithful, Checking, Fact
  <2>2. CASE f = "subscribes"
    BY <2>2, <1>5, <1>6, <1>7, <1>8 DEF Faithful, Checking, Fact
  <2> QED BY <2>1, <2>2, <1>3 DEF Fact
<1>10. GoodPoll(p, s)
  BY <1>3, <1>6, <1>8 DEF GoodPoll, Poller, Turns
<1>11. Sound(p, s, truth, minted)
  BY <1>3, <1>6, <1>8, <1>9, <1>10 DEF Sound
<1>12. Sound(p, s, truth, minted')
  BY <1>2, <1>11, SoundStays
<1> QED BY <1>2, <1>8, <1>12, PollsTurn

\* A check, or the renewal, that failed.
LEMMA FailedPolls ==
  ASSUME Inv, NEW p \in Poller, poll[p].pc \in Checking,
         Proceeds(p, [poll[p] EXCEPT !.failed = TRUE]), truth' = truth, Grows
  PROVE  poll' \in [Poller -> PollState] /\ PollsSound'
<1> DEFINE q   == poll[p]
           new == [q EXCEPT !.failed = TRUE]
<1>1. q \in PollState /\ Sound(p, q, truth, minted)
  BY PollFields
<1>2. /\ q.entry \in Entry /\ q.token # NoToken /\ q.token[1] = OwnerOf(q.entry)
      /\ p = "callback" => q.renewed
      /\ q.token[2] <= minted[q.token[1]]
  BY <1>1 DEF Sound, GoodPoll, Checking
<1>3. /\ new \in PollState /\ new.failed
      /\ new.entry = q.entry /\ new.token = q.token /\ new.renewed = q.renewed
  BY <1>1 DEF PollState
<1>0. Proceeds(p, new)
  OBVIOUS
<1> HIDE DEF new
<1>4. PICK s : /\ Turns(p, s)
               /\ s.check = "subscribes"
               /\ s.pc = IF q.check = "follows" THEN "check"
                         ELSE IF ~new.failed THEN "write"
                         ELSE IF p = "worker" THEN "backoff" ELSE "tell"
               /\ s.entry = new.entry /\ s.token = new.token /\ s.facts = new.facts
               /\ s.renewed = new.renewed /\ s.failed = new.failed
               /\ s.unsure = new.unsure
  BY <1>0, <1>3, ProceedsTurns
<1> HIDE DEF q
<1>5. Faithful(s, truth)
  BY <1>3, <1>4 DEF Faithful, Checking
<1>6. GoodPoll(p, s)
  BY <1>2, <1>3, <1>4 DEF GoodPoll, Poller, Turns
<1>7. Sound(p, s, truth, minted)
  BY <1>2, <1>3, <1>4, <1>5, <1>6 DEF Sound
<1>8. Sound(p, s, truth, minted')
  BY <1>7, SoundStays
<1> QED BY <1>4, <1>8, PollsTurn

\* Any other step on from a check, and from the write to the event.
LEMMA GoesPolls ==
  ASSUME Inv, NEW p \in Poller, NEW pc, Goes(p, pc), truth' = truth, Grows,
         \/ p = "worker" /\ poll[p].pc \in Checking /\ pc \in Checking
         \/ poll[p].pc = "write" /\ pc = "tell"
  PROVE  poll' \in [Poller -> PollState] /\ PollsSound'
<1> DEFINE q == poll[p]
<1>1. q \in PollState /\ Sound(p, q, truth, minted)
  BY PollFields
<1>2. PICK s : /\ Turns(p, s)
               /\ s.pc = pc /\ s.entry = q.entry /\ s.token = q.token
               /\ s.check = q.check /\ s.facts = q.facts
               /\ s.renewed = q.renewed /\ s.failed = q.failed
               /\ s.unsure = q.unsure
  BY GoesTurns DEF Checking
<1> HIDE DEF q
<1>3. Faithful(s, truth)
  BY <1>1, <1>2 DEF Sound, Faithful, Checking, q
<1>4. GoodPoll(p, s)
  BY <1>1, <1>2 DEF Sound, GoodPoll, Checking, Turns, q
<1>5. Sound(p, s, truth, minted)
  BY <1>1, <1>2, <1>3, <1>4 DEF Sound, Checking, q
<1>6. Sound(p, s, truth, minted')
  BY <1>5, SoundStays
<1> QED BY <1>2, <1>6, PollsTurn

LEMMA RenewsPolls ==
  ASSUME Inv, NEW p \in Poller, Renews(p)
  PROVE  /\ poll' \in [Poller -> PollState] /\ PollsSound'
         /\ p = "worker"
<1> DEFINE q == poll[p]
           s == [q EXCEPT !.pc = "refresh", !.renewed = TRUE]
<1>1. q \in PollState /\ Sound(p, q, truth, minted) /\ q.pc = "check" /\ ~q.renewed
  BY PollFields DEF Renews, At
<1>2. p = "worker"
  BY <1>1 DEF Sound, Poller
<1>3. poll' = [poll EXCEPT ![p] = s]
  BY DEF Renews, Inv
<1>4. /\ s \in PollState /\ s.pc = "refresh" /\ s.entry = q.entry /\ s.token = q.token
      /\ s.check = q.check /\ s.facts = q.facts /\ s.failed = q.failed /\ s.unsure = q.unsure
  BY <1>1 DEF PollState
<1>5. truth' = truth /\ Grows
  BY DEF Renews, twitch, Inv, DataType, TwitchType, Grows
<1> HIDE DEF q, s
<1>6. Faithful(s, truth)
  BY <1>1, <1>4 DEF Sound, Faithful, Checking
<1>7. GoodPoll(p, s)
  BY <1>1, <1>2, <1>4 DEF Sound, GoodPoll
<1>8. Sound(p, s, truth, minted)
  BY <1>1, <1>2, <1>4, <1>6, <1>7 DEF Sound
<1>9. Sound(p, s, truth, minted')
  BY <1>5, <1>8, SoundStays
<1>10. Turns(p, s)
  BY <1>3, <1>4 DEF Turns
<1> QED BY <1>2, <1>5, <1>9, <1>10, PollsTurn

\* The new pair is the one given last.
LEMMA RefreshedPolls ==
  ASSUME Inv, Refreshed
  PROVE  poll' \in [Poller -> PollState] /\ PollsSound' /\ Grows
<1> DEFINE q == poll["worker"]
           c == ChannelOf("worker")
           t == <<c, minted[c] + 1>>
           s == [q EXCEPT !.pc = "store", !.token = t]
<1>1. "worker" \in Poller /\ q \in PollState /\ Sound("worker", q, truth, minted) /\ q.pc = "refresh"
  BY PollFields DEF Refreshed, At, Poller
<1>2. q.entry \in Entry /\ c = OwnerOf(q.entry) /\ c \in Channel
  BY <1>1, CacheAssumption DEF Sound, GoodPoll, ChannelOf, OwnerOf
<1>3. minted[c] \in Nat /\ minted' = [minted EXCEPT ![c] = @ + 1] /\ truth' = truth
  BY <1>2 DEF Refreshed, Rotate, Inv, DataType, TwitchType
<1>4. Grows /\ minted'[c] = minted[c] + 1
  BY <1>2, <1>3 DEF Inv, DataType, TwitchType, Grows
<1>5. t \in Token /\ t # NoToken /\ t[1] = c /\ t[2] <= minted'[t[1]]
  BY <1>2, <1>3, <1>4, CacheAssumption DEF Token
<1>6. poll' = [poll EXCEPT !["worker"] = s]
  BY DEF Refreshed, Inv, Poller
<1>7. /\ s \in PollState /\ s.pc = "store" /\ s.entry = q.entry /\ s.token = t
      /\ s.check = q.check /\ s.facts = q.facts /\ s.failed = q.failed /\ s.unsure = q.unsure
  BY <1>1, <1>5 DEF PollState
<1> HIDE DEF q, c, t, s
<1>8. Faithful(s, truth)
  BY <1>1, <1>7 DEF Sound, Faithful, Checking
<1>9. GoodPoll("worker", s)
  BY <1>1, <1>2, <1>5, <1>7 DEF Sound, GoodPoll
<1>10. Sound("worker", s, truth, minted')
  BY <1>5, <1>7, <1>8, <1>9 DEF Sound
<1>11. Turns("worker", s)
  BY <1>6, <1>7 DEF Turns
<1> QED BY <1>1, <1>3, <1>4, <1>10, <1>11, PollsTurn

\* A fact that changes is noted in the polls it makes false.
LEMMA FactPolls ==
  ASSUME Inv, NEW e \in Entry, NEW f \in Fact, FactChanges(e, f)
  PROVE  /\ poll' \in [Poller -> PollState] /\ PollsSound'
         /\ \A p \in Poller : /\ poll'[p].pc = poll[p].pc
                              /\ poll'[p].entry = poll[p].entry
                              /\ poll'[p].token = poll[p].token
<1>1. /\ truth' \in [Entry -> SUBSET Fact]
      /\ \A d \in Entry \ {e} : truth'[d] = truth[d]
      /\ \A g \in Fact \ {f} : g \in truth'[e] <=> g \in truth[e]
  BY DEF FactChanges, Inv, DataType, TwitchType
<1>2. minted' = minted
  BY DEF FactChanges
<1>3. ASSUME NEW p \in Poller
      PROVE  /\ poll'[p] \in PollState /\ Sound(p, poll'[p], truth', minted)
             /\ poll'[p].pc = poll[p].pc
             /\ poll'[p].entry = poll[p].entry
             /\ poll'[p].token = poll[p].token
  <2> DEFINE q == poll[p]
             s == [q EXCEPT !.unsure = @ \cup {f}]
  <2>1. q \in PollState /\ Sound(p, q, truth, minted)
    BY PollFields
  <2>2. poll'[p] = IF q.pc # "idle" /\ q.entry = e THEN s ELSE q
    BY DEF FactChanges, Running
  <2>3. /\ s \in PollState /\ s.pc = q.pc /\ s.entry = q.entry /\ s.token = q.token
        /\ s.check = q.check /\ s.facts = q.facts /\ s.renewed = q.renewed
        /\ s.failed = q.failed /\ s.unsure = q.unsure \cup {f}
    BY <2>1 DEF PollState
  <2> HIDE DEF q, s
  <2>4. CASE q.pc # "idle" /\ q.entry = e
    <3>1. poll'[p] = s
      BY <2>2, <2>4
    <3>2. Faithful(s, truth')
      <4>1. /\ s.pc \in {"token"} \cup Checking /\ s.check = "follows" => s.facts = {}
            /\ s.pc \in Checking /\ s.check = "subscribes" /\ ~s.failed =>
                 /\ "subscribes" \notin s.facts
                 /\ "follows" \in s.unsure \/ ("follows" \in s.facts <=> "follows" \in truth[e])
            /\ s.pc = "write" => \A g \in Fact \ s.unsure : g \in s.facts <=> g \in truth[e]
        BY <2>1, <2>3, <2>4 DEF Sound, Faithful
      <4>2. f \in s.unsure
        BY <2>3
      <4>3. "follows" \in s.unsure \/ ("follows" \in truth'[e] <=> "follows" \in truth[e])
        BY <1>1, <4>2 DEF Fact
      <4>4. \A g \in Fact \ s.unsure : g \in truth'[e] <=> g \in truth[e]
        BY <1>1, <4>2
      <4>5. s.entry = e
        BY <2>3, <2>4
      <4> QED BY <4>1, <4>3, <4>4, <4>5 DEF Faithful
    <3>3. GoodPoll(p, s)
      BY <2>1, <2>3, <2>4 DEF Sound, GoodPoll
    <3>4. Sound(p, s, truth', minted)
      BY <2>1, <2>3, <3>2, <3>3 DEF Sound
    <3> QED BY <2>3, <3>1, <3>4 DEF q
  <2>5. CASE q.pc = "idle"
    <3>1. poll'[p] = q /\ q = Idle
      BY <2>1, <2>2, <2>5 DEF Sound, GoodPoll
    <3> QED BY <2>1, <3>1, IdleSound DEF q
  <2>6. CASE q.pc # "idle" /\ q.entry # e
    <3>1. poll'[p] = q
      BY <2>2, <2>6
    <3>2. truth'[q.entry] = truth[q.entry]
      BY <1>1, <2>1, <2>6 DEF Sound, GoodPoll
    <3>3. Faithful(q, truth')
      BY <2>1, <3>2 DEF Sound, Faithful
    <3> QED BY <2>1, <3>1, <3>3 DEF Sound, q
  <2> QED BY <2>4, <2>5, <2>6
<1>4. poll' \in [Poller -> PollState]
  <2>1. poll' = [p \in Poller |-> poll'[p]]
    BY DEF FactChanges
  <2> QED BY <1>3, <2>1
<1> QED BY <1>2, <1>3, <1>4 DEF PollsSound

-----------------------------------------------------------------------------
(* How each step leaves the data                                             *)

LEMMA BudgetStep ==
  ASSUME Inv, Fine \/ Fault \/ Spend("env")
  PROVE  BudgetType'
BY CacheAssumption DEF Inv, DataType, BudgetType, Fine, Fault, Spend

LEMMA LinksStay ==
  ASSUME Inv, role_links' = role_links, Grows
  PROVE  LinksType'
<1>1. ASSUME NEW l \in Link, role_links[l].token # NoToken
      PROVE  role_links[l].token[2] <= minted'[role_links[l].token[1]]
  <2>1. role_links[l].token \in Channel \X Nat
    BY <1>1 DEF Inv, DataType, LinksType, Token
  <2>2. role_links[l].token[1] \in Channel /\ role_links[l].token[2] \in Nat
    BY <2>1
  <2>3. role_links[l].token[2] <= minted[role_links[l].token[1]]
    BY <1>1 DEF Inv, DataType, LinksType
  <2> QED BY <2>2, <2>3 DEF Inv, DataType, TwitchType, Grows
<1> QED BY <1>1 DEF Inv, DataType, LinksType

LEMMA TwitchStays ==
  ASSUME Inv, UNCHANGED twitch
  PROVE  TwitchType' /\ Grows /\ truth' = truth /\ minted' = minted /\ alive' = alive
BY DEF Inv, DataType, TwitchType, twitch, Grows

\* A step that is a poller's own.
LEMMA DataRests ==
  ASSUME Inv, UNCHANGED <<role_links, cache, twitch, untold, bereft>>,
         Fine \/ Fault \/ Spend("env")
  PROVE  DataType' /\ Grows /\ truth' = truth /\ minted' = minted
<1>1. UNCHANGED twitch
  OBVIOUS
<1> QED BY <1>1, TwitchStays, LinksStay, BudgetStep DEF Inv, DataType, CacheType, RestType

\* A step that leaves the tables but the cache, and Twitch.
LEMMA DataStays ==
  ASSUME Inv, UNCHANGED <<role_links, twitch>>, CacheType', RestType',
         Fine \/ Fault \/ Spend("env")
  PROVE  DataType' /\ Grows /\ truth' = truth /\ minted' = minted
<1>1. UNCHANGED twitch
  OBVIOUS
<1> QED BY <1>1, TwitchStays, LinksStay, BudgetStep DEF DataType

\* A row that is replaced.
LEMMA CacheRow ==
  ASSUME Inv, NEW e \in Entry, NEW row \in Row \cup {NoRow}, cache' = [cache EXCEPT ![e] = row]
  PROVE  CacheType'
BY DEF Inv, DataType, CacheType

LEMMA RowFields ==
  ASSUME Inv, NEW e \in Entry, cache[e] # NoRow
  PROVE  /\ cache[e] \in Row /\ cache[e].facts \subseteq Fact /\ cache[e].due \in BOOLEAN
         /\ cache[e].failures \in 0..MaxFailures
         /\ \A b \in BOOLEAN : [cache[e] EXCEPT !.due = b] \in Row
         /\ \A fs \in SUBSET Fact : [cache[e] EXCEPT !.facts = fs] \in Row
BY DEF Inv, DataType, CacheType, Row

LEMMA NewRow ==
  ASSUME NEW fs \in SUBSET Fact, NEW b \in BOOLEAN
  PROVE  [facts |-> fs, due |-> b, failures |-> 0] \in Row
BY CacheAssumption DEF Row

-----------------------------------------------------------------------------
(* Each step keeps the invariant                                             *)

\* A poller that is at work has an entry, and the entry a channel.
LEMMA AtWork ==
  ASSUME Inv, NEW p \in Poller, poll[p].pc # "idle"
  PROVE  /\ poll[p].entry \in Entry /\ ChannelOf(p) \in Channel
         /\ poll[p].entry[1] \in User
         /\ poll[p].pc # "token" =>
              /\ poll[p].token \in Token /\ poll[p].token # NoToken
              /\ poll[p].token[1] = ChannelOf(p)
              /\ poll[p].token[2] <= minted[poll[p].token[1]]
<1>1. Sound(p, poll[p], truth, minted) /\ poll[p] \in PollState
  BY PollFields
<1>2. poll[p].entry \in Entry
  BY <1>1 DEF Sound, GoodPoll
<1>3. poll[p].token \in Token \cup {NoToken}
  BY <1>1 DEF PollState
<1> QED BY <1>1, <1>2, <1>3, CacheAssumption DEF ChannelOf, OwnerOf, Sound, GoodPoll

LEMMA PickKeeps == ASSUME Inv, NEW e \in Entry, Pick(e) PROVE Inv'
BY PickPolls, DataRests DEF Pick, Inv

LEMMA ReadKeeps == ASSUME Inv, NEW e \in Entry, ReadToken(e) PROVE Inv'
BY ReadPolls, DataRests DEF ReadToken, Inv

LEMMA FindsKeeps == ASSUME Inv, NEW e \in Entry, FindsNoToken(e) PROVE Inv'
<1>1. CacheType'
  BY RowFields, CacheRow DEF FindsNoToken, Inv, DataType, CacheType
<1>2. DataType' /\ truth' = truth /\ minted' = minted
  BY <1>1, DataStays DEF FindsNoToken, Inv, DataType, RestType
<1>3. poll' \in [Poller -> PollState] /\ PollsSound'
  BY <1>2, PollsStop DEF FindsNoToken, Poller
<1> QED BY <1>2, <1>3 DEF Inv

LEMMA StopsKeeps ==
  ASSUME Inv, NEW p \in Poller, Stops(p), Fault,
         UNCHANGED <<role_links, cache, twitch, untold, bereft>>
  PROVE  Inv'
BY PollsStop, DataRests DEF Inv

LEMMA CallbackKeeps == ASSUME Inv, NEW e \in Entry, CallbackBegins(e) PROVE Inv'
BY CallbackPolls, DataRests DEF CallbackBegins, Inv

LEMMA AnsweredKeeps == ASSUME Inv, NEW p \in Poller, Answered(p) PROVE Inv'
BY AnsweredPolls, DataRests DEF Answered, Inv

LEMMA CheckFailsKeeps ==
  ASSUME Inv, NEW p \in Poller, CheckFails(p), Fine \/ Fault
  PROVE  Inv'
<1>1. DataType' /\ truth' = truth /\ Grows
  BY DataRests DEF CheckFails
<1>2. poll' \in [Poller -> PollState] /\ PollsSound'
  BY <1>1, FailedPolls DEF CheckFails, At, Checking
<1> QED BY <1>1, <1>2 DEF Inv

LEMMA RenewsKeeps == ASSUME Inv, NEW p \in Poller, Renews(p), Fine \/ Fault PROVE Inv'
BY RenewsPolls, DataRests DEF Renews, Inv

\* Twitch's new pair.
LEMMA RotateKeeps ==
  ASSUME Inv, poll["worker"].pc = "refresh", Rotate(ChannelOf("worker")),
         UNCHANGED <<truth, behind, refusing, inbox>>
  PROVE  TwitchType' /\ Grows
<1> DEFINE c == ChannelOf("worker")
           t == <<c, minted[c] + 1>>
<1>1. c \in Channel /\ minted[c] \in Nat
  BY AtWork DEF Inv, DataType, TwitchType, Poller
<1>2. minted' = [minted EXCEPT ![c] = @ + 1]
  BY DEF Rotate
<1>3. minted' \in [Channel -> Nat] /\ Grows /\ minted'[c] = minted[c] + 1
  BY <1>1, <1>2 DEF Inv, DataType, TwitchType, Grows
<1>4. t \in Token /\ t[1] = c /\ t[2] <= minted'[t[1]]
  BY <1>1, <1>3 DEF Token
<1>5. /\ alive' = (alive \ {poll["worker"].token}) \cup {t}
      /\ fresh' = (fresh \ {poll["worker"].token}) \cup {t}
  BY DEF Rotate
<1>6. ASSUME NEW u \in alive PROVE u[2] <= minted'[u[1]]
  <2>1. u \in Channel \X Nat
    BY DEF Inv, DataType, TwitchType, Token
  <2>2. u[1] \in Channel /\ u[2] \in Nat
    BY <2>1
  <2>3. u[2] <= minted[u[1]]
    BY DEF Inv, DataType, TwitchType
  <2> QED BY <2>2, <2>3, <1>3 DEF Inv, DataType, TwitchType, Grows
<1> HIDE DEF c, t
<1> QED BY <1>3, <1>4, <1>5, <1>6 DEF Inv, DataType, TwitchType

LEMMA RefreshedKeeps == ASSUME Inv, Refreshed PROVE Inv'
<1>1. poll["worker"].pc = "refresh" /\ Rotate(ChannelOf("worker"))
      /\ UNCHANGED <<truth, behind, refusing, inbox>>
  BY DEF Refreshed, At
<1>2. TwitchType' /\ Grows
  BY <1>1, RotateKeeps
<1>3. LinksType' /\ BudgetType'
  BY <1>2, LinksStay, BudgetStep DEF Refreshed
<1>4. CacheType' /\ RestType'
  BY DEF Refreshed, Inv, DataType, CacheType, RestType
<1> QED BY <1>2, <1>3, <1>4, RefreshedPolls DEF Inv, DataType

LEMMA GoesKeeps ==
  ASSUME Inv, NEW p \in Poller, NEW pc, Goes(p, pc), Fine \/ Fault,
         UNCHANGED <<role_links, cache, twitch, untold, bereft>>,
         \/ p = "worker" /\ poll[p].pc \in Checking /\ pc \in Checking
         \/ poll[p].pc = "write" /\ pc = "tell"
  PROVE  Inv'
BY GoesPolls, DataRests DEF Inv

LEMMA BereftGrows ==
  ASSUME Inv, untold' = untold, NEW L \in SUBSET Link, bereft' = bereft \cup L
  PROVE  RestType'
BY DEF Inv, DataType, RestType

LEMMA RefreshFailsKeeps == ASSUME Inv, RefreshFails PROVE Inv'
<1>1. poll["worker"].pc = "refresh" /\ Goes("worker", "erase")
      /\ UNCHANGED <<truth, behind, refusing, inbox, role_links, cache>> /\ Fault
  BY DEF RefreshFails, At
<1>2. TwitchType' /\ Grows
  <2>1. CASE UNCHANGED <<fresh, alive, minted>>
    <3>1. UNCHANGED twitch
      BY <1>1, <2>1 DEF twitch
    <3> QED BY <3>1, TwitchStays
  <2>2. CASE Rotate(ChannelOf("worker"))
    BY <1>1, <2>2, RotateKeeps
  <2> QED BY <2>1, <2>2 DEF RefreshFails
<1>3. LinksType' /\ BudgetType' /\ CacheType'
  BY <1>1, <1>2, LinksStay, BudgetStep DEF Inv, DataType, CacheType
<1>4. RestType'
  BY BereftGrows DEF RefreshFails, LinksOf
<1>5. poll' \in [Poller -> PollState] /\ PollsSound'
  BY <1>1, <1>2, GoesPolls DEF Checking, Poller
<1> QED BY <1>2, <1>3, <1>4, <1>5 DEF Inv, DataType

\* The links of a channel get a pair of the channel's, or none.
LEMMA LinksGet ==
  ASSUME Inv, NEW c \in Channel, NEW t \in Token \cup {NoToken},
         t # NoToken => t[1] = c /\ t[2] <= minted[c],
         role_links' = [l \in Link |-> IF l \in LinksOf(c)
                                         THEN [role_links[l] EXCEPT !.token = t]
                                         ELSE role_links[l]],
         minted' = minted
  PROVE  LinksType'
<1>1. ASSUME NEW l \in Link
      PROVE  /\ role_links'[l] \in [channel : Channel \cup {NoChannel}, token : Token \cup {NoToken}]
             /\ role_links'[l].token # NoToken
                  => /\ role_links'[l].token[1] = role_links'[l].channel
                     /\ role_links'[l].token[2] <= minted'[role_links'[l].token[1]]
  <2>1. CASE l \in LinksOf(c)
    <3>1. role_links[l].channel = c
      BY <2>1 DEF LinksOf
    <3>2. /\ role_links'[l] \in [channel : Channel \cup {NoChannel}, token : Token \cup {NoToken}]
          /\ role_links'[l].channel = c /\ role_links'[l].token = t
      BY <2>1, <3>1 DEF Inv, DataType, LinksType
    <3> QED BY <3>2
  <2>2. CASE l \notin LinksOf(c)
    BY <2>2 DEF Inv, DataType, LinksType
  <2> QED BY <2>1, <2>2
<1>2. role_links' = [l \in Link |-> role_links'[l]]
  OBVIOUS
<1> QED BY <1>1, <1>2 DEF LinksType

LEMMA StoreKeeps == ASSUME Inv, StoreToken PROVE Inv'
<1>1. poll["worker"].pc = "store" /\ Goes("worker", "check") /\ UNCHANGED <<cache, twitch, untold>>
      /\ Fine
  BY DEF StoreToken, At
<1>2. TwitchType' /\ Grows /\ truth' = truth /\ minted' = minted
  BY <1>1, TwitchStays
<1>3. LinksType'
  BY <1>1, <1>2, AtWork, LinksGet DEF StoreToken, Poller
<1>4. RestType'
  BY BereftGrows DEF StoreToken, LinksOf, Inv, DataType, RestType
<1>5. BudgetType' /\ CacheType'
  BY <1>1, BudgetStep DEF Inv, DataType, CacheType
<1>6. poll' \in [Poller -> PollState] /\ PollsSound'
  BY <1>1, <1>2, GoesPolls DEF Checking, Poller
<1> QED BY <1>2, <1>3, <1>4, <1>5, <1>6 DEF Inv, DataType

LEMMA StoreFailsKeeps == ASSUME Inv, StoreFails PROVE Inv'
<1>1. poll["worker"].pc = "store" /\ Goes("worker", "check")
      /\ UNCHANGED <<role_links, cache, twitch, untold>> /\ Fault
  BY DEF StoreFails, At
<1>2. RestType'
  BY BereftGrows DEF StoreFails, LinksOf
<1>3. DataType' /\ Grows /\ truth' = truth
  BY <1>1, <1>2, DataStays DEF Inv, DataType, CacheType
<1>4. poll' \in [Poller -> PollState] /\ PollsSound'
  BY <1>1, <1>3, GoesPolls DEF Checking, Poller
<1> QED BY <1>3, <1>4 DEF Inv

LEMMA EraseKeeps == ASSUME Inv, EraseToken PROVE Inv'
<1>1. poll["worker"].pc = "erase" /\ Fails /\ UNCHANGED <<cache, twitch, untold>> /\ Fine
  BY DEF EraseToken, At
<1>2. TwitchType' /\ Grows /\ truth' = truth /\ minted' = minted
  BY <1>1, TwitchStays
<1>3. LinksType'
  BY <1>1, <1>2, AtWork, LinksGet DEF EraseToken, Poller
<1>4. RestType'
  BY BereftGrows DEF EraseToken, LinksOf
<1>5. BudgetType' /\ CacheType'
  BY <1>1, BudgetStep DEF Inv, DataType, CacheType
<1>6. poll' \in [Poller -> PollState] /\ PollsSound'
  BY <1>1, <1>2, FailedPolls DEF Fails, Checking, Poller
<1> QED BY <1>2, <1>3, <1>4, <1>5, <1>6 DEF Inv, DataType

LEMMA EraseFailsKeeps == ASSUME Inv, EraseFails PROVE Inv'
<1>1. poll["worker"].pc = "erase" /\ Fails
      /\ UNCHANGED <<role_links, cache, twitch, untold, bereft>> /\ Fault
  BY DEF EraseFails, At
<1>2. DataType' /\ Grows /\ truth' = truth
  BY <1>1, DataRests
<1>3. poll' \in [Poller -> PollState] /\ PollsSound'
  BY <1>1, <1>2, FailedPolls DEF Fails, Checking, Poller
<1> QED BY <1>2, <1>3 DEF Inv

LEMMA WriteKeeps == ASSUME Inv, NEW p \in Poller, WriteFacts(p) PROVE Inv'
<1> DEFINE e  == poll[p].entry
           fs == poll[p].facts
<1>1. /\ poll[p].pc = "write" /\ Goes(p, "tell") /\ UNCHANGED <<role_links, twitch, bereft>> /\ Fine
      /\ cache' = IF cache[e] = NoRow THEN cache
                  ELSE [cache EXCEPT ![e] = [facts |-> fs, due |-> FALSE, failures |-> 0]]
      /\ untold' \in {untold, untold \cup {e[1]}}
  BY DEF WriteFacts, At, Noted
<1>2. e \in Entry /\ e[1] \in User
  BY <1>1, AtWork
<1>3. fs \in SUBSET Fact
  BY PollFields DEF PollState
<1> HIDE DEF e, fs
<1>4. CacheType'
  BY <1>1, <1>2, <1>3, NewRow, CacheRow DEF Inv, DataType, CacheType
<1>5. RestType'
  BY <1>1, <1>2 DEF Inv, DataType, RestType
<1>6. DataType' /\ Grows /\ truth' = truth
  BY <1>1, <1>4, <1>5, DataStays
<1>7. poll' \in [Poller -> PollState] /\ PollsSound'
  BY <1>1, <1>6, GoesPolls
<1> QED BY <1>6, <1>7 DEF Inv

LEMMA WriteFailsKeeps == ASSUME Inv, NEW p \in Poller, WriteFails(p) PROVE Inv'
<1>1. CASE Stops(p)
  BY <1>1, StopsKeeps DEF WriteFails
<1>2. CASE Goes(p, "tell")
  BY <1>2, GoesKeeps DEF WriteFails, At
<1> QED BY <1>1, <1>2 DEF WriteFails

LEMMA BackOffKeeps == ASSUME Inv, NEW e \in Entry, BackOff(e) PROVE Inv'
<1>1. Stops("worker") /\ Fine /\ UNCHANGED <<role_links, twitch, untold, bereft>>
  BY DEF BackOff
<1>2. CacheType'
  <2>1. CASE cache' = cache
    BY <2>1 DEF Inv, DataType, CacheType
  <2>2. CASE /\ cache[e] # NoRow /\ cache[e].failures # MaxFailures
             /\ cache' = [cache EXCEPT ![e].due = FALSE, ![e].failures = @ + 1]
    <3> DEFINE row == [cache[e] EXCEPT !.due = FALSE, !.failures = @ + 1]
    <3>1. cache[e] \in Row /\ cache[e].failures + 1 \in 0..MaxFailures
      BY <2>2, RowFields, CacheAssumption
    <3>2. row \in Row
      BY <3>1 DEF Row
    <3>3. cache' = [cache EXCEPT ![e] = row]
      BY <2>2 DEF Inv, DataType, CacheType
    <3> HIDE DEF row
    <3> QED BY <3>2, <3>3, CacheRow
  <2> QED BY <2>1, <2>2 DEF BackOff
<1>3. DataType' /\ truth' = truth /\ minted' = minted
  BY <1>1, <1>2, DataStays DEF Inv, DataType, RestType
<1>4. poll' \in [Poller -> PollState] /\ PollsSound'
  BY <1>1, <1>3, PollsStop DEF Poller
<1> QED BY <1>3, <1>4 DEF Inv

LEMMA TellKeeps == ASSUME Inv, NEW p \in Poller, Tell(p) PROVE Inv'
<1>1. RestType'
  BY DEF Tell, Inv, DataType, RestType
<1>2. DataType' /\ truth' = truth /\ minted' = minted
  BY <1>1, DataStays DEF Tell, Inv, DataType, CacheType
<1>3. poll' \in [Poller -> PollState] /\ PollsSound'
  BY <1>2, PollsStop DEF Tell
<1> QED BY <1>2, <1>3 DEF Inv

\* What a webhook does to the cache.
LEMMA AppliedType ==
  ASSUME Inv, NEW m \in inbox
  PROVE  /\ Applied(m) \in [Entry -> Row \cup {NoRow}]
         /\ m.entry \in Entry /\ m.entry[1] \in User
<1> DEFINE e == m.entry
<1>1. e \in Entry /\ m.fact \in Fact /\ m.now \in BOOLEAN
  BY DEF Inv, DataType, TwitchType
<1>2. e[1] \in User
  BY <1>1, CacheAssumption
<1>3. cache \in [Entry -> Row \cup {NoRow}]
  BY DEF Inv, DataType, CacheType
<1>4. CASE cache[e] = NoRow
  <2> DEFINE row == [facts |-> {m.fact}, due |-> TRUE, failures |-> 0]
  <2>1. row \in Row
    BY <1>1, NewRow
  <2>2. Applied(m) = IF m.now THEN [cache EXCEPT ![e] = row] ELSE cache
    BY <1>4 DEF Applied
  <2> HIDE DEF row
  <2> QED BY <1>1, <1>2, <1>3, <2>1, <2>2
<1>5. CASE cache[e] # NoRow
  <2> DEFINE fs  == IF m.now THEN cache[e].facts \cup {m.fact} ELSE cache[e].facts \ {m.fact}
             row == [cache[e] EXCEPT !.facts = fs]
  <2>1. fs \in SUBSET Fact
    BY <1>1, <1>5, RowFields
  <2>2. row \in Row
    BY <1>1, <1>5, <2>1, RowFields
  <2>3. Applied(m) = [cache EXCEPT ![e] = row]
    BY <1>1, <1>3, <1>5 DEF Applied
  <2> HIDE DEF row
  <2> QED BY <1>1, <1>2, <1>3, <2>2, <2>3
<1> QED BY <1>1, <1>2, <1>4, <1>5

\* A step of the world that leaves the pollers to themselves.
LEMMA WorldKeeps ==
  ASSUME Inv, poll' = poll, truth' = truth, Grows, DataType'
  PROVE  Inv'
BY PollsRest DEF Inv

LEMMA InboxShrinks ==
  ASSUME Inv, UNCHANGED <<role_links, truth, behind, fresh, alive, minted, refusing, poll>>,
         inbox' \subseteq inbox, CacheType', RestType', Fine \/ Fault
  PROVE  Inv'
<1>1. TwitchType' /\ Grows
  BY DEF Inv, DataType, TwitchType, Grows
<1>2. LinksType' /\ BudgetType'
  BY <1>1, LinksStay, BudgetStep
<1> QED BY <1>1, <1>2, WorldKeeps DEF DataType

LEMMA NotifyKeeps == ASSUME Inv, NEW m \in inbox, Notify(m) PROVE Inv'
<1>1. CacheType'
  BY AppliedType DEF Notify, Inv, DataType, CacheType
<1>2. RestType'
  BY AppliedType DEF Notify, Inv, DataType, RestType
<1>3. inbox' \subseteq inbox /\ (Fine \/ Fault)
      /\ UNCHANGED <<role_links, truth, behind, fresh, alive, minted, refusing, poll>>
  BY DEF Notify
<1> QED BY <1>1, <1>2, <1>3, InboxShrinks

LEMMA NotifyTwiceKeeps == ASSUME Inv, NEW m \in inbox, NotifyTwice(m) PROVE Inv'
<1>1. CacheType'
  BY AppliedType DEF NotifyTwice, CacheType
<1>2. RestType'
  BY AppliedType DEF NotifyTwice, Inv, DataType, RestType
<1>3. DataType' /\ Grows /\ truth' = truth
  BY <1>1, <1>2, DataStays DEF NotifyTwice
<1> QED BY <1>3, WorldKeeps DEF NotifyTwice

LEMMA LostKeeps == ASSUME Inv, NEW m \in inbox, NotificationLost(m) PROVE Inv'
<1>1. CacheType' /\ RestType'
  BY DEF NotificationLost, Inv, DataType, CacheType, RestType
<1> QED BY <1>1, InboxShrinks DEF NotificationLost

LEMMA FactKeeps ==
  ASSUME Inv, NEW e \in Entry, NEW f \in Fact, FactChanges(e, f)
  PROVE  Inv'
<1>1. truth' \in [Entry -> SUBSET Fact]
  <2>1. truth[e] \subseteq Fact
    BY DEF Inv, DataType, TwitchType
  <2> QED BY <2>1 DEF FactChanges, Inv, DataType, TwitchType
<1>2. behind' \in [Entry -> SUBSET Fact]
  <2>1. behind[e] \subseteq Fact
    BY DEF Inv, DataType, TwitchType
  <2> QED BY <2>1 DEF FactChanges, Inv, DataType, TwitchType
<1>3. inbox' \subseteq [entry : Entry, fact : Fact, now : BOOLEAN]
  <2> DEFINE m == [entry |-> e, fact |-> f, now |-> f \notin truth[e]]
  <2>1. m \in [entry : Entry, fact : Fact, now : BOOLEAN]
    OBVIOUS
  <2>2. inbox' \in {inbox, inbox \cup {m}}
    BY DEF FactChanges
  <2> HIDE DEF m
  <2> QED BY <2>1, <2>2 DEF Inv, DataType, TwitchType
<1>4. UNCHANGED <<role_links, cache, fresh, alive, minted, refusing, untold, bereft>> /\ Spend("env")
  BY DEF FactChanges
<1>5. TwitchType' /\ Grows
  BY <1>1, <1>3, <1>4, <1>2 DEF Inv, DataType, TwitchType, Grows
<1>6. LinksType' /\ BudgetType' /\ CacheType' /\ RestType'
  BY <1>4, <1>5, LinksStay, BudgetStep DEF Inv, DataType, CacheType, RestType
<1> QED BY <1>5, <1>6, FactPolls DEF Inv, DataType

LEMMA CatchesUpKeeps ==
  ASSUME Inv, NEW e \in Entry, NEW f \in Fact, CatchesUp(e, f)
  PROVE  Inv'
<1>1. TwitchType' /\ Grows
  BY DEF CatchesUp, Inv, DataType, TwitchType, Grows
<1>2. LinksType' /\ BudgetType' /\ CacheType' /\ RestType'
  BY <1>1, LinksStay, BudgetStep DEF CatchesUp, Inv, DataType, CacheType, RestType
<1> QED BY <1>1, <1>2, WorldKeeps DEF CatchesUp, DataType

LEMMA ConnectKeeps ==
  ASSUME Inv, NEW l \in Link, NEW c \in Channel, Connect(l, c)
  PROVE  Inv'
<1> DEFINE t == <<c, minted[c] + 1>>
<1>1. /\ minted' = [minted EXCEPT ![c] = @ + 1] /\ alive' = alive \cup {t} /\ fresh' = fresh \cup {t}
      /\ role_links' = [role_links EXCEPT ![l] = [channel |-> c, token |-> t]]
      /\ bereft' = bereft \ {l} /\ UNCHANGED <<truth, behind, refusing, inbox, poll, untold>>
      /\ cache' = [e \in Entry |-> IF OwnerOf(e) = c /\ cache[e] = NoRow
                                     THEN [facts |-> {}, due |-> TRUE, failures |-> 0] ELSE cache[e]]
  BY DEF Connect
<1>2. minted[c] \in Nat
  BY DEF Inv, DataType, TwitchType
<1>3. minted' \in [Channel -> Nat] /\ Grows /\ minted'[c] = minted[c] + 1
  BY <1>1, <1>2 DEF Inv, DataType, TwitchType, Grows
<1>4. t \in Token /\ t[1] = c /\ t[2] <= minted'[t[1]]
  BY <1>2, <1>3 DEF Token
<1> HIDE DEF t
<1>5. ASSUME NEW u \in Token, u[2] <= minted[u[1]] PROVE u[2] <= minted'[u[1]]
  <2>1. u \in Channel \X Nat
    BY DEF Token
  <2>2. u[1] \in Channel /\ u[2] \in Nat
    BY <2>1
  <2> QED BY <2>2, <1>3, <1>5 DEF Inv, DataType, TwitchType, Grows
<1>6. TwitchType'
  BY <1>1, <1>3, <1>4, <1>5 DEF Inv, DataType, TwitchType
<1>7. LinksType'
  <2>1. role_links' \in [Link -> [channel : Channel \cup {NoChannel}, token : Token \cup {NoToken}]]
    BY <1>1, <1>4 DEF Inv, DataType, LinksType
  <2>2. ASSUME NEW k \in Link, role_links'[k].token # NoToken
        PROVE  /\ role_links'[k].token[1] = role_links'[k].channel
               /\ role_links'[k].token[2] <= minted'[role_links'[k].token[1]]
    <3>1. CASE k = l
      <4>1. role_links'[k].token = t /\ role_links'[k].channel = c
        BY <1>1, <3>1 DEF Inv, DataType, LinksType
      <4> QED BY <4>1, <1>4
    <3>2. CASE k # l
      <4>1. role_links'[k] = role_links[k]
        BY <1>1, <3>2 DEF Inv, DataType, LinksType
      <4> QED BY <4>1, <2>2, <1>5 DEF Inv, DataType, LinksType
    <3> QED BY <3>1, <3>2
  <2> QED BY <2>1, <2>2 DEF LinksType
<1>8. CacheType'
  BY <1>1, NewRow DEF Inv, DataType, CacheType
<1>9. RestType' /\ BudgetType'
  BY <1>1, BudgetStep DEF Connect, Inv, DataType, RestType
<1> QED BY <1>1, <1>3, <1>6, <1>7, <1>8, <1>9, WorldKeeps DEF DataType

LEMMA DisconnectKeeps == ASSUME Inv, NEW l \in Link, Disconnect(l) PROVE Inv'
<1>1. TwitchType' /\ Grows /\ truth' = truth /\ minted' = minted
  BY TwitchStays DEF Disconnect
<1>2. LinksType'
  BY <1>1 DEF Disconnect, Inv, DataType, LinksType
<1>3. CacheType' /\ RestType' /\ BudgetType'
  BY BudgetStep DEF Disconnect, Inv, DataType, CacheType, RestType
<1> QED BY <1>1, <1>2, <1>3, WorldKeeps DEF Disconnect, DataType

\* Tokens that expire or are revoked, and checks that are refused.
LEMMA TwitchShrinks ==
  ASSUME Inv, UNCHANGED <<role_links, cache, truth, behind, minted, inbox, poll, untold>>,
         fresh' \subseteq alive', alive' \subseteq alive, refusing' \subseteq Channel,
         bereft' \subseteq Link, Spend("env")
  PROVE  Inv'
<1>1. TwitchType' /\ Grows
  BY DEF Inv, DataType, TwitchType, Grows
<1>2. LinksType' /\ BudgetType' /\ CacheType' /\ RestType'
  BY <1>1, LinksStay, BudgetStep DEF Inv, DataType, CacheType, RestType
<1> QED BY <1>1, <1>2, WorldKeeps DEF DataType

LEMMA ExpiresKeeps == ASSUME Inv, NEW c \in Channel, AccessExpires(c) PROVE Inv'
BY TwitchShrinks DEF AccessExpires, Inv, DataType, TwitchType, RestType

LEMMA RevokeKeeps == ASSUME Inv, NEW c \in Channel, Revoke(c) PROVE Inv'
BY TwitchShrinks DEF Revoke, LinksOf, Inv, DataType, TwitchType, RestType

LEMMA RefuseKeeps == ASSUME Inv, NEW c \in Channel, Refuse(c) PROVE Inv'
BY TwitchShrinks DEF Refuse, Inv, DataType, TwitchType, RestType

LEMMA DueKeeps ==
  ASSUME Inv, CacheType', UNCHANGED <<role_links, twitch, poll, untold, bereft>>,
         Fine \/ Spend("env")
  PROVE  Inv'
<1>1. DataType' /\ Grows /\ truth' = truth
  BY DataStays DEF Inv, DataType, RestType
<1> QED BY <1>1, WorldKeeps

LEMMA RefreshKeeps == ASSUME Inv, NEW u \in User, refresh(u) PROVE Inv'
<1>1. \A e \in Entry : cache[e] # NoRow => [cache[e] EXCEPT !.due = TRUE] \in Row
  BY RowFields
<1>2. cache \in [Entry -> Row \cup {NoRow}]
  BY DEF Inv, DataType, CacheType
<1>3. CacheType'
  BY <1>1, <1>2 DEF refresh, CacheType
<1> QED BY <1>3, DueKeeps DEF refresh

LEMMA ComesKeeps == ASSUME Inv, NEW e \in Entry, ComesDue(e) PROVE Inv'
<1>1. [cache[e] EXCEPT !.due = TRUE] \in Row
  BY RowFields DEF ComesDue
<1>2. cache' = [cache EXCEPT ![e] = [cache[e] EXCEPT !.due = TRUE]]
  BY DEF ComesDue
<1>3. CacheType'
  BY <1>1, <1>2, CacheRow
<1> QED BY <1>3, DueKeeps DEF ComesDue

LEMMA RestartKeeps == ASSUME Inv, Restart PROVE Inv'
<1>1. RestType'
  BY DEF Restart, LinksOf, Inv, DataType, RestType
<1>2. DataType' /\ Grows /\ truth' = truth
  BY <1>1, DataStays DEF Restart, Inv, DataType, CacheType
<1>3. poll' = [p \in Poller |-> Idle]
  BY DEF Restart
<1> QED BY <1>2, <1>3, IdleSound DEF Inv, PollsSound

LEMMA InitKeeps == ASSUME Init PROVE Inv
<1>1. poll = [p \in Poller |-> Idle] /\ minted = [c \in Channel |-> 1]
      /\ alive = Channel \X {1} /\ fresh = alive
      /\ role_links \in [Link -> {[channel |-> NoChannel, token |-> NoToken]}
                                  \cup {[channel |-> c, token |-> <<c, 1>>] : c \in Channel}]
  BY DEF Init
<1>2. TwitchType
  BY <1>1 DEF Init, TwitchType, Token
<1>3. LinksType
  <2>1. ASSUME NEW l \in Link
        PROVE  /\ role_links[l] \in [channel : Channel \cup {NoChannel}, token : Token \cup {NoToken}]
               /\ role_links[l].token # NoToken
                    => /\ role_links[l].token[1] = role_links[l].channel
                       /\ role_links[l].token[2] <= minted[role_links[l].token[1]]
    <3>1. CASE role_links[l] = [channel |-> NoChannel, token |-> NoToken]
      BY <3>1
    <3>2. ASSUME NEW c \in Channel, role_links[l] = [channel |-> c, token |-> <<c, 1>>]
          PROVE  /\ role_links[l] \in [channel : Channel \cup {NoChannel}, token : Token \cup {NoToken}]
                 /\ role_links[l].token[1] = role_links[l].channel
                 /\ role_links[l].token[2] <= minted[role_links[l].token[1]]
      <4>1. <<c, 1>> \in Token
        BY DEF Token
      <4>2. role_links[l].token = <<c, 1>> /\ role_links[l].channel = c
        BY <3>2
      <4>3. minted[c] = 1
        BY <1>1
      <4> QED BY <3>2, <4>1, <4>2, <4>3
    <3> QED BY <1>1, <3>1, <3>2
  <2>2. role_links = [l \in Link |-> role_links[l]]
    BY <1>1
  <2> QED BY <2>1, <2>2 DEF LinksType
<1>4. CacheType
  <2>1. \A e \in Entry : [facts |-> truth[e], due |-> FALSE, failures |-> 0] \in Row
    BY <1>2, NewRow DEF TwitchType
  <2> QED BY <2>1 DEF Init, CacheType
<1>5. RestType /\ BudgetType
  BY DEF Init, RestType, BudgetType
<1>6. poll \in [Poller -> PollState] /\ PollsSound
  BY <1>1, IdleSound DEF PollsSound
<1> QED BY <1>2, <1>3, <1>4, <1>5, <1>6 DEF Inv, DataType

LEMMA WorkerKeeps == ASSUME Inv, WorkerStep PROVE Inv'
<1>1. ASSUME NEW e \in Entry, Pick(e) \/ ReadToken(e) \/ FindsNoToken(e) \/ BackOff(e) PROVE Inv'
  BY <1>1, PickKeeps, ReadKeeps, FindsKeeps, BackOffKeeps
<1>2. ASSUME RefreshRefused PROVE Inv'
  BY <1>2, GoesKeeps DEF RefreshRefused, At, Checking, Poller
<1> QED BY <1>1, <1>2, RefreshedKeeps, StoreKeeps, EraseKeeps DEF WorkerStep

LEMMA PollKeeps == ASSUME Inv, NEW p \in Poller, PollStep(p) PROVE Inv'
<1>1. ASSUME Unauthorized(p) PROVE Inv'
  BY <1>1, RenewsKeeps, CheckFailsKeeps DEF Unauthorized
<1>2. ASSUME Refused(p) PROVE Inv'
  BY <1>2, CheckFailsKeeps DEF Refused
<1> QED BY <1>1, <1>2, AnsweredKeeps, WriteKeeps, TellKeeps DEF PollStep

LEMMA FaultsKeep == ASSUME Inv, PollFaults PROVE Inv'
<1>1. "worker" \in Poller
  BY DEF Poller
<1>2. ASSUME NEW e \in Entry, ReadTokenFails(e) PROVE Inv'
  BY <1>1, <1>2, StopsKeeps DEF ReadTokenFails
<1>3. ASSUME NEW e \in Entry, BackOffFails(e) PROVE Inv'
  BY <1>1, <1>3, StopsKeeps DEF BackOffFails
<1>4. ASSUME NEW p \in Poller, Unheard(p) PROVE Inv'
  BY <1>4, CheckFailsKeeps DEF Unheard
<1>5. ASSUME NEW p \in Poller, LooksUnauthorized(p) PROVE Inv'
  BY <1>5, RenewsKeeps DEF LooksUnauthorized
<1>6. ASSUME NEW p \in Poller, TellFails(p) PROVE Inv'
  BY <1>6, StopsKeeps DEF TellFails
<1> QED BY <1>2, <1>3, <1>4, <1>5, <1>6, WriteFailsKeeps, RefreshFailsKeeps, StoreFailsKeeps,
           EraseFailsKeeps DEF PollFaults

LEMMA TheWorldKeeps == ASSUME Inv, World PROVE Inv'
<1>1. ASSUME NEW m \in inbox, Notify(m) \/ NotifyTwice(m) \/ NotificationLost(m) PROVE Inv'
  BY <1>1, NotifyKeeps, NotifyTwiceKeeps, LostKeeps
<1>2. ASSUME NEW e \in Entry, CallbackBegins(e) \/ ComesDue(e) PROVE Inv'
  BY <1>2, CallbackKeeps, ComesKeeps
<1>3. ASSUME NEW e \in Entry, NEW f \in Fact, FactChanges(e, f) \/ CatchesUp(e, f) PROVE Inv'
  BY <1>3, FactKeeps, CatchesUpKeeps
<1>4. ASSUME NEW l \in Link, Disconnect(l) PROVE Inv'
  BY <1>4, DisconnectKeeps
<1>5. ASSUME NEW l \in Link, NEW c \in Channel, Connect(l, c) PROVE Inv'
  BY <1>5, ConnectKeeps
<1>6. ASSUME NEW c \in Channel, AccessExpires(c) \/ Revoke(c) \/ Refuse(c) PROVE Inv'
  BY <1>6, ExpiresKeeps, RevokeKeeps, RefuseKeeps
<1>7. ASSUME NEW u \in User, refresh(u) PROVE Inv'
  BY <1>7, RefreshKeeps
<1> QED BY <1>1, <1>2, <1>3, <1>4, <1>5, <1>6, <1>7 DEF World

LEMMA StutterKeeps == ASSUME Inv, UNCHANGED vars PROVE Inv'
<1>1. UNCHANGED <<role_links, cache, twitch, untold, bereft>> /\ Fine /\ poll' = poll
  BY DEF vars, Fine
<1> QED BY <1>1, DataRests, WorldKeeps

LEMMA NextKeeps == ASSUME Inv, [Next]_vars PROVE Inv'
BY WorkerKeeps, PollKeeps, FaultsKeep, TheWorldKeeps, RestartKeeps, StutterKeeps DEF Next

\* The state is well formed: no poll has an entry, a token or a stage it could not have,
\* and every link's pair is one of its own channel's.
THEOREM TypeCorrect == Spec => []TypeOK
<1>1. Init => Inv
  BY InitKeeps
<1>2. Inv /\ [Next]_vars => Inv'
  BY NextKeeps
<1>3. Inv => TypeOK
  BY InvIsTyped
<1> QED BY <1>1, <1>2, <1>3, PTL DEF Spec

-----------------------------------------------------------------------------
(* What a poll writes                                                        *)

Told(p) == LET e == poll[p].entry IN
           cache'[e] \in {cache[e], NoRow}
             \/ \A f \in Fact \ poll[p].unsure : f \in cache'[e].facts <=> f \in truth[e]

LEMMA CacheRests == ASSUME NEW p, cache' = cache PROVE Told(p)
BY DEF Told

LEMMA WrittenIsTrue == ASSUME Inv, NEW p \in Poller, WriteFacts(p) PROVE Told(p)
<1> DEFINE e  == poll[p].entry
           fs == poll[p].facts
<1>1. poll[p].pc = "write"
      /\ cache' = IF cache[e] = NoRow THEN cache
                  ELSE [cache EXCEPT ![e] = [facts |-> fs, due |-> FALSE, failures |-> 0]]
  BY DEF WriteFacts, At
<1>2. e \in Entry
  BY <1>1, AtWork
<1>3. \A f \in Fact \ poll[p].unsure : f \in fs <=> f \in truth[e]
  BY <1>1, PollFields DEF Sound, Faithful
<1> HIDE DEF e, fs
<1>4. cache'[e] = cache[e] \/ cache'[e] = [facts |-> fs, due |-> FALSE, failures |-> 0]
  BY <1>1, <1>2 DEF Inv, DataType, CacheType
<1> QED BY <1>3, <1>4 DEF Told, e

LEMMA NextTells ==
  ASSUME Inv, Next, NEW p \in Poller, Writes(p)
  PROVE  Told(p)
<1>1. poll[p].pc = "write" /\ poll'[p].pc = "tell" /\ poll \in [Poller -> PollState]
  BY DEF Writes, At, Inv
<1>2. ASSUME WorkerStep PROVE Told(p)
  <2>1. ASSUME NEW e \in Entry, FindsNoToken(e) \/ BackOff(e) PROVE FALSE
    BY <1>1, <2>1 DEF FindsNoToken, BackOff, Stops, Idle
  <2> QED BY <1>2, <2>1, CacheRests
          DEF WorkerStep, Pick, ReadToken, Refreshed, RefreshRefused, StoreToken, EraseToken
<1>3. ASSUME NEW q \in Poller, PollStep(q) PROVE Told(p)
  <2>1. ASSUME WriteFacts(q) PROVE Told(p)
    <3>1. CASE q = p
      BY <2>1, <3>1, WrittenIsTrue
    <3>2. CASE q # p
      BY <1>1, <2>1, <3>2 DEF WriteFacts, Goes
    <3> QED BY <3>1, <3>2
  <2> QED BY <1>3, <2>1, CacheRests
          DEF PollStep, Answered, Unauthorized, Renews, CheckFails, Refused, Tell
<1>4. ASSUME PollFaults PROVE Told(p)
  BY <1>4, CacheRests DEF PollFaults, ReadTokenFails, BackOffFails, RefreshFails, StoreFails,
     EraseFails, Unheard, CheckFails, LooksUnauthorized, Renews, WriteFails, TellFails
<1>5. ASSUME Restart PROVE Told(p)
  BY <1>5, CacheRests DEF Restart
<1>6. ASSUME World PROVE Told(p)
  <2>1. ASSUME NEW m \in inbox, Notify(m) \/ NotifyTwice(m) \/ NotificationLost(m) PROVE Told(p)
    BY <1>1, <2>1 DEF Notify, NotifyTwice, NotificationLost
  <2>2. ASSUME NEW e \in Entry, CallbackBegins(e) PROVE Told(p)
    BY <2>2, CacheRests DEF CallbackBegins
  <2>3. ASSUME NEW e \in Entry, NEW f \in Fact, FactChanges(e, f) \/ CatchesUp(e, f)
        PROVE  Told(p)
    BY <2>3, CacheRests DEF FactChanges, CatchesUp
  <2>4. ASSUME \/ \E e \in Entry : ComesDue(e)
               \/ \E l \in Link : Disconnect(l) \/ \E c \in Channel : Connect(l, c)
               \/ \E c \in Channel : AccessExpires(c) \/ Revoke(c) \/ Refuse(c)
               \/ \E u \in User : refresh(u)
        PROVE  Told(p)
    <3>1. poll' = poll
      BY <2>4 DEF ComesDue, Disconnect, Connect, AccessExpires, Revoke, Refuse, refresh
    <3> QED BY <1>1, <3>1
  <2> QED BY <1>6, <2>1, <2>2, <2>3, <2>4 DEF World
<1> QED BY <1>2, <1>3, <1>4, <1>5, <1>6 DEF Next

\* A poll stores only what is so, but for what changed while it was under way and what
\* Twitch's API had yet to surface: whichever of the two checks failed, whatever was
\* renewed between them, and whoever else wrote the row.
THEOREM PollsTellTruth == Spec => PollTellsTruth
<1>1. Init => Inv
  BY InitKeeps
<1>2. Inv /\ [Next]_vars => Inv'
  BY NextKeeps
<1>3. Inv /\ [Next]_vars =>
        [\A p \in Poller : Writes(p) =>
           LET e == poll[p].entry IN
           cache'[e] \in {cache[e], NoRow}
             \/ \A f \in Fact \ poll[p].unsure : f \in cache'[e].facts <=> f \in truth[e]]_vars
  BY NextTells DEF Told
<1> QED BY <1>1, <1>2, <1>3, PTL DEF Spec, PollTellsTruth

-----------------------------------------------------------------------------
(* Who loses a token                                                         *)

\* The pair that is about to be erased is dead, or no link that is owed one has it.
ErasesDead ==
  At("worker", "erase") =>
    \/ poll["worker"].token \notin alive
    \/ \A l \in LinksOf(ChannelOf("worker")) \ bereft : role_links[l].token # poll["worker"].token

Kept == TokenKept /\ ErasesDead

\* The worker is where it was, or was not storing and is not about to erase.
Elsewhere ==
  \/ /\ poll'["worker"].pc = poll["worker"].pc
     /\ poll'["worker"].entry = poll["worker"].entry
     /\ poll'["worker"].token = poll["worker"].token
  \/ poll["worker"].pc # "store" /\ poll'["worker"].pc # "erase"

LEMMA KeptQuietly ==
  ASSUME Kept, Elsewhere, UNCHANGED <<role_links, alive, bereft>>
  PROVE  Kept'
<1>1. TokenKept'
  BY DEF Kept, TokenKept, Elsewhere, Storing, At, ChannelOf
<1>2. ErasesDead'
  BY DEF Kept, ErasesDead, Elsewhere, At, ChannelOf, LinksOf
<1> QED BY <1>1, <1>2 DEF Kept

LEMMA ProceedsTo ==
  ASSUME Inv, NEW p \in Poller, NEW new \in PollState, Proceeds(p, new)
  PROVE  /\ poll'[p].pc \in {"check", "write", "backoff", "tell"}
         /\ \A q \in Poller \ {p} : poll'[q] = poll[q]
<1>1. PICK s : /\ Turns(p, s)
               /\ s.pc = IF poll[p].check = "follows" THEN "check"
                         ELSE IF ~new.failed THEN "write"
                         ELSE IF p = "worker" THEN "backoff" ELSE "tell"
  BY ProceedsTurns
<1> QED BY <1>1 DEF Turns, Inv

LEMMA ProceedsElsewhere ==
  ASSUME Inv, NEW p \in Poller, NEW new \in PollState, Proceeds(p, new), poll[p].pc # "store"
  PROVE  Elsewhere
<1>1. CASE p = "worker"
  BY <1>1, ProceedsTo DEF Elsewhere
<1>2. CASE p # "worker"
  BY <1>2, ProceedsTo DEF Elsewhere, Poller
<1> QED BY <1>1, <1>2

LEMMA NewPolls ==
  ASSUME Inv, NEW p \in Poller
  PROVE  /\ [poll[p] EXCEPT !.failed = TRUE] \in PollState
         /\ \A says, D : says \in SUBSET {poll[p].check} /\ D \in SUBSET {poll[p].check} =>
              [poll[p] EXCEPT !.facts = @ \cup says, !.unsure = @ \cup D] \in PollState
<1>1. poll[p] \in PollState
  BY PollFields
<1> QED BY <1>1 DEF PollState

\* A step of a poller that takes it to a place of no consequence.
LEMMA SetElsewhere ==
  ASSUME Inv, NEW p \in Poller, NEW s, poll' = [poll EXCEPT ![p] = s],
         p = "callback" \/ (poll[p].pc # "store" /\ s.pc # "erase")
  PROVE  Elsewhere
BY DEF Inv, Elsewhere, Poller

LEMMA StopsElsewhere ==
  ASSUME Inv, NEW p \in Poller, Stops(p), poll[p].pc # "store"
  PROVE  Elsewhere
BY SetElsewhere DEF Stops, Idle

LEMMA GoesElsewhere ==
  ASSUME Inv, NEW p \in Poller, NEW pc, Goes(p, pc), poll[p].pc # "store", pc # "erase"
  PROVE  Elsewhere
<1> DEFINE s == [poll[p] EXCEPT !.pc = pc]
<1>1. poll' = [poll EXCEPT ![p] = s]
  BY DEF Goes
<1>2. s.pc = pc
  BY PollFields DEF PollState
<1> HIDE DEF s
<1> QED BY <1>1, <1>2, SetElsewhere

LEMMA TokenFields ==
  ASSUME Inv, NEW l \in Link
  PROVE  /\ role_links[l].channel \in Channel \cup {NoChannel}
         /\ role_links[l].token \in alive =>
              role_links[l].token \in Token /\ role_links[l].token # NoToken
              /\ role_links[l].token[1] = role_links[l].channel
<1>1. role_links[l].token \in alive => role_links[l].token \in Token /\ role_links[l].token # NoToken
  BY CacheAssumption DEF Inv, DataType, TwitchType, Token
<1> QED BY <1>1 DEF Inv, DataType, LinksType

LEMMA RefreshedKept == ASSUME Inv, Kept, Refreshed PROVE Kept'
<1> DEFINE c == ChannelOf("worker")
           t == <<c, minted[c] + 1>>
           q == poll["worker"]
           s == [q EXCEPT !.pc = "store", !.token = t]
<1>1. q.pc = "refresh" /\ alive' = (alive \ {q.token}) \cup {t} /\ UNCHANGED <<role_links, bereft>>
  BY DEF Refreshed, Rotate, At
<1>2. q.token \in Token /\ q.token[1] = c
  BY <1>1, AtWork DEF Poller
<1>3. poll'["worker"].pc = "store" /\ poll'["worker"].entry = q.entry
  <2>1. poll' = [poll EXCEPT !["worker"] = s]
    BY DEF Refreshed, Inv, Poller
  <2>2. q \in PollState
    BY PollFields DEF Poller
  <2>3. s.pc = "store" /\ s.entry = q.entry
    BY <2>2 DEF PollState
  <2> HIDE DEF q, s
  <2> QED BY <2>1, <2>3 DEF Inv, Poller
<1>4. ASSUME NEW l \in Link \ bereft, role_links[l].channel # NoChannel
      PROVE  role_links[l].token \in alive' \/ role_links[l].channel = c
  <2>1. role_links[l].token \in alive
    BY <1>1, <1>4 DEF Kept, TokenKept, Storing, At
  <2> QED BY <1>1, <1>2, <2>1, TokenFields
<1>5. TokenKept'
  BY <1>1, <1>3, <1>4 DEF TokenKept, Storing, At, ChannelOf
<1>6. ErasesDead'
  BY <1>3 DEF ErasesDead, At
<1> QED BY <1>5, <1>6 DEF Kept

LEMMA GoesFields ==
  ASSUME Inv, NEW p \in Poller, NEW pc, Goes(p, pc)
  PROVE  poll'[p].pc = pc /\ poll'[p].entry = poll[p].entry /\ poll'[p].token = poll[p].token
<1> DEFINE s == [poll[p] EXCEPT !.pc = pc]
<1>1. poll' = [poll EXCEPT ![p] = s]
  BY DEF Goes
<1>2. s.pc = pc /\ s.entry = poll[p].entry /\ s.token = poll[p].token
  BY PollFields DEF PollState
<1> HIDE DEF s
<1> QED BY <1>1, <1>2 DEF Inv

LEMMA RefreshRefusedKept == ASSUME Inv, Kept, RefreshRefused PROVE Kept'
<1>1. /\ poll["worker"].pc = "refresh" /\ poll["worker"].token \notin alive
      /\ UNCHANGED <<role_links, alive, bereft>> /\ Goes("worker", "erase")
  BY DEF RefreshRefused, twitch, At
<1>2. poll'["worker"].pc = "erase" /\ poll'["worker"].token = poll["worker"].token
  BY <1>1, GoesFields DEF Poller
<1>3. TokenKept'
  BY <1>1, <1>2 DEF Kept, TokenKept, Storing, At
<1>4. ErasesDead'
  BY <1>1, <1>2 DEF ErasesDead
<1> QED BY <1>3, <1>4 DEF Kept

LEMMA RefreshFailsKept == ASSUME Inv, Kept, RefreshFails PROVE Kept'
<1> DEFINE c == ChannelOf("worker")
<1>1. /\ poll["worker"].pc = "refresh" /\ Goes("worker", "erase") /\ role_links' = role_links
      /\ bereft' = bereft \cup LinksOf(c)
      /\ alive \ {poll["worker"].token} \subseteq alive'
  BY DEF RefreshFails, Rotate, At
<1>2. poll["worker"].token[1] = c
  BY <1>1, AtWork DEF Poller
<1>3. poll'["worker"].pc = "erase" /\ poll'["worker"].entry = poll["worker"].entry
  BY <1>1, GoesFields DEF Poller
<1>4. ASSUME NEW l \in Link \ bereft', role_links[l].channel # NoChannel
      PROVE  role_links[l].token \in alive'
  <2>1. l \in Link \ bereft /\ role_links[l].channel # c
    BY <1>1, <1>4 DEF LinksOf
  <2>2. role_links[l].token \in alive
    BY <1>1, <1>4, <2>1 DEF Kept, TokenKept, Storing, At
  <2> QED BY <1>1, <1>2, <2>1, <2>2, TokenFields
<1>5. TokenKept'
  BY <1>1, <1>4 DEF TokenKept
<1>6. ErasesDead'
  BY <1>1, <1>3 DEF ErasesDead, ChannelOf, LinksOf
<1> QED BY <1>5, <1>6 DEF Kept

\* The links of the channel get the new pair, or the cause is noted.
LEMMA StoreKept == ASSUME Inv, Kept, StoreToken \/ StoreFails PROVE Kept'
<1> DEFINE c == ChannelOf("worker")
           t == poll["worker"].token
<1>1. /\ poll["worker"].pc = "store" /\ Goes("worker", "check") /\ alive' = alive
  BY DEF StoreToken, StoreFails, twitch, At
<1>2. poll'["worker"].pc = "check"
  BY <1>1, GoesFields DEF Poller
<1>3. role_links \in [Link -> [channel : Channel \cup {NoChannel}, token : Token \cup {NoToken}]]
  BY DEF Inv, DataType, LinksType
<1>4. ASSUME NEW l \in Link \ bereft', role_links'[l].channel # NoChannel
      PROVE  role_links'[l].token \in alive
  <2>1. role_links'[l].channel = role_links[l].channel
    BY <1>3 DEF StoreToken, StoreFails
  <2>2. CASE l \in LinksOf(c)
    <3>1. /\ role_links' = [k \in Link |-> IF k \in LinksOf(c)
                                             THEN [role_links[k] EXCEPT !.token = t] ELSE role_links[k]]
          /\ t \in alive
      BY <1>4, <2>2 DEF StoreToken, StoreFails
    <3>2. role_links'[l].token = t
      BY <1>3, <2>2, <3>1
    <3> QED BY <3>1, <3>2
  <2>3. CASE l \notin LinksOf(c)
    <3>1. role_links'[l] = role_links[l] /\ l \in Link \ bereft
      BY <1>3, <1>4, <2>3 DEF StoreToken, StoreFails
    <3> QED BY <1>4, <2>3, <3>1 DEF Kept, TokenKept, Storing, LinksOf
  <2> QED BY <2>2, <2>3
<1>5. TokenKept'
  BY <1>1, <1>4 DEF TokenKept
<1>6. ErasesDead'
  BY <1>2 DEF ErasesDead, At
<1> QED BY <1>5, <1>6 DEF Kept

LEMMA EraseKept == ASSUME Inv, Kept, EraseToken PROVE Kept'
<1> DEFINE c == ChannelOf("worker")
           t == poll["worker"].token
<1>1. /\ poll["worker"].pc = "erase" /\ Fails /\ alive' = alive
      /\ bereft' = bereft \cup {l \in LinksOf(c) : role_links[l].token # t}
      /\ role_links' = [l \in Link |-> IF l \in LinksOf(c) THEN [role_links[l] EXCEPT !.token = NoToken]
                                       ELSE role_links[l]]
  BY DEF EraseToken, twitch, At
<1>2. poll'["worker"].pc \in {"check", "write", "backoff", "tell"}
  BY <1>1, ProceedsTo, NewPolls DEF Fails, Poller
<1>3. ASSUME NEW l \in Link \ bereft, role_links[l].channel # NoChannel
      PROVE  role_links[l].token \in alive
  BY <1>1, <1>3 DEF Kept, TokenKept, Storing, At
<1>4. ASSUME NEW l \in Link \ bereft', role_links'[l].channel # NoChannel
      PROVE  role_links'[l].token \in alive
  <2>1. l \in Link \ bereft
    BY <1>1
  <2>2. l \notin LinksOf(c)
    <3> SUFFICES ASSUME l \in LinksOf(c) PROVE FALSE
      OBVIOUS
    <3>1. role_links[l].token = t
      BY <1>1, <1>4
    <3>2. role_links[l].channel = c /\ c \in Channel
      BY <1>1, AtWork DEF LinksOf, Poller
    <3>3. role_links[l].token \in alive
      BY <1>3, <2>1, <3>2, CacheAssumption
    <3>4. t \notin alive
      BY <1>1, <2>1, <3>1 DEF Kept, ErasesDead, At
    <3> QED BY <3>1, <3>3, <3>4
  <2> QED BY <1>1, <1>3, <1>4, <2>1, <2>2
<1>5. TokenKept'
  BY <1>1, <1>4 DEF TokenKept
<1>6. ErasesDead'
  BY <1>2 DEF ErasesDead, At
<1> QED BY <1>5, <1>6 DEF Kept

\* A reconnected link's pair is alive and not the one about to be erased.
LEMMA ConnectKept ==
  ASSUME Inv, Kept, NEW l \in Link, NEW c \in Channel, Connect(l, c)
  PROVE  Kept'
<1> DEFINE t == <<c, minted[c] + 1>>
<1>1. /\ alive' = alive \cup {t} /\ bereft' = bereft \ {l} /\ poll' = poll
      /\ role_links' = [role_links EXCEPT ![l] = [channel |-> c, token |-> t]]
  BY DEF Connect
<1>2. role_links \in [Link -> [channel : Channel \cup {NoChannel}, token : Token \cup {NoToken}]]
  BY DEF Inv, DataType, LinksType
<1>3. minted[c] \in Nat /\ t[1] = c /\ t[2] = minted[c] + 1
  BY DEF Inv, DataType, TwitchType
<1> HIDE DEF t
<1>4. role_links'[l].token = t /\ role_links'[l].channel = c
  BY <1>1, <1>2
<1>5. \A k \in Link \ {l} : role_links'[k] = role_links[k]
  BY <1>1, <1>2
<1>6. TokenKept'
  <2>1. ASSUME NEW k \in Link \ bereft', role_links'[k].channel # NoChannel
        PROVE  role_links'[k].token \in alive' \/ Storing(role_links'[k].channel)
    <3>1. CASE k = l
      BY <1>1, <1>4, <3>1
    <3>2. CASE k # l
      BY <1>1, <1>5, <2>1, <3>2 DEF Kept, TokenKept
    <3> QED BY <3>1, <3>2
  <2> QED BY <1>1, <2>1 DEF TokenKept, Storing, At, ChannelOf
<1>7. ErasesDead'
  <2> DEFINE u == poll["worker"].token
             d == ChannelOf("worker")
  <2> SUFFICES ASSUME poll["worker"].pc = "erase"
               PROVE  \/ u \notin alive'
                      \/ \A k \in Link \ bereft' : role_links'[k].channel = d => role_links'[k].token # u
    BY <1>1 DEF ErasesDead, At, LinksOf, ChannelOf
  <2>1. u # t
    <3>1. u[2] <= minted[u[1]]
      BY AtWork DEF Poller
    <3> QED BY <1>3, <3>1
  <2>2. CASE u \notin alive
    BY <1>1, <2>1, <2>2
  <2>3. CASE \A k \in LinksOf(d) \ bereft : role_links[k].token # u
    BY <1>1, <1>4, <1>5, <2>1, <2>3 DEF LinksOf
  <2> QED BY <2>2, <2>3 DEF Kept, ErasesDead, At
<1> QED BY <1>6, <1>7 DEF Kept

LEMMA DisconnectKept == ASSUME Inv, Kept, NEW l \in Link, Disconnect(l) PROVE Kept'
<1>1. /\ poll' = poll /\ alive' = alive /\ bereft' = bereft
      /\ role_links' = [role_links EXCEPT ![l] = [channel |-> NoChannel, token |-> NoToken]]
  BY DEF Disconnect, twitch
<1>2. role_links \in [Link -> [channel : Channel \cup {NoChannel}, token : Token \cup {NoToken}]]
  BY DEF Inv, DataType, LinksType
<1>3. /\ role_links'[l].channel = NoChannel
      /\ \A k \in Link \ {l} : role_links'[k] = role_links[k]
  BY <1>1, <1>2
<1>4. TokenKept'
  <2>1. ASSUME NEW k \in Link \ bereft, role_links'[k].channel # NoChannel
        PROVE  role_links'[k].token \in alive \/ Storing(role_links'[k].channel)
    BY <1>3, <2>1 DEF Kept, TokenKept
  <2> QED BY <1>1, <2>1 DEF TokenKept, Storing, At, ChannelOf
<1>5. ErasesDead'
  <2> DEFINE u == poll["worker"].token
             d == ChannelOf("worker")
  <2> SUFFICES ASSUME poll["worker"].pc = "erase"
               PROVE  \/ u \notin alive
                      \/ \A k \in Link \ bereft : role_links'[k].channel = d => role_links'[k].token # u
    BY <1>1 DEF ErasesDead, At, LinksOf, ChannelOf
  <2>1. d # NoChannel
    BY AtWork, CacheAssumption DEF Poller
  <2>2. ASSUME \A k \in LinksOf(d) \ bereft : role_links[k].token # u
        PROVE  \A k \in Link \ bereft : role_links'[k].channel = d => role_links'[k].token # u
    BY <1>3, <2>1, <2>2 DEF LinksOf
  <2> QED BY <2>2 DEF Kept, ErasesDead, At
<1> QED BY <1>4, <1>5 DEF Kept

LEMMA RevokeKept == ASSUME Inv, Kept, NEW c \in Channel, Revoke(c) PROVE Kept'
<1>1. /\ poll' = poll /\ role_links' = role_links /\ bereft' = bereft \cup LinksOf(c)
      /\ alive' = {t \in alive : t[1] # c}
  BY DEF Revoke
<1>2. TokenKept'
  <2>1. ASSUME NEW k \in Link \ bereft', role_links[k].channel # NoChannel
        PROVE  role_links[k].token \in alive' \/ Storing(role_links[k].channel)
    <3>1. k \in Link \ bereft /\ role_links[k].channel # c
      BY <1>1 DEF LinksOf
    <3> QED BY <1>1, <2>1, <3>1, TokenFields DEF Kept, TokenKept
  <2> QED BY <1>1, <2>1 DEF TokenKept, Storing, At, ChannelOf
<1>3. ErasesDead'
  BY <1>1 DEF Kept, ErasesDead, At, LinksOf, ChannelOf
<1> QED BY <1>2, <1>3 DEF Kept

LEMMA RestartKept == ASSUME Inv, Kept, Restart PROVE Kept'
<1>1. /\ poll'["worker"].pc = "idle" /\ role_links' = role_links /\ alive' = alive
      /\ bereft' = IF At("worker", "store") THEN bereft \cup LinksOf(ChannelOf("worker")) ELSE bereft
  BY DEF Restart, twitch, Poller, Idle
<1>2. TokenKept'
  <2>1. ASSUME NEW k \in Link \ bereft', role_links[k].channel # NoChannel
        PROVE  role_links[k].token \in alive
    <3>1. k \in Link \ bereft /\ ~Storing(role_links[k].channel)
      BY <1>1 DEF LinksOf, Storing
    <3> QED BY <2>1, <3>1 DEF Kept, TokenKept
  <2> QED BY <1>1, <2>1 DEF TokenKept
<1>3. ErasesDead'
  BY <1>1 DEF ErasesDead, At
<1> QED BY <1>2, <1>3 DEF Kept

LEMMA WorkerKept == ASSUME Inv, Kept, WorkerStep PROVE Kept'
<1>1. "worker" \in Poller
  BY DEF Poller
<1>2. ASSUME NEW e \in Entry, Pick(e) PROVE Kept'
  <2> DEFINE s == [poll["worker"] EXCEPT !.pc = "token", !.entry = e]
  <2>1. poll' = [poll EXCEPT !["worker"] = s]
    BY <1>1, <1>2 DEF Pick, Inv
  <2>2. s.pc = "token"
    BY <1>1, PollFields DEF PollState
  <2> HIDE DEF s
  <2> QED BY <1>1, <1>2, <2>1, <2>2, SetElsewhere, KeptQuietly DEF Pick, At, twitch
<1>3. ASSUME NEW e \in Entry, ReadToken(e) PROVE Kept'
  <2>1. PICK t \in TokensOf(OwnerOf(e)) :
          poll' = [poll EXCEPT !["worker"].token = t, !["worker"].pc = "check"]
    BY <1>3 DEF ReadToken
  <2> DEFINE s == [poll["worker"] EXCEPT !.token = t, !.pc = "check"]
  <2>2. poll' = [poll EXCEPT !["worker"] = s]
    BY <1>1, <2>1 DEF Inv
  <2>3. s.pc = "check"
    BY <1>1, PollFields DEF PollState
  <2> HIDE DEF s
  <2> QED BY <1>1, <1>3, <2>2, <2>3, SetElsewhere, KeptQuietly DEF ReadToken, Works, At, twitch
<1>4. ASSUME NEW e \in Entry, FindsNoToken(e) PROVE Kept'
  BY <1>1, <1>4, StopsElsewhere, KeptQuietly DEF FindsNoToken, Works, At, twitch
<1>5. ASSUME NEW e \in Entry, BackOff(e) PROVE Kept'
  BY <1>1, <1>5, StopsElsewhere, KeptQuietly DEF BackOff, Works, At, twitch
<1> QED BY <1>2, <1>3, <1>4, <1>5, RefreshedKept, RefreshRefusedKept, StoreKept, EraseKept
        DEF WorkerStep

LEMMA CheckFailsKept == ASSUME Inv, Kept, NEW p \in Poller, CheckFails(p) PROVE Kept'
<1>1. Elsewhere
  BY NewPolls, ProceedsElsewhere DEF CheckFails, At
<1> QED BY <1>1, KeptQuietly DEF CheckFails, twitch

LEMMA RenewsKept == ASSUME Inv, Kept, NEW p \in Poller, Renews(p) PROVE Kept'
<1> DEFINE s == [poll[p] EXCEPT !.pc = "refresh", !.renewed = TRUE]
<1>1. poll' = [poll EXCEPT ![p] = s]
  BY DEF Renews, Inv
<1>2. s.pc = "refresh"
  BY PollFields DEF PollState
<1> HIDE DEF s
<1>3. Elsewhere
  BY <1>1, <1>2, SetElsewhere DEF Renews, At
<1> QED BY <1>3, KeptQuietly DEF Renews, twitch

LEMMA PollKept == ASSUME Inv, Kept, NEW p \in Poller, PollStep(p) PROVE Kept'
<1>1. ASSUME Answered(p) PROVE Kept'
  <2> DEFINE D == behind[poll[p].entry] \cap {poll[p].check}
  <2>1. PICK says \in Says(poll[p].entry, poll[p].check) :
          Proceeds(p, [poll[p] EXCEPT !.facts = @ \cup says, !.unsure = @ \cup D])
    BY <1>1 DEF Answered
  <2>2. [poll[p] EXCEPT !.facts = @ \cup says, !.unsure = @ \cup D] \in PollState
    BY NewPolls DEF Says
  <2>3. Elsewhere
    BY <1>1, <2>1, <2>2, ProceedsElsewhere DEF Answered, At
  <2> QED BY <1>1, <2>3, KeptQuietly DEF Answered, twitch
<1>2. ASSUME Unauthorized(p) \/ Refused(p) PROVE Kept'
  BY <1>2, CheckFailsKept, RenewsKept DEF Unauthorized, Refused
<1>3. ASSUME WriteFacts(p) PROVE Kept'
  <2>1. Elsewhere
    BY <1>3, GoesElsewhere DEF WriteFacts, At
  <2> QED BY <1>3, <2>1, KeptQuietly DEF WriteFacts, twitch
<1>4. ASSUME Tell(p) PROVE Kept'
  BY <1>4, StopsElsewhere, KeptQuietly DEF Tell, At, twitch
<1> QED BY <1>1, <1>2, <1>3, <1>4 DEF PollStep

LEMMA FaultsKept == ASSUME Inv, Kept, PollFaults PROVE Kept'
<1>1. "worker" \in Poller
  BY DEF Poller
<1>2. ASSUME NEW e \in Entry, ReadTokenFails(e) \/ BackOffFails(e) PROVE Kept'
  BY <1>1, <1>2, StopsElsewhere, KeptQuietly DEF ReadTokenFails, BackOffFails, Works, At, twitch
<1>3. ASSUME EraseFails PROVE Kept'
  <2>1. Elsewhere
    BY <1>1, <1>3, NewPolls, ProceedsElsewhere DEF EraseFails, Fails, At
  <2> QED BY <1>3, <2>1, KeptQuietly DEF EraseFails, twitch
<1>4. ASSUME NEW p \in Poller, Unheard(p) \/ LooksUnauthorized(p) PROVE Kept'
  BY <1>4, CheckFailsKept, RenewsKept DEF Unheard, LooksUnauthorized
<1>5. ASSUME NEW p \in Poller, WriteFails(p) \/ TellFails(p) PROVE Kept'
  <2>1. poll[p].pc # "store" /\ (Stops(p) \/ Goes(p, "tell"))
        /\ UNCHANGED <<role_links, twitch, bereft>>
    BY <1>5 DEF WriteFails, TellFails, At
  <2>2. Elsewhere
    BY <2>1, StopsElsewhere, GoesElsewhere
  <2> QED BY <2>1, <2>2, KeptQuietly DEF twitch
<1> QED BY <1>2, <1>3, <1>4, <1>5, RefreshFailsKept, StoreKept DEF PollFaults

LEMMA WorldKept == ASSUME Inv, Kept, World PROVE Kept'
<1>1. ASSUME poll' = poll, UNCHANGED <<role_links, alive, bereft>> PROVE Kept'
  BY <1>1, KeptQuietly DEF Elsewhere
<1>2. ASSUME NEW m \in inbox, Notify(m) \/ NotifyTwice(m) \/ NotificationLost(m) PROVE Kept'
  BY <1>1, <1>2 DEF Notify, NotifyTwice, NotificationLost, twitch
<1>3. ASSUME NEW e \in Entry, CallbackBegins(e) PROVE Kept'
  <2>1. poll'["worker"] = poll["worker"]
    BY <1>3 DEF CallbackBegins, Inv, Poller
  <2> QED BY <1>3, <2>1, KeptQuietly DEF CallbackBegins, Elsewhere, twitch
<1>4. ASSUME NEW e \in Entry, ComesDue(e) \/ \E f \in Fact : CatchesUp(e, f) PROVE Kept'
  BY <1>1, <1>4 DEF ComesDue, CatchesUp, twitch
<1>5. ASSUME NEW e \in Entry, NEW f \in Fact, FactChanges(e, f) PROVE Kept'
  <2>1. Elsewhere
    BY <1>5, FactPolls DEF Elsewhere, Poller
  <2> QED BY <1>5, <2>1, KeptQuietly DEF FactChanges
<1>6. ASSUME NEW c \in Channel, AccessExpires(c) \/ Refuse(c) PROVE Kept'
  BY <1>1, <1>6 DEF AccessExpires, Refuse
<1>7. ASSUME NEW u \in User, refresh(u) PROVE Kept'
  BY <1>1, <1>7 DEF refresh, twitch
<1> QED BY <1>2, <1>3, <1>4, <1>5, <1>6, <1>7, ConnectKept, DisconnectKept, RevokeKept DEF World

LEMMA NextKept == ASSUME Inv, Kept, [Next]_vars PROVE Kept'
<1>1. ASSUME UNCHANGED vars PROVE Kept'
  BY <1>1, KeptQuietly DEF vars, twitch, Elsewhere
<1> QED BY <1>1, WorkerKept, PollKept, FaultsKept, WorldKept, RestartKept DEF Next

LEMMA InitKept == ASSUME Init PROVE Kept
<1>1. TokenKept
  <2>1. ASSUME NEW l \in Link, role_links[l].channel # NoChannel PROVE role_links[l].token \in alive
    <3>1. role_links[l] \in {[channel |-> NoChannel, token |-> NoToken]}
                             \cup {[channel |-> c, token |-> <<c, 1>>] : c \in Channel}
      BY DEF Init
    <3>2. PICK c \in Channel : role_links[l] = [channel |-> c, token |-> <<c, 1>>]
      BY <2>1, <3>1
    <3> QED BY <3>2 DEF Init
  <2> QED BY <2>1 DEF TokenKept
<1>2. ErasesDead
  BY DEF Init, ErasesDead, At, Idle, Poller
<1> QED BY <1>1, <1>2 DEF Kept

\* A connected link has a pair that Twitch will renew, or is about to get one, unless a
\* cause with a name took it: what is erased is dead, or was the link's no longer.
THEOREM TokensAreKept == Spec => []TokenKept
<1>1. Init => Inv /\ Kept
  BY InitKeeps, InitKept
<1>2. Inv /\ Kept /\ [Next]_vars => Inv' /\ Kept'
  BY NextKeeps, NextKept
<1>3. Kept => TokenKept
  BY DEF Kept
<1> QED BY <1>1, <1>2, <1>3, PTL DEF Spec
=============================================================================
