----------------------- MODULE ConnectionsTypeProofs -----------------------
(***************************************************************************)
(* How every action of Connections moves its request, and that the state   *)
(* stays well formed, for every number of members, accounts, links,        *)
(* channels and requests under way.                                        *)
(***************************************************************************)
EXTENDS Connections, TLAPS

-----------------------------------------------------------------------------
(* Requests                                                                  *)

\* What TypeOK says of one request.
GoodRequest(q) ==
  /\ q \in RequestState
  /\ q.pc = "idle" => q = NoRequest
  /\ q.pc \in LinkPcs => q.link \in Link
  /\ q.pc \in ChannelPcs => q.channel \in Channel
  /\ q.pc \in AccountPcs => q.member \in Member /\ q.account \in Account
  /\ q.pc \in HookPcs => q.todo # {}

ReqType ==
  /\ req \in [Request -> RequestState]
  /\ \A r \in Request : GoodRequest(req[r])

LEMMA NoRequestGood == GoodRequest(NoRequest) /\ NoRequest.pc = "idle"
BY DEF GoodRequest, NoRequest, RequestState, Pcs, LinkPcs, ChannelPcs, AccountPcs, HookPcs

LEMMA GoesGood ==
  ASSUME NEW q, GoodRequest(q), NEW pc \in Pcs \ {"idle"},
         pc \in LinkPcs => q.link \in Link,
         pc \in ChannelPcs => q.channel \in Channel,
         pc \in AccountPcs => q.member \in Member /\ q.account \in Account,
         pc \in HookPcs => q.todo # {}
  PROVE  GoodRequest([q EXCEPT !.pc = pc])
<1> DEFINE p == [q EXCEPT !.pc = pc]
<1>1. /\ p \in RequestState /\ p.pc = pc /\ p.link = q.link /\ p.channel = q.channel
      /\ p.member = q.member /\ p.account = q.account /\ p.todo = q.todo
  BY DEF GoodRequest, RequestState
<1> HIDE DEF p
<1>2. GoodRequest(p)
  BY <1>1 DEF GoodRequest
<1> QED BY <1>2 DEF p

LEMMA TodoGood ==
  ASSUME NEW q, GoodRequest(q), NEW pc \in Pcs \ {"idle"}, NEW todo \in SUBSET Type,
         pc \in LinkPcs => q.link \in Link,
         pc \in ChannelPcs => q.channel \in Channel,
         pc \in AccountPcs => q.member \in Member /\ q.account \in Account,
         pc \in HookPcs => todo # {}
  PROVE  GoodRequest([q EXCEPT !.pc = pc, !.todo = todo])
<1> DEFINE p == [q EXCEPT !.pc = pc, !.todo = todo]
<1>1. /\ p \in RequestState /\ p.pc = pc /\ p.link = q.link /\ p.channel = q.channel
      /\ p.member = q.member /\ p.account = q.account /\ p.todo = todo
  BY DEF GoodRequest, RequestState
<1> HIDE DEF p
<1>2. GoodRequest(p)
  BY <1>1 DEF GoodRequest
<1> QED BY <1>2 DEF p

\* Only the request r moves, to q.
Moved(r, q) ==
  /\ req'[r] = q
  /\ \A s \in Request \ {r} : req'[s] = req[s]

LEMMA OneMoves ==
  ASSUME ReqType, NEW r \in Request, NEW q, GoodRequest(q), req' = [req EXCEPT ![r] = q]
  PROVE  ReqType' /\ Moved(r, q)
BY DEF ReqType, GoodRequest, Moved

LEMMA EndsMoves ==
  ASSUME ReqType, NEW r \in Request, Ends(r)
  PROVE  ReqType' /\ Moved(r, NoRequest)
BY OneMoves, NoRequestGood DEF Ends

LEMMA BeginsMoves ==
  ASSUME ReqType, NEW q, GoodRequest(q), Begins(q)
  PROVE  ReqType' /\ \E r \in Request : req[r] = NoRequest /\ Moved(r, q)
<1>1. PICK r \in Request : req[r] = NoRequest /\ req' = [req EXCEPT ![r] = q]
  <2> DEFINE r == CHOOSE x \in Free : TRUE
  <2>1. r \in Free
    BY DEF Begins
  <2>2. r \in Request /\ req[r] = NoRequest
    BY <2>1 DEF Free
  <2> QED BY <2>2 DEF Begins
<1> QED BY <1>1, OneMoves

LEMMA GoesMoves ==
  ASSUME ReqType, NEW r \in Request, NEW pc \in Pcs \ {"idle"}, Goes(r, pc),
         pc \in LinkPcs => req[r].link \in Link,
         pc \in ChannelPcs => req[r].channel \in Channel,
         pc \in AccountPcs => req[r].member \in Member /\ req[r].account \in Account,
         pc \in HookPcs => req[r].todo # {}
  PROVE  ReqType' /\ Moved(r, [req[r] EXCEPT !.pc = pc])
<1>1. GoodRequest([req[r] EXCEPT !.pc = pc])
  BY GoesGood DEF ReqType
<1>2. req' = [req EXCEPT ![r] = [req[r] EXCEPT !.pc = pc]]
  BY DEF Goes
<1> QED BY <1>1, <1>2, OneMoves

\* The fields of a request that has moved on.
LEMMA Fields ==
  ASSUME NEW q, GoodRequest(q), NEW pc, NEW todo
  PROVE  /\ [q EXCEPT !.pc = pc].pc = pc
         /\ [q EXCEPT !.pc = pc].member = q.member
         /\ [q EXCEPT !.pc = pc].account = q.account
         /\ [q EXCEPT !.pc = pc].link = q.link
         /\ [q EXCEPT !.pc = pc].channel = q.channel
         /\ [q EXCEPT !.pc = pc].todo = q.todo
         /\ [q EXCEPT !.pc = pc].raced = q.raced
         /\ [q EXCEPT !.pc = pc, !.todo = todo].pc = pc
         /\ [q EXCEPT !.pc = pc, !.todo = todo].todo = todo
         /\ [q EXCEPT !.pc = pc, !.todo = todo].link = q.link
         /\ [q EXCEPT !.pc = pc, !.todo = todo].channel = q.channel
BY DEF GoodRequest, RequestState

LEMMA HookIs ==
  ASSUME ReqType, NEW r \in Request, Running(r, HookPcs)
  PROVE  /\ req[r].channel \in Channel /\ req[r].todo \subseteq Type
         /\ Hook(r)[1] = req[r].channel /\ Hook(r)[2] \in req[r].todo
         /\ Hook(r) \in Channel \X Type
         /\ Hook(r) = <<req[r].channel, Hook(r)[2]>>
<1>1. req[r].todo # {} /\ req[r].channel \in Channel /\ req[r].todo \subseteq Type
  BY DEF ReqType, GoodRequest, RequestState, Running, HookPcs, ChannelPcs
<1>2. (CHOOSE t \in req[r].todo : TRUE) \in req[r].todo
  BY <1>1
<1> QED BY <1>1, <1>2 DEF Hook

Rest(r) == req[r].todo \ {Hook(r)[2]}

LEMMA NextHookMoves ==
  ASSUME ReqType, NEW r \in Request, Running(r, {"exists", "create", "record"}), NextHook(r)
  PROVE  /\ ReqType'
         /\ Rest(r) = {}  => Moved(r, NoRequest)
         /\ Rest(r) # {} => Moved(r, [req[r] EXCEPT !.pc = "exists", !.todo = Rest(r)])
<1>0. /\ GoodRequest(req[r]) /\ req[r].link \in Link /\ req[r].channel \in Channel
      /\ Rest(r) \in SUBSET Type
  BY HookIs DEF Rest, ReqType, GoodRequest, Running, HookPcs, LinkPcs, ChannelPcs
<1>1. CASE Rest(r) = {}
  BY <1>1, OneMoves, NoRequestGood DEF NextHook, Rest
<1>2. CASE Rest(r) # {}
  <2>1. GoodRequest([req[r] EXCEPT !.pc = "exists", !.todo = Rest(r)])
    BY <1>0, <1>2, TodoGood DEF Pcs, AccountPcs
  <2>2. req' = [req EXCEPT ![r] = [req[r] EXCEPT !.pc = "exists", !.todo = Rest(r)]]
    BY <1>2 DEF NextHook, Rest
  <2> QED BY <1>2, <2>1, <2>2, OneMoves
<1> QED BY <1>1, <1>2

-----------------------------------------------------------------------------
(* How each action moves its request                                         *)

\* A request that begins.
SomeBegins ==
  \/ \E l \in Link, c \in Channel : ConnectBegins(l, c)
  \/ \E l \in Link, pc \in {"disconnect", "delete"} : DetachBegins(l, pc)
  \/ \E m \in Member, acc \in Account : CallbackBegins(m, acc)

LEMMA BeginMoves ==
  ASSUME TypeOK, ReqType, SomeBegins
  PROVE  /\ ReqType'
         /\ \E r \in Request :
              /\ req[r] = NoRequest /\ \A s \in Request \ {r} : req'[s] = req[s]
              /\ req'[r].pc \in {"store", "disconnect", "delete", "select"}
<1>1. ASSUME NEW l \in Link, NEW c \in Channel, ConnectBegins(l, c)
      PROVE  /\ ReqType'
             /\ \E r \in Request :
                  /\ req[r] = NoRequest /\ \A s \in Request \ {r} : req'[s] = req[s]
                  /\ req'[r].pc = "store"
  <2> DEFINE q == [NoRequest EXCEPT !.pc = "store", !.link = l, !.channel = c]
  <2>1. GoodRequest(q) /\ q.pc = "store"
    BY DEF GoodRequest, NoRequest, RequestState, Pcs, LinkPcs, ChannelPcs, AccountPcs, HookPcs
  <2>2. Begins(q)
    BY <1>1 DEF ConnectBegins
  <2> HIDE DEF q
  <2> QED BY <2>1, <2>2, BeginsMoves DEF Moved
<1>2. ASSUME NEW l \in Link, NEW pc \in {"disconnect", "delete"}, DetachBegins(l, pc)
      PROVE  /\ ReqType'
             /\ \E r \in Request :
                  /\ req[r] = NoRequest /\ \A s \in Request \ {r} : req'[s] = req[s]
                  /\ req'[r].pc = pc
  <2> DEFINE q == [NoRequest EXCEPT !.pc = pc, !.link = l, !.channel = channel[l]]
  <2>1. GoodRequest(q) /\ q.pc = pc
    <3>1. channel[l] \in Channel \cup {NoChannel}
      BY DEF TypeOK
    <3> QED BY <3>1 DEF GoodRequest, NoRequest, RequestState, Pcs, LinkPcs, ChannelPcs,
                        AccountPcs, HookPcs
  <2>2. Begins(q)
    BY <1>2 DEF DetachBegins
  <2> HIDE DEF q
  <2> QED BY <2>1, <2>2, BeginsMoves DEF Moved
<1>3. ASSUME NEW m \in Member, NEW acc \in Account, CallbackBegins(m, acc)
      PROVE  /\ ReqType'
             /\ \E r \in Request :
                  /\ req[r] = NoRequest /\ \A s \in Request \ {r} : req'[s] = req[s]
                  /\ req'[r].pc = "select"
  <2> DEFINE q == [NoRequest EXCEPT !.pc = "select", !.member = m, !.account = acc]
  <2>1. GoodRequest(q) /\ q.pc = "select"
    BY DEF GoodRequest, NoRequest, RequestState, Pcs, LinkPcs, ChannelPcs, AccountPcs, HookPcs
  <2>2. Begins(q)
    BY <1>3 DEF CallbackBegins
  <2> HIDE DEF q
  <2> QED BY <2>1, <2>2, BeginsMoves DEF Moved
<1>4. CASE \E l \in Link, c \in Channel : ConnectBegins(l, c)
  BY <1>1, <1>4
<1>5. CASE \E l \in Link, pc \in {"disconnect", "delete"} : DetachBegins(l, pc)
  BY <1>2, <1>5
<1>6. CASE \E m \in Member, acc \in Account : CallbackBegins(m, acc)
  BY <1>3, <1>6
<1> QED BY <1>4, <1>5, <1>6 DEF SomeBegins

LEMMA StoreMoves ==
  ASSUME ReqType, NEW r \in Request, ConnectStores(r)
  PROVE  /\ ReqType' /\ req[r].pc = "store" /\ req[r].link \in Link /\ req[r].channel \in Channel
         /\ Moved(r, [req[r] EXCEPT !.pc = "seed"])
<1>1. Goes(r, "seed") /\ req[r].pc = "store"
  BY DEF ConnectStores, Running
<1>2. req[r].link \in Link /\ req[r].channel \in Channel
  BY <1>1 DEF ReqType, GoodRequest, LinkPcs, ChannelPcs
<1> QED BY <1>1, <1>2, GoesMoves DEF Pcs, AccountPcs, HookPcs

LEMMA SeedMoves ==
  ASSUME ReqType, NEW r \in Request, ConnectSeeds(r)
  PROVE  /\ ReqType' /\ req[r].pc = "seed" /\ req[r].link \in Link /\ req[r].channel \in Channel
         /\ Moved(r, [req[r] EXCEPT !.pc = "exists", !.todo = Type])
<1>1. req[r].pc = "seed"
  BY DEF ConnectSeeds, Running
<1>2. GoodRequest(req[r]) /\ req[r].link \in Link /\ req[r].channel \in Channel
  BY <1>1 DEF ReqType, GoodRequest, LinkPcs, ChannelPcs
<1>3. GoodRequest([req[r] EXCEPT !.pc = "exists", !.todo = Type])
  BY <1>2, TodoGood, ConnectionAssumption DEF Pcs, AccountPcs
<1>4. req' = [req EXCEPT ![r] = [req[r] EXCEPT !.pc = "exists", !.todo = Type]]
  BY DEF ConnectSeeds, ReqType
<1> QED BY <1>1, <1>2, <1>3, <1>4, OneMoves

LEMMA HookMoves ==
  ASSUME ReqType, NEW r \in Request,
         \/ HookExists(r) \/ HookMissing(r) \/ HookCreated(r) \/ HookRefused(r)
         \/ HookRecorded(r) \/ HookFails(r) \/ RecordFails(r)
  PROVE  /\ ReqType' /\ Running(r, {"exists", "create", "record"})
         /\ HookMissing(r) => Moved(r, [req[r] EXCEPT !.pc = "create"])
         /\ HookCreated(r) => Moved(r, [req[r] EXCEPT !.pc = "record"])
         /\ HookExists(r) \/ HookRefused(r) \/ HookRecorded(r) \/ HookFails(r) \/ RecordFails(r)
              => \/ Rest(r) = {} /\ Moved(r, NoRequest)
                 \/ Rest(r) # {} /\ Moved(r, [req[r] EXCEPT !.pc = "exists", !.todo = Rest(r)])
<1>1. Running(r, {"exists", "create", "record"})
  BY DEF HookExists, HookMissing, HookCreated, HookRefused, HookRecorded, HookFails,
         RecordFails, Running
<1>2. req[r].link \in Link /\ req[r].channel \in Channel /\ req[r].todo # {}
  BY <1>1 DEF Running, ReqType, GoodRequest, LinkPcs, ChannelPcs, HookPcs
<1>3. HookMissing(r) => ReqType' /\ Moved(r, [req[r] EXCEPT !.pc = "create"])
  BY <1>2, GoesMoves DEF HookMissing, Pcs, AccountPcs
<1>4. HookCreated(r) => ReqType' /\ Moved(r, [req[r] EXCEPT !.pc = "record"])
  BY <1>2, GoesMoves DEF HookCreated, Pcs, AccountPcs
<1>5. HookExists(r) \/ HookRefused(r) \/ HookRecorded(r) \/ HookFails(r) \/ RecordFails(r)
        => /\ ReqType'
           /\ \/ Rest(r) = {} /\ Moved(r, NoRequest)
              \/ Rest(r) # {} /\ Moved(r, [req[r] EXCEPT !.pc = "exists", !.todo = Rest(r)])
  <2> SUFFICES ASSUME HookExists(r) \/ HookRefused(r) \/ HookRecorded(r) \/ HookFails(r)
                        \/ RecordFails(r)
               PROVE  /\ ReqType'
                      /\ \/ Rest(r) = {} /\ Moved(r, NoRequest)
                         \/ /\ Rest(r) # {}
                            /\ Moved(r, [req[r] EXCEPT !.pc = "exists", !.todo = Rest(r)])
    OBVIOUS
  <2>1. NextHook(r)
    BY DEF HookExists, HookRefused, HookRecorded, HookFails, RecordFails
  <2> QED BY <1>1, <2>1, NextHookMoves
<1> QED BY <1>1, <1>3, <1>4, <1>5

LEMMA DetachMoves ==
  ASSUME TypeOK, ReqType, NEW r \in Request, DetachStores(r)
  PROVE  /\ ReqType' /\ Running(r, {"disconnect", "delete"}) /\ req[r].link \in Link
         /\ req[r].channel \in Channel \cup {NoChannel}
         /\ req[r].channel = NoChannel  => Moved(r, NoRequest)
         /\ req[r].channel # NoChannel => Moved(r, [req[r] EXCEPT !.pc = "orphaned"])
<1>1. Running(r, {"disconnect", "delete"})
  BY DEF DetachStores, Running
<1>2. req[r].link \in Link /\ req[r].channel \in Channel \cup {NoChannel}
  BY <1>1 DEF Running, ReqType, GoodRequest, LinkPcs, RequestState
<1>3. CASE req[r].channel = NoChannel
  BY <1>1, <1>2, <1>3, EndsMoves DEF DetachStores
<1>4. CASE req[r].channel # NoChannel
  <2>1. Goes(r, "orphaned") /\ req[r].channel \in Channel
    BY <1>2, <1>4 DEF DetachStores
  <2> QED BY <1>1, <1>2, <1>4, <2>1, GoesMoves DEF Pcs, LinkPcs, AccountPcs, HookPcs
<1> QED BY <1>3, <1>4

Recorded(c) == {h \in eventsub : h[1] = c}

LEMMA CleanupMoves ==
  ASSUME ReqType, eventsub \subseteq Channel \X Type, NEW r \in Request,
         CleanupChecks(r) \/ CleanupUnrecords(r) \/ CleanupUnsubscribes(r) \/ CleanupUncaches(r)
           \/ CleanupFails(r)
  PROVE  /\ ReqType' /\ Running(r, {"orphaned", "unrecord", "unsubscribe", "uncache"})
         /\ req[r].channel \in Channel
         /\ \/ /\ Moved(r, NoRequest)
               /\ \/ CleanupChecks(r) /\ req[r].channel \in Connected
                  \/ CleanupUncaches(r) \/ CleanupFails(r)
            \/ /\ CleanupChecks(r) /\ req[r].channel \notin Connected
               /\ Moved(r, [req[r] EXCEPT !.pc = "unrecord"])
            \/ \E pc \in {"unsubscribe", "uncache"}, todo \in SUBSET Type :
                 /\ Moved(r, [req[r] EXCEPT !.pc = pc, !.todo = todo])
                 /\ pc = "uncache" => todo = {}
                 /\ \/ CleanupUnrecords(r) /\ todo = {h[2] : h \in Recorded(req[r].channel)}
                    \/ CleanupUnsubscribes(r) /\ todo = Rest(r)
                    \/ CleanupFails(r) /\ pc = "uncache"
                         /\ Running(r, {"unrecord", "unsubscribe"})
<1>1. Running(r, {"orphaned", "unrecord", "unsubscribe", "uncache"})
  BY DEF CleanupChecks, CleanupUnrecords, CleanupUnsubscribes, CleanupUncaches, CleanupFails,
         Running
<1>2. GoodRequest(req[r]) /\ req[r].channel \in Channel
  BY <1>1 DEF Running, ReqType, GoodRequest, ChannelPcs
<1>3. ASSUME NEW pc \in {"unsubscribe", "uncache"}, NEW todo \in SUBSET Type,
             pc = "unsubscribe" => todo # {},
             req' = [req EXCEPT ![r] = [req[r] EXCEPT !.pc = pc, !.todo = todo]]
      PROVE  ReqType' /\ Moved(r, [req[r] EXCEPT !.pc = pc, !.todo = todo])
  <2>1. GoodRequest([req[r] EXCEPT !.pc = pc, !.todo = todo])
    BY <1>2, <1>3, TodoGood DEF Pcs, LinkPcs, AccountPcs, HookPcs
  <2> QED BY <1>3, <2>1, OneMoves
<1>4. CASE CleanupChecks(r)
  <2>1. CASE req[r].channel \in Connected
    <3>1. Ends(r)
      BY <1>4, <2>1 DEF CleanupChecks
    <3> QED BY <1>1, <1>2, <1>4, <2>1, <3>1, EndsMoves
  <2>2. CASE req[r].channel \notin Connected
    <3>1. Goes(r, "unrecord")
      BY <1>4, <2>2 DEF CleanupChecks
    <3> QED BY <1>1, <1>2, <1>4, <2>2, <3>1, GoesMoves DEF Pcs, LinkPcs, AccountPcs, HookPcs
  <2> QED BY <2>1, <2>2
<1>5. CASE CleanupUnrecords(r)
  <2> DEFINE found == Recorded(req[r].channel)
             todo  == {h[2] : h \in found}
             pc    == IF found = {} THEN "uncache" ELSE "unsubscribe"
  <2>1. todo \in SUBSET Type /\ (found # {} => todo # {}) /\ (found = {} => todo = {})
    BY DEF Recorded
  <2>2. req' = [req EXCEPT ![r] = [req[r] EXCEPT !.pc = pc, !.todo = todo]]
    BY <1>5 DEF CleanupUnrecords, ReqType, Recorded
  <2>3. pc = "uncache" => todo = {}
    BY <2>1
  <2>4. pc \in {"unsubscribe", "uncache"}
    OBVIOUS
  <2>5. todo = {h[2] : h \in Recorded(req[r].channel)}
    OBVIOUS
  <2>6. pc = "unsubscribe" => todo # {}
    BY <2>1
  <2> HIDE DEF todo, pc
  <2>7. ReqType' /\ Moved(r, [req[r] EXCEPT !.pc = pc, !.todo = todo])
    BY <1>3, <2>1, <2>2, <2>4, <2>6
  <2> QED BY <1>1, <1>2, <1>5, <2>1, <2>3, <2>4, <2>5, <2>7
<1>6. CASE CleanupUnsubscribes(r)
  <2> DEFINE pc == IF Rest(r) = {} THEN "uncache" ELSE "unsubscribe"
  <2>1. req[r].pc = "unsubscribe" /\ Rest(r) \in SUBSET Type
    BY <1>6, HookIs DEF CleanupUnsubscribes, Running, HookPcs, Rest
  <2>2. req' = [req EXCEPT ![r] = [req[r] EXCEPT !.pc = pc, !.todo = Rest(r)]]
    BY <1>6, <2>1, <1>2 DEF CleanupUnsubscribes, Rest, ReqType, GoodRequest, RequestState
  <2>3. ReqType' /\ Moved(r, [req[r] EXCEPT !.pc = pc, !.todo = Rest(r)])
    BY <1>3, <2>1, <2>2
  <2> QED BY <1>1, <1>2, <1>6, <2>1, <2>3
<1>7. CASE CleanupUncaches(r)
  <2>1. Ends(r)
    BY <1>7 DEF CleanupUncaches
  <2> QED BY <1>1, <1>2, <1>7, <2>1, EndsMoves
<1>8. CASE CleanupFails(r)
  <2>1. CASE Ends(r)
    BY <1>1, <1>2, <1>8, <2>1, EndsMoves
  <2>2. CASE /\ Running(r, {"unrecord", "unsubscribe"})
             /\ req' = [req EXCEPT ![r].pc = "uncache", ![r].todo = {}]
    <3>1. req' = [req EXCEPT ![r] = [req[r] EXCEPT !.pc = "uncache", !.todo = {}]]
      BY <2>2 DEF ReqType
    <3>2. ReqType' /\ Moved(r, [req[r] EXCEPT !.pc = "uncache", !.todo = {}])
      BY <1>3, <3>1
    <3>3. \E pc \in {"unsubscribe", "uncache"}, todo \in SUBSET Type :
            /\ Moved(r, [req[r] EXCEPT !.pc = pc, !.todo = todo])
            /\ pc = "uncache" => todo = {}
            /\ CleanupFails(r) /\ pc = "uncache" /\ Running(r, {"unrecord", "unsubscribe"})
      <4> WITNESS "uncache" \in {"unsubscribe", "uncache"}
      <4> WITNESS {} \in SUBSET Type
      <4> QED BY <1>8, <2>2, <3>2
    <3> QED BY <1>1, <1>2, <3>2, <3>3
  <2> QED BY <1>8, <2>1, <2>2 DEF CleanupFails, Running
<1> QED BY <1>4, <1>5, <1>6, <1>7, <1>8

LEMMA ConnectFailsMoves ==
  ASSUME ReqType, NEW r \in Request, ConnectFails(r)
  PROVE  /\ ReqType' /\ req[r].pc \in {"seed", "exists"} /\ req[r].channel \in Channel
         /\ Moved(r, NoRequest)
BY EndsMoves DEF ConnectFails, Running, ReqType, GoodRequest, ChannelPcs

LEMMA AccountMoves ==
  ASSUME ReqType, NEW r \in Request,
         \/ AccountTaken(r) \/ AccountKnown(r) \/ AccountNew(r) \/ DeleteOldLink(r)
         \/ InsertRefused(r) \/ CallbackFails(r) \/ Populate(r) \/ PopulateFails(r)
         \/ ApplyInline(r) \/ SendLinked(r)
  PROVE  /\ ReqType' /\ Running(r, AccountPcs)
         /\ req[r].member \in Member /\ req[r].account \in Account
         /\ AccountKnown(r)  => Moved(r, [req[r] EXCEPT !.pc = "populate"])
         /\ AccountNew(r)    => Moved(r, [req[r] EXCEPT !.pc = "replace"])
         /\ DeleteOldLink(r) => Moved(r, [req[r] EXCEPT !.pc = "insert"])
         /\ Populate(r)      => Moved(r, [req[r] EXCEPT !.pc = "apply"])
         /\ (\/ AccountTaken(r) \/ InsertRefused(r) \/ CallbackFails(r) \/ PopulateFails(r)
             \/ ApplyInline(r) \/ SendLinked(r)) => Moved(r, NoRequest)
<1>1. Running(r, AccountPcs)
  BY DEF AccountTaken, AccountKnown, AccountNew, DeleteOldLink, InsertRefused, CallbackFails,
         Populate, PopulateFails, ApplyInline, SendLinked, Running, AccountPcs
<1>2. req[r].member \in Member /\ req[r].account \in Account
  BY <1>1 DEF Running, ReqType, GoodRequest
<1>3. ASSUME NEW pc \in {"populate", "replace", "insert", "apply"}, Goes(r, pc)
      PROVE  ReqType' /\ Moved(r, [req[r] EXCEPT !.pc = pc])
  BY <1>2, <1>3, GoesMoves DEF Pcs, LinkPcs, ChannelPcs, HookPcs
<1>4. AccountKnown(r) => ReqType' /\ Moved(r, [req[r] EXCEPT !.pc = "populate"])
  BY <1>3 DEF AccountKnown
<1>5. AccountNew(r) => ReqType' /\ Moved(r, [req[r] EXCEPT !.pc = "replace"])
  BY <1>3 DEF AccountNew
<1>6. DeleteOldLink(r) => ReqType' /\ Moved(r, [req[r] EXCEPT !.pc = "insert"])
  BY <1>3 DEF DeleteOldLink
<1>7. Populate(r) => ReqType' /\ Moved(r, [req[r] EXCEPT !.pc = "apply"])
  BY <1>3 DEF Populate
<1>8. (\/ AccountTaken(r) \/ InsertRefused(r) \/ CallbackFails(r) \/ PopulateFails(r)
       \/ ApplyInline(r) \/ SendLinked(r)) => ReqType' /\ Moved(r, NoRequest)
  BY EndsMoves DEF AccountTaken, InsertRefused, CallbackFails, PopulateFails, ApplyInline,
                   SendLinked
<1> QED BY <1>1, <1>2, <1>4, <1>5, <1>6, <1>7, <1>8

\* The request goes on to populate, and those after the same account are told.
LEMMA InsertMoves ==
  ASSUME ReqType, NEW r \in Request, InsertNewLink(r)
  PROVE  /\ ReqType' /\ req[r].pc = "insert"
         /\ req[r].member \in Member /\ req[r].account \in Account
         /\ req'[r] = [req[r] EXCEPT !.pc = "populate"]
         /\ \A s \in Request \ {r} :
              /\ req'[s] \in {req[s], [req[s] EXCEPT !.raced = TRUE]}
              /\ Running(s, {"replace", "insert"}) /\ req[s].account = req[r].account
                   => req'[s] = [req[s] EXCEPT !.raced = TRUE]
<1>1. req[r].pc = "insert"
  BY DEF InsertNewLink, Inserted, Running
<1>2. req[r].member \in Member /\ req[r].account \in Account
  BY <1>1 DEF ReqType, GoodRequest, AccountPcs
<1>3. GoodRequest([req[r] EXCEPT !.pc = "populate"])
  BY <1>2, GoesGood DEF Pcs, LinkPcs, ChannelPcs, HookPcs, ReqType
<1>4. ASSUME NEW s \in Request, Running(s, {"replace", "insert"})
      PROVE  GoodRequest([req[s] EXCEPT !.raced = TRUE])
  <2> DEFINE p == [req[s] EXCEPT !.raced = TRUE]
  <2>1. /\ p \in RequestState /\ p.pc = req[s].pc /\ p.link = req[s].link
        /\ p.channel = req[s].channel /\ p.member = req[s].member
        /\ p.account = req[s].account /\ p.todo = req[s].todo
    BY DEF ReqType, GoodRequest, RequestState
  <2>2. p.pc # "idle" /\ GoodRequest(req[s])
    BY <1>4, <2>1 DEF Running, ReqType
  <2> HIDE DEF p
  <2>3. GoodRequest(p)
    BY <2>1, <2>2 DEF GoodRequest
  <2> QED BY <2>3 DEF p
<1>5. \A s \in Request :
        req'[s] = IF s = r THEN [req[s] EXCEPT !.pc = "populate"]
                  ELSE IF Running(s, {"replace", "insert"}) /\ req[s].account = req[r].account
                         THEN [req[s] EXCEPT !.raced = TRUE] ELSE req[s]
  BY DEF InsertNewLink, Proceeds
<1>6. \A s \in Request : GoodRequest(req'[s])
  BY <1>3, <1>4, <1>5 DEF ReqType
<1>7. req' \in [Request -> RequestState]
  <2>1. \A s \in Request : req'[s] \in RequestState
    BY <1>6 DEF GoodRequest
  <2>2. DOMAIN req' = Request /\ req' = [s \in Request |-> req'[s]]
    BY DEF InsertNewLink, Proceeds
  <2> QED BY <2>1, <2>2
<1> QED BY <1>1, <1>2, <1>5, <1>6, <1>7 DEF ReqType

LEMMA LostMoves ==
  ASSUME ReqType, NEW R \in SUBSET Request, Lost(R)
  PROVE  /\ ReqType'
         /\ \A r \in Request : req'[r] = IF r \in R THEN NoRequest ELSE req[r]
<1>1. req' = [r \in Request |-> IF r \in R THEN NoRequest ELSE req[r]]
  BY DEF Lost
<1>2. \A r \in Request : GoodRequest(req'[r])
  BY <1>1, NoRequestGood DEF ReqType
<1>3. \A r \in Request : req'[r] \in RequestState
  BY <1>2 DEF GoodRequest
<1> QED BY <1>1, <1>2, <1>3 DEF ReqType

-----------------------------------------------------------------------------
(* Types                                                                     *)

\* What TypeOK says of all but the requests.
DataType ==
  /\ linked \in [Member -> Account \cup {NoAccount}]
  /\ registered \subseteq Link
  /\ channel \in [Link -> Channel \cup {NoChannel}]
  /\ rows \subseteq Account \X Channel
  /\ oauth_states \subseteq Member \cup Link
  /\ eventsub \subseteq Channel \X Type /\ hooks \subseteq Channel \X Type
  /\ unheard \subseteq Channel \X Type
  /\ strays \subseteq Channel
  /\ unsure \subseteq Account \X Channel
  /\ budget \in [env : 0..MaxEnv, faults : 0..MaxFaults]
  /\ unlinking \subseteq Member
  /\ events \in Seq(Event)
  /\ served \subseteq Member /\ owed \subseteq Member /\ cut \subseteq Member
  /\ \A l \in Link \ registered : channel[l] = NoChannel
  /\ \A m, n \in Member : linked[m] = linked[n] /\ linked[m] # NoAccount => m = n

LEMMA TypeSplit == TypeOK <=> DataType /\ ReqType
BY DEF TypeOK, DataType, ReqType, GoodRequest, Running

LEMMA TypeSplitNext == TypeOK' <=> DataType' /\ ReqType'
BY DEF TypeOK, DataType, ReqType, GoodRequest, Running

LEMMA SpendType ==
  ASSUME NEW kind \in {"env", "faults"}, Spend(kind),
         budget \in [env : 0..MaxEnv, faults : 0..MaxFaults]
  PROVE  budget' \in [env : 0..MaxEnv, faults : 0..MaxFaults]
BY ConnectionAssumption DEF Spend

LEMMA LeftIsChannels == ASSUME DataType, NEW l \in Link PROVE Left(l) \subseteq Channel
BY DEF Left

\* connect_callback up to the task.
LEMMA TypeConnect ==
  ASSUME TypeOK, NEW r \in Request, ConnectStores(r) \/ ConnectSeeds(r) \/ ConnectFails(r),
         UNCHANGED accounts
  PROVE  TypeOK'
<1>0. DataType /\ ReqType
  BY TypeSplit
<1>1. CASE ConnectStores(r)
  <2> DEFINE l == req[r].link
             c == req[r].channel
  <2>1. ReqType' /\ l \in Link /\ c \in Channel
    BY <1>0, <1>1, StoreMoves
  <2>2. /\ channel' \in [Link -> Channel \cup {NoChannel}]
        /\ \A k \in Link \ registered : channel'[k] = NoChannel
    BY <1>0, <1>1, <2>1 DEF ConnectStores, DataType
  <2>3. strays' \subseteq Channel
    BY <1>0, <1>1, <2>1, LeftIsChannels DEF ConnectStores, DataType
  <2>4. unheard' \subseteq Channel \X Type /\ unsure' \subseteq Account \X Channel
    BY <1>0, <1>1, <2>1 DEF ConnectStores, DataType
  <2>5. DataType'
    BY <1>0, <1>1, <2>2, <2>3, <2>4 DEF ConnectStores, DataType, Fine, accounts
  <2> QED BY <2>1, <2>5, TypeSplitNext
<1>2. CASE ConnectSeeds(r)
  <2> DEFINE c   == req[r].channel
             new == {linked[m] : m \in Joined[req[r].link]} \ {NoAccount}
  <2>1. ReqType' /\ c \in Channel /\ req[r].link \in Link
    BY <1>0, <1>2, SeedMoves
  <2>2. new \subseteq Account
    BY <1>0, <2>1, ConnectionAssumption DEF DataType
  <2>3. rows' \subseteq Account \X Channel /\ unsure' \subseteq Account \X Channel
    BY <1>0, <1>2, <2>1, <2>2 DEF ConnectSeeds, DataType
  <2>4. DataType'
    BY <1>0, <1>2, <2>3 DEF ConnectSeeds, DataType, Fine, accounts, channels
  <2> QED BY <2>1, <2>4, TypeSplitNext
<1>3. CASE ConnectFails(r)
  <2>1. ReqType' /\ req[r].channel \in Channel
    BY <1>0, <1>3, ConnectFailsMoves
  <2>2. unheard' \subseteq Channel \X Type /\ unsure' \subseteq Account \X Channel
    BY <1>0, <1>3, <2>1 DEF ConnectFails, DataType
  <2>3. budget' \in [env : 0..MaxEnv, faults : 0..MaxFaults]
    BY <1>0, <1>3, SpendType DEF ConnectFails, Fault, DataType
  <2>4. DataType'
    BY <1>0, <1>3, <2>2, <2>3 DEF ConnectFails, DataType, accounts, channels
  <2> QED BY <2>1, <2>4, TypeSplitNext
<1> QED BY <1>1, <1>2, <1>3

LEMMA TypeHooks ==
  ASSUME TypeOK, NEW r \in Request, UNCHANGED accounts,
         \/ HookExists(r) \/ HookMissing(r) \/ HookCreated(r) \/ HookRefused(r)
         \/ HookRecorded(r) \/ HookFails(r) \/ RecordFails(r)
  PROVE  TypeOK'
<1>0. DataType /\ ReqType
  BY TypeSplit
<1>1. ReqType' /\ Running(r, {"exists", "create", "record"})
  BY <1>0, HookMoves
<1>2. Hook(r) \in Channel \X Type /\ req[r].channel \in Channel
  BY <1>0, <1>1, HookIs DEF Running, HookPcs
<1>3. budget' \in [env : 0..MaxEnv, faults : 0..MaxFaults]
  BY <1>0, SpendType DEF HookExists, HookMissing, HookCreated, HookRefused, HookRecorded,
                         HookFails, RecordFails, Fine, Fault, DataType
<1>4. DataType'
  <2>1. CASE HookExists(r) \/ HookMissing(r) \/ HookRefused(r)
    BY <1>0, <1>3, <2>1 DEF HookExists, HookMissing, HookRefused, DataType, accounts, channels,
                            history
  <2>2. CASE HookCreated(r)
    BY <1>0, <1>2, <1>3, <2>2 DEF HookCreated, DataType, accounts, history
  <2>3. CASE HookRecorded(r)
    BY <1>0, <1>2, <1>3, <2>3 DEF HookRecorded, DataType, accounts
  <2>4. CASE HookFails(r) \/ RecordFails(r)
    BY <1>0, <1>2, <1>3, <2>4 DEF HookFails, RecordFails, DataType, accounts, channels
  <2> QED BY <2>1, <2>2, <2>3, <2>4
<1> QED BY <1>1, <1>4, TypeSplitNext

LEMMA TypeDetach ==
  ASSUME TypeOK, NEW r \in Request, UNCHANGED accounts, DetachStores(r) \/ DeleteFindsNothing(r)
  PROVE  TypeOK'
<1>0. DataType /\ ReqType
  BY TypeSplit
<1>1. CASE DetachStores(r)
  <2>1. ReqType' /\ req[r].link \in Link
    BY <1>0, <1>1, DetachMoves
  <2>2. /\ channel' \in [Link -> Channel \cup {NoChannel}]
        /\ registered' \subseteq Link
        /\ \A k \in Link \ registered' : channel'[k] = NoChannel
    BY <1>0, <1>1, <2>1 DEF DetachStores, Detached, DataType
  <2>3. strays' \subseteq Channel
    BY <1>0, <1>1, <2>1, LeftIsChannels DEF DetachStores, Detached, DataType
  <2>4. DataType'
    BY <1>0, <1>1, <2>2, <2>3 DEF DetachStores, Fine, DataType, accounts
  <2> QED BY <2>1, <2>4, TypeSplitNext
<1>2. CASE DeleteFindsNothing(r)
  <2>1. ReqType'
    BY <1>0, <1>2, EndsMoves DEF DeleteFindsNothing
  <2>2. DataType'
    BY <1>0, <1>2 DEF DeleteFindsNothing, Fine, DataType, accounts, channels, history
  <2> QED BY <2>1, <2>2, TypeSplitNext
<1> QED BY <1>1, <1>2

LEMMA TypeCleanup ==
  ASSUME TypeOK, NEW r \in Request, UNCHANGED accounts,
         CleanupChecks(r) \/ CleanupUnrecords(r) \/ CleanupUnsubscribes(r) \/ CleanupUncaches(r)
           \/ CleanupFails(r)
  PROVE  TypeOK'
<1>0. DataType /\ ReqType
  BY TypeSplit
<1>1. ReqType' /\ req[r].channel \in Channel
  BY <1>0, CleanupMoves DEF DataType
<1>2. budget' \in [env : 0..MaxEnv, faults : 0..MaxFaults]
  BY <1>0, SpendType DEF CleanupChecks, CleanupUnrecords, CleanupUnsubscribes, CleanupUncaches,
                         CleanupFails, Fine, Fault, DataType
<1>3. DataType'
  <2>1. CASE CleanupChecks(r)
    BY <1>0, <1>2, <2>1 DEF CleanupChecks, DataType, accounts, channels, history
  <2>2. CASE CleanupUnrecords(r)
    BY <1>0, <1>2, <2>2 DEF CleanupUnrecords, DataType, accounts, history
  <2>3. CASE CleanupUnsubscribes(r)
    BY <1>0, <1>2, <2>3 DEF CleanupUnsubscribes, DataType, accounts, history
  <2>4. CASE CleanupUncaches(r)
    BY <1>0, <1>2, <2>4 DEF CleanupUncaches, DataType, accounts, channels
  <2>5. CASE CleanupFails(r)
    BY <1>0, <1>1, <1>2, <2>5 DEF CleanupFails, DataType, accounts, channels
  <2> QED BY <2>1, <2>2, <2>3, <2>4, <2>5
<1> QED BY <1>1, <1>3, TypeSplitNext

LEMMA BeginFrame ==
  ASSUME SomeBegins
  PROVE  UNCHANGED <<linked, channels, rows, history>>
BY DEF SomeBegins, ConnectBegins, DetachBegins, CallbackBegins

LEMMA TypeBegins ==
  ASSUME TypeOK, SomeBegins, UNCHANGED accounts
  PROVE  TypeOK'
<1>0. DataType /\ ReqType
  BY TypeSplit
<1>1. ReqType'
  BY <1>0, BeginMoves
<1>2. budget' \in [env : 0..MaxEnv, faults : 0..MaxFaults]
  BY <1>0, SpendType DEF SomeBegins, ConnectBegins, DetachBegins, CallbackBegins, Fine, DataType
<1>3. oauth_states' \subseteq Member \cup Link
  BY <1>0 DEF SomeBegins, ConnectBegins, DetachBegins, CallbackBegins, DataType
<1>4. DataType'
  BY <1>0, <1>2, <1>3, BeginFrame DEF DataType, accounts, channels, history
<1> QED BY <1>1, <1>4, TypeSplitNext

LEMMA ReqFrame == ASSUME ReqType, UNCHANGED req PROVE ReqType'
BY DEF ReqType, GoodRequest

\* What happens between requests.
Outside ==
  \/ \E l \in Link : register(l) \/ OrphanDeleted(l)
  \/ \E h \in hooks : Revoked(h)
  \/ StatesExpire \/ RowsExpire
  \/ \E x \in Member \cup Link : Login(x)

LEMMA TypeOutside ==
  ASSUME TypeOK, UNCHANGED accounts, Outside
  PROVE  TypeOK'
<1>0. DataType /\ ReqType
  BY TypeSplit
<1>1. ReqType'
  BY <1>0, ReqFrame DEF Outside, register, OrphanDeleted, Revoked, StatesExpire, RowsExpire, Login
<1>2. budget' \in [env : 0..MaxEnv, faults : 0..MaxFaults]
  BY <1>0, SpendType DEF Outside, register, OrphanDeleted, Revoked, StatesExpire, RowsExpire, Login,
                         Fine, Fault, DataType
<1>3. DataType'
  <2>1. CASE \E l \in Link : register(l)
    BY <1>0, <1>2, <2>1 DEF register, DataType, accounts, history
  <2>2. CASE \E l \in Link : OrphanDeleted(l)
    <3>1. /\ channel' \in [Link -> Channel \cup {NoChannel}]
          /\ registered' \subseteq Link
          /\ \A k \in Link \ registered' : channel'[k] = NoChannel
          /\ strays' \subseteq Channel
      BY <1>0, <2>2, LeftIsChannels DEF OrphanDeleted, Detached, DataType
    <3> QED BY <1>0, <1>2, <2>2, <3>1 DEF OrphanDeleted, DataType, accounts
  <2>3. CASE \E h \in hooks : Revoked(h)
    BY <1>0, <1>2, <2>3 DEF Revoked, DataType, accounts
  <2>4. CASE StatesExpire
    BY <1>0, <1>2, <2>4 DEF StatesExpire, DataType, accounts, channels, history
  <2>5. CASE RowsExpire
    BY <1>0, <1>2, <2>5 DEF RowsExpire, DataType, accounts, channels, history
  <2>6. CASE \E x \in Member \cup Link : Login(x)
    BY <1>0, <1>2, <2>6 DEF Login, DataType, accounts, channels, history
  <2> QED BY <2>1, <2>2, <2>3, <2>4, <2>5, <2>6 DEF Outside
<1> QED BY <1>1, <1>3, TypeSplitNext

LEMMA TypeAccount ==
  ASSUME TypeOK, NEW r \in Request,
         \/ AccountTaken(r) \/ AccountKnown(r) \/ AccountNew(r) \/ DeleteOldLink(r)
         \/ InsertRefused(r) \/ CallbackFails(r) \/ Populate(r) \/ PopulateFails(r)
         \/ ApplyInline(r) \/ SendLinked(r)
  PROVE  TypeOK'
<1>0. DataType /\ ReqType
  BY TypeSplit
<1>1. ReqType' /\ req[r].member \in Member /\ req[r].account \in Account
  BY <1>0, AccountMoves
<1>2. budget' \in [env : 0..MaxEnv, faults : 0..MaxFaults]
  BY <1>0, SpendType DEF AccountTaken, AccountKnown, AccountNew, DeleteOldLink, InsertRefused,
       CallbackFails, Populate, PopulateFails, ApplyInline, SendLinked, Fine, Fault, DataType
<1>3. DataType'
  <2>1. CASE AccountTaken(r) \/ AccountKnown(r) \/ AccountNew(r)
    BY <1>0, <1>2, <2>1 DEF AccountTaken, AccountKnown, AccountNew, DataType, world, accounts,
                            channels, history
  <2>2. CASE DeleteOldLink(r)
    BY <1>0, <1>1, <1>2, <2>2 DEF DeleteOldLink, DataType, world, accounts, channels, history
  <2>3. CASE InsertRefused(r) \/ CallbackFails(r)
    BY <1>0, <1>1, <1>2, <2>3 DEF InsertRefused, CallbackFails, DataType, world, channels, history
  <2>4. CASE Populate(r)
    BY <1>0, <1>1, <1>2, <2>4 DEF Populate, Earned, DataType, accounts, channels
  <2>5. CASE PopulateFails(r)
    BY <1>0, <1>1, <1>2, <2>5 DEF PopulateFails, DataType, accounts, channels
  <2>6. CASE ApplyInline(r)
    BY <1>0, <1>1, <1>2, <2>6 DEF ApplyInline, Synced, DataType, world, channels, history
  <2>7. CASE SendLinked(r)
    <3>1. [unlinked |-> FALSE, member |-> req[r].member] \in Event
      BY <1>1 DEF Event
    <3>2. events' \in Seq(Event)
      BY <1>0, <2>7, <3>1 DEF SendLinked, DataType
    <3> QED BY <1>0, <1>2, <2>7, <3>2 DEF SendLinked, DataType, world, channels, history
  <2> QED BY <2>1, <2>2, <2>3, <2>4, <2>5, <2>6, <2>7
<1> QED BY <1>1, <1>3, TypeSplitNext

LEMMA TypeInsert ==
  ASSUME TypeOK, NEW r \in Request, InsertNewLink(r)
  PROVE  TypeOK'
<1>0. DataType /\ ReqType
  BY TypeSplit
<1>1. ReqType' /\ req[r].member \in Member /\ req[r].account \in Account
  BY <1>0, InsertMoves
<1>2. /\ linked' = [linked EXCEPT ![req[r].member] = req[r].account]
      /\ LinkedTo(req[r].account) = {}
  BY DEF InsertNewLink, Inserted, Insertable
<1>3. \A m, n \in Member : linked'[m] = linked'[n] /\ linked'[m] # NoAccount => m = n
  BY <1>0, <1>1, <1>2 DEF DataType, LinkedTo
<1>4. DataType'
  BY <1>0, <1>1, <1>2, <1>3 DEF InsertNewLink, Inserted, DataType, world, channels, history, Fine
<1> QED BY <1>1, <1>4, TypeSplitNext

\* Unlinking, and what the events do.
SomeEvent ==
  \/ \E m \in Member : Unlink(m) \/ SendUnlinked(m) \/ Poll(m)
  \/ WorkerTakes \/ WorkerFails

LEMMA TypeEvents ==
  ASSUME TypeOK, SomeEvent
  PROVE  TypeOK'
<1>0. DataType /\ ReqType
  BY TypeSplit
<1>1. ReqType'
  BY <1>0, ReqFrame DEF SomeEvent, Unlink, SendUnlinked, Poll, WorkerTakes, WorkerFails
<1>2. budget' \in [env : 0..MaxEnv, faults : 0..MaxFaults]
  BY <1>0, SpendType DEF SomeEvent, Unlink, SendUnlinked, Poll, WorkerTakes, WorkerFails, Fine, Fault,
                         DataType
<1>3. events' \in Seq(Event)
  <2>1. ASSUME NEW e \in Event, events' = Append(events, e)
        PROVE  events' \in Seq(Event)
    BY <1>0, <2>1 DEF DataType
  <2>2. CASE \E m \in Member : Unlink(m)
    BY <1>0, <2>2 DEF Unlink, DataType
  <2>3. CASE \E m \in Member : SendUnlinked(m)
    <3>1. PICK m \in Member : events' = Append(events, [unlinked |-> TRUE, member |-> m])
      BY <2>3 DEF SendUnlinked
    <3>2. [unlinked |-> TRUE, member |-> m] \in Event
      BY DEF Event
    <3> QED BY <2>1, <3>1, <3>2
  <2>4. CASE \E m \in Member : Poll(m)
    <3>1. PICK m \in Member : events' = Append(events, [unlinked |-> FALSE, member |-> m])
      BY <2>4 DEF Poll, Updated
    <3>2. [unlinked |-> FALSE, member |-> m] \in Event
      BY DEF Event
    <3> QED BY <2>1, <3>1, <3>2
  <2>5. CASE WorkerTakes \/ WorkerFails
    <3>1. events \in Seq(Event) /\ events # <<>> /\ events' = Tail(events)
      BY <1>0, <2>5 DEF WorkerTakes, WorkerFails, DataType
    <3> QED BY <3>1
  <2> QED BY <2>2, <2>3, <2>4, <2>5 DEF SomeEvent
<1>4. served' \subseteq Member
  <2>1. CASE WorkerTakes
    <3>1. Head(events) \in Event
      BY <1>0, <2>1 DEF WorkerTakes, DataType
    <3> QED BY <1>0, <2>1, <3>1 DEF WorkerTakes, Synced, Event, DataType
  <2>2. CASE ~WorkerTakes
    BY <1>0, <2>2 DEF SomeEvent, Unlink, SendUnlinked, Poll, WorkerFails, DataType
  <2> QED BY <2>1, <2>2
<1>5. /\ linked' \in [Member -> Account \cup {NoAccount}]
      /\ \A k, n \in Member : linked'[k] = linked'[n] /\ linked'[k] # NoAccount => k = n
  BY <1>0 DEF SomeEvent, Unlink, SendUnlinked, Poll, WorkerTakes, WorkerFails, DataType
<1>6. unlinking' \subseteq Member /\ owed' \subseteq Member /\ cut' \subseteq Member
  BY <1>0 DEF SomeEvent, Unlink, SendUnlinked, Poll, WorkerTakes, WorkerFails, DataType
<1>7. UNCHANGED <<registered, channel, rows, oauth_states, eventsub, hooks, unheard, strays, unsure>>
  BY DEF SomeEvent, Unlink, SendUnlinked, Poll, WorkerTakes, WorkerFails, world, channels, history
<1>8. DataType'
  BY <1>0, <1>2, <1>3, <1>4, <1>5, <1>6, <1>7 DEF DataType
<1> QED BY <1>1, <1>8, TypeSplitNext

\* What requests that end anywhere leave behind.
LEMMA LostIs ==
  ASSUME ReqType, NEW R \in SUBSET Request, Lost(R)
  PROVE  /\ cut \subseteq cut' /\ unsure \subseteq unsure' /\ unheard \subseteq unheard'
         /\ strays \subseteq strays'
         /\ \A r \in R :
              /\ Running(r, {"insert"}) => req[r].member \in cut'
              /\ Running(r, {"populate"}) => {req[r].account} \X Channel \subseteq unsure'
              /\ Running(r, {"seed"}) => Account \X {req[r].channel} \subseteq unsure'
              /\ Running(r, {"seed", "exists", "create", "record"})
                   => {req[r].channel} \X Type \subseteq unheard'
              /\ Running(r, {"record", "orphaned", "unrecord", "unsubscribe", "uncache"})
                   => req[r].channel \in strays'
<1> DEFINE At(pcs) == {req[r] : r \in {s \in R : Running(s, pcs)}}
<1>1. \A pcs : \A r \in R : Running(r, pcs) => req[r] \in At(pcs)
  OBVIOUS
<1>2. /\ cut' = cut \cup {q.member : q \in At({"insert"})}
      /\ unsure' = unsure \cup (UNION {{q.account} \X Channel : q \in At({"populate"})})
                         \cup (UNION {Account \X {q.channel} : q \in At({"seed"})})
      /\ unheard' = unheard \cup UNION {{q.channel} \X Type :
                                          q \in At({"seed", "exists", "create", "record"})}
      /\ strays' = strays \cup {q.channel : q \in At({"record", "orphaned", "unrecord",
                                                     "unsubscribe", "uncache"})}
  BY DEF Lost
<1> HIDE DEF At
<1>3. cut \subseteq cut' /\ unsure \subseteq unsure' /\ unheard \subseteq unheard'
      /\ strays \subseteq strays'
  BY <1>2
<1> SUFFICES ASSUME NEW r \in R
             PROVE  /\ Running(r, {"insert"}) => req[r].member \in cut'
                    /\ Running(r, {"populate"}) => {req[r].account} \X Channel \subseteq unsure'
                    /\ Running(r, {"seed"}) => Account \X {req[r].channel} \subseteq unsure'
                    /\ Running(r, {"seed", "exists", "create", "record"})
                         => {req[r].channel} \X Type \subseteq unheard'
                    /\ Running(r, {"record", "orphaned", "unrecord", "unsubscribe", "uncache"})
                         => req[r].channel \in strays'
  BY <1>3
<1>4. Running(r, {"insert"}) => req[r].member \in cut'
  BY <1>1, <1>2
<1>5. Running(r, {"populate"}) => {req[r].account} \X Channel \subseteq unsure'
  BY <1>1, <1>2
<1>6. Running(r, {"seed"}) => Account \X {req[r].channel} \subseteq unsure'
  <2> SUFFICES ASSUME Running(r, {"seed"}) PROVE Account \X {req[r].channel} \subseteq unsure'
    OBVIOUS
  <2>1. req[r] \in At({"seed"})
    BY <1>1
  <2>2. Account \X {req[r].channel} \in {Account \X {q.channel} : q \in At({"seed"})}
    BY <2>1
  <2> DEFINE all == {Account \X {q.channel} : q \in At({"seed"})}
  <2>3. UNION all \subseteq unsure'
    BY <1>2
  <2> HIDE DEF all
  <2> QED BY <2>2, <2>3 DEF all
<1>7. Running(r, {"seed", "exists", "create", "record"})
        => {req[r].channel} \X Type \subseteq unheard'
  BY <1>1, <1>2
<1>8. Running(r, {"record", "orphaned", "unrecord", "unsubscribe", "uncache"})
        => req[r].channel \in strays'
  BY <1>1, <1>2
<1> QED BY <1>4, <1>5, <1>6, <1>7, <1>8

LEMMA TypeLost ==
  ASSUME TypeOK, NEW R \in SUBSET Request, Lost(R)
  PROVE  /\ ReqType' /\ cut' \subseteq Member /\ unsure' \subseteq Account \X Channel
         /\ unheard' \subseteq Channel \X Type /\ strays' \subseteq Channel
<1>0. DataType /\ ReqType
  BY TypeSplit
<1> DEFINE At(pcs) == {req[r] : r \in {s \in R : Running(s, pcs)}}
<1>1. ASSUME NEW q \in At({"insert", "populate"}) PROVE q.member \in Member /\ q.account \in Account
  BY <1>0, <1>1 DEF Running, ReqType, GoodRequest, AccountPcs
<1>2. ASSUME NEW q \in At({"seed", "exists", "create", "record", "orphaned", "unrecord",
                           "unsubscribe", "uncache"})
      PROVE  q.channel \in Channel
  BY <1>0, <1>2 DEF Running, ReqType, GoodRequest, ChannelPcs
<1>3. cut' \subseteq Member
  <2>1. cut' = cut \cup {q.member : q \in At({"insert"})}
    BY DEF Lost
  <2>2. \A q \in At({"insert"}) : q.member \in Member
    BY <1>1 DEF Running
  <2> HIDE DEF At
  <2> QED BY <1>0, <2>1, <2>2 DEF DataType
<1>4. unsure' \subseteq Account \X Channel
  <2>1. unsure' = unsure \cup (UNION {{q.account} \X Channel : q \in At({"populate"})})
                         \cup (UNION {Account \X {q.channel} : q \in At({"seed"})})
    BY DEF Lost
  <2>2. /\ \A q \in At({"populate"}) : q.account \in Account
        /\ \A q \in At({"seed"}) : q.channel \in Channel
    BY <1>1, <1>2 DEF Running
  <2> HIDE DEF At
  <2> DEFINE P == UNION {{q.account} \X Channel : q \in At({"populate"})}
             S == UNION {Account \X {q.channel} : q \in At({"seed"})}
  <2>3. P \subseteq Account \X Channel
    BY <2>2
  <2>4. S \subseteq Account \X Channel
    BY <2>2
  <2>5. unsure' = unsure \cup P \cup S
    BY <2>1
  <2> HIDE DEF P, S
  <2> QED BY <1>0, <2>3, <2>4, <2>5 DEF DataType
<1>5. unheard' \subseteq Channel \X Type
  <2>1. unheard' = unheard \cup UNION {{q.channel} \X Type :
                                         q \in At({"seed", "exists", "create", "record"})}
    BY DEF Lost
  <2>2. \A q \in At({"seed", "exists", "create", "record"}) : q.channel \in Channel
    BY <1>2 DEF Running
  <2> HIDE DEF At
  <2> QED BY <1>0, <2>1, <2>2 DEF DataType
<1>6. strays' \subseteq Channel
  <2>1. strays' = strays \cup {q.channel : q \in At({"record", "orphaned", "unrecord",
                                                     "unsubscribe", "uncache"})}
    BY DEF Lost
  <2>2. \A q \in At({"record", "orphaned", "unrecord", "unsubscribe", "uncache"}) :
          q.channel \in Channel
    BY <1>2 DEF Running
  <2> HIDE DEF At
  <2> QED BY <1>0, <2>1, <2>2 DEF DataType
<1> QED BY <1>0, <1>3, <1>4, <1>5, <1>6, LostMoves

LEMMA TypeEnds ==
  ASSUME TypeOK, Restart \/ \E r \in Request : Dropped(r)
  PROVE  TypeOK'
<1>0. DataType
  BY TypeSplit
<1>1. \E R \in SUBSET Request : Lost(R)
  BY DEF Restart, Dropped
<1>2. /\ ReqType' /\ cut' \subseteq Member /\ unsure' \subseteq Account \X Channel
      /\ unheard' \subseteq Channel \X Type /\ strays' \subseteq Channel
  BY <1>1, TypeLost
<1>3. budget' \in [env : 0..MaxEnv, faults : 0..MaxFaults]
  BY <1>0, SpendType DEF Restart, Dropped, Fault, DataType
<1>4. events' \in Seq(Event) /\ unlinking' \subseteq Member
  <2>1. <<>> \in Seq(Event)
    OBVIOUS
  <2> QED BY <1>0, <2>1 DEF Restart, Dropped, DataType
<1>5. UNCHANGED <<linked, registered, channel, eventsub, hooks, rows, oauth_states, served, owed>>
  BY DEF Restart, Dropped, channels
<1>6. DataType'
  BY <1>0, <1>2, <1>3, <1>4, <1>5 DEF DataType
<1> QED BY <1>2, <1>6, TypeSplitNext

LEMMA TypeInit == ASSUME Init PROVE TypeOK
<1>1. DataType
  BY ConnectionAssumption DEF Init, DataType, Connected, LinksOf
<1>2. ReqType
  BY NoRequestGood DEF Init, ReqType, GoodRequest
<1> QED BY <1>1, <1>2, TypeSplit

\* The actions by what the proofs tell apart.
Hooking(r) ==
  \/ HookExists(r) \/ HookMissing(r) \/ HookCreated(r) \/ HookRefused(r)
  \/ HookRecorded(r) \/ HookFails(r) \/ RecordFails(r)

Cleanup(r) ==
  \/ CleanupChecks(r) \/ CleanupUnrecords(r) \/ CleanupUnsubscribes(r) \/ CleanupUncaches(r)
  \/ CleanupFails(r)

Callback(r) ==
  \/ AccountTaken(r) \/ AccountKnown(r) \/ AccountNew(r) \/ DeleteOldLink(r)
  \/ InsertRefused(r) \/ CallbackFails(r) \/ Populate(r) \/ PopulateFails(r)
  \/ ApplyInline(r) \/ SendLinked(r)

LEMMA NextCases ==
  ASSUME Next
  PROVE  \/ SomeBegins /\ UNCHANGED accounts
         \/ \E r \in Request :
              /\ \/ ConnectStores(r) \/ ConnectSeeds(r) \/ ConnectFails(r) \/ Hooking(r)
                 \/ DetachStores(r) \/ DeleteFindsNothing(r) \/ Cleanup(r)
              /\ UNCHANGED accounts
         \/ \E r \in Request : Callback(r) \/ InsertNewLink(r)
         \/ Outside /\ UNCHANGED accounts
         \/ SomeEvent
         \/ Restart \/ \E r \in Request : Dropped(r)
<1>1. CASE ChannelNext /\ UNCHANGED accounts
  BY <1>1 DEF ChannelNext, ChannelStep, ChannelFault, ChannelWorld, SomeBegins, Hooking, Cleanup,
              Outside
<1>2. CASE \E r \in Request :
             AccountStep(r) \/ CallbackFails(r) \/ PopulateFails(r) \/ Dropped(r)
  BY <1>2 DEF AccountStep, Callback
<1>3. CASE \E x \in Member \cup Link : Login(x)
  BY <1>3 DEF Outside, Login
<1>4. CASE \E m \in Member :
             \/ \E acc \in Account : CallbackBegins(m, acc)
             \/ Unlink(m) \/ SendUnlinked(m) \/ Poll(m)
  BY <1>4 DEF SomeBegins, SomeEvent, CallbackBegins
<1>5. CASE WorkerTakes \/ WorkerFails \/ Restart
  BY <1>5 DEF SomeEvent
<1> QED BY <1>1, <1>2, <1>3, <1>4, <1>5 DEF Next

LEMMA TypeStep == ASSUME TypeOK, [Next]_vars PROVE TypeOK'
<1>1. CASE SomeBegins /\ UNCHANGED accounts
  BY <1>1, TypeBegins
<1>2. ASSUME NEW r \in Request, UNCHANGED accounts,
             \/ ConnectStores(r) \/ ConnectSeeds(r) \/ ConnectFails(r) \/ Hooking(r)
             \/ DetachStores(r) \/ DeleteFindsNothing(r) \/ Cleanup(r)
      PROVE  TypeOK'
  BY <1>2, TypeConnect, TypeHooks, TypeDetach, TypeCleanup DEF Hooking, Cleanup
<1>3. ASSUME NEW r \in Request, Callback(r) \/ InsertNewLink(r)
      PROVE  TypeOK'
  BY <1>3, TypeAccount, TypeInsert DEF Callback
<1>4. CASE Outside /\ UNCHANGED accounts
  BY <1>4, TypeOutside
<1>5. CASE SomeEvent
  BY <1>5, TypeEvents
<1>6. CASE Restart \/ \E r \in Request : Dropped(r)
  BY <1>6, TypeEnds
<1>7. CASE UNCHANGED vars
  <2>1. DataType' /\ ReqType'
    BY <1>7, TypeSplit, ReqFrame DEF DataType, vars, world, channels, history, accounts
  <2> QED BY <2>1, TypeSplitNext
<1> QED BY <1>1, <1>2, <1>3, <1>4, <1>5, <1>6, <1>7, NextCases

\* Every table and every request under way stays well formed: no two members have one
\* account, and a link without a row has no channel.
THEOREM TypeCorrect == Spec => []TypeOK
<1>1. Init => TypeOK
  BY TypeInit
<1>2. TypeOK /\ [Next]_vars => TypeOK'
  BY TypeStep
<1> QED BY <1>1, <1>2, PTL DEF Spec
=============================================================================
