------------------------- MODULE ConnectionsProofs -------------------------
(***************************************************************************)
(* What connections promise for every number of members, accounts, links,  *)
(* channels and requests under way: no account is lost but by unlink, the  *)
(* cache has the rows it should have, a connected channel is subscribed    *)
(* to, and one that is left behind is not.                                 *)
(***************************************************************************)
EXTENDS ConnectionsTypeProofs

LEMMA StepData ==
  ASSUME TypeOK
  PROVE  DataType /\ ReqType
BY TypeSplit

\* The fields of a request.
LEMMA RequestFields ==
  ASSUME ReqType, NEW r \in Request
  PROVE  /\ GoodRequest(req[r]) /\ req[r] \in RequestState
         /\ req[r].pc \in Pcs /\ req[r].todo \subseteq Type
         /\ req[r].member \in Member \cup {NoMember}
         /\ req[r].account \in Account \cup {NoAccount}
BY DEF ReqType, GoodRequest, RequestState

-----------------------------------------------------------------------------
(* How requests move, field by field                                         *)

\* The request r goes to pc, with todo left.
MovesTo(r, pc, todo) ==
  /\ req'[r].pc = pc /\ req'[r].todo = todo
  /\ req'[r].link = req[r].link /\ req'[r].channel = req[r].channel
  /\ req'[r].member = req[r].member /\ req'[r].account = req[r].account
  /\ \A s \in Request \ {r} : req'[s] = req[s]

LEMMA MovedOn ==
  ASSUME ReqType, NEW r \in Request, NEW pc, Moved(r, [req[r] EXCEPT !.pc = pc])
  PROVE  MovesTo(r, pc, req[r].todo)
<1> DEFINE p == [req[r] EXCEPT !.pc = pc]
<1>1. /\ p.pc = pc /\ p.todo = req[r].todo /\ p.link = req[r].link /\ p.channel = req[r].channel
      /\ p.member = req[r].member /\ p.account = req[r].account
  BY RequestFields DEF RequestState
<1>2. req'[r] = p /\ \A s \in Request \ {r} : req'[s] = req[s]
  BY DEF Moved
<1> HIDE DEF p
<1> QED BY <1>1, <1>2 DEF MovesTo

LEMMA MovedWith ==
  ASSUME ReqType, NEW r \in Request, NEW pc, NEW todo,
         Moved(r, [req[r] EXCEPT !.pc = pc, !.todo = todo])
  PROVE  MovesTo(r, pc, todo)
<1> DEFINE p == [req[r] EXCEPT !.pc = pc, !.todo = todo]
<1>1. /\ p.pc = pc /\ p.todo = todo /\ p.link = req[r].link /\ p.channel = req[r].channel
      /\ p.member = req[r].member /\ p.account = req[r].account
  BY RequestFields DEF RequestState
<1>2. req'[r] = p /\ \A s \in Request \ {r} : req'[s] = req[s]
  BY DEF Moved
<1> HIDE DEF p
<1> QED BY <1>1, <1>2 DEF MovesTo

LEMMA StoreTo ==
  ASSUME ReqType, NEW r \in Request, ConnectStores(r)
  PROVE  /\ req[r].pc = "store" /\ req[r].link \in Link /\ req[r].channel \in Channel
         /\ MovesTo(r, "seed", req[r].todo)
BY StoreMoves, MovedOn

LEMMA SeedTo ==
  ASSUME ReqType, NEW r \in Request, ConnectSeeds(r)
  PROVE  /\ req[r].pc = "seed" /\ req[r].link \in Link /\ req[r].channel \in Channel
         /\ MovesTo(r, "exists", Type)
BY SeedMoves, MovedWith

LEMMA HookTo ==
  ASSUME ReqType, NEW r \in Request, Hooking(r)
  PROVE  /\ req[r].pc \in {"exists", "create", "record"} /\ req[r].channel \in Channel
         /\ Hook(r) = <<req[r].channel, Hook(r)[2]>> /\ Hook(r)[2] \in req[r].todo
         /\ req[r].todo \subseteq Type
         /\ HookMissing(r) => MovesTo(r, "create", req[r].todo)
         /\ HookCreated(r) => MovesTo(r, "record", req[r].todo)
         /\ HookExists(r) \/ HookRefused(r) \/ HookRecorded(r) \/ HookFails(r) \/ RecordFails(r)
              => \/ Rest(r) = {} /\ Moved(r, NoRequest)
                 \/ Rest(r) # {} /\ MovesTo(r, "exists", Rest(r))
<1>1. /\ req[r].pc \in {"exists", "create", "record"}
      /\ HookMissing(r) => Moved(r, [req[r] EXCEPT !.pc = "create"])
      /\ HookCreated(r) => Moved(r, [req[r] EXCEPT !.pc = "record"])
      /\ HookExists(r) \/ HookRefused(r) \/ HookRecorded(r) \/ HookFails(r) \/ RecordFails(r)
           => \/ Rest(r) = {} /\ Moved(r, NoRequest)
              \/ Rest(r) # {} /\ Moved(r, [req[r] EXCEPT !.pc = "exists", !.todo = Rest(r)])
  BY HookMoves DEF Hooking, Running
<1>2. Running(r, HookPcs)
  BY <1>1 DEF Running, HookPcs
<1>3. HookMissing(r) => MovesTo(r, "create", req[r].todo)
  BY <1>1, MovedOn
<1>4. HookCreated(r) => MovesTo(r, "record", req[r].todo)
  BY <1>1, MovedOn
<1>5. ASSUME Moved(r, [req[r] EXCEPT !.pc = "exists", !.todo = Rest(r)])
      PROVE  MovesTo(r, "exists", Rest(r))
  BY <1>5, MovedWith
<1> QED BY <1>1, <1>2, <1>3, <1>4, <1>5, HookIs DEF Hooking

LEMMA DetachTo ==
  ASSUME TypeOK, NEW r \in Request, DetachStores(r)
  PROVE  /\ req[r].pc \in {"disconnect", "delete"} /\ req[r].link \in Link
         /\ req[r].channel = NoChannel => Moved(r, NoRequest)
         /\ req[r].channel # NoChannel => MovesTo(r, "orphaned", req[r].todo)
<1>0. ReqType
  BY StepData
<1>1. /\ req[r].pc \in {"disconnect", "delete"} /\ req[r].link \in Link
      /\ req[r].channel = NoChannel => Moved(r, NoRequest)
      /\ req[r].channel # NoChannel => Moved(r, [req[r] EXCEPT !.pc = "orphaned"])
  BY <1>0, DetachMoves DEF Running
<1> QED BY <1>0, <1>1, MovedOn

LEMMA CleanupTo ==
  ASSUME TypeOK, NEW r \in Request, Cleanup(r)
  PROVE  /\ req[r].pc \in {"orphaned", "unrecord", "unsubscribe", "uncache"}
         /\ req[r].channel \in Channel
         /\ \/ /\ Moved(r, NoRequest)
               /\ \/ CleanupChecks(r) /\ req[r].channel \in Connected
                  \/ CleanupUncaches(r) \/ CleanupFails(r)
            \/ /\ CleanupChecks(r) /\ req[r].channel \notin Connected
               /\ MovesTo(r, "unrecord", req[r].todo)
            \/ \E pc \in {"unsubscribe", "uncache"}, todo \in SUBSET Type :
                 /\ MovesTo(r, pc, todo)
                 /\ pc = "uncache" => todo = {}
                 /\ \/ CleanupUnrecords(r) /\ todo = {h[2] : h \in Recorded(req[r].channel)}
                    \/ CleanupUnsubscribes(r) /\ todo = Rest(r)
                    \/ CleanupFails(r) /\ pc = "uncache"
                         /\ Running(r, {"unrecord", "unsubscribe"})
<1>0. ReqType /\ eventsub \subseteq Channel \X Type
  BY StepData DEF DataType
<1>1. /\ req[r].pc \in {"orphaned", "unrecord", "unsubscribe", "uncache"}
      /\ req[r].channel \in Channel
      /\ \/ /\ Moved(r, NoRequest)
            /\ \/ CleanupChecks(r) /\ req[r].channel \in Connected
               \/ CleanupUncaches(r) \/ CleanupFails(r)
         \/ /\ CleanupChecks(r) /\ req[r].channel \notin Connected
            /\ Moved(r, [req[r] EXCEPT !.pc = "unrecord"])
         \/ \E pc \in {"unsubscribe", "uncache"}, todo \in SUBSET Type :
              /\ Moved(r, [req[r] EXCEPT !.pc = pc, !.todo = todo])
              /\ pc = "uncache" => todo = {}
              /\ \/ CleanupUnrecords(r) /\ todo = {h[2] : h \in Recorded(req[r].channel)}
                 \/ CleanupUnsubscribes(r) /\ todo = Rest(r)
                 \/ CleanupFails(r) /\ pc = "uncache"
                      /\ Running(r, {"unrecord", "unsubscribe"})
  BY <1>0, CleanupMoves DEF Cleanup, Running
<1>2. Moved(r, [req[r] EXCEPT !.pc = "unrecord"]) => MovesTo(r, "unrecord", req[r].todo)
  BY <1>0, MovedOn
<1>3. \A pc, todo : Moved(r, [req[r] EXCEPT !.pc = pc, !.todo = todo]) => MovesTo(r, pc, todo)
  BY <1>0, MovedWith
<1> QED BY <1>1, <1>2, <1>3

LEMMA UnrecordTo ==
  ASSUME ReqType, NEW r \in Request, CleanupUnrecords(r)
  PROVE  /\ req'[r].channel = req[r].channel /\ req'[r].pc \in {"unsubscribe", "uncache"}
         /\ req'[r].todo = {h[2] : h \in Recorded(req[r].channel)}
         /\ Recorded(req[r].channel) # {} => req'[r].pc = "unsubscribe"
<1> DEFINE todo == {h[2] : h \in Recorded(req[r].channel)}
           pc == IF Recorded(req[r].channel) = {} THEN "uncache" ELSE "unsubscribe"
<1>1. req' = [req EXCEPT ![r] = [req[r] EXCEPT !.pc = pc, !.todo = todo]]
  BY DEF CleanupUnrecords, Recorded, ReqType
<1>2. req'[r] = [req[r] EXCEPT !.pc = pc, !.todo = todo] /\ pc \in {"unsubscribe", "uncache"}
  BY <1>1 DEF ReqType
<1> HIDE DEF todo, pc
<1>3. req'[r].channel = req[r].channel /\ req'[r].pc = pc /\ req'[r].todo = todo
  BY <1>2, RequestFields DEF RequestState
<1> QED BY <1>2, <1>3 DEF todo, pc

LEMMA UnsubscribeTo ==
  ASSUME ReqType, NEW r \in Request, CleanupUnsubscribes(r)
  PROVE  /\ req'[r].channel = req[r].channel /\ req'[r].pc \in {"unsubscribe", "uncache"}
         /\ req'[r].todo = Rest(r)
         /\ Rest(r) # {} => req'[r].pc = "unsubscribe"
<1> DEFINE pc == IF Rest(r) = {} THEN "uncache" ELSE "unsubscribe"
<1>1. req' = [req EXCEPT ![r] = [req[r] EXCEPT !.todo = Rest(r), !.pc = pc]]
  BY DEF CleanupUnsubscribes, Rest, ReqType, Running
<1>2. req'[r] = [req[r] EXCEPT !.todo = Rest(r), !.pc = pc] /\ pc \in {"unsubscribe", "uncache"}
  BY <1>1 DEF ReqType
<1> HIDE DEF pc
<1>3. req'[r].channel = req[r].channel /\ req'[r].pc = pc /\ req'[r].todo = Rest(r)
  BY <1>2, RequestFields DEF RequestState
<1> QED BY <1>2, <1>3 DEF pc

\* How a step of a channel's request moves it.
LEMMA ChannelMoves ==
  ASSUME TypeOK, NEW r \in Request,
         \/ ConnectStores(r) \/ ConnectSeeds(r) \/ ConnectFails(r) \/ Hooking(r)
         \/ DetachStores(r) \/ DeleteFindsNothing(r) \/ Cleanup(r)
  PROVE  /\ req[r].pc \in LinkPcs \cup ChannelPcs
         /\ req'[r].pc \in LinkPcs \cup ChannelPcs \cup {"idle"}
         /\ \A s \in Request \ {r} : req'[s] = req[s]
         /\ linked' = linked
<1>0. ReqType /\ NoRequest.pc = "idle"
  BY StepData, NoRequestGood
<1>1. CASE ConnectStores(r)
  BY <1>0, <1>1, StoreTo DEF MovesTo, LinkPcs, ConnectStores
<1>2. CASE ConnectSeeds(r)
  BY <1>0, <1>2, SeedTo DEF MovesTo, LinkPcs, ConnectSeeds
<1>3. CASE ConnectFails(r)
  BY <1>0, <1>3, ConnectFailsMoves DEF Moved, LinkPcs, ConnectFails
<1>4. CASE Hooking(r)
  <2>1. linked' = linked
    BY <1>4 DEF Hooking, HookExists, HookMissing, HookCreated, HookRefused, HookRecorded,
                HookFails, RecordFails
  <2> QED BY <1>0, <1>4, <2>1, HookTo DEF Hooking, MovesTo, Moved, LinkPcs
<1>5. CASE DetachStores(r)
  BY <1>0, <1>5, DetachTo DEF MovesTo, Moved, LinkPcs, ChannelPcs, DetachStores
<1>6. CASE DeleteFindsNothing(r)
  BY <1>0, <1>6, EndsMoves DEF Moved, LinkPcs, Running, DeleteFindsNothing
<1>7. CASE Cleanup(r)
  <2>1. linked' = linked
    BY <1>7 DEF Cleanup, CleanupChecks, CleanupUnrecords, CleanupUnsubscribes, CleanupUncaches,
                CleanupFails
  <2> QED BY <1>0, <1>7, <2>1, CleanupTo DEF MovesTo, Moved, ChannelPcs
<1> QED BY <1>1, <1>2, <1>3, <1>4, <1>5, <1>6, <1>7

LEMMA InsertFields ==
  ASSUME ReqType, NEW r \in Request, InsertNewLink(r)
  PROVE  /\ req[r].pc = "insert" /\ req[r].member \in Member /\ req[r].account \in Account
         /\ req'[r].pc = "populate" /\ req'[r].member = req[r].member
         /\ req'[r].account = req[r].account
         /\ \A s \in Request \ {r} :
              /\ req'[s].pc = req[s].pc /\ req'[s].member = req[s].member
              /\ req'[s].account = req[s].account /\ req'[s].link = req[s].link
              /\ req'[s].channel = req[s].channel /\ req'[s].todo = req[s].todo
              /\ req[s].raced => req'[s].raced
              /\ Running(s, {"replace", "insert"}) /\ req[s].account = req[r].account
                   => req'[s].raced
<1>1. /\ req[r].pc = "insert" /\ req[r].member \in Member /\ req[r].account \in Account
      /\ req'[r] = [req[r] EXCEPT !.pc = "populate"]
  BY InsertMoves
<1>2. /\ req'[r].pc = "populate" /\ req'[r].member = req[r].member
      /\ req'[r].account = req[r].account
  BY <1>1, RequestFields DEF RequestState
<1>3. ASSUME NEW s \in Request \ {r}
      PROVE  /\ req'[s].pc = req[s].pc /\ req'[s].member = req[s].member
             /\ req'[s].account = req[s].account /\ req'[s].link = req[s].link
             /\ req'[s].channel = req[s].channel /\ req'[s].todo = req[s].todo
             /\ req[s].raced => req'[s].raced
             /\ Running(s, {"replace", "insert"}) /\ req[s].account = req[r].account
                  => req'[s].raced
  <2>1. /\ req'[s] \in {req[s], [req[s] EXCEPT !.raced = TRUE]}
        /\ Running(s, {"replace", "insert"}) /\ req[s].account = req[r].account
             => req'[s] = [req[s] EXCEPT !.raced = TRUE]
    BY InsertMoves
  <2>2. LET p == [req[s] EXCEPT !.raced = TRUE] IN
        /\ p.pc = req[s].pc /\ p.member = req[s].member /\ p.account = req[s].account
        /\ p.link = req[s].link /\ p.channel = req[s].channel /\ p.todo = req[s].todo
        /\ p.raced
    BY RequestFields DEF RequestState
  <2> QED BY <2>1, <2>2
<1> QED BY <1>1, <1>2, <1>3

-----------------------------------------------------------------------------
(* No account is lost but by unlink                                          *)

\* A request after an account that somebody has by now has been told.
RacedTold ==
  \A r \in Request :
    Running(r, {"replace", "insert"}) /\ LinkedTo(req[r].account) # {} => req[r].raced

Kept == RacedTold /\ LinkKept

\* A step that is about no member's account, and moves no request that is.
LEMMA KeptRests ==
  ASSUME Kept, UNCHANGED <<linked, owed, cut>>,
         \A r \in Request :
           \/ req'[r] = req[r]
           \/ ~Running(r, {"replace", "insert"}) /\ req'[r].pc \notin {"replace", "insert"}
  PROVE  Kept'
<1>1. RacedTold'
  BY DEF Kept, RacedTold, Running, LinkedTo
<1>2. LinkKept'
  BY DEF Kept, LinkKept, Running
<1> QED BY <1>1, <1>2 DEF Kept

LEMMA KeptBegins ==
  ASSUME TypeOK, Kept, SomeBegins, UNCHANGED accounts
  PROVE  Kept'
<1>1. PICK r \in Request :
        /\ req[r] = NoRequest /\ \A s \in Request \ {r} : req'[s] = req[s]
        /\ req'[r].pc \in {"store", "disconnect", "delete", "select"}
  BY StepData, BeginMoves
<1>2. UNCHANGED <<linked, owed, cut>>
  BY BeginFrame DEF accounts
<1> QED BY <1>1, <1>2, KeptRests, NoRequestGood DEF Running

LEMMA KeptChannel ==
  ASSUME TypeOK, Kept, NEW r \in Request, UNCHANGED accounts,
         \/ ConnectStores(r) \/ ConnectSeeds(r) \/ ConnectFails(r) \/ Hooking(r)
         \/ DetachStores(r) \/ DeleteFindsNothing(r) \/ Cleanup(r)
  PROVE  Kept'
BY ChannelMoves, KeptRests DEF accounts, Running, LinkPcs, ChannelPcs

LEMMA KeptEnds ==
  ASSUME Kept, UNCHANGED <<linked, owed>>, cut \subseteq cut', NEW r \in Request,
         Moved(r, NoRequest),
         Running(r, {"insert"}) => linked[req[r].member] # NoAccount \/ req[r].member \in cut'
  PROVE  Kept'
<1>1. RacedTold'
  BY NoRequestGood DEF Kept, RacedTold, Running, LinkedTo, Moved
<1>2. LinkKept'
  BY DEF Kept, LinkKept, Running, Moved
<1> QED BY <1>1, <1>2 DEF Kept

LEMMA KeptReplaces ==
  ASSUME TypeOK, Kept, NEW r \in Request, DeleteOldLink(r)
  PROVE  Kept'
<1>0. /\ ReqType /\ GoodRequest(req[r]) /\ linked \in [Member -> Account \cup {NoAccount}]
      /\ req[r].member \in Member /\ Running(r, {"replace"})
      /\ Moved(r, [req[r] EXCEPT !.pc = "insert"])
  BY StepData, RequestFields, AccountMoves DEF DeleteOldLink, DataType
<1>1. /\ linked' = [linked EXCEPT ![req[r].member] = NoAccount]
      /\ owed' = owed /\ cut' = cut
  BY DEF DeleteOldLink, accounts
<1>2. /\ req'[r].pc = "insert" /\ req'[r].member = req[r].member
      /\ req'[r].account = req[r].account /\ req'[r].raced = req[r].raced
      /\ \A s \in Request \ {r} : req'[s] = req[s]
  BY <1>0, Fields DEF Moved
<1>3. RacedTold'
  <2> SUFFICES ASSUME NEW s \in Request, Running(s, {"replace", "insert"})',
                      LinkedTo(req[s].account)' # {}
               PROVE  req[s].raced'
    BY DEF RacedTold
  <2>1. Running(s, {"replace", "insert"}) /\ req'[s].account = req[s].account
        /\ req'[s].raced = req[s].raced
    BY <1>0, <1>2 DEF Running
  <2>2. req[s].account \in Account
    BY <1>0, <2>1 DEF ReqType, GoodRequest, Running, AccountPcs
  <2>3. LinkedTo(req[s].account) # {}
    BY <1>0, <1>1, <2>1, <2>2, ConnectionAssumption DEF LinkedTo
  <2> QED BY <2>1, <2>3 DEF Kept, RacedTold
<1>4. LinkKept'
  <2> SUFFICES ASSUME NEW m \in owed, linked'[m] = NoAccount, m \notin cut
               PROVE  \E s \in Request : Running(s, {"insert"})' /\ req'[s].member = m
    BY <1>1 DEF LinkKept
  <2>1. CASE m = req[r].member
    BY <1>2, <2>1 DEF Running
  <2>2. CASE m # req[r].member
    <3>1. linked[m] = NoAccount
      BY <1>0, <1>1, <2>2
    <3>2. PICK s \in Request : Running(s, {"insert"}) /\ req[s].member = m
      BY <3>1 DEF Kept, LinkKept
    <3> QED BY <1>0, <1>2, <3>2 DEF Running
  <2> QED BY <2>1, <2>2
<1> QED BY <1>3, <1>4 DEF Kept

LEMMA KeptInserts ==
  ASSUME TypeOK, Kept, NEW r \in Request, InsertNewLink(r)
  PROVE  Kept'
<1>0. /\ ReqType /\ linked \in [Member -> Account \cup {NoAccount}]
      /\ req[r].member \in Member /\ req[r].account \in Account
      /\ req[r].pc = "insert"
  BY StepData, InsertFields DEF DataType
<1>1. /\ linked' = [linked EXCEPT ![req[r].member] = req[r].account]
      /\ owed' = owed \cup {req[r].member} /\ cut' = cut \ {req[r].member}
  BY DEF InsertNewLink, Inserted
<1>2. req'[r].pc = "populate"
  BY <1>0, InsertFields
<1>3. \A s \in Request \ {r} :
        /\ req'[s].pc = req[s].pc /\ req'[s].member = req[s].member
        /\ req'[s].account = req[s].account
        /\ req[s].raced => req'[s].raced
        /\ Running(s, {"replace", "insert"}) /\ req[s].account = req[r].account
             => req'[s].raced
  BY <1>0, InsertFields
<1>4. RacedTold'
  <2> SUFFICES ASSUME NEW s \in Request, Running(s, {"replace", "insert"})',
                      LinkedTo(req[s].account)' # {}
               PROVE  req[s].raced'
    BY DEF RacedTold
  <2>1. s # r
    BY <1>2 DEF Running
  <2>2. Running(s, {"replace", "insert"}) /\ req'[s].account = req[s].account
    BY <1>3, <2>1 DEF Running
  <2>3. CASE req[s].account = req[r].account
    BY <1>3, <2>1, <2>2, <2>3
  <2>4. CASE req[s].account # req[r].account
    <3>1. LinkedTo(req[s].account) # {}
      BY <1>0, <1>1, <2>2, <2>4 DEF LinkedTo
    <3> QED BY <1>3, <2>1, <2>2, <3>1 DEF Kept, RacedTold
  <2> QED BY <2>3, <2>4
<1>5. LinkKept'
  <2> SUFFICES ASSUME NEW m \in owed', linked'[m] = NoAccount, m \notin cut'
               PROVE  \E s \in Request : Running(s, {"insert"})' /\ req'[s].member = m
    BY DEF LinkKept
  <2>1. m # req[r].member
    BY <1>0, <1>1, ConnectionAssumption
  <2>2. m \in owed /\ linked[m] = NoAccount /\ m \notin cut
    BY <1>0, <1>1, <2>1
  <2>3. PICK s \in Request : Running(s, {"insert"}) /\ req[s].member = m
    BY <2>2 DEF Kept, LinkKept
  <2>4. s # r
    BY <2>1, <2>3
  <2> QED BY <1>3, <2>3, <2>4 DEF Running
<1> QED BY <1>4, <1>5 DEF Kept

LEMMA KeptCallback ==
  ASSUME TypeOK, Kept, NEW r \in Request, Callback(r)
  PROVE  Kept'
<1>0. /\ ReqType /\ GoodRequest(req[r])
      /\ req[r].member \in Member /\ req[r].account \in Account
  BY StepData, RequestFields, AccountMoves DEF Callback
<1>1. CASE AccountKnown(r) \/ Populate(r)
  <2>1. req'[r].pc \in {"populate", "apply"} /\ \A s \in Request \ {r} : req'[s] = req[s]
    BY <1>0, <1>1, AccountMoves, MovedOn DEF MovesTo
  <2>2. ~Running(r, {"replace", "insert"}) /\ UNCHANGED <<linked, owed, cut>>
    BY <1>1 DEF AccountKnown, Populate, Running, accounts
  <2> QED BY <2>1, <2>2, KeptRests
<1>2. CASE AccountNew(r)
  <2>1. Moved(r, [req[r] EXCEPT !.pc = "replace"])
    BY <1>0, <1>2, AccountMoves
  <2>2. /\ req'[r].pc = "replace" /\ req'[r].account = req[r].account
        /\ \A s \in Request \ {r} : req'[s] = req[s]
    BY <1>0, <2>1, Fields DEF Moved
  <2>3. /\ LinkedTo(req[r].account) = {} /\ Running(r, {"select"})
        /\ UNCHANGED <<linked, owed, cut>>
    BY <1>2 DEF AccountNew, accounts
  <2>4. RacedTold'
    BY <2>2, <2>3 DEF Kept, RacedTold, Running, LinkedTo
  <2>5. LinkKept'
    BY <2>2, <2>3 DEF Kept, LinkKept, Running
  <2> QED BY <2>4, <2>5 DEF Kept
<1>3. CASE DeleteOldLink(r)
  BY <1>3, KeptReplaces
<1>4. CASE AccountTaken(r) \/ PopulateFails(r) \/ ApplyInline(r) \/ SendLinked(r)
  <2>1. Moved(r, NoRequest)
    BY <1>0, <1>4, AccountMoves
  <2>2. ~Running(r, {"insert"}) /\ UNCHANGED <<linked, owed, cut>>
    BY <1>4 DEF AccountTaken, PopulateFails, ApplyInline, SendLinked, Running, accounts
  <2> QED BY <2>1, <2>2, KeptEnds
<1>5. CASE InsertRefused(r)
  <2>1. Moved(r, NoRequest)
    BY <1>0, <1>5, AccountMoves
  <2>2. /\ Running(r, {"insert"}) /\ ~Insertable(r) /\ UNCHANGED <<linked, owed>>
        /\ cut' = IF req[r].raced THEN cut \cup {req[r].member} ELSE cut
    BY <1>5 DEF InsertRefused
  <2>3. CASE req[r].raced
    BY <2>1, <2>2, <2>3, KeptEnds
  <2>4. CASE ~req[r].raced
    <3>1. LinkedTo(req[r].account) = {}
      BY <2>2, <2>4 DEF Kept, RacedTold, Running
    <3>2. linked[req[r].member] # NoAccount
      BY <2>2, <3>1 DEF Insertable
    <3> QED BY <2>1, <2>2, <2>4, <3>2, KeptEnds
  <2> QED BY <2>3, <2>4
<1>6. CASE CallbackFails(r)
  <2>1. Moved(r, NoRequest)
    BY <1>0, <1>6, AccountMoves
  <2>2. /\ UNCHANGED <<linked, owed>> /\ cut \subseteq cut'
        /\ Running(r, {"insert"}) => req[r].member \in cut'
    BY <1>6 DEF CallbackFails
  <2> QED BY <2>1, <2>2, KeptEnds
<1> QED BY <1>1, <1>2, <1>3, <1>4, <1>5, <1>6 DEF Callback

LEMMA KeptEvents ==
  ASSUME TypeOK, Kept, SomeEvent
  PROVE  Kept'
<1>1. ASSUME NEW m \in Member, Unlink(m)
      PROVE  Kept'
  <2>0. ReqType /\ linked \in [Member -> Account \cup {NoAccount}]
    BY StepData DEF DataType
  <2>1. /\ linked' = [linked EXCEPT ![m] = NoAccount] /\ owed' = owed \ {m}
        /\ UNCHANGED <<req, cut>>
    BY <1>1 DEF Unlink
  <2>2. RacedTold'
    <3> SUFFICES ASSUME NEW s \in Request, Running(s, {"replace", "insert"}),
                        LinkedTo(req[s].account)' # {}
                 PROVE  req[s].raced
      BY <2>1 DEF RacedTold, Running
    <3>1. req[s].account \in Account
      BY <2>0 DEF ReqType, GoodRequest, Running, AccountPcs
    <3>2. LinkedTo(req[s].account) # {}
      BY <2>0, <2>1, <3>1, ConnectionAssumption DEF LinkedTo
    <3> QED BY <3>2 DEF Kept, RacedTold
  <2>3. LinkKept'
    BY <2>0, <2>1 DEF Kept, LinkKept, Running
  <2> QED BY <2>2, <2>3 DEF Kept
<1>2. ASSUME UNCHANGED <<linked, owed, cut, req>>
      PROVE  Kept'
  BY <1>2, KeptRests
<1>3. \/ \E m \in Member : Unlink(m)
      \/ UNCHANGED <<linked, owed, cut, req>>
  BY DEF SomeEvent, SendUnlinked, Poll, WorkerTakes, WorkerFails
<1> QED BY <1>1, <1>2, <1>3

LEMMA KeptLost ==
  ASSUME TypeOK, Kept, Restart \/ \E r \in Request : Dropped(r)
  PROVE  Kept'
<1>0. ReqType
  BY StepData
<1>1. PICK R \in SUBSET Request : Lost(R) /\ UNCHANGED <<linked, owed>>
  BY DEF Restart, Dropped
<1>2. /\ \A r \in Request : req'[r] = IF r \in R THEN NoRequest ELSE req[r]
      /\ cut \subseteq cut' /\ \A r \in R : Running(r, {"insert"}) => req[r].member \in cut'
  BY <1>0, <1>1, LostMoves, LostIs
<1>3. RacedTold'
  BY <1>1, <1>2, NoRequestGood DEF Kept, RacedTold, Running, LinkedTo
<1>4. LinkKept'
  BY <1>1, <1>2 DEF Kept, LinkKept, Running
<1> QED BY <1>3, <1>4 DEF Kept

LEMMA KeptStep == ASSUME TypeOK, Kept, [Next]_vars PROVE Kept'
<1>1. CASE SomeBegins /\ UNCHANGED accounts
  BY <1>1, KeptBegins
<1>2. CASE \E r \in Request :
             /\ \/ ConnectStores(r) \/ ConnectSeeds(r) \/ ConnectFails(r) \/ Hooking(r)
                \/ DetachStores(r) \/ DeleteFindsNothing(r) \/ Cleanup(r)
             /\ UNCHANGED accounts
  BY <1>2, KeptChannel
<1>3. CASE \E r \in Request : Callback(r) \/ InsertNewLink(r)
  BY <1>3, KeptCallback, KeptInserts
<1>4. CASE Outside /\ UNCHANGED accounts
  <2>1. UNCHANGED <<linked, owed, cut, req>>
    BY <1>4 DEF Outside, register, OrphanDeleted, Revoked, StatesExpire, RowsExpire, Login,
                accounts
  <2> QED BY <2>1, KeptRests
<1>5. CASE SomeEvent
  BY <1>5, KeptEvents
<1>6. CASE Restart \/ \E r \in Request : Dropped(r)
  BY <1>6, KeptLost
<1>7. CASE UNCHANGED vars
  BY <1>7, KeptRests DEF vars, accounts
<1> QED BY <1>1, <1>2, <1>3, <1>4, <1>5, <1>6, <1>7, NextCases

\* Only unlink takes a member's account away, but for the callbacks that end half-way.
\* It holds because whoever is overtaken on the way to an account has been told
\* (RacedTold): a refused INSERT otherwise means that the member has an account.
THEOREM LinksAreKept == Spec => []LinkKept
<1>1. Init => Kept
  BY NoRequestGood DEF Init, Kept, RacedTold, LinkKept, Running
<1>2. TypeOK /\ TypeOK' /\ Kept /\ [Next]_vars => Kept'
  BY KeptStep
<1>3. Kept => LinkKept
  BY DEF Kept
<1> QED BY <1>1, <1>2, <1>3, TypeCorrect, PTL DEF Spec

-----------------------------------------------------------------------------
(* What connects and disconnects channels                                    *)

LEMMA IsConnected ==
  ASSUME TypeOK, NEW l \in Link, channel[l] # NoChannel
  PROVE  channel[l] \in Channel /\ channel[l] \in Connected
BY StepData DEF DataType, Connected, LinksOf

LEMMA StoreConnects ==
  ASSUME TypeOK, NEW r \in Request, ConnectStores(r)
  PROVE  /\ Connected' \subseteq Connected \cup {req[r].channel}
         /\ req[r].channel \in Connected' \cup strays'
         /\ \A c \in Connected \ Connected' : c \in strays'
         /\ strays \subseteq strays'
<1>0. /\ ReqType /\ channel \in [Link -> Channel \cup {NoChannel}]
      /\ req[r].link \in Link /\ req[r].channel \in Channel
  BY StepData, StoreTo DEF DataType
<1> DEFINE l == req[r].link
           c == req[r].channel
<1>1. /\ channel' = IF l \in registered THEN [channel EXCEPT ![l] = c] ELSE channel
      /\ strays' = strays \cup (IF l \in registered THEN Left(l) \ {c} ELSE {c} \ Connected)
  BY DEF ConnectStores
<1>2. CASE l \in registered
  <2>1. \A k \in Link : channel'[k] = IF k = l THEN c ELSE channel[k]
    BY <1>0, <1>1, <1>2
  <2>2. Connected' \subseteq Connected \cup {c} /\ c \in Connected'
    BY <1>0, <2>1 DEF Connected, LinksOf
  <2>3. ASSUME NEW e \in Connected, e \notin Connected'
        PROVE  e \in Left(l) \ {c}
    <3>1. \A k \in Link \ {l} : channel[k] # e
      BY <2>1, <2>3 DEF Connected, LinksOf
    <3>2. PICK k \in Link : channel[k] = e
      BY DEF Connected, LinksOf
    <3>3. LinksOf(e) = {l}
      BY <3>1, <3>2 DEF LinksOf
    <3> QED BY <2>2, <2>3, <3>3 DEF Left, Connected
  <2> QED BY <1>1, <1>2, <2>2, <2>3
<1>3. CASE l \notin registered
  <2>1. Connected' = Connected
    BY <1>1, <1>3 DEF Connected, LinksOf
  <2> QED BY <1>1, <1>3, <2>1
<1> QED BY <1>2, <1>3

LEMMA DetachDisconnects ==
  ASSUME TypeOK, NEW l \in Link, NEW read, Detached(l, read)
  PROVE  /\ Connected' \subseteq Connected
         /\ \A c \in Connected \ Connected' :
              c \in strays' \/ (c = read /\ ~Connecting(c))
         /\ strays \subseteq strays'
         /\ \A k \in Link : channel'[k] \in {channel[k], NoChannel}
<1>0. channel \in [Link -> Channel \cup {NoChannel}]
  BY StepData DEF DataType
<1>1. /\ channel' = [channel EXCEPT ![l] = NoChannel]
      /\ strays' = strays \cup {c \in Left(l) : c # read \/ Connecting(c)}
  BY DEF Detached
<1>2. \A k \in Link : channel'[k] = IF k = l THEN NoChannel ELSE channel[k]
  BY <1>0, <1>1
<1>3. Connected' \subseteq Connected
  BY <1>2, ConnectionAssumption DEF Connected, LinksOf
<1>4. ASSUME NEW e \in Connected, e \notin Connected'
      PROVE  e \in Left(l)
  <2>1. \A k \in Link \ {l} : channel[k] # e
    BY <1>2, <1>4 DEF Connected, LinksOf
  <2>2. PICK k \in Link : channel[k] = e
    BY DEF Connected, LinksOf
  <2>3. LinksOf(e) = {l}
    BY <2>1, <2>2 DEF LinksOf
  <2> QED BY <2>3 DEF Left, Connected
<1> QED BY <1>1, <1>2, <1>3, <1>4

-----------------------------------------------------------------------------
(* A clean-up that meets a connected channel has been seen                   *)

\* A clean-up that had found the channel abandoned is a named cause for what it takes.
CleanedIsKnown ==
  \A c \in Connected : Cleaning(c) => Account \X {c} \subseteq unsure /\ {c} \X Type \subseteq unheard

CleanPcs == {"unrecord", "unsubscribe", "uncache"}

\* No channel is connected and no clean-up goes on but with what is known already.
LEMMA KnownRests ==
  ASSUME CleanedIsKnown,
         \A c \in Connected' : Cleaning(c)' =>
           /\ c \in Connected /\ Cleaning(c)
           /\ (Account \X {c}) \cap unsure \subseteq unsure'
           /\ ({c} \X Type) \cap unheard \subseteq unheard'
  PROVE  CleanedIsKnown'
BY DEF CleanedIsKnown

\* Which clean-ups there are, when requests change that have none.
LEMMA CleaningRests ==
  ASSUME \A r \in Request :
           \/ req'[r] = req[r]
           \/ req'[r].pc \notin CleanPcs
           \/ req[r].pc \in CleanPcs /\ req'[r].channel = req[r].channel
  PROVE  \A c : Cleaning(c)' => Cleaning(c)
BY DEF Cleaning, Running, CleanPcs

LEMMA KnownChannel ==
  ASSUME TypeOK, CleanedIsKnown, NEW r \in Request,
         \/ ConnectStores(r) \/ ConnectSeeds(r) \/ ConnectFails(r) \/ Hooking(r)
         \/ DetachStores(r) \/ DeleteFindsNothing(r) \/ Cleanup(r)
  PROVE  CleanedIsKnown'
<1>0. ReqType /\ \A s \in Request \ {r} : req'[s] = req[s]
  BY StepData, ChannelMoves
<1>1. CASE ConnectStores(r)
  <2>1. req'[r].pc = "seed"
    BY <1>0, <1>1, StoreTo DEF MovesTo
  <2>2. \A c : Cleaning(c)' => Cleaning(c)
    BY <1>0, <2>1, CleaningRests DEF CleanPcs
  <2>3. /\ Cleaning(req[r].channel) => {req[r].channel} \X Type \subseteq unheard'
                                      /\ Account \X {req[r].channel} \subseteq unsure'
        /\ unheard \subseteq unheard' /\ unsure \subseteq unsure'
    BY <1>1 DEF ConnectStores
  <2>4. Connected' \subseteq Connected \cup {req[r].channel}
    BY <1>1, StoreConnects
  <2> QED BY <2>2, <2>3, <2>4 DEF CleanedIsKnown
<1>2. CASE ConnectSeeds(r)
  <2>1. req'[r].pc = "exists"
    BY <1>0, <1>2, SeedTo DEF MovesTo
  <2>2. \A c : Cleaning(c)' => Cleaning(c)
    BY <1>0, <2>1, CleaningRests DEF CleanPcs
  <2>3. Connected' = Connected /\ unheard' = unheard
    BY <1>2 DEF ConnectSeeds, channels, Connected, LinksOf
  <2>4. ASSUME NEW c, Cleaning(c) PROVE (Account \X {c}) \cap unsure \subseteq unsure'
    BY <1>2, <2>4 DEF ConnectSeeds
  <2> QED BY <2>2, <2>3, <2>4, KnownRests
<1>3. CASE Hooking(r)
  <2>1. req'[r].pc \notin CleanPcs /\ req[r].channel \in Channel
    BY <1>0, <1>3, HookTo, NoRequestGood DEF Hooking, MovesTo, Moved, CleanPcs
  <2>2. \A c : Cleaning(c)' => Cleaning(c)
    BY <1>0, <2>1, CleaningRests
  <2>3. Connected' = Connected /\ unsure' = unsure
    BY <1>3 DEF Hooking, HookExists, HookMissing, HookCreated, HookRefused, HookRecorded,
                HookFails, RecordFails, channels, history, Connected, LinksOf
  <2>4. ASSUME NEW c, Cleaning(c) PROVE ({c} \X Type) \cap unheard \subseteq unheard'
    <3>1. CASE HookRecorded(r)
      <4>1. unheard' = IF Cleaning(req[r].channel) \/ Hook(r) \notin hooks
                         THEN unheard \cup {Hook(r)} ELSE unheard \ {Hook(r)}
        BY <3>1 DEF HookRecorded
      <4>2. Hook(r) = <<req[r].channel, Hook(r)[2]>>
        BY <1>0, <1>3, HookTo
      <4> QED BY <2>4, <4>1, <4>2
    <3>2. CASE ~HookRecorded(r)
      BY <1>3, <3>2 DEF Hooking, HookExists, HookMissing, HookCreated, HookRefused,
                  HookFails, RecordFails, history
    <3> QED BY <3>1, <3>2
  <2> QED BY <2>2, <2>3, <2>4, KnownRests
<1>4. CASE ConnectFails(r) \/ DeleteFindsNothing(r)
  <2>1. req'[r].pc \notin CleanPcs
    BY <1>0, <1>4, ConnectFailsMoves, EndsMoves, NoRequestGood
    DEF Moved, CleanPcs, DeleteFindsNothing
  <2>2. \A c : Cleaning(c)' => Cleaning(c)
    BY <1>0, <2>1, CleaningRests
  <2>3. Connected' = Connected /\ unsure \subseteq unsure' /\ unheard \subseteq unheard'
    BY <1>4 DEF ConnectFails, DeleteFindsNothing, channels, history, Connected, LinksOf
  <2> QED BY <2>2, <2>3, KnownRests
<1>5. CASE DetachStores(r)
  <2>1. req'[r].pc \notin CleanPcs /\ req[r].link \in Link
    BY <1>0, <1>5, DetachTo, NoRequestGood DEF MovesTo, Moved, CleanPcs
  <2>2. \A c : Cleaning(c)' => Cleaning(c)
    BY <1>0, <2>1, CleaningRests
  <2>3. Detached(req[r].link, req[r].channel) /\ unsure' = unsure /\ unheard' = unheard
    BY <1>5 DEF DetachStores
  <2>4. Connected' \subseteq Connected
    BY <2>1, <2>3, DetachDisconnects
  <2> QED BY <2>2, <2>3, <2>4, KnownRests
<1>6. CASE Cleanup(r)
  <2>1. Connected' = Connected /\ unsure' = unsure /\ unheard' = unheard
    BY <1>6 DEF Cleanup, CleanupChecks, CleanupUnrecords, CleanupUnsubscribes, CleanupUncaches,
                CleanupFails, channels, history, Connected, LinksOf
  <2>2. \/ req'[r].pc \notin CleanPcs
        \/ req'[r].channel = req[r].channel /\ req[r].channel \notin Connected
        \/ req'[r].channel = req[r].channel /\ req[r].pc \in CleanPcs
    <3>1. CASE CleanupChecks(r)
      <4>1. req[r].pc = "orphaned"
        BY <3>1 DEF CleanupChecks, Running
      <4> QED BY <1>6, <3>1, <4>1, CleanupTo, NoRequestGood
              DEF MovesTo, Moved, CleanPcs, CleanupUnrecords, CleanupUnsubscribes, Running
    <3>2. CASE ~CleanupChecks(r)
      BY <1>6, <3>2, CleanupTo, NoRequestGood
      DEF MovesTo, Moved, CleanPcs, CleanupUnrecords, CleanupUnsubscribes, Running
    <3> QED BY <3>1, <3>2
  <2>3. \A c \in Connected : Cleaning(c)' => Cleaning(c)
    BY <1>0, <2>2 DEF Cleaning, Running, CleanPcs
  <2> QED BY <2>1, <2>3, KnownRests
<1> QED BY <1>1, <1>2, <1>3, <1>4, <1>5, <1>6

LEMMA KnownAccount ==
  ASSUME TypeOK, CleanedIsKnown, NEW r \in Request, Callback(r) \/ InsertNewLink(r)
  PROVE  CleanedIsKnown'
<1>0. ReqType
  BY StepData
<1>1. Connected' = Connected /\ unheard' = unheard
  BY DEF Callback, AccountTaken, AccountKnown, AccountNew, DeleteOldLink, InsertRefused,
         CallbackFails, Populate, PopulateFails, ApplyInline, SendLinked, InsertNewLink, Inserted,
         world, channels, history, Connected, LinksOf
<1>2. ASSUME NEW c, Cleaning(c) PROVE (Account \X {c}) \cap unsure \subseteq unsure'
  <2>1. CASE Populate(r)
    BY <1>2, <2>1 DEF Populate
  <2>2. CASE ~Populate(r)
    BY <2>2 DEF Callback, AccountTaken, AccountKnown, AccountNew, DeleteOldLink, InsertRefused,
         CallbackFails, PopulateFails, ApplyInline, SendLinked, InsertNewLink, Inserted,
         world, history
  <2> QED BY <2>1, <2>2
<1>3. \A c : Cleaning(c)' => Cleaning(c)
  <2>1. CASE Callback(r)
    <3>1. \/ \E pc \in {"populate", "replace", "insert", "apply"} : MovesTo(r, pc, req[r].todo)
          \/ Moved(r, NoRequest)
      BY <1>0, <2>1, AccountMoves, MovedOn DEF Callback
    <3>2. req'[r].pc \notin CleanPcs /\ \A s \in Request \ {r} : req'[s] = req[s]
      BY <3>1, NoRequestGood DEF MovesTo, Moved, CleanPcs
    <3> QED BY <3>2, CleaningRests
  <2>2. CASE InsertNewLink(r)
    BY <1>0, <2>2, InsertFields, CleaningRests DEF CleanPcs
  <2> QED BY <2>1, <2>2
<1> QED BY <1>1, <1>2, <1>3, KnownRests

LEMMA KnownStep == ASSUME TypeOK, CleanedIsKnown, [Next]_vars PROVE CleanedIsKnown'
<1>0. ReqType
  BY StepData
<1>1. CASE SomeBegins /\ UNCHANGED accounts
  <2>1. \A c : Cleaning(c)' => Cleaning(c)
    BY <1>0, <1>1, BeginMoves, CleaningRests DEF CleanPcs
  <2>2. Connected' = Connected /\ unsure' = unsure /\ unheard' = unheard
    BY <1>1, BeginFrame DEF channels, history, Connected, LinksOf
  <2> QED BY <2>1, <2>2, KnownRests
<1>2. CASE \E r \in Request :
             /\ \/ ConnectStores(r) \/ ConnectSeeds(r) \/ ConnectFails(r) \/ Hooking(r)
                \/ DetachStores(r) \/ DeleteFindsNothing(r) \/ Cleanup(r)
             /\ UNCHANGED accounts
  BY <1>2, KnownChannel
<1>3. CASE \E r \in Request : Callback(r) \/ InsertNewLink(r)
  BY <1>3, KnownAccount
<1>4. CASE Outside /\ UNCHANGED accounts
  <2>1. Connected' \subseteq Connected
    <3>1. CASE \E l \in Link : OrphanDeleted(l)
      BY <3>1, DetachDisconnects DEF OrphanDeleted
    <3>2. CASE channel' = channel
      BY <3>2 DEF Connected, LinksOf
    <3> QED BY <1>4, <3>1, <3>2
            DEF Outside, register, Revoked, StatesExpire, RowsExpire, Login, channels
  <2>2. req' = req /\ unsure' = unsure /\ unheard \subseteq unheard'
    BY <1>4 DEF Outside, register, OrphanDeleted, Revoked, StatesExpire, RowsExpire, Login, history
  <2> QED BY <2>1, <2>2, KnownRests DEF Cleaning, Running
<1>5. CASE SomeEvent \/ UNCHANGED vars
  <2>1. UNCHANGED <<world, req>>
    BY <1>5 DEF SomeEvent, Unlink, SendUnlinked, Poll, WorkerTakes, WorkerFails, vars
  <2> QED BY <2>1, KnownRests DEF Cleaning, Running, world, channels, history, Connected, LinksOf
<1>6. CASE Restart \/ \E r \in Request : Dropped(r)
  <2>1. PICK R \in SUBSET Request : Lost(R) /\ UNCHANGED channels
    BY <1>6 DEF Restart, Dropped, channels
  <2>2. /\ \A r \in Request : req'[r] = IF r \in R THEN NoRequest ELSE req[r]
        /\ unsure \subseteq unsure' /\ unheard \subseteq unheard'
    BY <1>0, <2>1, LostMoves, LostIs
  <2>3. \A c : Cleaning(c)' => Cleaning(c)
    BY <2>2, NoRequestGood, CleaningRests DEF CleanPcs
  <2>4. Connected' = Connected
    BY <2>1 DEF channels, Connected, LinksOf
  <2> QED BY <2>2, <2>3, <2>4, KnownRests
<1> QED BY <1>1, <1>2, <1>3, <1>4, <1>5, <1>6, NextCases

-----------------------------------------------------------------------------
(* The cache is complete                                                     *)

\* The request is about to write the row of the member's account and the channel.
Seeds(r, m, c) ==
  \/ Running(r, {"populate"}) /\ req[r].member = m /\ req[r].account = linked[m]
  \/ Running(r, {"seed"}) /\ req[r].channel = c /\ m \in Joined[req[r].link]

Accounted(m, c) ==
  \/ <<linked[m], c>> \in rows
  \/ <<linked[m], c>> \in unsure
  \/ \E r \in Request : Seeds(r, m, c)

Complete ==
  \A l \in Link : \A m \in Joined[l] :
    linked[m] # NoAccount /\ channel[l] # NoChannel => Accounted(m, channel[l])

LEMMA JoinedAreMembers == ASSUME NEW l \in Link PROVE Joined[l] \subseteq Member
BY ConnectionAssumption

\* A step that connects nothing and links nobody, and writes what the requests that end
\* were about to write, or knows why not.
LEMMA CompleteRests ==
  ASSUME TypeOK, Complete,
         \A m \in Member : linked'[m] \in {linked[m], NoAccount},
         \A l \in Link : channel'[l] \in {channel[l], NoChannel},
         \A x \in rows : x[2] \in Connected => x \in rows' \cup unsure',
         unsure \subseteq rows' \cup unsure',
         \A r \in Request : Running(r, {"populate"}) =>
           \/ /\ Running(r, {"populate"})'
              /\ req'[r].member = req[r].member /\ req'[r].account = req[r].account
           \/ \A l \in Link : req[r].member \in Joined[l] /\ channel[l] # NoChannel
                                => <<req[r].account, channel[l]>> \in rows' \cup unsure',
         \A r \in Request : Running(r, {"seed"}) =>
           \/ /\ Running(r, {"seed"})'
              /\ req'[r].channel = req[r].channel /\ req'[r].link = req[r].link
           \/ \A m \in Joined[req[r].link] : linked[m] # NoAccount
                => <<linked[m], req[r].channel>> \in rows' \cup unsure'
  PROVE  Complete'
<1> SUFFICES ASSUME NEW l \in Link, NEW m \in Joined[l],
                    linked'[m] # NoAccount, channel'[l] # NoChannel
             PROVE  Accounted(m, channel[l])'
  BY DEF Complete
<1>1. m \in Member /\ linked'[m] = linked[m] /\ channel'[l] = channel[l]
  BY JoinedAreMembers
<1>2. Accounted(m, channel[l])
  BY <1>1 DEF Complete
<1>3. channel[l] \in Connected
  BY <1>1, IsConnected
<1>4. CASE <<linked[m], channel[l]>> \in rows \cup unsure
  <2>1. <<linked[m], channel[l]>> \in rows' \cup unsure'
    BY <1>3, <1>4
  <2> QED BY <1>1, <2>1 DEF Accounted
<1>5. ASSUME NEW r \in Request, Seeds(r, m, channel[l])
      PROVE  Accounted(m, channel[l])'
  <2>1. CASE Running(r, {"populate"}) /\ req[r].member = m /\ req[r].account = linked[m]
    BY <1>1, <2>1 DEF Accounted, Seeds
  <2>2. CASE /\ Running(r, {"seed"}) /\ req[r].channel = channel[l]
             /\ m \in Joined[req[r].link]
    BY <1>1, <2>2 DEF Accounted, Seeds
  <2> QED BY <1>5, <2>1, <2>2 DEF Seeds
<1> QED BY <1>2, <1>4, <1>5 DEF Accounted

LEMMA CompleteStores ==
  ASSUME TypeOK, Complete, NEW r \in Request, ConnectStores(r)
  PROVE  Complete'
<1>0. /\ ReqType /\ channel \in [Link -> Channel \cup {NoChannel}]
      /\ req[r].pc = "store" /\ req[r].link \in Link /\ MovesTo(r, "seed", req[r].todo)
  BY StepData, StoreTo DEF DataType
<1>1. /\ channel' = IF req[r].link \in registered
                      THEN [channel EXCEPT ![req[r].link] = req[r].channel] ELSE channel
      /\ linked' = linked /\ rows' = rows /\ unsure \subseteq unsure'
  BY DEF ConnectStores
<1> SUFFICES ASSUME NEW l \in Link, NEW m \in Joined[l],
                    linked'[m] # NoAccount, channel'[l] # NoChannel
             PROVE  Accounted(m, channel[l])'
  BY DEF Complete
<1>2. CASE l = req[r].link /\ l \in registered
  <2>1. Seeds(r, m, channel[l])'
    BY <1>0, <1>1, <1>2 DEF Seeds, MovesTo, Running
  <2> QED BY <2>1 DEF Accounted
<1>3. CASE ~(l = req[r].link /\ l \in registered)
  <2>1. channel'[l] = channel[l]
    BY <1>0, <1>1, <1>3
  <2>2. Accounted(m, channel[l])
    BY <1>1, <2>1 DEF Complete
  <2>3. ASSUME NEW s \in Request, Seeds(s, m, channel[l])
        PROVE  Seeds(s, m, channel[l])'
    BY <1>0, <1>1, <2>1, <2>3 DEF Seeds, MovesTo, Running
  <2> QED BY <1>1, <2>1, <2>2, <2>3 DEF Accounted
<1> QED BY <1>2, <1>3

LEMMA CompleteInserts ==
  ASSUME TypeOK, Complete, NEW r \in Request, InsertNewLink(r)
  PROVE  Complete'
<1>0. /\ ReqType /\ linked \in [Member -> Account \cup {NoAccount}]
      /\ req[r].member \in Member /\ req[r].pc = "insert"
      /\ req'[r].pc = "populate" /\ req'[r].member = req[r].member
      /\ req'[r].account = req[r].account
      /\ \A s \in Request \ {r} :
           /\ req'[s].pc = req[s].pc /\ req'[s].member = req[s].member
           /\ req'[s].account = req[s].account /\ req'[s].link = req[s].link
           /\ req'[s].channel = req[s].channel
  BY StepData, InsertFields DEF DataType
<1>1. /\ linked' = [linked EXCEPT ![req[r].member] = req[r].account]
      /\ channel' = channel /\ rows' = rows /\ unsure' = unsure
  BY DEF InsertNewLink, Inserted, world, channels, history
<1> SUFFICES ASSUME NEW l \in Link, NEW m \in Joined[l],
                    linked'[m] # NoAccount, channel'[l] # NoChannel
             PROVE  Accounted(m, channel[l])'
  BY DEF Complete
<1>2. CASE m = req[r].member
  <2>1. Seeds(r, m, channel[l])'
    BY <1>0, <1>1, <1>2 DEF Seeds, Running
  <2> QED BY <2>1 DEF Accounted
<1>3. CASE m # req[r].member
  <2>1. linked'[m] = linked[m] /\ m \in Member
    BY <1>0, <1>1, <1>3, JoinedAreMembers
  <2>2. Accounted(m, channel[l])
    BY <1>1, <2>1 DEF Complete
  <2>3. ASSUME NEW s \in Request, Seeds(s, m, channel[l])
        PROVE  Seeds(s, m, channel[l])'
    BY <1>0, <1>1, <2>1, <2>3 DEF Seeds, Running
  <2> QED BY <1>1, <2>1, <2>2, <2>3 DEF Accounted
<1> QED BY <1>2, <1>3

LEMMA CompleteChannel ==
  ASSUME TypeOK, CleanedIsKnown, Complete, NEW r \in Request,
         \/ ConnectStores(r) \/ ConnectSeeds(r) \/ ConnectFails(r) \/ Hooking(r)
         \/ DetachStores(r) \/ DeleteFindsNothing(r) \/ Cleanup(r)
  PROVE  Complete'
<1>0. /\ ReqType /\ linked' = linked /\ \A s \in Request \ {r} : req'[s] = req[s]
      /\ rows \subseteq Account \X Channel /\ req[r].pc # "populate"
      /\ linked \in [Member -> Account \cup {NoAccount}]
  BY StepData, ChannelMoves DEF DataType, LinkPcs, ChannelPcs
<1>1. CASE ConnectStores(r)
  BY <1>1, CompleteStores
<1>2. CASE ConnectSeeds(r)
  <2> DEFINE new == {linked[m] : m \in Joined[req[r].link]} \ {NoAccount}
  <2>1. /\ channel' = channel
        /\ rows' = rows \cup (new \X {req[r].channel})
        /\ unsure \subseteq unsure' \cup (new \X {req[r].channel})
    BY <1>2 DEF ConnectSeeds, channels
  <2>2. \A m \in Joined[req[r].link] : linked[m] # NoAccount
          => <<linked[m], req[r].channel>> \in rows'
    BY <2>1
  <2>3. unsure \subseteq rows' \cup unsure' /\ rows \subseteq rows'
    BY <2>1
  <2> HIDE DEF new
  <2> QED BY <1>0, <2>1, <2>2, <2>3, CompleteRests DEF Running
<1>3. CASE ConnectFails(r)
  <2>1. /\ channel' = channel /\ rows' = rows /\ unsure \subseteq unsure'
        /\ Running(r, {"seed"}) => Account \X {req[r].channel} \subseteq unsure'
    BY <1>3 DEF ConnectFails, channels, Running
  <2>2. Running(r, {"seed"}) => \A m \in Joined[req[r].link] : linked[m] # NoAccount
          => <<linked[m], req[r].channel>> \in unsure'
    <3> SUFFICES ASSUME Running(r, {"seed"}), NEW m \in Joined[req[r].link],
                        linked[m] # NoAccount
                 PROVE  <<linked[m], req[r].channel>> \in unsure'
      OBVIOUS
    <3>1. req[r].link \in Link
      BY <1>0 DEF ReqType, GoodRequest, Running, LinkPcs
    <3>2. linked[m] \in Account
      BY <1>0, <3>1, JoinedAreMembers
    <3> QED BY <2>1, <3>2
  <2> QED BY <1>0, <2>1, <2>2, CompleteRests DEF Running
<1>4. CASE CleanupUncaches(r)
  <2>1. /\ Running(r, {"uncache"}) /\ rows' = rows \ (Account \X {req[r].channel})
        /\ channel' = channel /\ unsure' = unsure
    BY <1>4 DEF CleanupUncaches, channels
  <2>2. ASSUME NEW x \in rows, x[2] \in Connected PROVE x \in rows' \cup unsure'
    <3>1. CASE x \in Account \X {req[r].channel}
      <4>1. Cleaning(req[r].channel) /\ req[r].channel \in Connected
        BY <2>1, <2>2, <3>1 DEF Cleaning, Running
      <4> QED BY <2>1, <3>1, <4>1 DEF CleanedIsKnown
    <3> QED BY <2>1, <3>1
  <2> QED BY <1>0, <2>1, <2>2, CompleteRests DEF Running
<1>5. CASE \/ Hooking(r) \/ DetachStores(r) \/ DeleteFindsNothing(r)
           \/ Cleanup(r) /\ ~CleanupUncaches(r)
  <2>1. rows' = rows /\ unsure' = unsure
    BY <1>5 DEF Hooking, HookExists, HookMissing, HookCreated, HookRefused, HookRecorded,
                HookFails, RecordFails, DetachStores, DeleteFindsNothing, Cleanup, CleanupChecks,
                CleanupUnrecords, CleanupUnsubscribes, CleanupFails, channels, history
  <2>2. req[r].pc # "seed"
    BY <1>5 DEF Hooking, HookExists, HookMissing, HookCreated, HookRefused, HookRecorded,
                HookFails, RecordFails, DetachStores, DeleteFindsNothing, Cleanup, CleanupChecks,
                CleanupUnrecords, CleanupUnsubscribes, CleanupFails, Running
  <2>3. \A l \in Link : channel'[l] \in {channel[l], NoChannel}
    <3>1. CASE DetachStores(r)
      BY <1>0, <3>1, DetachTo, DetachDisconnects DEF DetachStores
    <3>2. CASE ~DetachStores(r)
      BY <1>5, <3>2
      DEF Hooking, HookExists, HookMissing, HookCreated, HookRefused, HookRecorded,
          HookFails, RecordFails, DeleteFindsNothing, Cleanup, CleanupChecks,
          CleanupUnrecords, CleanupUnsubscribes, CleanupFails, channels
    <3> QED BY <3>1, <3>2
  <2> QED BY <1>0, <2>1, <2>2, <2>3, CompleteRests DEF Running
<1> QED BY <1>1, <1>2, <1>3, <1>4, <1>5 DEF Cleanup

LEMMA CompleteCallback ==
  ASSUME TypeOK, Complete, NEW r \in Request, Callback(r)
  PROVE  Complete'
<1>0. /\ ReqType /\ linked \in [Member -> Account \cup {NoAccount}]
      /\ channel \in [Link -> Channel \cup {NoChannel}]
      /\ req[r].member \in Member /\ req[r].account \in Account
      /\ Running(r, AccountPcs)
  BY StepData, AccountMoves DEF DataType, Callback
<1>1. req[r].pc # "seed" /\ \A s \in Request \ {r} : req'[s] = req[s]
  BY <1>0, AccountMoves DEF Callback, Moved, Running, AccountPcs
<1>2. channel' = channel
  BY DEF Callback, AccountTaken, AccountKnown, AccountNew, DeleteOldLink, InsertRefused,
         CallbackFails, Populate, PopulateFails, ApplyInline, SendLinked, world, channels
<1>3. \A m \in Member : linked'[m] \in {linked[m], NoAccount}
  BY <1>0 DEF Callback, AccountTaken, AccountKnown, AccountNew, DeleteOldLink, InsertRefused,
         CallbackFails, Populate, PopulateFails, ApplyInline, SendLinked
<1>4. CASE Populate(r)
  <2>1. /\ rows' = rows \cup Earned(r)
        /\ unsure \subseteq unsure' \cup Earned(r)
    BY <1>4 DEF Populate
  <2>2. \A l \in Link : req[r].member \in Joined[l] /\ channel[l] # NoChannel
          => <<req[r].account, channel[l]>> \in Earned(r)
    BY <1>0 DEF Earned
  <2> QED BY <1>1, <1>2, <1>3, <2>1, <2>2, CompleteRests DEF Running
<1>5. CASE PopulateFails(r)
  <2>1. /\ rows' = rows /\ unsure' = unsure \cup ({req[r].account} \X Channel)
    BY <1>5 DEF PopulateFails
  <2>2. \A l \in Link : channel[l] # NoChannel => <<req[r].account, channel[l]>> \in unsure'
    BY <1>0, <2>1
  <2> QED BY <1>1, <1>2, <1>3, <2>1, <2>2, CompleteRests DEF Running
<1>6. CASE ~Populate(r) /\ ~PopulateFails(r)
  <2>1. /\ rows' = rows /\ unsure' = unsure /\ req[r].pc # "populate"
    BY <1>6 DEF Callback, AccountTaken, AccountKnown, AccountNew, DeleteOldLink, InsertRefused,
         CallbackFails, ApplyInline, SendLinked, world, history, Running
  <2> QED BY <1>1, <1>2, <1>3, <2>1, CompleteRests DEF Running
<1> QED BY <1>4, <1>5, <1>6

LEMMA CompleteLost ==
  ASSUME TypeOK, Complete, Restart \/ \E r \in Request : Dropped(r)
  PROVE  Complete'
<1>0. /\ ReqType /\ linked \in [Member -> Account \cup {NoAccount}]
      /\ channel \in [Link -> Channel \cup {NoChannel}]
  BY StepData DEF DataType
<1>1. PICK R \in SUBSET Request : Lost(R) /\ UNCHANGED <<linked, channels, rows>>
  BY DEF Restart, Dropped
<1>2. /\ \A r \in Request : req'[r] = IF r \in R THEN NoRequest ELSE req[r]
      /\ unsure \subseteq unsure'
      /\ \A r \in R :
           /\ Running(r, {"populate"}) => {req[r].account} \X Channel \subseteq unsure'
           /\ Running(r, {"seed"}) => Account \X {req[r].channel} \subseteq unsure'
  BY <1>0, <1>1, LostMoves, LostIs
<1>3. ASSUME NEW r \in R, Running(r, {"populate"}), NEW l \in Link, channel[l] # NoChannel
      PROVE  <<req[r].account, channel[l]>> \in unsure'
  BY <1>0, <1>2, <1>3
<1>4. ASSUME NEW r \in R, Running(r, {"seed"}), NEW m \in Joined[req[r].link],
             linked[m] # NoAccount
      PROVE  <<linked[m], req[r].channel>> \in unsure'
  <2>1. req[r].link \in Link
    BY <1>0, <1>4 DEF ReqType, GoodRequest, Running, LinkPcs
  <2>2. linked[m] \in Account
    BY <1>0, <1>4, <2>1, JoinedAreMembers
  <2> QED BY <1>2, <1>4, <2>2
<1> QED BY <1>1, <1>2, <1>3, <1>4, CompleteRests DEF channels, Running

LEMMA CompleteStep ==
  ASSUME TypeOK, CleanedIsKnown, Complete, [Next]_vars
  PROVE  Complete'
<1>0. /\ ReqType /\ linked \in [Member -> Account \cup {NoAccount}]
      /\ rows \subseteq Account \X Channel
  BY StepData DEF DataType
<1>1. CASE SomeBegins /\ UNCHANGED accounts
  <2>1. PICK r \in Request : req[r] = NoRequest /\ \A s \in Request \ {r} : req'[s] = req[s]
    BY <1>0, <1>1, BeginMoves
  <2>2. req[r].pc = "idle"
    BY <2>1, NoRequestGood
  <2> QED BY <1>1, <2>1, <2>2, BeginFrame, CompleteRests DEF channels, history, Running
<1>2. CASE \E r \in Request :
             /\ \/ ConnectStores(r) \/ ConnectSeeds(r) \/ ConnectFails(r) \/ Hooking(r)
                \/ DetachStores(r) \/ DeleteFindsNothing(r) \/ Cleanup(r)
             /\ UNCHANGED accounts
  BY <1>2, CompleteChannel
<1>3. CASE \E r \in Request : Callback(r) \/ InsertNewLink(r)
  BY <1>3, CompleteCallback, CompleteInserts
<1>4. CASE Outside /\ UNCHANGED accounts
  <2>1. \A l \in Link : channel'[l] \in {channel[l], NoChannel}
    <3>1. CASE \E l \in Link : OrphanDeleted(l)
      BY <3>1, DetachDisconnects DEF OrphanDeleted
    <3>2. CASE channel' = channel
      BY <3>2
    <3> QED BY <1>4, <3>1, <3>2
            DEF Outside, register, Revoked, StatesExpire, RowsExpire, Login, channels
  <2>2. /\ req' = req /\ unsure' = unsure /\ linked' = linked
        /\ \A x \in rows : x[2] \in Connected => x \in rows'
    BY <1>4 DEF Outside, register, OrphanDeleted, Revoked, StatesExpire, RowsExpire, Login, history
  <2> QED BY <2>1, <2>2, CompleteRests DEF Running
<1>5. CASE SomeEvent \/ UNCHANGED vars
  <2>1. UNCHANGED <<world, req>> /\ \A m \in Member : linked'[m] \in {linked[m], NoAccount}
    BY <1>0, <1>5 DEF SomeEvent, Unlink, SendUnlinked, Poll, WorkerTakes, WorkerFails, vars
  <2> QED BY <2>1, CompleteRests DEF Running, world, channels, history
<1>6. CASE Restart \/ \E r \in Request : Dropped(r)
  BY <1>6, CompleteLost
<1> QED BY <1>1, <1>2, <1>3, <1>4, <1>5, <1>6, NextCases

\* A member's row is in the cache whichever of account and channel came first.  It holds
\* because the request that links the second writes the row (Complete), and because a
\* clean-up that would delete it again had found the channel abandoned (CleanedIsKnown).
THEOREM CacheIsComplete == Spec => []CacheComplete
<1>1. Init => CleanedIsKnown /\ Complete
  <2>1. ASSUME Init PROVE CleanedIsKnown
    BY <2>1, NoRequestGood DEF Init, CleanedIsKnown, Cleaning, Running
  <2>2. ASSUME Init PROVE Complete
    BY <2>2 DEF Init, Complete, Accounted
  <2> QED BY <2>1, <2>2
<1>2. TypeOK /\ CleanedIsKnown /\ Complete /\ [Next]_vars => CleanedIsKnown' /\ Complete'
  BY KnownStep, CompleteStep
<1>3. Complete => CacheComplete
  <2> SUFFICES ASSUME Complete, NEW l \in Link, NEW m \in Joined[l],
                      linked[m] # NoAccount, channel[l] # NoChannel
               PROVE  \/ <<linked[m], channel[l]>> \in rows
                      \/ <<linked[m], channel[l]>> \in unsure
                      \/ Populating(m, channel[l])
    BY DEF CacheComplete
  <2> QED BY DEF Complete, Accounted, Seeds, Populating
<1> QED BY <1>1, <1>2, <1>3, TypeCorrect, PTL DEF Spec

-----------------------------------------------------------------------------
(* Connected channels are subscribed to                                      *)

\* The request, or the task it spawns, has still to see to the subscription.
HeardBy(r, c, t) ==
  /\ req[r].channel = c
  /\ \/ req[r].pc = "seed"
     \/ req[r].pc \in {"exists", "create"} /\ t \in req[r].todo
     \/ req[r].pc = "record" /\ t \in Rest(r)

HeardOr(c, t) ==
  \/ <<c, t>> \in hooks \/ <<c, t>> \in unheard
  \/ \E r \in Request : HeardBy(r, c, t)

Heard == \A c \in Connected : \A t \in Type : HeardOr(c, t)

\* A row is about a subscription there is, or there is a cause: "exists" is right.
RecordedIsHeard == eventsub \subseteq hooks \cup unheard

\* A clean-up unsubscribes what has no row any more, unless there is a cause.
UnsubscribedHasNoRow ==
  \A r \in Request : req[r].pc = "unsubscribe" =>
    \A t \in req[r].todo : <<req[r].channel, t>> \in eventsub => <<req[r].channel, t>> \in unheard

Hearing == Heard /\ RecordedIsHeard /\ UnsubscribedHasNoRow

\* A step that takes no subscription away and adds no row, but with a cause.
LEMMA HearingRests ==
  ASSUME Hearing, Connected' \subseteq Connected,
         hooks \subseteq hooks' \cup unheard', unheard \subseteq unheard', eventsub' \subseteq eventsub,
         \A r \in Request :
           \/ /\ req'[r].pc = req[r].pc /\ req'[r].channel = req[r].channel
              /\ req'[r].todo = req[r].todo
           \/ /\ req'[r].pc # "unsubscribe"
              /\ req[r].pc \in {"seed", "exists", "create", "record"}
                   => {req[r].channel} \X Type \subseteq unheard'
  PROVE  Hearing'
<1>1. Heard'
  <2> SUFFICES ASSUME NEW c \in Connected, NEW t \in Type PROVE HeardOr(c, t)'
    BY DEF Heard
  <2>1. HeardOr(c, t)
    BY DEF Hearing, Heard
  <2>2. ASSUME NEW r \in Request, HeardBy(r, c, t) PROVE HeardOr(c, t)'
    <3>1. CASE /\ req'[r].pc = req[r].pc /\ req'[r].channel = req[r].channel
               /\ req'[r].todo = req[r].todo
      <4>1. Rest(r)' = Rest(r)
        BY <3>1 DEF Rest, Hook
      <4> QED BY <2>2, <3>1, <4>1 DEF HeardBy, HeardOr
    <3>2. CASE req[r].pc \in {"seed", "exists", "create", "record"}
                 => {req[r].channel} \X Type \subseteq unheard'
      BY <2>2, <3>2 DEF HeardBy, HeardOr
    <3> QED BY <3>1, <3>2
  <2> QED BY <2>1, <2>2 DEF HeardOr
<1>2. RecordedIsHeard'
  BY DEF Hearing, RecordedIsHeard
<1>3. UnsubscribedHasNoRow'
  BY DEF Hearing, UnsubscribedHasNoRow
<1> QED BY <1>1, <1>2, <1>3 DEF Hearing

LEMMA HearingStores ==
  ASSUME TypeOK, Hearing, NEW r \in Request, ConnectStores(r)
  PROVE  Hearing'
<1>0. ReqType /\ req[r].pc = "store" /\ MovesTo(r, "seed", req[r].todo)
  BY StepData, StoreTo
<1>1. /\ Connected' \subseteq Connected \cup {req[r].channel}
      /\ hooks' = hooks /\ eventsub' = eventsub /\ unheard \subseteq unheard'
  BY StoreConnects DEF ConnectStores
<1>2. Heard'
  <2> SUFFICES ASSUME NEW c \in Connected', NEW t \in Type PROVE HeardOr(c, t)'
    BY DEF Heard
  <2>1. CASE c = req[r].channel
    <3>1. HeardBy(r, c, t)'
      BY <1>0, <2>1 DEF MovesTo, HeardBy
    <3> QED BY <3>1 DEF HeardOr
  <2>2. CASE c # req[r].channel
    <3>1. HeardOr(c, t)
      BY <1>1, <2>2 DEF Hearing, Heard
    <3>2. ASSUME NEW s \in Request, HeardBy(s, c, t) PROVE HeardBy(s, c, t)'
      <4>1. s # r /\ req'[s] = req[s]
        BY <1>0, <3>2 DEF HeardBy, MovesTo
      <4> QED BY <3>2, <4>1 DEF HeardBy, Rest, Hook
    <3> QED BY <1>1, <3>1, <3>2 DEF HeardOr
  <2> QED BY <2>1, <2>2
<1>3. RecordedIsHeard'
  BY <1>1 DEF Hearing, RecordedIsHeard
<1>4. UnsubscribedHasNoRow'
  BY <1>0, <1>1 DEF Hearing, UnsubscribedHasNoRow, MovesTo
<1> QED BY <1>2, <1>3, <1>4 DEF Hearing

\* The task, for a type: what it does keeps or makes the subscription, or is the cause.
LEMMA HearingHooks ==
  ASSUME TypeOK, Hearing, NEW r \in Request, Hooking(r)
  PROVE  Hearing'
<1>0. /\ ReqType
      /\ req[r].pc \in {"exists", "create", "record"} /\ req[r].channel \in Channel
      /\ Hook(r) = <<req[r].channel, Hook(r)[2]>> /\ Hook(r)[2] \in req[r].todo
      /\ Connected' = Connected
  BY StepData, HookTo
  DEF Hooking, HookExists, HookMissing, HookCreated, HookRefused, HookRecorded,
      HookFails, RecordFails, channels, Connected, LinksOf
<1>1. /\ HookMissing(r) => MovesTo(r, "create", req[r].todo)
      /\ HookCreated(r) => MovesTo(r, "record", req[r].todo)
      /\ HookExists(r) \/ HookRefused(r) \/ HookRecorded(r) \/ HookFails(r) \/ RecordFails(r)
           => \/ Rest(r) = {} /\ Moved(r, NoRequest)
              \/ Rest(r) # {} /\ MovesTo(r, "exists", Rest(r))
  BY <1>0, HookTo
<1>2. /\ \A s \in Request \ {r} : req'[s] = req[s]
      /\ req'[r].pc # "unsubscribe"
  BY <1>1, NoRequestGood DEF Hooking, MovesTo, Moved
\* No other subscription loses its row or its cause.
<1>3. /\ hooks \subseteq hooks'
      /\ \A h \in unheard : h \in unheard' \cup hooks
      /\ eventsub' \subseteq eventsub \cup {Hook(r)}
      /\ \A h \in eventsub' : h \notin eventsub => h \in hooks \cup unheard'
  BY DEF Hooking, HookMissing, HookCreated, HookExists, HookRefused, HookRecorded, HookFails,
         RecordFails, channels, history
\* The next type is due; the one the step was about is heard, or was so already.
<1>4. ASSUME NEW c, NEW t \in Type, HeardBy(r, c, t)
      PROVE  HeardOr(c, t)'
  <2>0. c = req[r].channel
    BY <1>4 DEF HeardBy
  <2>1. CASE HookMissing(r)
    <3>1. MovesTo(r, "create", req[r].todo) /\ req[r].pc = "exists"
      BY <1>1, <2>1 DEF HookMissing, Running
    <3>2. HeardBy(r, c, t)'
      BY <1>4, <3>1 DEF HeardBy, MovesTo
    <3> QED BY <3>1, <3>2 DEF HeardOr
  <2>2. CASE HookCreated(r)
    <3>1. MovesTo(r, "record", req[r].todo) /\ req[r].pc = "create"
      BY <1>1, <2>2 DEF HookCreated, Running
    <3>2. hooks' = hooks \cup {Hook(r)}
      BY <2>2 DEF HookCreated
    <3>3. Rest(r)' = Rest(r)
      BY <3>1 DEF Rest, Hook, MovesTo
    <3>4. t \in req[r].todo
      BY <1>4, <3>1 DEF HeardBy
    <3>5. CASE t = Hook(r)[2]
      BY <1>0, <2>0, <3>2, <3>5 DEF HeardOr
    <3>6. CASE t # Hook(r)[2]
      <4>0. t \in Rest(r)'
        BY <3>3, <3>4, <3>6 DEF Rest
      <4>1. HeardBy(r, c, t)'
        BY <2>0, <3>1, <4>0 DEF HeardBy, MovesTo
      <4> QED BY <3>1, <4>1 DEF HeardOr
    <3> QED BY <3>5, <3>6
  <2>3. CASE ~HookMissing(r) /\ ~HookCreated(r)
    <3>1. \/ Rest(r) = {}
          \/ MovesTo(r, "exists", Rest(r))
      BY <1>1, <2>3 DEF Hooking
    <3>2. CASE t \in Rest(r)
      <4>1. HeardBy(r, c, t)'
        BY <2>0, <3>1, <3>2 DEF HeardBy, MovesTo
      <4> QED BY <3>1, <3>2, <4>1 DEF HeardOr
    <3>3. CASE t \notin Rest(r)
      <4>1. t = Hook(r)[2] /\ req[r].pc \in {"exists", "create"}
        BY <1>0, <1>4, <3>3 DEF HeardBy, Rest
      <4>2. Hook(r) \in hooks \cup unheard'
        <5>1. CASE HookExists(r)
          BY <5>1 DEF HookExists, Hearing, RecordedIsHeard, history
        <5>2. CASE HookRefused(r)
          BY <5>2 DEF HookRefused
        <5>3. CASE HookFails(r)
          BY <5>3 DEF HookFails
        <5>4. ~HookRecorded(r) /\ ~RecordFails(r)
          BY <4>1 DEF HookRecorded, RecordFails, Running
        <5> QED BY <2>3, <5>1, <5>2, <5>3, <5>4 DEF Hooking
      <4>3. <<c, t>> = Hook(r)
        BY <1>0, <2>0, <4>1
      <4>4. <<c, t>> \in hooks' \cup unheard'
        BY <1>3, <4>2, <4>3
      <4> QED BY <4>4 DEF HeardOr
    <3> QED BY <3>2, <3>3
  <2> QED BY <2>1, <2>2, <2>3
<1>5. Heard'
  <2> SUFFICES ASSUME NEW c \in Connected, NEW t \in Type PROVE HeardOr(c, t)'
    BY <1>0 DEF Heard
  <2>1. HeardOr(c, t)
    BY DEF Hearing, Heard
  <2>2. ASSUME NEW s \in Request, HeardBy(s, c, t) PROVE HeardOr(c, t)'
    <3>1. CASE s = r
      BY <1>4, <2>2, <3>1
    <3>2. CASE s # r
      <4>1. HeardBy(s, c, t)'
        BY <1>2, <2>2, <3>2 DEF HeardBy, Rest, Hook
      <4> QED BY <4>1 DEF HeardOr
    <3> QED BY <3>1, <3>2
  <2> QED BY <1>3, <2>1, <2>2 DEF HeardOr
<1>6. RecordedIsHeard'
  BY <1>3 DEF Hearing, RecordedIsHeard
<1>7. UnsubscribedHasNoRow'
  <2> SUFFICES ASSUME NEW s \in Request, req'[s].pc = "unsubscribe", NEW t \in req'[s].todo,
                      <<req'[s].channel, t>> \in eventsub'
               PROVE  <<req'[s].channel, t>> \in unheard'
    BY DEF UnsubscribedHasNoRow
  <2>1. s # r /\ req'[s] = req[s] /\ Cleaning(req[s].channel)
    BY <1>2 DEF Cleaning, Running
  <2>2. <<req[s].channel, t>> \in eventsub => <<req[s].channel, t>> \in unheard
    BY <2>1 DEF Hearing, UnsubscribedHasNoRow
  <2>3. CASE HookRecorded(r)
    <3>1. /\ unheard' = IF Cleaning(req[r].channel) \/ Hook(r) \notin hooks
                          THEN unheard \cup {Hook(r)} ELSE unheard \ {Hook(r)}
          /\ eventsub' = eventsub \cup {Hook(r)}
      BY <2>3 DEF HookRecorded
    <3>2. CASE req[s].channel = req[r].channel
      BY <1>0, <2>1, <2>2, <3>1, <3>2
    <3>3. CASE req[s].channel # req[r].channel
      <4>1. <<req[s].channel, t>> # Hook(r)
        BY <1>0, <3>3
      <4> QED BY <2>1, <2>2, <3>1, <4>1
    <3> QED BY <3>2, <3>3
  <2>4. CASE ~HookRecorded(r)
    <3>1. eventsub' = eventsub /\ unheard \subseteq unheard'
      BY <2>4 DEF Hooking, HookMissing, HookCreated, HookExists, HookRefused, HookFails,
                RecordFails, channels, history
    <3> QED BY <2>1, <2>2, <3>1
  <2> QED BY <2>3, <2>4
<1> QED BY <1>5, <1>6, <1>7 DEF Hearing

LEMMA HearingCleans ==
  ASSUME TypeOK, CleanedIsKnown, Hearing, NEW r \in Request, Cleanup(r)
  PROVE  Hearing'
<1>00. Connected' = Connected /\ unheard' = unheard
  BY DEF Cleanup, CleanupChecks, CleanupUnrecords, CleanupUnsubscribes, CleanupUncaches,
         CleanupFails, channels, history, Connected, LinksOf
<1>0. /\ ReqType /\ Connected' = Connected /\ unheard' = unheard
      /\ req[r].pc \in {"orphaned", "unrecord", "unsubscribe", "uncache"}
      /\ \A s \in Request \ {r} : req'[s] = req[s]
  BY <1>00, StepData, CleanupTo, ChannelMoves
<1>1. CASE CleanupUnsubscribes(r)
  <2>1. req[r].pc = "unsubscribe" /\ hooks' = hooks \ {Hook(r)} /\ eventsub' = eventsub
    BY <1>1 DEF CleanupUnsubscribes, Running
  <2>2. /\ Hook(r) = <<req[r].channel, Hook(r)[2]>> /\ Hook(r)[2] \in req[r].todo
        /\ Hook(r) \in Channel \X Type
    BY <1>0, <2>1, HookIs DEF Running, HookPcs
  <2>3. req'[r].channel = req[r].channel /\ req'[r].todo = Rest(r)
        /\ req'[r].pc \in {"unsubscribe", "uncache"}
    BY <1>0, <1>1, UnsubscribeTo
  <2>4. Heard'
    <3> SUFFICES ASSUME NEW c \in Connected, NEW t \in Type PROVE HeardOr(c, t)'
      BY <1>0 DEF Heard
    <3>1. HeardOr(c, t)
      BY DEF Hearing, Heard
    <3>2. CASE c = req[r].channel
      <4>1. Cleaning(c)
        BY <2>1, <3>2 DEF Cleaning, Running
      <4>2. <<c, t>> \in unheard
        BY <4>1 DEF CleanedIsKnown
      <4> QED BY <1>0, <4>2 DEF HeardOr
    <3>3. CASE c # req[r].channel
      <4>1. <<c, t>> \in hooks => <<c, t>> \in hooks'
        BY <2>1, <2>2, <3>3
      <4>2. ASSUME NEW s \in Request, HeardBy(s, c, t) PROVE HeardBy(s, c, t)'
        <5>1. s # r
          BY <3>3, <4>2 DEF HeardBy
        <5> QED BY <1>0, <4>2, <5>1 DEF HeardBy, Rest, Hook
      <4> QED BY <1>0, <3>1, <4>1, <4>2 DEF HeardOr
    <3> QED BY <3>2, <3>3
  <2>5. RecordedIsHeard'
    BY <1>0, <2>1, <2>2 DEF Hearing, RecordedIsHeard, UnsubscribedHasNoRow
  <2>6. UnsubscribedHasNoRow'
    BY <1>0, <2>1, <2>3 DEF Hearing, UnsubscribedHasNoRow, Rest
  <2> QED BY <2>4, <2>5, <2>6 DEF Hearing
<1>2. CASE CleanupUnrecords(r)
  <2>1. hooks' = hooks /\ eventsub' = eventsub \ Recorded(req[r].channel)
        /\ req[r].pc = "unrecord"
    BY <1>2 DEF CleanupUnrecords, Recorded, Running
  <2>2. req'[r].channel = req[r].channel
    BY <1>0, <1>2, UnrecordTo
  <2>3. Heard'
    <3> SUFFICES ASSUME NEW c \in Connected, NEW t \in Type PROVE HeardOr(c, t)'
      BY <1>0 DEF Heard
    <3>1. HeardOr(c, t)
      BY DEF Hearing, Heard
    <3>2. ASSUME NEW s \in Request, HeardBy(s, c, t) PROVE HeardBy(s, c, t)'
      <4>1. s # r
        BY <2>1, <3>2 DEF HeardBy
      <4> QED BY <1>0, <3>2, <4>1 DEF HeardBy, Rest, Hook
    <3> QED BY <1>0, <2>1, <3>1, <3>2 DEF HeardOr
  <2>4. RecordedIsHeard'
    BY <1>0, <2>1 DEF Hearing, RecordedIsHeard
  <2>5. UnsubscribedHasNoRow'
    <3> SUFFICES ASSUME NEW s \in Request, req'[s].pc = "unsubscribe", NEW t \in req'[s].todo,
                        <<req'[s].channel, t>> \in eventsub'
                 PROVE  <<req'[s].channel, t>> \in unheard'
      BY DEF UnsubscribedHasNoRow
    <3>1. s # r
      BY <2>1, <2>2 DEF Recorded
    <3> QED BY <1>0, <2>1, <3>1 DEF Hearing, UnsubscribedHasNoRow
  <2> QED BY <2>3, <2>4, <2>5 DEF Hearing
<1>3. CASE ~CleanupUnsubscribes(r) /\ ~CleanupUnrecords(r)
  <2>1. hooks' = hooks /\ eventsub' = eventsub
    BY <1>3 DEF Cleanup, CleanupChecks, CleanupUncaches, CleanupFails, channels
  <2>2. req'[r].pc # "unsubscribe"
    BY <1>3, CleanupTo, NoRequestGood DEF MovesTo, Moved
  <2>3. req[r].pc \notin {"seed", "exists", "create", "record"}
    BY <1>0
  <2> QED BY <1>0, <2>1, <2>2, <2>3, HearingRests
<1> QED BY <1>1, <1>2, <1>3

LEMMA HearingChannel ==
  ASSUME TypeOK, CleanedIsKnown, Hearing, NEW r \in Request,
         \/ ConnectStores(r) \/ ConnectSeeds(r) \/ ConnectFails(r) \/ Hooking(r)
         \/ DetachStores(r) \/ DeleteFindsNothing(r) \/ Cleanup(r)
  PROVE  Hearing'
<1>0. ReqType /\ \A s \in Request \ {r} : req'[s] = req[s]
  BY StepData, ChannelMoves
<1>1. CASE ConnectStores(r)
  BY <1>1, HearingStores
<1>2. CASE ConnectSeeds(r)
  <2>1. /\ Connected' = Connected /\ hooks' = hooks /\ eventsub' = eventsub
        /\ unheard' = unheard
    BY <1>2 DEF ConnectSeeds, channels, Connected, LinksOf
  <2>2. req[r].pc = "seed" /\ MovesTo(r, "exists", Type)
    BY <1>0, <1>2, SeedTo
  <2>3. Heard'
    <3> SUFFICES ASSUME NEW c \in Connected, NEW t \in Type PROVE HeardOr(c, t)'
      BY <2>1 DEF Heard
    <3>1. HeardOr(c, t)
      BY DEF Hearing, Heard
    <3>2. ASSUME NEW s \in Request, HeardBy(s, c, t) PROVE HeardBy(s, c, t)'
      <4>1. CASE s = r
        BY <2>2, <3>2, <4>1 DEF HeardBy, MovesTo
      <4>2. CASE s # r
        BY <1>0, <3>2, <4>2 DEF HeardBy, Rest, Hook
      <4> QED BY <4>1, <4>2
    <3> QED BY <2>1, <3>1, <3>2 DEF HeardOr
  <2>4. RecordedIsHeard'
    BY <2>1 DEF Hearing, RecordedIsHeard
  <2>5. UnsubscribedHasNoRow'
    BY <2>1, <2>2 DEF Hearing, UnsubscribedHasNoRow, MovesTo
  <2> QED BY <2>3, <2>4, <2>5 DEF Hearing
<1>3. CASE ConnectFails(r)
  <2>1. /\ Connected' = Connected /\ hooks' = hooks /\ eventsub' = eventsub
        /\ unheard' = unheard \cup ({req[r].channel} \X Type)
    BY <1>3 DEF ConnectFails, channels, Connected, LinksOf
  <2>2. req'[r].pc = "idle"
    BY <1>0, <1>3, ConnectFailsMoves, NoRequestGood DEF Moved
  <2> QED BY <1>0, <2>1, <2>2, HearingRests
<1>4. CASE Hooking(r)
  BY <1>4, HearingHooks
<1>5. CASE DetachStores(r)
  <2>1. req[r].pc \in {"disconnect", "delete"} /\ req'[r].pc # "unsubscribe"
    BY <1>5, DetachTo, NoRequestGood DEF MovesTo, Moved
  <2>2. Connected' \subseteq Connected
    BY <1>5, DetachTo, DetachDisconnects DEF DetachStores
  <2>3. hooks' = hooks /\ eventsub' = eventsub /\ unheard' = unheard
    BY <1>5 DEF DetachStores
  <2> QED BY <1>0, <2>1, <2>2, <2>3, HearingRests
<1>6. CASE DeleteFindsNothing(r)
  <2>1. /\ Connected' = Connected /\ hooks' = hooks /\ eventsub' = eventsub
        /\ unheard' = unheard /\ req[r].pc = "delete"
    BY <1>6 DEF DeleteFindsNothing, channels, history, Connected, LinksOf, Running
  <2>2. req'[r].pc = "idle"
    BY <1>0, <1>6, EndsMoves, NoRequestGood DEF Moved, DeleteFindsNothing
  <2> QED BY <1>0, <2>1, <2>2, HearingRests
<1>7. CASE Cleanup(r)
  BY <1>7, HearingCleans
<1> QED BY <1>1, <1>2, <1>3, <1>4, <1>5, <1>6, <1>7

\* How a step of an account's request moves it.
LEMMA AccountTo ==
  ASSUME TypeOK, NEW r \in Request, Callback(r) \/ InsertNewLink(r)
  PROVE  /\ UNCHANGED <<channels, strays, unheard>>
         /\ req[r].pc \in AccountPcs /\ req'[r].pc \in AccountPcs \cup {"idle"}
         /\ \A s \in Request \ {r} :
              req'[s].pc = req[s].pc /\ req'[s].channel = req[s].channel
                /\ req'[s].todo = req[s].todo
<1>0. ReqType
  BY StepData
<1>1. UNCHANGED <<channels, strays, unheard>>
  BY DEF Callback, AccountTaken, AccountKnown, AccountNew, DeleteOldLink, InsertRefused,
         CallbackFails, Populate, PopulateFails, ApplyInline, SendLinked, InsertNewLink, Inserted,
         world, history
<1>2. CASE Callback(r)
  <2>1. \/ \E pc \in {"populate", "replace", "insert", "apply"} : MovesTo(r, pc, req[r].todo)
        \/ Moved(r, NoRequest)
    BY <1>0, <1>2, AccountMoves, MovedOn DEF Callback
  <2>2. req[r].pc \in AccountPcs
    BY <1>0, <1>2, AccountMoves DEF Callback, Running
  <2> QED BY <1>1, <2>1, <2>2, NoRequestGood DEF MovesTo, Moved, AccountPcs
<1>3. CASE InsertNewLink(r)
  BY <1>0, <1>1, <1>3, InsertFields DEF AccountPcs
<1> QED BY <1>2, <1>3

LEMMA HearingStep ==
  ASSUME TypeOK, CleanedIsKnown, Hearing, [Next]_vars
  PROVE  Hearing'
<1>0. ReqType
  BY StepData
<1>1. CASE SomeBegins /\ UNCHANGED accounts
  <2>1. PICK r \in Request :
          /\ req[r] = NoRequest /\ \A s \in Request \ {r} : req'[s] = req[s]
          /\ req'[r].pc \in {"store", "disconnect", "delete", "select"}
    BY <1>0, <1>1, BeginMoves
  <2>2. req[r].pc = "idle"
    BY <2>1, NoRequestGood
  <2>3. /\ Connected' = Connected /\ hooks' = hooks /\ eventsub' = eventsub
        /\ unheard' = unheard
    BY <1>1, BeginFrame DEF channels, history, Connected, LinksOf
  <2> QED BY <2>1, <2>2, <2>3, HearingRests
<1>2. CASE \E r \in Request :
             /\ \/ ConnectStores(r) \/ ConnectSeeds(r) \/ ConnectFails(r) \/ Hooking(r)
                \/ DetachStores(r) \/ DeleteFindsNothing(r) \/ Cleanup(r)
             /\ UNCHANGED accounts
  BY <1>2, HearingChannel
<1>3. ASSUME NEW r \in Request, Callback(r) \/ InsertNewLink(r)
      PROVE  Hearing'
  <2>1. /\ Connected' = Connected /\ hooks' = hooks /\ eventsub' = eventsub
        /\ unheard' = unheard
    BY <1>3, AccountTo DEF channels, Connected, LinksOf
  <2>2. req[r].pc \notin {"seed", "exists", "create", "record"} /\ req'[r].pc # "unsubscribe"
    BY <1>3, AccountTo DEF AccountPcs
  <2> QED BY <1>3, <2>1, <2>2, AccountTo, HearingRests
<1>4. CASE Outside /\ UNCHANGED accounts
  <2>1. Connected' \subseteq Connected
    <3>1. CASE \E l \in Link : OrphanDeleted(l)
      BY <3>1, DetachDisconnects DEF OrphanDeleted
    <3>2. CASE channel' = channel
      BY <3>2 DEF Connected, LinksOf
    <3> QED BY <1>4, <3>1, <3>2
            DEF Outside, register, Revoked, StatesExpire, RowsExpire, Login, channels
  <2>2. /\ req' = req /\ unheard \subseteq unheard' /\ eventsub' \subseteq eventsub
        /\ hooks \subseteq hooks' \cup unheard'
    BY <1>4 DEF Outside, register, OrphanDeleted, Revoked, StatesExpire, RowsExpire, Login,
                history, channels
  <2> QED BY <2>1, <2>2, HearingRests
<1>5. CASE SomeEvent \/ UNCHANGED vars
  <2>1. UNCHANGED <<world, req>>
    BY <1>5 DEF SomeEvent, Unlink, SendUnlinked, Poll, WorkerTakes, WorkerFails, vars
  <2>2. /\ Connected' = Connected /\ hooks' = hooks /\ eventsub' = eventsub
        /\ unheard' = unheard
    BY <2>1 DEF world, channels, history, Connected, LinksOf
  <2> QED BY <2>1, <2>2, HearingRests
<1>6. CASE Restart \/ \E r \in Request : Dropped(r)
  <2>1. PICK R \in SUBSET Request : Lost(R) /\ UNCHANGED channels
    BY <1>6 DEF Restart, Dropped, channels
  <2>2. /\ \A r \in Request : req'[r] = IF r \in R THEN NoRequest ELSE req[r]
        /\ unheard \subseteq unheard'
        /\ \A r \in R : Running(r, {"seed", "exists", "create", "record"})
             => {req[r].channel} \X Type \subseteq unheard'
    BY <1>0, <2>1, LostMoves, LostIs
  <2>3. /\ Connected' = Connected /\ hooks' = hooks /\ eventsub' = eventsub
    BY <2>1 DEF channels, Connected, LinksOf
  <2> QED BY <2>2, <2>3, NoRequestGood, HearingRests DEF Running
<1> QED BY <1>1, <1>2, <1>3, <1>4, <1>5, <1>6, NextCases

\* A connected channel has its subscriptions, however connects and clean-ups overlap, but
\* for the named causes.  It holds because a row is about a subscription there is
\* (RecordedIsHeard), so that finding one is reason enough not to subscribe again.
THEOREM ConnectedAreHeard == Spec => []ConnectedIsHeard
<1>1. Init => CleanedIsKnown /\ Hearing
  <2>1. ASSUME Init PROVE CleanedIsKnown
    BY <2>1, NoRequestGood DEF Init, CleanedIsKnown, Cleaning, Running
  <2>2. ASSUME Init PROVE Hearing
    BY <2>2, NoRequestGood
    DEF Init, Hearing, Heard, HeardOr, RecordedIsHeard, UnsubscribedHasNoRow
  <2> QED BY <2>1, <2>2
<1>2. TypeOK /\ CleanedIsKnown /\ Hearing /\ [Next]_vars => CleanedIsKnown' /\ Hearing'
  BY KnownStep, HearingStep
<1>3. Hearing => ConnectedIsHeard
  <2> SUFFICES ASSUME Hearing, NEW c \in Connected, NEW t \in Type
               PROVE  <<c, t>> \in hooks \/ <<c, t>> \in unheard \/ Connecting(c)
    BY DEF ConnectedIsHeard
  <2>1. HeardOr(c, t)
    BY DEF Hearing, Heard
  <2>2. ASSUME NEW r \in Request, HeardBy(r, c, t) PROVE Connecting(c)
    BY <2>2 DEF HeardBy, Connecting, Running
  <2> QED BY <2>1, <2>2 DEF HeardOr
<1> QED BY <1>1, <1>2, <1>3, TypeCorrect, PTL DEF Spec

-----------------------------------------------------------------------------
(* Abandoned channels are silent                                             *)

ConnectPcs == {"seed", "exists", "create", "record"}

\* A clean-up has still to take the row.
RowBy(r, h) == req[r].channel = h[1] /\ req[r].pc \in {"orphaned", "unrecord"}

\* The subscription is about to get its row, or to be taken.
HookBy(r, h) ==
  /\ req[r].channel = h[1]
  /\ \/ req[r].pc = "record" /\ Hook(r) = h
     \/ req[r].pc = "unsubscribe" /\ h[2] \in req[r].todo

\* A connect that goes on about a channel nobody has any more is known.
LateIsStray == \A r \in Request : req[r].pc \in ConnectPcs => req[r].channel \in Connected \cup strays

RowsTended ==
  \A h \in eventsub : h[1] \in Connected \cup strays \/ \E r \in Request : RowBy(r, h)

HooksTended ==
  \A h \in hooks \ eventsub : h[1] \in strays \/ \E r \in Request : HookBy(r, h)

Tended == LateIsStray /\ RowsTended /\ HooksTended

\* A step that leaves no channel, row or subscription to nobody.
LEMMA TendedRests ==
  ASSUME Tended,
         \A c \in Connected \cup strays :
           \/ c \in Connected' \cup strays'
           \/ /\ \A r \in Request : req[r].pc \in ConnectPcs => req[r].channel # c
              /\ \/ \E r \in Request : req'[r].channel = c /\ req'[r].pc = "orphaned"
                 \/ \A h \in eventsub' : h[1] # c,
         \A c \in strays : c \in strays' \/ \A h \in hooks' : h[1] # c,
         \A h \in eventsub' : h \in eventsub \/ h[1] \in Connected' \cup strays',
         \A h \in hooks' \ eventsub' : h \in hooks \ eventsub \/ \E r \in Request : HookBy(r, h)',
         \A r \in Request : req'[r].pc \in ConnectPcs =>
           \/ req'[r].channel \in Connected' \cup strays'
           \/ req[r].pc \in ConnectPcs /\ req'[r].channel = req[r].channel,
         \A r \in Request : \A h \in eventsub' :
           RowBy(r, h) => RowBy(r, h)' \/ h[1] \in Connected' \cup strays',
         \A r \in Request : \A h \in hooks' \ eventsub' :
           HookBy(r, h) => HookBy(r, h)' \/ h[1] \in strays'
  PROVE  Tended'
<1>1. LateIsStray'
  BY DEF Tended, LateIsStray
<1>2. RowsTended'
  <2> SUFFICES ASSUME NEW h \in eventsub', h[1] \notin Connected' \cup strays'
               PROVE  \E r \in Request : RowBy(r, h)'
    BY DEF RowsTended
  <2>1. CASE h[1] \in Connected \cup strays
    <3>1. PICK r \in Request : req'[r].channel = h[1] /\ req'[r].pc = "orphaned"
      BY <2>1
    <3>2. RowBy(r, h)'
      BY <3>1 DEF RowBy
    <3> QED BY <3>2
  <2>2. CASE h[1] \notin Connected \cup strays
    <3>1. h \in eventsub
      OBVIOUS
    <3>2. PICK r \in Request : RowBy(r, h)
      BY <2>2, <3>1 DEF Tended, RowsTended
    <3> QED BY <3>2
  <2> QED BY <2>1, <2>2
<1>3. HooksTended'
  <2> SUFFICES ASSUME NEW h \in hooks' \ eventsub', h[1] \notin strays'
               PROVE  \E r \in Request : HookBy(r, h)'
    BY DEF HooksTended
  <2>1. CASE h \in hooks \ eventsub
    <3>1. h[1] \notin strays
      OBVIOUS
    <3>2. PICK r \in Request : HookBy(r, h)
      BY <2>1, <3>1 DEF Tended, HooksTended
    <3> QED BY <3>2
  <2> QED BY <2>1
<1> QED BY <1>1, <1>2, <1>3 DEF Tended

\* The same for a step that takes nobody's channel, and moves one request.
LEMMA TendedMoves ==
  ASSUME Tended, Connected \subseteq Connected' \cup strays', strays \subseteq strays',
         NEW r \in Request,
         \A s \in Request \ {r} :
           req'[s].pc = req[s].pc /\ req'[s].channel = req[s].channel /\ req'[s].todo = req[s].todo,
         \A h \in eventsub' : h \in eventsub \/ h[1] \in Connected' \cup strays',
         \A h \in hooks' \ eventsub' : h \in hooks \ eventsub \/ HookBy(r, h)',
         req'[r].pc \in ConnectPcs =>
           \/ req'[r].channel \in Connected' \cup strays'
           \/ req[r].pc \in ConnectPcs /\ req'[r].channel = req[r].channel,
         \A h \in eventsub' : RowBy(r, h) => RowBy(r, h)' \/ h[1] \in Connected' \cup strays',
         \A h \in hooks' \ eventsub' : HookBy(r, h) => HookBy(r, h)' \/ h[1] \in strays'
  PROVE  Tended'
<1>1. ASSUME NEW s \in Request \ {r}, NEW h
      PROVE  (RowBy(s, h) => RowBy(s, h)') /\ (HookBy(s, h) => HookBy(s, h)')
  BY DEF RowBy, HookBy, Hook
<1>2. \A s \in Request : req'[s].pc \in ConnectPcs =>
        \/ req'[s].channel \in Connected' \cup strays'
        \/ req[s].pc \in ConnectPcs /\ req'[s].channel = req[s].channel
  OBVIOUS
<1>3. \A s \in Request : \A h \in eventsub' :
        RowBy(s, h) => RowBy(s, h)' \/ h[1] \in Connected' \cup strays'
  BY <1>1
<1>4. \A s \in Request : \A h \in hooks' \ eventsub' :
        HookBy(s, h) => HookBy(s, h)' \/ h[1] \in strays'
  BY <1>1
<1> QED BY <1>2, <1>3, <1>4, TendedRests

LEMMA TendedHooks ==
  ASSUME TypeOK, Tended, NEW r \in Request, Hooking(r)
  PROVE  Tended'
<1>0. /\ ReqType /\ \A s \in Request \ {r} : req'[s] = req[s]
      /\ req[r].pc \in {"exists", "create", "record"} /\ req[r].channel \in Channel
      /\ Hook(r) = <<req[r].channel, Hook(r)[2]>>
      /\ HookMissing(r) => MovesTo(r, "create", req[r].todo)
      /\ HookCreated(r) => MovesTo(r, "record", req[r].todo)
      /\ HookExists(r) \/ HookRefused(r) \/ HookRecorded(r) \/ HookFails(r) \/ RecordFails(r)
           => \/ Rest(r) = {} /\ Moved(r, NoRequest)
              \/ Rest(r) # {} /\ MovesTo(r, "exists", Rest(r))
  BY StepData, HookTo, ChannelMoves
<1>1. Connected' = Connected /\ strays \subseteq strays'
  BY DEF Hooking, HookExists, HookMissing, HookCreated, HookRefused, HookRecorded,
         HookFails, RecordFails, channels, history, Connected, LinksOf
<1>2. req[r].pc \in ConnectPcs /\ req[r].channel \in Connected \cup strays
  BY <1>0 DEF ConnectPcs, Tended, LateIsStray
<1>3. req'[r].pc \in ConnectPcs => req'[r].channel = req[r].channel
  BY <1>0, NoRequestGood DEF Hooking, MovesTo, Moved, ConnectPcs
<1>4. \A h : ~RowBy(r, h)
  BY <1>0 DEF RowBy
<1>5. ASSUME NEW h \in hooks' \ eventsub', HookBy(r, h)
      PROVE  HookBy(r, h)' \/ h[1] \in strays'
  <2>1. req[r].pc = "record" /\ Hook(r) = h /\ h[1] = req[r].channel
    BY <1>0, <1>5 DEF HookBy
  <2>2. HookRecorded(r) \/ RecordFails(r)
    BY <2>1 DEF Hooking, HookExists, HookMissing, HookCreated, HookRefused, HookFails, Running
  <2>3. ~HookRecorded(r)
    BY <2>1 DEF HookRecorded
  <2> QED BY <2>1, <2>2, <2>3 DEF RecordFails
<1>6. \A h \in eventsub' : h \in eventsub \/ h[1] \in Connected' \cup strays'
  <2>1. eventsub' \subseteq eventsub \cup {Hook(r)}
    BY DEF Hooking, HookExists, HookMissing, HookCreated, HookRefused, HookRecorded,
           HookFails, RecordFails, channels
  <2>2. Hook(r)[1] = req[r].channel
    BY <1>0
  <2> QED BY <1>1, <1>2, <2>1, <2>2
<1>7. \A h \in hooks' \ eventsub' : h \in hooks \ eventsub \/ HookBy(r, h)'
  <2>1. CASE HookCreated(r)
    <3>1. hooks' = hooks \cup {Hook(r)} /\ eventsub' = eventsub
      BY <2>1 DEF HookCreated
    <3>2. MovesTo(r, "record", req[r].todo)
      BY <1>0, <2>1
    <3>3. Hook(r)' = Hook(r) /\ Hook(r)[1] = req[r].channel
      BY <1>0, <3>2 DEF Hook, MovesTo
    <3>4. ASSUME NEW h, h = Hook(r) PROVE HookBy(r, h)'
      BY <3>2, <3>3, <3>4 DEF HookBy, MovesTo
    <3> QED BY <3>1, <3>4
  <2>2. CASE ~HookCreated(r)
    BY <2>2 DEF Hooking, HookExists, HookMissing, HookRefused, HookRecorded,
                HookFails, RecordFails, channels
  <2> QED BY <2>1, <2>2
<1> QED BY <1>0, <1>1, <1>2, <1>3, <1>4, <1>5, <1>6, <1>7, TendedMoves

LEMMA TendedDetaches ==
  ASSUME TypeOK, Tended, NEW r \in Request, DetachStores(r)
  PROVE  Tended'
<1>0. /\ ReqType /\ \A s \in Request \ {r} : req'[s] = req[s]
      /\ req[r].pc \in {"disconnect", "delete"} /\ req[r].link \in Link
      /\ req[r].channel = NoChannel => Moved(r, NoRequest)
      /\ req[r].channel # NoChannel => MovesTo(r, "orphaned", req[r].todo)
  BY StepData, DetachTo, ChannelMoves
<1>1. /\ Detached(req[r].link, req[r].channel) /\ hooks' = hooks /\ eventsub' = eventsub
  BY DEF DetachStores
<1>2. /\ strays \subseteq strays'
      /\ \A c \in Connected \ Connected' :
           c \in strays' \/ (c = req[r].channel /\ ~Connecting(c))
  BY <1>0, <1>1, DetachDisconnects
<1>3. ASSUME NEW c \in Connected \cup strays
      PROVE  \/ c \in Connected' \cup strays'
             \/ /\ \A s \in Request : req[s].pc \in ConnectPcs => req[s].channel # c
                /\ \E s \in Request : req'[s].channel = c /\ req'[s].pc = "orphaned"
  <2> SUFFICES ASSUME c \notin Connected' \cup strays'
               PROVE  /\ \A s \in Request : req[s].pc \in ConnectPcs => req[s].channel # c
                      /\ req'[r].channel = c /\ req'[r].pc = "orphaned"
    OBVIOUS
  <2>1. c \in Connected /\ c = req[r].channel /\ ~Connecting(c)
    BY <1>2
  <2>2. c # NoChannel
    BY <2>1, ConnectionAssumption DEF Connected
  <2>3. req'[r].channel = c /\ req'[r].pc = "orphaned"
    BY <1>0, <2>1, <2>2 DEF MovesTo
  <2> QED BY <2>1, <2>3 DEF Connecting, Running, ConnectPcs
<1>4. req[r].pc \notin ConnectPcs /\ req'[r].pc \notin ConnectPcs
  BY <1>0, NoRequestGood DEF MovesTo, Moved, ConnectPcs
<1>5. ASSUME NEW s \in Request, NEW h
      PROVE  (RowBy(s, h) => RowBy(s, h)') /\ (HookBy(s, h) => HookBy(s, h)')
  BY <1>0 DEF RowBy, HookBy, Hook
<1> QED BY <1>0, <1>1, <1>2, <1>3, <1>4, <1>5, TendedRests

LEMMA TendedCleans ==
  ASSUME TypeOK, Tended, NEW r \in Request, Cleanup(r)
  PROVE  Tended'
<1>0. /\ ReqType /\ \A s \in Request \ {r} : req'[s] = req[s]
      /\ req[r].pc \in {"orphaned", "unrecord", "unsubscribe", "uncache"}
      /\ hooks \subseteq Channel \X Type
  BY StepData, CleanupTo, ChannelMoves DEF DataType
<1>1. Connected' = Connected
  BY DEF Cleanup, CleanupChecks, CleanupUnrecords, CleanupUnsubscribes, CleanupUncaches,
         CleanupFails, channels, Connected, LinksOf
<1>2. req[r].pc \notin ConnectPcs /\ req'[r].pc \notin ConnectPcs
  BY <1>0, CleanupTo, NoRequestGood DEF MovesTo, Moved, ConnectPcs
<1>3. CASE CleanupChecks(r)
  <2>1. /\ req[r].pc = "orphaned" /\ UNCHANGED <<hooks, eventsub, strays>>
        /\ IF req[r].channel \in Connected THEN Ends(r) ELSE Goes(r, "unrecord")
    BY <1>3 DEF CleanupChecks, channels, history, Running
  <2>2. req[r].channel \in Connected
          \/ (req'[r].channel = req[r].channel /\ req'[r].pc = "unrecord")
    BY <1>0, <2>1, RequestFields DEF Goes, ReqType, RequestState
  <2>3. \A h \in eventsub' : RowBy(r, h) => RowBy(r, h)' \/ h[1] \in Connected' \cup strays'
    BY <1>1, <2>2 DEF RowBy
  <2>4. \A h : ~HookBy(r, h)
    BY <2>1 DEF HookBy
  <2> QED BY <1>0, <1>1, <1>2, <2>1, <2>3, <2>4, TendedMoves
<1>4. CASE CleanupUnrecords(r)
  <2>1. /\ req[r].pc = "unrecord" /\ UNCHANGED <<hooks, strays>>
        /\ eventsub' = eventsub \ Recorded(req[r].channel)
    BY <1>4 DEF CleanupUnrecords, history, Running, Recorded
  <2>2. /\ req'[r].channel = req[r].channel
        /\ req'[r].todo = {h[2] : h \in Recorded(req[r].channel)}
        /\ Recorded(req[r].channel) # {} => req'[r].pc = "unsubscribe"
    BY <1>0, <1>4, UnrecordTo
  <2>3. ASSUME NEW h \in Recorded(req[r].channel) PROVE HookBy(r, h)'
    BY <2>2 DEF HookBy, Recorded
  <2>4. \A h \in hooks' \ eventsub' : h \in hooks \ eventsub \/ HookBy(r, h)'
    BY <2>1, <2>3
  <2>5. \A h \in eventsub' : ~RowBy(r, h)
    BY <2>1 DEF RowBy, Recorded
  <2>6. \A h : ~HookBy(r, h)
    BY <2>1 DEF HookBy
  <2> QED BY <1>0, <1>1, <1>2, <2>1, <2>4, <2>5, <2>6, TendedMoves
<1>5. CASE CleanupUnsubscribes(r)
  <2>1. /\ req[r].pc = "unsubscribe" /\ UNCHANGED <<eventsub, strays>>
        /\ hooks' = hooks \ {Hook(r)}
    BY <1>5 DEF CleanupUnsubscribes, history, Running
  <2>2. /\ req'[r].channel = req[r].channel /\ req'[r].todo = Rest(r)
        /\ Rest(r) # {} => req'[r].pc = "unsubscribe"
    BY <1>0, <1>5, UnsubscribeTo
  <2>3. Hook(r) = <<req[r].channel, Hook(r)[2]>>
    BY <1>0, <2>1, HookIs DEF Running, HookPcs
  <2>4. ASSUME NEW h \in hooks' \ eventsub', HookBy(r, h) PROVE HookBy(r, h)'
    <3>1. h[1] = req[r].channel /\ h[2] \in req[r].todo
      BY <2>1, <2>4 DEF HookBy
    <3>2. h = <<h[1], h[2]>> /\ h # Hook(r)
      BY <1>0, <2>1
    <3>3. h[2] \in Rest(r)
      BY <2>3, <3>1, <3>2 DEF Rest
    <3> QED BY <2>2, <3>1, <3>3 DEF HookBy
  <2>5. \A h : ~RowBy(r, h)
    BY <2>1 DEF RowBy
  <2> QED BY <1>0, <1>1, <1>2, <2>1, <2>4, <2>5, TendedMoves
<1>6. CASE CleanupUncaches(r)
  <2>1. /\ req[r].pc = "uncache" /\ UNCHANGED <<hooks, eventsub>>
        /\ strays' = IF \/ Connecting(req[r].channel)
                        \/ \E h \in hooks \cup eventsub : h[1] = req[r].channel
                       THEN strays ELSE strays \ {req[r].channel}
    BY <1>6 DEF CleanupUncaches, channels, Running
  <2>2. ASSUME NEW c \in strays, c \notin strays'
        PROVE  /\ \A s \in Request : req[s].pc \in ConnectPcs => req[s].channel # c
               /\ \A h \in hooks' \cup eventsub' : h[1] # c
    BY <2>1, <2>2 DEF Connecting, Running, ConnectPcs
  <2>3. \A c \in Connected \cup strays :
          \/ c \in Connected' \cup strays'
          \/ /\ \A s \in Request : req[s].pc \in ConnectPcs => req[s].channel # c
             /\ \A h \in eventsub' : h[1] # c
    BY <1>1, <2>2
  <2>4. \A c \in strays : c \in strays' \/ \A h \in hooks' : h[1] # c
    BY <2>2
  <2>5. ASSUME NEW s \in Request, NEW h
        PROVE  (RowBy(s, h) => RowBy(s, h)') /\ (HookBy(s, h) => HookBy(s, h)')
    BY <1>0, <2>1 DEF RowBy, HookBy, Hook
  <2> QED BY <1>0, <1>2, <2>1, <2>3, <2>4, <2>5, TendedRests
<1>7. CASE CleanupFails(r)
  <2>1. UNCHANGED <<hooks, eventsub>> /\ strays' = strays \cup {req[r].channel}
    BY <1>7 DEF CleanupFails, channels
  <2>2. \A h : /\ RowBy(r, h) => h[1] \in strays'
               /\ HookBy(r, h) => h[1] \in strays'
    BY <2>1 DEF RowBy, HookBy
  <2> QED BY <1>0, <1>1, <1>2, <2>1, <2>2, TendedMoves
<1> QED BY <1>3, <1>4, <1>5, <1>6, <1>7 DEF Cleanup

LEMMA TendedChannel ==
  ASSUME TypeOK, Tended, NEW r \in Request,
         \/ ConnectStores(r) \/ ConnectSeeds(r) \/ ConnectFails(r) \/ Hooking(r)
         \/ DetachStores(r) \/ DeleteFindsNothing(r) \/ Cleanup(r)
  PROVE  Tended'
<1>0. ReqType /\ \A s \in Request \ {r} : req'[s] = req[s]
  BY StepData, ChannelMoves
<1>1. ASSUME req[r].pc \in {"store", "seed", "exists", "delete"}
      PROVE  \A h : ~RowBy(r, h) /\ ~HookBy(r, h)
  BY <1>1 DEF RowBy, HookBy
<1>2. CASE ConnectStores(r)
  <2>1. req[r].pc = "store" /\ MovesTo(r, "seed", req[r].todo)
    BY <1>0, <1>2, StoreTo
  <2>2. /\ Connected \subseteq Connected' \cup strays' /\ strays \subseteq strays'
        /\ req[r].channel \in Connected' \cup strays'
    BY <1>2, StoreConnects
  <2>3. hooks' = hooks /\ eventsub' = eventsub
    BY <1>2 DEF ConnectStores
  <2>4. req'[r].channel \in Connected' \cup strays'
    BY <2>1, <2>2 DEF MovesTo
  <2> QED BY <1>0, <1>1, <2>1, <2>2, <2>3, <2>4, TendedMoves
<1>3. CASE ConnectSeeds(r)
  <2>1. req[r].pc = "seed" /\ req'[r].channel = req[r].channel
    BY <1>0, <1>3, SeedTo DEF MovesTo
  <2>2. UNCHANGED <<hooks, eventsub, strays>> /\ Connected' = Connected
    BY <1>3 DEF ConnectSeeds, channels, Connected, LinksOf
  <2> QED BY <1>0, <1>1, <2>1, <2>2, TendedMoves DEF ConnectPcs
<1>4. CASE ConnectFails(r) \/ DeleteFindsNothing(r)
  <2>1. req[r].pc \in {"seed", "exists", "delete"} /\ req'[r].pc = "idle"
    BY <1>0, <1>4, ConnectFailsMoves, EndsMoves, NoRequestGood
    DEF Moved, DeleteFindsNothing, Running
  <2>2. UNCHANGED <<hooks, eventsub, strays>> /\ Connected' = Connected
    BY <1>4 DEF ConnectFails, DeleteFindsNothing, channels, history, Connected, LinksOf
  <2> QED BY <1>0, <1>1, <2>1, <2>2, TendedMoves DEF ConnectPcs
<1>5. CASE Hooking(r)
  BY <1>5, TendedHooks
<1>6. CASE DetachStores(r)
  BY <1>6, TendedDetaches
<1>7. CASE Cleanup(r)
  BY <1>7, TendedCleans
<1> QED BY <1>2, <1>3, <1>4, <1>5, <1>6, <1>7

LEMMA TendedStep == ASSUME TypeOK, Tended, [Next]_vars PROVE Tended'
<1>0. ReqType
  BY StepData
<1>1. CASE SomeBegins /\ UNCHANGED accounts
  <2>1. PICK r \in Request :
          /\ req[r] = NoRequest /\ \A s \in Request \ {r} : req'[s] = req[s]
          /\ req'[r].pc \in {"store", "disconnect", "delete", "select"}
    BY <1>0, <1>1, BeginMoves
  <2>2. req'[r].pc \notin ConnectPcs /\ \A h : ~RowBy(r, h) /\ ~HookBy(r, h)
    BY <2>1, NoRequestGood DEF ConnectPcs, RowBy, HookBy
  <2>3. Connected' = Connected /\ UNCHANGED <<hooks, eventsub, strays>>
    BY <1>1, BeginFrame DEF channels, history, Connected, LinksOf
  <2> QED BY <2>1, <2>2, <2>3, TendedMoves
<1>2. CASE \E r \in Request :
             /\ \/ ConnectStores(r) \/ ConnectSeeds(r) \/ ConnectFails(r) \/ Hooking(r)
                \/ DetachStores(r) \/ DeleteFindsNothing(r) \/ Cleanup(r)
             /\ UNCHANGED accounts
  BY <1>2, TendedChannel
<1>3. ASSUME NEW r \in Request, Callback(r) \/ InsertNewLink(r)
      PROVE  Tended'
  <2>1. Connected' = Connected /\ UNCHANGED <<hooks, eventsub, strays>>
    BY <1>3, AccountTo DEF channels, Connected, LinksOf
  <2>2. req'[r].pc \notin ConnectPcs /\ \A h : ~RowBy(r, h) /\ ~HookBy(r, h)
    BY <1>3, AccountTo DEF AccountPcs, ConnectPcs, RowBy, HookBy
  <2> QED BY <1>3, <2>1, <2>2, AccountTo, TendedMoves
<1>4. ASSUME Connected \subseteq Connected' \cup strays', strays \subseteq strays', req' = req,
             eventsub' \subseteq eventsub, hooks' \ eventsub' \subseteq hooks \ eventsub
      PROVE  Tended'
  <2>1. \A r \in Request : \A h : (RowBy(r, h) => RowBy(r, h)') /\ (HookBy(r, h) => HookBy(r, h)')
    BY <1>4 DEF RowBy, HookBy, Hook
  <2> QED BY <1>4, <2>1, TendedRests
<1>5. CASE Outside /\ UNCHANGED accounts
  <2>1. CASE \E l \in Link : OrphanDeleted(l)
    <3>1. PICK l \in Link : OrphanDeleted(l)
      BY <2>1
    <3>2. Detached(l, NoChannel) /\ req' = req /\ eventsub' = eventsub /\ hooks' = hooks
      BY <3>1 DEF OrphanDeleted
    <3>3. /\ strays \subseteq strays'
          /\ \A c \in Connected \ Connected' :
               c \in strays' \/ (c = NoChannel /\ ~Connecting(c))
      BY <3>2, DetachDisconnects
    <3>4. Connected \subseteq Connected' \cup strays'
      BY <3>3, ConnectionAssumption DEF Connected
    <3> QED BY <1>4, <3>2, <3>3, <3>4
  <2>2. CASE \E h \in hooks : Revoked(h)
    <3>1. PICK h \in hooks : Revoked(h)
      BY <2>2
    <3>2. Connected' = Connected /\ strays' = strays /\ req' = req
      BY <3>1 DEF Revoked, Connected, LinksOf
    <3>3. hooks' = hooks \ {h} /\ eventsub' \in {eventsub, eventsub \ {h}}
      BY <3>1 DEF Revoked
    <3> QED BY <1>4, <3>2, <3>3
  <2>3. CASE /\ ~\E l \in Link : OrphanDeleted(l)
             /\ ~\E h \in hooks : Revoked(h)
    <3>1. Connected' = Connected /\ strays' = strays /\ UNCHANGED <<hooks, eventsub, req>>
      BY <1>5, <2>3 DEF Outside, register, StatesExpire, RowsExpire, Login, channels, history,
                        Connected, LinksOf
    <3> QED BY <1>4, <3>1
  <2> QED BY <2>1, <2>2, <2>3
<1>6. CASE SomeEvent \/ UNCHANGED vars
  <2>1. UNCHANGED <<world, req>>
    BY <1>6 DEF SomeEvent, Unlink, SendUnlinked, Poll, WorkerTakes, WorkerFails, vars
  <2>2. Connected' = Connected /\ UNCHANGED <<hooks, eventsub, strays, req>>
    BY <2>1 DEF world, channels, history, Connected, LinksOf
  <2> QED BY <1>4, <2>2
<1>7. CASE Restart \/ \E r \in Request : Dropped(r)
  <2>1. PICK R \in SUBSET Request : Lost(R) /\ UNCHANGED channels
    BY <1>7 DEF Restart, Dropped, channels
  <2>2. /\ \A r \in Request : req'[r] = IF r \in R THEN NoRequest ELSE req[r]
        /\ strays \subseteq strays'
        /\ \A r \in R : Running(r, {"record", "orphaned", "unrecord", "unsubscribe", "uncache"})
             => req[r].channel \in strays'
    BY <1>0, <2>1, LostMoves, LostIs
  <2>3. Connected' = Connected /\ hooks' = hooks /\ eventsub' = eventsub
    BY <2>1 DEF channels, Connected, LinksOf
  <2>4. ASSUME NEW r \in Request
        PROVE  req'[r].pc \in ConnectPcs =>
                 req[r].pc \in ConnectPcs /\ req'[r].channel = req[r].channel
    BY <2>2, NoRequestGood DEF ConnectPcs
  <2>5. ASSUME NEW r \in Request, NEW h
        PROVE  /\ RowBy(r, h) => RowBy(r, h)' \/ h[1] \in strays'
               /\ HookBy(r, h) => HookBy(r, h)' \/ h[1] \in strays'
    <3>1. CASE r \in R
      BY <2>2, <3>1 DEF RowBy, HookBy, Running
    <3>2. CASE r \notin R
      BY <2>2, <3>2 DEF RowBy, HookBy, Hook
    <3> QED BY <3>1, <3>2
  <2> QED BY <2>2, <2>3, <2>4, <2>5, TendedRests
<1> QED BY <1>1, <1>2, <1>3, <1>5, <1>6, <1>7, NextCases

\* A channel nobody has any more keeps no subscription and no row about one, but for the
\* named causes and while somebody is at it.  It holds because every row and every
\* subscription is somebody's to see to (Tended), late connects included.
THEOREM AbandonedAreSilent == Spec => []AbandonedIsSilent
<1>1. Init => Tended
  BY NoRequestGood DEF Init, Tended, LateIsStray, RowsTended, HooksTended, ConnectPcs
<1>2. TypeOK /\ Tended /\ [Next]_vars => Tended'
  BY TendedStep
<1>3. Tended => AbandonedIsSilent
  <2> SUFFICES ASSUME Tended, NEW c \in Channel \ Connected, c \notin strays,
                      NEW h \in hooks \cup eventsub, h[1] = c
               PROVE  Cleaning(c) \/ Detaching(c)
    BY DEF AbandonedIsSilent
  <2>1. CASE h \in eventsub
    <3>1. PICK r \in Request : RowBy(r, h)
      BY <2>1 DEF Tended, RowsTended
    <3> QED BY <3>1 DEF RowBy, Cleaning, Detaching, Running
  <2>2. CASE h \in hooks \ eventsub
    <3>1. PICK r \in Request : HookBy(r, h)
      BY <2>2 DEF Tended, HooksTended
    <3>2. req[r].pc # "record"
      BY <3>1 DEF HookBy, Tended, LateIsStray, ConnectPcs
    <3> QED BY <3>1, <3>2 DEF HookBy, Cleaning, Running
  <2> QED BY <2>1, <2>2
<1> QED BY <1>1, <1>2, <1>3, TypeCorrect, PTL DEF Spec
=============================================================================
