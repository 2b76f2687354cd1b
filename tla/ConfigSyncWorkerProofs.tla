----------------------- MODULE ConfigSyncWorkerProofs -----------------------
(***************************************************************************)
(* What the config sync worker and its uploads promise for every number of *)
(* links and users, every size of a PUT or a chunk, and every period.      *)
(***************************************************************************)
EXTENDS ConfigSyncWorker, FiniteSetTheorems, TLAPS

-----------------------------------------------------------------------------
(* Types: an upload                                                          *)

\* The parts of UploadTypeOK but for Coherent.
UploadTypes ==
  /\ lists \in [Link -> SUBSET User]
  /\ upstream \in [Link -> {"on", "off", "gone"}]
  /\ gate \in [Link -> GateState]
  /\ session \in [Link -> [open : BOOLEAN, staged : SUBSET User]]
  /\ strays \subseteq Link \X SUBSET User
  /\ call \in CallState

LEMMA IdleIsCall == Idle \in CallState
BY UploadAssumption DEF Idle, CallState

LEMMA ShutIsGate == Shut \in GateState /\ [state |-> "asked", age |-> 0] \in GateState
                    /\ [state |-> "open", age |-> 0] \in GateState
BY UploadAssumption DEF Shut, GateState

\* A call that moves on is about the same link and list.
LEMMA CallMoves ==
  ASSUME call \in CallState, NEW pc \in {"chunk", "commit", "swap"}, NEW rest \in SUBSET User,
         call' = [call EXCEPT !.rest = rest, !.pc = pc]
  PROVE  /\ call' \in CallState
         /\ call'.pc = pc /\ call'.link = call.link /\ call'.list = call.list /\ call'.rest = rest
BY DEF CallState

\* Once a call cancels, has landed or is over it says nothing of its session.
LEMMA CallEnds ==
  ASSUME UploadTypeOK, call.pc # "idle", NEW pc \in {"cancel", "landed", "over"},
         NEW outcome \in {"none", "done", "held", "gone", "inactive", "failed"},
         \/ call' = [call EXCEPT !.pc = pc]
         \/ call' = [call EXCEPT !.pc = pc, !.age = 0]
         \/ call' = [call EXCEPT !.pc = pc, !.outcome = outcome]
         \/ call' = [call EXCEPT !.pc = pc, !.outcome = outcome, !.age = 0]
  PROVE  call' \in CallState /\ Coherent(call)'
<1> DEFINE Moved == /\ call' \in CallState /\ call'.pc = pc
                    /\ call'.link = call.link /\ call'.list = call.list /\ call'.rest = call.rest
<1>0. call \in CallState /\ 0 \in 0..MaxSwap
  BY UploadAssumption DEF UploadTypeOK
<1>1. ASSUME call' = [call EXCEPT !.pc = pc] PROVE Moved
  BY <1>0, <1>1 DEF CallState
<1>2. ASSUME call' = [call EXCEPT !.pc = pc, !.age = 0] PROVE Moved
  BY <1>0, <1>2 DEF CallState
<1>3. ASSUME call' = [call EXCEPT !.pc = pc, !.outcome = outcome] PROVE Moved
  BY <1>0, <1>3 DEF CallState
<1>4. ASSUME call' = [call EXCEPT !.pc = pc, !.outcome = outcome, !.age = 0] PROVE Moved
  BY <1>0, <1>4 DEF CallState
<1>5. call.link \in Link /\ call.rest \subseteq call.list
  BY DEF UploadTypeOK, Coherent
<1>6. Moved
  BY <1>1, <1>2, <1>3, <1>4
<1> QED BY <1>5, <1>6 DEF Coherent

LEMMA SessionMoves ==
  ASSUME UploadTypeOK, NEW l \in Link, NEW s \in [open : BOOLEAN, staged : SUBSET User],
         session' \in {session, [session EXCEPT ![l] = s]}
  PROVE  session' \in [Link -> [open : BOOLEAN, staged : SUBSET User]]
<1>1. CASE session' = session
  BY <1>1 DEF UploadTypeOK
<1>2. CASE session' = [session EXCEPT ![l] = s]
  BY <1>2 DEF UploadTypeOK
<1> QED BY <1>1, <1>2

LEMMA Blank == /\ Closed \in [open : BOOLEAN, staged : SUBSET User]
               /\ [open |-> TRUE, staged |-> {}] \in [open : BOOLEAN, staged : SUBSET User]
BY DEF Closed

\* The first requests.
LEMMA TypeFirst ==
  ASSUME UploadTypeOK,
         FindsLinkGone \/ FindsLinkInactive \/ PutLands \/ PutHeld \/ PutFails
           \/ StartRefused \/ StartFails
  PROVE  UploadTypeOK'
<1>1. call.pc # "idle" /\ call' \in CallState /\ Coherent(call)'
  <2>1. CASE FindsLinkGone
    BY <2>1, CallEnds DEF FindsLinkGone, Return
  <2>2. CASE FindsLinkInactive
    BY <2>2, CallEnds DEF FindsLinkInactive, Return
  <2>3. CASE PutLands
    BY <2>3, CallEnds DEF PutLands
  <2>4. CASE PutHeld
    BY <2>4, CallEnds DEF PutHeld, Return
  <2>5. CASE PutFails
    BY <2>5, CallEnds DEF PutFails, Return
  <2>6. CASE StartRefused
    BY <2>6, CallEnds DEF StartRefused, Return
  <2>7. CASE StartFails
    BY <2>7, CallEnds DEF StartFails, Return
  <2> QED BY <2>1, <2>2, <2>3, <2>4, <2>5, <2>6, <2>7
<1>2. call.link \in Link /\ call.list \in SUBSET User
  BY <1>1 DEF UploadTypeOK, Coherent, CallState
<1>3. lists' \in [Link -> SUBSET User] /\ upstream' \in [Link -> {"on", "off", "gone"}]
  BY <1>2 DEF FindsLinkGone, FindsLinkInactive, PutLands, PutHeld, PutFails, StartRefused,
              StartFails, rolelogic, UploadTypeOK
<1>4. gate' \in [Link -> GateState]
  BY <1>2, ShutIsGate DEF FindsLinkGone, FindsLinkInactive, PutLands, PutHeld, AskOwner,
              PutFails, StartRefused, StartFails, rolelogic, UploadTypeOK
<1>5. session' \in [Link -> [open : BOOLEAN, staged : SUBSET User]]
  <2>1. CASE StartFails
    <3>1. session' \in {session, [session EXCEPT ![call.link] = [open |-> TRUE, staged |-> {}]]}
      BY <2>1 DEF StartFails
    <3> QED BY <1>2, <3>1, SessionMoves, Blank
  <2>2. CASE ~StartFails
    BY <2>2 DEF FindsLinkGone, FindsLinkInactive, PutLands, PutHeld,
                PutFails, StartRefused, rolelogic, UploadTypeOK
  <2> QED BY <2>1, <2>2
<1>6. strays' \subseteq Link \X SUBSET User
  BY <1>2 DEF FindsLinkGone, FindsLinkInactive, PutLands, PutHeld,
              PutFails, StartRefused, StartFails, rolelogic, UploadTypeOK
<1> QED BY <1>1, <1>3, <1>4, <1>5, <1>6 DEF UploadTypeOK

LEMMA ChunkIsUsers == ASSUME UploadTypeOK, NEW chunk \in NextChunks
                      PROVE  chunk \subseteq call.rest /\ call.rest \subseteq User
BY DEF NextChunks, UploadTypeOK, CallState

LEMMA TypeChunks ==
  ASSUME UploadTypeOK, StartAccepted \/ ChunkStored \/ ChunkFails \/ Cancelled \/ CancelFails
  PROVE  UploadTypeOK'
<1>0. call \in CallState /\ call.rest \in SUBSET User /\ call.rest \subseteq call.list
  BY DEF UploadTypeOK, CallState, Coherent
<1>1. CASE StartAccepted
  <2>1. call' \in CallState /\ call'.pc = "chunk" /\ call'.link = call.link
        /\ call'.list = call.list /\ call'.rest = call.rest
    BY <1>0, <1>1 DEF StartAccepted, CallState
  <2>2. call.link \in Link /\ call.list = call.rest
    BY <1>1 DEF StartAccepted, UploadTypeOK, Coherent
  <2>3. session' \in [Link -> [open : BOOLEAN, staged : SUBSET User]]
        /\ session'[call.link].staged = {}
    BY <1>1, <2>2 DEF StartAccepted, UploadTypeOK
  <2>4. Coherent(call)'
    BY <2>1, <2>2, <2>3 DEF Coherent
  <2> QED BY <1>1, <2>1, <2>3, <2>4 DEF StartAccepted, UploadTypeOK
<1>2. CASE ChunkStored
  <2>1. PICK chunk \in NextChunks :
          /\ session' = [session EXCEPT ![call.link].staged = @ \cup chunk]
          /\ Sent(chunk)
    BY <1>2 DEF ChunkStored
  <2>2. chunk \subseteq call.rest /\ call.rest \subseteq call.list /\ call.list \subseteq User
    BY <2>1, ChunkIsUsers DEF UploadTypeOK, CallState, Coherent
  <2>3. call.pc = "chunk" /\ call.link \in Link /\ session[call.link].open
        /\ session[call.link].staged = call.list \ call.rest
    BY <1>2 DEF ChunkStored, UploadTypeOK, Coherent
  <2>4. PICK pc \in {"chunk", "commit"} :
          /\ call' = [call EXCEPT !.rest = call.rest \ chunk, !.pc = pc]
          /\ pc = "commit" => chunk = call.rest
    BY <2>1 DEF Sent
  <2>5. call' \in CallState /\ call'.pc = pc /\ call'.link = call.link
        /\ call'.list = call.list /\ call'.rest = call.rest \ chunk
    BY <1>0, <2>4, CallMoves, call.rest \ chunk \in SUBSET User DEF CallState
  <2>6. session' \in [Link -> [open : BOOLEAN, staged : SUBSET User]]
        /\ session'[call.link].staged = session[call.link].staged \cup chunk
    BY <2>1, <2>2, <2>3 DEF UploadTypeOK
  <2>7. Coherent(call)'
    BY <2>2, <2>3, <2>4, <2>5, <2>6 DEF Coherent
  <2> QED BY <1>2, <2>5, <2>6, <2>7 DEF ChunkStored, UploadTypeOK
<1>3. CASE ChunkFails
  BY <1>3, CallEnds DEF ChunkFails, UploadTypeOK, rolelogic
<1>4. CASE Cancelled
  <2>1. call' \in CallState /\ Coherent(call)'
    BY <1>4, CallEnds DEF Cancelled, Return
  <2> QED BY <1>4, <2>1 DEF Cancelled, Closed, UploadTypeOK
<1>5. CASE CancelFails
  BY <1>5, CallEnds DEF CancelFails, Return, UploadTypeOK, rolelogic
<1> QED BY <1>1, <1>2, <1>3, <1>4, <1>5

LEMMA TypeCommit ==
  ASSUME UploadTypeOK,
         CommitAdmitted \/ CommitHeld \/ CommitRefused \/ SwapLands \/ CommitFails
           \/ AnswerArrives \/ AnswerLost
  PROVE  UploadTypeOK'
<1>0. call.pc # "idle" /\ call.link \in Link /\ session[call.link].staged \in SUBSET User
  BY DEF CommitAdmitted, CommitHeld, CommitRefused, SwapLands, CommitFails, AnswerArrives,
         AnswerLost, UploadTypeOK, Coherent
<1>1. CASE CommitAdmitted
  <2>1. call \in CallState /\ call.rest \in SUBSET User
    BY DEF UploadTypeOK, CallState
  <2>2. call' \in CallState /\ call'.pc = "swap" /\ call'.link = call.link
        /\ call'.list = call.list /\ call'.rest = call.rest
    BY <1>1, <2>1 DEF CommitAdmitted, CallState
  <2>3. Coherent(call)'
    BY <1>1, <2>2 DEF CommitAdmitted, UploadTypeOK, Coherent
  <2> QED BY <1>0, <1>1, <2>2, <2>3, ShutIsGate DEF CommitAdmitted, UploadTypeOK
<1>2. CASE CommitHeld
  <2>1. call' \in CallState /\ Coherent(call)'
    BY <1>0, <1>2, CallEnds DEF CommitHeld, Return
  <2>2. session' \in [Link -> [open : BOOLEAN, staged : SUBSET User]]
    <3>1. session' \in {session, [session EXCEPT ![call.link] = Closed]}
      BY <1>2 DEF CommitHeld
    <3> QED BY <1>0, <3>1, SessionMoves, Blank
  <2>3. gate' \in [Link -> GateState]
    BY <1>2, ShutIsGate DEF CommitHeld, AskOwner, UploadTypeOK
  <2> QED BY <1>2, <2>1, <2>2, <2>3 DEF CommitHeld, UploadTypeOK
<1>3. CASE CommitRefused
  BY <1>0, <1>3, CallEnds DEF CommitRefused, Return, UploadTypeOK, rolelogic
<1>4. CASE SwapLands
  <2>1. call' \in CallState /\ Coherent(call)'
    BY <1>0, <1>4, CallEnds DEF SwapLands
  <2>2. session' \in [Link -> [open : BOOLEAN, staged : SUBSET User]]
        /\ lists' \in [Link -> SUBSET User]
    BY <1>0, <1>4 DEF SwapLands, Closed, UploadTypeOK
  <2> QED BY <1>4, <2>1, <2>2 DEF SwapLands, UploadTypeOK
<1>5. CASE CommitFails
  <2>1. call' \in CallState /\ Coherent(call)'
    BY <1>0, <1>5, CallEnds DEF CommitFails
  <2>2. session' \in [Link -> [open : BOOLEAN, staged : SUBSET User]]
    <3>1. session' \in {session, [session EXCEPT ![call.link] = Closed]}
      BY <1>5 DEF CommitFails
    <3> QED BY <1>0, <3>1, SessionMoves, Blank
  <2>3. strays' \subseteq Link \X SUBSET User
    BY <1>0, <1>5 DEF CommitFails, UploadTypeOK
  <2> QED BY <1>5, <2>1, <2>2, <2>3 DEF CommitFails, UploadTypeOK
<1>6. CASE AnswerArrives
  BY <1>0, <1>6, CallEnds DEF AnswerArrives, Return, UploadTypeOK, rolelogic
<1>7. CASE AnswerLost
  BY <1>0, <1>7, CallEnds DEF AnswerLost, Return, UploadTypeOK, rolelogic
<1> QED BY <1>1, <1>2, <1>3, <1>4, <1>5, <1>6, <1>7

LEMMA TypeUpload ==
  ASSUME UploadTypeOK, UploadStep \/ UploadFails
  PROVE  UploadTypeOK'
BY TypeFirst, TypeChunks, TypeCommit DEF UploadStep, UploadFails, ChunkRefused, CancelRefused

LEMMA TypeUploadBegins ==
  ASSUME UploadTypeOK, NEW l \in Link, NEW list \in SUBSET User, UploadUsers(l, list)
  PROVE  UploadTypeOK'
BY UploadAssumption DEF UploadUsers, Idle, UploadTypeOK, CallState, Coherent, rolelogic

LEMMA TypeUpstream ==
  ASSUME UploadTypeOK, NEW l \in Link,
         SessionExpires(l) \/ Confirm(l) \/ \E state \in {"on", "off", "gone"} : SetUpstream(l, state)
  PROVE  UploadTypeOK'
<1>1. CASE SessionExpires(l)
  BY <1>1 DEF SessionExpires, Closed, UploadTypeOK, CallState, Coherent
<1>2. CASE Confirm(l)
  BY <1>2, ShutIsGate DEF Confirm, UploadTypeOK, CallState, Coherent
<1>3. CASE \E state \in {"on", "off", "gone"} : SetUpstream(l, state)
  BY <1>3 DEF SetUpstream, UploadTypeOK, CallState, Coherent
<1> QED BY <1>1, <1>2, <1>3

LEMMA TypeStrays ==
  ASSUME UploadTypeOK, NEW s \in strays, StrayLands(s) \/ StrayLost(s)
  PROVE  UploadTypeOK'
BY DEF StrayLands, StrayLost, UploadTypeOK, CallState, Coherent, rolelogic

-----------------------------------------------------------------------------
(* Types: the worker                                                         *)

LEMMA TypeInit == ASSUME Init PROVE TypeOK
<1>1. UploadTypeOK
  BY UploadAssumption, WorkerAssumption, IdleIsCall, ShutIsGate
  DEF Init, UploadInit, UploadTypeOK, Coherent, Closed, Idle
<1> QED BY <1>1, WorkerAssumption DEF Init, TypeOK

LEMMA UploadFrame ==
  ASSUME UploadTypeOK, UNCHANGED uploadVars
  PROVE  UploadTypeOK'
BY DEF uploadVars, rolelogic, UploadTypeOK, Coherent

LEMMA SpendType ==
  ASSUME NEW kind \in {"env", "faults"}, Spend(kind),
         budget \in [env : 0..MaxEnv, faults : 0..MaxFaults]
  PROVE  budget' \in [env : 0..MaxEnv, faults : 0..MaxFaults]
BY WorkerAssumption DEF Spend

\* The worker waits and takes the links that are due.
LEMMA TypeWaits ==
  ASSUME TypeOK, Receive \/ TimeoutFires
  PROVE  TypeOK'
<1>1. CASE Receive
  <2>1. pending' \in [Link -> Nat \cup {NotDue}]
    BY <1>1, WorkerAssumption DEF Receive, TypeOK
  <2>2. waited' \in [Link -> Nat]
    BY <1>1 DEF Receive, TypeOK
  <2> QED BY <1>1, <2>1, <2>2, UploadFrame DEF Receive, Due, TypeOK
<1>2. CASE TimeoutFires
  BY <1>2, UploadFrame DEF TimeoutFires, Due, TypeOK
<1> QED BY <1>1, <1>2

\* It turns to one of them.
LEMMA TypeTurns ==
  ASSUME TypeOK, NEW l \in Link, SyncBegins(l) \/ SyncSkips(l) \/ SyncFails(l)
  PROVE  TypeOK'
<1>0. Takes(l) /\ ready' \subseteq Link /\ postponed' \subseteq Link
      /\ pending' \in [Link -> Nat \cup {NotDue}] /\ waited' \in [Link -> Nat]
  BY DEF SyncBegins, SyncSkips, SyncFails, Takes, TypeOK
<1>1. CASE SyncBegins(l)
  BY <1>0, <1>1, TypeUploadBegins DEF SyncBegins, TypeOK
<1>2. CASE SyncSkips(l)
  BY <1>0, <1>2, UploadFrame DEF SyncSkips, TypeOK
<1>3. CASE SyncFails(l)
  BY <1>0, <1>3, UploadFrame, SpendType DEF SyncFails, TypeOK
<1> QED BY <1>1, <1>2, <1>3

\* An outcome reaches the worker.
LEMMA TypeReturned ==
  ASSUME TypeOK, NEW l \in Link,
         SyncDone(l) \/ SyncHeld(l) \/ SyncDropped(l) \/ SyncFindsLinkGone(l)
  PROVE  TypeOK'
<1>1. UploadTypeOK'
  <2>1. Returned(l)
    BY DEF SyncDone, SyncHeld, SyncDropped, SyncFindsLinkGone
  <2>2. call' \in CallState /\ Coherent(call)'
    BY <2>1, IdleIsCall DEF Returned, Coherent, Idle
  <2> QED BY <2>1, <2>2 DEF Returned, rolelogic, TypeOK, UploadTypeOK
<1>2. pending' \in [Link -> Nat \cup {NotDue}]
  BY WorkerAssumption DEF SyncDone, SyncHeld, SyncDropped, SyncFindsLinkGone, Returned, TypeOK
<1> QED BY <1>1, <1>2 DEF SyncDone, SyncHeld, SyncDropped, SyncFindsLinkGone, Returned, TypeOK

LEMMA TypeTime == ASSUME TypeOK, TimePasses PROVE TypeOK'
<1>1. pending' \in [Link -> Nat \cup {NotDue}]
  <2>1. ASSUME NEW l \in Link, pending[l] \notin {0, NotDue}
        PROVE  pending[l] - 1 \in Nat
    BY <2>1 DEF TypeOK
  <2> QED BY <2>1 DEF TimePasses, TypeOK
<1>2. gate' \in [Link -> GateState]
  <2>1. ASSUME NEW l \in Link, gate[l].age < Window
        PROVE  [gate[l] EXCEPT !.age = @ + 1] \in GateState
    <3>1. gate[l] \in GateState
      BY DEF TypeOK, UploadTypeOK
    <3>2. Window \in Nat /\ gate[l].age \in 0..Window
      BY <3>1, UploadAssumption DEF GateState
    <3>3. gate[l].age + 1 \in 0..Window
      BY <2>1, <3>2
    <3> QED BY <3>1, <3>3 DEF GateState
  <2> QED BY <2>1 DEF TimePasses, TypeOK, UploadTypeOK
<1>3. call' \in CallState /\ Coherent(call)'
  <2>1. call \in CallState /\ Coherent(call) /\ session' = session
    BY DEF TimePasses, TypeOK, UploadTypeOK
  <2>2. CASE call.pc = "swap"
    <3>1. call.age < MaxSwap /\ call' = [call EXCEPT !.age = @ + 1]
      BY <2>2 DEF TimePasses, Waiting
    <3>2. call' \in CallState /\ call'.pc = "swap" /\ call'.link = call.link
          /\ call'.list = call.list /\ call'.rest = call.rest
      BY <2>1, <2>2, <3>1, UploadAssumption DEF CallState
    <3> QED BY <2>1, <2>2, <3>2 DEF Coherent
  <2>3. CASE call.pc # "swap"
    BY <2>1, <2>3 DEF TimePasses, Coherent
  <2> QED BY <2>2, <2>3
<1>4. waited' \in [Link -> Nat]
  BY DEF TimePasses, TypeOK
<1> QED BY <1>1, <1>2, <1>3, <1>4 DEF TimePasses, TypeOK, UploadTypeOK

LEMMA TypeRestart == ASSUME TypeOK, Restart PROVE TypeOK'
<1>1. call' \in CallState /\ Coherent(call)'
  BY IdleIsCall DEF Restart, Coherent, Idle
<1>2. strays' \subseteq Link \X SUBSET User
  BY DEF Restart, TypeOK, UploadTypeOK, Coherent, CallState
<1>3. UploadTypeOK'
  BY <1>1, <1>2 DEF Restart, rolelogic, TypeOK, UploadTypeOK
<1>4. budget' \in [env : 0..MaxEnv, faults : 0..MaxFaults]
  BY SpendType DEF Restart, TypeOK
<1> QED BY <1>3, <1>4, WorkerAssumption DEF Restart, TypeOK

LEMMA TypeWorld ==
  ASSUME TypeOK, NEW l \in Link, Change(l) \/ Nudge(l) \/ Owner(l)
  PROVE  TypeOK'
<1>1. CASE Change(l)
  BY <1>1, UploadFrame, SpendType, WorkerAssumption DEF Change, worker, TypeOK
<1>2. CASE Nudge(l)
  BY <1>2, UploadFrame DEF Nudge, worker, TypeOK
<1>3. CASE Owner(l)
  <2>1. UploadTypeOK'
    BY <1>3, TypeUpstream DEF Owner, TypeOK
  <2>2. budget' \in [env : 0..MaxEnv, faults : 0..MaxFaults]
    BY <1>3, SpendType DEF Owner, TypeOK
  <2> QED BY <1>3, <2>1, <2>2 DEF Owner, worker, TypeOK
<1> QED BY <1>1, <1>2, <1>3

LEMMA TypeAfterStray == ASSUME TypeOK, Strays PROVE TypeOK'
<1>1. UploadTypeOK'
  BY TypeStrays DEF Strays, TypeOK
<1>2. dropped' \subseteq Link
  BY DEF Strays, TypeOK, UploadTypeOK
<1> QED BY <1>1, <1>2 DEF Strays, worker, TypeOK

LEMMA TypeUploads == ASSUME TypeOK, Upload \/ UploadFault PROVE TypeOK'
<1>1. UploadTypeOK'
  BY TypeUpload DEF Upload, UploadFault, TypeOK
<1>2. CASE Upload
  BY <1>1, <1>2 DEF Upload, worker, TypeOK
<1>3. CASE UploadFault
  BY <1>1, <1>3, SpendType DEF UploadFault, worker, TypeOK
<1> QED BY <1>2, <1>3

LEMMA TypeStep == ASSUME TypeOK, [Next]_vars PROVE TypeOK'
<1>1. CASE WorkerStep
  BY <1>1, TypeWaits, TypeTurns, TypeReturned, TypeUploads DEF WorkerStep
<1>2. CASE TimePasses
  BY <1>2, TypeTime
<1>3. CASE UploadFault
  BY <1>3, TypeUploads
<1>4. CASE Restart
  BY <1>4, TypeRestart
<1>5. CASE Strays
  BY <1>5, TypeAfterStray
<1>6. CASE \E l \in Link : SyncFails(l) \/ Change(l) \/ Nudge(l) \/ Owner(l)
  BY <1>6, TypeTurns, TypeWorld
<1>7. CASE UNCHANGED vars
  BY <1>7, UploadFrame DEF vars, worker, TypeOK
<1> QED BY <1>1, <1>2, <1>3, <1>4, <1>5, <1>6, <1>7 DEF Next

\* The state of RoleLogic, of a call and of the worker stays well formed; a session that is
\* being committed holds the whole list.
THEOREM TypeCorrect == Spec => []TypeOK
<1>1. Init => TypeOK
  BY TypeInit
<1>2. TypeOK /\ [Next]_vars => TypeOK'
  BY TypeStep
<1> QED BY <1>1, <1>2, PTL DEF Spec

-----------------------------------------------------------------------------
(* The refinement                                                            *)

Out == {"put", "start", "chunk", "commit", "swap", "cancel"}

LEMMA PhaseIs ==
  /\ call.pc = "idle" => Phase = "none"
  /\ call.pc \in Out => Phase = "out"
  /\ call.pc \in {"landed", "over"} => Phase = call.pc
BY DEF Phase, Out

\* What is staged when a commit is sent is the list the call was given.
LEMMA StagedIsList ==
  ASSUME UploadTypeOK, call.pc \in {"commit", "swap"}, session[call.link].open
  PROVE  session[call.link].staged = call.list
BY DEF UploadTypeOK, Coherent

LEMMA SwapIsOpen ==
  ASSUME UploadTypeOK, call.pc = "swap"
  PROVE  session[call.link].open
BY DEF UploadTypeOK, Coherent

\* How a step of the call shows in Write.
LEMMA WriteMoves ==
  ASSUME call.pc \in Out, call' \in CallState, call'.link = call.link, call'.list = call.list
  PROVE  /\ call'.pc \in Out /\ call'.outcome = call.outcome => Write' = Write
         /\ call'.pc = "landed" /\ call'.outcome = call.outcome
              => Write.phase = "out" /\ Write' = [Write EXCEPT !.phase = "landed"]
         /\ call'.pc = "over" => Write.phase = "out" /\ Whole!Over(call'.outcome)
<1>1. Phase = "out"
  BY DEF Phase, Out
<1>2. call'.pc \in Out => Phase' = "out"
  BY DEF Phase, Out
<1>3. call'.pc \in {"landed", "over"} => Phase' = call'.pc
  BY DEF Phase
<1>4. Write = [phase |-> "out", link |-> call.link, list |-> call.list, outcome |-> call.outcome]
  BY <1>1 DEF Write
<1>5. Write' = [phase |-> Phase', link |-> call.link, list |-> call.list,
                outcome |-> call'.outcome]
  BY DEF Write
<1>6. call'.pc \in Out /\ call'.outcome = call.outcome => Write' = Write
  BY <1>2, <1>4, <1>5
<1>7. call'.pc = "landed" /\ call'.outcome = call.outcome
        => Write.phase = "out" /\ Write' = [Write EXCEPT !.phase = "landed"]
  BY <1>3, <1>4, <1>5
<1>8. call'.pc = "over" => Write.phase = "out" /\ Whole!Over(call'.outcome)
  BY <1>3, <1>4, <1>5 DEF Whole!Over
<1> QED BY <1>6, <1>7, <1>8

LEMMA CallIsRecord ==
  ASSUME UploadTypeOK
  PROVE  call \in CallState /\ 0 \in 0..MaxSwap
BY UploadAssumption DEF UploadTypeOK

\* A request that is answered without a change of the list, or goes on.
LEMMA OutGoesOn ==
  ASSUME UploadTypeOK,
         StartAccepted \/ ChunkStored \/ ChunkFails \/ CommitAdmitted
  PROVE  UNCHANGED <<lists, strays, Write>>
<1>1. call.pc \in Out /\ UNCHANGED <<lists, strays>>
  BY DEF StartAccepted, ChunkStored, ChunkFails, CommitAdmitted, rolelogic, Out
<1>2. /\ call'.pc \in Out /\ call'.outcome = call.outcome
      /\ call'.link = call.link /\ call'.list = call.list
  <2>1. CASE StartAccepted
    BY <2>1, CallIsRecord DEF StartAccepted, CallState, Out
  <2>2. CASE ChunkStored
    BY <2>2, CallIsRecord DEF ChunkStored, Sent, CallState, Out
  <2>3. CASE ChunkFails
    BY <2>3, CallIsRecord DEF ChunkFails, CallState, Out
  <2>4. CASE CommitAdmitted
    BY <2>4, CallIsRecord DEF CommitAdmitted, CallState, Out
  <2> QED BY <2>1, <2>2, <2>3, <2>4
<1>3. call' \in CallState
  BY TypeChunks, TypeCommit DEF UploadTypeOK
<1> QED BY <1>1, <1>2, <1>3, WriteMoves

LEMMA LandsReplaces ==
  ASSUME UploadTypeOK, PutLands \/ SwapLands
  PROVE  Whole!Replace
<1>1. call.pc \in Out /\ strays' = strays
  BY DEF PutLands, SwapLands, Out
<1>2. lists' = [lists EXCEPT ![call.link] = call.list]
  BY StagedIsList, SwapIsOpen DEF PutLands, SwapLands
<1>3. /\ call'.pc = "landed" /\ call'.outcome = call.outcome
      /\ call'.link = call.link /\ call'.list = call.list
  BY CallIsRecord DEF PutLands, SwapLands, CallState
<1>4. call' \in CallState
  BY TypeFirst, TypeCommit DEF UploadTypeOK
<1>5. Write.phase = "out" /\ Write' = [Write EXCEPT !.phase = "landed"]
  BY <1>1, <1>3, <1>4, WriteMoves
<1>6. Write.link = call.link /\ Write.list = call.list
  BY DEF Write
<1> QED BY <1>1, <1>2, <1>5, <1>6 DEF Whole!Replace

\* A call that is over: Refused or Failed by its outcome.
LEMMA OutEnds ==
  ASSUME UploadTypeOK, call.pc \in Out,
         NEW outcome \in {"held", "gone", "inactive", "failed"}, lists' = lists,
         \/ Return(outcome)
         \/ call' = [call EXCEPT !.pc = "over", !.outcome = outcome, !.age = 0],
         \/ strays' = strays
         \/ outcome = "failed" /\ strays' = strays \cup {<<call.link, call.list>>}
  PROVE  Whole!Refused \/ Whole!Failed
<1>1. /\ call'.pc = "over" /\ call'.outcome = outcome
      /\ call'.link = call.link /\ call'.list = call.list
  BY CallIsRecord DEF Return, CallState
<1>2. call' \in CallState
  <2>1. call.pc # "idle"
    BY DEF Out
  <2> QED BY <2>1, CallEnds DEF Return
<1>3. Write.phase = "out" /\ Whole!Over(outcome)
  BY <1>1, <1>2, WriteMoves
<1>4. Write.link = call.link /\ Write.list = call.list
  BY DEF Write
<1>5. CASE outcome = "failed"
  BY <1>3, <1>4, <1>5 DEF Whole!Failed
<1>6. CASE outcome # "failed"
  BY <1>3, <1>6 DEF Whole!Refused
<1> QED BY <1>5, <1>6

LEMMA EndsOfACall ==
  ASSUME UploadTypeOK,
         \/ FindsLinkGone \/ FindsLinkInactive \/ PutHeld \/ PutFails
         \/ StartRefused \/ StartFails \/ Cancelled \/ CancelFails
         \/ CommitHeld \/ CommitRefused \/ CommitFails
  PROVE  Whole!Refused \/ Whole!Failed
<1>1. CASE FindsLinkGone
  BY <1>1, OutEnds DEF FindsLinkGone, rolelogic, Out
<1>2. CASE FindsLinkInactive
  BY <1>2, OutEnds DEF FindsLinkInactive, rolelogic, Out
<1>3. CASE PutHeld
  BY <1>3, OutEnds DEF PutHeld, Out
<1>4. CASE PutFails
  BY <1>4, OutEnds DEF PutFails, rolelogic, Out
<1>5. CASE StartRefused
  BY <1>5, OutEnds DEF StartRefused, rolelogic, Out
<1>6. CASE StartFails
  BY <1>6, OutEnds DEF StartFails, Out
<1>7. CASE Cancelled
  BY <1>7, OutEnds DEF Cancelled, Out
<1>8. CASE CancelFails
  BY <1>8, OutEnds DEF CancelFails, rolelogic, Out
<1>9. CASE CommitHeld
  BY <1>9, OutEnds DEF CommitHeld, Out
<1>10. CASE CommitRefused
  BY <1>10, OutEnds DEF CommitRefused, rolelogic, Out
<1>11. CASE CommitFails
  <2>1. \/ strays' = strays
        \/ strays' = strays \cup {<<call.link, call.list>>}
    BY <1>11, StagedIsList, SwapIsOpen DEF CommitFails
  <2> QED BY <1>11, <2>1, OutEnds DEF CommitFails, Out
<1> QED BY <1>1, <1>2, <1>3, <1>4, <1>5, <1>6, <1>7, <1>8, <1>9, <1>10, <1>11

LEMMA AnswersEnd ==
  ASSUME UploadTypeOK, AnswerArrives \/ AnswerLost
  PROVE  Whole!Done \/ Whole!Failed
<1>1. call.pc = "landed" /\ UNCHANGED <<lists, strays>>
  BY DEF AnswerArrives, AnswerLost, rolelogic
<1>2. PICK outcome \in {"done", "failed"} : Return(outcome)
  BY DEF AnswerArrives, AnswerLost
<1>3. /\ call'.pc = "over" /\ call'.outcome = outcome
      /\ call'.link = call.link /\ call'.list = call.list
  BY <1>2, CallIsRecord DEF Return, CallState
<1>4. Phase = "landed" /\ Phase' = "over"
  BY <1>1, <1>3 DEF Phase
<1>5. Write = [phase |-> "landed", link |-> call.link, list |-> call.list,
               outcome |-> call.outcome]
  BY <1>4 DEF Write
<1>6. Write' = [phase |-> "over", link |-> call.link, list |-> call.list, outcome |-> outcome]
  BY <1>3, <1>4 DEF Write
<1>7. Write.phase = "landed" /\ Whole!Over(outcome)
  BY <1>5, <1>6 DEF Whole!Over
<1> QED BY <1>1, <1>2, <1>7 DEF Whole!Done, Whole!Failed

LEMMA UploadImplements ==
  ASSUME UploadTypeOK, UploadStep \/ UploadFails
  PROVE  Whole!Next \/ UNCHANGED <<lists, strays, Write>>
<1>1. \/ Whole!Replace \/ Whole!Refused \/ Whole!Failed \/ Whole!Done
      \/ UNCHANGED <<lists, strays, Write>>
  BY OutGoesOn, LandsReplaces, EndsOfACall, AnswersEnd
  DEF UploadStep, UploadFails, ChunkRefused, CancelRefused
<1> QED BY <1>1 DEF Whole!Next

LEMMA IdleIsNoWrite == Coherent(call) /\ call.pc = "idle" => Write = Whole!NoWrite
<1> SUFFICES ASSUME call = Idle PROVE Write = Whole!NoWrite
  BY DEF Coherent
<1>1. Phase = "none"
  BY DEF Phase, Idle
<1> QED BY <1>1 DEF Write, Idle, Whole!NoWrite

LEMMA BeginImplements ==
  ASSUME TypeOK, NEW l \in Link, SyncBegins(l)
  PROVE  Whole!Next
<1>1. Write = Whole!NoWrite
  BY IdleIsNoWrite DEF SyncBegins, UploadUsers, TypeOK, UploadTypeOK
<1>2. /\ call'.pc \in {"put", "start"} /\ call'.link = l /\ call'.list = wanted[l]
      /\ call'.outcome = "none" /\ UNCHANGED <<lists, strays>>
  BY DEF SyncBegins, UploadUsers, Idle, rolelogic
<1>3. Phase' = "out"
  BY <1>2 DEF Phase
<1>4. Write' = [phase |-> "out", link |-> l, list |-> wanted[l], outcome |-> "none"]
  BY <1>2, <1>3 DEF Write
<1>5. wanted[l] \in SUBSET User
  BY DEF TypeOK
<1>6. Whole!Begin(l, wanted[l])
  BY <1>1, <1>2, <1>4 DEF Whole!Begin
<1> QED BY <1>5, <1>6 DEF Whole!Next

LEMMA TakenImplements ==
  ASSUME TypeOK, NEW l \in Link, Returned(l)
  PROVE  Whole!Next
<1>1. Write.phase = "over"
  BY DEF Returned, Write, Phase
<1>2. Write' = Whole!NoWrite
  <2>1. Phase' = "none"
    BY DEF Returned, Phase, Idle
  <2> QED BY <2>1 DEF Returned, Write, Idle, Whole!NoWrite
<1>3. Whole!Taken
  BY <1>1, <1>2 DEF Whole!Taken, Returned, rolelogic
<1> QED BY <1>3 DEF Whole!Next

LEMMA RestartImplements ==
  ASSUME TypeOK, Restart
  PROVE  Whole!Next \/ UNCHANGED <<lists, strays, Write>>
<1>1. Write' = Whole!NoWrite
  <2>1. call' = Idle
    BY DEF Restart
  <2>2. Phase' = "none"
    BY <2>1 DEF Phase, Idle
  <2> QED BY <2>1, <2>2 DEF Write, Idle, Whole!NoWrite
<1>2. lists' = lists
  BY DEF Restart, rolelogic
<1>3. CASE call.pc = "idle"
  BY <1>1, <1>2, <1>3, IdleIsNoWrite DEF Restart, TypeOK, UploadTypeOK
<1>4. CASE call.pc # "idle"
  <2>1. Write.phase # "none" /\ Write.link = call.link /\ Write.list = call.list
    BY <1>4 DEF Write, Phase
  <2>2. \/ strays' = strays
        \/ call.pc \in Out /\ strays' = strays \cup {<<call.link, call.list>>}
    BY StagedIsList DEF Restart, Out, TypeOK
  <2>3. call.pc \in Out => Write.phase = "out"
    BY PhaseIs DEF Write
  <2>4. Whole!Abandoned
    BY <1>1, <1>2, <2>1, <2>2, <2>3 DEF Whole!Abandoned
  <2> QED BY <2>4 DEF Whole!Next
<1> QED BY <1>3, <1>4

LEMMA StraysImplement ==
  ASSUME TypeOK, Strays
  PROVE  Whole!Next
<1>1. PICK s \in strays : StrayLands(s) \/ StrayLost(s)
  BY DEF Strays
<1>2. Write' = Write
  BY <1>1 DEF StrayLands, StrayLost, Write, Phase
<1>3. CASE StrayLands(s)
  BY <1>1, <1>2, <1>3 DEF StrayLands, Whole!Next, Whole!StrayLands
<1>4. CASE StrayLost(s)
  BY <1>1, <1>2, <1>4 DEF StrayLost, rolelogic, Whole!Next, Whole!StrayLost
<1> QED BY <1>1, <1>3, <1>4

LEMMA TimeStutters ==
  ASSUME TypeOK, TimePasses
  PROVE  UNCHANGED <<lists, strays, Write>>
<1>1. call \in CallState
  BY DEF TypeOK, UploadTypeOK
<1>2. call' \in {call, [call EXCEPT !.age = call.age + 1]}
  BY DEF TimePasses
<1>3. call'.pc = call.pc /\ call'.link = call.link /\ call'.list = call.list
      /\ call'.outcome = call.outcome
  BY <1>1, <1>2 DEF CallState
<1> QED BY <1>3 DEF TimePasses, Write, Phase

LEMMA CallRests ==
  ASSUME UNCHANGED <<lists, strays, call>>
  PROVE  UNCHANGED <<lists, strays, Write>>
BY DEF Write, Phase

LEMMA StepImplements ==
  ASSUME TypeOK, [Next]_vars
  PROVE  [Whole!Next]_<<lists, Write, strays>>
<1>1. ASSUME NEW l \in Link, SyncBegins(l)
      PROVE  Whole!Next
  BY <1>1, BeginImplements
<1>2. ASSUME NEW l \in Link, SyncDone(l) \/ SyncHeld(l) \/ SyncDropped(l) \/ SyncFindsLinkGone(l)
      PROVE  Whole!Next
  BY <1>2, TakenImplements DEF SyncDone, SyncHeld, SyncDropped, SyncFindsLinkGone
<1>3. CASE Upload \/ UploadFault
  BY <1>3, UploadImplements DEF Upload, UploadFault, TypeOK
<1>4. CASE Restart
  BY <1>4, RestartImplements
<1>5. CASE Strays
  BY <1>5, StraysImplement
<1>6. CASE TimePasses
  BY <1>6, TimeStutters
<1>7. CASE Receive \/ TimeoutFires \/ UNCHANGED vars
  BY <1>7, CallRests DEF Receive, TimeoutFires, vars, uploadVars, rolelogic
<1>8. ASSUME NEW l \in Link, SyncSkips(l) \/ SyncFails(l) \/ Change(l) \/ Nudge(l)
      PROVE  UNCHANGED <<lists, strays, Write>>
  BY <1>8, CallRests DEF SyncSkips, SyncFails, Change, Nudge, uploadVars, rolelogic
<1>9. ASSUME NEW l \in Link, Owner(l)
      PROVE  UNCHANGED <<lists, strays, Write>>
  BY <1>9, CallRests DEF Owner, Confirm, SetUpstream, SessionExpires
<1> QED BY <1>1, <1>2, <1>3, <1>4, <1>5, <1>6, <1>7, <1>8, <1>9 DEF Next, WorkerStep

LEMMA InitImplements == ASSUME Init PROVE Whole!Init
<1>1. lists \in [Link -> SUBSET User]
  BY WorkerAssumption DEF Init
<1>2. Write = Whole!NoWrite
  BY IdleIsNoWrite DEF Init, UploadInit, Coherent, Idle
<1> QED BY <1>1, <1>2 DEF Init, UploadInit, Whole!Init

\* upload_users replaces a link's list as a whole or leaves it alone, by PUT or in chunks,
\* whatever fails and whenever the service restarts: the worker and its uploads implement
\* ListReplacement.
THEOREM Refinement == Spec => ReplacesAsAWhole
<1>1. Init => Whole!Init
  BY InitImplements
<1>2. TypeOK /\ [Next]_vars => [Whole!Next]_(Whole!vars)
  BY StepImplements DEF Whole!vars
<1> QED BY <1>1, <1>2, TypeCorrect, PTL DEF Spec, ReplacesAsAWhole, Whole!Spec

-----------------------------------------------------------------------------
(* An upload, and time                                                       *)

LEMMA Numbers ==
  ASSUME TypeOK, NEW l \in Link
  PROVE  /\ gate[l] \in GateState /\ gate[l].age \in Nat /\ gate[l].age <= Window
         /\ pending[l] # NotDue => pending[l] \in Nat
         /\ call.age \in Nat /\ call.age <= MaxSwap
BY UploadAssumption, WorkerAssumption DEF TypeOK, UploadTypeOK, GateState, CallState

LEMMA NumbersNext ==
  ASSUME TypeOK', NEW l \in Link
  PROVE  /\ gate'[l].age \in Nat /\ gate'[l].age <= Window
         /\ pending'[l] # NotDue => pending'[l] \in Nat
BY UploadAssumption, WorkerAssumption DEF TypeOK, UploadTypeOK, GateState

\* The call is still about the same link and list.
SameCall == call'.link = call.link /\ call'.list = call.list

\* The fields of a call that moves on.
LEMMA CallFields ==
  ASSUME call \in CallState, NEW pc, NEW outcome
  PROVE  /\ call' = [call EXCEPT !.pc = pc]
              => call'.pc = pc /\ SameCall /\ call'.outcome = call.outcome
         /\ call' = [call EXCEPT !.pc = pc, !.age = 0]
              => call'.pc = pc /\ SameCall /\ call'.outcome = call.outcome
         /\ call' = [call EXCEPT !.pc = pc, !.outcome = outcome]
              => call'.pc = pc /\ SameCall /\ call'.outcome = outcome
         /\ call' = [call EXCEPT !.pc = pc, !.outcome = outcome, !.age = 0]
              => call'.pc = pc /\ SameCall /\ call'.outcome = outcome
         /\ \A rest : call' = [call EXCEPT !.rest = rest, !.pc = pc]
              => call'.pc = pc /\ SameCall /\ call'.outcome = call.outcome
BY DEF CallState, SameCall

\* How a step of an upload moves the call: on, to a commit that may still hold the
\* worker up, or to an end.
MovesOn   == call.pc \in {"start", "chunk"} /\ call'.pc \in {"chunk", "commit"} /\ UNCHANGED <<gate, lists>>
Admitted  == /\ call.pc = "commit" /\ call'.pc = "swap"
             /\ gate' = [gate EXCEPT ![call.link] = Shut] /\ UNCHANGED lists
Cancels   == call.pc = "chunk" /\ call'.pc = "cancel" /\ UNCHANGED <<gate, lists>>
Puts      == /\ call.pc = "put" /\ call'.pc = "landed"
             /\ gate' = [gate EXCEPT ![call.link] = Shut]
             /\ lists' = [lists EXCEPT ![call.link] = call.list]
Swaps     == /\ call.pc = "swap" /\ call'.pc = "landed" /\ UNCHANGED gate
             /\ lists' = [lists EXCEPT ![call.link] = call.list]
HeldNow   == /\ call.pc \in {"put", "commit"} /\ call'.pc = "over" /\ call'.outcome = "held"
             /\ AskOwner /\ UNCHANGED lists
Answered  == call.pc = "landed" /\ call'.pc = "over" /\ call'.outcome = "done" /\ UNCHANGED <<gate, lists>>
ComesToNothing ==
  /\ call.pc \in Out \cup {"landed"} /\ call'.pc = "over"
  /\ call'.outcome \in {"gone", "inactive", "failed"} /\ UNCHANGED <<gate, lists>>

LEMMA UploadMoves ==
  ASSUME UploadTypeOK, UploadStep \/ UploadFails
  PROVE  /\ call.link \in Link /\ call'.link = call.link /\ call'.list = call.list
         /\ \/ MovesOn \/ Admitted \/ Cancels \/ Puts \/ Swaps \/ HeldNow \/ Answered
            \/ ComesToNothing
<1> DEFINE Goal == /\ call.pc # "idle" /\ SameCall
                   /\ \/ MovesOn \/ Admitted \/ Cancels \/ Puts \/ Swaps \/ HeldNow \/ Answered
                      \/ ComesToNothing
<1>0. call \in CallState
  BY DEF UploadTypeOK
<1>1. ASSUME FindsLinkGone \/ FindsLinkInactive \/ PutFails \/ StartRefused \/ StartFails PROVE Goal
  <2>1. /\ call.pc \in {"put", "start"} /\ UNCHANGED <<gate, lists>>
        /\ \E outcome \in {"gone", "inactive", "failed"} :
             call' = [call EXCEPT !.pc = "over", !.outcome = outcome]
    BY <1>1 DEF FindsLinkGone, FindsLinkInactive, PutFails, StartRefused, StartFails, Return,
                rolelogic
  <2>2. call'.pc = "over" /\ SameCall /\ call'.outcome \in {"gone", "inactive", "failed"}
    <3>1. PICK outcome \in {"gone", "inactive", "failed"} :
            call' = [call EXCEPT !.pc = "over", !.outcome = outcome]
      BY <2>1
    <3> QED BY <1>0, <3>1, CallFields
  <2> QED BY <2>1, <2>2 DEF ComesToNothing, Out
<1>2. ASSUME PutHeld \/ CommitHeld PROVE Goal
  <2>1. /\ call.pc \in {"put", "commit"} /\ AskOwner /\ UNCHANGED lists
        /\ call' = [call EXCEPT !.pc = "over", !.outcome = "held"]
    BY <1>2 DEF PutHeld, CommitHeld, Return
  <2>2. call'.pc = "over" /\ SameCall /\ call'.outcome = "held"
    BY <1>0, <2>1, CallFields
  <2> QED BY <2>1, <2>2 DEF HeldNow
<1>3. ASSUME PutLands PROVE Goal
  <2>1. call'.pc = "landed" /\ SameCall
    BY <1>0, <1>3, CallFields DEF PutLands
  <2> QED BY <1>3, <2>1 DEF PutLands, Puts
<1>4. ASSUME StartAccepted PROVE Goal
  <2>1. call'.pc = "chunk" /\ SameCall
    BY <1>0, <1>4, CallFields DEF StartAccepted
  <2> QED BY <1>4, <2>1 DEF StartAccepted, MovesOn
<1>5. ASSUME ChunkStored PROVE Goal
  <2>1. PICK chunk \in NextChunks : Sent(chunk)
    BY <1>5 DEF ChunkStored
  <2>2. PICK pc \in {"chunk", "commit"} : call' = [call EXCEPT !.rest = call.rest \ chunk, !.pc = pc]
    BY <2>1 DEF Sent
  <2>3. call'.pc \in {"chunk", "commit"} /\ SameCall
    BY <1>0, <2>2, CallFields
  <2> QED BY <1>5, <2>3 DEF ChunkStored, MovesOn
<1>6. ASSUME ChunkFails PROVE Goal
  <2>1. call'.pc = "cancel" /\ SameCall
    BY <1>0, <1>6, CallFields DEF ChunkFails
  <2> QED BY <1>6, <2>1 DEF ChunkFails, Cancels, rolelogic
<1>7. ASSUME Cancelled \/ CancelFails \/ CommitRefused \/ AnswerLost PROVE Goal
  <2>1. /\ call.pc \in {"cancel", "commit", "landed"} /\ UNCHANGED <<gate, lists>>
        /\ call' = [call EXCEPT !.pc = "over", !.outcome = "failed"]
    BY <1>7 DEF Cancelled, CancelFails, CommitRefused, AnswerLost, Return, rolelogic
  <2>2. call'.pc = "over" /\ SameCall /\ call'.outcome = "failed"
    BY <1>0, <2>1, CallFields
  <2> QED BY <2>1, <2>2 DEF ComesToNothing, Out
<1>8. ASSUME CommitAdmitted PROVE Goal
  <2>1. call'.pc = "swap" /\ SameCall
    BY <1>0, <1>8, CallFields DEF CommitAdmitted
  <2> QED BY <1>8, <2>1 DEF CommitAdmitted, Admitted
<1>9. ASSUME SwapLands PROVE Goal
  <2>1. call'.pc = "landed" /\ SameCall
    BY <1>0, <1>9, CallFields DEF SwapLands
  <2>2. session[call.link].staged = call.list
    BY <1>9, StagedIsList, SwapIsOpen DEF SwapLands
  <2> QED BY <1>9, <2>1, <2>2 DEF SwapLands, Swaps
<1>10. ASSUME CommitFails PROVE Goal
  <2>1. call'.pc = "over" /\ SameCall /\ call'.outcome = "failed"
    BY <1>0, <1>10, CallFields DEF CommitFails
  <2>2. call.pc \in {"commit", "swap"} /\ UNCHANGED <<gate, lists>>
    BY <1>10 DEF CommitFails
  <2> QED BY <2>1, <2>2 DEF ComesToNothing, Out
<1>11. ASSUME AnswerArrives PROVE Goal
  <2>1. call'.pc = "over" /\ SameCall /\ call'.outcome = "done"
    BY <1>0, <1>11, CallFields DEF AnswerArrives, Return
  <2> QED BY <1>11, <2>1 DEF AnswerArrives, Answered, rolelogic
<1> HIDE DEF Goal
<1>12. Goal
  BY <1>1, <1>2, <1>3, <1>4, <1>5, <1>6, <1>7, <1>8, <1>9, <1>10, <1>11
     DEF UploadStep, UploadFails, ChunkRefused, CancelRefused
<1>13. call.pc # "idle" => call.link \in Link
  BY DEF UploadTypeOK, Coherent
<1> QED BY <1>12, <1>13 DEF Goal, SameCall

\* What an upload says of the gate stays true, and the other links' gates stay.
LEMMA UploadGates ==
  ASSUME UploadTypeOK, GateOfCall, UploadStep \/ UploadFails
  PROVE  /\ call.pc # "idle" /\ call'.pc # "idle" /\ call.link \in Link /\ call'.link = call.link
         /\ \A l \in Link \ {call.link} : gate'[l] = gate[l]
         /\ GateOfCall'
<1>2. /\ call.link \in Link /\ call'.link = call.link
      /\ \/ MovesOn \/ Admitted \/ Cancels \/ Puts \/ Swaps \/ HeldNow \/ Answered
         \/ ComesToNothing
  BY UploadMoves
<1>3. call.pc # "idle" /\ call'.pc # "idle"
  BY <1>2 DEF MovesOn, Admitted, Cancels, Puts, Swaps, HeldNow, Answered, ComesToNothing, Out
<1>5. \A l \in Link \ {call.link} : gate'[l] = gate[l]
  BY <1>2 DEF MovesOn, Admitted, Cancels, Puts, Swaps, HeldNow, Answered, ComesToNothing,
              AskOwner, UploadTypeOK
<1>6. GateOfCall'
  <2>1. gate \in [Link -> GateState]
    BY DEF UploadTypeOK
  <2>2. CASE Admitted \/ Puts
    <3>1. gate'[call.link].state = "shut"
      BY <1>2, <2>1, <2>2 DEF Admitted, Puts, Shut
    <3> QED BY <1>2, <2>2, <3>1 DEF Admitted, Puts, GateOfCall
  <2>3. CASE Swaps \/ Answered
    <3>1. call.pc \in {"swap", "landed"} /\ gate' = gate
      BY <2>3 DEF Swaps, Answered
    <3>2. gate'[call'.link].state = "shut"
      BY <1>2, <3>1 DEF GateOfCall
    <3>3. ~(call'.pc = "over" /\ call'.outcome = "held")
      BY <2>3 DEF Swaps, Answered
    <3> QED BY <3>2, <3>3 DEF GateOfCall
  <2>4. CASE HeldNow
    <3>1. gate'[call.link].age = 0
      BY <1>2, <2>1, <2>4 DEF HeldNow, AskOwner
    <3> QED BY <1>2, <2>4, <3>1 DEF HeldNow, GateOfCall
  <2>5. CASE MovesOn \/ Cancels \/ ComesToNothing
    BY <2>5 DEF MovesOn, Cancels, ComesToNothing, GateOfCall
  <2> QED BY <1>2, <2>2, <2>3, <2>4, <2>5
<1> QED BY <1>2, <1>3, <1>5, <1>6

\* A unit of time: it is counted down from what is booked, and during a commit from what
\* the commit may still take.
LEMMA TimeMoves ==
  ASSUME TypeOK, TimePasses, NEW l \in Link
  PROVE  /\ gate'[l].state = gate[l].state /\ gate'[l].age <= gate[l].age + 1
         /\ pending[l] \in {0, NotDue} => pending'[l] = pending[l]
         /\ pending[l] \in Nat \ {0} => pending'[l] = pending[l] - 1
<1>1. gate[l] \in GateState /\ gate[l].age \in Nat
  BY Numbers
<1>2. gate'[l] = IF gate[l].state = "open" /\ gate[l].age < Window
                   THEN [gate[l] EXCEPT !.age = @ + 1] ELSE gate[l]
  BY DEF TimePasses
<1>3. gate'[l].state = gate[l].state /\ gate'[l].age <= gate[l].age + 1
  BY <1>1, <1>2 DEF GateState
<1>4. pending'[l] = IF pending[l] \in {0, NotDue} THEN pending[l] ELSE pending[l] - 1
  BY DEF TimePasses
<1> QED BY <1>3, <1>4, WorkerAssumption

\* The links that are pending stay so when time passes, and the call stays what it is.
LEMMA TimeKeeps ==
  ASSUME TypeOK, TimePasses
  PROVE  /\ \A l \in Link : pending[l] = NotDue <=> pending'[l] = NotDue
         /\ call'.pc = call.pc /\ call'.link = call.link /\ call'.outcome = call.outcome
         /\ call.pc \in {"idle", "swap"}
<1>0. TypeOK /\ call \in CallState
  BY DEF TypeOK, UploadTypeOK
<1>1. ASSUME NEW l \in Link PROVE pending[l] = NotDue <=> pending'[l] = NotDue
  <2>1. CASE pending[l] \in {0, NotDue}
    BY <1>0, <2>1, TimeMoves
  <2>2. CASE pending[l] \notin {0, NotDue}
    <3>1. pending[l] \in Nat \ {0} /\ pending'[l] = pending[l] - 1
      BY <1>0, <2>2, TimeMoves, Numbers
    <3>2. pending'[l] \in Nat
      BY <3>1
    <3> QED BY <2>2, <3>2, WorkerAssumption
  <2> QED BY <2>1, <2>2
<1>2. call'.pc = call.pc /\ call'.link = call.link /\ call'.outcome = call.outcome
  BY <1>0 DEF TimePasses, CallState
<1>3. call.pc \in {"idle", "swap"}
  BY DEF TimePasses, Waiting
<1> QED BY <1>1, <1>2, <1>3

-----------------------------------------------------------------------------
(* What is steady: what is taken is gone from the map, and the gate of the call *)

LEMMA SteadyWorld ==
  ASSUME Steady, TypeOK', UNCHANGED <<pending, ready, call>>,
         \A k \in Link : \/ gate'[k] = gate[k]
                        \/ /\ gate[k].state = "asked" /\ gate'[k].state = "open"
                           /\ gate'[k].age = 0
  PROVE  Steady'
<1>1. ReadyIsDue' /\ TakenIsGone'
  BY DEF Steady, ReadyIsDue, TakenIsGone
<1>2. call.pc # "idle" => call.link \in Link
  BY DEF Steady, TypeOK, UploadTypeOK, Coherent
<1>3. GateOfCall'
  BY <1>2 DEF Steady, GateOfCall
<1> QED BY <1>1, <1>3 DEF Steady

\* Around the worker, nothing happens to a gate but that it is confirmed.
LEMMA WorldMoves ==
  ASSUME TypeOK,
         \/ Strays
         \/ \E l \in Link : Change(l) \/ Nudge(l) \/ Owner(l)
         \/ UNCHANGED vars
  PROVE  /\ UNCHANGED <<pending, ready, call, postponed, waited>>
         /\ rows' \subseteq rows /\ dropped \subseteq dropped'
         /\ \A k \in Link :
              \/ gate'[k] = gate[k]
              \/ gate[k].state = "asked" /\ gate'[k].state = "open" /\ gate'[k].age = 0
<1>1. UNCHANGED <<pending, ready, call, postponed, waited>>
      /\ rows' \subseteq rows /\ dropped \subseteq dropped'
  BY DEF Strays, StrayLands, StrayLost, Change, Nudge, Owner, Confirm, SetUpstream,
         SessionExpires, uploadVars, rolelogic, worker, vars
<1>2. ASSUME NEW k \in Link
      PROVE  \/ gate'[k] = gate[k]
             \/ gate[k].state = "asked" /\ gate'[k].state = "open" /\ gate'[k].age = 0
  <2>1. gate \in [Link -> GateState]
    BY DEF TypeOK, UploadTypeOK
  <2>2. CASE \E l \in Link : Confirm(l)
    BY <2>1, <2>2 DEF Confirm
  <2>3. CASE ~\E l \in Link : Confirm(l)
    <3>1. gate' = gate
      BY <2>3 DEF Strays, StrayLands, StrayLost, Change, Nudge, Owner, SetUpstream,
         SessionExpires, uploadVars, rolelogic, worker, vars
    <3> QED BY <3>1
  <2> QED BY <2>2, <2>3
<1> QED BY <1>1, <1>2

LEMMA SteadyWaits ==
  ASSUME Steady, TypeOK', Receive \/ TimeoutFires
  PROVE  Steady'
<1>1. /\ ready = {} /\ call.pc = "idle" /\ UNCHANGED <<call, gate>> /\ ready' = Due(pending')
  BY DEF Receive, TimeoutFires, Waiting, uploadVars, rolelogic
<1> QED BY <1>1 DEF Steady, ReadyIsDue, TakenIsGone, GateOfCall, Due

\* The worker turns to link k.
LEMMA Turns ==
  ASSUME Steady, NEW k \in Link, SyncBegins(k) \/ SyncSkips(k) \/ SyncFails(k)
  PROVE  /\ call.pc = "idle" /\ k \in ready /\ UNCHANGED <<gate, rows>>
         /\ ready' = ready \ {k} /\ postponed' = postponed \ {k} /\ dropped \subseteq dropped'
         /\ pending' = [pending EXCEPT ![k] = NotDue] /\ waited' = [waited EXCEPT ![k] = 0]
         /\ pending \in [Link -> Nat \cup {NotDue}] /\ ready \subseteq Link /\ waited \in [Link -> Nat]
         /\ \/ SyncBegins(k) /\ call'.pc \in {"put", "start"} /\ call'.link = k
            \/ call' = call /\ (k \notin rows' \/ k \in dropped')
<1>1. /\ call.pc = "idle" /\ k \in ready /\ UNCHANGED <<gate, rows>>
      /\ ready' = ready \ {k} /\ postponed' = postponed \ {k} /\ dropped \subseteq dropped'
      /\ pending' = [pending EXCEPT ![k] = NotDue] /\ waited' = [waited EXCEPT ![k] = 0]
  BY DEF SyncBegins, SyncSkips, SyncFails, Takes, UploadUsers, uploadVars, rolelogic
<1>2. \/ SyncBegins(k) /\ call'.pc \in {"put", "start"} /\ call'.link = k
      \/ call' = call /\ (k \notin rows' \/ k \in dropped')
  BY DEF SyncBegins, SyncSkips, SyncFails, UploadUsers, Idle, uploadVars
<1>3. pending \in [Link -> Nat \cup {NotDue}] /\ ready \subseteq Link /\ waited \in [Link -> Nat]
  BY DEF Steady, TypeOK
<1> QED BY <1>1, <1>2, <1>3

LEMMA SteadyTurns ==
  ASSUME Steady, TypeOK', NEW k \in Link, SyncBegins(k) \/ SyncSkips(k) \/ SyncFails(k)
  PROVE  Steady'
<1>1. ReadyIsDue'
  BY Turns DEF Steady, ReadyIsDue
<1>2. TakenIsGone' /\ GateOfCall'
  BY Turns DEF TakenIsGone, GateOfCall
<1> QED BY <1>1, <1>2 DEF Steady

\* The outcome of link k reaches the worker.
LEMMA Returns ==
  ASSUME Steady, NEW k \in Link,
         SyncDone(k) \/ SyncHeld(k) \/ SyncDropped(k) \/ SyncFindsLinkGone(k)
  PROVE  /\ call.pc = "over" /\ k = call.link /\ call' = Idle /\ call'.pc = "idle"
         /\ UNCHANGED <<gate, ready, postponed, waited>> /\ rows' \subseteq rows
         /\ dropped \ {k} \subseteq dropped'
         /\ pending \in [Link -> Nat \cup {NotDue}] /\ ready \subseteq Link
         /\ k \notin ready /\ pending[k] = NotDue
         /\ \/ pending' = pending
            \/ SyncHeld(k) /\ pending' = [pending EXCEPT ![k] = HeldRecheck]
<1>1. /\ call.pc = "over" /\ k = call.link /\ call' = Idle
      /\ UNCHANGED <<gate, ready, postponed, waited>> /\ rows' \subseteq rows
      /\ dropped \ {k} \subseteq dropped'
  BY DEF SyncDone, SyncHeld, SyncDropped, SyncFindsLinkGone, Returned, rolelogic
<1>2. pending \in [Link -> Nat \cup {NotDue}] /\ ready \subseteq Link
  BY DEF Steady, TypeOK
<1>3. k \notin ready /\ pending[k] = NotDue
  BY <1>1 DEF Steady, TakenIsGone
<1>4. \/ pending' = pending
      \/ SyncHeld(k) /\ pending' = [pending EXCEPT ![k] = HeldRecheck]
  BY <1>2, <1>3 DEF SyncDone, SyncHeld, SyncDropped, SyncFindsLinkGone
<1>5. call'.pc = "idle"
  BY <1>1 DEF Idle
<1> QED BY <1>1, <1>2, <1>3, <1>4, <1>5

LEMMA SteadyReturned ==
  ASSUME Steady, TypeOK', NEW k \in Link,
         SyncDone(k) \/ SyncHeld(k) \/ SyncDropped(k) \/ SyncFindsLinkGone(k)
  PROVE  Steady'
<1>1. ReadyIsDue'
  BY Returns DEF Steady, ReadyIsDue
<1>2. TakenIsGone' /\ GateOfCall'
  BY Returns DEF TakenIsGone, GateOfCall
<1> QED BY <1>1, <1>2 DEF Steady

LEMMA SteadyUpload ==
  ASSUME Steady, TypeOK', Upload \/ UploadFault
  PROVE  Steady'
<1>1. UploadTypeOK /\ GateOfCall /\ UNCHANGED <<pending, ready>> /\ (UploadStep \/ UploadFails)
  BY DEF Steady, TypeOK, Upload, UploadFault, worker
<1>2. call.pc # "idle" /\ call'.link = call.link /\ GateOfCall'
  BY <1>1, UploadGates
<1> QED BY <1>1, <1>2 DEF Steady, ReadyIsDue, TakenIsGone

LEMMA SteadyTime ==
  ASSUME Steady, TypeOK', TimePasses
  PROVE  Steady'
<1>0. TypeOK /\ ready' = ready /\ ready \subseteq Link
  BY DEF Steady, TypeOK, TimePasses
<1>1. call.pc # "idle" => call.link \in Link
  BY <1>0 DEF TypeOK, UploadTypeOK, Coherent
<1>2. ReadyIsDue'
  BY <1>0, TimeMoves DEF Steady, ReadyIsDue
<1>3. TakenIsGone' /\ GateOfCall'
  BY <1>0, <1>1, TimeKeeps, TimeMoves DEF Steady, TakenIsGone, GateOfCall
<1> QED BY <1>2, <1>3 DEF Steady

\* A restart drops whatever the worker had in hand.
LEMMA Restarts ==
  ASSUME Restart
  PROVE  /\ call' = Idle /\ ready' = {} /\ UNCHANGED <<gate, rows, postponed>>
         /\ dropped \subseteq dropped' /\ {l \in Link : pending[l] # NotDue} \subseteq dropped'
         /\ {call.link} \cap Link \subseteq dropped'
BY DEF Restart, rolelogic

LEMMA SteadyRestart == ASSUME TypeOK', Restart PROVE Steady'
BY Restarts DEF Steady, ReadyIsDue, TakenIsGone, GateOfCall, Idle

LEMMA SteadyInit == ASSUME Init PROVE Steady /\ \A l \in Link : gate[l].state = "shut"
<1>1. TypeOK
  BY TypeInit
<1>2. call.pc = "idle" /\ ready = {} /\ \A l \in Link : gate[l].state = "shut"
  BY DEF Init, UploadInit, Idle, Shut
<1> QED BY <1>1, <1>2 DEF Steady, ReadyIsDue, TakenIsGone, GateOfCall

LEMMA SteadyStep == ASSUME Steady, [Next]_vars PROVE Steady'
<1>0. TypeOK /\ TypeOK'
  BY TypeStep DEF Steady
<1>1. CASE WorkerStep
  BY <1>0, <1>1, SteadyWaits, SteadyTurns, SteadyReturned, SteadyUpload DEF WorkerStep
<1>2. CASE TimePasses
  BY <1>0, <1>2, SteadyTime
<1>3. CASE UploadFault
  BY <1>0, <1>3, SteadyUpload
<1>4. CASE Restart
  BY <1>0, <1>4, SteadyRestart
<1>5. CASE Strays \/ (\E l \in Link : Change(l) \/ Nudge(l) \/ Owner(l)) \/ UNCHANGED vars
  BY <1>0, <1>5, SteadyWorld, WorldMoves
<1>6. CASE \E l \in Link : SyncFails(l)
  BY <1>0, <1>6, SteadyTurns
<1> QED BY <1>1, <1>2, <1>3, <1>4, <1>5, <1>6 DEF Next

-----------------------------------------------------------------------------
(* A confirmation is used, but for the commits of other links                *)

\* Only time brings a confirmation to its end.
LEMMA OnlyTimeLapses ==
  ASSUME TypeOK, GateOfCall, [Next]_vars, NEW l \in Link, Lapses(l)
  PROVE  TimePasses
<1>1. gate[l].age \in Nat /\ gate[l].age < Window /\ gate'[l].age = Window
      /\ gate \in [Link -> GateState] /\ Window \in Nat \ {0}
  BY Numbers, UploadAssumption DEF Lapses, TypeOK, UploadTypeOK
<1>2. CASE Upload \/ UploadFault
  <2>1. /\ call.link \in Link
        /\ \/ MovesOn \/ Admitted \/ Cancels \/ Puts \/ Swaps \/ HeldNow \/ Answered
           \/ ComesToNothing
    BY <1>2, UploadMoves DEF Upload, UploadFault, TypeOK
  <2>2. gate' = gate \/ gate' = [gate EXCEPT ![call.link] = Shut] \/ AskOwner
    BY <2>1 DEF MovesOn, Admitted, Cancels, Puts, Swaps, HeldNow, Answered, ComesToNothing
  <2>3. gate'[l] = gate[l] \/ gate'[l].age = 0
    BY <1>1, <2>1, <2>2 DEF AskOwner, Shut
  <2> QED BY <1>1, <2>3
<1>3. CASE \E k \in Link : Confirm(k)
  BY <1>1, <1>3 DEF Confirm
<1>4. CASE gate' = gate
  BY <1>1, <1>4
<1>5. TimePasses \/ Upload \/ UploadFault \/ (\E k \in Link : Confirm(k)) \/ gate' = gate
  BY DEF Next, WorkerStep, Receive, TimeoutFires, SyncBegins, SyncSkips, SyncFails, UploadUsers,
         SyncDone, SyncHeld, SyncDropped, SyncFindsLinkGone, Returned, Restart, Strays,
         StrayLands, StrayLost, Change, Nudge, Owner, SetUpstream, SessionExpires,
         uploadVars, rolelogic, vars
<1> QED BY <1>2, <1>3, <1>4, <1>5

LEMMA StaysOnTime ==
  ASSUME TypeOK, TypeOK', NEW l \in Link, OnTime(l), OwnCall(l) => OwnCall(l)',
         pending'[l] = pending[l], gate'[l].age <= gate[l].age, waited'[l] = waited[l]
  PROVE  OnTime(l)'
<1>1. gate[l].age \in Nat /\ gate'[l].age \in Nat /\ waited[l] \in Nat /\ HeldRecheck \in Nat
  BY Numbers, NumbersNext, WorkerAssumption DEF TypeOK
<1>2. Booked(l) => Booked(l)'
  BY <1>1 DEF Booked
<1>3. Waits(l) => Waits(l)'
  BY <1>1 DEF Waits
<1> QED BY <1>2, <1>3 DEF OnTime

LEMMA OnTimeWorld ==
  ASSUME OnTimeInv, Steady',
         \/ Strays
         \/ \E l \in Link : Change(l) \/ Nudge(l) \/ Owner(l)
         \/ UNCHANGED vars,
         NEW l \in Link, Owed(l)'
  PROVE  OnTime(l)'
<1>0. TypeOK /\ TypeOK'
  BY DEF OnTimeInv, Steady
<1>1. Owed(l) /\ gate'[l].age <= gate[l].age
  BY <1>0, WorldMoves, Numbers DEF Owed, Excused
<1>2. OwnCall(l) => OwnCall(l)'
  BY <1>0, WorldMoves DEF OwnCall
<1> QED BY <1>0, <1>1, <1>2, WorldMoves, StaysOnTime DEF OnTimeInv, OwedIsOnTime

LEMMA OnTimeWaits ==
  ASSUME OnTimeInv, Steady', Receive \/ TimeoutFires, NEW l \in Link, Owed(l)'
  PROVE  OnTime(l)'
<1>0. /\ TypeOK /\ TypeOK' /\ call.pc = "idle" /\ UNCHANGED <<call, gate, rows, dropped>>
      /\ postponed \subseteq postponed'
  BY DEF OnTimeInv, Steady, Receive, TimeoutFires, Waiting, uploadVars, rolelogic
<1>1. OnTime(l) /\ ~OwnCall(l)
  BY <1>0 DEF OnTimeInv, OwedIsOnTime, Owed, Excused, OwnCall
<1>2. pending[l] # NotDue
  BY <1>1, WorkerAssumption DEF OnTime, Booked, Waits
<1>3. pending'[l] = pending[l] /\ waited'[l] = waited[l]
  BY <1>2 DEF Receive, TimeoutFires, Owed, Excused
<1> QED BY <1>0, <1>1, <1>3, Numbers, StaysOnTime

\* The worker turns to link k, or drops it.
LEMMA OnTimeTurns ==
  ASSUME OnTimeInv, Steady', NEW k \in Link, SyncBegins(k) \/ SyncSkips(k) \/ SyncFails(k),
         NEW l \in Link, Owed(l)'
  PROVE  OnTime(l)'
<1>0. TypeOK /\ TypeOK' /\ Steady
  BY DEF OnTimeInv, Steady
<1>1. CASE l = k
  BY <1>0, <1>1, Turns DEF Owed, Excused, OnTime, OwnCall
<1>2. CASE l # k
  <2>1. /\ pending'[l] = pending[l] /\ waited'[l] = waited[l] /\ gate'[l] = gate[l]
        /\ ~OwnCall(l) /\ Owed(l)
    BY <1>0, <1>2, Turns DEF Owed, Excused, OwnCall
  <2> QED BY <1>0, <2>1, Numbers, StaysOnTime DEF OnTimeInv, OwedIsOnTime
<1> QED BY <1>1, <1>2

\* The outcome of link k reaches the worker: a hold is booked afresh.
LEMMA OnTimeReturned ==
  ASSUME OnTimeInv, Steady', NEW k \in Link,
         SyncDone(k) \/ SyncHeld(k) \/ SyncDropped(k) \/ SyncFindsLinkGone(k),
         NEW l \in Link, Owed(l)'
  PROVE  OnTime(l)'
<1>0. TypeOK /\ TypeOK' /\ Steady
  BY DEF OnTimeInv, Steady
<1>1. CASE l = k /\ SyncHeld(k)
  <2>1. pending'[k] = HeldRecheck
    BY <1>0, <1>1, Returns DEF SyncHeld
  <2>2. gate'[k].age = 0
    BY <1>0, <1>1, Returns DEF SyncHeld, Steady, GateOfCall
  <2> QED BY <1>1, <2>1, <2>2, WorkerAssumption DEF OnTime, Booked
<1>2. CASE l = k /\ ~SyncHeld(k)
  <2>1. CASE SyncDone(k)
    BY <1>0, <1>2, <2>1, Returns DEF SyncDone, Steady, GateOfCall, Owed
  <2>2. CASE SyncDropped(k) \/ SyncFindsLinkGone(k)
    BY <1>2, <2>2 DEF SyncDropped, SyncFindsLinkGone, Owed, Excused
  <2> QED BY <1>2, <2>1, <2>2
<1>3. CASE l # k
  <2>1. /\ pending'[l] = pending[l] /\ waited'[l] = waited[l] /\ gate'[l] = gate[l]
        /\ ~OwnCall(l) /\ Owed(l)
    BY <1>0, <1>3, Returns DEF Owed, Excused, OwnCall
  <2> QED BY <1>0, <2>1, Numbers, StaysOnTime DEF OnTimeInv, OwedIsOnTime
<1> QED BY <1>1, <1>2, <1>3

LEMMA OnTimeUpload ==
  ASSUME OnTimeInv, Steady', Upload \/ UploadFault, NEW l \in Link, Owed(l)'
  PROVE  OnTime(l)'
<1>0. /\ TypeOK /\ TypeOK' /\ UploadTypeOK /\ GateOfCall
      /\ UNCHANGED <<pending, rows, postponed, waited>> /\ dropped \ {call.link} \subseteq dropped'
      /\ UploadStep \/ UploadFails
  BY DEF OnTimeInv, Steady, TypeOK, Upload, UploadFault, worker
<1>1. CASE l = call.link
  BY <1>0, <1>1, UploadGates DEF OnTime, OwnCall
<1>2. CASE l # call.link
  <2>1. gate'[l] = gate[l] /\ Owed(l) /\ ~OwnCall(l)
    BY <1>0, <1>2, UploadGates DEF Owed, Excused, OwnCall
  <2> QED BY <1>0, <2>1, Numbers, StaysOnTime DEF OnTimeInv, OwedIsOnTime
<1> QED BY <1>1, <1>2

\* A unit of time: it is counted down from what is booked, and for what is due counted as
\* waited.
LEMMA OnTimeTime ==
  ASSUME OnTimeInv, Steady', TimePasses, NEW l \in Link, Owed(l)'
  PROVE  OnTime(l)'
<1>0. TypeOK /\ TypeOK' /\ UNCHANGED <<rows, dropped, postponed>>
  BY DEF OnTimeInv, Steady, TimePasses
<1>1. Owed(l) /\ ~OwnCall(l)
  BY <1>0, TimeMoves, TimeKeeps DEF Owed, Excused, OwnCall, OnTimeInv, Steady, GateOfCall
<1>2. Booked(l) \/ Waits(l)
  BY <1>1 DEF OnTimeInv, OwedIsOnTime, OnTime
<1>3. /\ gate[l].age \in Nat /\ gate'[l].age \in Nat /\ gate'[l].age <= gate[l].age + 1
      /\ HeldRecheck \in Nat /\ waited[l] \in Nat /\ waited'[l] \in Nat
  BY <1>0, Numbers, NumbersNext, TimeMoves, WorkerAssumption DEF TypeOK
<1>4. CASE Booked(l)
  <2>1. pending[l] \in Nat \ {0} /\ gate[l].age + pending[l] <= HeldRecheck
        /\ pending'[l] = pending[l] - 1
    BY <1>0, <1>4, TimeMoves DEF Booked
  <2>2. pending'[l] \in Nat /\ gate'[l].age + pending'[l] <= HeldRecheck
    BY <1>3, <2>1
  <2>3. pending'[l] # 0 => Booked(l)'
    BY <2>2 DEF Booked
  <2>4. pending'[l] = 0 => Waits(l)'
    BY <1>3, <2>2 DEF Waits
  <2> QED BY <2>3, <2>4 DEF OnTime
<1>5. CASE Waits(l)
  <2>1. pending[l] = 0 /\ pending'[l] = 0 /\ gate[l].age <= HeldRecheck + waited[l]
    BY <1>0, <1>5, TimeMoves DEF Waits
  <2>2. \/ gate'[l] = gate[l] /\ waited'[l] >= waited[l]
        \/ waited'[l] = waited[l] + 1
    BY <1>3, <2>1 DEF TimePasses
  <2>3. gate'[l].age <= HeldRecheck + waited'[l]
    BY <1>3, <2>1, <2>2
  <2> QED BY <2>1, <2>3 DEF OnTime, Waits
<1> QED BY <1>2, <1>4, <1>5

LEMMA OnTimeRestart ==
  ASSUME OnTimeInv, Restart, NEW l \in Link, Owed(l)'
  PROVE  OnTime(l)'
<1>1. Owed(l) /\ pending[l] = NotDue /\ l # call.link
  BY Restarts DEF Owed, Excused
<1>2. ~OnTime(l)
  BY <1>1, WorkerAssumption DEF OnTime, OwnCall, Booked, Waits
<1> QED BY <1>1, <1>2 DEF OnTimeInv, OwedIsOnTime

LEMMA OnTimeStep ==
  ASSUME OnTimeInv, [Next]_vars
  PROVE  OnTimeInv'
<1>0. Steady'
  BY SteadyStep DEF OnTimeInv
<1> SUFFICES ASSUME NEW l \in Link, Owed(l)' PROVE OnTime(l)'
  BY <1>0 DEF OnTimeInv, OwedIsOnTime
<1>1. CASE WorkerStep
  BY <1>0, <1>1, OnTimeWaits, OnTimeTurns, OnTimeReturned, OnTimeUpload DEF WorkerStep
<1>2. CASE TimePasses
  BY <1>0, <1>2, OnTimeTime
<1>3. CASE UploadFault
  BY <1>0, <1>3, OnTimeUpload
<1>4. CASE Restart
  BY <1>4, OnTimeRestart
<1>5. CASE Strays \/ (\E k \in Link : Change(k) \/ Nudge(k) \/ Owner(k)) \/ UNCHANGED vars
  BY <1>0, <1>5, OnTimeWorld
<1>6. CASE \E k \in Link : SyncFails(k)
  BY <1>0, <1>6, OnTimeTurns
<1> QED BY <1>1, <1>2, <1>3, <1>4, <1>5, <1>6 DEF Next

\* A confirmation that lapses with nothing to excuse it: the link is due, and has waited for
\* the rest of the hour.
LEMMA LapseIsWaited ==
  ASSUME OnTimeInv, [Next]_vars, NEW l \in Link, Lapses(l), ~Excused(l)
  PROVE  HeldRecheck + waited'[l] >= Window
<1>0. Steady /\ TypeOK /\ TypeOK' /\ TimePasses
  BY SteadyStep, OnlyTimeLapses DEF OnTimeInv, Steady
<1>1. /\ gate[l].state = "open" /\ gate[l].age \in Nat /\ gate[l].age + 1 >= Window
      /\ Window \in Nat /\ HeldRecheck \in Nat /\ waited[l] \in Nat /\ waited'[l] \in Nat
  BY <1>0, Numbers, NumbersNext, TimeMoves, UploadAssumption, WorkerAssumption DEF Lapses, TypeOK
<1>2. ~OwnCall(l)
  BY <1>0, <1>1 DEF OwnCall, TimePasses, Waiting, Steady, GateOfCall
<1>3. Booked(l) \/ Waits(l)
  BY <1>1, <1>2 DEF OnTimeInv, OwedIsOnTime, Owed, OnTime
<1>4. CASE Booked(l)
  BY <1>1, <1>4 DEF Booked
<1>5. CASE Waits(l)
  <2>1. gate[l].age <= HeldRecheck + waited[l] /\ pending[l] = 0
    BY <1>5 DEF Waits
  <2>2. waited'[l] = waited[l] + 1
    BY <1>0, <1>1, <2>1 DEF TimePasses
  <2> QED BY <1>1, <2>1, <2>2
<1> QED BY <1>3, <1>4, <1>5

\* For any number of links and any periods: a confirmation lapses unused only when an event
\* has put the link off, its last sync came to nothing, its row is gone, or, once it was due
\* for its re-check, the commits of other links took what the re-check had left of the hour.
THEOREM ConfirmationCorrect == Spec => ConfirmationIsUsed
<1>1. Init => OnTimeInv
  BY SteadyInit DEF OnTimeInv, OwedIsOnTime, Owed
<1>2. OnTimeInv /\ [Next]_vars => OnTimeInv'
  BY OnTimeStep
<1>3. OnTimeInv /\ [Next]_vars
        => [\A l \in Link : Lapses(l) => Excused(l) \/ HeldRecheck + waited'[l] >= Window]_vars
  BY LapseIsWaited
<1> QED BY <1>1, <1>2, <1>3, PTL DEF Spec, ConfirmationIsUsed

-----------------------------------------------------------------------------
(* When the re-check lands inside the hour: the time there is                *)

\* How late link l may be while the worker may still turn to the links B before it.
Room(l, B) == HeldRecheck + MaxSwap * Cardinality(Link \ ({l} \cup B))

LEMMA AllowedIsRoom == ASSUME NEW l PROVE Allowed(l) = Room(l, Before(l))
BY DEF Allowed, Room

LEMMA TimesMore ==
  ASSUME NEW m \in Nat, NEW a \in Nat, NEW b \in Nat
  PROVE  /\ m * a \in Nat
         /\ a <= b => m * a <= m * b
         /\ m * (a + 1) = m * a + m
<1>1. m * a \in Nat
  BY SMT
<1>2. ASSUME a <= b PROVE m * a <= m * b
  <2>1. b - a \in Nat /\ m * (b - a) \in Nat
    BY <1>2, SMT
  <2>2. m * b = m * a + m * (b - a)
    BY <2>1, SMT
  <2> QED BY <1>1, <2>1, <2>2, SMT
<1> QED BY <1>1, <1>2, SMT

LEMMA RoomIs ==
  ASSUME IsFiniteSet(Link), NEW l \in Link, NEW B
  PROVE  Room(l, B) \in Nat /\ HeldRecheck <= Room(l, B)
<1>1. Cardinality(Link \ ({l} \cup B)) \in Nat
  BY FS_Subset, FS_CardinalityType, Link \ ({l} \cup B) \subseteq Link
<1> QED BY <1>1, TimesMore, UploadAssumption, WorkerAssumption DEF Room

LEMMA RoomGrows ==
  ASSUME IsFiniteSet(Link), NEW l \in Link, NEW B, NEW C, B \subseteq C
  PROVE  Room(l, C) <= Room(l, B)
<1> DEFINE Rest(S) == Link \ ({l} \cup S)
<1>1. Rest(C) \subseteq Rest(B) /\ Rest(B) \subseteq Link
  OBVIOUS
<1>2. /\ Cardinality(Rest(B)) \in Nat /\ Cardinality(Rest(C)) \in Nat
      /\ Cardinality(Rest(C)) <= Cardinality(Rest(B))
  BY <1>1, FS_Subset, FS_CardinalityType
<1>3. MaxSwap * Cardinality(Rest(C)) <= MaxSwap * Cardinality(Rest(B))
      /\ MaxSwap * Cardinality(Rest(C)) \in Nat /\ MaxSwap * Cardinality(Rest(B)) \in Nat
  BY <1>2, TimesMore, UploadAssumption
<1> HIDE DEF Rest
<1>4. HeldRecheck + MaxSwap * Cardinality(Rest(C)) <= HeldRecheck + MaxSwap * Cardinality(Rest(B))
  BY <1>3, WorkerAssumption
<1> QED BY <1>4 DEF Room, Rest

\* One link fewer before l is one commit more.
LEMMA RoomByOne ==
  ASSUME IsFiniteSet(Link), NEW l \in Link, NEW k \in Link \ {l}, NEW C, k \in C
  PROVE  Room(l, C \ {k}) = Room(l, C) + MaxSwap
<1> DEFINE R == Link \ ({l} \cup C)
           S == Link \ ({l} \cup (C \ {k}))
<1>1. S = R \cup {k} /\ k \notin R /\ R \subseteq Link
  OBVIOUS
<1>2. IsFiniteSet(R) /\ Cardinality(R) \in Nat
  BY <1>1, FS_Subset, FS_CardinalityType
<1>3. Cardinality(S) = Cardinality(R) + 1
  BY <1>1, <1>2, FS_AddElement
<1>4. MaxSwap * Cardinality(S) = MaxSwap * Cardinality(R) + MaxSwap
      /\ MaxSwap * Cardinality(R) \in Nat
  BY <1>2, <1>3, TimesMore, UploadAssumption
<1>5. Room(l, C) = HeldRecheck + MaxSwap * Cardinality(R)
      /\ Room(l, C \ {k}) = HeldRecheck + MaxSwap * Cardinality(S)
  BY DEF Room
<1> HIDE DEF R, S
<1> QED BY <1>4, <1>5, UploadAssumption, WorkerAssumption

LEMMA RoomInAll ==
  ASSUME IsFiniteSet(Link), WindowFits, NEW l \in Link, NEW B
  PROVE  Room(l, B) < Window
<1>1. Room(l, B) <= Room(l, {})
  BY RoomGrows
<1>2. Cardinality(Link \ {l}) = Cardinality(Link) - 1
  BY FS_RemoveElement
<1>3. Link \ ({l} \cup {}) = Link \ {l}
  OBVIOUS
<1>4. Room(l, {}) < Window
  BY <1>2, <1>3 DEF Room, WindowFits
<1> QED BY <1>1, <1>4, RoomIs, UploadAssumption

-----------------------------------------------------------------------------
(* When the re-check lands inside the hour: every step                       *)

LEMMA TakesIs ==
  ASSUME UploadTypeOK
  PROVE  /\ StillTakes \in Nat /\ StillTakes <= MaxSwap
         /\ call.pc \in {"idle", "cancel", "landed"} => StillTakes = 0
         /\ call.pc = "over" /\ call.outcome # "held" => StillTakes = 0
         /\ call.pc \in {"put", "start", "chunk", "commit"} => StillTakes = MaxSwap
         /\ call.pc = "over" /\ call.outcome = "held" => StillTakes = MaxSwap
         /\ call.pc = "swap" => StillTakes = MaxSwap - call.age
BY UploadAssumption DEF StillTakes, UploadTypeOK, CallState

LEMMA TakesIsNext ==
  ASSUME UploadTypeOK'
  PROVE  /\ StillTakes' \in Nat /\ StillTakes' <= MaxSwap
         /\ call'.pc = "idle" => StillTakes' = 0
         /\ call'.pc = "swap" => StillTakes' = MaxSwap - call'.age
BY UploadAssumption DEF StillTakes, UploadTypeOK, CallState

\* No step of an upload makes it take longer.
LEMMA UploadTakesLess ==
  ASSUME UploadTypeOK, UploadStep \/ UploadFails
  PROVE  StillTakes' <= StillTakes
<1>1. UploadTypeOK'
  BY TypeUpload
<1>2. /\ call.link \in Link /\ call'.link = call.link
      /\ \/ MovesOn \/ Admitted \/ Cancels \/ Puts \/ Swaps \/ HeldNow \/ Answered
         \/ ComesToNothing
  BY UploadMoves
<1>3. StillTakes \in Nat /\ StillTakes' \in Nat /\ StillTakes' <= MaxSwap /\ MaxSwap \in Nat
  BY <1>1, TakesIs, UploadAssumption DEF StillTakes, UploadTypeOK, CallState
<1>4. CASE call.pc \in {"put", "start", "chunk", "commit"}
  BY <1>3, <1>4, TakesIs
<1>5. CASE call.pc \notin {"put", "start", "chunk", "commit"}
  <2>1. StillTakes' = 0
    BY <1>2, <1>5 DEF MovesOn, Admitted, Cancels, Puts, Swaps, HeldNow, Answered,
                      ComesToNothing, StillTakes
  <2> QED BY <1>3, <2>1
<1> QED BY <1>4, <1>5

LEMMA InTurnMeans ==
  ASSUME NEW l
  PROVE  /\ InTurn(l) <=> pending[l] = 0 /\ gate[l].age + StillTakes <= Room(l, Before(l))
         /\ InTurn(l)' <=> pending'[l] = 0 /\ gate'[l].age + StillTakes' <= Room(l, Before(l)')
BY DEF InTurn, Allowed, Room

LEMMA KeepsTurn ==
  ASSUME IsFiniteSet(Link), TypeOK, TypeOK', NEW l \in Link, InTurn(l), pending'[l] = 0,
         gate'[l].age <= gate[l].age, StillTakes' <= StillTakes,
         Before(l)' \subseteq Before(l)
  PROVE  InTurn(l)'
<1>1. Room(l, Before(l)) <= Room(l, Before(l)')
  BY RoomGrows
<1>2. Room(l, Before(l)) \in Nat /\ Room(l, Before(l)') \in Nat
  BY RoomIs
<1>3. gate[l].age \in Nat /\ gate'[l].age \in Nat
  BY Numbers, NumbersNext
<1>4. StillTakes \in Nat /\ StillTakes' \in Nat
  BY TakesIs, TakesIsNext DEF TypeOK
<1>5. gate[l].age + StillTakes <= Room(l, Before(l))
  BY InTurnMeans
<1>6. gate'[l].age + StillTakes' <= Room(l, Before(l)')
  BY <1>1, <1>2, <1>3, <1>4, <1>5
<1> QED BY <1>6, InTurnMeans

LEMMA KeepsBooked ==
  ASSUME TypeOK, TypeOK', NEW l \in Link, Booked(l), pending'[l] = pending[l],
         gate'[l].age <= gate[l].age
  PROVE  Booked(l)'
BY Numbers, NumbersNext, WorkerAssumption DEF Booked

LEMMA FitsWorld ==
  ASSUME IsFiniteSet(Link), FitsInv, Steady', 
         \/ Strays
         \/ \E k \in Link : Change(k) \/ Nudge(k) \/ Owner(k)
         \/ UNCHANGED vars,
         NEW l \in Link, Owed(l)'
  PROVE  Coming(l)'
<1>0. TypeOK /\ TypeOK' /\ Steady
  BY DEF FitsInv, Steady
<1>1. Owed(l) /\ gate'[l].age <= gate[l].age
  BY <1>0, WorldMoves, Numbers DEF Owed, Excused
<1>2. /\ UNCHANGED <<pending, ready, call>> /\ StillTakes' = StillTakes /\ StillTakes \in Nat
      /\ Before(l)' = Before(l)
  BY <1>0, WorldMoves, TakesIs DEF StillTakes, Before, TypeOK
<1>3. OwnCall(l) => OwnCall(l)'
  BY <1>2 DEF OwnCall
<1>4. InTurn(l) => InTurn(l)'
  BY <1>0, <1>1, <1>2, KeepsTurn, InTurnMeans
<1>5. Booked(l) => Booked(l)'
  BY <1>0, <1>1, <1>2, KeepsBooked
<1> QED BY <1>1, <1>3, <1>4, <1>5 DEF FitsInv, OwedIsComing, Coming

\* The worker waits, and takes the links that are due.
LEMMA FitsWaits ==
  ASSUME IsFiniteSet(Link), FitsInv, Steady', Receive \/ TimeoutFires,
         NEW l \in Link, Owed(l)'
  PROVE  Coming(l)'
<1>0. /\ TypeOK /\ TypeOK' /\ ready = {} /\ call.pc = "idle" /\ ready' = Due(pending')
      /\ UNCHANGED <<call, gate, rows, dropped>> /\ postponed \subseteq postponed'
  BY DEF FitsInv, Steady, Receive, TimeoutFires, Waiting, uploadVars, rolelogic
<1>1. ASSUME NEW k \in Link PROVE pending'[k] = 0 => pending[k] = 0
  BY <1>1, WorkerAssumption DEF Receive, TimeoutFires
<1>2. Owed(l)
  BY <1>0 DEF Owed, Excused
<1>3. InTurn(l) \/ Booked(l)
  BY <1>0, <1>2 DEF FitsInv, OwedIsComing, Coming, OwnCall
<1>4. pending[l] # NotDue
  BY <1>3, WorkerAssumption DEF InTurn, Booked
<1>5. pending'[l] = pending[l] /\ gate'[l].age <= gate[l].age
  BY <1>0, <1>4, Numbers DEF Receive, TimeoutFires, Owed, Excused
<1>6. CASE Booked(l)
  BY <1>0, <1>5, <1>6, KeepsBooked DEF Coming
<1>7. CASE InTurn(l)
  <2>1. pending'[l] = 0 /\ l \in ready' /\ l \notin ready
    BY <1>0, <1>5, <1>7 DEF InTurn, Due
  <2>2. ASSUME NEW k \in Before(l)' PROVE k \in Before(l)
    <3>1. k \in Link \ {l} /\ pending'[k] = 0
      BY <1>0, <2>1, <2>2 DEF Before, Due
    <3>2. pending[k] # NotDue
      BY <1>1, <3>1, WorkerAssumption
    <3> QED BY <2>1, <3>1, <3>2 DEF Before
  <2>3. StillTakes' = StillTakes /\ StillTakes \in Nat
    BY <1>0, TakesIs DEF StillTakes, TypeOK
  <2> QED BY <1>0, <1>5, <1>7, <2>1, <2>2, <2>3, KeepsTurn DEF Coming
<1> QED BY <1>3, <1>6, <1>7

\* The worker turns to link k: the others have one link fewer before them, and at most
\* one commit to wait for.
LEMMA FitsTurns ==
  ASSUME IsFiniteSet(Link), FitsInv, Steady', NEW k \in Link,
         SyncBegins(k) \/ SyncSkips(k) \/ SyncFails(k),
         NEW l \in Link, Owed(l)'
  PROVE  Coming(l)'
<1>0. TypeOK /\ TypeOK' /\ Steady
  BY DEF FitsInv, Steady
<1>1. CASE l = k
  BY <1>0, <1>1, Turns DEF Owed, Excused, Coming, OwnCall
<1>2. CASE l # k
  <2>1. Owed(l) /\ pending'[l] = pending[l] /\ gate'[l] = gate[l]
    BY <1>0, <1>2, Turns DEF Owed, Excused
  <2>2. InTurn(l) \/ Booked(l)
    BY <1>0, <2>1, Turns DEF FitsInv, OwedIsComing, Coming, OwnCall
  <2>3. CASE Booked(l)
    BY <1>0, <2>1, <2>3, KeepsBooked, Numbers DEF Coming
  <2>4. CASE InTurn(l)
    <3>1. k \in Before(l) /\ Before(l)' \subseteq Before(l) \ {k}
      BY <1>0, <1>2, Turns DEF Before
    <3>2. Room(l, Before(l) \ {k}) = Room(l, Before(l)) + MaxSwap
      BY <1>2, <3>1, RoomByOne
    <3>3. Room(l, Before(l) \ {k}) <= Room(l, Before(l)')
      BY <3>1, RoomGrows
    <3>4. StillTakes = 0 /\ StillTakes' \in Nat /\ StillTakes' <= MaxSwap
      BY <1>0, Turns, TakesIs, TakesIsNext DEF TypeOK
    <3>5. gate[l].age \in Nat /\ Room(l, Before(l)) \in Nat /\ Room(l, Before(l)') \in Nat
      BY <1>0, Numbers, RoomIs
    <3>6. gate[l].age + StillTakes <= Room(l, Before(l)) /\ pending[l] = 0
      BY <2>4, InTurnMeans
    <3>7. gate'[l].age + StillTakes' <= Room(l, Before(l)')
      BY <2>1, <3>2, <3>3, <3>4, <3>5, <3>6, UploadAssumption
    <3> QED BY <2>1, <3>6, <3>7, InTurnMeans DEF Coming
  <2> QED BY <2>2, <2>3, <2>4
<1> QED BY <1>1, <1>2

\* The outcome of link k reaches the worker: a hold is booked afresh, and the call that
\* the others were waiting for is over.
LEMMA FitsReturned ==
  ASSUME IsFiniteSet(Link), FitsInv, Steady', NEW k \in Link,
         SyncDone(k) \/ SyncHeld(k) \/ SyncDropped(k) \/ SyncFindsLinkGone(k),
         NEW l \in Link, Owed(l)'
  PROVE  Coming(l)'
<1>0. TypeOK /\ TypeOK' /\ Steady
  BY DEF FitsInv, Steady
<1>1. CASE l = k
  <2>1. CASE SyncHeld(k)
    <3>1. pending'[k] = HeldRecheck
      BY <1>0, <2>1, Returns DEF SyncHeld
    <3>2. gate'[k].age = 0
      BY <1>0, <2>1, Returns DEF SyncHeld, Steady, GateOfCall
    <3> QED BY <1>1, <3>1, <3>2, WorkerAssumption DEF Coming, Booked
  <2>2. CASE SyncDone(k)
    BY <1>0, <1>1, <2>2, Returns DEF SyncDone, Steady, GateOfCall, Owed
  <2>3. CASE SyncDropped(k) \/ SyncFindsLinkGone(k)
    BY <1>1, <2>3 DEF SyncDropped, SyncFindsLinkGone, Owed, Excused
  <2> QED BY <2>1, <2>2, <2>3
<1>2. CASE l # k
  <2>1. Owed(l) /\ pending'[l] = pending[l] /\ gate'[l] = gate[l]
    BY <1>0, <1>2, Returns DEF Owed, Excused
  <2>2. InTurn(l) \/ Booked(l)
    BY <1>0, <1>2, <2>1, Returns DEF FitsInv, OwedIsComing, Coming, OwnCall
  <2>3. CASE Booked(l)
    BY <1>0, <2>1, <2>3, KeepsBooked, Numbers DEF Coming
  <2>4. CASE InTurn(l)
    <3>1. StillTakes \in Nat /\ StillTakes' = 0 /\ (SyncHeld(k) => StillTakes = MaxSwap)
      BY <1>0, Returns, TakesIs, TakesIsNext DEF TypeOK, SyncHeld
    <3>2. CASE pending' = pending
      <4>1. Before(l)' = Before(l)
        BY <1>0, <3>2, Returns DEF Before
      <4> QED BY <1>0, <2>1, <2>4, <3>1, <4>1, KeepsTurn, InTurnMeans, Numbers DEF Coming
    <3>3. CASE SyncHeld(k) /\ pending' = [pending EXCEPT ![k] = HeldRecheck]
      <4>1. k \notin Before(l) /\ Before(l)' \subseteq Before(l) \cup {k}
        BY <1>0, <3>3, Returns DEF Before
      <4>2. Room(l, (Before(l) \cup {k}) \ {k}) = Room(l, Before(l) \cup {k}) + MaxSwap
        BY <1>2, RoomByOne
      <4>3. (Before(l) \cup {k}) \ {k} = Before(l)
        BY <4>1
      <4>4. Room(l, Before(l) \cup {k}) <= Room(l, Before(l)')
        BY <4>1, RoomGrows
      <4>5. /\ gate[l].age \in Nat /\ Room(l, Before(l)) \in Nat /\ Room(l, Before(l)') \in Nat
            /\ Room(l, Before(l) \cup {k}) \in Nat
        BY <1>0, Numbers, RoomIs
      <4>6. gate[l].age + StillTakes <= Room(l, Before(l)) /\ pending[l] = 0
        BY <2>4, InTurnMeans
      <4>7. Room(l, Before(l)) = Room(l, Before(l) \cup {k}) + MaxSwap
        BY <4>2, <4>3
      <4>8. gate'[l].age + StillTakes' <= Room(l, Before(l)')
        BY <2>1, <3>1, <3>3, <4>4, <4>5, <4>6, <4>7, UploadAssumption
      <4> QED BY <2>1, <4>6, <4>8, InTurnMeans DEF Coming
    <3> QED BY <1>0, <3>2, <3>3, Returns
  <2> QED BY <2>2, <2>3, <2>4
<1> QED BY <1>1, <1>2

LEMMA FitsUpload ==
  ASSUME IsFiniteSet(Link), FitsInv, Steady', Upload \/ UploadFault,
         NEW l \in Link, Owed(l)'
  PROVE  Coming(l)'
<1>0. /\ TypeOK /\ TypeOK' /\ UploadTypeOK /\ GateOfCall
      /\ UNCHANGED <<pending, ready, rows, postponed>> /\ dropped \ {call.link} \subseteq dropped'
      /\ UploadStep \/ UploadFails
  BY DEF FitsInv, Steady, TypeOK, Upload, UploadFault, worker
<1>1. CASE l = call.link
  BY <1>0, <1>1, UploadGates DEF Coming, OwnCall
<1>2. CASE l # call.link
  <2>1. gate'[l] = gate[l] /\ Owed(l) /\ ~OwnCall(l)
    BY <1>0, <1>2, UploadGates DEF Owed, Excused, OwnCall
  <2>2. InTurn(l) \/ Booked(l)
    BY <2>1 DEF FitsInv, OwedIsComing, Coming
  <2>3. gate'[l].age <= gate[l].age /\ pending' = pending /\ Before(l)' = Before(l)
    BY <1>0, <2>1, Numbers DEF Before
  <2>4. InTurn(l) => InTurn(l)'
    BY <1>0, <2>3, UploadTakesLess, KeepsTurn, InTurnMeans
  <2>5. Booked(l) => Booked(l)'
    BY <1>0, <2>3, KeepsBooked
  <2> QED BY <2>2, <2>4, <2>5 DEF Coming
<1> QED BY <1>1, <1>2

\* A unit of time: it is counted down from what is booked, and during a commit from what
\* the commit may still take.
LEMMA FitsTime ==
  ASSUME IsFiniteSet(Link), FitsInv, Steady', TimePasses,
         NEW l \in Link, Owed(l)'
  PROVE  Coming(l)'
<1>0. /\ TypeOK /\ TypeOK' /\ UploadTypeOK /\ UNCHANGED <<ready, rows, dropped, postponed>>
      /\ ready \subseteq Link /\ call \in CallState /\ MaxSwap \in Nat /\ HeldRecheck \in Nat
  BY UploadAssumption, WorkerAssumption DEF FitsInv, Steady, TypeOK, UploadTypeOK, TimePasses
<1>1. call.pc # "idle" => call.link \in Link
  BY <1>0 DEF UploadTypeOK, Coherent
<1>2. Owed(l) /\ ~OwnCall(l)
  BY <1>0, TimeMoves, TimeKeeps DEF Owed, Excused, OwnCall, FitsInv, Steady, GateOfCall
<1>3. InTurn(l) \/ Booked(l)
  BY <1>2 DEF FitsInv, OwedIsComing, Coming
<1>4. gate[l].age \in Nat /\ gate'[l].age \in Nat /\ gate'[l].age <= gate[l].age + 1
  BY <1>0, Numbers, NumbersNext, TimeMoves
<1>5. Before(l)' = Before(l)
  BY <1>0, TimeKeeps DEF Before
<1>6. Room(l, Before(l)) \in Nat /\ HeldRecheck <= Room(l, Before(l))
  BY <1>0, RoomIs
<1>7. CASE Booked(l) /\ pending[l] # 1
  <2>1. pending[l] \in Nat \ {0} /\ gate[l].age + pending[l] <= HeldRecheck
    BY <1>7 DEF Booked
  <2>2. pending'[l] = pending[l] - 1
    BY <1>0, <2>1, TimeMoves
  <2> QED BY <1>0, <1>4, <1>7, <2>1, <2>2 DEF Coming, Booked
<1>8. CASE Booked(l) /\ pending[l] = 1
  <2>1. pending'[l] = 0 /\ gate'[l].age <= HeldRecheck
    BY <1>0, <1>4, <1>8, TimeMoves DEF Booked
  <2>2. CASE call.pc = "idle"
    <3>1. StillTakes' = 0
      BY <1>0, <2>2, TimeKeeps, TakesIsNext DEF TypeOK
    <3>2. gate'[l].age + StillTakes' <= Room(l, Before(l)')
      BY <1>0, <1>4, <1>5, <1>6, <2>1, <3>1
    <3> QED BY <2>1, <3>2, InTurnMeans DEF Coming
  <2>3. CASE call.pc = "swap"
    <3>1. call.link \in Link \ {l} /\ call.link \notin Before(l)
      BY <1>1, <1>2, <1>8, <2>3 DEF OwnCall, Before, FitsInv, Steady, TakenIsGone, ReadyIsDue
    <3>2. Room(l, (Before(l) \cup {call.link}) \ {call.link})
            = Room(l, Before(l) \cup {call.link}) + MaxSwap
      BY <3>1, RoomByOne
    <3>3. (Before(l) \cup {call.link}) \ {call.link} = Before(l)
      BY <3>1
    <3>4. /\ Room(l, Before(l) \cup {call.link}) \in Nat
          /\ HeldRecheck <= Room(l, Before(l) \cup {call.link})
      BY <1>0, RoomIs
    <3>5. StillTakes' \in Nat /\ StillTakes' <= MaxSwap
      BY <1>0, TakesIsNext DEF TypeOK
    <3>6. Room(l, Before(l)') = Room(l, Before(l) \cup {call.link}) + MaxSwap
      BY <1>5, <3>2, <3>3
    <3>7. gate'[l].age + StillTakes' <= Room(l, Before(l)')
      BY <1>0, <1>4, <2>1, <3>4, <3>5, <3>6
    <3> QED BY <2>1, <3>7, InTurnMeans DEF Coming
  <2> QED BY <1>0, <2>2, <2>3, TimeKeeps
<1>9. CASE InTurn(l)
  <2>1. pending[l] = 0 /\ gate[l].age + StillTakes <= Room(l, Before(l))
    BY <1>9, InTurnMeans
  <2>2. call.pc = "swap" /\ call.age < MaxSwap /\ call'.age = call.age + 1
    BY <1>0, <2>1 DEF TimePasses, Due, CallState
  <2>3. call.age \in Nat /\ StillTakes = MaxSwap - call.age /\ StillTakes' = MaxSwap - call'.age
    BY <1>0, <2>2, TimeKeeps, TakesIs, TakesIsNext, Numbers DEF TypeOK
  <2>4. gate'[l].age + StillTakes' <= Room(l, Before(l)')
    BY <1>0, <1>4, <1>5, <1>6, <2>1, <2>2, <2>3
  <2>5. pending'[l] = 0
    BY <1>0, <2>1, TimeMoves
  <2> QED BY <2>4, <2>5, InTurnMeans DEF Coming
<1> QED BY <1>3, <1>7, <1>8, <1>9

LEMMA FitsRestart ==
  ASSUME FitsInv, Restart, NEW l \in Link, Owed(l)'
  PROVE  Coming(l)'
<1>1. Owed(l) /\ pending[l] = NotDue /\ l # call.link
  BY Restarts DEF Owed, Excused
<1>2. ~Coming(l)
  BY <1>1, WorkerAssumption DEF Coming, OwnCall, InTurn, Booked
<1> QED BY <1>1, <1>2 DEF FitsInv, OwedIsComing

LEMMA FitsStep ==
  ASSUME IsFiniteSet(Link), FitsInv, [Next]_vars
  PROVE  FitsInv'
<1>0. Steady'
  BY SteadyStep DEF FitsInv
<1> SUFFICES ASSUME NEW l \in Link, Owed(l)' PROVE Coming(l)'
  BY <1>0 DEF FitsInv, OwedIsComing
<1>1. CASE WorkerStep
  BY <1>0, <1>1, FitsWaits, FitsTurns, FitsReturned, FitsUpload DEF WorkerStep
<1>2. CASE TimePasses
  BY <1>0, <1>2, FitsTime
<1>3. CASE UploadFault
  BY <1>0, <1>3, FitsUpload
<1>4. CASE Restart
  BY <1>4, FitsRestart
<1>5. CASE Strays \/ (\E k \in Link : Change(k) \/ Nudge(k) \/ Owner(k)) \/ UNCHANGED vars
  BY <1>0, <1>5, FitsWorld
<1>6. CASE \E k \in Link : SyncFails(k)
  BY <1>0, <1>6, FitsTurns
<1> QED BY <1>1, <1>2, <1>3, <1>4, <1>5, <1>6 DEF Next

LEMMA LapseIsExcused ==
  ASSUME IsFiniteSet(Link), WindowFits, FitsInv, [Next]_vars, NEW l \in Link, Lapses(l)
  PROVE  Excused(l)
<1>0. TypeOK /\ TypeOK' /\ UploadTypeOK /\ TimePasses
  BY SteadyStep, OnlyTimeLapses DEF FitsInv, Steady, TypeOK
<1>1. /\ gate[l].state = "open" /\ gate[l].age \in Nat /\ gate[l].age + 1 >= Window
      /\ Window \in Nat /\ MaxSwap \in Nat /\ HeldRecheck \in Nat
  BY <1>0, Numbers, NumbersNext, TimeMoves, UploadAssumption, WorkerAssumption DEF Lapses
<1>2. HeldRecheck <= Room(l, Before(l)) /\ Room(l, Before(l)) < Window /\ Room(l, Before(l)) \in Nat
  BY RoomInAll, RoomIs
<1>3. ~OwnCall(l)
  BY <1>0, <1>1 DEF OwnCall, TimePasses, Waiting, FitsInv, Steady, GateOfCall
<1>4. ~Booked(l)
  BY <1>1, <1>2 DEF Booked
<1>5. ~InTurn(l)
  <2>1. SUFFICES ASSUME InTurn(l) PROVE FALSE
    OBVIOUS
  <2>2. pending[l] = 0 /\ gate[l].age + StillTakes <= Room(l, Before(l))
    BY <2>1, InTurnMeans
  <2>3. call.pc = "swap" /\ call.age < MaxSwap
    BY <1>0, <2>2 DEF TimePasses, Due
  <2>4. call.age \in Nat /\ StillTakes = MaxSwap - call.age
    BY <1>0, <2>3, TakesIs, Numbers
  <2> QED BY <1>1, <1>2, <2>2, <2>3, <2>4
<1>6. ~Owed(l)
  BY <1>3, <1>4, <1>5 DEF FitsInv, OwedIsComing, Coming
<1> QED BY <1>1, <1>6 DEF Owed

\* The hour is kept when HELD_RECHECK_SECS and one commit of every other link come to less
\* than it: then a confirmation lapses only when the link is excused.  At the code's 20, 30
\* and 60 minutes that is two links.
THEOREM RecheckFits ==
  ASSUME IsFiniteSet(Link), WindowFits
  PROVE  Spec => RecheckInsideTheHour
<1>1. Init => FitsInv
  BY SteadyInit DEF FitsInv, OwedIsComing, Owed
<1>2. FitsInv /\ [Next]_vars => FitsInv'
  BY FitsStep
<1>3. FitsInv /\ [Next]_vars => [\A l \in Link : Lapses(l) => Excused(l)]_vars
  BY LapseIsExcused
<1> QED BY <1>1, <1>2, <1>3, PTL DEF Spec, RecheckInsideTheHour

-----------------------------------------------------------------------------
(* No change is forgotten                                                    *)

\* The running call has yet to replace the list of l.
Replacing(l) == call.link = l /\ call.pc # "landed" /\ (call.pc = "over" => call.outcome # "done")

LEMMA InHandIs ==
  ASSUME NEW l
  PROVE  InHand(l) <=> l \in queued \/ pending[l] # NotDue \/ Replacing(l)
BY DEF InHand, Replacing

\* An idle call is about no link.
LEMMA IdleHasNoLink ==
  ASSUME TypeOK
  PROVE  call.pc = "idle" => call.link \notin Link
BY UploadAssumption DEF TypeOK, UploadTypeOK, Coherent, Idle

\* What happens around the worker: a list that changes is known to be overtaken, a rule that
\* changes has an event.
LEMMA ForgottenWorld ==
  ASSUME ForgottenInv,
         \/ Strays
         \/ \E l \in Link : Change(l) \/ Nudge(l) \/ Owner(l)
         \/ UNCHANGED vars
  PROVE  CallIsCurrent' /\ NoChangeForgotten'
<1>0. TypeOK
  BY DEF ForgottenInv
<1>1. UNCHANGED <<pending, call, rows>> /\ queued \subseteq queued' /\ dropped \subseteq dropped'
  BY DEF Strays, StrayLands, StrayLost, Change, Nudge, Owner, Confirm, SetUpstream,
         SessionExpires, uploadVars, rolelogic, worker, vars
<1>2. ASSUME NEW l \in Link PROVE (lists'[l] = lists[l] \/ l \in dropped')
  <2>1. CASE Strays
    BY <1>0, <2>1 DEF Strays, StrayLands, StrayLost, TypeOK, UploadTypeOK, rolelogic
  <2>2. CASE ~Strays
    BY <2>2 DEF Change, Nudge, Owner, Confirm, SetUpstream, SessionExpires, uploadVars, rolelogic, vars
  <2> QED BY <2>1, <2>2
<1>3. ASSUME NEW l \in Link PROVE (wanted'[l] = wanted[l] \/ l \in queued')
  <2>1. CASE \E k \in Link : Change(k)
    BY <1>0, <2>1 DEF Change, TypeOK
  <2>2. CASE ~\E k \in Link : Change(k)
    BY <2>2 DEF Strays, Nudge, Owner, vars
  <2> QED BY <2>1, <2>2
<1>4. rows \subseteq Link
  BY <1>0 DEF TypeOK
<1>5. CallIsCurrent'
  BY <1>1, <1>3, <1>4 DEF ForgottenInv, CallIsCurrent
<1>6. ASSUME NEW l \in rows', lists'[l] # wanted'[l] PROVE (InHand(l)' \/ l \in dropped')
  <2>1. InHand(l) => InHand(l)'
    BY <1>1 DEF InHand
  <2> QED BY <1>1, <1>2, <1>3, <1>4, <1>6, <2>1 DEF ForgottenInv, NoChangeForgotten, InHand
<1> QED BY <1>5, <1>6 DEF NoChangeForgotten

\* Events go from the channel into the map; time goes on.
LEMMA ForgottenWaits ==
  ASSUME ForgottenInv, Receive \/ TimeoutFires \/ TimePasses
  PROVE  CallIsCurrent' /\ NoChangeForgotten'
<1>0. TypeOK /\ UNCHANGED <<rows, wanted, lists, dropped>>
  BY DEF ForgottenInv, Receive, TimeoutFires, TimePasses, uploadVars, rolelogic
<1>1. call'.pc = call.pc /\ call'.link = call.link /\ call'.list = call.list /\ call'.outcome = call.outcome
  BY <1>0 DEF Receive, TimeoutFires, TimePasses, uploadVars, TypeOK, UploadTypeOK, CallState
<1>2. rows \subseteq Link
  BY <1>0 DEF TypeOK
<1>3. ASSUME NEW l \in Link, pending[l] # NotDue PROVE pending'[l] # NotDue
  <2>1. pending[l] \in Nat
    BY <1>0, <1>3 DEF TypeOK
  <2>2. pending'[l] \in {Debounce, pending[l]} \/ (pending[l] # 0 /\ pending'[l] = pending[l] - 1)
    BY <1>3 DEF Receive, TimeoutFires, TimePasses
  <2>3. pending'[l] \in Nat
    BY <2>1, <2>2, WorkerAssumption
  <2> QED BY <2>3, WorkerAssumption
<1>4. ASSUME NEW l \in Link, l \in queued PROVE (l \in queued' \/ pending'[l] # NotDue)
  BY <1>4, WorkerAssumption DEF Receive, TimeoutFires, TimePasses
<1>5. CallIsCurrent'
  <2>1. CASE Receive
    BY <1>0, <1>1, <1>2, <2>1, IdleHasNoLink DEF CallIsCurrent, Receive, Waiting
  <2>2. CASE TimeoutFires \/ TimePasses
    BY <1>0, <1>1, <2>2 DEF ForgottenInv, CallIsCurrent, TimeoutFires, TimePasses
  <2> QED BY <2>1, <2>2
<1>6. ASSUME NEW l \in rows', lists'[l] # wanted'[l] PROVE (InHand(l)' \/ l \in dropped')
  <2>1. l \in Link /\ (InHand(l) \/ l \in dropped)
    BY <1>0, <1>2, <1>6 DEF ForgottenInv, NoChangeForgotten
  <2> QED BY <1>0, <1>1, <1>3, <1>4, <2>1 DEF InHand
<1> QED BY <1>5, <1>6 DEF NoChangeForgotten

\* The worker turns to link k, with the list its rule comes to.
LEMMA ForgottenTurns ==
  ASSUME ForgottenInv, NEW k \in Link, SyncBegins(k) \/ SyncSkips(k) \/ SyncFails(k)
  PROVE  CallIsCurrent' /\ NoChangeForgotten'
<1>0. /\ TypeOK /\ call.pc = "idle" /\ UNCHANGED <<rows, wanted, lists, queued>>
      /\ pending' = [pending EXCEPT ![k] = NotDue] /\ dropped \subseteq dropped'
  BY DEF ForgottenInv, SyncBegins, SyncSkips, SyncFails, Takes, UploadUsers, uploadVars, rolelogic
<1>1. rows \subseteq Link /\ pending \in [Link -> Nat \cup {NotDue}]
  BY <1>0 DEF TypeOK
<1>2. \/ call'.pc \in {"put", "start"} /\ call'.link = k /\ call'.list = wanted[k]
      \/ call' = call /\ (k \notin rows \/ k \in dropped')
  BY DEF SyncBegins, SyncSkips, SyncFails, UploadUsers, Idle, uploadVars
<1>3. CallIsCurrent'
  BY <1>0, <1>1, <1>2, IdleHasNoLink DEF CallIsCurrent
<1>4. ASSUME NEW l \in rows', lists'[l] # wanted'[l] PROVE (InHand(l)' \/ l \in dropped')
  <2>1. l \in Link /\ (InHand(l) \/ l \in dropped)
    BY <1>0, <1>1, <1>4 DEF ForgottenInv, NoChangeForgotten
  <2>2. CASE l = k
    BY <1>0, <1>2, <1>4, <2>2 DEF InHand
  <2>3. CASE l # k
    <3>1. ~Replacing(l)
      BY <1>0, <2>1, IdleHasNoLink DEF Replacing
    <3> QED BY <1>0, <1>1, <2>1, <2>3, <3>1, InHandIs DEF InHand
  <2> QED BY <2>2, <2>3
<1> QED BY <1>3, <1>4 DEF NoChangeForgotten

\* The outcome of the call reaches the worker: only a list that was replaced is let go.
LEMMA ForgottenReturned ==
  ASSUME ForgottenInv, NEW k \in Link,
         SyncDone(k) \/ SyncHeld(k) \/ SyncDropped(k) \/ SyncFindsLinkGone(k)
  PROVE  CallIsCurrent' /\ NoChangeForgotten'
<1>0. /\ TypeOK /\ call.pc = "over" /\ k = call.link /\ call'.link = NoLink
      /\ UNCHANGED <<wanted, lists, queued>> /\ rows' \subseteq rows
      /\ dropped \ {k} \subseteq dropped'
  BY DEF ForgottenInv, SyncDone, SyncHeld, SyncDropped, SyncFindsLinkGone, Returned, rolelogic, Idle
<1>1. rows \subseteq Link /\ pending \in [Link -> Nat \cup {NotDue}]
  BY <1>0 DEF TypeOK
<1>2. CallIsCurrent'
  BY <1>0, <1>1, UploadAssumption DEF CallIsCurrent
<1>3. ASSUME NEW l \in Link, pending[l] # NotDue PROVE pending'[l] # NotDue
  BY <1>1, <1>3, WorkerAssumption DEF SyncDone, SyncHeld, SyncDropped, SyncFindsLinkGone
<1>4. ASSUME NEW l \in rows', lists'[l] # wanted'[l] PROVE (InHand(l)' \/ l \in dropped')
  <2>1. l \in Link /\ (InHand(l) \/ l \in dropped)
    BY <1>0, <1>1, <1>4 DEF ForgottenInv, NoChangeForgotten
  <2>2. CASE l # k
    BY <1>0, <1>3, <2>1, <2>2 DEF InHand
  <2>3. CASE l = k /\ SyncDone(k)
    BY <1>0, <1>3, <2>1, <2>3 DEF InHand, SyncDone
  <2>4. CASE l = k /\ SyncHeld(k)
    BY <1>1, <2>1, <2>4, WorkerAssumption DEF InHand, SyncHeld
  <2>5. CASE l = k /\ (SyncDropped(k) \/ SyncFindsLinkGone(k))
    BY <1>4, <2>5 DEF SyncDropped, SyncFindsLinkGone
  <2> QED BY <2>2, <2>3, <2>4, <2>5
<1> QED BY <1>2, <1>4 DEF NoChangeForgotten

\* A request of the call: the list is replaced by what the rule comes to, or an event is
\* there.
LEMMA ForgottenUpload ==
  ASSUME ForgottenInv, Upload \/ UploadFault
  PROVE  CallIsCurrent' /\ NoChangeForgotten'
<1>0. /\ TypeOK /\ UploadTypeOK /\ UNCHANGED <<rows, wanted, queued, pending>>
      /\ dropped \ {call.link} \subseteq dropped' /\ (UploadStep \/ UploadFails)
  BY DEF ForgottenInv, TypeOK, Upload, UploadFault, worker
<1>1. /\ call.link \in Link /\ call'.link = call.link /\ call'.list = call.list
      /\ \/ MovesOn \/ Admitted \/ Cancels \/ Puts \/ Swaps \/ HeldNow \/ Answered
         \/ ComesToNothing
  BY <1>0, UploadMoves
<1>2. ~Lands => dropped' = dropped
  BY DEF Upload, UploadFault
<1>3. CallIsCurrent'
  BY <1>0, <1>1 DEF ForgottenInv, CallIsCurrent
<1>4. rows \subseteq Link /\ lists \in [Link -> SUBSET User]
  BY <1>0 DEF TypeOK, UploadTypeOK
<1>5. ASSUME NEW l \in rows', lists'[l] # wanted'[l] PROVE (InHand(l)' \/ l \in dropped')
  <2>0. l \in Link
    BY <1>0, <1>4, <1>5
  <2>1. CASE l # call.link
    <3>1. lists'[l] = lists[l]
      BY <1>1, <1>4, <2>0, <2>1
         DEF MovesOn, Admitted, Cancels, Puts, Swaps, HeldNow, Answered, ComesToNothing
    <3>2. InHand(l) \/ l \in dropped
      BY <1>0, <1>5, <3>1 DEF ForgottenInv, NoChangeForgotten
    <3>3. InHand(l) => InHand(l)'
      <4>1. call'.link # l /\ UNCHANGED <<queued, pending>>
        BY <1>0, <1>1, <2>1
      <4> QED BY <2>1, <4>1 DEF InHand
    <3>4. l \in dropped => l \in dropped'
      BY <1>0, <2>1
    <3> QED BY <3>2, <3>3, <3>4
  <2>2. CASE l = call.link /\ (Puts \/ Swaps)
    <3>1. lists'[l] = call.list
      BY <1>1, <1>4, <2>2 DEF Puts, Swaps
    <3> QED BY <1>0, <1>5, <2>2, <3>1 DEF ForgottenInv, CallIsCurrent, InHand
  <2>3. CASE l = call.link /\ Answered
    <3>1. call.pc = "landed" /\ lists' = lists /\ dropped' = dropped
      BY <1>2, <2>3 DEF Answered, Lands
    <3>2. l \in queued \/ pending[l] # NotDue \/ l \in dropped
      BY <1>0, <1>5, <3>1 DEF ForgottenInv, NoChangeForgotten, InHand
    <3> QED BY <1>0, <3>1, <3>2 DEF InHand
  <2>4. CASE l = call.link /\ (MovesOn \/ Admitted \/ Cancels \/ HeldNow \/ ComesToNothing)
    <3>1. call'.pc # "landed" /\ (call'.pc = "over" => call'.outcome # "done")
      BY <2>4 DEF MovesOn, Admitted, Cancels, HeldNow, ComesToNothing
    <3> QED BY <1>1, <2>4, <3>1 DEF InHand
  <2> QED BY <1>1, <2>1, <2>2, <2>3, <2>4
<1> QED BY <1>3, <1>5 DEF NoChangeForgotten

LEMMA ForgottenRestart ==
  ASSUME ForgottenInv, Restart
  PROVE  CallIsCurrent' /\ NoChangeForgotten'
<1>0. TypeOK /\ rows \subseteq Link /\ call'.link = NoLink /\ UNCHANGED <<rows, wanted, lists>>
  BY DEF ForgottenInv, TypeOK, Restart, Idle, rolelogic
<1>1. CallIsCurrent'
  BY <1>0, UploadAssumption DEF CallIsCurrent
<1>2. ASSUME NEW l \in rows', lists'[l] # wanted'[l] PROVE l \in dropped'
  <2>1. l \in Link /\ (InHand(l) \/ l \in dropped)
    BY <1>0, <1>2 DEF ForgottenInv, NoChangeForgotten
  <2> QED BY <2>1 DEF InHand, Restart
<1> QED BY <1>1, <1>2 DEF NoChangeForgotten

LEMMA ForgottenInit == ASSUME Init PROVE ForgottenInv
<1>1. TypeOK
  BY TypeInit
<1>2. call.pc = "idle" /\ wanted = lists
  BY DEF Init, UploadInit, Idle
<1>3. rows \subseteq Link
  BY <1>1 DEF TypeOK
<1> QED BY <1>1, <1>2, <1>3, IdleHasNoLink DEF ForgottenInv, CallIsCurrent, NoChangeForgotten

LEMMA ForgottenStep ==
  ASSUME ForgottenInv, [Next]_vars
  PROVE  ForgottenInv'
<1>0. TypeOK'
  BY TypeStep DEF ForgottenInv
<1>1. CASE WorkerStep
  BY <1>0, <1>1, ForgottenWaits, ForgottenTurns, ForgottenReturned, ForgottenUpload
     DEF WorkerStep, ForgottenInv
<1>2. CASE TimePasses
  BY <1>0, <1>2, ForgottenWaits DEF ForgottenInv
<1>3. CASE UploadFault
  BY <1>0, <1>3, ForgottenUpload DEF ForgottenInv
<1>4. CASE Restart
  BY <1>0, <1>4, ForgottenRestart DEF ForgottenInv
<1>5. CASE Strays \/ (\E l \in Link : Change(l) \/ Nudge(l) \/ Owner(l)) \/ UNCHANGED vars
  BY <1>0, <1>5, ForgottenWorld DEF ForgottenInv
<1>6. CASE \E l \in Link : SyncFails(l)
  BY <1>0, <1>6, ForgottenTurns DEF ForgottenInv
<1> QED BY <1>1, <1>2, <1>3, <1>4, <1>5, <1>6 DEF Next

\* For any number of links, and whatever overlaps: a link whose list is not what its rule
\* comes to has an event queued, an entry in the map or an upload that will replace the list,
\* or its last sync came to nothing.
THEOREM ChangeCorrect == Spec => []NoChangeForgotten
<1>1. Init => ForgottenInv
  BY ForgottenInit
<1>2. ForgottenInv /\ [Next]_vars => ForgottenInv'
  BY ForgottenStep
<1>3. ForgottenInv => NoChangeForgotten
  BY DEF ForgottenInv
<1> QED BY <1>1, <1>2, <1>3, PTL DEF Spec
=============================================================================
