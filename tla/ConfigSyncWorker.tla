-------------------------- MODULE ConfigSyncWorker --------------------------
(***************************************************************************)
(* The config sync worker: it debounces config events, syncs the links     *)
(* that are due one after the other, each with an upload of its list, and  *)
(* books a write RoleLogic is holding for another look.  Time is counted   *)
(* in units of ten minutes; what takes less (a debounce, a request) is     *)
(* over within a unit.  Only the wait for an event, and a commit, let time  *)
(* pass.                                                                   *)
(***************************************************************************)
EXTENDS UserUpload

CONSTANTS
  List,         \* the lists a link's rule may come to
  Debounce,     \* DEBOUNCE_SECS
  HeldRecheck,  \* HELD_RECHECK_SECS
  NotDue,       \* no entry in the worker's map
  MaxEnv,       \* bound: changes, and links switched off, on or deleted, in a behaviour
  MaxFaults     \* bound: failed requests and restarts

ASSUME WorkerAssumption ==
  /\ List \subseteq SUBSET User
  /\ NotDue \notin Nat
  /\ Debounce \in Nat \ {0} /\ HeldRecheck \in Nat \ {0}
  /\ MaxEnv \in Nat /\ MaxFaults \in Nat

VARIABLES
  rows,       \* the links with a row in role_links
  wanted,     \* the list each link's rule and channel come to
  queued,     \* links with an event in the config sync channel
  pending,    \* the worker's map: in how many units each link is due
  ready,      \* the links of the worker's current round that it has still to sync
  dropped,    \* history: links whose last sync came to nothing, or was overtaken by a stray
              \* write, and is not repeated
  postponed,  \* history: links that were due and that an event has put off
  waited,     \* history: how long each link, confirmed and due, has stood behind the
              \* commits of other links
  budget      \* what is left of the bounds

worker == <<pending, ready>>
vars   == <<uploadVars, rows, wanted, queued, worker, dropped, postponed, waited, budget>>

TypeOK ==
  /\ UploadTypeOK
  /\ rows \subseteq Link
  /\ wanted \in [Link -> SUBSET User]
  /\ queued \subseteq Link
  /\ pending \in [Link -> Nat \cup {NotDue}]
  /\ ready \subseteq Link
  /\ dropped \subseteq Link
  /\ postponed \subseteq Link
  /\ waited \in [Link -> Nat]
  /\ budget \in [env : 0..MaxEnv, faults : 0..MaxFaults]

\* Nothing is left to do: every list is what its rule comes to.
Init ==
  /\ UploadInit
  /\ lists \in [Link -> List]
  /\ rows \in SUBSET Link
  /\ wanted = lists
  /\ queued = {}
  /\ pending = [l \in Link |-> NotDue]
  /\ ready = {}
  /\ dropped = {}
  /\ postponed = {}
  /\ waited = [l \in Link |-> 0]
  /\ budget \in [env : 0..MaxEnv, faults : 0..MaxFaults]

Spend(kind) ==
  /\ budget[kind] > 0
  /\ budget' = [budget EXCEPT ![kind] = @ - 1]

-----------------------------------------------------------------------------
(* The loop                                                                  *)

Waiting == ready = {} /\ call.pc = "idle"

Due(due) == {l \in Link : due[l] = 0}

\* recv() and try_recv() until the channel is empty; then the links that are due.
Receive ==
  /\ Waiting
  /\ queued # {}
  /\ pending' = [l \in Link |-> IF l \in queued THEN Debounce ELSE pending[l]]
  /\ ready' = Due(pending')
  /\ postponed' = postponed \cup {l \in queued : pending[l] # NotDue}
  /\ waited' = [l \in Link |-> IF l \in queued THEN 0 ELSE waited[l]]
  /\ queued' = {}
  /\ UNCHANGED <<uploadVars, rows, wanted, dropped, budget>>

\* The timeout of recv(), which matters when something is due.
TimeoutFires ==
  /\ Waiting
  /\ queued = {}
  /\ Due(pending) # {}
  /\ ready' = Due(pending)
  /\ UNCHANGED <<uploadVars, rows, wanted, queued, pending, dropped, postponed, waited, budget>>

\* The worker turns to link l.
Takes(l) ==
  /\ call.pc = "idle"
  /\ l \in ready
  /\ ready' = ready \ {l}
  /\ pending' = [pending EXCEPT ![l] = NotDue]
  /\ postponed' = postponed \ {l}
  /\ waited' = [waited EXCEPT ![l] = 0]

\* sync_for_role_link computes the list and hands it to upload_users (or to
\* replace_users, when clear_role clears a link).
SyncBegins(l) ==
  /\ Takes(l)
  /\ l \in rows
  /\ UploadUsers(l, wanted[l])
  /\ UNCHANGED <<rows, wanted, queued, dropped, budget>>

\* The link's row has gone: nothing to do.
SyncSkips(l) ==
  /\ Takes(l)
  /\ l \notin rows
  /\ UNCHANGED <<uploadVars, rows, wanted, queued, dropped, budget>>

\* A statement, the gateway or get_user_info fails before the upload.
SyncFails(l) ==
  /\ Takes(l)
  /\ Spend("faults")
  /\ dropped' = dropped \cup {l}
  /\ UNCHANGED <<uploadVars, rows, wanted, queued>>

\* The call's outcome reaches the worker: RemovalHeld books another look, any other
\* error is logged.
Returned(l) ==
  /\ call.pc = "over"
  /\ l = call.link
  /\ call' = Idle
  /\ UNCHANGED <<rolelogic, strays, wanted, queued, ready, postponed, waited, budget>>

SyncDone(l) ==
  /\ Returned(l)
  /\ call.outcome = "done"
  /\ UNCHANGED <<rows, dropped, pending>>

\* Faulty variant: RemovalHeld is an error like the others.
SyncHeldForgotten(l) ==
  /\ Returned(l)
  /\ call.outcome = "held"
  /\ dropped' = dropped \ {l}
  /\ UNCHANGED <<rows, pending>>

\* Faulty variant: the other look is booked after an hour.
SyncHeldHourly(l) ==
  /\ Returned(l)
  /\ call.outcome = "held"
  /\ pending' = [pending EXCEPT ![l] = IF @ = NotDue THEN Window ELSE @]
  /\ dropped' = dropped \ {l}
  /\ UNCHANGED rows

SyncHeld(l) ==
  /\ Returned(l)
  /\ call.outcome = "held"
  /\ pending' = [pending EXCEPT ![l] = IF @ = NotDue THEN HeldRecheck ELSE @]
  /\ dropped' = dropped \ {l}
  /\ UNCHANGED rows

SyncDropped(l) ==
  /\ Returned(l)
  /\ call.outcome \in {"inactive", "failed"}
  /\ dropped' = dropped \cup {l}
  /\ UNCHANGED <<rows, pending>>

\* delete_orphan_role_link.
SyncFindsLinkGone(l) ==
  /\ Returned(l)
  /\ call.outcome = "gone"
  /\ rows' = rows \ {l}
  /\ UNCHANGED <<dropped, pending>>

Lands == call.pc # "landed" /\ call'.pc = "landed"

Upload ==
  /\ UploadStep
  /\ dropped' = IF Lands THEN dropped \ {call.link} ELSE dropped
  /\ UNCHANGED <<rows, wanted, queued, worker, postponed, waited, budget>>

WorkerStep ==
  \/ Receive
  \/ TimeoutFires
  \/ \E l \in Link :
       \/ SyncBegins(l) \/ SyncSkips(l)
       \/ SyncDone(l) \/ SyncHeld(l) \/ SyncDropped(l) \/ SyncFindsLinkGone(l)
  \/ Upload

-----------------------------------------------------------------------------
(* Time, faults and the rest of the world                                    *)

\* The worker's own code takes no time; a commit may.
TimePasses ==
  /\ \/ Waiting /\ queued = {} /\ Due(pending) = {}
     \/ call.pc = "swap" /\ call.age < MaxSwap
  /\ pending' = [l \in Link |-> IF pending[l] \in {0, NotDue} THEN pending[l]
                                ELSE pending[l] - 1]
  /\ gate' = [l \in Link |-> IF gate[l].state = "open" /\ gate[l].age < Window
                               THEN [gate[l] EXCEPT !.age = @ + 1] ELSE gate[l]]
  /\ call' = IF call.pc = "swap" THEN [call EXCEPT !.age = @ + 1] ELSE call
  /\ waited' = [l \in Link |-> IF gate[l].state = "open" /\ pending[l] = 0
                               THEN waited[l] + 1 ELSE waited[l]]
  /\ UNCHANGED <<lists, upstream, session, strays, rows, wanted, queued, ready, dropped,
                 postponed, budget>>

UploadFault ==
  /\ Spend("faults")
  /\ UploadFails
  /\ UNCHANGED <<rows, wanted, queued, worker, dropped, postponed, waited>>

\* A restart loses the channel, the map and the running call; what was last sent may
\* still be carried out.
Restart ==
  /\ Spend("faults")
  /\ queued' = {}
  /\ ready' = {}
  /\ pending' = [l \in Link |-> NotDue]
  /\ dropped' = dropped \cup queued \cup ready \cup {l \in Link : pending[l] # NotDue}
                  \cup ({call.link} \cap Link)
  /\ call' = Idle
  /\ \/ UNCHANGED strays
     \/ call.pc = "put" /\ strays' = strays \cup {<<call.link, call.list>>}
     \/ /\ call.pc \in {"commit", "swap"} /\ session[call.link].open
        /\ strays' = strays \cup {<<call.link, session[call.link].staged>>}
  /\ UNCHANGED <<rolelogic, rows, wanted, postponed, waited>>

\* A save of the rule, a connect or a disconnect changes what the link's list should be,
\* and sends a config event.  (A fact that changes does not: its user is synced alone.)
Change(l) ==
  /\ Spend("env")
  /\ l \in rows
  /\ \E list \in List \ {wanted[l]} : wanted' = [wanted EXCEPT ![l] = list]
  /\ queued' = queued \cup {l}
  /\ UNCHANGED <<uploadVars, rows, worker, dropped, postponed, waited>>

\* An event that changes nothing (a save of the same rule, a reconnect): there is
\* no end to these.
Nudge(l) ==
  /\ l \in rows
  /\ queued' = queued \cup {l}
  /\ UNCHANGED <<uploadVars, rows, wanted, worker, dropped, postponed, waited, budget>>

Strays ==
  \E s \in strays :
    /\ \/ StrayLands(s) /\ dropped' = dropped \cup {s[1]}
       \/ StrayLost(s) /\ UNCHANGED dropped
    /\ UNCHANGED <<rows, wanted, queued, worker, postponed, waited, budget>>

Owner(l) ==
  /\ l \in rows
  /\ \/ Confirm(l) /\ UNCHANGED budget
     \/ \E state \in {"on", "off", "gone"} : SetUpstream(l, state) /\ Spend("env")
     \/ SessionExpires(l) /\ UNCHANGED budget
  /\ UNCHANGED <<rows, wanted, queued, worker, dropped, postponed, waited>>

Next ==
  \/ WorkerStep
  \/ TimePasses
  \/ UploadFault
  \/ Restart
  \/ Strays
  \/ \E l \in Link : SyncFails(l) \/ Change(l) \/ Nudge(l) \/ Owner(l)

Spec == Init /\ [][Next]_vars

\* The worker is one task, which tokio polls while it is ready, and every request it
\* waits for has a timeout.  Time goes on: strong fairness, because TimePasses is
\* disabled for as long as an event is about to be taken.
Fairness == WF_vars(WorkerStep) /\ SF_vars(TimePasses)

FairSpec == Spec /\ Fairness

-----------------------------------------------------------------------------
(* Properties                                                                *)

Phase ==
  CASE call.pc = "idle" -> "none"
    [] call.pc \in {"landed", "over"} -> call.pc
    [] OTHER -> "out"

Write == [phase |-> Phase, link |-> call.link, list |-> call.list, outcome |-> call.outcome]

\* Whatever the transport, upload_users replaces a link's list as a whole or leaves
\* it alone, and its outcome says truly which: a chunked upload is never committed in
\* part, and a write carried out after the client gave up is a whole list too.
Whole == INSTANCE ListReplacement WITH write <- Write

ReplacesAsAWhole == Whole!Spec

\* Once events for it stop, a link with a row has the list its rule comes to, or is
\* waiting for its owner, or its last sync came to nothing, which nothing repeats.
ChangesLand ==
  \A l \in Link :
    <>[](l \notin queued)
      => <>[](l \notin rows \/ lists[l] = wanted[l] \/ gate[l].state = "asked" \/ l \in dropped)

\* The worker has l in hand: an event is in the channel, an entry in the map, or an upload
\* has yet to replace the list.
InHand(l) ==
  \/ l \in queued
  \/ pending[l] # NotDue
  \/ call.link = l /\ call.pc # "landed" /\ (call.pc = "over" => call.outcome # "done")

\* No change is forgotten: as long as a link's list is not what its rule comes to, the
\* worker has the link in hand, or its last sync came to nothing; the outcome "held", and an
\* event that comes in the middle of a sync, leave it booked.
NoChangeForgotten ==
  \A l \in rows : lists[l] # wanted[l] => InHand(l) \/ l \in dropped

Lapses(l) == gate[l].state = "open" /\ gate[l].age < Window /\ gate'[l].age = Window

\* An event has put the link off, its last sync came to nothing, or its row is gone.
Excused(l) == l \in dropped \cup postponed \/ l \notin rows

\* A confirmation lapses unused only when the link is excused, or when the commits of other
\* links have kept it waiting, once it was due for its re-check, for what the re-check had
\* left of the hour.
ConfirmationIsUsed ==
  [][\A l \in Link : Lapses(l) => Excused(l) \/ HeldRecheck + waited'[l] >= Window]_vars

-----------------------------------------------------------------------------
(* What the repository says and the code does not keep                       *)

\* "the re-check has to land inside that hour", config_sync_worker.rs: a confirmation
\* lapses unused only when the link is excused.  The code does not keep this for every
\* number of links: one task syncs them all, one after the other.
RecheckInsideTheHour == [][\A l \in Link : Lapses(l) => Excused(l)]_vars

-----------------------------------------------------------------------------
(* What makes NoChangeForgotten inductive                                    *)

\* The running call sends what the rule comes to, unless an event says that it has changed.
CallIsCurrent ==
  call.link \in rows => call.list = wanted[call.link] \/ call.link \in queued

ForgottenInv == TypeOK /\ CallIsCurrent /\ NoChangeForgotten

-----------------------------------------------------------------------------
(* What makes ConfirmationIsUsed inductive                                   *)

ReadyIsDue  == \A l \in ready : pending[l] = 0
TakenIsGone == call.pc # "idle" => call.link \notin ready /\ pending[call.link] = NotDue

\* A write that was let through has used up the confirmation; one that was held has a
\* new question.
GateOfCall ==
  /\ call.pc \in {"swap", "landed"} => gate[call.link].state = "shut"
  /\ call.pc = "over" /\ call.outcome = "done" => gate[call.link].state = "shut"
  /\ call.pc = "over" /\ call.outcome = "held" => gate[call.link].age = 0

Steady == TypeOK /\ ReadyIsDue /\ TakenIsGone /\ GateOfCall

\* RoleLogic holds a removal of l, confirmed or not, and nothing excuses it if the
\* removal is not sent again.
Owed(l) == gate[l].state # "shut" /\ ~Excused(l)

OwnCall(l) == call.pc # "idle" /\ call.link = l
Booked(l)  == pending[l] \in Nat \ {0} /\ gate[l].age + pending[l] <= HeldRecheck
Waits(l)   == pending[l] = 0 /\ gate[l].age <= HeldRecheck + waited[l]
OnTime(l)  == OwnCall(l) \/ Booked(l) \/ Waits(l)

OwedIsOnTime == \A l \in Link : Owed(l) => OnTime(l)

OnTimeInv == Steady /\ OwedIsOnTime

-----------------------------------------------------------------------------
(* When RecheckInsideTheHour holds, and what makes it inductive               *)

\* The re-check and one commit of every other link fit in the window: no link commits
\* twice before another one that is due, whichever round it was due in.
WindowFits == HeldRecheck + MaxSwap * (Cardinality(Link) - 1) < Window

\* Once l is due: the other links the worker may still turn to before l.
Before(l) ==
  IF l \in ready THEN ready \ {l} ELSE {k \in Link \ {l} : k \in ready \/ pending[k] # NotDue}

Allowed(l) == HeldRecheck + MaxSwap * Cardinality(Link \ ({l} \cup Before(l)))

\* How long the running call may still commit.  One that was held is counted until it
\* is booked again.
StillTakes ==
  IF \/ call.pc \in {"put", "start", "chunk", "commit"}
     \/ call.pc = "over" /\ call.outcome = "held"
  THEN MaxSwap
  ELSE IF call.pc = "swap" THEN MaxSwap - call.age ELSE 0

InTurn(l)  == pending[l] = 0 /\ gate[l].age + StillTakes <= Allowed(l)

Coming(l)  == OwnCall(l) \/ InTurn(l) \/ Booked(l)

OwedIsComing == \A l \in Link : Owed(l) => Coming(l)

FitsInv == Steady /\ OwedIsComing
=============================================================================
