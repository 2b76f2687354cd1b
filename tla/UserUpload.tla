----------------------------- MODULE UserUpload -----------------------------
(***************************************************************************)
(* upload_users: one PUT for a list of up to PutMax users, otherwise a     *)
(* session with RoleLogic (start, chunks, commit, and cancel when a chunk  *)
(* fails).  Every request is a step, answered, refused or failed; what     *)
(* RoleLogic does with it is modelled from how the client reads it.        *)
(***************************************************************************)
EXTENDS Naturals, FiniteSets

CONSTANTS
  User, Link, NoLink,
  PutMax,     \* PUT_MAX_USERS
  ChunkSize,  \* CHUNK_SIZE
  Ungated,    \* how many removals RoleLogic lets through without a confirmation
  Window,     \* how long a confirmation is good for (an hour)
  MaxSwap     \* how long a commit may take (COMMIT_TIMEOUT)

ASSUME UploadAssumption ==
  /\ NoLink \notin Link
  /\ IsFiniteSet(User)
  /\ PutMax \in Nat /\ ChunkSize \in Nat \ {0} /\ Ungated \in Nat
  /\ Window \in Nat \ {0} /\ MaxSwap \in Nat

VARIABLES
  lists,     \* RoleLogic: the user list of every link
  upstream,  \* RoleLogic: is the link on, off (disabled or paused) or gone?
  gate,      \* RoleLogic: is a removal of this link awaiting, or has it, its confirmation?
  session,   \* RoleLogic: the open upload session of a link and what is staged in it
  strays,    \* requests the client no longer waits for that may still be carried out
  call       \* the locals of the running upload_users

rolelogic  == <<lists, upstream, gate, session>>
uploadVars == <<rolelogic, strays, call>>

Idle == [pc |-> "idle", link |-> NoLink, list |-> {}, rest |-> {}, age |-> 0, outcome |-> "none"]

Shut   == [state |-> "shut", age |-> 0]
Closed == [open |-> FALSE, staged |-> {}]

GateState == [state : {"shut", "asked", "open"}, age : 0..Window]

CallState ==
  [pc : {"idle", "put", "start", "chunk", "commit", "swap", "cancel", "landed", "over"},
   link : Link \cup {NoLink}, list : SUBSET User, rest : SUBSET User, age : 0..MaxSwap,
   outcome : {"none", "done", "held", "gone", "inactive", "failed"}]

\* A call is about a link, and its session, while there is one, holds what the call
\* has sent and nothing else.
Coherent(c) ==
  /\ c.pc = "idle" => c = Idle
  /\ c.pc # "idle" => c.link \in Link
  /\ c.rest \subseteq c.list
  /\ c.pc \in {"put", "start"} => c.rest = c.list
  /\ c.pc \in {"commit", "swap"} => c.rest = {}
  /\ c.pc = "swap" => session[c.link].open
  /\ c.pc \in {"chunk", "commit", "swap"} /\ session[c.link].open
       => session[c.link].staged = c.list \ c.rest

UploadTypeOK ==
  /\ lists \in [Link -> SUBSET User]
  /\ upstream \in [Link -> {"on", "off", "gone"}]
  /\ gate \in [Link -> GateState]
  /\ session \in [Link -> [open : BOOLEAN, staged : SUBSET User]]
  /\ strays \subseteq Link \X SUBSET User
  /\ call \in CallState
  /\ Coherent(call)

UploadInit ==
  /\ upstream = [l \in Link |-> "on"]
  /\ gate = [l \in Link |-> Shut]
  /\ session = [l \in Link |-> Closed]
  /\ strays = {}
  /\ call = Idle

-----------------------------------------------------------------------------

UploadUsers(l, list) ==
  /\ call.pc = "idle"
  /\ call' = [Idle EXCEPT !.pc = IF Cardinality(list) <= PutMax THEN "put" ELSE "start",
                          !.link = l, !.list = list, !.rest = list]
  /\ UNCHANGED <<rolelogic, strays>>

\* The call's link is on and open for it.
On == upstream[call.link] = "on"

Return(outcome) == call' = [call EXCEPT !.pc = "over", !.outcome = outcome]

\* assertShrinkAllowed: too many removals, and no confirmation that still counts.
Held(l, list) ==
  /\ Cardinality(lists[l] \ list) > Ungated
  /\ ~(gate[l].state = "open" /\ gate[l].age < Window)

AskOwner == gate' = [gate EXCEPT ![call.link] = [state |-> "asked", age |-> 0]]

\* 403 for a link that is gone, or off: the two answers every first request knows.
FindsLinkGone ==
  /\ call.pc \in {"put", "start"}
  /\ upstream[call.link] = "gone"
  /\ Return("gone")
  /\ UNCHANGED <<rolelogic, strays>>

FindsLinkInactive ==
  /\ call.pc \in {"put", "start"}
  /\ upstream[call.link] = "off"
  /\ Return("inactive")
  /\ UNCHANGED <<rolelogic, strays>>

PutLands ==
  /\ call.pc = "put"
  /\ On /\ ~Held(call.link, call.list)
  /\ lists' = [lists EXCEPT ![call.link] = call.list]
  /\ gate' = [gate EXCEPT ![call.link] = Shut]
  /\ call' = [call EXCEPT !.pc = "landed"]
  /\ UNCHANGED <<upstream, session, strays>>

PutHeld ==
  /\ call.pc = "put"
  /\ On /\ Held(call.link, call.list)
  /\ AskOwner
  /\ Return("held")
  /\ UNCHANGED <<lists, upstream, session, strays>>

\* No answer: the request was lost, or is still on its way.
PutFails ==
  /\ call.pc = "put"
  /\ Return("failed")
  /\ \/ UNCHANGED strays
     \/ strays' = strays \cup {<<call.link, call.list>>}
  /\ UNCHANGED rolelogic

\* Faulty variant: an open session is taken over with what is staged in it.
StartJoins ==
  /\ call.pc = "start"
  /\ On
  /\ session' = [session EXCEPT ![call.link].open = TRUE]
  /\ call' = [call EXCEPT !.pc = "chunk"]
  /\ UNCHANGED <<lists, upstream, gate, strays>>

StartAccepted ==
  /\ call.pc = "start"
  /\ On /\ ~session[call.link].open
  /\ session' = [session EXCEPT ![call.link] = [open |-> TRUE, staged |-> {}]]
  /\ call' = [call EXCEPT !.pc = "chunk"]
  /\ UNCHANGED <<lists, upstream, gate, strays>>

\* 409 "Upload already in progress": a session somebody left open.
StartRefused ==
  /\ call.pc = "start"
  /\ On /\ session[call.link].open
  /\ Return("failed")
  /\ UNCHANGED <<rolelogic, strays>>

\* When only the answer is lost the session is open and its id unknown.
StartFails ==
  /\ call.pc = "start"
  /\ Return("failed")
  /\ \/ UNCHANGED session
     \/ /\ On /\ ~session[call.link].open
        /\ session' = [session EXCEPT ![call.link] = [open |-> TRUE, staged |-> {}]]
  /\ UNCHANGED <<lists, upstream, gate, strays>>

\* The next ChunkSize users, or all that are left.
NextChunks ==
  IF Cardinality(call.rest) <= ChunkSize THEN {call.rest}
  ELSE {C \in SUBSET call.rest : Cardinality(C) = ChunkSize}

Sent(chunk) ==
  call' = [call EXCEPT !.rest = @ \ chunk,
                       !.pc = IF chunk = call.rest THEN "commit" ELSE "chunk"]

ChunkStored ==
  /\ call.pc = "chunk"
  /\ On /\ session[call.link].open
  /\ \E chunk \in NextChunks :
       /\ session' = [session EXCEPT ![call.link].staged = @ \cup chunk]
       /\ Sent(chunk)
  /\ UNCHANGED <<lists, upstream, gate, strays>>

\* Faulty variant: a chunk that fails is logged and the next one sent.
ChunkFailsSkipped ==
  /\ call.pc = "chunk"
  /\ \E chunk \in NextChunks : Sent(chunk)
  /\ UNCHANGED <<rolelogic, strays>>

\* Any error at all, "gone" and "disabled" included, cancels the session.  A chunk
\* that gets there all the same is staged in a session nobody will commit.
ChunkFails ==
  /\ call.pc = "chunk"
  /\ call' = [call EXCEPT !.pc = "cancel"]
  /\ UNCHANGED <<rolelogic, strays>>

ChunkRefused ==
  /\ ChunkFails
  /\ ~(On /\ session[call.link].open)

Cancelled ==
  /\ call.pc = "cancel"
  /\ On
  /\ session' = [session EXCEPT ![call.link] = Closed]
  /\ Return("failed")
  /\ UNCHANGED <<lists, upstream, gate, strays>>

CancelFails ==
  /\ call.pc = "cancel"
  /\ Return("failed")
  /\ UNCHANGED <<rolelogic, strays>>

CancelRefused == CancelFails /\ ~On

CommitAdmitted ==
  /\ call.pc = "commit"
  /\ On /\ session[call.link].open /\ ~Held(call.link, session[call.link].staged)
  /\ gate' = [gate EXCEPT ![call.link] = Shut]
  /\ call' = [call EXCEPT !.pc = "swap"]
  /\ UNCHANGED <<lists, upstream, session, strays>>

\* Whether RoleLogic keeps the session of a held commit is its own affair; the
\* client never cancels it.
CommitHeld ==
  /\ call.pc = "commit"
  /\ On /\ session[call.link].open /\ Held(call.link, session[call.link].staged)
  /\ AskOwner
  /\ session' \in {session, [session EXCEPT ![call.link] = Closed]}
  /\ Return("held")
  /\ UNCHANGED <<lists, upstream, strays>>

\* commit_upload tells a hold from the rest and nothing else.
CommitRefused ==
  /\ call.pc = "commit"
  /\ ~(On /\ session[call.link].open)
  /\ Return("failed")
  /\ UNCHANGED <<rolelogic, strays>>

\* The swap, which may take as long as the client waits.
SwapLands ==
  /\ call.pc = "swap"
  /\ lists' = [lists EXCEPT ![call.link] = session[call.link].staged]
  /\ session' = [session EXCEPT ![call.link] = Closed]
  /\ call' = [call EXCEPT !.pc = "landed", !.age = 0]
  /\ UNCHANGED <<upstream, gate, strays>>

\* A commit fails before it is admitted, the session staying open, or the client
\* stops waiting while RoleLogic goes on.
CommitFails ==
  /\ \/ call.pc = "commit" /\ UNCHANGED strays
     \/ call.pc = "swap" /\ strays' = strays \cup {<<call.link, session[call.link].staged>>}
  /\ session' \in {session, [session EXCEPT ![call.link] = Closed]}
  /\ call' = [call EXCEPT !.pc = "over", !.outcome = "failed", !.age = 0]
  /\ UNCHANGED <<lists, upstream, gate>>

AnswerArrives ==
  /\ call.pc = "landed"
  /\ Return("done")
  /\ UNCHANGED <<rolelogic, strays>>

AnswerLost ==
  /\ call.pc = "landed"
  /\ Return("failed")
  /\ UNCHANGED <<rolelogic, strays>>

UploadStep ==
  \/ FindsLinkGone \/ FindsLinkInactive
  \/ PutLands \/ PutHeld
  \/ StartAccepted \/ StartRefused \/ ChunkStored \/ ChunkRefused
  \/ Cancelled \/ CancelRefused
  \/ CommitAdmitted \/ CommitHeld \/ CommitRefused \/ SwapLands
  \/ AnswerArrives

UploadFails ==
  \/ PutFails \/ StartFails \/ ChunkFails \/ CancelFails \/ CommitFails \/ AnswerLost

-----------------------------------------------------------------------------
(* RoleLogic on its own                                                      *)

StrayLands(s) ==
  /\ lists' = [lists EXCEPT ![s[1]] = s[2]]
  /\ strays' = strays \ {s}
  /\ UNCHANGED <<upstream, gate, session, call>>

StrayLost(s) ==
  /\ strays' = strays \ {s}
  /\ UNCHANGED <<rolelogic, call>>

SessionExpires(l) ==
  /\ session[l].open
  /\ ~(call.pc = "swap" /\ call.link = l)
  /\ session' = [session EXCEPT ![l] = Closed]
  /\ UNCHANGED <<lists, upstream, gate, strays, call>>

\* An owner confirms the removals RoleLogic has asked about.
Confirm(l) ==
  /\ gate[l].state = "asked"
  /\ gate' = [gate EXCEPT ![l] = [state |-> "open", age |-> 0]]
  /\ UNCHANGED <<lists, upstream, session, strays, call>>

\* An owner disables or enables the link, or deletes it.
SetUpstream(l, state) ==
  /\ upstream[l] \notin {state, "gone"}
  /\ upstream' = [upstream EXCEPT ![l] = state]
  /\ UNCHANGED <<lists, gate, session, strays, call>>
=============================================================================
