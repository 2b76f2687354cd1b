-------------------------- MODULE RuleEditorProofs --------------------------
(* The rule editor's properties, for any number of tabs, requests, versions   *)
(* and rows.  What carries them: a row's version only grows, and a new row has *)
(* a new id, so whoever holds the row's id and current version holds its rule. *)
EXTENDS RuleEditor, TLAPS

-----------------------------------------------------------------------------
(* Types                                                                     *)

\* TypeOK says that no save stores the unconfigured rule; what makes it so is that a
\* page with something to save never holds it.
Typed ==
  /\ TypeOK
  /\ \A t \in Tab : tab[t].dirty => tab[t].edit # "nobody"

\* The initial states have the types.
LEMMA TypeInit == Init => Typed
<1> SUFFICES ASSUME Init PROVE Typed
  OBVIOUS
<1> USE ConstantsAssumption
<1>1. row \in Row /\ row.id = 1 /\ row.version = 0
  BY DEF Init, Row
<1>2. tab \in [Tab -> TabState] /\ \A t \in Tab : ~tab[t].dirty
  <2>1. Closed \in TabState /\ ~Closed.dirty
    BY DEF Closed, TabState, Rule
  <2> QED BY <2>1 DEF Init
<1>3. save \in [Save -> SaveState] /\ \A s \in Save : save[s].pc = "idle"
  <2>1. NoSave \in SaveState /\ NoSave.pc = "idle"
    BY DEF NoSave, SaveState, Rule
  <2> QED BY <2>1 DEF Init
<1>4. /\ refresh \in [Tab -> Row \cup {NoRow}]
      /\ due \in BOOLEAN /\ changed \in BOOLEAN /\ lost \in BOOLEAN
  BY DEF Init
<1>6. lastId = 1 /\ 1 \in 1..MaxId
  BY DEF Init
<1>5. budget \in Budget
  BY DEF Init
<1>7. telling \in [Tab \cup {NoTab} -> Nat]
  BY DEF Init
<1> QED BY <1>1, <1>2, <1>3, <1>4, <1>5, <1>6, <1>7 DEF TypeOK, Typed, Budget

LEMMA SpendType ==
  ASSUME TypeOK, \E kind \in {"env", "faults", "removals", "syncs"} : Spend(kind)
  PROVE  budget' \in Budget
<1>1. /\ budget \in Budget
      /\ MaxEnv \in Nat /\ MaxFaults \in Nat /\ MaxRemovals \in Nat
      /\ MaxBusy \in Nat /\ MaxSyncs \in Nat
  BY ConstantsAssumption DEF TypeOK, Budget
<1>2. CASE Spend("env")
  BY <1>1, <1>2 DEF Spend, Budget
<1>3. CASE Spend("faults")
  BY <1>1, <1>3 DEF Spend, Budget
<1>4. CASE Spend("removals")
  BY <1>1, <1>4 DEF Spend, Budget
<1>5. CASE Spend("syncs")
  BY <1>1, <1>5 DEF Spend, Budget
<1> QED BY <1>2, <1>3, <1>4, <1>5

\* Each action keeps them.
LEMMA TypeLoad == ASSUME Typed, NEW t \in Tab, Load(t) PROVE Typed'
<1>1. row \in Row
  BY DEF Load, TypeOK, Typed
<1>2. tab' \in [Tab -> TabState] /\ \A u \in Tab : tab'[u].dirty => tab'[u].edit # "nobody"
  BY <1>1 DEF Load, TypeOK, Typed, TabState, Row, Rule
<1>3. /\ save' \in [Save -> SaveState]
      /\ \A s \in Save : save'[s].pc = save[s].pc /\ save'[s].tab = save[s].tab
                         /\ save'[s].tree = save[s].tree
  <2>1. save' = [s \in Save |-> IF save[s].pc # "idle" /\ save[s].tab = t
                                THEN [save[s] EXCEPT !.cfg = Gone] ELSE save[s]]
    BY DEF Load
  <2>2. ASSUME NEW s \in Save
        PROVE  LET left == [save[s] EXCEPT !.cfg = Gone] IN
               /\ save[s] \in SaveState /\ left \in SaveState
               /\ left.pc = save[s].pc /\ left.tab = save[s].tab /\ left.tree = save[s].tree
    <3>1. save[s] \in SaveState
      BY DEF TypeOK, Typed
    <3> QED BY <3>1 DEF SaveState
  <2> QED BY <2>1, <2>2
<1>4. budget' \in Budget
  BY SpendType DEF Load, TypeOK, Typed, Budget
<1>5. telling' \in [Tab \cup {NoTab} -> Nat]
  <2>1. telling[t] \in Nat /\ telling[NoTab] \in Nat
    BY DEF TypeOK, Typed
  <2>2. telling[NoTab] + telling[t] \in Nat
    BY <2>1
  <2> QED BY <2>2 DEF Load, TypeOK, Typed
<1>6. refresh' \in [Tab -> Row \cup {NoRow}]
  BY DEF Load, TypeOK, Typed
<1> QED BY <1>2, <1>3, <1>4, <1>5, <1>6 DEF Load, TypeOK, Typed, Budget

LEMMA TypeEdit ==
  ASSUME Typed, NEW t \in Tab, NEW rule \in Rule, Edit(t, rule) PROVE Typed'
<1> DEFINE page == [tab[t] EXCEPT !.edit = rule, !.dirty = rule # tab[t].config,
                                  !.refilled = FALSE]
<1>1. page \in TabState /\ page.edit # "nobody"
  <2>1. tab[t] \in TabState /\ rule # "nobody"
    BY DEF Edit, TypeOK, Typed
  <2>2. (rule # tab[t].config) \in BOOLEAN
    OBVIOUS
  <2> QED BY <2>1, <2>2 DEF TabState
<1>2. tab' = [tab EXCEPT ![t] = page]
  BY DEF Edit, TypeOK, Typed
<1> HIDE DEF page
<1>3. tab' \in [Tab -> TabState] /\ \A u \in Tab : tab'[u].dirty => tab'[u].edit # "nobody"
  BY <1>1, <1>2 DEF TypeOK, Typed
<1> QED BY <1>3 DEF Edit, TypeOK, Typed

LEMMA TypeRemoveLastGroup ==
  ASSUME Typed, NEW t \in Tab, RemoveLastGroup(t) PROVE Typed'
<1> DEFINE page == [tab[t] EXCEPT !.edit = DefaultRule, !.dirty = tab[t].config # "nobody",
                                  !.refilled = tab[t].config = "nobody"]
<1>1. page \in TabState /\ page.edit # "nobody"
  <2>1. DefaultRule \in Rule /\ DefaultRule # "nobody"
    BY ConstantsAssumption DEF Rule
  <2>2. tab[t] \in TabState
    BY DEF TypeOK, Typed
  <2>3. (tab[t].config # "nobody") \in BOOLEAN /\ (tab[t].config = "nobody") \in BOOLEAN
    OBVIOUS
  <2> QED BY <2>1, <2>2, <2>3 DEF TabState
<1>2. tab' = [tab EXCEPT ![t] = page]
  BY DEF RemoveLastGroup, TypeOK, Typed
<1> HIDE DEF page
<1>3. tab' \in [Tab -> TabState] /\ \A u \in Tab : tab'[u].dirty => tab'[u].edit # "nobody"
  BY <1>1, <1>2 DEF TypeOK, Typed
<1>4. budget' \in Budget
  BY SpendType DEF RemoveLastGroup, Typed
<1> QED BY <1>3, <1>4 DEF RemoveLastGroup, TypeOK, Typed, Budget

LEMMA TypeSend == ASSUME Typed, NEW t \in Tab, NEW s \in Save, Send(t, s) PROVE Typed'
<1>1. tab[t] \in TabState /\ tab[t].edit # "nobody"
  BY DEF Send, TypeOK, Typed
<1> DEFINE sent == [NoSave EXCEPT !.pc = "sent", !.tab = t, !.tree = tab[t].edit,
                                  !.version = tab[t].version, !.cfg = Live,
                                  !.seen = tab[t].shown, !.id = tab[t].id, !.exact = tab[t].exact]
<1>2. NoSave \in SaveState
  BY ConstantsAssumption DEF NoSave, SaveState, Rule
<1>3. save' = [save EXCEPT ![s] = sent]
  BY DEF Send
<1>4. sent \in SaveState /\ sent.tab = t /\ sent.tree = tab[t].edit
  BY <1>1, <1>2 DEF TabState, SaveState
<1> HIDE DEF sent
<1>5. save' \in [Save -> SaveState] /\ \A u \in Save \ {s} : save'[u] = save[u]
      /\ save'[s] = sent
  BY <1>3, <1>4 DEF TypeOK, Typed
<1> QED BY <1>1, <1>4, <1>5 DEF Send, TypeOK, Typed

LEMMA TypeRefreshArrives == ASSUME Typed, NEW t \in Tab, RefreshArrives(t) PROVE Typed'
<1> DEFINE d == refresh[t]
           loaded == [open |-> TRUE, config |-> d.tree, version |-> d.version,
                      connected |-> d.connected, edit |-> d.tree, dirty |-> FALSE,
                      shown |-> d.tree, id |-> d.id, exact |-> TRUE, clean |-> TRUE,
                      refilled |-> FALSE]
           noted == [tab[t] EXCEPT !.connected = d.connected]
<1>1. d \in Row /\ tab[t] \in TabState
  BY DEF RefreshArrives, TypeOK, Typed
<1>2. loaded \in TabState /\ ~loaded.dirty
  BY <1>1, ConstantsAssumption DEF TabState, Row
<1>3. /\ noted \in TabState
      /\ noted.dirty = tab[t].dirty /\ noted.edit = tab[t].edit
  BY <1>1 DEF TabState, Row
<1>4. tab' = [tab EXCEPT ![t] = loaded] \/ tab' = [tab EXCEPT ![t] = noted]
  BY DEF RefreshArrives, TypeOK, Typed
<1> HIDE DEF loaded, noted
<1>5. tab' \in [Tab -> TabState] /\ \A u \in Tab : tab'[u].dirty => tab'[u].edit # "nobody"
  BY <1>2, <1>3, <1>4 DEF TypeOK, Typed
<1>6. /\ save' \in [Save -> SaveState]
      /\ \A s \in Save : save'[s].pc = save[s].pc /\ save'[s].tab = save[s].tab
                         /\ save'[s].tree = save[s].tree
  <2>1. CASE UNCHANGED save
    BY <2>1 DEF TypeOK, Typed
  <2>2. CASE save' = [s \in Save |-> IF save[s].tab = t /\ save[s].cfg = Live
                                     THEN [save[s] EXCEPT !.cfg = tab[t].edit] ELSE save[s]]
    <3> DEFINE copied(s) == [save[s] EXCEPT !.cfg = tab[t].edit]
    <3>1. \A s \in Save : /\ copied(s) \in SaveState /\ copied(s).pc = save[s].pc
                          /\ copied(s).tab = save[s].tab /\ copied(s).tree = save[s].tree
      BY <1>1 DEF TypeOK, Typed, SaveState, TabState
    <3>2. save' = [s \in Save |-> IF save[s].tab = t /\ save[s].cfg = Live
                                  THEN copied(s) ELSE save[s]]
      BY <2>2
    <3> HIDE DEF copied
    <3> QED BY <3>1, <3>2 DEF TypeOK, Typed
  <2> QED BY <2>1, <2>2 DEF RefreshArrives
<1>7. refresh' \in [Tab -> Row \cup {NoRow}]
  BY DEF RefreshArrives, TypeOK, Typed
<1> QED BY <1>5, <1>6, <1>7 DEF RefreshArrives, TypeOK, Typed

\* The page of an answered save that is taken over, and its buffer.
Buffer(s) == IF save[s].cfg = Live THEN tab[save[s].tab].edit ELSE save[s].cfg
Written(s) ==
  [tab[save[s].tab] EXCEPT !.version = save[s].reply, !.config = Buffer(s), !.dirty = FALSE,
     !.refilled = FALSE,
     !.shown = save[s].tree, !.id = save[s].id,
     !.exact = (save[s].reply = save[s].version + 1),
     !.clean = (Buffer(s) = save[s].tree /\ tab[save[s].tab].edit = Buffer(s))]

LEMMA AnswerWrites ==
  ASSUME Typed, NEW s \in Save, Answer(s)
  PROVE  \/ UNCHANGED tab
         \/ /\ save[s].pc = "saved" /\ Buffer(s) \in Rule
            /\ tab' = [tab EXCEPT ![save[s].tab] = Written(s)]
<1>1. save[s] \in SaveState /\ save[s].tab \in Tab /\ tab[save[s].tab] \in TabState
  BY DEF Answer, TypeOK, Typed
<1>2. CASE save[s].pc = "refused" \/ save[s].cfg = Gone
  BY <1>2 DEF Answer
<1>3. CASE ~(save[s].pc = "refused" \/ save[s].cfg = Gone)
  <2>1. Buffer(s) \in Rule
    BY <1>1, <1>3 DEF Buffer, SaveState, TabState
  <2>2. tab' = [tab EXCEPT ![save[s].tab] = Written(s)]
    BY <1>3, ZenonT(60) DEF Answer, Written, Buffer, TypeOK, Typed
  <2> QED BY <1>3, <2>1, <2>2 DEF Answer
<1> QED BY <1>2, <1>3

LEMMA TypeAnswer == ASSUME Typed, NEW s \in Save, Answer(s) PROVE Typed'
<1>1. save[s] \in SaveState /\ save[s].tab \in Tab /\ tab[save[s].tab] \in TabState
  BY DEF Answer, TypeOK, Typed
<1>2. tab' \in [Tab -> TabState] /\ \A u \in Tab : tab'[u].dirty => tab'[u].edit # "nobody"
  <2>1. CASE UNCHANGED tab
    BY <2>1 DEF TypeOK, Typed
  <2>2. CASE /\ Buffer(s) \in Rule
             /\ tab' = [tab EXCEPT ![save[s].tab] = Written(s)]
    <3>1. Written(s) \in TabState /\ ~Written(s).dirty
      BY <1>1, <2>2, ZenonT(60) DEF Written, TabState, SaveState
    <3> QED BY <1>1, <2>2, <3>1 DEF TypeOK, Typed
  <2> QED BY <2>1, <2>2, AnswerWrites
<1>3. save' \in [Save -> SaveState] /\ save'[s].pc = "idle"
      /\ \A u \in Save \ {s} : save'[u] = save[u]
  <2>1. NoSave \in SaveState /\ NoSave.pc = "idle"
    BY ConstantsAssumption DEF NoSave, SaveState, Rule
  <2> QED BY <2>1 DEF Answer, TypeOK, Typed
<1> QED BY <1>1, <1>2, <1>3 DEF Answer, TypeOK, Typed

LEMMA TypeSaveUpdate == ASSUME Typed, NEW s \in Save, SaveUpdate(s) PROVE Typed'
<1>1. save[s] \in SaveState /\ save[s].tree # "nobody"
  BY DEF SaveUpdate, Checked, TypeOK, Typed
<1>2. row' \in Row \cup {NoRow}
      /\ (row' # NoRow => row'.id <= lastId /\ (row'.version > 0 => row'.tree # "nobody"))
  <2>1. CASE UNCHANGED row
    BY <2>1 DEF SaveUpdate, TypeOK, Typed
  <2>2. CASE /\ row # NoRow /\ row.version < MaxVersion
             /\ row' = [row EXCEPT !.tree = save[s].tree, !.version = @ + 1]
    <3>1. row \in Row /\ row.id <= lastId
      BY <2>2 DEF TypeOK, Typed
    <3>2. row.version + 1 \in 0..MaxVersion /\ save[s].tree \in Rule
      BY <1>1, <2>2, <3>1, ConstantsAssumption DEF Row, SaveState
    <3>3. /\ row' \in Row /\ row'.id = row.id /\ row'.tree = save[s].tree
          /\ row'.version = row.version + 1
      BY <2>2, <3>1, <3>2 DEF Row
    <3> QED BY <1>1, <3>1, <3>3
  <2> QED BY <2>1, <2>2 DEF SaveUpdate
<1>6. UNCHANGED lastId
  BY DEF SaveUpdate
<1>3. /\ save' \in [Save -> SaveState]
      /\ \A u \in Save : save'[u].tab = save[u].tab /\ save'[u].tree = save[u].tree
                         /\ (u # s => save'[u] = save[u])
  BY ConstantsAssumption DEF SaveUpdate, Refused, TypeOK, Typed, Row, SaveState
<1>4. save[s].pc # "idle"
  BY DEF SaveUpdate, Checked
<1>5. changed' \in BOOLEAN
  BY DEF SaveUpdate, TypeOK, Typed
<1> QED BY <1>2, <1>3, <1>4, <1>5, <1>6 DEF SaveUpdate, TypeOK, Typed

\* The other steps of a save change its pc and, at most, its reply.
LEMMA TypeSaveStep ==
  ASSUME Typed, NEW s \in Save, SaveCheck(s) \/ SaveReadVersion(s) \/ SaveFails(s)
  PROVE  Typed'
<1>1. save[s].pc # "idle"
  BY DEF SaveCheck, SaveReadVersion, SaveFails
<1>2. /\ save' \in [Save -> SaveState]
      /\ \A u \in Save : save'[u].tab = save[u].tab /\ save'[u].tree = save[u].tree
                         /\ (u # s => save'[u] = save[u])
  BY DEF SaveCheck, SaveReadVersion, SaveFails, Refused, TypeOK, Typed, Row, SaveState
<1>3. budget' \in Budget
  BY SpendType DEF SaveCheck, SaveReadVersion, SaveFails, TypeOK, Typed, Budget
<1>4. due' \in BOOLEAN /\ lost' \in BOOLEAN
  BY DEF SaveCheck, SaveReadVersion, SaveFails, TypeOK, Typed
<1> QED BY <1>1, <1>2, <1>3, <1>4 DEF SaveCheck, SaveReadVersion, SaveFails, TypeOK, Typed, Budget

LEMMA LapseType ==
  ASSUME Typed, Lapse
  PROVE  /\ save' \in [Save -> SaveState]
         /\ \A s \in Save : save'[s].pc = save[s].pc /\ save'[s].tab = save[s].tab
                            /\ save'[s].tree = save[s].tree
<1> DEFINE lapsed(s) == [save[s] EXCEPT !.lapsed = TRUE]
<1>1. \A s \in Save : /\ lapsed(s) \in SaveState /\ lapsed(s).pc = save[s].pc
                      /\ lapsed(s).tab = save[s].tab /\ lapsed(s).tree = save[s].tree
  BY ZenonT(60) DEF TypeOK, Typed, SaveState
<1>2. save' = [s \in Save |-> IF save[s].pc = "checked" THEN lapsed(s) ELSE save[s]]
  BY DEF Lapse
<1> HIDE DEF lapsed
<1> QED BY <1>1, <1>2 DEF TypeOK, Typed

LEMMA TypeConnect == ASSUME Typed, Connect PROVE Typed'
<1>1. row' \in Row /\ row'.id = row.id /\ row'.version = row.version /\ row'.tree = row.tree
      /\ row # NoRow
  BY DEF Connect, TypeOK, Typed, Row
<1>2. budget' \in Budget
  BY SpendType DEF Connect, Typed
<1>3. telling' \in [Tab \cup {NoTab} -> Nat]
  BY DEF Connect, TypeOK, Typed
<1> QED BY <1>1, <1>2, <1>3 DEF Connect, TypeOK, Typed, Budget

LEMMA TypeDisconnect == ASSUME Typed, NEW t \in Tab, Disconnect(t) PROVE Typed'
<1>1. row' \in Row /\ row'.id = row.id /\ row'.version = row.version /\ row'.tree = row.tree
      /\ row # NoRow
  BY DEF Disconnect, TypeOK, Typed, Row
<1>2. budget' \in Budget
  BY SpendType DEF Disconnect, Typed
<1>3. telling' \in [Tab \cup {NoTab} -> Nat]
  BY DEF Disconnect, TypeOK, Typed
<1> QED BY <1>1, <1>2, <1>3, LapseType DEF Disconnect, TypeOK, Typed, Budget

\* A page that hears of its disconnect.
LEMMA TellPages ==
  ASSUME Typed, NEW w \in Tab \cup {NoTab}, Tell(w)
  PROVE  \A t \in Tab : /\ tab'[t] \in TabState
                        /\ tab'[t] = tab[t] \/ tab'[t] = [tab[t] EXCEPT !.connected = FALSE]
<1>1. ASSUME NEW t \in Tab
      PROVE  /\ tab'[t] \in TabState
             /\ tab'[t] = tab[t] \/ tab'[t] = [tab[t] EXCEPT !.connected = FALSE]
  <2> DEFINE told == [tab[t] EXCEPT !.connected = FALSE]
  <2>1. tab[t] \in TabState
    BY DEF TypeOK, Typed
  <2>2. told \in TabState
    BY <2>1, ZenonT(60) DEF TabState
  <2>3. tab'[t] = IF t = w THEN told ELSE tab[t]
    BY DEF Tell
  <2> HIDE DEF told
  <2>4. tab'[t] \in TabState /\ (tab'[t] = tab[t] \/ tab'[t] = told)
    BY <2>1, <2>2, <2>3
  <2> QED BY <2>4 DEF told
<1> QED BY <1>1

LEMMA TypeTell ==
  ASSUME Typed, NEW w \in Tab \cup {NoTab}, Tell(w) \/ TellFails(w) PROVE Typed'
<1>1. telling' \in [Tab \cup {NoTab} -> Nat]
  <2>1. telling[w] \in Nat /\ telling[w] > 0
    BY DEF Tell, TellFails, TypeOK, Typed
  <2>2. telling[w] - 1 \in Nat
    BY <2>1
  <2> QED BY <2>2 DEF Tell, TellFails, TypeOK, Typed
<1>2. budget' \in Budget
  BY SpendType DEF Tell, TellFails, Typed, TypeOK, Budget
<1>3. due' \in BOOLEAN /\ lost' \in BOOLEAN
  BY DEF Tell, TellFails, TypeOK, Typed
<1>4. tab' \in [Tab -> TabState] /\ \A t \in Tab : tab'[t].dirty => tab'[t].edit # "nobody"
  <2>1. CASE Tell(w)
    <3>1. \A t \in Tab : tab'[t].dirty = tab[t].dirty /\ tab'[t].edit = tab[t].edit
      BY <2>1, TellPages DEF TypeOK, Typed, TabState
    <3>2. tab' \in [Tab -> TabState]
      BY <2>1, TellPages DEF Tell
    <3> QED BY <3>1, <3>2 DEF Typed
  <2>2. CASE TellFails(w)
    BY <2>2 DEF TellFails, TypeOK, Typed
  <2> QED BY <2>1, <2>2
<1> QED BY <1>1, <1>2, <1>3, <1>4 DEF Tell, TellFails, TypeOK, Typed, Budget

LEMMA TypeDeleteRow == ASSUME Typed, DeleteRow PROVE Typed'
<1>1. budget' \in Budget
  BY SpendType DEF DeleteRow, Typed
<1> QED BY <1>1, LapseType DEF DeleteRow, TypeOK, Typed, Budget

LEMMA TypeRegister == ASSUME Typed, Register PROVE Typed'
<1>1. lastId' \in 1..MaxId
  BY ConstantsAssumption DEF Register, TypeOK, Typed
<1>2. row' \in Row /\ row'.id = lastId' /\ row'.version = 0
  BY <1>1, ConstantsAssumption DEF Register, Registered, Row, Rule
<1> QED BY <1>1, <1>2 DEF Register, TypeOK, Typed

LEMMA TypeNext == Typed /\ [Next]_vars => Typed'
<1> SUFFICES ASSUME Typed, [Next]_vars PROVE Typed'
  OBVIOUS
<1>1. CASE UNCHANGED vars
  BY <1>1 DEF vars, TypeOK, Typed
<1>2. CASE \E t \in Tab : Load(t) \/ RefreshArrives(t) \/ Disconnect(t) \/ RemoveLastGroup(t)
  BY <1>2, TypeLoad, TypeRefreshArrives, TypeDisconnect, TypeRemoveLastGroup
<1>3. CASE \E t \in Tab : RefreshRead(t)
  BY <1>3 DEF RefreshRead, TypeOK, Typed
<1>4. CASE \E t \in Tab : (\E rule \in Rule : Edit(t, rule)) \/ \E s \in Save : Send(t, s)
  BY <1>4, TypeEdit, TypeSend
<1>5. CASE \E s \in Save : \/ SaveCheck(s) \/ SaveUpdate(s) \/ SaveReadVersion(s)
                           \/ SaveFails(s) \/ Answer(s)
  BY <1>5, TypeSaveUpdate, TypeSaveStep, TypeAnswer
<1>6. CASE Connect \/ DeleteRow \/ Register
  BY <1>6, TypeConnect, TypeDeleteRow, TypeRegister
<1>7. CASE ConfigSync
  <2>1. budget' \in Budget
    BY <1>7, SpendType DEF ConfigSync, Typed
  <2> QED BY <1>7, <2>1 DEF ConfigSync, TypeOK, Typed
<1>8. CASE \E w \in Tab \cup {NoTab} : Tell(w) \/ TellFails(w)
  BY <1>8, TypeTell
<1> QED BY <1>1, <1>2, <1>3, <1>4, <1>5, <1>6, <1>7, <1>8 DEF Next

\* Every value the handlers, the page and the row ever hold has its type; no save stores
\* the unconfigured rule and none wears off (role_config_save, the page's save button).
THEOREM TypeCorrect == Spec => []TypeOK
<1>1. Typed => TypeOK
  BY DEF Typed
<1> QED BY TypeInit, TypeNext, <1>1, PTL DEF Spec

-----------------------------------------------------------------------------
(* Who holds the row's version                                               *)

\* A version v of row id is not ahead of the stored row r; and if it is r's, so is rule.
Reached(r, id, v) == (r # NoRow /\ r.id = id) => v <= r.version
Fits(r, id, v, rule) == (r # NoRow /\ r.id = id /\ r.version = v) => r.tree = rule

TabFits(t) ==
  /\ tab[t].id <= lastId
  /\ Reached(row, tab[t].id, tab[t].version)
  /\ tab[t].exact => Fits(row, tab[t].id, tab[t].version, tab[t].shown)

\* What a page takes for stored is what it last loaded or wrote, and so is its buffer
\* unless there is something to save, or the default stands for an unconfigured rule.
PageAgrees(t) == tab[t].clean => /\ tab[t].config = tab[t].shown
                                 /\ \/ tab[t].dirty \/ tab[t].edit = tab[t].config
                                    \/ tab[t].refilled /\ tab[t].config = "nobody"

\* What PageAgrees is about.
SamePage(t) == /\ tab'[t].clean = tab[t].clean /\ tab'[t].refilled = tab[t].refilled
               /\ tab'[t].config = tab[t].config /\ tab'[t].dirty = tab[t].dirty
               /\ tab'[t].edit = tab[t].edit

RefreshFits(t) ==
  refresh[t] # NoRow =>
    /\ refresh[t].id <= lastId
    /\ Reached(row, refresh[t].id, refresh[t].version)
    /\ Fits(row, refresh[t].id, refresh[t].version, refresh[t].tree)

SaveFits(s) ==
  /\ save[s].id <= lastId
  /\ save[s].pc \in {"sent", "checked"} =>
       /\ Reached(row, save[s].id, save[s].version)
       /\ save[s].exact => Fits(row, save[s].id, save[s].version, save[s].seen)
  /\ save[s].pc = "updated" =>
       /\ Reached(row, save[s].id, save[s].version + 1)
       /\ Fits(row, save[s].id, save[s].version + 1, save[s].tree)
  /\ save[s].pc = "saved" =>
       /\ Reached(row, save[s].id, save[s].reply)
       /\ save[s].reply = save[s].version + 1 =>
            Fits(row, save[s].id, save[s].reply, save[s].tree)

Fitting ==
  /\ \A t \in Tab : TabFits(t) /\ PageAgrees(t) /\ RefreshFits(t)
  /\ \A s \in Save : SaveFits(s)

EditorInv == Typed /\ Fitting

\* The row as it was, a later version of it, none, or a new one.
RowStep ==
  \/ row' = NoRow
  \/ row' # NoRow /\ row'.id > lastId
  \/ /\ row # NoRow /\ row' # NoRow /\ row'.id = row.id
     /\ \/ row'.version > row.version
        \/ row'.version = row.version /\ row'.tree = row.tree

LEMMA RowKept ==
  ASSUME Typed, Typed', RowStep \/ UNCHANGED row,
         NEW id \in Nat, NEW v \in Nat, id <= lastId, Reached(row, id, v)
  PROVE  Reached(row', id, v) /\ \A rule : Fits(row, id, v, rule) => Fits(row', id, v, rule)
<1>1. row # NoRow => row.version \in Nat /\ row.id \in Nat
  BY DEF TypeOK, Typed, Row
<1>2. row' # NoRow => row'.version \in Nat /\ row'.id \in Nat
  BY DEF TypeOK, Typed, Row
<1>3. lastId \in Nat
  BY DEF TypeOK, Typed
<1> QED BY <1>1, <1>2, <1>3 DEF RowStep, Reached, Fits

\* What nobody touches still fits.
SameTab(t) == /\ tab'[t].id = tab[t].id /\ tab'[t].version = tab[t].version
              /\ tab'[t].exact = tab[t].exact /\ tab'[t].shown = tab[t].shown

SameSave(s) == /\ save'[s].id = save[s].id /\ save'[s].version = save[s].version
               /\ save'[s].pc \in {save[s].pc, "refused"}
               /\ save'[s].exact = save[s].exact /\ save'[s].seen = save[s].seen
               /\ save'[s].tree = save[s].tree /\ save'[s].reply = save[s].reply

LEMMA Framed ==
  ASSUME EditorInv, Typed', RowStep \/ UNCHANGED row, lastId <= lastId'
  PROVE  /\ \A t \in Tab : SameTab(t) => TabFits(t)'
         /\ \A t \in Tab : refresh'[t] \in {refresh[t], NoRow} => RefreshFits(t)'
         /\ \A s \in Save : SameSave(s) => SaveFits(s)'
<1>1. lastId \in Nat /\ lastId' \in Nat
  BY DEF EditorInv, TypeOK, Typed
<1>2. ASSUME NEW t \in Tab, SameTab(t) PROVE TabFits(t)'
  <2>1. tab[t].id \in Nat /\ tab[t].version \in Nat
    BY DEF EditorInv, TypeOK, Typed, TabState
  <2>2. TabFits(t)
    BY DEF EditorInv, Fitting
  <2> QED BY <1>1, <1>2, <2>1, <2>2, RowKept DEF TabFits, SameTab, EditorInv
<1>3. ASSUME NEW t \in Tab, refresh'[t] \in {refresh[t], NoRow} PROVE RefreshFits(t)'
  <2>1. refresh[t] # NoRow => refresh[t].id \in Nat /\ refresh[t].version \in Nat
    BY DEF EditorInv, TypeOK, Typed, Row
  <2>2. RefreshFits(t)
    BY DEF EditorInv, Fitting
  <2> QED BY <1>1, <1>3, <2>1, <2>2, RowKept DEF RefreshFits, EditorInv
<1>4. ASSUME NEW s \in Save, SameSave(s) PROVE SaveFits(s)'
  <2>1. /\ save[s].id \in Nat /\ save[s].version \in Nat /\ save[s].reply \in Nat
        /\ save[s].version + 1 \in Nat
    BY DEF EditorInv, TypeOK, Typed, SaveState
  <2>2. SaveFits(s)
    BY DEF EditorInv, Fitting
  <2>3. save'[s].id <= lastId'
    BY <1>1, <1>4, <2>1, <2>2 DEF SaveFits, SameSave
  <2>4. CASE save[s].pc \in {"sent", "checked"}
    BY <1>1, <1>4, <2>1, <2>2, <2>3, <2>4, RowKept DEF SaveFits, SameSave, EditorInv
  <2>5. CASE save[s].pc = "updated"
    BY <1>1, <1>4, <2>1, <2>2, <2>3, <2>5, RowKept DEF SaveFits, SameSave, EditorInv
  <2>6. CASE save[s].pc = "saved"
    BY <1>1, <1>4, <2>1, <2>2, <2>3, <2>6, RowKept DEF SaveFits, SameSave, EditorInv
  <2>7. CASE save[s].pc \notin {"sent", "checked", "updated", "saved"}
    BY <1>4, <2>3, <2>7 DEF SaveFits, SameSave
  <2> QED BY <2>4, <2>5, <2>6, <2>7
<1> QED BY <1>2, <1>3, <1>4

LEMMA FitsInit == Init => EditorInv
<1> SUFFICES ASSUME Init PROVE EditorInv
  OBVIOUS
<1>1. Typed
  BY TypeInit
<1>2. row.id = 1 /\ lastId = 1
  BY DEF Init
<1>3. ASSUME NEW t \in Tab PROVE TabFits(t) /\ PageAgrees(t) /\ RefreshFits(t)
  <2>1. tab[t] = Closed /\ refresh[t] = NoRow
    BY DEF Init
  <2> QED BY <1>2, <2>1 DEF Closed, TabFits, PageAgrees, RefreshFits, Reached, Fits
<1>4. ASSUME NEW s \in Save PROVE SaveFits(s)
  <2>1. save[s] = NoSave
    BY DEF Init
  <2> QED BY <1>2, <2>1 DEF NoSave, SaveFits
<1> QED BY <1>1, <1>3, <1>4 DEF EditorInv, Fitting

\* Each action keeps the pages, answers and requests it touches fitting.
LEMMA FitsLoad == ASSUME EditorInv, Typed', NEW t \in Tab, Load(t) PROVE Fitting'
<1>1. UNCHANGED row /\ lastId' = lastId /\ lastId \in Nat
  BY DEF Load, EditorInv, TypeOK, Typed
<1>2. row \in Row /\ row.id <= lastId
  BY DEF Load, EditorInv, TypeOK, Typed
<1>3. \A u \in Tab \ {t} : SameTab(u) /\ (PageAgrees(u) => PageAgrees(u)')
  BY DEF Load, EditorInv, TypeOK, Typed, SameTab, PageAgrees
<1>4. TabFits(t)' /\ PageAgrees(t)'
  <2>1. /\ tab'[t].id = row.id /\ tab'[t].version = row.version /\ tab'[t].shown = row.tree
        /\ tab'[t].config = row.tree
    BY DEF Load, EditorInv, TypeOK, Typed
  <2>2. ~tab'[t].dirty => tab'[t].edit = row.tree
    BY DEF Load, EditorInv, TypeOK, Typed
  <2>3. row.version \in Nat
    BY <1>2 DEF Row
  <2>4. TabFits(t)'
    BY <1>1, <1>2, <2>1, <2>3 DEF TabFits, Reached, Fits
  <2>5. PageAgrees(t)'
    BY <2>1, <2>2 DEF PageAgrees
  <2> QED BY <2>4, <2>5
<1>5. \A u \in Tab : refresh'[u] \in {refresh[u], NoRow}
  BY DEF Load, EditorInv, TypeOK, Typed
<1>6. \A s \in Save : SameSave(s)
  BY DEF Load, EditorInv, TypeOK, Typed, SaveState, SameSave
<1> QED BY <1>1, <1>3, <1>4, <1>5, <1>6, Framed DEF EditorInv, Fitting

LEMMA FitsEdit ==
  ASSUME EditorInv, Typed', NEW t \in Tab, NEW rule \in Rule, Edit(t, rule) PROVE Fitting'
<1>1. UNCHANGED <<row, refresh, save, lastId>> /\ lastId \in Nat
  BY DEF Edit, EditorInv, TypeOK, Typed
<1>2. \A u \in Tab : SameTab(u)
  BY DEF Edit, EditorInv, TypeOK, Typed, TabState, SameTab
<1>3. ASSUME NEW u \in Tab PROVE PageAgrees(u)'
  <2>1. PageAgrees(u)
    BY DEF EditorInv, Fitting
  <2>2. CASE u # t
    BY <2>1, <2>2 DEF Edit, EditorInv, TypeOK, Typed, PageAgrees
  <2>3. CASE u = t
    <3>1. /\ tab'[t].clean = tab[t].clean /\ tab'[t].config = tab[t].config
          /\ tab'[t].shown = tab[t].shown /\ tab'[t].edit = rule
          /\ rule # tab[t].config => tab'[t].dirty
      BY DEF Edit, EditorInv, TypeOK, Typed, TabState
    <3> QED BY <2>1, <2>3, <3>1 DEF PageAgrees
  <2> QED BY <2>2, <2>3
<1>4. \A s \in Save : SameSave(s)
  BY <1>1 DEF SameSave
<1> QED BY <1>1, <1>2, <1>3, <1>4, Framed DEF EditorInv, Fitting

LEMMA FitsRemoveLastGroup ==
  ASSUME EditorInv, Typed', NEW t \in Tab, RemoveLastGroup(t) PROVE Fitting'
<1>1. UNCHANGED <<row, refresh, save, lastId>> /\ lastId \in Nat
  BY DEF RemoveLastGroup, EditorInv, TypeOK, Typed
<1>2. \A u \in Tab : SameTab(u)
  BY DEF RemoveLastGroup, EditorInv, TypeOK, Typed, TabState, SameTab
<1>3. ASSUME NEW u \in Tab PROVE PageAgrees(u)'
  <2>1. PageAgrees(u)
    BY DEF EditorInv, Fitting
  <2>2. CASE u # t
    BY <2>1, <2>2 DEF RemoveLastGroup, EditorInv, TypeOK, Typed, PageAgrees
  <2>3. CASE u = t
    <3>1. /\ tab'[t].clean = tab[t].clean /\ tab'[t].config = tab[t].config
          /\ tab'[t].shown = tab[t].shown
          /\ tab[t].config # "nobody" => tab'[t].dirty
          /\ tab[t].config = "nobody" => tab'[t].refilled
      BY DEF RemoveLastGroup, EditorInv, TypeOK, Typed, TabState
    <3> QED BY <2>1, <2>3, <3>1 DEF PageAgrees
  <2> QED BY <2>2, <2>3
<1>4. \A s \in Save : SameSave(s)
  BY <1>1 DEF SameSave
<1> QED BY <1>1, <1>2, <1>3, <1>4, Framed DEF EditorInv, Fitting

LEMMA FitsSend ==
  ASSUME EditorInv, Typed', NEW t \in Tab, NEW s \in Save, Send(t, s) PROVE Fitting'
<1>1. UNCHANGED <<row, tab, refresh, lastId>> /\ lastId \in Nat
  BY DEF Send, EditorInv, TypeOK, Typed
<1>2. \A u \in Tab : SameTab(u) /\ PageAgrees(u)'
  BY <1>1 DEF SameTab, PageAgrees, EditorInv, Fitting
<1>3. \A u \in Save \ {s} : SameSave(u)
  BY DEF Send, EditorInv, TypeOK, Typed, SameSave
<1>4. /\ save'[s].pc = "sent" /\ save'[s].id = tab[t].id /\ save'[s].version = tab[t].version
      /\ save'[s].exact = tab[t].exact /\ save'[s].seen = tab[t].shown
  BY DEF Send, NoSave, EditorInv, TypeOK, Typed
<1>5. SaveFits(s)'
  BY <1>1, <1>4 DEF SaveFits, TabFits, EditorInv, Fitting
<1> QED BY <1>1, <1>2, <1>3, <1>5, Framed DEF EditorInv, Fitting

LEMMA FitsRefreshRead ==
  ASSUME EditorInv, Typed', NEW t \in Tab, RefreshRead(t) PROVE Fitting'
<1>1. UNCHANGED <<row, tab, save, lastId>> /\ lastId \in Nat
  BY DEF RefreshRead, EditorInv, TypeOK, Typed
<1>2. \A u \in Tab : SameTab(u) /\ PageAgrees(u)'
  BY <1>1 DEF SameTab, PageAgrees, EditorInv, Fitting
<1>3. \A s \in Save : SameSave(s)
  BY <1>1 DEF SameSave
<1>4. \A u \in Tab \ {t} : refresh'[u] = refresh[u]
  BY DEF RefreshRead, EditorInv, TypeOK, Typed
<1>5. RefreshFits(t)'
  <2>1. refresh'[t] = row /\ row \in Row /\ row.id <= lastId
    BY DEF RefreshRead, EditorInv, TypeOK, Typed
  <2>2. row.version \in Nat
    BY <2>1 DEF Row
  <2> QED BY <1>1, <2>1, <2>2 DEF RefreshFits, Reached, Fits
<1> QED BY <1>1, <1>2, <1>3, <1>4, <1>5, Framed DEF EditorInv, Fitting

LEMMA FitsRefreshArrives ==
  ASSUME EditorInv, Typed', NEW t \in Tab, RefreshArrives(t) PROVE Fitting'
<1>1. UNCHANGED <<row, lastId>> /\ lastId \in Nat
  BY DEF RefreshArrives, EditorInv, TypeOK, Typed
<1>2. \A u \in Tab \ {t} : tab'[u] = tab[u]
  BY DEF RefreshArrives, EditorInv, TypeOK, Typed
<1>3. \A u \in Tab : refresh'[u] \in {refresh[u], NoRow}
  BY DEF RefreshArrives, EditorInv, TypeOK, Typed
<1>4. \A s \in Save : SameSave(s)
  BY DEF RefreshArrives, EditorInv, TypeOK, Typed, SaveState, SameSave
<1>5. \A u \in Tab \ {t} : TabFits(u)' /\ PageAgrees(u)'
  BY <1>1, <1>2, Framed DEF SameTab, PageAgrees, EditorInv, Fitting
<1>6. TabFits(t)' /\ PageAgrees(t)'
  <2>1. CASE tab' = [tab EXCEPT ![t].connected = refresh[t].connected]
    <3>1. SameTab(t) /\ SamePage(t)
      BY <2>1 DEF EditorInv, TypeOK, Typed, TabState, SameTab, SamePage
    <3> QED BY <1>1, <3>1, Framed DEF SameTab, SamePage, PageAgrees, EditorInv, Fitting
  <2>2. CASE tab' # [tab EXCEPT ![t].connected = refresh[t].connected]
    <3>1. /\ tab'[t].id = refresh[t].id /\ tab'[t].version = refresh[t].version
          /\ tab'[t].shown = refresh[t].tree /\ tab'[t].config = refresh[t].tree
          /\ tab'[t].edit = refresh[t].tree /\ refresh[t] # NoRow
      BY <2>2 DEF RefreshArrives, EditorInv, TypeOK, Typed
    <3>2. RefreshFits(t)
      BY DEF EditorInv, Fitting
    <3> QED BY <1>1, <3>1, <3>2 DEF TabFits, PageAgrees, RefreshFits
  <2> QED BY <2>1, <2>2
<1> QED BY <1>1, <1>3, <1>4, <1>5, <1>6, Framed DEF EditorInv, Fitting

LEMMA FitsAnswer == ASSUME EditorInv, Typed', NEW s \in Save, Answer(s) PROVE Fitting'
<1>1. UNCHANGED <<row, refresh, lastId>>
  BY DEF Answer
<1>2. lastId \in Nat
  BY DEF EditorInv, TypeOK, Typed
<1>3. \A u \in Save \ {s} : SameSave(u)
  BY DEF Answer, EditorInv, TypeOK, Typed, SameSave
<1>4. SaveFits(s)'
  <2>1. save'[s] = NoSave
    BY DEF Answer, EditorInv, TypeOK, Typed
  <2> QED BY <1>1, <1>2, <2>1 DEF NoSave, SaveFits
<1>5. \A u \in Tab : TabFits(u)' /\ PageAgrees(u)'
  <2>1. CASE UNCHANGED tab
    BY <1>1, <1>2, <2>1, Framed DEF SameTab, PageAgrees, EditorInv, Fitting
  <2>2. CASE save[s].pc = "saved" /\ tab' = [tab EXCEPT ![save[s].tab] = Written(s)]
    <3>1. PICK t \in Tab : t = save[s].tab /\ tab[t] \in TabState
      BY DEF Answer, EditorInv, TypeOK, Typed
    <3>2. tab'[t] = Written(s) /\ \A u \in Tab \ {t} : tab'[u] = tab[u]
      BY <2>2, <3>1 DEF EditorInv, TypeOK, Typed
    <3>3. /\ tab'[t].version = save[s].reply /\ tab'[t].id = save[s].id
          /\ tab'[t].shown = save[s].tree
          /\ tab'[t].exact => save[s].reply = save[s].version + 1
      BY <3>1, <3>2 DEF Written, TabState
    <3>4. /\ tab'[t].config = Buffer(s) /\ tab'[t].edit = tab[t].edit
          /\ tab'[t].clean => Buffer(s) = save[s].tree /\ tab[t].edit = Buffer(s)
      BY <3>1, <3>2 DEF Written, TabState
    <3>5. TabFits(t)'
      BY <1>1, <1>2, <2>2, <3>3 DEF TabFits, SaveFits, EditorInv, Fitting
    <3>6. PageAgrees(t)'
      BY <3>3, <3>4 DEF PageAgrees
    <3>7. \A u \in Tab \ {t} : TabFits(u)' /\ PageAgrees(u)'
      BY <1>1, <1>2, <3>2, Framed DEF SameTab, PageAgrees, EditorInv, Fitting
    <3> QED BY <3>5, <3>6, <3>7
  <2> QED BY <2>1, <2>2, AnswerWrites DEF EditorInv
<1> QED BY <1>1, <1>2, <1>3, <1>4, <1>5, Framed DEF EditorInv, Fitting

\* The steps that leave the pages alone and at most refuse a save or advance the row.
LEMMA FitsOther ==
  ASSUME EditorInv, Typed', RowStep \/ UNCHANGED row, lastId <= lastId', UNCHANGED refresh,
         \A t \in Tab : SameTab(t) /\ SamePage(t),
         \A s \in Save : SameSave(s) \/ SaveFits(s)'
  PROVE  Fitting'
<1>1. \A t \in Tab : PageAgrees(t)'
  BY DEF SameTab, SamePage, PageAgrees, EditorInv, Fitting
<1> QED BY <1>1, Framed DEF Fitting

\* The row an UPDATE leaves.
LEMMA StoredRow ==
  ASSUME Typed, NEW s \in Save, SaveUpdate(s), row # NoRow, row.version = save[s].version
  PROVE  /\ row' # NoRow /\ row'.id = row.id /\ row'.version = row.version + 1
         /\ row'.tree = save[s].tree /\ row'.connected = row.connected
<1>1. row \in Row /\ save[s] \in SaveState
  BY DEF TypeOK, Typed
<1>2. row' = [row EXCEPT !.tree = save[s].tree, !.version = @ + 1] /\ row.version < MaxVersion
  BY DEF SaveUpdate
<1>3. row.version + 1 \in 0..MaxVersion /\ save[s].tree \in Rule
  BY <1>1, <1>2, ConstantsAssumption DEF Row, SaveState
<1>4. /\ row' \in Row /\ row'.id = row.id /\ row'.version = row.version + 1
      /\ row'.tree = save[s].tree /\ row'.connected = row.connected
  BY <1>1, <1>2, <1>3 DEF Row
<1> QED BY <1>4, ConstantsAssumption

LEMMA FitsSaveUpdate == ASSUME EditorInv, Typed', NEW s \in Save, SaveUpdate(s) PROVE Fitting'
<1>1. UNCHANGED <<tab, refresh, lastId>> /\ lastId \in Nat
  BY DEF SaveUpdate, EditorInv, TypeOK, Typed
<1>2. \A u \in Save \ {s} : SameSave(u)
  BY DEF SaveUpdate, Refused, EditorInv, TypeOK, Typed, SameSave
<1>3. CASE row # NoRow /\ row.version = save[s].version
  <2>1. row \in Row /\ row.id <= lastId /\ row.version \in Nat
    BY <1>3 DEF EditorInv, TypeOK, Typed, Row
  <2>2. /\ row' # NoRow /\ row'.id = row.id /\ row'.version = row.version + 1
        /\ row'.tree = save[s].tree
    BY <1>3, StoredRow DEF EditorInv
  <2>3. /\ save'[s].pc = "updated" /\ save'[s].id = row.id
        /\ save'[s].version = save[s].version /\ save'[s].tree = save[s].tree
    BY <1>3 DEF SaveUpdate, EditorInv, TypeOK, Typed, SaveState
  <2>4. SaveFits(s)'
    BY <1>1, <1>3, <2>1, <2>2, <2>3 DEF SaveFits, Reached, Fits
  <2>5. RowStep
    BY <1>3, <2>1, <2>2 DEF RowStep
  <2> QED BY <1>1, <1>2, <2>4, <2>5, FitsOther DEF SameTab, SamePage
<1>4. CASE ~(row # NoRow /\ row.version = save[s].version)
  <2>1. UNCHANGED row
    BY <1>4 DEF SaveUpdate
  <2>2. SameSave(s)
    BY <1>4 DEF SaveUpdate, Refused, EditorInv, TypeOK, Typed, SaveState, SameSave
  <2> QED BY <1>1, <1>2, <2>1, <2>2, FitsOther DEF SameTab, SamePage
<1> QED BY <1>3, <1>4

LEMMA FitsSaveReadVersion ==
  ASSUME EditorInv, Typed', NEW s \in Save, SaveReadVersion(s) PROVE Fitting'
<1>1. UNCHANGED <<row, tab, refresh, lastId>> /\ lastId \in Nat
  BY DEF SaveReadVersion, EditorInv, TypeOK, Typed
<1>2. \A u \in Save \ {s} : SameSave(u)
  BY DEF SaveReadVersion, Refused, EditorInv, TypeOK, Typed, SameSave
<1>3. CASE row # NoRow
  <2>1. row.version \in Nat
    BY <1>3 DEF EditorInv, TypeOK, Typed, Row
  <2>2. /\ save'[s].pc = "saved" /\ save'[s].reply = row.version /\ save'[s].id = save[s].id
        /\ save'[s].version = save[s].version /\ save'[s].tree = save[s].tree
    BY <1>3 DEF SaveReadVersion, EditorInv, TypeOK, Typed, SaveState
  <2>3. SaveFits(s) /\ save[s].pc = "updated"
    BY DEF SaveReadVersion, EditorInv, Fitting
  <2>4. SaveFits(s)'
    BY <1>1, <2>1, <2>2, <2>3 DEF SaveFits, Reached, Fits
  <2> QED BY <1>1, <1>2, <2>4, FitsOther DEF SameTab, SamePage
<1>4. CASE row = NoRow
  <2>1. SameSave(s)
    BY <1>4 DEF SaveReadVersion, Refused, EditorInv, TypeOK, Typed, SaveState, SameSave
  <2> QED BY <1>1, <1>2, <2>1, FitsOther DEF SameTab, SamePage
<1> QED BY <1>3, <1>4

LEMMA FitsSaveCheck ==
  ASSUME EditorInv, Typed', NEW s \in Save, SaveCheck(s) PROVE Fitting'
<1>1. UNCHANGED <<row, tab, refresh, lastId>> /\ lastId \in Nat
  BY DEF SaveCheck, EditorInv, TypeOK, Typed
<1>2. \A u \in Save \ {s} : SameSave(u)
  BY DEF SaveCheck, Refused, EditorInv, TypeOK, Typed, SameSave
<1>3. CASE save' = [save EXCEPT ![s].pc = "checked"]
  <2>1. /\ save'[s].pc = "checked" /\ save'[s].id = save[s].id
        /\ save'[s].version = save[s].version /\ save'[s].exact = save[s].exact
        /\ save'[s].seen = save[s].seen
    BY <1>3 DEF EditorInv, TypeOK, Typed, SaveState
  <2>2. SaveFits(s) /\ save[s].pc = "sent"
    BY DEF SaveCheck, EditorInv, Fitting
  <2>3. SaveFits(s)'
    BY <1>1, <2>1, <2>2 DEF SaveFits
  <2> QED BY <1>1, <1>2, <2>3, FitsOther DEF SameTab, SamePage
<1>4. CASE Refused(s)
  <2>1. SameSave(s)
    BY <1>4 DEF Refused, EditorInv, TypeOK, Typed, SaveState, SameSave
  <2> QED BY <1>1, <1>2, <2>1, FitsOther DEF SameTab, SamePage
<1> QED BY <1>3, <1>4 DEF SaveCheck

LEMMA FitsSaveFails ==
  ASSUME EditorInv, Typed', NEW s \in Save, SaveFails(s) PROVE Fitting'
<1>1. UNCHANGED <<row, tab, refresh, lastId>> /\ lastId \in Nat
  BY DEF SaveFails, EditorInv, TypeOK, Typed
<1>2. \A u \in Save : SameSave(u)
  BY DEF SaveFails, Refused, EditorInv, TypeOK, Typed, SaveState, SameSave
<1> QED BY <1>1, <1>2, FitsOther DEF SameTab, SamePage

LEMMA FitsEnvironment ==
  ASSUME EditorInv, Typed', Connect \/ (\E t \in Tab : Disconnect(t)) \/ DeleteRow \/ Register
         \/ ConfigSync \/ (\E w \in Tab \cup {NoTab} : Tell(w) \/ TellFails(w))
  PROVE  Fitting'
<1>1. lastId \in Nat /\ lastId <= lastId' /\ UNCHANGED refresh
  BY DEF Connect, Disconnect, DeleteRow, Register, ConfigSync, Tell, TellFails, EditorInv, TypeOK, Typed
<1>2. RowStep \/ UNCHANGED row
  <2>1. CASE Connect \/ \E t \in Tab : Disconnect(t)
    <3>1. row \in Row /\ row # NoRow
      BY <2>1 DEF Connect, Disconnect, EditorInv, TypeOK, Typed
    <3>2. \E b \in BOOLEAN : row' = [row EXCEPT !.connected = b]
      BY <2>1 DEF Connect, Disconnect
    <3>3. row' \in Row /\ row'.id = row.id /\ row'.version = row.version /\ row'.tree = row.tree
      BY <3>1, <3>2 DEF Row
    <3> QED BY <3>1, <3>3, ConstantsAssumption DEF RowStep
  <2>2. CASE DeleteRow
    BY <2>2 DEF DeleteRow, RowStep
  <2>3. CASE Register
    <3>1. row' # NoRow
      <4>1. lastId' \in 1..MaxId
        BY DEF TypeOK, Typed
      <4>2. row' \in Row
        BY <2>3, <4>1, ConstantsAssumption DEF Register, Registered, Row, Rule
      <4> QED BY <4>2, ConstantsAssumption
    <3>2. row'.id > lastId
      BY <1>1, <2>3 DEF Register, Registered
    <3> QED BY <3>1, <3>2 DEF RowStep
  <2>4. CASE ConfigSync \/ \E w \in Tab \cup {NoTab} : Tell(w) \/ TellFails(w)
    BY <2>4 DEF ConfigSync, Tell, TellFails
  <2> QED BY <2>1, <2>2, <2>3, <2>4
<1>3. ASSUME NEW t \in Tab
      PROVE  SameTab(t) /\ SamePage(t)
  <2>1. tab'[t] = tab[t] \/ tab'[t] = [tab[t] EXCEPT !.connected = FALSE]
    <3>1. CASE \E w \in Tab \cup {NoTab} : Tell(w)
      BY <3>1, TellPages DEF EditorInv
    <3>2. CASE ~\E w \in Tab \cup {NoTab} : Tell(w)
      BY <3>2 DEF Connect, Disconnect, DeleteRow, Register, ConfigSync, TellFails
    <3> QED BY <3>1, <3>2
  <2> QED BY <2>1 DEF EditorInv, TypeOK, Typed, TabState, SameTab, SamePage
<1>4. \A s \in Save : SameSave(s)
  <2>1. UNCHANGED save \/ Lapse
    BY DEF Connect, Disconnect, DeleteRow, Register, ConfigSync, Tell, TellFails
  <2> QED BY <2>1 DEF Lapse, EditorInv, TypeOK, Typed, SaveState, SameSave
<1> QED BY <1>1, <1>2, <1>3, <1>4, FitsOther

LEMMA FitsNext == EditorInv /\ [Next]_vars => EditorInv'
<1> SUFFICES ASSUME EditorInv, [Next]_vars PROVE EditorInv'
  OBVIOUS
<1>1. Typed'
  BY TypeNext DEF EditorInv
<1>2. CASE UNCHANGED vars
  BY <1>2 DEF vars, EditorInv, Typed, TypeOK, Fitting, TabFits, PageAgrees, RefreshFits, SaveFits
<1>3. CASE \E t \in Tab : \/ Load(t) \/ RefreshRead(t) \/ RefreshArrives(t)
                          \/ RemoveLastGroup(t)
                          \/ \E rule \in Rule : Edit(t, rule)
                          \/ \E s \in Save : Send(t, s)
  BY <1>1, <1>3, FitsLoad, FitsRefreshRead, FitsRefreshArrives, FitsRemoveLastGroup,
     FitsEdit, FitsSend DEF EditorInv
<1>4. CASE \E s \in Save : \/ SaveCheck(s) \/ SaveUpdate(s) \/ SaveReadVersion(s)
                           \/ SaveFails(s) \/ Answer(s)
  BY <1>1, <1>4, FitsSaveCheck, FitsSaveUpdate, FitsSaveReadVersion, FitsSaveFails, FitsAnswer
     DEF EditorInv
<1>5. CASE \/ Connect \/ (\E t \in Tab : Disconnect(t)) \/ DeleteRow \/ Register \/ ConfigSync
           \/ \E w \in Tab \cup {NoTab} : Tell(w) \/ TellFails(w)
  BY <1>1, <1>5, FitsEnvironment DEF EditorInv
<1> QED BY <1>2, <1>3, <1>4, <1>5 DEF Next

-----------------------------------------------------------------------------
(* What a save replaces and what a page shows                                *)

\* As ShowsStored says of templates/role_config.html: a page with the row's current
\* version shows the rule that role_config_save stored, and its buffer holds it
\* unless something is left to save or the default was put in place of the last group of
\* a rule not yet configured.
THEOREM ShowsCorrect == Spec => []ShowsStored
<1>1. EditorInv => ShowsStored
  BY DEF EditorInv, Fitting, TabFits, PageAgrees, Fits, ShowsStored
<1> QED BY FitsInit, FitsNext, <1>1, PTL DEF Spec

\* Only SaveUpdate stores.
LEMMA StoresUpdates ==
  ASSUME Typed, Next, NEW s \in Save, Stores(s)
  PROVE  SaveUpdate(s) /\ row # NoRow /\ row.version = save[s].version
<1>1. save \in [Save -> SaveState]
  BY DEF TypeOK, Typed
<1>2. ASSUME save'[s].pc = save[s].pc PROVE FALSE
  BY <1>2 DEF Stores
<1>3. CASE (\E t \in Tab : Load(t) \/ RefreshArrives(t) \/ Disconnect(t)) \/ DeleteRow
  <2>1. CASE \E t \in Tab : Load(t)
    BY <1>1, <1>2, <2>1 DEF Load, SaveState
  <2>2. CASE \E t \in Tab : RefreshArrives(t)
    BY <1>1, <1>2, <2>2 DEF RefreshArrives, SaveState
  <2>3. CASE (\E t \in Tab : Disconnect(t)) \/ DeleteRow
    BY <1>1, <1>2, <2>3 DEF Disconnect, DeleteRow, Lapse, SaveState
  <2> QED BY <1>3, <2>1, <2>2, <2>3
<1>4. CASE \/ \E t \in Tab : \/ RefreshRead(t) \/ RemoveLastGroup(t)
                             \/ \E rule \in Rule : Edit(t, rule)
           \/ Connect \/ Register \/ ConfigSync
           \/ \E w \in Tab \cup {NoTab} : Tell(w) \/ TellFails(w)
  BY <1>2, <1>4 DEF RefreshRead, RemoveLastGroup, Edit, Connect, Register, ConfigSync, Tell,
                    TellFails
<1>5. CASE \E t \in Tab : \E u \in Save : Send(t, u)
  BY <1>1, <1>5 DEF Send, NoSave, Stores
<1>6. CASE \E u \in Save : SaveCheck(u) \/ SaveReadVersion(u) \/ SaveFails(u)
  <2>1. PICK u \in Save : /\ SaveCheck(u) \/ SaveReadVersion(u) \/ SaveFails(u)
                          /\ \/ save' = [save EXCEPT ![u].pc = "checked"]
                             \/ save' = [save EXCEPT ![u].pc = "saved", ![u].reply = row.version]
                             \/ save' = [save EXCEPT ![u].pc = "refused"]
    BY <1>6 DEF SaveCheck, SaveReadVersion, SaveFails, Refused
  <2> QED BY <1>1, <2>1 DEF Stores, SaveState
<1>7. CASE \E u \in Save : Answer(u)
  <2>1. PICK u \in Save : save' = [save EXCEPT ![u] = NoSave]
    BY <1>7, ZenonT(60) DEF Answer
  <2> QED BY <1>1, <2>1 DEF NoSave, Stores
<1>8. CASE \E u \in Save : SaveUpdate(u)
  <2>1. PICK u \in Save : SaveUpdate(u)
    BY <1>8
  <2>2. CASE row # NoRow /\ row.version = save[u].version
    <3>1. save' = [save EXCEPT ![u].pc = "updated", ![u].id = row.id]
      BY <2>1, <2>2 DEF SaveUpdate
    <3>2. u = s
      BY <1>1, <1>2, <3>1
    <3> QED BY <2>1, <2>2, <3>2
  <2>3. CASE ~(row # NoRow /\ row.version = save[u].version)
    BY <1>1, <2>1, <2>3 DEF SaveUpdate, Refused, Stores, SaveState
  <2> QED BY <2>2, <2>3
<1> QED BY <1>3, <1>4, <1>5, <1>6, <1>7, <1>8 DEF Next

\* As ReplacesWhatWasShown says of role_config_save's optimistic lock (admin.rs): a
\* save that carries an exact version of the row replaces only what its page showed.
THEOREM ReplacesCorrect == Spec => ReplacesWhatWasShown
<1> DEFINE Replaces == \A s \in Save : Stores(s) =>
                         row.tree = save[s].seen \/ ~save[s].exact \/ row.id # save[s].id
<1>1. EditorInv /\ [Next]_vars => [Replaces]_vars
  <2> SUFFICES ASSUME EditorInv, Next, NEW s \in Save, Stores(s), save[s].exact,
                      row.id = save[s].id
               PROVE  row.tree = save[s].seen
    OBVIOUS
  <2>1. SaveUpdate(s) /\ row # NoRow /\ row.version = save[s].version
    BY StoresUpdates DEF EditorInv
  <2>2. save[s].pc \in {"sent", "checked"} /\ SaveFits(s)
    BY <2>1 DEF SaveUpdate, Checked, EditorInv, Fitting
  <2> QED BY <2>1, <2>2 DEF SaveFits, Fits
<1> QED BY FitsInit, FitsNext, <1>1, PTL DEF Spec, ReplacesWhatWasShown

-----------------------------------------------------------------------------
(* The connected channel and the config event                                *)

\* A save past the check, and not yet through the UPDATE, has a connected channel, or
\* knows of its going.
CheckHolds(s) == save[s].pc = "checked" => save[s].lapsed \/ (row # NoRow /\ row.connected)

\* A change of a row that is gone is nobody's to sync.
Owed == ChangeReachesWorker /\ (row = NoRow => ~changed)

ChannelInv == Typed /\ (\A s \in Save : CheckHolds(s)) /\ Owed

LEMMA ChannelInit == Init => ChannelInv
<1> SUFFICES ASSUME Init PROVE ChannelInv
  OBVIOUS
<1>1. \A s \in Save : save[s].pc = "idle"
  BY DEF Init, NoSave
<1> QED BY <1>1, TypeInit DEF Init, ChannelInv, CheckHolds, Owed, ChangeReachesWorker

\* A connect or a disconnect is between its UPDATE and its event.
EventComing == \E w \in Tab \cup {NoTab} : telling[w] > 0

LEMMA StartsTelling ==
  ASSUME Typed, NEW w \in Tab \cup {NoTab}, telling' = [telling EXCEPT ![w] = @ + 1]
  PROVE  EventComing'
<1>1. telling[w] \in Nat
  BY DEF TypeOK, Typed
<1>2. telling'[w] = telling[w] + 1
  BY DEF TypeOK, Typed
<1> QED BY <1>1, <1>2 DEF EventComing

\* A reload leaves the page's requests to run on, unheard.
LEMMA LoadKeepsComing ==
  ASSUME Typed, NEW t \in Tab, Load(t), EventComing PROVE EventComing'
<1>1. PICK w \in Tab \cup {NoTab} : telling[w] > 0
  BY DEF EventComing
<1>2. /\ telling[t] \in Nat /\ telling[NoTab] \in Nat
      /\ telling'[NoTab] = telling[NoTab] + telling[t]
      /\ \A u \in Tab \ {t} : telling'[u] = telling[u]
  BY ConstantsAssumption DEF Load, TypeOK, Typed
<1>3. CASE w \in {t, NoTab}
  <2>1. telling'[NoTab] > 0
    BY <1>1, <1>2, <1>3
  <2> QED BY <2>1 DEF EventComing
<1>4. CASE w \in Tab \ {t}
  BY <1>1, <1>2, <1>4 DEF EventComing
<1> QED BY <1>3, <1>4

LEMMA ChannelNext == ChannelInv /\ [Next]_vars => ChannelInv'
<1> SUFFICES ASSUME ChannelInv, [Next]_vars PROVE (\A s \in Save : CheckHolds(s))' /\ Owed'
  BY TypeNext DEF ChannelInv
<1>1. save \in [Save -> SaveState] /\ row \in Row \cup {NoRow}
  BY DEF ChannelInv, Typed, TypeOK
<1>2. ASSUME UNCHANGED <<row, telling, due, changed, lost>>,
             \A s \in Save : save'[s].pc = save[s].pc /\ save'[s].lapsed = save[s].lapsed
      PROVE  (\A s \in Save : CheckHolds(s))' /\ Owed'
  BY <1>2 DEF ChannelInv, CheckHolds, Owed, ChangeReachesWorker
<1>3. CASE UNCHANGED vars
  BY <1>2, <1>3 DEF vars
<1>4. CASE \E t \in Tab : Load(t) \/ RefreshArrives(t)
  <2>1. \A s \in Save : save'[s].pc = save[s].pc /\ save'[s].lapsed = save[s].lapsed
    BY <1>1, <1>4 DEF Load, RefreshArrives, SaveState
  <2>2. UNCHANGED <<row, due, changed, lost>>
    BY <1>4 DEF Load, RefreshArrives
  <2>3. EventComing => EventComing'
    BY <1>4, LoadKeepsComing DEF RefreshArrives, EventComing, ChannelInv
  <2> QED BY <2>1, <2>2, <2>3
          DEF ChannelInv, CheckHolds, Owed, ChangeReachesWorker, EventComing
<1>5. CASE \E t \in Tab : \/ RefreshRead(t) \/ RemoveLastGroup(t)
                          \/ \E rule \in Rule : Edit(t, rule)
  BY <1>2, <1>5 DEF RefreshRead, RemoveLastGroup, Edit
<1>6. CASE \E s \in Save : (\E t \in Tab : Send(t, s)) \/ Answer(s)
  <2>1. PICK s \in Save : (\E t \in Tab : Send(t, s)) \/ Answer(s)
    BY <1>6
  <2>2. /\ save[s].pc # "updated" /\ save'[s].pc # "checked"
        /\ \A u \in Save \ {s} : save'[u] = save[u]
    <3>1. CASE Answer(s)
      <4>1. save' = [save EXCEPT ![s] = NoSave] /\ save[s].pc \in {"saved", "refused"}
        BY <3>1 DEF Answer
      <4> QED BY <1>1, <4>1 DEF NoSave
    <3>2. CASE \E t \in Tab : Send(t, s)
      BY <1>1, <3>2 DEF Send, NoSave
    <3> QED BY <2>1, <3>1, <3>2
  <2>3. UNCHANGED <<row, telling, due, changed, lost>>
    BY <2>1 DEF Send, Answer
  <2> QED BY <2>2, <2>3 DEF ChannelInv, CheckHolds, Owed, ChangeReachesWorker
<1>7. CASE \E s \in Save : SaveCheck(s)
  <2>1. PICK s \in Save : SaveCheck(s)
    BY <1>7
  <2>2. /\ save[s].pc # "updated"
        /\ save'[s].pc = "checked" => row # NoRow /\ row.connected
        /\ \A u \in Save \ {s} : save'[u] = save[u]
    <3>1. save[s].pc = "sent"
      BY <2>1 DEF SaveCheck
    <3>2. \/ row # NoRow /\ row.connected /\ save' = [save EXCEPT ![s].pc = "checked"]
          \/ save' = [save EXCEPT ![s].pc = "refused"]
      BY <2>1 DEF SaveCheck, Refused
    <3>3. /\ \A u \in Save \ {s} : save'[u] = save[u]
          /\ save'[s].pc = "checked" => row # NoRow /\ row.connected
      BY <1>1, <3>2 DEF SaveState
    <3> QED BY <3>1, <3>3
  <2>3. UNCHANGED <<row, telling, due, changed, lost>>
    BY <2>1 DEF SaveCheck
  <2> QED BY <2>2, <2>3 DEF ChannelInv, CheckHolds, Owed, ChangeReachesWorker
<1>8. CASE \E s \in Save : SaveUpdate(s)
  <2>1. PICK s \in Save : SaveUpdate(s)
    BY <1>8
  <2>2. \A u \in Save \ {s} : save'[u] = save[u]
    BY <1>1, <2>1 DEF SaveUpdate, Refused
  <2>3. CASE row # NoRow /\ row.version = save[s].version
    <3>1. save'[s].pc = "updated"
      BY <1>1, <2>1, <2>3 DEF SaveUpdate, SaveState
    <3>2. row' # NoRow /\ row'.connected = row.connected
      BY <2>1, <2>3, StoredRow DEF ChannelInv
    <3>3. UNCHANGED <<telling, due, lost>>
      BY <2>1 DEF SaveUpdate
    <3> QED BY <2>2, <2>3, <3>1, <3>2, <3>3
            DEF ChannelInv, CheckHolds, Owed, ChangeReachesWorker
  <2>4. CASE ~(row # NoRow /\ row.version = save[s].version)
    <3>1. save'[s].pc = "refused" /\ save[s].pc # "updated"
      BY <1>1, <2>1, <2>4 DEF SaveUpdate, Refused, Checked, SaveState
    <3>2. UNCHANGED <<row, telling, due, changed, lost>>
      BY <2>1, <2>4 DEF SaveUpdate
    <3> QED BY <2>2, <3>1, <3>2 DEF ChannelInv, CheckHolds, Owed, ChangeReachesWorker
  <2> QED BY <2>3, <2>4
<1>9. CASE \E s \in Save : SaveReadVersion(s) \/ SaveFails(s)
  <2>1. PICK s \in Save : SaveReadVersion(s) \/ SaveFails(s)
    BY <1>9
  <2>2. /\ save'[s].pc \in {"saved", "refused"}
        /\ \A u \in Save \ {s} : save'[u] = save[u]
    <3>1. \/ save' = [save EXCEPT ![s].pc = "saved", ![s].reply = row.version]
          \/ save' = [save EXCEPT ![s].pc = "refused"]
      BY <2>1 DEF SaveReadVersion, SaveFails, Refused
    <3>2. \A u \in Save \ {s} : save'[u] = save[u]
      BY <1>1, <3>1
    <3>3. save'[s].pc = "saved" \/ save'[s].pc = "refused"
      BY <1>1, <3>1 DEF SaveState
    <3> QED BY <3>2, <3>3
  <2>3. UNCHANGED <<row, telling, changed>>
    BY <2>1 DEF SaveReadVersion, SaveFails
  <2>4. (due => due') /\ (lost => lost')
    <3>1. CASE SaveReadVersion(s)
      BY <3>1, Zenon DEF SaveReadVersion
    <3>2. CASE SaveFails(s)
      BY <3>2, Zenon DEF SaveFails
    <3> QED BY <2>1, <3>1, <3>2
  <2>5. save[s].pc = "updated" => due' \/ lost' \/ row = NoRow
    BY <2>1 DEF SaveReadVersion, SaveFails
  <2> QED BY <2>2, <2>3, <2>4, <2>5 DEF ChannelInv, CheckHolds, Owed, ChangeReachesWorker
<1>10. CASE Connect
  <2>1. row' # NoRow /\ row'.connected
    <3>1. row \in Row /\ row' = [row EXCEPT !.connected = TRUE]
      BY <1>1, <1>10 DEF Connect
    <3>2. row' \in Row /\ row'.connected
      BY <3>1 DEF Row
    <3> QED BY <3>2, ConstantsAssumption
  <2>2. UNCHANGED save /\ EventComing'
    BY <1>10, StartsTelling DEF Connect, ChannelInv
  <2> QED BY <2>1, <2>2 DEF ChannelInv, CheckHolds, Owed, ChangeReachesWorker, EventComing
<1>11. CASE (\E t \in Tab : Disconnect(t)) \/ DeleteRow
  <2>1. \A s \in Save : save'[s].pc = save[s].pc /\ (save[s].pc = "checked" => save'[s].lapsed)
    BY <1>1, <1>11 DEF Disconnect, DeleteRow, Lapse, SaveState
  <2>2. (EventComing' /\ row' # NoRow) \/ ~changed'
    <3>1. CASE DeleteRow
      BY <3>1 DEF DeleteRow
    <3>2. CASE \E t \in Tab : Disconnect(t)
      <4>1. row \in Row /\ row' = [row EXCEPT !.connected = FALSE]
        BY <1>1, <3>2 DEF Disconnect
      <4>2. row' \in Row
        BY <4>1 DEF Row
      <4>3. EventComing'
        BY <3>2, StartsTelling DEF Disconnect, ChannelInv
      <4> QED BY <4>2, <4>3, ConstantsAssumption
    <3> QED BY <1>11, <3>1, <3>2
  <2> QED BY <2>1, <2>2 DEF CheckHolds, Owed, ChangeReachesWorker, EventComing
<1>14. CASE \E w \in Tab \cup {NoTab} : Tell(w) \/ TellFails(w)
  BY <1>14 DEF Tell, TellFails, ChannelInv, CheckHolds, Owed, ChangeReachesWorker
<1>12. CASE Register
  <2>1. UNCHANGED <<save, telling, due, changed, lost>> /\ row = NoRow
    BY <1>12 DEF Register
  <2> QED BY <2>1 DEF ChannelInv, CheckHolds, Owed, ChangeReachesWorker
<1>13. CASE ConfigSync
  BY <1>13 DEF ConfigSync, ChannelInv, CheckHolds, Owed, ChangeReachesWorker
<1> QED BY <1>3, <1>4, <1>5, <1>6, <1>7, <1>8, <1>9, <1>10, <1>11, <1>12, <1>13, <1>14 DEF Next

\* As ChangeReachesWorker says of the handlers that send a ConfigSyncEvent: every change
\* of rule or channel is synced, or an event for it is queued, or a save, a connect or a
\* disconnect is about to queue one, unless the request that made it ended first.
THEOREM ReachesCorrect == Spec => []ChangeReachesWorker
<1>1. ChannelInv => ChangeReachesWorker
  BY DEF ChannelInv, Owed
<1> QED BY ChannelInit, ChannelNext, <1>1, PTL DEF Spec

\* As NoNoopRule says of the check in role_config_save: a rule about a channel is stored
\* with one connected, or the channel went between check and UPDATE.
THEOREM NoopCorrect == Spec => NoNoopRule
<1> DEFINE Connected == \A s \in Save : (Stores(s) /\ save[s].tree \in ChannelRule) =>
                          row.connected \/ save[s].lapsed
<1>1. ChannelInv /\ [Next]_vars => [Connected]_vars
  <2> SUFFICES ASSUME ChannelInv, Next, NEW s \in Save, Stores(s), save[s].tree \in ChannelRule
               PROVE  row.connected \/ save[s].lapsed
    OBVIOUS
  <2>1. SaveUpdate(s)
    BY StoresUpdates DEF ChannelInv
  <2>2. save[s].tree # "anyone"
    BY ConstantsAssumption
  <2>3. save[s].pc = "checked"
    BY <2>1, <2>2 DEF SaveUpdate, Checked
  <2> QED BY <2>3 DEF ChannelInv, CheckHolds
<1> QED BY ChannelInit, ChannelNext, <1>1, PTL DEF Spec, NoNoopRule
=============================================================================
