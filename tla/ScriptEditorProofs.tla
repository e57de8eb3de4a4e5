------------------------- MODULE ScriptEditorProofs -------------------------
(***************************************************************************)
(* Proofs about ScriptEditor, for any scripts, criteria, bags and bounds:  *)
(* a script runs by itself only on bags that criteria of its own match,    *)
(* and one that has been removed stays so.                                 *)
(***************************************************************************)
EXTENDS ScriptEditor, FiniteSetTheorems, TLAPS

(* Only the window of a script asks for one.                               *)
FormSound ==
  /\ reply = Asked => form.script \in Ids
  /\ open => opened > 0

(* What the scan's session holds of a script's criteria has been stored    *)
(* with it, unless it was read after the script's removal.                 *)
SessionSound ==
  /\ \A i \in Stored : scripts[i].criteria \in meant[i]
  /\ \A i \in Stored : session[i] \in {NoScript, Asked} \cup meant[i]
  /\ \A i \in Ids : session[i] # NoScript => i \in given
  /\ \A i \in looking : session[i] # NoScript
  /\ bag = {} => looking = {}

IInv == TypeOK /\ FormSound /\ SessionSound /\ AutoRunsMatch

LEMMA InitIInv == Init => IInv
<1> SUFFICES ASSUME Init PROVE IInv
  OBVIOUS
<1>1. NoForm \in Form
  BY DEF NoForm, Form, Blank, Content
<1>2. Cardinality(bag) <= 1 /\ requests \in Seq(Request) /\ Len(requests) <= MaxSaves
  BY FS_EmptySet, BoundAssumption DEF Init
<1>3. TypeOK
  <2>1. scripts \in [Ids -> Content \cup {NoScript}] /\ Stored \subseteq given /\ given \subseteq Ids
    BY InitialAssumption DEF Init, Stored
  <2>2. \A i \in Stored : scripts[i].criteria \in SUBSET Criteria
    BY <2>1 DEF Stored, Content
  <2>3. meant \in [Ids -> SUBSET SUBSET Criteria]
    BY <2>2 DEF Init
  <2>4. opened \in 0..MaxWindows /\ reply = NoScript /\ form \in Form
    BY <1>1, BoundAssumption DEF Init
  <2>5. session \in [Ids -> (SUBSET Criteria) \cup {NoScript, Asked}] /\ runs \subseteq given \X Bags
    BY DEF Init
  <2>6. deleting \in [Ids -> {"no", "asked", "sent", "done"}] /\ shown \subseteq given
        /\ asked \in BOOLEAN /\ answers \subseteq SUBSET given /\ open \in BOOLEAN
        /\ bag \subseteq Bags /\ looking \subseteq given
    BY DEF Init
  <2>7. QED
    BY <1>2, <2>1, <2>3, <2>4, <2>5, <2>6 DEF TypeOK
<1>4. FormSound /\ SessionSound /\ AutoRunsMatch
  BY AnswerAssumption DEF Init, FormSound, SessionSound, AutoRunsMatch, Stored
<1>5. QED
  BY <1>3, <1>4 DEF IInv

(* Clicks and answers in the page change neither the database nor what the *)
(* scanner has read of it.                                                 *)
LEMMA PageKeeps ==
  IInv /\ UNCHANGED <<database, scanner>> => SessionSound' /\ AutoRunsMatch'
BY DEF IInv, SessionSound, AutoRunsMatch, Stored, BagMatchesCriteria, database, scanner

LEMMA EditorStep ==
  ASSUME IInv,
         \/ Create \/ Close \/ EnterFields \/ Save \/ GetScript \/ FormLoaded
         \/ \E i \in Ids : ShowScriptDetails(i)
         \/ \E c \in Criteria : SaveCriteria(c) \/ DeleteCriteria(c)
  PROVE  IInv' /\ UNCHANGED scripts
<1> USE DEF IInv, TypeOK, FormSound, database, grid, scanner
<1>1. UNCHANGED <<database, grid, scanner>> => SessionSound' /\ AutoRunsMatch' /\ Stored' = Stored
  BY PageKeeps DEF Stored
<1>2. ASSUME NEW i \in Ids \cup {NoId}, Open(i), i # NoId => i \in Ids
      PROVE  IInv' /\ UNCHANGED scripts
  <2>1. form' \in Form /\ form'.script = i
    BY <1>2 DEF Open, NoForm, Form, Blank, Content
  <2>2. /\ opened' \in 0..MaxWindows /\ opened' > 0 /\ open' = TRUE
        /\ reply' \in {NoScript, Asked} /\ (reply' = Asked => i \in Ids)
        /\ UNCHANGED <<database, requests, grid, scanner>>
    BY <1>2, AnswerAssumption, BoundAssumption DEF Open
  <2>3. QED
    BY <1>1, <2>1, <2>2
<1>3. ASSUME NEW content \in Content, Enter(content)  PROVE IInv' /\ UNCHANGED scripts
  <2>1. form' \in Form /\ form'.script = form.script
    BY <1>3 DEF Enter, Form
  <2>2. QED
    BY <1>1, <1>3, <2>1 DEF Enter
<1>4. CASE Close
  <2>1. form' \in Form
    BY <1>4 DEF Close, CloseWindow, NoForm, Form, Blank, Content
  <2>2. QED
    BY <1>1, <1>4, <2>1, AnswerAssumption DEF Close, CloseWindow
<1>5. CASE Save
  <2>1. requests' \in Seq(Request) /\ Len(requests') <= MaxSaves
    <3>1. [window |-> opened, id |-> form.id, content |-> form.content, stage |-> "sent"] \in Request
      BY <1>5 DEF Save, Request, Form
    <3>2. QED
      BY <1>5, <3>1, BoundAssumption DEF Save
  <2>2. QED
    BY <1>1, <1>5, <2>1 DEF Save
<1>6. CASE GetScript
  BY <1>1, <1>6, AnswerAssumption DEF GetScript, Content
<1>7. CASE FormLoaded
  <2>1. form' \in Form
    <3>1. CASE reply = Failed
      BY <1>7, <3>1 DEF FormLoaded
    <3>2. CASE reply \in Content
      BY <1>7, <3>2, AnswerAssumption DEF FormLoaded, Form
    <3>3. QED
      BY <1>7, <3>1, <3>2 DEF FormLoaded
  <2>2. QED
    BY <1>1, <1>7, <2>1, AnswerAssumption DEF FormLoaded
<1>8. CASE Create
  BY <1>2, <1>8 DEF Create
<1>9. ASSUME NEW i \in Ids, ShowScriptDetails(i)  PROVE IInv' /\ UNCHANGED scripts
  BY <1>2, <1>9 DEF ShowScriptDetails
<1>10. CASE EnterFields
  <2>1. [form.content EXCEPT !.runAutomatically = ~@] \in Content
    <3>1. \A s \in Content, b \in BOOLEAN : [s EXCEPT !.runAutomatically = b] \in Content
      BY DEF Content
    <3>2. form.content \in Content
      BY DEF Form
    <3>3. (~form.content.runAutomatically) \in BOOLEAN
      OBVIOUS
    <3>4. QED
      BY <3>1, <3>2, <3>3, Zenon
  <2>2. QED
    BY <1>3, <1>10, <2>1 DEF EnterFields
<1>11. ASSUME NEW c \in Criteria, SaveCriteria(c) \/ DeleteCriteria(c)  PROVE IInv' /\ UNCHANGED scripts
  <2>1. /\ [form.content EXCEPT !.criteria = @ \cup {c}] \in Content
        /\ [form.content EXCEPT !.criteria = @ \ {c}] \in Content
    BY DEF Form, Content
  <2>2. QED
    BY <1>3, <1>11, <2>1 DEF SaveCriteria, DeleteCriteria
<1>12. QED
  BY <1>4, <1>5, <1>6, <1>7, <1>8, <1>9, <1>10, <1>11

(* Requests to save, and the list.                                         *)
LEMMA RequestTyped ==
  ASSUME requests \in Seq(Request), Len(requests) <= MaxSaves, NEW k \in DOMAIN requests,
         NEW s \in {"sent", "ok", "refused", "told"}, To(k, s)
  PROVE  requests' \in Seq(Request) /\ Len(requests') <= MaxSaves
<1>1. requests[k] \in Request
  OBVIOUS
<1>2. [requests[k] EXCEPT !.stage = s] \in Request
  BY <1>1 DEF Request
<1>3. QED
  BY <1>2 DEF To

LEMMA AnswerStep ==
  ASSUME IInv, NEW k \in DOMAIN requests, SaveAnswered(k) \/ SaveLost(k)
  PROVE  IInv' /\ UNCHANGED scripts
<1> USE DEF IInv, TypeOK, FormSound, database, grid, scanner
<1>1. requests' \in Seq(Request) /\ Len(requests') <= MaxSaves
  BY RequestTyped DEF SaveAnswered, SaveLost
<1>2. SessionSound' /\ AutoRunsMatch' /\ Stored' = Stored
  BY PageKeeps DEF SaveAnswered, SaveLost, Stored
<1>3. NoForm \in Form
  BY DEF NoForm, Form, Blank, Content
<1>4. CASE SaveLost(k)
  BY <1>1, <1>2, <1>4 DEF SaveLost
<1>5. CASE SaveAnswered(k)
  <2>1. UNCHANGED <<database, scanner, opened, deleting, shown, answers>> /\ asked' \in BOOLEAN
    BY <1>5 DEF SaveAnswered, Reload
  <2>2. CASE UNCHANGED <<open, form, reply>>
    BY <1>1, <1>2, <2>1, <2>2
  <2>3. CASE CloseWindow
    BY <1>1, <1>2, <1>3, <2>1, <2>3, AnswerAssumption DEF CloseWindow
  <2>4. QED
    BY <1>5, <2>2, <2>3 DEF SaveAnswered
<1>6. QED
  BY <1>4, <1>5

LEMMA ListStep ==
  ASSUME IInv,
         \/ GetScripts
         \/ \E i \in Ids : DeleteButton(i) \/ Confirm(i) \/ Deleted(i)
         \/ \E s \in answers : ListLoaded(s)
  PROVE  IInv' /\ UNCHANGED scripts
<1> USE DEF IInv, TypeOK, FormSound, database, editor, scanner
<1>1. UNCHANGED <<database, scanner>> /\ UNCHANGED editor
  BY DEF GetScripts, DeleteButton, Confirm, Deleted, ListLoaded
<1>2. SessionSound' /\ AutoRunsMatch' /\ Stored' = Stored
  BY <1>1, PageKeeps DEF Stored
<1>3. deleting' \in [Ids -> {"no", "asked", "sent", "done"}]
  BY DEF GetScripts, DeleteButton, Confirm, Deleted, ListLoaded, Stage
<1>4. shown' \subseteq given /\ asked' \in BOOLEAN /\ answers' \subseteq SUBSET given
  BY DEF GetScripts, DeleteButton, Confirm, Deleted, ListLoaded, Reload
<1>5. QED
  BY <1>1, <1>2, <1>3, <1>4

(* The database.  A script that is stored keeps what the session has read  *)
(* of it among the criteria it has been stored with.                       *)
LEMMA StoreKeeps ==
  ASSUME IInv, NEW i \in Ids, NEW content \in Content, Store(i, content),
         i \in Stored \/ i \notin given, UNCHANGED scanner
  PROVE  /\ scripts' \in [Ids -> Content \cup {NoScript}]
         /\ Stored' \subseteq given' /\ given \subseteq given' /\ given' \subseteq Ids
         /\ meant' \in [Ids -> SUBSET SUBSET Criteria]
         /\ SessionSound' /\ AutoRunsMatch'
         /\ \A j \in given : scripts[j] = NoScript => scripts'[j] = NoScript
<1> USE DEF IInv, TypeOK
<1>1. content # NoScript /\ content.criteria \in SUBSET Criteria
  BY AnswerAssumption DEF Content
<1>2. /\ scripts' = [scripts EXCEPT ![i] = content] /\ given' = given \cup {i}
      /\ meant' = [meant EXCEPT ![i] = @ \cup {content.criteria}]
  BY DEF Store
<1>3. Stored' = Stored \cup {i}
  BY <1>1, <1>2 DEF Stored
<1>4. \A j \in Ids : meant[j] \subseteq meant'[j]
  BY <1>2
<1>5. SessionSound'
  BY <1>1, <1>2, <1>3, <1>4 DEF SessionSound, scanner
<1>6. AutoRunsMatch'
  <2>1. \A run \in runs : run[1] = i => run[1] \in Stored
    BY DEF scanner
  <2>2. QED
    BY <1>3, <1>4, <2>1 DEF AutoRunsMatch, scanner, BagMatchesCriteria
<1>7. QED
  BY <1>1, <1>2, <1>3, <1>5, <1>6 DEF Stored

LEMMA DatabaseStep ==
  ASSUME IInv, \/ \E k \in DOMAIN requests : ServerStep(k)
               \/ \E i \in Ids : DeleteScript(i)
  PROVE  IInv' /\ \A j \in given : scripts[j] = NoScript => scripts'[j] = NoScript
<1> USE DEF IInv, TypeOK, FormSound, editor, grid, scanner
<1>1. ASSUME NEW k \in DOMAIN requests, UpdateScript(k)
      PROVE  IInv' /\ \A j \in given : scripts[j] = NoScript => scripts'[j] = NoScript
  <2>1. requests[k] \in Request
    OBVIOUS
  <2>2. requests[k].id \in Ids /\ requests[k].content \in Content
    BY <1>1, <2>1 DEF UpdateScript, Request
  <2>3. requests' \in Seq(Request) /\ Len(requests') <= MaxSaves
    BY <1>1, RequestTyped DEF UpdateScript
  <2>4. CASE UNCHANGED database
    BY <1>1, <2>3, <2>4, PageKeeps DEF UpdateScript, database, Stored
  <2>5. CASE Store(requests[k].id, requests[k].content) /\ requests[k].id \in Stored
    <3>1. UNCHANGED <<opened, open, form, reply, grid, scanner>>
      BY <1>1 DEF UpdateScript
    <3>2. QED
      BY <2>2, <2>3, <2>5, <3>1, StoreKeeps
  <2>6. QED
    BY <1>1, <2>2, <2>4, <2>5 DEF UpdateScript, Stored
<1>2. ASSUME NEW k \in DOMAIN requests, NEW i \in Ids, AddScript(k, i)
      PROVE  IInv' /\ \A j \in given : scripts[j] = NoScript => scripts'[j] = NoScript
  <2>1. requests[k] \in Request
    OBVIOUS
  <2>2. requests[k].content \in Content /\ i \notin given
    BY <1>2, <2>1 DEF AddScript, Request
  <2>3. requests' \in Seq(Request) /\ Len(requests') <= MaxSaves
    <3>1. [requests[k] EXCEPT !.id = i, !.stage = "ok"] \in Request
      BY <2>1 DEF Request
    <3>2. requests' = [requests EXCEPT ![k] = [requests[k] EXCEPT !.id = i, !.stage = "ok"]]
      BY <1>2 DEF AddScript
    <3>3. QED
      BY <3>1, <3>2
  <2>4. Store(i, requests[k].content) /\ UNCHANGED <<opened, open, form, reply, grid, scanner>>
    BY <1>2 DEF AddScript
  <2>5. QED
    BY <2>2, <2>3, <2>4, StoreKeeps
<1>3. ASSUME NEW i \in Ids, DeleteScript(i)
      PROVE  IInv' /\ \A j \in given : scripts[j] = NoScript => scripts'[j] = NoScript
  <2>1. deleting' \in [Ids -> {"no", "asked", "sent", "done"}]
    BY <1>3 DEF DeleteScript, Stage
  <2>2. UNCHANGED <<given, meant, editor, shown, asked, answers, scanner>>
    BY <1>3 DEF DeleteScript, Remove, database
  <2>3. scripts' = scripts \/ scripts' = [scripts EXCEPT ![i] = NoScript]
    BY <1>3 DEF DeleteScript, Remove, database
  <2>4. Stored' \subseteq Stored /\ \A j \in Stored' : scripts'[j] = scripts[j]
    BY <2>3 DEF Stored
  <2>5. SessionSound'
    BY <2>2, <2>4 DEF SessionSound
  <2>6. AutoRunsMatch'
    BY <2>2, <2>4 DEF AutoRunsMatch, BagMatchesCriteria
  <2>7. scripts' \in [Ids -> Content \cup {NoScript}]
    BY <2>3
  <2>8. QED
    BY <2>1, <2>2, <2>3, <2>4, <2>5, <2>6, <2>7
<1>4. QED
  BY <1>1, <1>2, <1>3 DEF ServerStep

(* The scanner.                                                            *)
LEMMA ScanStep ==
  ASSUME IInv, Scan
  PROVE  IInv' /\ UNCHANGED scripts
<1> USE DEF IInv, TypeOK, FormSound, database, editor, grid
<1>1. UNCHANGED <<database, editor, grid>>
  BY DEF Scan, GetAutomaticScripts, LoadCriteria, RunAutomaticScripts, EndScan
<1>2. Stored' = Stored
  BY <1>1 DEF Stored
<1>3. ASSUME NEW b \in Bags, GetAutomaticScripts(b)  PROVE IInv'
  <2>1. bag' \subseteq Bags /\ Cardinality(bag') <= 1 /\ bag' # {}
    <3>1. bag' = {b}
      BY <1>3 DEF GetAutomaticScripts
    <3>2. Cardinality({b}) = 1
      BY FS_Singleton
    <3>3. QED
      BY <3>1, <3>2
  <2>2. looking' \subseteq Stored /\ runs' = runs
    BY <1>3 DEF GetAutomaticScripts
  <2>3. /\ session' \in [Ids -> (SUBSET Criteria) \cup {NoScript, Asked}]
        /\ \A i \in Ids : session'[i] = IF i \in looking' /\ session[i] = NoScript THEN Asked ELSE session[i]
    BY <1>3 DEF GetAutomaticScripts
  <2>4. SessionSound'
    BY <1>1, <1>2, <2>1, <2>2, <2>3, AnswerAssumption DEF SessionSound, Stored
  <2>5. AutoRunsMatch'
    BY <1>1, <1>2, <2>2 DEF AutoRunsMatch, BagMatchesCriteria
  <2>6. QED
    BY <1>1, <1>2, <2>1, <2>2, <2>3, <2>4, <2>5
<1>4. ASSUME NEW i \in Ids, LoadCriteria(i)  PROVE IInv'
  <2>1. i \in Stored => scripts[i].criteria \in SUBSET Criteria
    BY DEF Stored, Content
  <2>2. /\ session' \in [Ids -> (SUBSET Criteria) \cup {NoScript, Asked}]
        /\ session'[i] = IF i \in Stored THEN scripts[i].criteria ELSE {}
        /\ \A j \in Ids \ {i} : session'[j] = session[j]
    BY <1>4, <2>1 DEF LoadCriteria
  <2>3. session'[i] # NoScript /\ session[i] = Asked
    BY <1>4, <2>1, <2>2, SessionAssumption DEF LoadCriteria
  <2>4. UNCHANGED <<bag, looking, runs>>
    BY <1>4 DEF LoadCriteria
  <2>5. SessionSound'
    BY <1>1, <1>2, <2>2, <2>3, <2>4, AnswerAssumption DEF SessionSound, Stored
  <2>6. AutoRunsMatch'
    BY <1>1, <1>2, <2>4 DEF AutoRunsMatch, BagMatchesCriteria
  <2>7. QED
    BY <1>1, <1>2, <2>2, <2>4, <2>5, <2>6
<1>5. CASE RunAutomaticScripts
  <2>1. bag' = {} /\ looking' = {} /\ session' = session /\ Cardinality(bag') <= 1
    BY <1>5, FS_EmptySet DEF RunAutomaticScripts
  <2>2. SessionSound'
    BY <1>1, <1>2, <2>1 DEF SessionSound
  <2>3. runs' = runs \cup {r \in looking \X bag : BagMatchesCriteria(r[2], session[r[1]])}
    BY <1>5 DEF RunAutomaticScripts
  <2>4. ASSUME NEW run \in runs'
        PROVE  run[1] \notin Stored \/ \E criteria \in meant[run[1]] : BagMatchesCriteria(run[2], criteria)
    <3>1. CASE run \in runs
      BY <3>1 DEF AutoRunsMatch
    <3>2. CASE run[1] \in looking /\ BagMatchesCriteria(run[2], session[run[1]])
      <4>1. session[run[1]] \notin {NoScript, Asked}
        BY <1>5, <3>2 DEF RunAutomaticScripts, SessionSound
      <4>2. run[1] \in Stored => session[run[1]] \in meant[run[1]]
        BY <4>1 DEF SessionSound
      <4>3. QED
        BY <3>2, <4>2
    <3>3. QED
      BY <2>3, <3>1, <3>2
  <2>5. AutoRunsMatch'
    BY <1>1, <1>2, <2>4 DEF AutoRunsMatch, BagMatchesCriteria
  <2>6. runs' \subseteq given \X Bags
    BY <2>3
  <2>7. QED
    BY <1>1, <1>2, <2>1, <2>2, <2>5, <2>6
<1>6. CASE EndScan
  <2>1. session' = [i \in Ids |-> NoScript] /\ UNCHANGED <<bag, looking, runs>> /\ bag = {}
    BY <1>6 DEF EndScan
  <2>2. SessionSound'
    BY <1>1, <1>2, <2>1 DEF SessionSound, Stored
  <2>3. AutoRunsMatch'
    BY <1>1, <1>2, <2>1 DEF AutoRunsMatch, BagMatchesCriteria
  <2>4. QED
    BY <1>1, <1>2, <2>1, <2>2, <2>3
<1>7. QED
  BY <1>1, <1>3, <1>4, <1>5, <1>6 DEF Scan

LEMMA Step ==
  ASSUME IInv, [Next]_vars
  PROVE  IInv' /\ \A j \in given : scripts[j] = NoScript => scripts'[j] = NoScript
<1>1. CASE UNCHANGED vars
  BY <1>1, PageKeeps DEF vars, database, editor, grid, scanner, IInv, TypeOK, FormSound, Stored
<1>2. CASE Click \/ GetScript \/ FormLoaded
  BY <1>2, EditorStep, ListStep DEF Click
<1>3. CASE Scan
  BY <1>3, ScanStep
<1>4. CASE \E k \in DOMAIN requests : ServerStep(k) \/ SaveAnswered(k) \/ SaveLost(k)
  BY <1>4, DatabaseStep, AnswerStep
<1>5. CASE GetScripts \/ (\E i \in Ids : DeleteScript(i) \/ Deleted(i)) \/ (\E s \in answers : ListLoaded(s))
  BY <1>5, DatabaseStep, ListStep
<1>6. QED
  BY <1>1, <1>2, <1>3, <1>4, <1>5 DEF Next

(* Every variable of the editor keeps its type.                            *)
THEOREM TypeCorrect == Spec => []TypeOK
<1>1. IInv => TypeOK
  BY DEF IInv
<1>2. QED
  BY <1>1, InitIInv, Step, PTL DEF Spec

(* A script that is there runs by itself only on bags that match criteria  *)
(* it has been stored with, however it is edited meanwhile                 *)
(* (BagService.runAutomaticScripts and ScriptService.updateScript).        *)
THEOREM OnlyOnMatchingBags == Spec => []AutoRunsMatch
<1>1. IInv => AutoRunsMatch
  BY DEF IInv
<1>2. QED
  BY <1>1, InitIInv, Step, PTL DEF Spec

(* No window brings back a script that has been removed                    *)
(* (ScriptService.updateScript).                                           *)
THEOREM NoneComesBack == Spec => RemovedForGood
<1>1. IInv /\ [Next]_vars => [\A i \in given : scripts[i] = NoScript => scripts'[i] = NoScript]_vars
  BY Step
<1>2. QED
  BY <1>1, InitIInv, Step, PTL DEF Spec, RemovedForGood
=============================================================================
