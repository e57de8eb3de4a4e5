------------------------ MODULE ScriptResultsProofs ------------------------
(***************************************************************************)
(* Proofs about ScriptResults, for any topics and runs: the page           *)
(* subscribes to each topic exactly once, shows only committed results and *)
(* waits only for runs that the server has started.                        *)
(***************************************************************************)
EXTENDS ScriptResults, FiniteSetTheorems, TLAPS

(* The flag of the viewport against its connection: before the connection  *)
(* is up nothing has been sent.                                            *)
PortSound ==
  /\ subscriptions \subseteq Topics
  /\ frames \in [Topics -> Nat] /\ broker \in [Topics -> Nat]
  /\ socket \in {"connecting", "up", "down"}
  /\ socket = "up" => isStompConnected
  /\ socket = "connecting" => ~isStompConnected
  /\ socket # "up" => \A t \in Topics : frames[t] = 0 /\ broker[t] = 0

(* The page asks for what the server then starts.                          *)
PageSound ==
  /\ request \in [Runs -> {"none", "sent", "started", "refused", "told"}]
  /\ answers \in [SUBSET Runs -> Nat]
  /\ \A r \in Runs : request[r] = "started" => r \in started
  /\ Life!LifeOK

IInv == PortSound /\ PageSound /\ SubscribedOnce /\ OnlyStoredShown

LEMMA InitIInv == Init => IInv
<1> SUFFICES ASSUME Init PROVE IInv
  OBVIOUS
<1>1. PortSound /\ SubscribedOnce
  BY DEF Init, PortInit, PortSound, SubscribedOnce
<1>2. PageSound
  BY DEF Init, Life!LifeInit, PageSound, Life!LifeOK
<1>3. OnlyStoredShown
  BY DEF Init, OnlyStoredShown
<1>4. QED
  BY <1>1, <1>2, <1>3 DEF IInv

(* Steps of the connection keep the page and the runs as they are.         *)
LEMMA ConnectionKeeps == IInv /\ ConnectionStep => IInv'
<1> SUFFICES ASSUME IInv, ConnectionStep  PROVE IInv'
  OBVIOUS
<1>1. PageSound' /\ OnlyStoredShown'
  BY DEF ConnectionStep, IInv, PageSound, OnlyStoredShown, Life!LifeOK, life, pageVars, listVars
<1>2. PortSound' /\ SubscribedOnce'
  <2> USE DEF IInv, PortSound, SubscribedOnce
  <2>1. CASE Connected
    BY <2>1 DEF Connected, Send
  <2>2. CASE Disconnected
    BY <2>2 DEF Disconnected
  <2>3. ASSUME NEW t \in Topics, SubscribeToTopic(t)  PROVE PortSound' /\ SubscribedOnce'
    <3>1. CASE socket = "up"
      <4>1. frames' = [u \in Topics |-> frames[u] + (IF u = t THEN 1 ELSE 0)]
        BY <2>3, <3>1 DEF SubscribeToTopic, Send
      <4>2. \A u \in Topics : frames'[u] = IF u = t THEN frames[u] + 1 ELSE frames[u]
        BY <4>1
      <4>3. QED
        BY <2>3, <3>1, <4>1, <4>2 DEF SubscribeToTopic
    <3>2. CASE socket # "up"
      <4>1. \A u \in Topics : frames'[u] = frames[u]
        BY <2>3, <3>2 DEF SubscribeToTopic, Send
      <4>2. frames' \in [Topics -> Nat]
        BY <2>3, <3>2 DEF SubscribeToTopic, Send
      <4>3. QED
        BY <2>3, <3>2, <4>1, <4>2 DEF SubscribeToTopic
    <3>3. QED
      BY <3>1, <3>2
  <2>4. ASSUME NEW t \in Topics, SubscribeArrives(t)  PROVE PortSound' /\ SubscribedOnce'
    BY <2>4 DEF SubscribeArrives
  <2>5. QED
    BY <2>1, <2>2, <2>3, <2>4 DEF ConnectionStep, PortStep
<1>3. QED
  BY <1>1, <1>2 DEF IInv

(* The connection is left alone by a step that keeps these variables.      *)
LEMMA PortKept ==
  IInv /\ UNCHANGED <<socket, isStompConnected, subscriptions, frames, broker>>
    => PortSound' /\ SubscribedOnce'
BY DEF IInv, PortSound, SubscribedOnce

(* The life of a run only goes on.                                         *)
LEMMA LifeKept ==
  ASSUME NEW r \in Runs, Life!LifeOK,
         Life!Start(r) \/ Life!Cancel(r) \/ Life!End(r) \/ Life!Announce(r)
  PROVE  Life!LifeOK' /\ started \subseteq started' /\ stored \subseteq stored'
BY DEF Life!LifeOK, Life!Start, Life!Cancel, Life!End, Life!Announce

LEMMA IInvStep == IInv /\ [Next]_vars => IInv'
<1> SUFFICES ASSUME IInv, [Next]_vars  PROVE IInv'
  OBVIOUS
<1> USE DEF IInv, PageSound, OnlyStoredShown, portVars, pageVars, listVars, life
<1>1. CASE ConnectionStep
  BY <1>1, ConnectionKeeps
<1>2. ASSUME NEW r \in Runs, RunScript(r) \/ RefuseRun(r) \/ RunAnswerLost(r) \/ Select(r)
      PROVE  IInv'
  BY <1>2, PortKept DEF RunScript, RefuseRun, RunAnswerLost, Select, Life!LifeOK
<1>3. ASSUME NEW r \in Runs, StartRun(r)  PROVE IInv'
  BY <1>3, PortKept, LifeKept DEF StartRun, Life!Start
<1>4. ASSUME NEW r \in Runs, RunAnswered(r)  PROVE IInv'
  BY <1>4, PortKept DEF RunAnswered, Life!LifeOK
<1>5. ASSUME NEW r \in Runs, ServerStep(r)  PROVE IInv'
  <2>1. CASE Announce(r)
    BY <2>1, PortKept, LifeKept DEF Announce
  <2>2. CASE (Life!Cancel(r) \/ Life!End(r)) /\ UNCHANGED <<portVars, pageVars>>
    BY <2>2, PortKept, LifeKept
  <2>3. QED
    BY <1>5, <2>1, <2>2 DEF ServerStep
<1>6. ASSUME NEW r \in Runs, ReloadIfScriptFinished(r)  PROVE IInv'
  BY <1>6, PortKept DEF ReloadIfScriptFinished, Reload, Life!LifeOK
<1>7. CASE RefreshButton
  BY <1>7, PortKept DEF RefreshButton, Reload, Life!LifeOK
<1>8. CASE GetScriptResults
  BY <1>8, PortKept DEF GetScriptResults, Life!LifeOK
<1>9. ASSUME NEW s \in SUBSET Runs, LoadAnswered(s)  PROVE IInv'
  BY <1>9, PortKept DEF LoadAnswered, Life!LifeOK
<1>10. CASE UNCHANGED vars
  BY <1>10, PortKept DEF vars, Life!LifeOK
<1>11. QED
  BY <1>1, <1>2, <1>3, <1>4, <1>5, <1>6, <1>7, <1>8, <1>9, <1>10
     DEF Next, RequestStep, ListStep

(* Each topic of a widget is subscribed to once, whichever of the widget   *)
(* and the connection comes first (subscribeToTopic).                      *)
THEOREM EachTopicOnce == Spec => []SubscribedOnce
<1>1. IInv => SubscribedOnce
  BY DEF IInv
<1>2. QED
  BY <1>1, InitIInv, IInvStep, PTL DEF Spec

(* However late and in whatever order the answers come, the page shows     *)
(* only results that the server has committed, and waits only for runs     *)
(* that have been started (ScriptStore.runScript, ScriptResultStore).      *)
THEOREM NothingInvented == Spec => []OnlyStoredShown
<1>1. IInv => OnlyStoredShown
  BY DEF IInv
<1>2. QED
  BY <1>1, InitIInv, IInvStep, PTL DEF Spec
-----------------------------------------------------------------------------
(* How often the list of results is asked for.                             *)

(* The runs whose request has been answered and that the page does not, or *)
(* no longer, wait for.                                                    *)
Dropped == {r \in Runs : request[r] = "told" /\ r \notin pendingScripts}

(* Each request for the list, and each answer, is owed to the start of the *)
(* page, to a click or to a run the page has waited for: a run is waited   *)
(* for once, so the message that it has finished reloads the list once,    *)
(* however often it comes.                                                 *)
Owed ==
  /\ asked \in Nat /\ refreshes \in 0..MaxRefreshes
  /\ \A s \in SUBSET Runs : asked + answers[s] <= 1 + refreshes + Cardinality(Dropped)

PageTyped ==
  /\ isStompConnected \in BOOLEAN /\ inbox \subseteq Message
  /\ \A r \in pendingScripts : r \in Runs /\ request[r] = "told"
  /\ selected \subseteq shown

LoadInv == PageTyped /\ Owed

LEMMA DroppedFinite ==
  /\ Cardinality(Dropped) \in Nat /\ Cardinality(Runs) \in Nat
  /\ Cardinality(Dropped) <= Cardinality(Runs)
<1>1. IsFiniteSet(Runs) /\ Dropped \subseteq Runs
  BY RefreshAssumption DEF Dropped
<1>2. IsFiniteSet(Dropped) /\ Cardinality(Dropped) <= Cardinality(Runs)
  BY <1>1, FS_Subset
<1>3. QED
  BY <1>1, <1>2, FS_CardinalityType

LEMMA DroppedGrows ==
  ASSUME Dropped \subseteq Dropped'
  PROVE  /\ Cardinality(Dropped') \in Nat /\ Cardinality(Dropped) <= Cardinality(Dropped')
         /\ Dropped' # Dropped => Cardinality(Dropped) + 1 <= Cardinality(Dropped')
<1>1. IsFiniteSet(Dropped')
  <2>1. Dropped' \subseteq Runs /\ IsFiniteSet(Runs)
    BY RefreshAssumption DEF Dropped
  <2>2. QED
    BY <2>1, FS_Subset
<1>2. /\ IsFiniteSet(Dropped) /\ Cardinality(Dropped) <= Cardinality(Dropped')
      /\ Cardinality(Dropped) = Cardinality(Dropped') => Dropped = Dropped'
  BY <1>1, FS_Subset
<1>3. Cardinality(Dropped) \in Nat /\ Cardinality(Dropped') \in Nat
  BY <1>1, <1>2, FS_CardinalityType
<1>4. QED
  BY <1>2, <1>3

LEMMA InitLoadInv == Init => LoadInv
<1> SUFFICES ASSUME Init  PROVE LoadInv
  OBVIOUS
<1>1. PageTyped
  BY DEF Init, PortInit, PageTyped
<1>2. Cardinality(Dropped) \in Nat /\ MaxRefreshes \in Nat
  BY DroppedFinite, RefreshAssumption
<1>3. Owed
  BY <1>2 DEF Init, Owed
<1>4. QED
  BY <1>1, <1>3 DEF LoadInv

LEMMA PageTypedStep == IInv /\ LoadInv /\ [Next]_vars => PageTyped'
<1> SUFFICES ASSUME IInv, LoadInv, [Next]_vars  PROVE PageTyped'
  OBVIOUS
<1> USE DEF PageTyped, portVars, pageVars, listVars, life
<1>1. PageTyped /\ request \in [Runs -> {"none", "sent", "started", "refused", "told"}]
  BY DEF LoadInv, IInv, PageSound
<1>2. CASE ConnectionStep
  BY <1>1, <1>2 DEF ConnectionStep, PortStep, Connected, Disconnected, SubscribeToTopic, SubscribeArrives
<1>3. ASSUME NEW r \in Runs, RunScript(r) \/ RequestStep(r) \/ RunAnswerLost(r)  PROVE PageTyped'
  BY <1>1, <1>3 DEF RunScript, RequestStep, StartRun, RefuseRun, RunAnswered, RunAnswerLost
<1>4. ASSUME NEW r \in Runs, ServerStep(r)  PROVE PageTyped'
  <2>1. CASE Announce(r)
    <3>1. [topic |-> Finished, news |-> r] \in Message
      BY FinishedAssumption DEF Message
    <3>2. inbox' \subseteq Message
      BY <1>1, <2>1, <3>1 DEF Announce, Publish
    <3>3. QED
      BY <1>1, <2>1, <3>2 DEF Announce, Message
  <2>2. QED
    BY <1>1, <1>4, <2>1 DEF ServerStep
<1>5. ASSUME NEW r \in Runs, Select(r)  PROVE PageTyped'
  BY <1>1, <1>5 DEF Select
<1>6. CASE ListStep \/ RefreshButton
  BY <1>1, <1>6 DEF ListStep, ReloadIfScriptFinished, GetScriptResults, LoadAnswered, RefreshButton
<1>7. CASE UNCHANGED vars
  BY <1>1, <1>7 DEF vars
<1>8. QED
  BY <1>2, <1>3, <1>4, <1>5, <1>6, <1>7 DEF Next

LEMMA OwedStep == IInv /\ LoadInv /\ [Next]_vars => Owed'
<1> SUFFICES ASSUME IInv, LoadInv, [Next]_vars  PROVE Owed'
  OBVIOUS
<1> USE DEF portVars, pageVars, listVars, life
<1> DEFINE d == Cardinality(Dropped)
           e == Cardinality(Dropped')
<1>1. /\ asked \in Nat /\ refreshes \in 0..MaxRefreshes /\ answers \in [SUBSET Runs -> Nat]
      /\ MaxRefreshes \in Nat /\ request \in [Runs -> {"none", "sent", "started", "refused", "told"}]
  BY RefreshAssumption DEF LoadInv, Owed, IInv, PageSound
<1>2. \A s \in SUBSET Runs : asked + answers[s] <= 1 + refreshes + d
  BY DEF LoadInv, Owed
<1>3. d \in Nat
  BY DroppedFinite
<1>4. Dropped \subseteq Dropped' => e \in Nat /\ d <= e /\ (Dropped' # Dropped => d + 1 <= e)
  BY DroppedGrows
<1> HIDE DEF d, e
(* No request is made, and no run is waited for.                           *)
<1>5. ASSUME UNCHANGED <<asked, answers, refreshes>>, Dropped \subseteq Dropped'  PROVE Owed'
  <2>1. \A s \in SUBSET Runs : asked + answers[s] <= 1 + refreshes + e
    <3>1. SUFFICES ASSUME NEW s \in SUBSET Runs  PROVE asked + answers[s] <= 1 + refreshes + e
      OBVIOUS
    <3>2. answers[s] \in Nat /\ asked + answers[s] <= 1 + refreshes + d /\ refreshes \in Nat
      BY <1>1, <1>2
    <3>3. e \in Nat /\ d <= e
      BY <1>4, <1>5
    <3>4. QED
      BY <1>1, <1>3, <3>2, <3>3
  <2>2. QED
    BY <1>1, <1>5, <2>1 DEF Owed, e
<1>6. CASE ConnectionStep \/ UNCHANGED vars
  <2>1. UNCHANGED <<asked, answers, refreshes, request, pendingScripts>>
    BY <1>6 DEF ConnectionStep, vars
  <2>2. Dropped' = Dropped
    BY <2>1 DEF Dropped
  <2>3. QED
    BY <1>5, <2>1, <2>2
<1>7. ASSUME NEW r \in Runs, RunScript(r) \/ RequestStep(r) \/ RunAnswerLost(r)  PROVE Owed'
  <2>1. UNCHANGED <<asked, answers, refreshes>>
    BY <1>7 DEF RunScript, RequestStep, StartRun, RefuseRun, RunAnswered, RunAnswerLost
  <2>2. request[r] # "told" /\ \A q \in Runs : q # r => request'[q] = request[q]
    BY <1>1, <1>7 DEF RunScript, RequestStep, StartRun, RefuseRun, RunAnswered, RunAnswerLost
  <2>3. \A q \in pendingScripts' : q = r \/ q \in pendingScripts
    BY <1>7 DEF RunScript, RequestStep, StartRun, RefuseRun, RunAnswered, RunAnswerLost
  <2>4. Dropped \subseteq Dropped'
    BY <2>2, <2>3 DEF Dropped
  <2>5. QED
    BY <1>5, <2>1, <2>4
<1>8. ASSUME NEW r \in Runs, ServerStep(r) \/ Select(r)  PROVE Owed'
  <2>1. UNCHANGED <<asked, answers, refreshes, request, pendingScripts>>
    BY <1>8 DEF ServerStep, Announce, Select
  <2>2. Dropped' = Dropped
    BY <2>1 DEF Dropped
  <2>3. QED
    BY <1>5, <2>1, <2>2
<1>9. ASSUME NEW r \in Runs, ReloadIfScriptFinished(r)  PROVE Owed'
  <2>1. CASE r \notin pendingScripts
    <3>1. UNCHANGED <<asked, answers, refreshes, request, pendingScripts>>
      BY <1>9, <2>1 DEF ReloadIfScriptFinished
    <3>2. Dropped' = Dropped
      BY <3>1 DEF Dropped
    <3>3. QED
      BY <1>5, <3>1, <3>2
  <2>2. CASE r \in pendingScripts
    <3>1. /\ pendingScripts' = pendingScripts \ {r} /\ asked' = asked + 1
          /\ UNCHANGED <<answers, refreshes, request>>
      BY <1>9, <2>2 DEF ReloadIfScriptFinished, Reload
    <3>2. request[r] = "told"
      BY <2>2 DEF LoadInv, PageTyped
    <3>3. Dropped \subseteq Dropped' /\ r \in Dropped' /\ r \notin Dropped
      BY <2>2, <3>1, <3>2 DEF Dropped
    <3>4. e \in Nat /\ d + 1 <= e
      BY <1>4, <3>3
    <3>5. \A s \in SUBSET Runs : asked' + answers'[s] <= 1 + refreshes' + e
      <4>1. SUFFICES ASSUME NEW s \in SUBSET Runs
                     PROVE  asked + 1 + answers[s] <= 1 + refreshes + e
        BY <3>1
      <4>2. answers[s] \in Nat /\ asked + answers[s] <= 1 + refreshes + d /\ refreshes \in Nat
        BY <1>1, <1>2
      <4>3. QED
        BY <1>1, <1>3, <3>4, <4>2
    <3>6. QED
      BY <1>1, <3>1, <3>5 DEF Owed, e
  <2>3. QED
    BY <2>1, <2>2
<1>10. CASE RefreshButton
  <2>1. /\ asked' = asked + 1 /\ refreshes' = refreshes + 1 /\ refreshes < MaxRefreshes
        /\ UNCHANGED <<answers, request, pendingScripts>>
    BY <1>10 DEF RefreshButton, Reload
  <2>2. Dropped' = Dropped
    BY <2>1 DEF Dropped
  <2>3. \A s \in SUBSET Runs : asked' + answers'[s] <= 1 + refreshes' + d
    <3>1. SUFFICES ASSUME NEW s \in SUBSET Runs
                   PROVE  asked + 1 + answers[s] <= 1 + (refreshes + 1) + d
      BY <2>1
    <3>2. answers[s] \in Nat /\ asked + answers[s] <= 1 + refreshes + d /\ refreshes \in Nat
      BY <1>1, <1>2
    <3>3. QED
      BY <1>1, <1>3, <3>2
  <2>4. asked' \in Nat /\ refreshes' \in 0..MaxRefreshes
    BY <1>1, <2>1
  <2>5. QED
    BY <2>2, <2>3, <2>4 DEF Owed, d
<1>11. CASE GetScriptResults
  <2>1. /\ asked > 0 /\ asked' = asked - 1 /\ answers' = [answers EXCEPT ![stored] = @ + 1]
        /\ UNCHANGED <<refreshes, request, pendingScripts>>
    BY <1>11 DEF GetScriptResults
  <2>2. Dropped' = Dropped
    BY <2>1 DEF Dropped
  <2>3. \A s \in SUBSET Runs : asked' + answers'[s] <= 1 + refreshes + d
    <3>1. SUFFICES ASSUME NEW s \in SUBSET Runs
                   PROVE  asked' + answers'[s] <= 1 + refreshes + d
      OBVIOUS
    <3>2. answers[s] \in Nat /\ asked + answers[s] <= 1 + refreshes + d /\ refreshes \in Nat
      BY <1>1, <1>2
    <3>3. answers'[s] = answers[s] \/ answers'[s] = answers[s] + 1
      BY <1>1, <2>1
    <3>4. asked' = asked - 1 /\ asked > 0
      BY <2>1
    <3>5. QED
      BY <1>1, <1>3, <3>2, <3>3, <3>4
  <2>4. asked' \in Nat
    BY <1>1, <2>1
  <2>5. QED
    BY <1>1, <2>1, <2>2, <2>3, <2>4 DEF Owed, d
<1>12. ASSUME NEW v \in SUBSET Runs, LoadAnswered(v)  PROVE Owed'
  <2>1. /\ answers[v] > 0 /\ answers' = [answers EXCEPT ![v] = @ - 1]
        /\ UNCHANGED <<asked, refreshes, request, pendingScripts>>
    BY <1>12 DEF LoadAnswered
  <2>2. Dropped' = Dropped
    BY <2>1 DEF Dropped
  <2>3. \A s \in SUBSET Runs : asked + answers'[s] <= 1 + refreshes + d
    <3>1. SUFFICES ASSUME NEW s \in SUBSET Runs
                   PROVE  asked + answers'[s] <= 1 + refreshes + d
      OBVIOUS
    <3>2. answers[s] \in Nat /\ asked + answers[s] <= 1 + refreshes + d /\ refreshes \in Nat
      BY <1>1, <1>2
    <3>3. answers'[s] = answers[s] \/ answers'[s] = answers[s] - 1
      BY <1>1, <2>1
    <3>4. QED
      BY <1>1, <1>3, <3>2, <3>3
  <2>4. QED
    BY <1>1, <2>1, <2>2, <2>3 DEF Owed, d
<1>13. QED
  BY <1>6, <1>7, <1>8, <1>9, <1>10, <1>11, <1>12 DEF Next, ListStep

LEMMA LoadInvTypeOK == IInv /\ LoadInv => TypeOK
<1> SUFFICES ASSUME IInv, LoadInv  PROVE TypeOK
  OBVIOUS
<1>1. PortTypeOK
  <2>1. /\ socket \in {"connecting", "up", "down"} /\ isStompConnected \in BOOLEAN
        /\ subscriptions \subseteq Topics /\ inbox \subseteq Message
        /\ frames \in [Topics -> Nat] /\ broker \in [Topics -> Nat]
    BY DEF IInv, PortSound, LoadInv, PageTyped
  <2>2. \A t \in Topics : frames[t] \in 0..2 /\ broker[t] \in 0..2
    <3>1. SUFFICES ASSUME NEW t \in Topics  PROVE frames[t] \in 0..2 /\ broker[t] \in 0..2
      OBVIOUS
    <3>2. frames[t] \in Nat /\ broker[t] \in Nat
      BY <2>1
    <3>3. \/ frames[t] + broker[t] = 1 \/ frames[t] + broker[t] = 0
          \/ frames[t] = 0 /\ broker[t] = 0
      BY DEF IInv, PortSound, SubscribedOnce
    <3>4. QED
      BY <3>2, <3>3
  <2>3. QED
    BY <2>1, <2>2 DEF PortTypeOK
<1>2. asked \in 0..MaxLoads /\ \A s \in SUBSET Runs : answers[s] \in 0..MaxLoads
  <2>1. /\ Cardinality(Dropped) \in Nat /\ Cardinality(Runs) \in Nat
        /\ Cardinality(Dropped) <= Cardinality(Runs)
    BY DroppedFinite
  <2>2. asked \in Nat /\ refreshes \in Nat /\ refreshes <= MaxRefreshes /\ MaxRefreshes \in Nat
    BY RefreshAssumption DEF LoadInv, Owed
  <2>3. ASSUME NEW s \in SUBSET Runs  PROVE asked <= MaxLoads /\ answers[s] \in 0..MaxLoads
    <3>1. answers[s] \in Nat /\ asked + answers[s] <= 1 + refreshes + Cardinality(Dropped)
      BY DEF LoadInv, Owed, IInv, PageSound
    <3>2. QED
      BY <2>1, <2>2, <3>1 DEF MaxLoads
  <2>4. {} \in SUBSET Runs
    OBVIOUS
  <2>5. MaxLoads \in Nat
    BY <2>1, <2>2 DEF MaxLoads
  <2>6. QED
    BY <2>2, <2>3, <2>4, <2>5
<1>3. answers \in [SUBSET Runs -> 0..MaxLoads]
  BY <1>2 DEF IInv, PageSound
<1>4. /\ Life!LifeOK /\ shown \subseteq Runs /\ pendingScripts \subseteq Runs
      /\ request \in [Runs -> {"none", "sent", "started", "refused", "told"}]
  BY DEF IInv, PageSound, OnlyStoredShown, Life!LifeOK
<1>5. refreshes \in 0..MaxRefreshes /\ selected \subseteq shown
  BY DEF LoadInv, Owed, PageTyped
<1>6. QED
  BY <1>1, <1>2, <1>3, <1>4, <1>5 DEF TypeOK

(* The page never has more requests for the list of results open than it   *)
(* has started with, clicks and runs have asked for, however often a run   *)
(* is announced; no topic is subscribed to twice, and what is selected is  *)
(* shown (ScriptResultStore.reloadIfScriptFinished, ScriptResultGrid).     *)
THEOREM TypeCorrect == Spec => []TypeOK
<1>1. IInv /\ LoadInv /\ [Next]_vars => LoadInv'
  BY PageTypedStep, OwedStep DEF LoadInv
<1>2. QED
  BY <1>1, InitIInv, IInvStep, InitLoadInv, LoadInvTypeOK, PTL DEF Spec
=============================================================================
