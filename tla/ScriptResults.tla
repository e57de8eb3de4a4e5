--------------------------- MODULE ScriptResults ---------------------------
(***************************************************************************)
(* A run of a script as the user of the web page sees it: ScriptStore,     *)
(* which asks for the run, ScriptResultStore, which waits for the message  *)
(* that it has finished, and ScriptResultGrid, which shows the results.    *)
(* The server's part is RunLife, which ScriptService implements; messages  *)
(* come by way of the Viewport.                                            *)
(*                                                                         *)
(* The page is single-threaded.  Its requests are answered in any order.   *)
(***************************************************************************)
EXTENDS Viewport

CONSTANTS
  Runs,       \* the runs that the user may ask for
  Finished,   \* the topic /topic/script_finished
  MaxRefreshes  \* bound on the clicks on Refresh

ASSUME FinishedAssumption == Finished \in Topics /\ Runs = News
ASSUME RefreshAssumption == IsFiniteSet(Runs) /\ MaxRefreshes \in Nat

(* The list is asked for at the start, by each click and once for each run. *)
MaxLoads == 1 + MaxRefreshes + Cardinality(Runs)

VARIABLES
  started, cancelled, over, stored, announced,  \* the runs at the server: RunLife
  request,         \* how far the request for each run is
  pendingScripts,  \* the runs the store of results waits for
  refreshes,       \* how often the user has clicked on Refresh
  asked,           \* requests for the list that the server has not answered yet
  answers,         \* how many answers of each content are on their way
  shown,           \* the runs of which the grid shows a result
  selected         \* the results selected in the grid

life == <<started, cancelled, over, stored, announced>>
listVars == <<refreshes, asked, answers, shown, selected>>
pageVars == <<request, pendingScripts, listVars>>
vars == <<portVars, life, pageVars>>

Life == INSTANCE RunLife

TypeOK ==
  /\ PortTypeOK /\ Life!LifeOK
  /\ request \in [Runs -> {"none", "sent", "started", "refused", "told"}]
  /\ pendingScripts \subseteq Runs
  /\ refreshes \in 0..MaxRefreshes /\ asked \in 0..MaxLoads
  /\ answers \in [SUBSET Runs -> 0..MaxLoads]
  /\ shown \subseteq Runs /\ selected \subseteq shown

Init ==
  /\ PortInit /\ Life!LifeInit
  /\ request = [r \in Runs |-> "none"] /\ pendingScripts = {}
  /\ refreshes = 0 /\ asked = 1 /\ answers = [s \in SUBSET Runs |-> 0]  \* autoLoad
  /\ shown = {} /\ selected = {}
-----------------------------------------------------------------------------
(* Asking for a run: ScriptStore.runScript and ScriptController.runScript. *)

RunScript(r) ==
  /\ request[r] = "none"
  /\ request' = [request EXCEPT ![r] = "sent"]
  /\ UNCHANGED <<portVars, life, pendingScripts, listVars>>

StartRun(r) ==
  /\ request[r] = "sent"
  /\ Life!Start(r)
  /\ request' = [request EXCEPT ![r] = "started"]
  /\ UNCHANGED <<portVars, pendingScripts, listVars>>

(* There is no such script, or the request fails.                          *)
RefuseRun(r) ==
  /\ request[r] = "sent"
  /\ request' = [request EXCEPT ![r] = "refused"]
  /\ UNCHANGED <<portVars, life, pendingScripts, listVars>>

(* Mutant: the store is told only of runs that have not been refused, but  *)
(* the last one replaces the others.                                       *)
WaitForLast(r) ==
  /\ request[r] \in {"started", "refused"}
  /\ request' = [request EXCEPT ![r] = "told"]
  /\ pendingScripts' = IF request[r] = "started" THEN {r} ELSE pendingScripts
  /\ UNCHANGED <<portVars, life, listVars>>

(* Mutant: the page waits for a run that has been refused.                 *)
WaitAnyway(r) ==
  /\ request[r] \in {"started", "refused"}
  /\ request' = [request EXCEPT ![r] = "told"]
  /\ pendingScripts' = pendingScripts \cup {r}
  /\ UNCHANGED <<portVars, life, listVars>>

(* The response: waitForCompletion, or a message box.                      *)
RunAnswered(r) ==
  /\ request[r] \in {"started", "refused"}
  /\ request' = [request EXCEPT ![r] = "told"]
  /\ pendingScripts' = IF request[r] = "started" THEN pendingScripts \cup {r} ELSE pendingScripts
  /\ UNCHANGED <<portVars, life, listVars>>

(* The response is lost and the failure callback is called, though the run *)
(* has been started.                                                       *)
RunAnswerLost(r) ==
  /\ request[r] = "started"
  /\ request' = [request EXCEPT ![r] = "told"]
  /\ UNCHANGED <<portVars, life, pendingScripts, listVars>>
-----------------------------------------------------------------------------
(* The server goes on with the runs.                                       *)

Announce(r) ==
  /\ Life!Announce(r)
  /\ Publish(Finished, r)
  /\ UNCHANGED <<socket, isStompConnected, subscriptions, frames, broker, pageVars>>

ServerStep(r) ==
  \/ (Life!Cancel(r) \/ Life!End(r)) /\ UNCHANGED <<portVars, pageVars>>
  \/ Announce(r)
-----------------------------------------------------------------------------
(* The list of results.                                                    *)

Reload == asked' = asked + 1

ReloadIfScriptFinished(r) ==
  /\ [topic |-> Finished, news |-> r] \in inbox
  /\ inbox' = inbox \ {[topic |-> Finished, news |-> r]}
  /\ IF r \in pendingScripts THEN pendingScripts' = pendingScripts \ {r} /\ Reload
                             ELSE UNCHANGED <<pendingScripts, asked>>
  /\ UNCHANGED <<socket, isStompConnected, subscriptions, frames, broker, life,
                 request, refreshes, answers, shown, selected>>

RefreshButton ==
  /\ refreshes < MaxRefreshes
  /\ refreshes' = refreshes + 1 /\ Reload
  /\ UNCHANGED <<portVars, life, request, pendingScripts, answers, shown, selected>>

GetScriptResults ==
  /\ asked > 0
  /\ asked' = asked - 1 /\ answers' = [answers EXCEPT ![stored] = @ + 1]
  /\ UNCHANGED <<portVars, life, request, pendingScripts, refreshes, shown, selected>>

(* Mutant: what is selected stays so.                                      *)
KeepSelection(s) ==
  /\ answers[s] > 0
  /\ answers' = [answers EXCEPT ![s] = @ - 1]
  /\ shown' = s
  /\ UNCHANGED <<portVars, life, request, pendingScripts, refreshes, asked, selected>>

(* The rows of the answer replace those that are there.                    *)
LoadAnswered(s) ==
  /\ answers[s] > 0
  /\ answers' = [answers EXCEPT ![s] = @ - 1]
  /\ shown' = s
  /\ selected' = selected \cap s
  /\ UNCHANGED <<portVars, life, request, pendingScripts, refreshes, asked>>

(* The buttons and menus that show a result's text work on the selection.  *)
Select(r) ==
  /\ r \in shown \ selected
  /\ selected' = {r}
  /\ UNCHANGED <<portVars, life, request, pendingScripts, refreshes, asked, answers, shown>>
-----------------------------------------------------------------------------
RequestStep(r) == StartRun(r) \/ RefuseRun(r) \/ RunAnswered(r)

ListStep ==
  \/ \E r \in Runs : ReloadIfScriptFinished(r)
  \/ GetScriptResults
  \/ \E s \in SUBSET Runs : LoadAnswered(s)

ConnectionStep ==
  /\ PortStep \/ Disconnected \/ \E t \in Topics : SubscribeToTopic(t)
  /\ UNCHANGED <<life, pageVars>>

Next ==
  \/ ConnectionStep \/ ListStep \/ RefreshButton
  \/ \E r \in Runs : RunScript(r) \/ RequestStep(r) \/ RunAnswerLost(r) \/ ServerStep(r) \/ Select(r)

Spec == Init /\ [][Next]_vars

(* Requests get an answer, the check announces runs, and messages arrive    *)
(* while the connection is up.  Nothing is assumed of runs or users.       *)
FairSpec ==
  /\ Spec
  /\ WF_vars(PortStep /\ UNCHANGED <<life, pageVars>>)
  /\ WF_vars(GetScriptResults)
  /\ \A s \in SUBSET Runs : WF_vars(LoadAnswered(s))
  /\ \A r \in Runs : /\ WF_vars(RequestStep(r)) /\ WF_vars(ReloadIfScriptFinished(r))
                     /\ WF_vars(r \notin announced /\ Announce(r))
-----------------------------------------------------------------------------
Listening == broker[Finished] > 0

(* No result comes to the page that is not committed at the server, and    *)
(* every run the page waits for has been started there.                    *)
OnlyStoredShown ==
  /\ shown \subseteq stored /\ pendingScripts \subseteq started
  /\ \A s \in SUBSET Runs : answers[s] > 0 => s \subseteq stored

(* When the page has waited for a run before it is announced, and listens, *)
(* the result is shown in the end, unless the connection goes down         *)
(* (reloadIfScriptFinished, and the commit before the announcement).       *)
AwaitedResultShown ==
  \A r \in Runs :
    (Listening /\ r \in pendingScripts \ announced /\ r \in stored)
      ~> (r \in shown \/ socket = "down")

(* When a page that listens asks for a run and is told that it has been    *)
(* started, the result is shown once there is one (ScriptStore.js:100,     *)
(* "The Script Results panel will automatically refresh when this script   *)
(* finishes.").                                                            *)
FinishedResultShown ==
  \A r \in Runs :
    []((Listening /\ request[r] = "sent") =>
         (r \in pendingScripts \cap stored ~> (r \in shown \/ socket = "down")))
=============================================================================
