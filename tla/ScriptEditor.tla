---------------------------- MODULE ScriptEditor ----------------------------
(***************************************************************************)
(* The scripts themselves: the page's list of them with its window for     *)
(* editing (ScriptGrid, ScriptWindow, ScriptCriteriaWindow), the requests  *)
(* that store, remove and list them, and the scanner's use of those that   *)
(* run automatically (BagService.runAutomaticScripts), which goes on while *)
(* they are edited.                                                        *)
(*                                                                         *)
(* The page is single-threaded and its requests are answered in any order. *)
(* A transaction of the server is one step, but for the scanner's, which   *)
(* lasts for the whole scan and reads with a statement at a time.          *)
(***************************************************************************)
EXTENDS Naturals, Sequences, FiniteSets, FiniteSetsExt

CONSTANTS
  Ids, NoId,   \* the ids that the database gives to scripts, and the form's 0
  Criteria,    \* sets of conditions that a script may have
  Bags,        \* kinds of bags, which the scanner comes upon again and again
  Matches,     \* the kinds that each set of conditions matches
  Initially,   \* the scripts that are there at the start
  NoScript, Asked, Failed,  \* no such script, and answers that are not scripts
  MaxWindows, MaxSaves  \* bounds on windows and clicks on Save

(* What is told apart of a script.                                         *)
Content == [runAutomatically : BOOLEAN, criteria : SUBSET Criteria]

ASSUME IdAssumption == NoId \notin Ids
ASSUME MatchAssumption == Matches \in [Criteria -> SUBSET Bags]
ASSUME AnswerAssumption == {NoScript, Asked, Failed} \cap Content = {} /\ NoScript # Asked
ASSUME SessionAssumption == \A criteria \in SUBSET Criteria : criteria \notin {NoScript, Asked}
ASSUME InitialAssumption == Initially \in [Ids -> Content \cup {NoScript}]
ASSUME BoundAssumption == MaxWindows \in Nat /\ MaxSaves \in Nat

VARIABLES
  scripts,   \* the database's scripts, by id
  given,     \* the ids that have been given
  meant,     \* the criteria that each script has been stored with
  opened,    \* how many windows the user has opened
  open,      \* whether the last of them is still open
  form,      \* what is in it: id, content, and whether the required fields are
  reply,     \* the answer to its scripts/get
  requests,  \* the requests to save: their window, id, content and stage
  deleting,  \* how far the deletion of each script is
  shown,     \* the scripts in the list
  asked,     \* whether a request for the list is under way
  answers,   \* the answers to such requests
  bag,       \* the bag it is at, if it is at one
  looking,   \* the scripts that its query has returned
  session,   \* the criteria of the scripts that the scan's session holds
  runs       \* the automatic runs: script and kind of bag

database == <<scripts, given, meant>>
editor == <<opened, open, form, reply, requests>>
grid == <<deleting, shown, asked, answers>>
scanner == <<bag, looking, session, runs>>
vars == <<database, editor, grid, scanner>>

Form == [id : Ids \cup {NoId}, script : Ids \cup {NoId}, filled : BOOLEAN, content : Content]
Request == [window : 1..MaxWindows, id : Ids \cup {NoId}, content : Content,
            stage : {"sent", "ok", "refused", "told"}]
Blank == [runAutomatically |-> FALSE, criteria |-> {}]
NoForm == [id |-> NoId, script |-> NoId, filled |-> FALSE, content |-> Blank]
Stored == {i \in Ids : scripts[i] # NoScript}

TypeOK ==
  /\ scripts \in [Ids -> Content \cup {NoScript}]
  /\ Stored \subseteq given /\ given \subseteq Ids
  /\ meant \in [Ids -> SUBSET SUBSET Criteria]
  /\ opened \in 0..MaxWindows /\ open \in BOOLEAN /\ form \in Form
  /\ reply \in Content \cup {NoScript, Asked, Failed}
  /\ ~open => reply = NoScript
  /\ requests \in Seq(Request) /\ Len(requests) <= MaxSaves
  /\ deleting \in [Ids -> {"no", "asked", "sent", "done"}]
  /\ shown \subseteq given /\ asked \in BOOLEAN /\ answers \subseteq SUBSET given
  /\ bag \subseteq Bags /\ Cardinality(bag) <= 1
  /\ looking \subseteq given
  /\ session \in [Ids -> (SUBSET Criteria) \cup {NoScript, Asked}]
  /\ runs \subseteq given \X Bags

Init ==
  /\ scripts = Initially /\ given = Stored
  /\ meant = [i \in Ids |-> IF i \in Stored THEN {scripts[i].criteria} ELSE {}]
  /\ opened = 0 /\ open = FALSE /\ reply = NoScript /\ requests = <<>>
  /\ form = NoForm
  /\ deleting = [i \in Ids |-> "no"]
  /\ shown = {} /\ asked = TRUE /\ answers = {}  \* autoLoad
  /\ bag = {} /\ looking = {} /\ runs = {}
  /\ session = [i \in Ids |-> NoScript]
-----------------------------------------------------------------------------
(* The window.                                                             *)

Open(i) ==
  /\ ~open /\ opened < MaxWindows
  /\ opened' = opened + 1 /\ open' = TRUE
  /\ form' = [NoForm EXCEPT !.script = i]
  /\ reply' = IF i = NoId THEN NoScript ELSE Asked
  /\ UNCHANGED <<database, requests, grid, scanner>>

Create == Open(NoId)
ShowScriptDetails(i) == i \in shown /\ Open(i)

GetScript ==
  /\ reply = Asked
  /\ reply' = IF scripts[form.script] = NoScript THEN Failed ELSE scripts[form.script]
  /\ UNCHANGED <<database, opened, open, form, requests, grid, scanner>>

(* The answer replaces what is in the form, whatever the user has entered. *)
FormLoaded ==
  /\ reply \notin {NoScript, Asked}
  /\ reply' = NoScript
  /\ form' = IF reply = Failed THEN form
             ELSE [form EXCEPT !.id = form.script, !.filled = TRUE, !.content = reply]
  /\ UNCHANGED <<database, opened, open, requests, grid, scanner>>

Enter(content) ==
  /\ open
  /\ form' = [form EXCEPT !.filled = TRUE, !.content = content]
  /\ UNCHANGED <<database, opened, open, reply, requests, grid, scanner>>

(* The fields, and the criteria with their own window.                     *)
EnterFields == Enter([form.content EXCEPT !.runAutomatically = ~@])
SaveCriteria(c) == Enter([form.content EXCEPT !.criteria = @ \cup {c}])
DeleteCriteria(c) == Enter([form.content EXCEPT !.criteria = @ \ {c}])

(* Mutant: the answer to scripts/get is still waited for.                  *)
LeaveReply == open' = FALSE /\ UNCHANGED reply /\ form' = NoForm

CloseWindow == open' = FALSE /\ reply' = NoScript /\ form' = NoForm

Close ==
  /\ open /\ CloseWindow
  /\ UNCHANGED <<database, opened, requests, grid, scanner>>

(* The button stays enabled while requests are under way.                  *)
Save ==
  /\ open /\ form.filled /\ Len(requests) < MaxSaves
  /\ requests' = Append(requests, [window |-> opened, id |-> form.id, content |-> form.content,
                                   stage |-> "sent"])
  /\ UNCHANGED <<database, opened, open, form, reply, grid, scanner>>

Reload == asked' = TRUE

To(k, stage) == requests' = [requests EXCEPT ![k].stage = stage]

SaveAnswered(k) ==
  /\ requests[k].stage \in {"ok", "refused"}
  /\ To(k, "told")
  /\ IF requests[k].stage = "ok"
     THEN /\ Reload
          /\ IF open /\ requests[k].window = opened THEN CloseWindow ELSE UNCHANGED <<open, form, reply>>
     ELSE UNCHANGED <<asked, open, form, reply>>
  /\ UNCHANGED <<database, opened, deleting, shown, answers, scanner>>

(* The answer is lost, and the page says that there was an error.          *)
SaveLost(k) ==
  /\ requests[k].stage = "ok"
  /\ To(k, "refused")
  /\ UNCHANGED <<database, opened, open, form, reply, grid, scanner>>
-----------------------------------------------------------------------------
(* ScriptController and ScriptService.                                     *)

Store(i, content) ==
  /\ scripts' = [scripts EXCEPT ![i] = content] /\ given' = given \cup {i}
  /\ meant' = [meant EXCEPT ![i] = @ \cup {content.criteria}]

AddScript(k, i) ==
  /\ requests[k].stage = "sent" /\ requests[k].id = NoId /\ i \in Ids \ given
  /\ Store(i, requests[k].content)
  /\ requests' = [requests EXCEPT ![k].id = i, ![k].stage = "ok"]
  /\ UNCHANGED <<opened, open, form, reply, grid, scanner>>

(* Mutant: a script that is not there is added with its old id.            *)
SaveScript(k) ==
  /\ requests[k].stage = "sent" /\ requests[k].id # NoId
  /\ Store(requests[k].id, requests[k].content) /\ To(k, "ok")
  /\ UNCHANGED <<opened, open, form, reply, grid, scanner>>

(* Mutant: the old criteria are removed in a transaction of their own.     *)
WipeFirst(k) ==
  /\ requests[k].stage = "sent" /\ requests[k].id # NoId
  /\ IF scripts[requests[k].id] = NoScript THEN UNCHANGED database /\ To(k, "refused")
     ELSE IF scripts[requests[k].id].criteria # {} /\ requests[k].content.criteria # {}
     THEN scripts' = [scripts EXCEPT ![requests[k].id].criteria = {}] /\ UNCHANGED <<given, meant, requests>>
     ELSE Store(requests[k].id, requests[k].content) /\ To(k, "ok")
  /\ UNCHANGED <<opened, open, form, reply, grid, scanner>>

(* The criteria are wiped and written anew, in one transaction.            *)
UpdateScript(k) ==
  /\ requests[k].stage = "sent" /\ requests[k].id # NoId
  /\ IF scripts[requests[k].id] = NoScript THEN UNCHANGED database /\ To(k, "refused")
     ELSE Store(requests[k].id, requests[k].content) /\ To(k, "ok")
  /\ UNCHANGED <<opened, open, form, reply, grid, scanner>>

(* The script's criteria and results go with it.                           *)
Remove(i) == scripts' = [scripts EXCEPT ![i] = NoScript] /\ UNCHANGED <<given, meant>>
-----------------------------------------------------------------------------
(* The list.                                                               *)

Stage(i, before, after) == deleting[i] = before /\ deleting' = [deleting EXCEPT ![i] = after]

DeleteButton(i) ==
  /\ i \in shown /\ \A o \in Ids : deleting[o] # "asked"  \* the dialog is modal
  /\ Stage(i, "no", "asked")
  /\ UNCHANGED <<database, editor, shown, asked, answers, scanner>>

Confirm(i) ==
  /\ Stage(i, "asked", "sent") \/ Stage(i, "asked", "no")
  /\ UNCHANGED <<database, editor, shown, asked, answers, scanner>>

(* A script that is gone makes the request fail, and nobody is told.       *)
DeleteScript(i) ==
  /\ IF i \in Stored THEN Stage(i, "sent", "done") /\ Remove(i)
                     ELSE Stage(i, "sent", "no") /\ UNCHANGED database
  /\ UNCHANGED <<editor, shown, asked, answers, scanner>>

Deleted(i) ==
  /\ Stage(i, "done", "no") /\ Reload
  /\ UNCHANGED <<database, editor, shown, answers, scanner>>

GetScripts ==
  /\ asked
  /\ asked' = FALSE /\ answers' = answers \cup {Stored}
  /\ UNCHANGED <<database, editor, deleting, shown, scanner>>

ListLoaded(s) ==
  /\ s \in answers
  /\ answers' = answers \ {s} /\ shown' = s
  /\ UNCHANGED <<database, editor, deleting, asked, scanner>>
-----------------------------------------------------------------------------
(* The scanner comes upon new bags.                                        *)

(* The first statement of the query; rows that the session holds are not   *)
(* read again.                                                             *)
GetAutomaticScripts(b) ==
  /\ bag = {} /\ bag' = {b}
  /\ looking' = {i \in Stored : scripts[i].runAutomatically}
  /\ session' = [i \in Ids |-> IF i \in looking' /\ session[i] = NoScript THEN Asked ELSE session[i]]
  /\ UNCHANGED <<database, editor, grid, runs>>

(* A statement for the criteria of each script that it has not held.       *)
LoadCriteria(i) ==
  /\ session[i] = Asked
  /\ session' = [session EXCEPT ![i] = IF i \in Stored THEN scripts[i].criteria ELSE {}]
  /\ UNCHANGED <<database, editor, grid, bag, looking, runs>>

BagMatchesCriteria(b, criteria) == criteria = {} \/ \E c \in criteria : b \in Matches[c]

(* Every script that matches is run on the bag.                            *)
RunAutomaticScripts ==
  /\ bag # {} /\ \A i \in looking : session[i] # Asked
  /\ runs' = runs \cup {r \in looking \X bag : BagMatchesCriteria(r[2], session[r[1]])}
  /\ bag' = {} /\ looking' = {}
  /\ UNCHANGED <<database, editor, grid, session>>

(* The scan ends, and its session with it.                                 *)
EndScan ==
  /\ bag = {} /\ \E i \in Ids : session[i] # NoScript
  /\ session' = [i \in Ids |-> NoScript]
  /\ UNCHANGED <<database, editor, grid, bag, looking, runs>>
-----------------------------------------------------------------------------
ServerStep(k) == UpdateScript(k) \/ \E i \in Ids : AddScript(k, i)

Click ==
  \/ Create \/ Close \/ EnterFields \/ Save
  \/ \E i \in Ids : ShowScriptDetails(i) \/ DeleteButton(i) \/ Confirm(i)
  \/ \E c \in Criteria : SaveCriteria(c) \/ DeleteCriteria(c)

Scan ==
  \/ \E b \in Bags : GetAutomaticScripts(b)
  \/ \E i \in Ids : LoadCriteria(i)
  \/ RunAutomaticScripts \/ EndScan

Next ==
  \/ Click \/ Scan \/ GetScript \/ FormLoaded \/ GetScripts
  \/ \E k \in DOMAIN requests : ServerStep(k) \/ SaveAnswered(k) \/ SaveLost(k)
  \/ \E i \in Ids : DeleteScript(i) \/ Deleted(i)
  \/ \E s \in answers : ListLoaded(s)

Spec == Init /\ [][Next]_vars
-----------------------------------------------------------------------------
(* A script runs by itself only on bags that match criteria which it has   *)
(* been stored with, or it has been removed meanwhile, though it may be    *)
(* edited while the scanner looks at it (updateScript, which wipes the     *)
(* criteria, bagMatchesCriteria, and the session of the scan).             *)
AutoRunsMatch ==
  \A run \in runs :
    \/ run[1] \notin Stored
    \/ \E criteria \in meant[run[1]] : BagMatchesCriteria(run[2], criteria)

(* A script that has been removed is not brought back by a window that is  *)
(* still open for it (updateScript).                                       *)
RemovedForGood ==
  [][\A i \in given : scripts[i] = NoScript => scripts'[i] = NoScript]_vars
=============================================================================
