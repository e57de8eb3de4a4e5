----------------------------- MODULE BagActions -----------------------------
(***************************************************************************)
(* What a user does with selected bags: the selections of BagGrid and of   *)
(* BagTreePanel, their buttons, the context menu that they share, the      *)
(* windows and requests that these start, and the list's store with its    *)
(* search.  Both panels keep rows selected that they do not show any more  *)
(* (pruneRemoved: false), so a request may name bags that are gone.        *)
(*                                                                         *)
(* The page is single-threaded.  Its requests are answered in any order,   *)
(* but a BufferedStore drops the answer to a load when a new one starts.   *)
(***************************************************************************)
EXTENDS PanelNodes, Naturals, Sequences, FiniteSets, FiniteSetsExt

CONSTANTS
  Terms,   \* what the user may search the list for
  NoTerm,  \* what the list's store searches for at first: anything
  Found,   \* the bags that the server finds for each
  NoBag,   \* the id that a folder has for a bag
  Kinds,   \* the kinds of work that are looked at
  MaxJobs,     \* bound on the work that the user starts, and with it on what
               \* he does for that: he selects nothing after the last
  MaxSearches, \* bound on the searches
  MaxRetags    \* bound on the tags that others set or take off

ASSUME MarkerAssumption == NoBag \notin Bags
ASSUME TermAssumption == NoTerm \in Terms /\ Found \in [Terms -> SUBSET Bags]
ASSUME KindAssumption == Kinds \subseteq {"details", "tag", "map", "download", "script", "open", "link"}
ASSUME BoundAssumption == MaxJobs \in Nat /\ MaxSearches \in Nat /\ MaxRetags \in Nat

Panels == {"list", "tree"}
Jobs == 1..MaxJobs

VARIABLES
  known,      \* the bags in the database
  tagged,     \* those that have the tag that users set
  retags,     \* how often others have set or taken off the tag
  cleared,    \* observation: where others took it off after the page had set it
  terms,      \* what the list's store searches for
  load,       \* the load of the list: "no", "sent" or "answered"
  answer,     \* the rows in its answer, and those that have the tag
  list,       \* the rows of the list, and those that show the tag
  searches,   \* how often the user has searched
  selection,  \* what is selected in each panel
  menu,       \* the bags that the context menu is for, if it is open
  menuOpen,
  jobs        \* the work that the user has started

Rows == [bags : SUBSET Bags, tagged : SUBSET Bags]
NoRows == [bags |-> {}, tagged |-> {}]
server == <<known, tagged, retags, cleared>>
store == <<terms, load, answer, list, searches>>
panel == <<selection, menu, menuOpen>>
vars == <<server, store, panel, jobs>>

(* done are the bags of a job that have been worked on.                    *)
Stages == {"window", "sent", "served", "failed", "ok", "error"}
Job == [kind : Kinds, bags : SUBSET (Bags \cup {NoBag}), done : SUBSET Bags, stage : Stages]

TypeOK ==
  /\ known \subseteq Bags /\ tagged \subseteq known
  /\ retags \in 0..MaxRetags /\ cleared \subseteq known
  /\ terms \in Terms /\ load \in {"no", "sent", "answered"}
  /\ answer \in Rows /\ list \in Rows /\ list.tagged \subseteq list.bags
  /\ searches \in 0..MaxSearches
  /\ selection \in [Panels -> SUBSET Nodes] /\ menu \subseteq Bags /\ menuOpen \in BOOLEAN
  /\ jobs \in Seq(Job) /\ Len(jobs) <= MaxJobs
  /\ \A j \in DOMAIN jobs : jobs[j].done \subseteq jobs[j].bags

Init ==
  /\ known = Bags /\ tagged = {} /\ retags = 0 /\ cleared = {}
  /\ terms = NoTerm /\ load = "sent" /\ answer = NoRows /\ list = NoRows  \* autoLoad
  /\ searches = 0
  /\ selection = [p \in Panels |-> {}] /\ menu = {} /\ menuOpen = FALSE
  /\ jobs = <<>>
-----------------------------------------------------------------------------
(* The list: SearchPanel, BagStore.filterBags, and BagController.search.   *)

FilterBags(t) ==
  /\ ~menuOpen /\ searches < MaxSearches
  /\ terms' = t /\ load' = "sent" /\ answer' = NoRows /\ searches' = searches + 1
  /\ UNCHANGED <<server, list, panel, jobs>>

SearchBags ==
  /\ load = "sent"
  /\ load' = "answered"
  /\ answer' = [bags |-> Found[terms] \cap known, tagged |-> Found[terms] \cap tagged]
  /\ UNCHANGED <<server, terms, list, searches, panel, jobs>>

ListLoaded ==
  /\ load = "answered"
  /\ load' = "no" /\ list' = answer /\ answer' = NoRows
  /\ UNCHANGED <<server, terms, searches, panel, jobs>>

BagRemoved(b) ==
  /\ b \in known
  /\ known' = known \ {b} /\ tagged' = tagged \ {b} /\ cleared' = cleared \ {b}
  /\ UNCHANGED <<retags, store, panel, jobs>>

(* Another page, another user or a script sets the tag or takes it off; so *)
(* does the server for a request that the page has given up.               *)
TagChanged(b) ==
  /\ b \in known /\ retags < MaxRetags
  /\ retags' = retags + 1
  /\ tagged' = SymDiff(tagged, {b})
  /\ cleared' = IF b \in tagged THEN cleared \cup {b} ELSE cleared
  /\ UNCHANGED <<known, store, panel, jobs>>
-----------------------------------------------------------------------------
(* Selecting, and what is done with the selection.                         *)

(* The tree shows what it has loaded when the page was opened.             *)
ShownIn(p) == IF p = "list" THEN list.bags ELSE Nodes

(* The list is masked while it loads.                                      *)
Masked(p) == p = "list" /\ load # "no"

CanStart == Len(jobs) < MaxJobs

(* A click, or one with the control key; what is not shown stays selected. *)
Select(p, n) ==
  /\ CanStart /\ ~Masked(p) /\ ~menuOpen /\ n \in ShownIn(p)
  /\ \/ selection' = [selection EXCEPT ![p] = {n}]
     \/ selection' = [selection EXCEPT ![p] = SymDiff(@, {n})]
  /\ UNCHANGED <<server, store, menu, menuOpen, jobs>>

GetBagRecords(nodes) == nodes \cap Bags

(* Work begins; a tag is set in a window, where Set has to be clicked.     *)
Start(kind, bags) ==
  /\ kind \in Kinds /\ CanStart
  /\ jobs' = Append(jobs, [kind |-> kind, bags |-> bags, done |-> {},
                           stage |-> CASE kind = "tag" -> "window"
                                       [] kind \in {"script", "open", "link"} -> "ok"
                                       [] OTHER -> "sent"])
  /\ UNCHANGED <<server, store, selection>>

(* Info is enabled for one bag.                                            *)
InfoButton(p, ids) ==
  /\ ~Masked(p) /\ ~menuOpen
  /\ Cardinality(GetBagRecords(selection[p])) = 1
  /\ \E id \in ids : Start("details", {id})
  /\ UNCHANGED <<menu, menuOpen>>

ListInfoButton == InfoButton("list", selection["list"])

(* The tree's opens what is selected first, which may be a folder.         *)
TreeInfoButton ==
  InfoButton("tree", {IF n \in Bags THEN n ELSE NoBag : n \in selection["tree"]})

HeaderButton(p, kind) ==
  /\ ~Masked(p) /\ ~menuOpen /\ kind # "details"
  /\ GetBagRecords(selection[p]) # {}
  /\ Start(kind, GetBagRecords(selection[p]))
  /\ UNCHANGED <<menu, menuOpen>>

ListButton(kind) == HeaderButton("list", kind)
TreeButton(kind) == HeaderButton("tree", kind)

(* The context menu is for what is selected when it opens, be it nothing.  *)
CreateBagContextMenu(p) ==
  /\ CanStart /\ ~Masked(p) /\ ~menuOpen /\ selection[p] # {}
  /\ menu' = GetBagRecords(selection[p]) /\ menuOpen' = TRUE
  /\ UNCHANGED <<server, store, selection, jobs>>

CloseMenu == menuOpen /\ menu' = {} /\ menuOpen' = FALSE

MenuItem(kind) ==
  /\ kind = "details" => Cardinality(menu) = 1
  /\ CloseMenu
  /\ Start(kind, menu)

LeaveMenu == CloseMenu /\ UNCHANGED <<server, store, selection, jobs>>
-----------------------------------------------------------------------------
(* The work.                                                               *)

To(j, stage, done) == jobs' = [jobs EXCEPT ![j].stage = stage, ![j].done = done]

(* The details and the routes on the map are read in one step.  There are  *)
(* no details of a bag that is gone, and no route for no bags; a bag that  *)
(* is gone adds nothing to the route of others.  Any request may fail.     *)
Read(j) ==
  /\ jobs[j].kind \in {"details", "map"} /\ jobs[j].stage = "sent"
  /\ \/ jobs[j].kind = "details" /\ jobs[j].bags \subseteq known /\ To(j, "served", {})
     \/ jobs[j].kind = "map" /\ jobs[j].bags # {} /\ To(j, "served", {})
     \/ To(j, "failed", {})
  /\ UNCHANGED <<server, store, panel>>

(* The window shows what has come, or a message.                           *)
ReadAnswered(j) ==
  /\ jobs[j].kind \in {"details", "map"} /\ jobs[j].stage \in {"served", "failed"}
  /\ To(j, IF jobs[j].stage = "served" THEN "ok" ELSE "error", {})
  /\ UNCHANGED <<server, store, panel>>

Remaining(j) == jobs[j].bags \ jobs[j].done

(* Mutant: the next download waits until there is something to download.   *)
DownloadIfKnown(j) ==
  /\ jobs[j].kind = "download" /\ jobs[j].stage = "sent"
  /\ \/ Remaining(j) = {} /\ To(j, "ok", jobs[j].done)
     \/ \E b \in Remaining(j) \cap known : To(j, "sent", jobs[j].done \cup {b})
  /\ UNCHANGED <<server, store, panel>>

(* One file after the other, whatever has come of those before.            *)
DownloadNext(j) ==
  /\ jobs[j].kind = "download" /\ jobs[j].stage = "sent"
  /\ \/ Remaining(j) = {} /\ To(j, "ok", jobs[j].done)
     \/ \E b \in Remaining(j) : To(j, "sent", jobs[j].done \cup {b})
  /\ UNCHANGED <<server, store, panel>>

(* The Set button, which can be clicked again after an error.              *)
SubmitTag(j) ==
  /\ jobs[j].kind = "tag" /\ jobs[j].stage \in {"window", "error"}
  /\ To(j, "sent", {})
  /\ UNCHANGED <<server, store, panel>>

TagBag(j, b) ==
  /\ To(j, "sent", jobs[j].done \cup {b})
  /\ tagged' = tagged \cup {b} /\ cleared' = cleared \ {b}

(* Mutant: the request ends with the first bag that is there.              *)
PassOver(j) ==
  /\ jobs[j].kind = "tag" /\ jobs[j].stage = "sent"
  /\ \/ /\ Remaining(j) = {} \/ jobs[j].done # {}
        /\ To(j, "served", jobs[j].done) /\ UNCHANGED <<tagged, cleared>>
     \/ \E b \in Remaining(j) \cap known : TagBag(j, b)
     \/ Remaining(j) # {} /\ To(j, "failed", jobs[j].done) /\ UNCHANGED <<tagged, cleared>>
  /\ UNCHANGED <<known, retags, store, panel>>

(* Mutant: a bag that is not there is not noticed.                         *)
TagUnknown(j) ==
  /\ jobs[j].kind = "tag" /\ jobs[j].stage = "sent"
  /\ \/ Remaining(j) = {} /\ To(j, "served", jobs[j].done) /\ UNCHANGED <<tagged, cleared>>
     \/ \E b \in Remaining(j) : TagBag(j, b)
     \/ Remaining(j) # {} /\ To(j, "failed", jobs[j].done) /\ UNCHANGED <<tagged, cleared>>
  /\ UNCHANGED <<known, retags, store, panel>>

(* A transaction for each bag.  The first that fails ends the request: a   *)
(* bag that is not there, a value that is too long, the same tag inserted  *)
(* by somebody else in the same moment, or any error of the database.      *)
SetTagForBag(j) ==
  /\ jobs[j].kind = "tag" /\ jobs[j].stage = "sent"
  /\ \/ Remaining(j) = {} /\ To(j, "served", jobs[j].done) /\ UNCHANGED <<tagged, cleared>>
     \/ \E b \in Remaining(j) \cap known : TagBag(j, b)
     \/ Remaining(j) # {} /\ To(j, "failed", jobs[j].done) /\ UNCHANGED <<tagged, cleared>>
  /\ UNCHANGED <<known, retags, store, panel>>

(* Mutant: the stores are not loaded again.                                *)
CloseTagWindow(j) ==
  /\ jobs[j].kind = "tag" /\ jobs[j].stage \in {"served", "failed"}
  /\ To(j, IF jobs[j].stage = "served" THEN "ok" ELSE "error", jobs[j].done)
  /\ UNCHANGED <<server, store, panel>>

(* On success the window closes and the stores load again, the list what   *)
(* it was searched for last.                                               *)
TagAnswered(j) ==
  /\ jobs[j].kind = "tag" /\ jobs[j].stage \in {"served", "failed"}
  /\ IF jobs[j].stage = "served"
     THEN To(j, "ok", jobs[j].done) /\ load' = "sent" /\ answer' = NoRows
     ELSE To(j, "error", jobs[j].done) /\ UNCHANGED <<load, answer>>
  /\ UNCHANGED <<server, terms, list, searches, panel>>

(* No answer comes, or not in time: the window says that there was an      *)
(* error, whatever the server has done or still does.                      *)
TagLost(j) ==
  /\ jobs[j].kind = "tag" /\ jobs[j].stage \in {"sent", "served", "failed"}
  /\ To(j, "error", jobs[j].done)
  /\ UNCHANGED <<server, store, panel>>
-----------------------------------------------------------------------------
Work(j) == Read(j) \/ ReadAnswered(j) \/ DownloadNext(j) \/ SetTagForBag(j) \/ TagAnswered(j)

Click ==
  \/ \E p \in Panels : CreateBagContextMenu(p) \/ \E n \in Nodes : Select(p, n)
  \/ ListInfoButton \/ TreeInfoButton
  \/ \E kind \in Kinds : ListButton(kind) \/ TreeButton(kind) \/ MenuItem(kind)
  \/ LeaveMenu
  \/ \E t \in Terms : FilterBags(t)
  \/ \E j \in DOMAIN jobs : SubmitTag(j)

Next ==
  \/ Click \/ SearchBags \/ ListLoaded
  \/ \E b \in Bags : BagRemoved(b) \/ TagChanged(b)
  \/ \E j \in DOMAIN jobs : Work(j) \/ TagLost(j)

Spec == Init /\ [][Next]_vars

(* Requests are served and answered, and the page's timer goes on.         *)
FairSpec ==
  /\ Spec /\ WF_vars(SearchBags) /\ WF_vars(ListLoaded)
  /\ \A j \in Jobs : WF_vars(j \in DOMAIN jobs /\ Work(j))
-----------------------------------------------------------------------------
BagsOf(j) == IF j \in DOMAIN jobs THEN jobs[j].bags ELSE {}

(* When the window says that a tag is set, every bag it was opened for has *)
(* the tag, or is gone, or somebody else has taken it off again.  When it  *)
(* says that there was an error, for whatever reason, nothing is undone:   *)
(* the same holds for the bags that were done before (setTagForBags, which *)
(* changes bag after bag, each in a transaction, and SetTagWindow).        *)
TaggedAsTold ==
  \A j \in DOMAIN jobs : jobs[j].kind = "tag" =>
    /\ jobs[j].stage = "ok" => BagsOf(j) \cap known \subseteq tagged \cup cleared
    /\ jobs[j].stage = "error" => jobs[j].done \cap known \subseteq tagged \cup cleared

(* When a tag has been set, the list comes to show it on every row it has  *)
(* for a bag of the window, unless the answer is lost or somebody else     *)
(* takes the tag off (targetStores, and the load that is dropped).         *)
TagsComeToShow ==
  \A j \in Jobs :
    (j \in DOMAIN jobs /\ jobs[j].kind = "tag" /\ jobs[j].stage = "served") ~>
      \/ load = "no" /\ BagsOf(j) \cap list.bags \cap known \subseteq list.tagged
      \/ j \in DOMAIN jobs /\ jobs[j].stage = "error"
      \/ BagsOf(j) \cap cleared # {}

(* Every file of a download of several bags is asked for, though some may  *)
(* be gone (download_next).                                                *)
DownloadsGoOn ==
  \A j \in Jobs :
    (j \in DOMAIN jobs /\ jobs[j].kind = "download") ~>
      (j \in DOMAIN jobs /\ jobs[j].done = jobs[j].bags)
=============================================================================
