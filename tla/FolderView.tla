----------------------------- MODULE FolderView -----------------------------
(***************************************************************************)
(* The folder view of the page: BagTreePanel and its BagTreeStore, which   *)
(* asks the server for the contents of one folder at a time,               *)
(* BagTreeFilterPanel, which filters the nodes the store has, and the      *)
(* counts of matching bags per folder, which come from the server.         *)
(*                                                                         *)
(* The page is single-threaded.  Its requests are answered in any order.   *)
(***************************************************************************)
EXTENDS PanelNodes, Integers, FiniteSets, FiniteSetsExt

CONSTANTS
  Root,
  Parent,      \* the folder that each folder or bag is in
  Texts,       \* what the user may type into the field
  NoText,      \* the empty text
  Shown,       \* the bags whose name the page finds to match each text
  Counted,     \* the bags whose name the server finds to match each text
  MaxClicks,   \* bound on the clicks that send something
  MaxChanges   \* bound on the changes of the index

ASSUME TreeAssumption ==
  /\ Root \notin Nodes /\ IsFiniteSet(Bags)
  /\ Parent \in [Nodes -> Folders \cup {Root}]
ASSUME TextAssumption ==
  /\ NoText \in Texts /\ Shown \in [Texts -> SUBSET Bags] /\ Counted \in [Texts -> SUBSET Bags]
  /\ Shown[NoText] = Bags
ASSUME ClickAssumption == MaxClicks \in Nat /\ MaxChanges \in Nat

Places == Folders \cup {Root}

VARIABLES
  index,    \* the bags that the server knows
  changes,  \* how often it has changed
  clicks,   \* clicks so far
  text,     \* what the field says
  filtered, \* whether the store has a filter
  filter,   \* the text in the store's filter
  tree,     \* the nodes in the store
  visible,  \* those that the filter leaves visible
  loaded,   \* the folders whose contents the store has or is loading
  fetches,  \* requests for the contents of a folder, and their answers
  filteredBagCount,  \* what each folder's node says; a node starts with 0
  asked,    \* how many requests for the counts of each text are on their way
  answers,  \* how many answers, by the text and the index they come from
  failed    \* whether a request for counts has failed: an observation

treeServer == <<index, changes>>
field == <<clicks, text>>
treeStore == <<filtered, filter, tree, visible, loaded, fetches>>
counts == <<filteredBagCount, asked, answers, failed>>
treeVars == <<treeServer, field, treeStore, counts>>

Fetch == [of : Places, stray : BOOLEAN, answered : BOOLEAN, rows : SUBSET Nodes]
MaxAsked == 2 * MaxClicks + 1  \* a search asks twice, and so does the load at the start

TreeTypeOK ==
  /\ index \subseteq Bags /\ changes \in 0..MaxChanges /\ clicks \in 0..MaxClicks
  /\ text \in Texts /\ filter \in Texts /\ filtered \in BOOLEAN
  /\ tree \subseteq Nodes /\ visible \subseteq tree /\ loaded \subseteq Places
  /\ fetches \subseteq Fetch
  /\ filteredBagCount \in [Folders -> -1..Cardinality(Bags)]
  /\ asked \in [Texts -> 0..MaxAsked] /\ answers \in [Texts \X SUBSET Bags -> 0..MaxAsked]
  /\ failed \in BOOLEAN

InFolder(f) == {n \in Nodes : Parent[n] = f}
Request(f) == [of |-> f, stray |-> FALSE, answered |-> FALSE, rows |-> {}]

TreeInit ==
  /\ index \in SUBSET Bags /\ changes = 0 /\ clicks = 0
  /\ text \in Texts  \* the field keeps its text from the last visit: stateful
  /\ filtered = FALSE /\ filter = NoText
  /\ tree = {} /\ visible = {} /\ loaded = {Root} /\ fetches = {Request(Root)}
  /\ filteredBagCount = [f \in Folders |-> 0]
  /\ asked = [t \in Texts |-> 0] /\ answers = [a \in Texts \X SUBSET Bags |-> 0]
  /\ failed = FALSE
-----------------------------------------------------------------------------
(* The server: getTreePath and checkFilteredBagCounts.                     *)

(* The bags below a folder.                                                *)
Under(f) ==
  LET above[n \in Nodes] == {Parent[n]} \cup IF Parent[n] = Root THEN {} ELSE above[Parent[n]]
  IN  {b \in Bags : f \in above[b]}

(* Bag.countBagPaths: only for paths that some bag is in.                  *)
CountBagPaths(t, known) ==
  LET paths == {f \in Folders : \E b \in known : Parent[b] = f}
  IN  [f \in paths |-> Cardinality(Counted[t] \cap known \cap Under(f))]

GetTreeNodes(r) ==
  /\ ~r.answered
  /\ fetches' = (fetches \ {r}) \cup
       {[r EXCEPT !.answered = TRUE, !.rows = InFolder(r.of) \cap (Folders \cup index)]}
  /\ UNCHANGED <<treeServer, field, filtered, filter, tree, visible, loaded, counts>>

CheckFilteredBagCounts(t) ==
  /\ asked[t] > 0
  /\ asked' = [asked EXCEPT ![t] = @ - 1]
  /\ answers' = [answers EXCEPT ![<<t, index>>] = @ + 1]
  /\ UNCHANGED <<treeServer, field, treeStore, filteredBagCount, failed>>

(* The scanner finds a bag or an administrator removes one.                *)
IndexChanges ==
  /\ changes < MaxChanges
  /\ \E b \in Bags : index' = IF b \in index THEN index \ {b} ELSE index \cup {b}
  /\ changes' = changes + 1
  /\ UNCHANGED <<field, treeStore, counts>>
-----------------------------------------------------------------------------
(* BagTreePanel.updateFilteredBagCounts, called n times for a new tree.    *)

UpdateFilteredBagCounts(n, fresh) ==
  /\ filteredBagCount' =
       [f \in Folders |-> IF text = NoText /\ f \in tree' THEN -1
                          ELSE IF f \in fresh THEN 0 ELSE filteredBagCount[f]]
  /\ asked' = IF text = NoText THEN asked ELSE [asked EXCEPT ![text] = @ + n]
  /\ UNCHANGED <<answers, failed>>

(* Mutant: a count that is shown is not replaced.                          *)
CountsKept(t, known) ==
  /\ answers[<<t, known>>] > 0
  /\ answers' = [answers EXCEPT ![<<t, known>>] = @ - 1]
  /\ LET new == CountBagPaths(t, known)
     IN  filteredBagCount' = [f \in Folders |->
           IF f \in DOMAIN new \cap tree /\ filteredBagCount[f] = -1 THEN new[f] ELSE filteredBagCount[f]]
  /\ UNCHANGED <<treeServer, field, treeStore, asked, failed>>

(* The callback, which does not look whether the text is still the same.   *)
CountsAnswered(t, known) ==
  /\ answers[<<t, known>>] > 0
  /\ answers' = [answers EXCEPT ![<<t, known>>] = @ - 1]
  /\ LET new == CountBagPaths(t, known)
     IN  filteredBagCount' = [f \in Folders |->
           IF f \in DOMAIN new \cap tree THEN new[f] ELSE filteredBagCount[f]]
  /\ UNCHANGED <<treeServer, field, treeStore, asked, failed>>

(* Ext.decode throws on what comes instead of an answer.                   *)
CountsFail(t) ==
  /\ asked[t] > 0
  /\ asked' = [asked EXCEPT ![t] = @ - 1]
  /\ failed' = TRUE
  /\ UNCHANGED <<treeServer, field, treeStore, filteredBagCount, answers>>
-----------------------------------------------------------------------------
(* The store: BagTreeStore.filterNodes, from the leaves up.                *)

(* Mutant: folders are filtered by their names, which match nothing.       *)
FilterLeaves(nodes, t) ==
  LET matches(n) == n \in Shown[t]
      visibleNode[n \in Nodes] ==
        (\E c \in nodes \cap InFolder(n) : visibleNode[c]) \/ matches(n)
  IN  {n \in nodes : visibleNode[n]}

FilterNodes(nodes, t) ==
  LET matches(n) == n \in Folders \/ n \in Shown[t]
      visibleNode[n \in Nodes] ==
        (\E c \in nodes \cap InFolder(n) : visibleNode[c]) \/ matches(n)
  IN  {n \in nodes : visibleNode[n]}

Search ==
  /\ clicks < MaxClicks
  /\ clicks' = clicks + 1
  /\ filtered' = TRUE /\ filter' = text
  /\ visible' = FilterNodes(tree, text)
  /\ UNCHANGED <<tree, loaded, fetches, treeServer, text>>
  \* clearFilter and filter both fire filterchange, if there was a filter
  /\ UpdateFilteredBagCounts(IF filtered THEN 2 ELSE 1, {})

Type(t) ==
  /\ t # text
  /\ text' = t
  /\ UNCHANGED <<treeServer, clicks, treeStore, counts>>

(* Mutant: nodes that have been replaced stay in view.                     *)
FillOver(nodes) == tree' = nodes /\ visible' = FilterNodes(tree \cup nodes, filter)

Fill(nodes) == tree' = nodes /\ visible' = FilterNodes(nodes, filter)

(* The user expands a folder for the first time.                           *)
Expand(f) ==
  /\ clicks < MaxClicks
  /\ f \in Folders \cap visible /\ f \notin loaded
  /\ clicks' = clicks + 1
  /\ loaded' = loaded \cup {f} /\ fetches' = fetches \cup {Request(f)}
  /\ UNCHANGED <<treeServer, text, filtered, filter, tree, visible, counts>>

Refresh ==
  /\ clicks < MaxClicks
  /\ \A r \in fetches : r.of # Root
  /\ clicks' = clicks + 1
  /\ fetches' = fetches \cup {Request(Root)}
  /\ UNCHANGED <<treeServer, text, filtered, filter, tree, visible, loaded, counts>>

(* New nodes replace those below the root; what is still on its way for    *)
(* the nodes that were there goes astray.                                  *)
RootLoaded(r) ==
  /\ r.of = Root /\ r.answered
  /\ Fill(r.rows)
  /\ loaded' = {Root}
  /\ fetches' = {[q EXCEPT !.stray = TRUE] : q \in fetches \ {r}}
  /\ UpdateFilteredBagCounts(1, r.rows)
  /\ UNCHANGED <<treeServer, field, filtered, filter>>

FolderLoaded(r) ==
  /\ r.of # Root /\ r.answered
  /\ IF r.stray THEN UNCHANGED <<tree, visible>> ELSE Fill(tree \cup r.rows)
  /\ fetches' = fetches \ {r}
  /\ UpdateFilteredBagCounts(1, IF r.stray THEN {} ELSE r.rows)
  /\ UNCHANGED <<treeServer, field, filtered, filter, loaded>>

(* No answer comes, or not what was asked for: the store says that it has  *)
(* loaded, with nothing new, and the folder can be expanded again.         *)
LoadFails(r) ==
  /\ fetches' = fetches \ {r}
  /\ loaded' = IF r.stray THEN loaded ELSE (loaded \ {r.of}) \cup {Root}
  /\ UNCHANGED <<treeServer, field, filtered, filter, tree, visible>>
  /\ UpdateFilteredBagCounts(1, {})
-----------------------------------------------------------------------------
Fetched == \E r \in fetches : GetTreeNodes(r) \/ RootLoaded(r) \/ FolderLoaded(r)
User == Search \/ Refresh \/ (\E t \in Texts : Type(t)) \/ (\E f \in Folders : Expand(f))

TreeNext ==
  \/ User \/ Fetched \/ IndexChanges
  \/ \E r \in fetches : LoadFails(r)
  \/ \E t \in Texts : CheckFilteredBagCounts(t) \/ CountsFail(t)
  \/ \E t \in Texts, known \in SUBSET Bags : CountsAnswered(t, known)

TreeSpec == TreeInit /\ [][TreeNext]_treeVars

(* The server answers each request, and the page takes the answers.        *)
FairTreeSpec ==
  /\ TreeSpec /\ WF_treeVars(Fetched)
  /\ \A t \in Texts :
       /\ WF_treeVars(CheckFilteredBagCounts(t))
       /\ \A known \in SUBSET Bags : WF_treeVars(CountsAnswered(t, known))
-----------------------------------------------------------------------------
Waiting(t) == asked[t] > 0 \/ \E known \in SUBSET Bags : answers[<<t, known>>] > 0

(* No answer on its way is for another text than the field's, or outdated, *)
(* and no nodes are on their way.                                          *)
Calm ==
  /\ fetches = {}
  /\ \A t \in Texts, known \in SUBSET Bags : answers[<<t, known>>] > 0 => t = text /\ known = index
  /\ \A t \in Texts : asked[t] > 0 => t = text

CountsRight ==
  LET new == CountBagPaths(text, index)
  IN  \A f \in DOMAIN new \cap tree : filteredBagCount[f] = new[f]

(* The tree shows each folder that it has, so that every visible node can  *)
(* be reached, and exactly the bags whose names match the filter, whatever *)
(* has been loaded before or after the search (filterNodes).               *)
FilterShowsMatches ==
  /\ visible = {n \in tree : n \in Folders \/ n \in Shown[filter]}
  /\ \A n \in visible : Parent[n] \in visible \cup {Root}

(* When counts have been asked for, and only for the text in the field,    *)
(* the folders that hold bags come to show how many below them match,      *)
(* unless the user types or loads on, the index changes after the server   *)
(* has counted, or a request fails (updateFilteredBagCounts).              *)
CountsSettle ==
  \A t \in Texts : (Calm /\ text = t /\ Waiting(t)) ~> (CountsRight \/ ~Calm \/ failed)
=============================================================================
