-------------------------- MODULE BagPanelsProofs --------------------------
(***************************************************************************)
(* Proofs about the two panels that show bags.                             *)
(*                                                                         *)
(* About BagActions, for any bags, folders, searches and bounds: the       *)
(* window that sets a tag never says more than what has been done,         *)
(* whatever fails, whatever bags are removed, whatever tags others set or  *)
(* take off, and whatever else the user starts meanwhile.                  *)
(*                                                                         *)
(* About FolderView, for any tree, texts and bounds: the filter shows      *)
(* exactly what it should, whatever is loaded before or after a search.    *)
(***************************************************************************)
EXTENDS BagActions, FolderView, FiniteSetTheorems, TLAPS
-----------------------------------------------------------------------------
(* What the stage of a piece of work says of the database.  The other      *)
(* kinds of work than showing details are done for bags only.              *)
Sound(job) ==
  /\ job.kind # "details" => job.bags \subseteq Bags
  /\ job.kind = "tag" =>
       /\ job.done \cap known \subseteq tagged \cup cleared
       /\ job.stage \in {"served", "ok"} => job.done = job.bags

(* The list has no folders, and an answer marks no row that it has not.    *)
ListSound == selection["list"] \subseteq Bags /\ answer.tagged \subseteq answer.bags

IInv == TypeOK /\ ListSound /\ \A j \in DOMAIN jobs : Sound(jobs[j])

LEMMA JobTyped ==
  ASSUME TypeOK, NEW j \in DOMAIN jobs
  PROVE  /\ j \in Nat \ {0} /\ jobs[j] \in Job /\ jobs[j].kind \in Kinds
         /\ jobs[j].bags \subseteq Bags \cup {NoBag} /\ jobs[j].done \subseteq Bags
         /\ jobs[j].done \subseteq jobs[j].bags /\ jobs[j].stage \in Stages
<1>1. j \in 1..Len(jobs) /\ jobs[j] \in Job /\ jobs[j].done \subseteq jobs[j].bags
  BY DEF TypeOK
<1>2. QED
  BY <1>1 DEF Job

(* Work goes on: nothing else of the list of jobs changes.                 *)
LEMMA ToJob ==
  ASSUME TypeOK, NEW j \in DOMAIN jobs, NEW stage \in Stages, NEW done \in SUBSET Bags,
         done \subseteq jobs[j].bags, To(j, stage, done)
  PROVE  /\ jobs' \in Seq(Job) /\ Len(jobs') = Len(jobs) /\ DOMAIN jobs' = DOMAIN jobs
         /\ \A i \in DOMAIN jobs : jobs'[i].done \subseteq jobs'[i].bags
         /\ \A i \in DOMAIN jobs \ {j} : jobs'[i] = jobs[i]
         /\ jobs'[j].kind = jobs[j].kind /\ jobs'[j].bags = jobs[j].bags
         /\ jobs'[j].stage = stage /\ jobs'[j].done = done
<1> DEFINE job == [jobs[j] EXCEPT !.stage = stage, !.done = done]
<1>1. /\ job \in Job /\ job.kind = jobs[j].kind /\ job.bags = jobs[j].bags
      /\ job.stage = stage /\ job.done = done
  BY JobTyped DEF Job
<1>2. jobs' = [jobs EXCEPT ![j] = job]
  BY JobTyped DEF To, TypeOK, Job
<1> HIDE DEF job
<1>3. QED
  BY <1>1, <1>2 DEF TypeOK

LEMMA InitIInv == Init => IInv
<1> SUFFICES ASSUME Init  PROVE IInv
  OBVIOUS
<1>1. jobs \in Seq(Job) /\ Len(jobs) = 0 /\ DOMAIN jobs = {}
  BY DEF Init
<1>2. NoRows \in Rows /\ NoRows.bags = {} /\ NoRows.tagged = {}
  BY DEF NoRows, Rows
<1>3. TypeOK /\ ListSound
  <2>1. selection \in [Panels -> SUBSET Nodes] /\ selection["list"] = {}
    BY DEF Init, Panels
  <2>2. searches \in 0..MaxSearches /\ retags \in 0..MaxRetags /\ Len(jobs) <= MaxJobs
    BY <1>1, BoundAssumption DEF Init
  <2>3. QED
    BY <1>1, <1>2, <2>1, <2>2, TermAssumption DEF Init, TypeOK, ListSound
<1>4. QED
  BY <1>1, <1>3 DEF IInv

(* The list, the selections and the menu.                                  *)
LEMMA PanelStep ==
  ASSUME IInv,
         \/ SearchBags \/ ListLoaded \/ LeaveMenu
         \/ \E t \in Terms : FilterBags(t)
         \/ \E p \in Panels : CreateBagContextMenu(p) \/ \E n \in Nodes : Select(p, n)
  PROVE  IInv'
<1> USE DEF IInv, TypeOK, ListSound
<1>1. UNCHANGED <<server, jobs>> /\ \A j \in DOMAIN jobs : Sound(jobs[j])'
  BY DEF SearchBags, ListLoaded, LeaveMenu, FilterBags, CreateBagContextMenu, Select, Sound, server
<1>2. CASE SearchBags
  <2>1. Found[terms] \cap known \subseteq Bags /\ Found[terms] \cap tagged \subseteq Bags
    OBVIOUS
  <2>2. answer' \in Rows /\ answer'.tagged \subseteq answer'.bags
    BY <1>2, <2>1 DEF SearchBags, Rows
  <2>3. QED
    BY <1>1, <1>2, <2>2 DEF SearchBags, server, panel
<1>3. CASE ListLoaded
  <2>1. NoRows \in Rows /\ NoRows.tagged \subseteq NoRows.bags
    BY DEF NoRows, Rows
  <2>2. QED
    BY <1>1, <1>3, <2>1 DEF ListLoaded, server, panel
<1>4. CASE LeaveMenu
  BY <1>1, <1>4 DEF LeaveMenu, CloseMenu, server, store
<1>5. ASSUME NEW t \in Terms, FilterBags(t)  PROVE IInv'
  <2>1. NoRows \in Rows /\ NoRows.tagged \subseteq NoRows.bags
    BY DEF NoRows, Rows
  <2>2. searches' \in 0..MaxSearches
    BY <1>5, BoundAssumption DEF FilterBags
  <2>3. QED
    BY <1>1, <1>5, <2>1, <2>2 DEF FilterBags, server, panel
<1>6. ASSUME NEW p \in Panels, CreateBagContextMenu(p)  PROVE IInv'
  BY <1>1, <1>6 DEF CreateBagContextMenu, GetBagRecords, server, store
<1>7. ASSUME NEW p \in Panels, NEW n \in Nodes, Select(p, n)  PROVE IInv'
  <2>1. p = "list" => n \in Bags
    BY <1>7 DEF Select, ShownIn, Rows
  <2>2. SymDiff(selection[p], {n}) \subseteq selection[p] \cup {n}
    BY DEF SymDiff
  <2>3. selection' \in [Panels -> SUBSET Nodes] /\ selection'["list"] \subseteq Bags
    <3>1. CASE selection' = [selection EXCEPT ![p] = {n}]
      BY <2>1, <3>1 DEF Panels
    <3>2. CASE selection' = [selection EXCEPT ![p] = SymDiff(selection[p], {n})]
      <4>1. SymDiff(selection[p], {n}) \subseteq Nodes
        BY <2>2
      <4>2. QED
        BY <2>1, <2>2, <3>2, <4>1 DEF Panels
    <3>3. QED
      BY <1>7, <3>1, <3>2 DEF Select
  <2>4. QED
    BY <1>1, <1>7, <2>3 DEF Select, server, store
<1>8. QED
  BY <1>2, <1>3, <1>4, <1>5, <1>6, <1>7
(* The scanner removes a bag.                                              *)
LEMMA RemovedStep ==
  ASSUME IInv, NEW b \in Bags, BagRemoved(b)
  PROVE  IInv'
<1>1. /\ known' = known \ {b} /\ tagged' = tagged \ {b} /\ cleared' = cleared \ {b}
      /\ UNCHANGED <<retags, store, panel, jobs>>
  BY DEF BagRemoved
<1>2. \A job : Sound(job) => Sound(job)'
  BY <1>1 DEF Sound
<1>3. TypeOK' /\ ListSound'
  BY <1>1 DEF IInv, TypeOK, ListSound, store, panel
<1>4. QED
  BY <1>1, <1>2, <1>3 DEF IInv

(* Somebody else sets the tag on a bag or takes it off.                    *)
LEMMA ChangedStep ==
  ASSUME IInv, NEW b \in Bags, TagChanged(b)
  PROVE  IInv'
<1>1. /\ b \in known /\ known' = known /\ retags' \in 0..MaxRetags /\ UNCHANGED <<store, panel, jobs>>
      /\ tagged' \subseteq tagged \cup {b} /\ cleared' \subseteq cleared \cup {b}
      /\ tagged \cup cleared \subseteq tagged' \cup cleared'
  <2>1. SymDiff(tagged, {b}) = IF b \in tagged THEN tagged \ {b} ELSE tagged \cup {b}
    BY DEF SymDiff
  <2>2. retags' \in 0..MaxRetags
    BY BoundAssumption DEF TagChanged, IInv, TypeOK
  <2>3. QED
    BY <2>1, <2>2 DEF TagChanged
<1>2. \A job : Sound(job) => Sound(job)'
  BY <1>1 DEF Sound
<1>3. TypeOK' /\ ListSound'
  BY <1>1 DEF IInv, TypeOK, ListSound, store, panel
<1>4. QED
  BY <1>1, <1>2, <1>3 DEF IInv

(* The user starts some work.                                              *)
LEMMA StartStep ==
  ASSUME IInv, NEW kind \in Kinds, NEW bags \in SUBSET (Bags \cup {NoBag}), Start(kind, bags),
         kind # "details" => bags \subseteq Bags,
         menu' \subseteq Bags, menuOpen' \in BOOLEAN
  PROVE  IInv'
<1> DEFINE stage == CASE kind = "tag" -> "window"
                      [] kind \in {"script", "open", "link"} -> "ok"
                      [] OTHER -> "sent"
           job == [kind |-> kind, bags |-> bags, done |-> {}, stage |-> stage]
<1>1. stage \in Stages /\ (kind = "tag" => stage = "window")
  BY DEF Stages
<1>2. jobs' = Append(jobs, job) /\ Len(jobs) < MaxJobs /\ UNCHANGED <<server, store, selection>>
  BY DEF Start, CanStart
<1> HIDE DEF stage
<1>3. job \in Job /\ job.done = {} /\ job.bags = bags /\ job.kind = kind /\ job.stage = stage
  BY <1>1 DEF Job
<1> HIDE DEF job
<1>4. Sound(job)'
  BY <1>1, <1>3 DEF Sound
<1>5. \A j \in DOMAIN jobs : Sound(jobs[j])'
  BY <1>2 DEF IInv, Sound, server
<1>6. /\ jobs' \in Seq(Job) /\ Len(jobs') = Len(jobs) + 1 /\ DOMAIN jobs' = 1..(Len(jobs) + 1)
      /\ \A j \in 1..Len(jobs) : jobs'[j] = jobs[j]
      /\ jobs'[Len(jobs) + 1] = job
  BY <1>2, <1>3 DEF IInv, TypeOK
<1>7. \A j \in DOMAIN jobs' : (jobs'[j].done \subseteq jobs'[j].bags) /\ Sound(jobs[j])'
  <2> TAKE j \in DOMAIN jobs'
  <2>1. CASE j = Len(jobs) + 1
    BY <1>3, <1>4, <1>6, <2>1
  <2>2. CASE j \in DOMAIN jobs
    BY <1>5, <1>6, <2>2 DEF IInv, TypeOK
  <2>3. QED
    BY <1>6, <2>1, <2>2 DEF IInv, TypeOK
<1>8. TypeOK' /\ ListSound'
  BY <1>2, <1>6, <1>7, BoundAssumption DEF IInv, TypeOK, ListSound, server, store
<1>9. QED
  BY <1>7, <1>8 DEF IInv

LEMMA ButtonStep ==
  ASSUME IInv,
         \/ ListInfoButton \/ TreeInfoButton
         \/ \E kind \in Kinds : ListButton(kind) \/ TreeButton(kind) \/ MenuItem(kind)
  PROVE  IInv'
<1>1. CASE ListInfoButton
  <2>1. PICK id \in selection["list"] : Start("details", {id})
    BY <1>1 DEF ListInfoButton, InfoButton
  <2>2. "details" \in Kinds /\ UNCHANGED <<menu, menuOpen>> /\ {id} \in SUBSET (Bags \cup {NoBag})
    BY <1>1, <2>1 DEF ListInfoButton, InfoButton, Start, IInv, ListSound
  <2>3. QED
    BY <2>1, <2>2, StartStep DEF IInv, TypeOK
<1>2. CASE TreeInfoButton
  <2>1. PICK id \in {IF n \in Bags THEN n ELSE NoBag : n \in selection["tree"]} : Start("details", {id})
    BY <1>2 DEF TreeInfoButton, InfoButton
  <2>2. "details" \in Kinds /\ UNCHANGED <<menu, menuOpen>> /\ {id} \in SUBSET (Bags \cup {NoBag})
    BY <1>2, <2>1 DEF TreeInfoButton, InfoButton, Start
  <2>3. QED
    BY <2>1, <2>2, StartStep DEF IInv, TypeOK
<1>3. ASSUME NEW kind \in Kinds, ListButton(kind) \/ TreeButton(kind)  PROVE IInv'
  <2>1. PICK p \in Panels : HeaderButton(p, kind)
    BY <1>3 DEF ListButton, TreeButton, Panels
  <2>2. GetBagRecords(selection[p]) \subseteq Bags
    BY DEF GetBagRecords
  <2>3. Start(kind, GetBagRecords(selection[p])) /\ UNCHANGED <<menu, menuOpen>>
    BY <2>1 DEF HeaderButton
  <2>4. QED
    BY <2>2, <2>3, StartStep DEF IInv, TypeOK
<1>4. ASSUME NEW kind \in Kinds, MenuItem(kind)  PROVE IInv'
  BY <1>4, StartStep DEF MenuItem, CloseMenu, IInv, TypeOK
<1>5. QED
  BY <1>1, <1>2, <1>3, <1>4

(* A piece of work goes on, and its stage is true again afterwards.        *)
LEMMA WorkStep ==
  ASSUME IInv, NEW j \in DOMAIN jobs, NEW stage \in Stages, NEW done \in SUBSET Bags,
         To(j, stage, done), done \subseteq jobs[j].bags,
         jobs[j].kind = "tag" =>
           /\ done \cap known \subseteq tagged' \cup cleared'
           /\ stage \in {"served", "ok"} => done = jobs[j].bags,
         known' = known, tagged' \subseteq known, cleared' \subseteq known,
         tagged \cup cleared \subseteq tagged' \cup cleared', retags' = retags,
         load' \in {"no", "sent", "answered"}, answer' \in {answer, NoRows},
         UNCHANGED <<terms, list, searches, panel>>
  PROVE  IInv'
<1>1. \A i \in DOMAIN jobs \ {j} : Sound(jobs[i])'
  <2>1. ASSUME NEW i \in DOMAIN jobs \ {j}  PROVE Sound(jobs[i])'
    <3>1. jobs'[i] = jobs[i] /\ Sound(jobs[i])
      BY ToJob DEF IInv
    <3>2. QED
      BY <3>1 DEF Sound
  <2>2. QED
    BY <2>1
<1>2. Sound(jobs[j])'
  BY ToJob DEF IInv, Sound
<1>3. NoRows \in Rows /\ NoRows.tagged \subseteq NoRows.bags
  BY DEF NoRows, Rows
<1>4. TypeOK' /\ ListSound'
  BY <1>3, ToJob DEF IInv, TypeOK, ListSound, panel
<1>5. QED
  BY <1>1, <1>2, <1>4, ToJob DEF IInv
LEMMA ReadStep ==
  ASSUME IInv, NEW j \in DOMAIN jobs, Read(j) \/ ReadAnswered(j)
  PROVE  IInv'
<1>1. PICK s \in Stages : To(j, s, {})
  BY DEF Read, ReadAnswered, Stages
<1>2. UNCHANGED <<server, store, panel>> /\ jobs[j].kind \in {"details", "map"}
  BY DEF Read, ReadAnswered
<1>3. QED
  BY <1>1, <1>2, WorkStep DEF IInv, TypeOK, server, store

LEMMA DownloadStep ==
  ASSUME IInv, NEW j \in DOMAIN jobs, DownloadNext(j)
  PROVE  IInv'
<1>1. jobs[j].kind = "download" /\ jobs[j].bags \subseteq Bags /\ UNCHANGED <<server, store, panel>>
  BY DEF DownloadNext, IInv, Sound
<1>2. PICK s \in {"sent", "ok"}, done \in SUBSET jobs[j].bags : To(j, s, done)
  BY JobTyped DEF DownloadNext, Remaining, IInv
<1>3. s \in Stages /\ done \in SUBSET Bags
  BY <1>1 DEF Stages
<1>4. QED
  BY <1>1, <1>2, <1>3, WorkStep DEF IInv, TypeOK, server, store
(* Tags are set bag after bag; the first failure ends it.                  *)
LEMMA TagStep ==
  ASSUME IInv, NEW j \in DOMAIN jobs, SetTagForBag(j)
  PROVE  IInv'
<1>1. /\ jobs[j].kind = "tag" /\ jobs[j].bags \subseteq Bags /\ jobs[j].done \subseteq jobs[j].bags
      /\ jobs[j].done \cap known \subseteq tagged \cup cleared
      /\ UNCHANGED <<known, retags, store, panel>>
  BY JobTyped DEF SetTagForBag, IInv, Sound
<1>2. ASSUME NEW s \in {"served", "failed"}, To(j, s, jobs[j].done), UNCHANGED <<tagged, cleared>>,
             s = "served" => Remaining(j) = {}
      PROVE  IInv'
  <2>1. s \in Stages /\ (s = "served" => jobs[j].done = jobs[j].bags)
    BY <1>1, <1>2 DEF Remaining, Stages
  <2>2. QED
    BY <1>1, <1>2, <2>1, WorkStep DEF IInv, TypeOK, store
<1>3. ASSUME NEW b \in Remaining(j) \cap known, TagBag(j, b)
      PROVE  IInv'
  <2>1. "sent" \in Stages /\ b \in jobs[j].bags
    BY DEF Stages, Remaining
  <2>2. /\ To(j, "sent", jobs[j].done \cup {b}) /\ tagged' = tagged \cup {b} /\ cleared' = cleared \ {b}
    BY <1>3 DEF TagBag
  <2>3. QED
    BY <1>1, <1>3, <2>1, <2>2, WorkStep DEF IInv, TypeOK, store
<1>4. QED
  BY <1>2, <1>3 DEF SetTagForBag

LEMMA WindowStep ==
  ASSUME IInv, NEW j \in DOMAIN jobs, SubmitTag(j) \/ TagAnswered(j) \/ TagLost(j)
  PROVE  IInv'
<1>1. /\ jobs[j].kind = "tag" /\ jobs[j].bags \subseteq Bags /\ jobs[j].done \subseteq jobs[j].bags
      /\ jobs[j].done \cap known \subseteq tagged \cup cleared
      /\ jobs[j].stage \in {"served", "ok"} => jobs[j].done = jobs[j].bags
  BY JobTyped DEF SubmitTag, TagAnswered, TagLost, IInv, Sound
<1>2. CASE SubmitTag(j)
  <2>1. "sent" \in Stages /\ To(j, "sent", {}) /\ UNCHANGED <<server, store, panel>>
    BY <1>2 DEF SubmitTag, Stages
  <2>2. QED
    BY <2>1, WorkStep DEF IInv, TypeOK, server, store
<1>3. CASE TagAnswered(j) /\ jobs[j].stage = "served"
  <2>1. /\ "ok" \in Stages /\ To(j, "ok", jobs[j].done) /\ load' = "sent" /\ answer' = NoRows
        /\ UNCHANGED <<server, terms, list, searches, panel>>
    BY <1>3 DEF TagAnswered, Stages
  <2>2. QED
    BY <1>1, <1>3, <2>1, WorkStep DEF IInv, TypeOK, server
<1>4. CASE TagLost(j) \/ (TagAnswered(j) /\ jobs[j].stage = "failed")
  <2>1. /\ "error" \in Stages /\ To(j, "error", jobs[j].done)
        /\ UNCHANGED <<server, load, answer, terms, list, searches, panel>>
    BY <1>4 DEF TagAnswered, TagLost, Stages, store
  <2>2. QED
    BY <1>1, <2>1, WorkStep DEF IInv, TypeOK, server
<1>5. QED
  BY <1>2, <1>3, <1>4 DEF TagAnswered

LEMMA Step == IInv /\ [Next]_vars => IInv'
<1> SUFFICES ASSUME IInv, [Next]_vars  PROVE IInv'
  OBVIOUS
<1>1. CASE Click
  BY <1>1, PanelStep, ButtonStep, WindowStep DEF Click
<1>2. CASE SearchBags \/ ListLoaded
  BY <1>2, PanelStep
<1>3. CASE \E b \in Bags : BagRemoved(b) \/ TagChanged(b)
  BY <1>3, RemovedStep, ChangedStep
<1>4. CASE \E j \in DOMAIN jobs : Work(j) \/ TagLost(j)
  BY <1>4, ReadStep, DownloadStep, TagStep, WindowStep DEF Work
<1>5. CASE UNCHANGED vars
  BY <1>5 DEF vars, server, store, panel, IInv, TypeOK, ListSound, Sound
<1>6. QED
  BY <1>1, <1>2, <1>3, <1>4, <1>5 DEF Next

(* Every variable of the panels, the list and the work keeps its type; in  *)
(* particular no work is ever done for a bag that it was not started for.  *)
THEOREM TypeCorrect == Spec => []TypeOK
<1>1. IInv => TypeOK
  BY DEF IInv
<1>2. QED
  BY <1>1, InitIInv, Step, PTL DEF Spec

(* The window says that a tag is set only when every bag that it was       *)
(* opened for has the tag, or is gone, or has lost it to somebody else;    *)
(* and an error, whatever it comes from, leaves the bags that were done    *)
(* before it tagged (BagController.setTagForBags and SetTagWindow).        *)
THEOREM ToldTheTruth == Spec => []TaggedAsTold
<1>1. IInv => TaggedAsTold
  <2> SUFFICES ASSUME IInv, NEW j \in DOMAIN jobs, jobs[j].kind = "tag"
               PROVE  /\ jobs[j].stage = "ok" => BagsOf(j) \cap known \subseteq tagged \cup cleared
                      /\ jobs[j].stage = "error" => jobs[j].done \cap known \subseteq tagged \cup cleared
    BY DEF TaggedAsTold
  <2>1. Sound(jobs[j]) /\ BagsOf(j) = jobs[j].bags
    BY DEF IInv, BagsOf
  <2>2. QED
    BY <2>1 DEF Sound
<1>2. QED
  BY <1>1, InitIInv, Step, PTL DEF Spec
-----------------------------------------------------------------------------
(* The folder view.                                                        *)

(* What a filter leaves of some nodes: all folders, and the bags whose     *)
(* names match.                                                            *)
Matching(nodes, t) == {n \in nodes : n \in Folders \/ n \in Shown[t]}

(* filterNodes goes from the leaves up, and its function is recursive, but *)
(* bags have nothing below them and folders match in any case.             *)
LEMMA FilterMatches ==
  ASSUME NEW nodes \in SUBSET Nodes, NEW t \in Texts
  PROVE  FilterNodes(nodes, t) = Matching(nodes, t)
<1> DEFINE matches(n) == n \in Folders \/ n \in Shown[t]
           visibleNode[n \in Nodes] ==
             (\E c \in nodes \cap InFolder(n) : visibleNode[c]) \/ matches(n)
           Body(f) == [n \in Nodes |->
             (\E c \in nodes \cap InFolder(n) : f[c]) \/ matches(n)]
           direct == [n \in Nodes |-> matches(n)]
<1>1. \A n \in Nodes : n \in Folders \/ InFolder(n) = {}
  BY NodeAssumption, TreeAssumption DEF InFolder, Nodes
<1>2. direct = Body(direct)
  <2>1. \A n \in Nodes :
          ((\E c \in nodes \cap InFolder(n) : direct[c]) \/ matches(n)) = matches(n)
    BY <1>1
  <2>2. QED
    BY <2>1
<1>3. visibleNode = Body(visibleNode)
  <2>1. visibleNode = CHOOSE g : g = Body(g)
    OBVIOUS
  <2> HIDE DEF visibleNode, Body, direct
  <2>2. QED
    BY <1>2, <2>1
<1>4. \A n \in Nodes : visibleNode[n] <=> matches(n)
  <2>1. \A n \in Nodes :
          Body(visibleNode)[n] = ((\E c \in nodes \cap InFolder(n) : visibleNode[c]) \/ matches(n))
    OBVIOUS
  <2> HIDE DEF visibleNode, Body
  <2>2. \A n \in Nodes :
          visibleNode[n] = ((\E c \in nodes \cap InFolder(n) : visibleNode[c]) \/ matches(n))
    BY <1>3, <2>1
  <2>3. QED
    BY <1>1, <2>2
<1>5. FilterNodes(nodes, t) = {n \in nodes : visibleNode[n]}
  BY DEF FilterNodes
<1> HIDE DEF visibleNode
<1>6. QED
  BY <1>4, <1>5 DEF Matching

TreeTyped ==
  /\ index \subseteq Bags /\ changes \in 0..MaxChanges /\ clicks \in 0..MaxClicks
  /\ text \in Texts /\ filter \in Texts /\ filtered \in BOOLEAN
  /\ tree \subseteq Nodes /\ loaded \subseteq Places /\ fetches \subseteq Fetch
  /\ filteredBagCount \in [Folders -> -1..Cardinality(Bags)]
  /\ asked \in [Texts -> Nat] /\ answers \in [Texts \X SUBSET Bags -> Nat]
  /\ failed \in BOOLEAN

(* A click asks for counts twice or loads a folder, which asks once when   *)
(* it has come; the root is loaded at the start.                           *)
Paid ==
  /\ IsFiniteSet(fetches)
  /\ \A t \in Texts, b \in SUBSET Bags :
       asked[t] + answers[<<t, b>>] + Cardinality(fetches) <= 2 * clicks + 1

(* Every node of the store hangs on another or on the root, and so will    *)
(* the nodes that are on their way, unless they go astray.                 *)
Hanging ==
  /\ \A n \in tree : Parent[n] \in tree \cup {Root}
  /\ \A r \in fetches : /\ r.stray \/ r.of \in tree \cup {Root}
                        /\ r.rows \subseteq InFolder(r.of)

TreeInv == TreeTyped /\ Paid /\ Hanging /\ visible = Matching(tree, filter)

LEMMA BagsCount == IsFiniteSet(Bags) /\ Cardinality(Bags) \in Nat
BY TreeAssumption, FS_CardinalityType

(* No counting of a folder's bags finds more than there are.               *)
LEMMA CountsTyped ==
  ASSUME NEW t \in Texts, NEW b \in SUBSET Bags,
         NEW f \in DOMAIN CountBagPaths(t, b)
  PROVE  f \in Folders /\ CountBagPaths(t, b)[f] \in 0..Cardinality(Bags)
<1>1. IsFiniteSet(Bags)
  BY BagsCount
<1> DEFINE found == Counted[t] \cap b \cap Under(f)
<1>2. found \subseteq Bags
  OBVIOUS
<1>3. f \in Folders /\ CountBagPaths(t, b)[f] = Cardinality(found)
  BY DEF CountBagPaths
<1> HIDE DEF found
<1>4. Cardinality(found) \in Nat /\ Cardinality(Bags) \in Nat /\ Cardinality(found) <= Cardinality(Bags)
  BY <1>1, <1>2, FS_Subset, FS_CardinalityType
<1>5. QED
  BY <1>3, <1>4

(* Counts are asked for.                                                   *)
LEMMA AskStep ==
  ASSUME TreeTyped, NEW n \in 0..2, NEW fresh,
         UpdateFilteredBagCounts(n, fresh)
  PROVE  /\ filteredBagCount' \in [Folders -> -1..Cardinality(Bags)]
         /\ asked' \in [Texts -> Nat]
         /\ \A t \in Texts : asked'[t] <= asked[t] + n
         /\ UNCHANGED <<answers, failed>>
<1>1. Cardinality(Bags) \in Nat
  BY BagsCount
<1>2. -1 \in -1..Cardinality(Bags) /\ 0 \in -1..Cardinality(Bags)
  BY <1>1
<1>3. filteredBagCount' \in [Folders -> -1..Cardinality(Bags)]
  BY <1>2 DEF UpdateFilteredBagCounts, TreeTyped
<1>4. asked' = IF text = NoText THEN asked ELSE [asked EXCEPT ![text] = asked[text] + n]
  BY DEF UpdateFilteredBagCounts
<1>5. asked \in [Texts -> Nat] /\ text \in Texts
  BY DEF TreeTyped
<1>6. CASE text = NoText
  BY <1>3, <1>4, <1>5, <1>6 DEF UpdateFilteredBagCounts
<1>7. CASE text # NoText
  <2>1. \A t \in Texts : asked'[t] = IF t = text THEN asked[t] + n ELSE asked[t]
    BY <1>4, <1>5, <1>7
  <2>2. asked' \in [Texts -> Nat] /\ \A t \in Texts : asked'[t] <= asked[t] + n
    BY <1>4, <1>5, <1>7, <2>1
  <2>3. QED
    BY <1>3, <2>2 DEF UpdateFilteredBagCounts
<1>8. QED
  BY <1>6, <1>7

(* What is owed never grows by more than what a click pays.                *)
LEMMA PaidStep ==
  ASSUME TreeTyped, Paid, NEW n \in 0..2, IsFiniteSet(fetches'),
         asked' \in [Texts -> Nat], answers' = answers, clicks' \in Nat,
         \A t \in Texts : asked'[t] <= asked[t] + n,
         Cardinality(fetches') + n <= Cardinality(fetches) + 2 * (clicks' - clicks)
  PROVE  Paid'
<1> SUFFICES ASSUME NEW t \in Texts, NEW b \in SUBSET Bags
             PROVE  asked'[t] + answers'[<<t, b>>] + Cardinality(fetches') <= 2 * clicks' + 1
  BY DEF Paid
<1>1. asked[t] \in Nat /\ asked'[t] \in Nat /\ answers[<<t, b>>] \in Nat /\ clicks \in Nat
  BY DEF TreeTyped
<1>2. Cardinality(fetches) \in Nat /\ Cardinality(fetches') \in Nat
  BY FS_CardinalityType DEF Paid
<1>3. asked[t] + answers[<<t, b>>] + Cardinality(fetches) <= 2 * clicks + 1
  BY DEF Paid
<1>4. asked'[t] <= asked[t] + n
  OBVIOUS
<1>5. QED
  BY <1>1, <1>2, <1>3, <1>4

(* Without a click, what is owed must not grow.                            *)
LEMMA PaidLess ==
  ASSUME TreeTyped, Paid, IsFiniteSet(fetches'), clicks' = clicks,
         asked' \in [Texts -> Nat], answers' \in [Texts \X SUBSET Bags -> Nat],
         \A t \in Texts, b \in SUBSET Bags :
           asked'[t] + answers'[<<t, b>>] <= asked[t] + answers[<<t, b>>],
         Cardinality(fetches') <= Cardinality(fetches)
  PROVE  Paid'
<1> SUFFICES ASSUME NEW t \in Texts, NEW b \in SUBSET Bags
             PROVE  asked'[t] + answers'[<<t, b>>] + Cardinality(fetches') <= 2 * clicks' + 1
  BY DEF Paid
<1>1. /\ asked[t] \in Nat /\ asked'[t] \in Nat /\ clicks \in Nat
      /\ answers[<<t, b>>] \in Nat /\ answers'[<<t, b>>] \in Nat
  BY DEF TreeTyped
<1>2. Cardinality(fetches) \in Nat /\ Cardinality(fetches') \in Nat
  BY FS_CardinalityType DEF Paid
<1>3. asked[t] + answers[<<t, b>>] + Cardinality(fetches) <= 2 * clicks + 1
  BY DEF Paid
<1>4. asked'[t] + answers'[<<t, b>>] <= asked[t] + answers[<<t, b>>]
  OBVIOUS
<1>5. QED
  BY <1>1, <1>2, <1>3, <1>4

(* Requests for folders are as they were.                                  *)
LEMMA SameFetches ==
  ASSUME Paid, fetches' = fetches
  PROVE  IsFiniteSet(fetches') /\ Cardinality(fetches') <= Cardinality(fetches)
<1>1. IsFiniteSet(fetches) /\ Cardinality(fetches) \in Nat
  BY FS_CardinalityType DEF Paid
<1>2. QED
  BY <1>1

LEMMA TreeStarts ==
  ASSUME TreeInit
  PROVE  TreeInv
<1>1. Cardinality(Bags) \in Nat
  BY BagsCount
<1>2. fetches = {Request(Root)} /\ IsFiniteSet(fetches) /\ Cardinality(fetches) = 1
  BY FS_Singleton DEF TreeInit
<1>3. Paid
  <2>1. clicks = 0 /\ \A t \in Texts, b \in SUBSET Bags : asked[t] = 0 /\ answers[<<t, b>>] = 0
    BY DEF TreeInit
  <2>2. QED
    BY <1>2, <2>1 DEF Paid
<1>4. Request(Root) \in Fetch /\ Request(Root).of = Root /\ Request(Root).rows = {}
  BY DEF Request, Fetch, Places
<1>5. TreeTyped
  <2>1. filteredBagCount \in [Folders -> -1..Cardinality(Bags)]
    <3>1. 0 \in -1..Cardinality(Bags)
      BY <1>1
    <3>2. QED
      BY <3>1 DEF TreeInit
  <2>2. clicks \in 0..MaxClicks /\ changes \in 0..MaxChanges
    BY ClickAssumption DEF TreeInit
  <2>3. asked \in [Texts -> Nat] /\ answers \in [Texts \X SUBSET Bags -> Nat]
    BY DEF TreeInit
  <2>4. fetches \subseteq Fetch /\ loaded \subseteq Places
    BY <1>2, <1>4 DEF TreeInit, Places
  <2>5. QED
    BY <2>1, <2>2, <2>3, <2>4, TextAssumption DEF TreeInit, TreeTyped
<1>6. Hanging /\ visible = Matching(tree, filter)
  BY <1>2, <1>4 DEF TreeInit, Hanging, Matching
<1>7. QED
  BY <1>3, <1>5, <1>6 DEF TreeInv

(* The server: folders, counts and changes.                                *)
LEMMA FolderServed ==
  ASSUME TreeInv, NEW r \in fetches, GetTreeNodes(r)
  PROVE  TreeInv'
<1> DEFINE new == [r EXCEPT !.answered = TRUE, !.rows = InFolder(r.of) \cap (Folders \cup index)]
<1>1. /\ fetches' = (fetches \ {r}) \cup {new}
      /\ UNCHANGED <<index, changes, clicks, text, filtered, filter, tree, visible, loaded,
                     filteredBagCount, asked, answers, failed>>
  BY DEF GetTreeNodes, treeServer, field, counts
<1>2. r \in Fetch
  BY DEF TreeInv, TreeTyped
<1>3. new \in Fetch /\ new.of = r.of /\ new.stray = r.stray /\ new.rows \subseteq InFolder(r.of)
  BY <1>2 DEF Fetch, InFolder
<1> HIDE DEF new
<1>4. IsFiniteSet(fetches \ {r}) /\ Cardinality(fetches \ {r}) = Cardinality(fetches) - 1
  BY FS_RemoveElement DEF TreeInv, Paid
<1>5. IsFiniteSet(fetches') /\ Cardinality(fetches') <= Cardinality(fetches)
  <2>1. /\ IsFiniteSet((fetches \ {r}) \cup {new})
        /\ \/ Cardinality((fetches \ {r}) \cup {new}) = Cardinality(fetches \ {r})
           \/ Cardinality((fetches \ {r}) \cup {new}) = Cardinality(fetches \ {r}) + 1
    BY <1>4, FS_AddElement
  <2>2. Cardinality(fetches) \in Nat
    BY FS_CardinalityType DEF TreeInv, Paid
  <2>3. QED
    BY <1>1, <1>4, <2>1, <2>2
<1>6. Paid'
  <2>1. /\ asked' \in [Texts -> Nat] /\ answers' \in [Texts \X SUBSET Bags -> Nat] /\ clicks' = clicks
        /\ TreeTyped /\ Paid
    BY <1>1 DEF TreeInv, TreeTyped
  <2>2. \A t \in Texts, b \in SUBSET Bags :
          asked'[t] + answers'[<<t, b>>] <= asked[t] + answers[<<t, b>>]
    BY <1>1, <2>1 DEF TreeTyped
  <2>3. QED
    BY <1>5, <2>1, <2>2, PaidLess
<1>7. TreeTyped' /\ Hanging'
  BY <1>1, <1>3 DEF TreeInv, TreeTyped, Hanging
<1>8. QED
  BY <1>1, <1>6, <1>7 DEF TreeInv, Matching

LEMMA CountsServed ==
  ASSUME TreeInv, NEW t \in Texts, CheckFilteredBagCounts(t)
  PROVE  TreeInv'
<1>1. /\ asked[t] > 0 /\ asked' = [asked EXCEPT ![t] = asked[t] - 1]
      /\ answers' = [answers EXCEPT ![<<t, index>>] = answers[<<t, index>>] + 1]
      /\ UNCHANGED <<index, changes, clicks, text, filtered, filter, tree, visible, loaded,
                     fetches, filteredBagCount, failed>>
  BY DEF CheckFilteredBagCounts, treeServer, field, treeStore
<1>2. TreeTyped /\ Paid /\ <<t, index>> \in Texts \X SUBSET Bags
  BY DEF TreeInv, TreeTyped
<1>3. asked' \in [Texts -> Nat] /\ answers' \in [Texts \X SUBSET Bags -> Nat]
  <2>1. asked[t] - 1 \in Nat /\ answers[<<t, index>>] + 1 \in Nat
    BY <1>1, <1>2 DEF TreeTyped
  <2>2. QED
    BY <1>1, <1>2, <2>1 DEF TreeTyped
<1>4. \A u \in Texts, b \in SUBSET Bags :
        asked'[u] + answers'[<<u, b>>] <= asked[u] + answers[<<u, b>>]
  <2> TAKE u \in Texts, b \in SUBSET Bags
  <2>1. asked[u] \in Nat /\ answers[<<u, b>>] \in Nat
    BY <1>2 DEF TreeTyped
  <2>2. asked'[u] = IF u = t THEN asked[u] - 1 ELSE asked[u]
    BY <1>1, <1>2 DEF TreeTyped
  <2>3. answers'[<<u, b>>] = IF u = t /\ b = index THEN answers[<<u, b>>] + 1 ELSE answers[<<u, b>>]
    BY <1>1, <1>2 DEF TreeTyped
  <2>4. QED
    BY <2>1, <2>2, <2>3
<1>5. Paid'
  <2>1. IsFiniteSet(fetches') /\ Cardinality(fetches') <= Cardinality(fetches) /\ clicks' = clicks
    BY <1>1, <1>2, SameFetches
  <2>2. QED
    BY <1>2, <1>3, <1>4, <2>1, PaidLess
<1>6. TreeTyped' /\ Hanging'
  BY <1>1, <1>3 DEF TreeInv, TreeTyped, Hanging
<1>7. QED
  BY <1>1, <1>5, <1>6 DEF TreeInv, Matching

LEMMA CountsLost ==
  ASSUME TreeInv, NEW t \in Texts, CountsFail(t)
  PROVE  TreeInv'
<1>1. /\ asked[t] > 0 /\ asked' = [asked EXCEPT ![t] = asked[t] - 1] /\ failed' = TRUE
      /\ UNCHANGED <<index, changes, clicks, text, filtered, filter, tree, visible, loaded,
                     fetches, filteredBagCount, answers>>
  BY DEF CountsFail, treeServer, field, treeStore
<1>2. TreeTyped /\ Paid
  BY DEF TreeInv
<1>3. asked' \in [Texts -> Nat] /\ answers' \in [Texts \X SUBSET Bags -> Nat]
  <2>1. asked[t] - 1 \in Nat
    BY <1>1, <1>2 DEF TreeTyped
  <2>2. QED
    BY <1>1, <1>2, <2>1 DEF TreeTyped
<1>4. \A u \in Texts, b \in SUBSET Bags :
        asked'[u] + answers'[<<u, b>>] <= asked[u] + answers[<<u, b>>]
  <2> TAKE u \in Texts, b \in SUBSET Bags
  <2>1. asked[u] \in Nat /\ answers[<<u, b>>] \in Nat
    BY <1>2 DEF TreeTyped
  <2>2. asked'[u] = IF u = t THEN asked[u] - 1 ELSE asked[u]
    BY <1>1, <1>2 DEF TreeTyped
  <2>3. QED
    BY <1>1, <2>1, <2>2
<1>5. Paid'
  <2>1. IsFiniteSet(fetches') /\ Cardinality(fetches') <= Cardinality(fetches) /\ clicks' = clicks
    BY <1>1, <1>2, SameFetches
  <2>2. QED
    BY <1>2, <1>3, <1>4, <2>1, PaidLess
<1>6. TreeTyped' /\ Hanging'
  BY <1>1, <1>3 DEF TreeInv, TreeTyped, Hanging
<1>7. QED
  BY <1>1, <1>5, <1>6 DEF TreeInv, Matching

LEMMA CountsTaken ==
  ASSUME TreeInv, NEW t \in Texts, NEW b \in SUBSET Bags,
         CountsAnswered(t, b)
  PROVE  TreeInv'
<1> DEFINE new == CountBagPaths(t, b)
<1>1. /\ answers[<<t, b>>] > 0
      /\ answers' = [answers EXCEPT ![<<t, b>>] = answers[<<t, b>>] - 1]
      /\ filteredBagCount' = [f \in Folders |->
           IF f \in DOMAIN new \cap tree THEN new[f] ELSE filteredBagCount[f]]
      /\ UNCHANGED <<index, changes, clicks, text, filtered, filter, tree, visible, loaded,
                     fetches, asked, failed>>
  BY DEF CountsAnswered, treeServer, field, treeStore
<1>2. TreeTyped /\ Paid /\ <<t, b>> \in Texts \X SUBSET Bags
  BY DEF TreeInv
<1>3. \A f \in DOMAIN new : new[f] \in -1..Cardinality(Bags)
  <2>1. Cardinality(Bags) \in Nat
    BY BagsCount
  <2>2. \A f \in DOMAIN new : new[f] \in 0..Cardinality(Bags)
    BY TreeAssumption, CountsTyped
  <2> HIDE DEF new
  <2>3. QED
    BY <2>1, <2>2
<1> HIDE DEF new
<1>4. filteredBagCount' \in [Folders -> -1..Cardinality(Bags)]
  <2>1. \A f \in Folders : filteredBagCount[f] \in -1..Cardinality(Bags)
    BY <1>2 DEF TreeTyped
  <2>2. \A f \in Folders : (IF f \in DOMAIN new \cap tree THEN new[f] ELSE filteredBagCount[f])
                             \in -1..Cardinality(Bags)
    BY <1>3, <2>1
  <2>3. QED
    BY <1>1, <2>2
<1>5. asked' \in [Texts -> Nat] /\ answers' \in [Texts \X SUBSET Bags -> Nat]
  <2>1. answers[<<t, b>>] - 1 \in Nat
    BY <1>1, <1>2 DEF TreeTyped
  <2>2. QED
    BY <1>1, <1>2, <2>1 DEF TreeTyped
<1>6. \A u \in Texts, c \in SUBSET Bags :
        asked'[u] + answers'[<<u, c>>] <= asked[u] + answers[<<u, c>>]
  <2> TAKE u \in Texts, c \in SUBSET Bags
  <2>1. asked[u] \in Nat /\ answers[<<u, c>>] \in Nat
    BY <1>2 DEF TreeTyped
  <2>2. answers'[<<u, c>>] = IF u = t /\ c = b THEN answers[<<u, c>>] - 1 ELSE answers[<<u, c>>]
    BY <1>1, <1>2 DEF TreeTyped
  <2>3. QED
    BY <1>1, <2>1, <2>2
<1>7. Paid'
  <2>1. IsFiniteSet(fetches') /\ Cardinality(fetches') <= Cardinality(fetches) /\ clicks' = clicks
    BY <1>1, <1>2, SameFetches
  <2>2. QED
    BY <1>2, <1>5, <1>6, <2>1, PaidLess
<1>8. TreeTyped' /\ Hanging'
  BY <1>1, <1>4, <1>5 DEF TreeInv, TreeTyped, Hanging
<1>9. QED
  BY <1>1, <1>7, <1>8 DEF TreeInv, Matching

(* Steps that touch neither the store nor the requests.                    *)
LEMMA AsideStep ==
  ASSUME TreeInv, IndexChanges \/ (\E t \in Texts : Type(t))
  PROVE  TreeInv'
<1>1. /\ index' \subseteq Bags /\ changes' \in 0..MaxChanges /\ text' \in Texts
      /\ UNCHANGED <<clicks, filtered, filter, tree, visible, loaded, fetches,
                     filteredBagCount, asked, answers, failed>>
  <2>1. CASE IndexChanges
    <3>1. changes' \in 0..MaxChanges
      BY <2>1, ClickAssumption DEF IndexChanges, TreeInv, TreeTyped
    <3>2. QED
      BY <2>1, <3>1 DEF IndexChanges, TreeInv, TreeTyped, field, treeStore, counts
  <2>2. CASE \E t \in Texts : Type(t)
    BY <2>2 DEF Type, TreeInv, TreeTyped, treeServer, treeStore, counts
  <2>3. QED
    BY <2>1, <2>2
<1>2. QED
  BY <1>1 DEF TreeInv, TreeTyped, Paid, Hanging, Matching
-----------------------------------------------------------------------------
(* The page: clicks, and nodes that arrive.                                *)
LEMMA ClickCounts ==
  ASSUME TreeTyped, clicks < MaxClicks, clicks' = clicks + 1
  PROVE  clicks' \in 0..MaxClicks /\ clicks' \in Nat /\ 2 * (clicks' - clicks) = 2
BY ClickAssumption DEF TreeTyped

LEMMA SearchStep ==
  ASSUME TreeInv, Search
  PROVE  TreeInv'
<1> DEFINE n == IF filtered THEN 2 ELSE 1
<1>1. /\ clicks < MaxClicks /\ clicks' = clicks + 1 /\ filtered' = TRUE /\ filter' = text
      /\ visible' = FilterNodes(tree, text)
      /\ UNCHANGED <<index, changes, text, tree, loaded, fetches>>
      /\ UpdateFilteredBagCounts(n, {})
  BY DEF Search, treeServer
<1>2. n \in 0..2
  OBVIOUS
<1> HIDE DEF n
<1>3. TreeTyped /\ Paid
  BY DEF TreeInv
<1>4. /\ filteredBagCount' \in [Folders -> -1..Cardinality(Bags)]
      /\ asked' \in [Texts -> Nat] /\ \A t \in Texts : asked'[t] <= asked[t] + n
      /\ UNCHANGED <<answers, failed>>
  BY <1>1, <1>2, <1>3, AskStep
<1>5. clicks' \in 0..MaxClicks /\ clicks' \in Nat /\ 2 * (clicks' - clicks) = 2
  BY <1>1, <1>3, ClickCounts
<1>6. Paid'
  <2>1. IsFiniteSet(fetches') /\ Cardinality(fetches') \in Nat /\ Cardinality(fetches') = Cardinality(fetches)
    BY <1>1, <1>3, FS_CardinalityType DEF Paid
  <2>2. Cardinality(fetches') + n <= Cardinality(fetches) + 2 * (clicks' - clicks)
    BY <1>2, <1>5, <2>1
  <2>3. answers' = answers
    BY <1>4
  <2>4. QED
    BY <1>2, <1>3, <1>4, <1>5, <2>1, <2>2, <2>3, PaidStep
<1>7. visible' = Matching(tree, text)
  BY <1>1, <1>3, FilterMatches DEF TreeTyped
<1>8. TreeTyped' /\ Hanging'
  BY <1>1, <1>4, <1>5 DEF TreeInv, TreeTyped, Hanging
<1>9. QED
  BY <1>1, <1>6, <1>7, <1>8 DEF TreeInv, Matching

(* A click that asks for a folder that the tree shows, or for the root.    *)
LEMMA AskFolder ==
  ASSUME TreeInv, NEW f \in Places, f \in tree \cup {Root},
         clicks < MaxClicks, clicks' = clicks + 1,
         fetches' = fetches \cup {Request(f)}, loaded' \in {loaded, loaded \cup {f}},
         UNCHANGED <<index, changes, text, filtered, filter, tree, visible,
                     filteredBagCount, asked, answers, failed>>
  PROVE  TreeInv'
<1>1. TreeTyped /\ Paid
  BY DEF TreeInv
<1>2. clicks' \in 0..MaxClicks /\ clicks' \in Nat /\ 2 * (clicks' - clicks) = 2
  BY <1>1, ClickCounts
<1>3. /\ Request(f) \in Fetch /\ Request(f).of = f
      /\ Request(f).rows \subseteq InFolder(f)
  BY DEF Request, Fetch
<1>4. Paid'
  <2>1. IsFiniteSet(fetches)
    BY <1>1 DEF Paid
  <2>2. /\ IsFiniteSet(fetches')
        /\ \/ Cardinality(fetches') = Cardinality(fetches)
           \/ Cardinality(fetches') = Cardinality(fetches) + 1
    BY <2>1, FS_AddElement
  <2>3. Cardinality(fetches') + 0 <= Cardinality(fetches) + 2 * (clicks' - clicks)
    <3>1. Cardinality(fetches) \in Nat
      BY <2>1, FS_CardinalityType
    <3>2. QED
      BY <1>2, <2>2, <3>1
  <2>4. asked' \in [Texts -> Nat] /\ answers' = answers /\ \A t \in Texts : asked'[t] <= asked[t] + 0
    BY <1>1 DEF TreeTyped
  <2>5. 0 \in 0..2
    OBVIOUS
  <2>6. QED
    BY <1>1, <1>2, <2>2, <2>3, <2>4, <2>5, PaidStep
<1>5. TreeTyped'
  <2>1. loaded' \subseteq Places /\ fetches' \subseteq Fetch
    BY <1>1, <1>3 DEF TreeTyped
  <2>2. QED
    BY <1>1, <1>2, <2>1 DEF TreeTyped
<1>6. Hanging'
  BY <1>3 DEF TreeInv, Hanging
<1>7. QED
  BY <1>4, <1>5, <1>6 DEF TreeInv, Matching

LEMMA ExpandStep ==
  ASSUME TreeInv, NEW f \in Folders, Expand(f)
  PROVE  TreeInv'
<1>1. f \in Places /\ f \in tree \cup {Root}
  BY DEF Expand, Places, TreeInv, Matching
<1>2. /\ clicks < MaxClicks /\ clicks' = clicks + 1
      /\ fetches' = fetches \cup {Request(f)} /\ loaded' \in {loaded, loaded \cup {f}}
      /\ UNCHANGED <<index, changes, text, filtered, filter, tree, visible,
                     filteredBagCount, asked, answers, failed>>
  BY DEF Expand, treeServer, counts
<1>3. QED
  BY <1>1, <1>2, AskFolder

LEMMA RefreshStep ==
  ASSUME TreeInv, Refresh
  PROVE  TreeInv'
<1>1. Root \in Places /\ Root \in tree \cup {Root}
  BY DEF Places
<1>2. /\ clicks < MaxClicks /\ clicks' = clicks + 1
      /\ fetches' = fetches \cup {Request(Root)} /\ loaded' \in {loaded, loaded \cup {Root}}
      /\ UNCHANGED <<index, changes, text, filtered, filter, tree, visible,
                     filteredBagCount, asked, answers, failed>>
  BY DEF Refresh, treeServer, counts
<1>3. QED
  BY <1>1, <1>2, AskFolder

(* An answer that has arrived is paid with the request for counts it makes.*)
LEMMA PaidOnArrival ==
  ASSUME TreeTyped, Paid, NEW r \in fetches, NEW fresh,
         clicks' = clicks, IsFiniteSet(fetches'), Cardinality(fetches') <= Cardinality(fetches \ {r}),
         UpdateFilteredBagCounts(1, fresh)
  PROVE  /\ Paid' /\ filteredBagCount' \in [Folders -> -1..Cardinality(Bags)]
         /\ asked' \in [Texts -> Nat] /\ UNCHANGED <<answers, failed>>
<1>1. 1 \in 0..2
  OBVIOUS
<1>2. /\ filteredBagCount' \in [Folders -> -1..Cardinality(Bags)]
      /\ asked' \in [Texts -> Nat] /\ \A t \in Texts : asked'[t] <= asked[t] + 1
      /\ UNCHANGED <<answers, failed>>
  BY <1>1, AskStep
<1>3. clicks' \in Nat /\ 2 * (clicks' - clicks) = 0
  BY DEF TreeTyped
<1>4. Cardinality(fetches') + 1 <= Cardinality(fetches) + 2 * (clicks' - clicks)
  <2>1. IsFiniteSet(fetches)
    BY DEF Paid
  <2>2. Cardinality(fetches) \in Nat /\ Cardinality(fetches') \in Nat
    BY <2>1, FS_CardinalityType
  <2>3. Cardinality(fetches \ {r}) = Cardinality(fetches) - 1
    BY <2>1, FS_RemoveElement
  <2>4. QED
    BY <1>3, <2>2, <2>3
<1>5. answers' = answers
  BY <1>2
<1>6. Paid'
  BY <1>1, <1>2, <1>3, <1>4, <1>5, PaidStep
<1>7. QED
  BY <1>2, <1>6

LEMMA RootArrives ==
  ASSUME TreeInv, NEW r \in fetches, RootLoaded(r)
  PROVE  TreeInv'
<1> DEFINE Astray(q) == [q EXCEPT !.stray = TRUE]
<1>1. /\ r.of = Root /\ tree' = r.rows /\ visible' = FilterNodes(r.rows, filter)
      /\ loaded' = {Root} /\ fetches' = {Astray(q) : q \in fetches \ {r}}
      /\ UpdateFilteredBagCounts(1, r.rows)
      /\ UNCHANGED <<index, changes, clicks, text, filtered, filter>>
  BY DEF RootLoaded, Fill, treeServer, field
<1>2. TreeTyped /\ Paid /\ Hanging
  BY DEF TreeInv
<1>3. \A q \in fetches : /\ Astray(q) \in Fetch /\ Astray(q).of = q.of /\ Astray(q).stray
                         /\ Astray(q).rows = q.rows
  BY <1>2 DEF TreeTyped, Fetch
<1>4. r.rows \subseteq InFolder(Root) /\ r.rows \in SUBSET Nodes
  BY <1>1, <1>2 DEF Hanging, InFolder
<1> HIDE DEF Astray
<1>5. IsFiniteSet(fetches') /\ Cardinality(fetches') <= Cardinality(fetches \ {r})
  <2>1. IsFiniteSet(fetches \ {r})
    BY <1>2, FS_RemoveElement DEF Paid
  <2> DEFINE left == fetches \ {r}
  <2>2. IsFiniteSet(left) /\ fetches' = {Astray(q) : q \in left}
    BY <1>1, <2>1
  <2> HIDE DEF left
  <2> DEFINE goes == [q \in left |-> Astray(q)]
             gone == {Astray(q) : q \in left}
  <2>3. goes \in Surjection(left, gone)
    BY DEF Surjection
  <2> HIDE DEF goes, gone
  <2>4. IsFiniteSet(gone) /\ Cardinality(gone) <= Cardinality(left)
    BY <2>2, <2>3, FS_Surjection
  <2>5. QED
    BY <2>2, <2>4 DEF left, gone
<1>6. /\ Paid' /\ filteredBagCount' \in [Folders -> -1..Cardinality(Bags)]
      /\ asked' \in [Texts -> Nat] /\ UNCHANGED <<answers, failed>>
  BY <1>1, <1>2, <1>5, PaidOnArrival
<1>7. visible' = Matching(r.rows, filter)
  BY <1>1, <1>2, <1>4, FilterMatches DEF TreeTyped
<1>8. TreeTyped'
  <2>1. fetches' \subseteq Fetch /\ loaded' \subseteq Places /\ tree' \subseteq Nodes
    BY <1>1, <1>3, <1>4 DEF Places
  <2>2. QED
    BY <1>1, <1>2, <1>6, <2>1 DEF TreeTyped
<1>9. Hanging'
  <2>1. \A n \in tree' : Parent[n] \in tree' \cup {Root}
    BY <1>1, <1>4 DEF InFolder
  <2>2. \A q \in fetches' : q.stray /\ q.rows \subseteq InFolder(q.of)
    BY <1>1, <1>2, <1>3 DEF Hanging
  <2>3. QED
    BY <2>1, <2>2 DEF Hanging
<1>10. QED
  BY <1>1, <1>6, <1>7, <1>8, <1>9 DEF TreeInv, Matching

LEMMA FolderArrives ==
  ASSUME TreeInv, NEW r \in fetches, FolderLoaded(r)
  PROVE  TreeInv'
<1> DEFINE fresh == IF r.stray THEN {} ELSE r.rows
<1>1. /\ r.of # Root
      /\ IF r.stray THEN UNCHANGED <<tree, visible>>
         ELSE tree' = tree \cup r.rows /\ visible' = FilterNodes(tree \cup r.rows, filter)
      /\ fetches' = fetches \ {r} /\ UpdateFilteredBagCounts(1, fresh)
      /\ UNCHANGED <<index, changes, clicks, text, filtered, filter, loaded>>
  BY DEF FolderLoaded, Fill, treeServer, field
<1> HIDE DEF fresh
<1>2. TreeTyped /\ Paid /\ Hanging /\ visible = Matching(tree, filter)
  BY DEF TreeInv
<1>3. IsFiniteSet(fetches') /\ Cardinality(fetches') <= Cardinality(fetches \ {r})
  <2>1. IsFiniteSet(fetches')
    BY <1>1, <1>2, FS_RemoveElement DEF Paid
  <2>2. Cardinality(fetches') \in Nat
    BY <2>1, FS_CardinalityType
  <2>3. QED
    BY <1>1, <2>1, <2>2
<1>4. /\ Paid' /\ filteredBagCount' \in [Folders -> -1..Cardinality(Bags)]
      /\ asked' \in [Texts -> Nat] /\ UNCHANGED <<answers, failed>>
  BY <1>1, <1>2, <1>3, PaidOnArrival
<1>5. r.rows \subseteq InFolder(r.of)
  BY <1>2 DEF Hanging
<1>6. /\ tree' \subseteq Nodes /\ tree \subseteq tree' /\ visible' = Matching(tree', filter)
      /\ \A n \in tree' : Parent[n] \in tree' \cup {Root}
  <2>1. CASE r.stray
    BY <1>1, <1>2, <2>1 DEF TreeTyped, Hanging
  <2>2. CASE ~r.stray
    <3>1. r.of \in tree
      BY <1>1, <1>2, <2>2 DEF Hanging
    <3>2. tree \cup r.rows \in SUBSET Nodes
      BY <1>2, <1>5 DEF TreeTyped, InFolder
    <3>3. tree' = tree \cup r.rows /\ visible' = Matching(tree \cup r.rows, filter)
      BY <1>1, <1>2, <2>2, <3>2, FilterMatches DEF TreeTyped
    <3>4. \A n \in tree' : Parent[n] \in tree' \cup {Root}
      BY <1>2, <1>5, <3>1, <3>3 DEF Hanging, InFolder
    <3>5. QED
      BY <3>2, <3>3, <3>4
  <2>3. QED
    BY <2>1, <2>2
<1>7. TreeTyped'
  BY <1>1, <1>2, <1>4, <1>6 DEF TreeTyped
<1>8. Hanging'
  BY <1>1, <1>2, <1>6 DEF Hanging
<1>9. QED
  BY <1>1, <1>4, <1>6, <1>7, <1>8 DEF TreeInv, Matching

(* A load that fails leaves the tree alone.                                *)
LEMMA FolderFails ==
  ASSUME TreeInv, NEW r \in fetches, LoadFails(r)
  PROVE  TreeInv'
<1>1. /\ fetches' = fetches \ {r} /\ UpdateFilteredBagCounts(1, {})
      /\ loaded' \subseteq loaded \cup {Root}
      /\ UNCHANGED <<index, changes, clicks, text, filtered, filter, tree, visible>>
  BY DEF LoadFails, treeServer, field
<1>2. TreeTyped /\ Paid /\ Hanging /\ visible = Matching(tree, filter)
  BY DEF TreeInv
<1>3. IsFiniteSet(fetches') /\ Cardinality(fetches') <= Cardinality(fetches \ {r})
  <2>1. IsFiniteSet(fetches')
    BY <1>1, <1>2, FS_RemoveElement DEF Paid
  <2>2. Cardinality(fetches') \in Nat
    BY <2>1, FS_CardinalityType
  <2>3. QED
    BY <1>1, <2>1, <2>2
<1>4. /\ Paid' /\ filteredBagCount' \in [Folders -> -1..Cardinality(Bags)]
      /\ asked' \in [Texts -> Nat] /\ UNCHANGED <<answers, failed>>
  BY <1>1, <1>2, <1>3, PaidOnArrival
<1>5. TreeTyped'
  BY <1>1, <1>2, <1>4 DEF TreeTyped, Places
<1>6. Hanging'
  BY <1>1, <1>2 DEF Hanging
<1>7. QED
  BY <1>1, <1>2, <1>4, <1>5, <1>6 DEF TreeInv, Matching

LEMMA TreeStep ==
  ASSUME TreeInv, [TreeNext]_treeVars
  PROVE  TreeInv'
<1>1. CASE User
  <2>1. QED
    BY <1>1, SearchStep, RefreshStep, AsideStep, ExpandStep DEF User
<1>2. CASE Fetched \/ \E r \in fetches : LoadFails(r)
  BY <1>2, FolderServed, RootArrives, FolderArrives, FolderFails DEF Fetched
<1>3. CASE IndexChanges
  BY <1>3, AsideStep
<1>4. CASE \E t \in Texts : CheckFilteredBagCounts(t) \/ CountsFail(t)
  BY <1>4, CountsServed, CountsLost
<1>5. CASE \E t \in Texts, b \in SUBSET Bags : CountsAnswered(t, b)
  BY <1>5, CountsTaken
<1>6. CASE UNCHANGED treeVars
  <2>1. UNCHANGED <<index, changes, clicks, text, filtered, filter, tree, visible, loaded,
                    fetches, filteredBagCount, asked, answers, failed>>
    BY <1>6 DEF treeVars, treeServer, field, treeStore, counts
  <2>2. QED
    BY <2>1 DEF TreeInv, TreeTyped, Paid, Hanging, Matching
<1>7. QED
  BY <1>1, <1>2, <1>3, <1>4, <1>5, <1>6 DEF TreeNext

LEMMA TreeMeansTyped ==
  ASSUME TreeInv
  PROVE  TreeTypeOK
<1>1. TreeTyped /\ Paid
  BY DEF TreeInv
<1>2. clicks \in Nat /\ MaxClicks \in Nat /\ clicks <= MaxClicks /\ Cardinality(fetches) \in Nat
  BY <1>1, ClickAssumption, FS_CardinalityType DEF TreeTyped, Paid
<1>3. \A t \in Texts, b \in SUBSET Bags :
        asked[t] \in 0..MaxAsked /\ answers[<<t, b>>] \in 0..MaxAsked
  <2> TAKE t \in Texts, b \in SUBSET Bags
  <2>1. asked[t] \in Nat /\ answers[<<t, b>>] \in Nat
    BY <1>1 DEF TreeTyped
  <2>2. asked[t] + answers[<<t, b>>] + Cardinality(fetches) <= 2 * clicks + 1
    BY <1>1 DEF Paid
  <2>3. QED
    BY <1>2, <2>1, <2>2 DEF MaxAsked
<1>4. asked \in [Texts -> 0..MaxAsked]
  <2>1. \A t \in Texts : asked[t] \in 0..MaxAsked
    <3> TAKE t \in Texts
    <3>1. {} \in SUBSET Bags
      OBVIOUS
    <3>2. QED
      BY <1>3, <3>1
  <2>2. QED
    BY <1>1, <2>1 DEF TreeTyped
<1>5. answers \in [Texts \X SUBSET Bags -> 0..MaxAsked]
  <2>1. \A a \in Texts \X SUBSET Bags : answers[a] \in 0..MaxAsked
    BY <1>3
  <2>2. QED
    BY <1>1, <2>1 DEF TreeTyped
<1>6. visible \subseteq tree
  BY DEF TreeInv, Matching
<1>7. filteredBagCount \in [Folders -> -1..Cardinality(Bags)]
  BY <1>1 DEF TreeTyped
<1>8. QED
  BY <1>1, <1>4, <1>5, <1>6, <1>7 DEF TreeTyped, TreeTypeOK

LEMMA TreeMeansShown ==
  ASSUME TreeInv
  PROVE  FilterShowsMatches
<1>1. visible = {n \in tree : n \in Folders \/ n \in Shown[filter]}
  BY DEF TreeInv, Matching
<1>2. \A n \in tree : Parent[n] \in tree \cup {Root} /\ Parent[n] \in Folders \cup {Root}
  BY TreeAssumption DEF TreeInv, TreeTyped, Hanging, Nodes
<1>3. QED
  BY <1>1, <1>2 DEF FilterShowsMatches

LEMMA TreeAlways == TreeSpec => []TreeInv
<1>1. TreeInit => TreeInv
  BY TreeStarts
<1>2. TreeInv /\ [TreeNext]_treeVars => TreeInv'
  BY TreeStep
<1>3. QED
  BY <1>1, <1>2, PTL DEF TreeSpec

(* The panel's variables stay in their types; in particular, no more       *)
(* requests for counts and answers to them are on their way for a text     *)
(* than the clicks account for: two for a search that replaces another     *)
(* (clearFilter and filter), one for each load.                            *)
THEOREM TreeTypeCorrect == TreeSpec => []TreeTypeOK
<1>1. TreeInv => TreeTypeOK
  BY TreeMeansTyped
<1>2. QED
  BY <1>1, TreeAlways, PTL

(* The tree shows each folder that it has and exactly the bags whose names *)
(* match the filter, and every visible node can be reached, in whatever    *)
(* order folders are loaded, replaced by a refresh, lost on the way or     *)
(* searched (filterNodes, and the store's load).                           *)
THEOREM FilterShown == TreeSpec => []FilterShowsMatches
<1>1. TreeInv => FilterShowsMatches
  BY TreeMeansShown
<1>2. QED
  BY <1>1, TreeAlways, PTL
=============================================================================
