-------------------------- MODULE BagDetailsProofs --------------------------
(***************************************************************************)
(* Proofs about BagDetails, for any windows, fields, tags, values and      *)
(* bounds: what a window shows after its save has succeeded is what the    *)
(* row holds, until somebody else writes it, except where the window shows *)
(* an empty string, a 0 or half a coordinate and the row has nothing.      *)
(***************************************************************************)
EXTENDS BagDetails, FiniteSetTheorems, TLAPS

(* A window gets its bag once, before it can be edited, and one that is    *)
(* not open has no save.                                                   *)
Fresh(w) ==
  /\ getting[w] # "no" => window[w] = "loading"
  /\ window[w] # "open" => outcome[w] = "none" /\ saving[w] = "no"

(* LastSaveShown already when the save has been committed and the window   *)
(* has not been told.                                                      *)
Written(w) ==
  (lastSaver = {w} /\ (saving[w] = "done" \/ (outcome[w] = "done" /\ ~saveOn[w] /\ saving[w] = "no")))
    => \A f \in Fields : ShownAs(source[w].fields, stored.fields, f)

(* Each request about tags makes each window load them at most once.       *)
Counted ==
  /\ IsFiniteSet(requests)
  /\ \A w \in Windows, tags \in TagValues :
       asked[w] + tagLists[w][tags] + Cardinality(requests) <= opCount

Typed ==
  /\ there \in BOOLEAN /\ stored \in Bag /\ others \in 0..MaxChanges
  /\ window \in [Windows -> {"new", "loading", "open", "closed"}]
  /\ getting \in [Windows -> {"no", "sent", "found", "missing"}]
  /\ source \in [Windows -> Bag]
  /\ saveOn \in [Windows -> BOOLEAN] /\ edits \in 0..MaxChanges
  /\ saving \in [Windows -> {"no", "sent", "done", "refused"}] /\ late \subseteq Bag
  /\ shownTags \in [Windows -> TagValues] /\ lastSaver \subseteq Windows
  /\ outcome \in [Windows -> {"none", "done", "refused", "lost"}]

TagTyped ==
  /\ opCount \in 0..MaxChanges /\ requests \subseteq TagRequest
  /\ asked \in [Windows -> Nat] /\ tagLists \in [Windows -> [TagValues -> Nat]]

IInv == Typed /\ TagTyped /\ Counted /\ \A w \in Windows : Fresh(w) /\ Written(w)

(* The row that a save writes: its coordinate is complete or null.         *)
LEMMA FittedTyped ==
  ASSUME NEW fields \in FieldValues
  PROVE  Fitted(fields) \in FieldValues
BY FieldAssumption DEF Fitted, FieldValues

LEMMA FittedShown ==
  ASSUME NEW fields \in FieldValues, NEW f \in Fields
  PROVE  ShownAs(fields, Fitted(fields), f)
<1>1. CASE \E c \in Coordinates : fields[c] = Null
  <2>1. PICK c \in Coordinates : fields[c] \in Falsy
    BY <1>1, FieldAssumption
  <2>2. Fitted(fields)[f] = IF f \in Coordinates THEN Null ELSE fields[f]
    BY <1>1 DEF Fitted
  <2>3. QED
    BY <2>1, <2>2 DEF ShownAs
<1>2. CASE ~\E c \in Coordinates : fields[c] = Null
  BY <1>2 DEF Fitted, ShownAs
<1>3. QED
  BY <1>1, <1>2

LEMMA NoTagsTyped == NoTags \in TagValues
BY DEF NoTags, TagValues

LEMMA IInvTypeOK == IInv => TypeOK
<1> SUFFICES ASSUME IInv  PROVE TypeOK
  OBVIOUS
<1>1. Cardinality(requests) \in Nat
  BY FS_CardinalityType DEF IInv, Counted
<1>2. ASSUME NEW w \in Windows, NEW tags \in TagValues
      PROVE  asked[w] \in 0..MaxChanges /\ tagLists[w][tags] \in 0..MaxChanges
  <2>1. asked[w] + tagLists[w][tags] + Cardinality(requests) <= opCount
    BY DEF IInv, Counted
  <2>2. asked[w] \in Nat /\ tagLists[w][tags] \in Nat /\ opCount \in 0..MaxChanges
    BY DEF IInv, TagTyped
  <2>3. QED
    BY <1>1, <2>1, <2>2, BoundAssumption
<1>3. asked \in [Windows -> 0..MaxChanges]
  BY <1>2, NoTagsTyped DEF IInv, TagTyped
<1>4. tagLists \in [Windows -> [TagValues -> 0..MaxChanges]]
  BY <1>2 DEF IInv, TagTyped
<1>5. QED
  BY <1>3, <1>4 DEF IInv, Typed, TagTyped, TypeOK

(* While anything may change, each of the counts is below the bound.       *)
LEMMA BelowBound ==
  ASSUME IInv, CanChange
  PROVE  /\ edits + 1 \in 0..MaxChanges /\ others + 1 \in 0..MaxChanges
         /\ opCount < MaxChanges
<1>1. edits \in Nat /\ opCount \in Nat /\ others \in Nat /\ MaxChanges \in Nat
  BY BoundAssumption DEF IInv, Typed, TagTyped
<1>2. edits + opCount + others < MaxChanges
  BY DEF CanChange
<1>3. QED
  BY <1>1, <1>2

LEMMA InitIInv == Init => IInv
<1> SUFFICES ASSUME Init  PROVE IInv
  OBVIOUS
<1>1. Typed
  BY FirstAssumption, BoundAssumption, NoTagsTyped DEF Init, Typed
<1>2. TagTyped
  BY BoundAssumption DEF Init, TagTyped
<1>3. Counted
  BY FS_EmptySet DEF Init, Counted
<1>4. \A w \in Windows : Fresh(w) /\ Written(w)
  BY DEF Init, Fresh, Written
<1>5. QED
  BY <1>1, <1>2, <1>3, <1>4 DEF IInv

(* A step that leaves the row's fields, this window's copy and its saves   *)
(* alone keeps what is said of it.                                         *)
LEMMA WindowKeeps ==
  ASSUME NEW w \in Windows, Fresh(w), Written(w),
         stored'.fields = stored.fields, source'[w] = source[w], lastSaver' = lastSaver,
         window'[w] = window[w], getting'[w] = getting[w],
         saveOn'[w] = saveOn[w], saving'[w] = saving[w], outcome'[w] = outcome[w]
  PROVE  Fresh(w)' /\ Written(w)'
BY DEF Fresh, Written

LEMMA TagsKeep == TagTyped /\ Counted /\ UNCHANGED <<opCount, requests, asked, tagLists>> => TagTyped' /\ Counted'
BY DEF TagTyped, Counted

(* Opening and closing.                                                    *)
LEMMA OpenStep ==
  ASSUME IInv, NEW w \in Windows, Open(w) \/ GetBag(w) \/ BagLoaded(w)
  PROVE  IInv'
<1> USE DEF IInv, Typed, db, saveVars, tagVars, seen
<1>1. /\ UNCHANGED <<stored, others, saveOn, saving, outcome, lastSaver, opCount, requests, asked, tagLists>>
      /\ \A v \in Windows \ {w} : window'[v] = window[v] /\ getting'[v] = getting[v] /\ source'[v] = source[v]
      /\ window[w] # "open"
  BY DEF Open, GetBag, BagLoaded, Fresh
<1>2. TagTyped' /\ Counted'
  BY <1>1, TagsKeep
<1>3. Typed'
  <2>1. \A v \in Windows : source[v].tags \in TagValues
    BY DEF Bag
  <2>2. QED
    BY <2>1 DEF Open, GetBag, BagLoaded
<1>4. \A v \in Windows \ {w} : Fresh(v)' /\ Written(v)'
  BY <1>1, WindowKeeps
<1>5. Fresh(w)' /\ Written(w)'
  BY <1>1 DEF Open, GetBag, BagLoaded, Fresh, Written
<1>6. QED
  BY <1>2, <1>3, <1>4, <1>5

LEMMA CloseStep ==
  ASSUME IInv, NEW w \in Windows, Close(w)
  PROVE  IInv'
<1> USE DEF IInv, Typed, db
<1>1. /\ window' = [window EXCEPT ![w] = "closed"] /\ getting' = [getting EXCEPT ![w] = "no"]
      /\ late' \subseteq late \cup {source[w]}
      /\ saving' = [saving EXCEPT ![w] = "no"] /\ saveOn' = [saveOn EXCEPT ![w] = FALSE]
      /\ source' = [source EXCEPT ![w] = First] /\ shownTags' = [shownTags EXCEPT ![w] = NoTags]
      /\ asked' = [asked EXCEPT ![w] = 0]
      /\ tagLists' = [tagLists EXCEPT ![w] = [s \in TagValues |-> 0]]
      /\ outcome' = [outcome EXCEPT ![w] = "none"]
      /\ UNCHANGED <<there, stored, others, edits, opCount, requests, lastSaver>>
  BY DEF Close, GiveUp
<1>2. Typed'
  BY <1>1, FirstAssumption, NoTagsTyped
<1>3. TagTyped'
  BY <1>1 DEF TagTyped
<1>4. Counted'
  <2>1. Cardinality(requests) \in Nat
    BY FS_CardinalityType DEF Counted
  <2>2. ASSUME NEW v \in Windows, NEW tags \in TagValues
        PROVE  asked'[v] <= asked[v] /\ tagLists'[v][tags] <= tagLists[v][tags]
               /\ asked'[v] \in Nat /\ tagLists'[v][tags] \in Nat
    BY <1>1 DEF TagTyped
  <2>3. QED
    BY <1>1, <2>1, <2>2 DEF Counted, TagTyped
<1>5. ASSUME NEW v \in Windows  PROVE Fresh(v)' /\ Written(v)'
  <2>1. CASE v = w
    BY <1>1, <2>1 DEF Fresh, Written
  <2>2. CASE v # w
    BY <1>1, <2>2, WindowKeeps
  <2>3. QED
    BY <2>1, <2>2
<1>6. QED
  BY <1>2, <1>3, <1>4, <1>5
(* Editing and saving.                                                     *)
LEMMA MergedTyped ==
  ASSUME Typed, NEW bag \in Bag
  PROVE  [fields |-> Fitted(bag.fields), tags |-> Merged(bag.tags)] \in Bag
<1>1. stored.tags \in TagValues /\ bag.tags \in TagValues /\ bag.fields \in FieldValues
  BY DEF Typed, Bag
<1>2. Merged(bag.tags) \in TagValues
  BY <1>1 DEF Merged, TagValues
<1>3. QED
  BY <1>1, <1>2, FittedTyped DEF Bag

LEMMA EditStep ==
  ASSUME IInv, NEW w \in Windows, NEW f \in Fields, NEW v \in Values, Edit(w, f, v)
  PROVE  IInv'
<1> USE DEF IInv, Typed, db, tagVars, seen
<1> DEFINE bag == [source[w] EXCEPT !.fields = [source[w].fields EXCEPT ![f] = v]]
<1>1. bag \in Bag
  <2>1. source[w] \in Bag /\ [source[w].fields EXCEPT ![f] = v] \in FieldValues
    BY DEF Bag, FieldValues
  <2>2. QED
    BY <2>1 DEF Bag
<1>2. /\ source' = [source EXCEPT ![w] = bag]
      /\ saveOn' = [saveOn EXCEPT ![w] = @ \/ source[w].fields[f] # (IF v \in Falsy THEN Null ELSE v)]
      /\ edits' \in 0..MaxChanges /\ window[w] = "open" /\ saving[w] = "no"
      /\ UNCHANGED <<there, stored, others, window, getting, saving, late, outcome, lastSaver, shownTags,
                     opCount, requests, asked, tagLists>>
  BY BelowBound DEF Edit
<1>3. /\ bag.fields[f] = v /\ \A g \in Fields \ {f} : bag.fields[g] = source[w].fields[g]
  BY DEF Bag, FieldValues
<1> HIDE DEF bag
<1>4. Typed'
  BY <1>1, <1>2
<1>5. TagTyped' /\ Counted'
  BY <1>2, TagsKeep
<1>6. ASSUME NEW u \in Windows  PROVE Fresh(u)' /\ Written(u)'
  <2>1. CASE u = w
    <3>1. Fresh(w)'
      BY <1>2 DEF Fresh
    <3>2. SUFFICES ASSUME lastSaver = {w}, outcome[w] = "done", ~saveOn[w],
                          source[w].fields[f] = (IF v \in Falsy THEN Null ELSE v), NEW g \in Fields
                   PROVE  ShownAs(bag.fields, stored.fields, g)
      BY <1>2, <2>1, <3>1 DEF Written
    <3>3. ShownAs(source[w].fields, stored.fields, g) /\ ShownAs(source[w].fields, stored.fields, f)
      BY <1>2, <3>2 DEF Written
    <3>4. \A h \in Fields : source[w].fields[h] \in Falsy => bag.fields[h] \in Falsy
      BY <1>3, <3>2, FieldAssumption
    <3>5. CASE g = f
      BY <1>3, <3>2, <3>3, <3>4, <3>5, FieldAssumption DEF ShownAs
    <3>6. CASE g # f
      BY <1>3, <3>3, <3>4, <3>6, FieldAssumption DEF ShownAs
    <3>7. QED
      BY <3>5, <3>6
  <2>2. CASE u # w
    BY <1>2, <2>2, WindowKeeps
  <2>3. QED
    BY <2>1, <2>2
<1>7. QED
  BY <1>4, <1>5, <1>6

(* Clicking Save, an exception, and answers.                               *)
LEMMA SaveStep ==
  ASSUME IInv, NEW w \in Windows,
         Save(w) \/ RefuseSave(w) \/ SaveAnswered(w) \/ SaveLost(w)
  PROVE  IInv'
<1> USE DEF IInv, Typed, db, tagVars, seen
<1>1. /\ UNCHANGED <<there, stored, others, window, getting, source, edits, lastSaver, shownTags,
                     opCount, requests, asked, tagLists>>
      /\ late' \subseteq late \cup {source[w]}
      /\ \A u \in Windows \ {w} : /\ saveOn'[u] = saveOn[u] /\ saving'[u] = saving[u]
                                   /\ outcome'[u] = outcome[u]
  BY DEF Save, RefuseSave, SaveAnswered, SaveLost, GiveUp
<1>2. /\ saveOn' \in [Windows -> BOOLEAN]
      /\ saving' \in [Windows -> {"no", "sent", "done", "refused"}]
      /\ outcome' \in [Windows -> {"none", "done", "refused", "lost"}]
  <2>1. CASE Save(w)
    BY <2>1 DEF Save
  <2>2. CASE RefuseSave(w)
    BY <2>2 DEF RefuseSave
  <2>3. CASE SaveAnswered(w)
    BY <2>3 DEF SaveAnswered
  <2>4. CASE SaveLost(w)
    BY <2>4 DEF SaveLost
  <2>5. QED
    BY <2>1, <2>2, <2>3, <2>4
<1>3. Typed' /\ TagTyped' /\ Counted'
  BY <1>1, <1>2, TagsKeep
<1>4. \A u \in Windows \ {w} : Fresh(u)' /\ Written(u)'
  BY <1>1, WindowKeeps
<1>5. Fresh(w)' /\ Written(w)'
  BY <1>1 DEF Save, RefuseSave, SaveAnswered, SaveLost, Fresh, Written
<1>6. QED
  BY <1>3, <1>4, <1>5

LEMMA UpdateStep ==
  ASSUME IInv, NEW w \in Windows, UpdateBag(w)
  PROVE  IInv'
<1> USE DEF IInv, Typed, db, tagVars, seen
<1> DEFINE bag == [fields |-> Fitted(source[w].fields), tags |-> Merged(source[w].tags)]
<1>1. bag \in Bag /\ \A f \in Fields : ShownAs(source[w].fields, bag.fields, f)
  BY MergedTyped, FittedShown DEF Bag
<1> HIDE DEF bag
<1>2. /\ stored' = bag /\ saving[w] = "sent" /\ saving' = [saving EXCEPT ![w] = "done"]
      /\ lastSaver' = {w}
      /\ UNCHANGED <<there, others, window, getting, source, saveOn, late, edits, outcome, shownTags,
                     opCount, requests, asked, tagLists>>
  BY DEF UpdateBag, CommitSave, bag
<1>3. Typed' /\ TagTyped' /\ Counted'
  BY <1>1, <1>2, TagsKeep
<1>4. ASSUME NEW u \in Windows  PROVE Fresh(u)' /\ Written(u)'
  <2>1. CASE u = w
    BY <1>1, <1>2, <2>1 DEF Fresh, Written
  <2>2. CASE u # w
    BY <1>2, <2>2 DEF Fresh, Written
  <2>3. QED
    BY <2>1, <2>2
<1>5. QED
  BY <1>3, <1>4

(* A save that nobody waits for any more.                                  *)
LEMMA LateStep ==
  ASSUME IInv, NEW bag \in late, LateSave(bag)
  PROVE  IInv'
<1> USE DEF IInv, Typed, db, tagVars, seen
<1> DEFINE new == [fields |-> Fitted(bag.fields), tags |-> Merged(bag.tags)]
<1>1. new \in Bag
  BY MergedTyped
<1> HIDE DEF new
<1>2. /\ late' \subseteq late
      /\ (stored' = new /\ lastSaver' = {}) \/ UNCHANGED <<stored, lastSaver>>
      /\ UNCHANGED <<there, others, window, getting, source, saveOn, saving, edits, outcome, shownTags,
                     opCount, requests, asked, tagLists>>
  BY DEF LateSave, new
<1>3. Typed' /\ TagTyped' /\ Counted'
  BY <1>1, <1>2, TagsKeep
<1>4. ASSUME NEW u \in Windows  PROVE Fresh(u)' /\ Written(u)'
  BY <1>2 DEF Fresh, Written
<1>5. QED
  BY <1>3, <1>4

(* What a scan or a script writes, no window has saved.                    *)
LEMMA OthersStep ==
  ASSUME IInv, NEW bag \in Bag, OtherWrites(bag)
  PROVE  IInv'
<1> USE DEF IInv, Typed, saveVars, tagVars
<1> DEFINE new == [bag EXCEPT !.fields = Fitted(@)]
<1>1. new \in Bag
  BY FittedTyped DEF Bag
<1> HIDE DEF new
<1>2. /\ stored' = new /\ lastSaver' = {} /\ others' \in 0..MaxChanges
      /\ UNCHANGED <<there, window, getting, source, saveOn, saving, late, edits, outcome, shownTags,
                     opCount, requests, asked, tagLists>>
  BY BelowBound DEF OtherWrites, new
<1>3. Typed' /\ TagTyped' /\ Counted'
  BY <1>1, <1>2, TagsKeep
<1>4. ASSUME NEW u \in Windows  PROVE Fresh(u)' /\ Written(u)'
  BY <1>2 DEF Fresh, Written
<1>5. QED
  BY <1>3, <1>4

(* Tags.  The fields of the row stay as they are.                          *)
LEMMA SetTagsTyped ==
  ASSUME Typed, NEW tags \in TagValues
  PROVE  [stored EXCEPT !.tags = tags] \in Bag /\ [stored EXCEPT !.tags = tags].fields = stored.fields
BY DEF Typed, Bag

LEMMA TagsOnly ==
  ASSUME IInv, stored' = stored \/ \E tags \in TagValues : stored' = [stored EXCEPT !.tags = tags],
         there' \in BOOLEAN, others' = others, shownTags' \in [Windows -> TagValues],
         UNCHANGED <<window, getting, source, saveVars, seen>>, TagTyped', Counted'
  PROVE  IInv'
<1>1. stored' \in Bag /\ stored'.fields = stored.fields
  <2>1. Typed /\ stored \in Bag
    BY DEF IInv, Typed
  <2>2. ASSUME NEW tags \in TagValues, stored' = [stored EXCEPT !.tags = tags]
        PROVE  stored' \in Bag /\ stored'.fields = stored.fields
    BY <2>1, <2>2, SetTagsTyped
  <2>3. QED
    BY <2>1, <2>2
<1>2. Typed'
  BY <1>1 DEF IInv, Typed, saveVars, seen
<1>3. \A w \in Windows : Fresh(w)' /\ Written(w)'
  BY <1>1 DEF IInv, Fresh, Written, saveVars, seen
<1>4. QED
  BY <1>2, <1>3 DEF IInv

LEMMA RemovedStep == IInv /\ BagRemoved => IInv'
<1> SUFFICES ASSUME IInv, BagRemoved  PROVE IInv'
  OBVIOUS
<1>1. TagTyped' /\ Counted'
  BY TagsKeep DEF IInv, BagRemoved, tagVars
<1>2. QED
  BY <1>1, NoTagsTyped, TagsOnly DEF IInv, Typed, BagRemoved, tagVars

LEMMA RequestStep ==
  ASSUME IInv, NEW op \in Op, Request(op)
  PROVE  IInv'
<1> USE DEF IInv
<1> DEFINE r == [id |-> opCount', op |-> op, stage |-> "sent"]
<1>1. /\ opCount' = opCount + 1 /\ opCount < MaxChanges /\ requests' = requests \cup {r}
      /\ UNCHANGED <<db, window, getting, source, saveVars, shownTags, asked, tagLists, seen>>
  BY BelowBound DEF Request
<1>2. r \in TagRequest
  BY <1>1, BoundAssumption DEF TagTyped, TagRequest
<1> HIDE DEF r
<1>3. TagTyped'
  BY <1>1, <1>2, BoundAssumption DEF TagTyped
<1>4. /\ IsFiniteSet(requests') /\ Cardinality(requests) \in Nat /\ Cardinality(requests') \in Nat
      /\ Cardinality(requests') <= Cardinality(requests) + 1
  <2>1. IsFiniteSet(requests)
    BY DEF Counted
  <2>2. IsFiniteSet(requests \cup {r}) /\ Cardinality(requests) \in Nat
        /\ Cardinality(requests \cup {r}) \in {Cardinality(requests), Cardinality(requests) + 1}
    BY <2>1, FS_AddElement, FS_CardinalityType
  <2>3. QED
    BY <1>1, <2>2
<1>5. Counted'
  <2>1. ASSUME NEW w \in Windows, NEW tags \in TagValues
        PROVE  asked'[w] + tagLists'[w][tags] + Cardinality(requests') <= opCount'
    <3>1. asked[w] + tagLists[w][tags] + Cardinality(requests) <= opCount
      BY DEF Counted
    <3>2. asked[w] \in Nat /\ tagLists[w][tags] \in Nat /\ opCount \in Nat
      BY BoundAssumption DEF TagTyped
    <3>3. QED
      BY <1>1, <1>4, <3>1, <3>2
  <2>2. QED
    BY <1>4, <2>1 DEF Counted
<1>6. QED
  BY <1>1, <1>3, <1>5, TagsOnly DEF db, Typed

LEMMA EffectTyped ==
  ASSUME Typed, NEW op \in Op
  PROVE  Effect(op) \in TagValues
<1>1. stored.tags \in TagValues
  BY DEF Typed, Bag
<1>2. CASE op.does = "set"
  <2>1. op.tag \in Tags /\ op.value \in Texts
    BY <1>2 DEF Op
  <2>2. QED
    BY <1>1, <1>2, <2>1 DEF Effect, TagValues
<1>3. CASE op.does # "set"
  BY <1>1, <1>3 DEF Effect, TagValues
<1>4. QED
  BY <1>2, <1>3

LEMMA ServeStep ==
  ASSUME IInv, NEW r \in requests, ServeTags(r)
  PROVE  IInv'
<1> USE DEF IInv
<1>1. r \in TagRequest /\ r.op \in Op
  BY DEF TagTyped, TagRequest
<1>2. PICK q \in TagRequest : requests' = (requests \ {r}) \cup {q}
  <2>1. [r EXCEPT !.stage = "done"] \in TagRequest /\ [r EXCEPT !.stage = "failed"] \in TagRequest
    BY <1>1 DEF TagRequest
  <2>2. QED
    BY <2>1 DEF ServeTags
<1>3. /\ IsFiniteSet(requests') /\ Cardinality(requests) \in Nat /\ Cardinality(requests') \in Nat
      /\ Cardinality(requests') <= Cardinality(requests)
  <2>1. IsFiniteSet(requests \ {r}) /\ Cardinality(requests \ {r}) = Cardinality(requests) - 1
    BY FS_RemoveElement DEF Counted
  <2>2. QED
    BY <1>2, <2>1, FS_AddElement, FS_CardinalityType DEF Counted
<1>4. UNCHANGED <<there, others, window, getting, source, saveVars, shownTags, opCount, asked, tagLists, seen>>
  BY DEF ServeTags
<1>5. TagTyped' /\ Counted'
  <2>1. TagTyped'
    BY <1>2, <1>4 DEF TagTyped
  <2>2. ASSUME NEW w \in Windows, NEW tags \in TagValues
        PROVE  asked'[w] + tagLists'[w][tags] + Cardinality(requests') <= opCount'
    <3>1. asked[w] + tagLists[w][tags] + Cardinality(requests) <= opCount
      BY DEF Counted
    <3>2. asked[w] \in Nat /\ tagLists[w][tags] \in Nat /\ opCount \in Nat
      BY BoundAssumption DEF TagTyped
    <3>3. QED
      BY <1>3, <1>4, <3>1, <3>2
  <2>3. QED
    BY <1>3, <2>1, <2>2 DEF Counted
<1>6. stored' = stored \/ stored' = [stored EXCEPT !.tags = Effect(r.op)]
  BY DEF ServeTags
<1>7. QED
  BY <1>1, <1>4, <1>5, <1>6, EffectTyped, TagsOnly DEF Typed

LEMMA AnsweredStep ==
  ASSUME IInv, NEW r \in requests, TagsAnswered(r)
  PROVE  IInv'
<1> USE DEF IInv
<1>1. r.op.of \in Windows
  BY DEF TagTyped, TagRequest, Op
<1>2. /\ requests' = requests \ {r}
      /\ asked' = asked \/ asked' = [asked EXCEPT ![r.op.of] = @ + 1]
      /\ UNCHANGED <<db, window, getting, source, saveVars, shownTags, opCount, tagLists, seen>>
  BY DEF TagsAnswered
<1>3. IsFiniteSet(requests') /\ Cardinality(requests) \in Nat /\ Cardinality(requests') = Cardinality(requests) - 1
  BY <1>2, FS_RemoveElement, FS_CardinalityType DEF Counted
<1>4. TagTyped'
  BY <1>2 DEF TagTyped
<1>5. \A w \in Windows : asked'[w] <= asked[w] + 1
  BY <1>2 DEF TagTyped
<1>6. Counted'
  <2>1. ASSUME NEW w \in Windows, NEW tags \in TagValues
        PROVE  asked'[w] + tagLists'[w][tags] + Cardinality(requests') <= opCount'
    <3>1. asked[w] + tagLists[w][tags] + Cardinality(requests) <= opCount
      BY DEF Counted
    <3>2. asked[w] \in Nat /\ asked'[w] \in Nat /\ tagLists[w][tags] \in Nat /\ opCount \in Nat
      BY <1>4, BoundAssumption DEF TagTyped
    <3>3. QED
      BY <1>2, <1>3, <1>5, <3>1, <3>2
  <2>2. QED
    BY <1>3, <2>1 DEF Counted
<1>7. QED
  BY <1>2, <1>4, <1>6, TagsOnly DEF db, Typed

(* One list more on its way for a request less, and one less when it has   *)
(* come.                                                                   *)
LEMMA ListStep ==
  ASSUME IInv, NEW w \in Windows,
         GetTagsForBag(w) \/ \E tags \in TagValues : TagsLoaded(w, tags)
  PROVE  IInv'
<1> USE DEF IInv
<1>1. UNCHANGED <<db, window, getting, source, saveVars, opCount, requests, seen>>
  BY DEF GetTagsForBag, TagsLoaded
<1>2. stored.tags \in TagValues
  BY DEF Typed, Bag
<1>3. TagTyped' /\ shownTags' \in [Windows -> TagValues]
  <2>1. CASE GetTagsForBag(w)
    <3>1. asked[w] \in Nat \ {0} /\ tagLists[w][stored.tags] \in Nat /\ tagLists[w] \in [TagValues -> Nat]
      BY <1>2, <2>1 DEF TagTyped, GetTagsForBag
    <3>2. asked' \in [Windows -> Nat]
      BY <2>1, <3>1 DEF TagTyped, GetTagsForBag
    <3>3. [tagLists[w] EXCEPT ![stored.tags] = @ + 1] \in [TagValues -> Nat]
      BY <1>2, <3>1
    <3>4. tagLists' = [tagLists EXCEPT ![w] = [tagLists[w] EXCEPT ![stored.tags] = @ + 1]]
      BY <2>1 DEF GetTagsForBag
    <3>5. QED
      BY <1>1, <2>1, <3>2, <3>3, <3>4 DEF TagTyped, Typed, GetTagsForBag
  <2>2. ASSUME NEW tags \in TagValues, TagsLoaded(w, tags)
        PROVE  TagTyped' /\ shownTags' \in [Windows -> TagValues]
    <3>1. tagLists[w][tags] \in Nat \ {0} /\ tagLists[w] \in [TagValues -> Nat]
      BY <2>2 DEF TagTyped, TagsLoaded
    <3>2. [tagLists[w] EXCEPT ![tags] = @ - 1] \in [TagValues -> Nat]
      BY <3>1
    <3>3. tagLists' = [tagLists EXCEPT ![w] = [tagLists[w] EXCEPT ![tags] = @ - 1]]
      BY <2>2 DEF TagsLoaded
    <3>4. QED
      BY <1>1, <2>2, <3>2, <3>3 DEF TagTyped, Typed, TagsLoaded
  <2>3. QED
    BY <2>1, <2>2
<1>4. ASSUME NEW v \in Windows, NEW tags \in TagValues
      PROVE  asked'[v] + tagLists'[v][tags] <= asked[v] + tagLists[v][tags]
  <2>1. asked[v] \in Nat /\ tagLists[v][tags] \in Nat /\ asked[w] \in Nat
        /\ asked \in [Windows -> Nat] /\ tagLists \in [Windows -> [TagValues -> Nat]]
    BY DEF TagTyped
  <2>2. CASE GetTagsForBag(w)
    <3>1. asked'[v] = IF v = w THEN asked[v] - 1 ELSE asked[v]
      BY <2>1, <2>2 DEF GetTagsForBag
    <3>2. tagLists'[v][tags] = IF v = w /\ tags = stored.tags THEN tagLists[v][tags] + 1 ELSE tagLists[v][tags]
      BY <1>2, <2>1, <2>2 DEF GetTagsForBag
    <3>3. QED
      BY <2>1, <3>1, <3>2
  <2>3. ASSUME NEW new \in TagValues, TagsLoaded(w, new)
        PROVE  asked'[v] + tagLists'[v][tags] <= asked[v] + tagLists[v][tags]
    <3>1. tagLists'[v][tags] = IF v = w /\ tags = new THEN tagLists[v][tags] - 1 ELSE tagLists[v][tags]
      BY <2>1, <2>3 DEF TagsLoaded
    <3>2. asked' = asked
      BY <2>3 DEF TagsLoaded
    <3>3. QED
      BY <2>1, <3>1, <3>2
  <2>4. QED
    BY <2>2, <2>3
<1>5. Counted'
  <2>1. Cardinality(requests) \in Nat
    BY FS_CardinalityType DEF Counted
  <2>2. ASSUME NEW v \in Windows, NEW tags \in TagValues
        PROVE  asked'[v] + tagLists'[v][tags] + Cardinality(requests') <= opCount'
    <3>1. asked[v] + tagLists[v][tags] + Cardinality(requests) <= opCount
      BY DEF Counted
    <3>2. asked[v] \in Nat /\ tagLists[v][tags] \in Nat /\ opCount \in Nat
          /\ asked'[v] \in Nat /\ tagLists'[v][tags] \in Nat
      BY <1>3, BoundAssumption DEF TagTyped
    <3>3. QED
      BY <1>1, <1>4, <2>1, <3>1, <3>2
  <2>3. QED
    BY <1>1, <2>2 DEF Counted
<1>6. QED
  BY <1>1, <1>3, <1>5, TagsOnly DEF db, Typed
LEMMA Step == IInv /\ [Next]_vars => IInv'
<1> SUFFICES ASSUME IInv, [Next]_vars  PROVE IInv'
  OBVIOUS
<1>1. CASE BagRemoved \/ (\E bag \in Bag : OtherWrites(bag)) \/ \E bag \in late : LateSave(bag)
  BY <1>1, RemovedStep, OthersStep, LateStep
<1>2. ASSUME NEW w \in Windows, User(w)  PROVE IInv'
  <2>1. ASSUME NEW op \in Op, Request(op)  PROVE IInv'
    BY <2>1, RequestStep
  <2>2. ASSUME NEW t \in Tags, NEW v \in Texts, SetTag(w, t, v)  PROVE IInv'
    <3>1. [of |-> w, does |-> "set", tag |-> t, value |-> v] \in Op
      BY DEF Op
    <3>2. QED
      BY <2>1, <2>2, <3>1 DEF SetTag
  <2>3. ASSUME NEW some \in SUBSET Tags, RemoveTags(w, some)  PROVE IInv'
    <3>1. [of |-> w, does |-> "remove", tags |-> some] \in Op
      BY DEF Op
    <3>2. QED
      BY <2>1, <2>3, <3>1 DEF RemoveTags
  <2>4. QED
    BY <1>2, <2>2, <2>3, OpenStep, CloseStep, SaveStep, EditStep DEF User
<1>3. ASSUME NEW w \in Windows, ServerStep(w) \/ Told(w) \/ SaveLost(w)  PROVE IInv'
  BY <1>3, OpenStep, UpdateStep, SaveStep, ListStep DEF ServerStep, Told
<1>4. ASSUME NEW r \in requests, ServeTags(r) \/ TagsAnswered(r)  PROVE IInv'
  BY <1>4, ServeStep, AnsweredStep
<1>5. CASE UNCHANGED vars
  <2>1. UNCHANGED <<db, window, getting, source, saveVars, seen>> /\ shownTags' = shownTags
    BY <1>5 DEF vars, tagVars
  <2>2. TagTyped' /\ Counted'
    BY <1>5, TagsKeep DEF vars, tagVars, IInv
  <2>3. QED
    BY <2>1, <2>2, TagsOnly DEF db, IInv, Typed
<1>6. QED
  BY <1>1, <1>2, <1>3, <1>4, <1>5 DEF Next

(* Every variable of the windows keeps its type; in particular no window   *)
(* loads its tags more often than there were requests about them.          *)
THEOREM TypeCorrect == Spec => []TypeOK
BY InitIInv, Step, IInvTypeOK, PTL DEF Spec

(* A window whose Save button is grey after a success shows every field as *)
(* the row has it, until somebody else writes the row; it may only show an *)
(* empty string, a 0, or a coordinate without the other one, where the row *)
(* has nothing (BagPropertyGrid, BagStore.saveBags, BagService.updateBag). *)
THEOREM SaveIsShown == Spec => []LastSaveShown
<1>1. IInv => LastSaveShown
  BY DEF IInv, Written, LastSaveShown
<1>2. QED
  BY <1>1, InitIInv, Step, PTL DEF Spec
=============================================================================
