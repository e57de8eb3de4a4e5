----------------------------- MODULE BagDetails -----------------------------
(***************************************************************************)
(* The windows with the details of one bag, of one user or of several:     *)
(* BagDetailsWindow with its BagPropertyGrid and TagGrid, and what the     *)
(* server does for them (BagController and BagService).  A window's copy   *)
(* of the bag is loaded once; Save sends the whole of it.  Scans and       *)
(* scripts write the same columns.                                         *)
(*                                                                         *)
(* Each page is single-threaded.  Requests are served and answered in any  *)
(* order.                                                                  *)
(***************************************************************************)
EXTENDS Naturals, FiniteSets

CONSTANTS
  Windows,
  Fields,    \* what beforeedit lets the user change
  Coordinates, \* the fields that are stored together, as one point, or not at all
  Values,    \* values of fields
  Null,      \* the value of a field that has none
  Falsy,     \* what JavaScript takes for false: null, the empty string and 0
  Tags,
  Texts,     \* values of tags
  NoTag,     \* in place of the value of a tag that is not there
  First,     \* the bag as it is when the windows are opened
  MaxChanges \* bound on the edits of fields, the requests that set or remove tags
             \* and the changes that scans and scripts make, all together

ASSUME ValueAssumption == NoTag \notin Texts /\ IsFiniteSet(Windows)
ASSUME FieldAssumption == Coordinates \subseteq Fields /\ Null \in Falsy /\ Falsy \subseteq Values

FieldValues == [Fields -> Values]
TagValues == [Tags -> Texts \cup {NoTag}]
Bag == [fields : FieldValues, tags : TagValues]
ASSUME FirstAssumption == First \in Bag
ASSUME BoundAssumption == MaxChanges \in Nat

(* What a row can hold of these fields: its coordinate is a point or null. *)
Fitted(fields) ==
  IF \E c \in Coordinates : fields[c] = Null
  THEN [f \in Fields |-> IF f \in Coordinates THEN Null ELSE fields[f]]
  ELSE fields

NoTags == [t \in Tags |-> NoTag]

Op == [of : Windows, does : {"set"}, tag : Tags, value : Texts]
      \cup [of : Windows, does : {"remove"}, tags : SUBSET Tags]
TagRequest == [id : 1..MaxChanges, op : Op, stage : {"sent", "done", "failed"}]

VARIABLES
  there,     \* whether the bag is in the database
  stored,    \* the bag's row and tags
  window,    \* "new", "loading", "open" or "closed"
  getting,   \* the request for the bag: "no", "sent", "found" or "missing"
  source,    \* the window's copy of the bag
  saveOn,    \* whether the Save button is enabled
  saving,    \* the request to save: "no", "sent", "done" or "refused"
  late,      \* saves that the page has given up and the server has not
  edits,     \* edits so far
  shownTags, \* what the grid of tags shows
  opCount,   \* requests about tags so far
  requests,  \* those whose callback has not been called yet
  asked,     \* requests for the tags that the server has not answered yet
  tagLists,  \* how many lists of tags are on their way, for each content
  others,    \* how often a scan or a script has changed the bag
  lastSaver, \* observation: the window that wrote the bag's fields last, in time
  outcome    \* observation: how the last save of each window went

db == <<there, stored, others>>
saveVars == <<saveOn, saving, late, edits>>
tagVars == <<shownTags, opCount, requests, asked, tagLists>>
seen == <<lastSaver, outcome>>
vars == <<db, window, getting, source, saveVars, tagVars, seen>>

CanChange == edits + opCount + others < MaxChanges

TypeOK ==
  /\ there \in BOOLEAN /\ stored \in Bag /\ others \in 0..MaxChanges
  /\ window \in [Windows -> {"new", "loading", "open", "closed"}]
  /\ getting \in [Windows -> {"no", "sent", "found", "missing"}]
  /\ source \in [Windows -> Bag]
  /\ saveOn \in [Windows -> BOOLEAN] /\ edits \in 0..MaxChanges
  /\ saving \in [Windows -> {"no", "sent", "done", "refused"}] /\ late \subseteq Bag
  /\ shownTags \in [Windows -> TagValues]
  /\ opCount \in 0..MaxChanges /\ requests \subseteq TagRequest
  /\ asked \in [Windows -> 0..MaxChanges] /\ tagLists \in [Windows -> [TagValues -> 0..MaxChanges]]
  /\ lastSaver \subseteq Windows
  /\ outcome \in [Windows -> {"none", "done", "refused", "lost"}]

Init ==
  /\ there = TRUE /\ stored = First /\ others = 0
  /\ window = [w \in Windows |-> "new"] /\ getting = [w \in Windows |-> "no"]
  /\ source = [w \in Windows |-> First]
  /\ saveOn = [w \in Windows |-> FALSE] /\ saving = [w \in Windows |-> "no"] /\ late = {}
  /\ edits = 0
  /\ shownTags = [w \in Windows |-> NoTags]
  /\ opCount = 0 /\ requests = {}
  /\ asked = [w \in Windows |-> 0] /\ tagLists = [w \in Windows |-> [s \in TagValues |-> 0]]
  /\ lastSaver = {} /\ outcome = [w \in Windows |-> "none"]
-----------------------------------------------------------------------------
(* Opening a window: initComponent, and the mask until the answer.         *)

Open(w) ==
  /\ window[w] = "new"
  /\ window' = [window EXCEPT ![w] = "loading"] /\ getting' = [getting EXCEPT ![w] = "sent"]
  /\ UNCHANGED <<db, source, saveVars, tagVars, seen>>

GetBag(w) ==
  /\ getting[w] = "sent"
  /\ IF there THEN /\ getting' = [getting EXCEPT ![w] = "found"]
                   /\ source' = [source EXCEPT ![w] = stored]
              ELSE getting' = [getting EXCEPT ![w] = "missing"] /\ UNCHANGED source
  /\ UNCHANGED <<db, window, saveVars, tagVars, seen>>

BagLoaded(w) ==
  /\ getting[w] = "found" /\ window[w] = "loading"
  /\ window' = [window EXCEPT ![w] = "open"] /\ getting' = [getting EXCEPT ![w] = "no"]
  /\ shownTags' = [shownTags EXCEPT ![w] = source[w].tags]
  /\ UNCHANGED <<db, source, saveVars, opCount, requests, asked, tagLists, seen>>

GiveUp(w) == late' = IF saving[w] = "sent" THEN late \cup {source[w]} ELSE late

(* The bag is not there, or the request fails, or the user closes it.  The *)
(* answers that are still to come find nothing to change.                  *)
Close(w) ==
  /\ window[w] \in {"loading", "open"}
  /\ window' = [window EXCEPT ![w] = "closed"] /\ getting' = [getting EXCEPT ![w] = "no"]
  /\ GiveUp(w)
  /\ saving' = [saving EXCEPT ![w] = "no"] /\ saveOn' = [saveOn EXCEPT ![w] = FALSE]
  /\ source' = [source EXCEPT ![w] = First] /\ shownTags' = [shownTags EXCEPT ![w] = NoTags]
  /\ asked' = [asked EXCEPT ![w] = 0]
  /\ tagLists' = [tagLists EXCEPT ![w] = [s \in TagValues |-> 0]]
  /\ outcome' = [outcome EXCEPT ![w] = "none"]
  /\ UNCHANGED <<db, edits, opCount, requests, lastSaver>>

(* The bag is removed from the database, by the scanner or a user.         *)
BagRemoved ==
  /\ there
  /\ there' = FALSE /\ stored' = [stored EXCEPT !.tags = NoTags]
  /\ UNCHANGED <<others, window, getting, source, saveVars, tagVars, seen>>

(* A scan or the output of a script writes the columns of the bag.         *)
OtherWrites(bag) ==
  /\ there /\ CanChange
  /\ others' = others + 1
  /\ stored' = [bag EXCEPT !.fields = Fitted(@)]
  /\ lastSaver' = {}
  /\ UNCHANGED <<there, window, getting, source, saveVars, tagVars, outcome>>
-----------------------------------------------------------------------------
(* The properties: BagPropertyGrid, BagStore.saveBags, BagService.updateBag. *)

(* Save is enabled when the value has changed; a new one that is falsy is  *)
(* compared as if it were null.                                            *)
Edit(w, f, v) ==
  /\ window[w] = "open" /\ saving[w] = "no" /\ CanChange
  /\ source' = [source EXCEPT ![w].fields[f] = v]
  /\ LET new == IF v \in Falsy THEN Null ELSE v
     IN saveOn' = [saveOn EXCEPT ![w] = @ \/ source[w].fields[f] # new]
  /\ edits' = edits + 1
  /\ UNCHANGED <<db, window, getting, saving, late, tagVars, seen>>

(* The mask keeps the user from the button until the answer.               *)
Save(w) ==
  /\ window[w] = "open" /\ saveOn[w] /\ saving[w] = "no"
  /\ saving' = [saving EXCEPT ![w] = "sent"]
  /\ UNCHANGED <<db, window, getting, source, saveOn, late, edits, tagVars, seen>>

(* The tags of the copy are merged into those that are there.              *)
Merged(tags) == [t \in Tags |-> IF tags[t] = NoTag THEN stored.tags[t] ELSE tags[t]]

CommitSave(w, bag) ==
  /\ saving[w] = "sent" /\ there
  /\ stored' = bag
  /\ saving' = [saving EXCEPT ![w] = "done"]
  /\ lastSaver' = {w}
  /\ UNCHANGED <<there, others, window, getting, source, saveOn, late, edits, tagVars, outcome>>

(* Mutant: the coordinate is left as it is when one of the two is null.    *)
KeepCoordinate(w) ==
  LET fields == IF \E c \in Coordinates : source[w].fields[c] = Null
                THEN [f \in Fields |-> IF f \in Coordinates THEN stored.fields[f] ELSE source[w].fields[f]]
                ELSE source[w].fields
  IN CommitSave(w, [fields |-> fields, tags |-> Merged(source[w].tags)])

UpdateBag(w) ==
  CommitSave(w, [fields |-> Fitted(source[w].fields), tags |-> Merged(source[w].tags)])

(* An exception of any kind; the answer is that there was no success.      *)
RefuseSave(w) ==
  /\ saving[w] = "sent"
  /\ saving' = [saving EXCEPT ![w] = "refused"]
  /\ UNCHANGED <<db, window, getting, source, saveOn, late, edits, tagVars, seen>>

(* The callback looks at the request's success, not at the answer's.       *)
SaveAnswered(w) ==
  /\ saving[w] \in {"done", "refused"}
  /\ saving' = [saving EXCEPT ![w] = "no"]
  /\ saveOn' = [saveOn EXCEPT ![w] = FALSE]
  /\ outcome' = [outcome EXCEPT ![w] = saving[w]]
  /\ UNCHANGED <<db, window, getting, source, late, edits, tagVars, lastSaver>>

(* The answer does not come in time; the server may still do it.           *)
SaveLost(w) ==
  /\ saving[w] # "no"
  /\ saving' = [saving EXCEPT ![w] = "no"]
  /\ GiveUp(w)
  /\ outcome' = [outcome EXCEPT ![w] = "lost"]
  /\ UNCHANGED <<db, window, getting, source, saveOn, edits, tagVars, lastSaver>>

LateSave(bag) ==
  /\ bag \in late
  /\ late' = late \ {bag}
  /\ IF there THEN /\ stored' = [fields |-> Fitted(bag.fields), tags |-> Merged(bag.tags)]
                   /\ lastSaver' = {}
              ELSE UNCHANGED <<stored, lastSaver>>
  /\ UNCHANGED <<there, others, window, getting, source, saveOn, saving, edits, tagVars, outcome>>
-----------------------------------------------------------------------------
(* The tags: TagGrid, SetTagWindow, setTagForBag and removeTagForBag.      *)

Request(op) ==
  /\ CanChange
  /\ opCount' = opCount + 1
  /\ requests' = requests \cup {[id |-> opCount', op |-> op, stage |-> "sent"]}
  /\ UNCHANGED <<db, window, getting, source, saveVars, shownTags, asked, tagLists, seen>>

SetTag(w, t, v) ==
  /\ window[w] = "open"
  /\ Request([of |-> w, does |-> "set", tag |-> t, value |-> v])

(* The rows that are selected, once the user has confirmed.                *)
RemoveTags(w, some) ==
  /\ window[w] = "open"
  /\ some # {} /\ \A t \in some : shownTags[w][t] # NoTag
  /\ Request([of |-> w, does |-> "remove", tags |-> some])

Effect(op) ==
  IF op.does = "set" THEN [stored.tags EXCEPT ![op.tag] = op.value]
                     ELSE [t \in Tags |-> IF t \in op.tags THEN NoTag ELSE stored.tags[t]]

ServeTags(r) ==
  /\ r.stage = "sent"
  /\ \/ /\ there
        /\ stored' = [stored EXCEPT !.tags = Effect(r.op)]
        /\ requests' = (requests \ {r}) \cup {[r EXCEPT !.stage = "done"]}
     \/ /\ requests' = (requests \ {r}) \cup {[r EXCEPT !.stage = "failed"]}
        /\ UNCHANGED stored
  /\ UNCHANGED <<there, others, window, getting, source, saveVars, shownTags, opCount, asked,
                 tagLists, seen>>

(* Mutant: the tags are loaded again only after one has been set.          *)
ReloadIfSet(r) ==
  /\ r.stage # "sent"
  /\ requests' = requests \ {r}
  /\ IF window[r.op.of] = "open" /\ r.stage = "done" /\ r.op.does = "set"
     THEN asked' = [asked EXCEPT ![r.op.of] = @ + 1] ELSE UNCHANGED asked
  /\ UNCHANGED <<db, window, getting, source, saveVars, shownTags, opCount, tagLists, seen>>

(* Mutant: the tags are loaded again by the callback and by the window     *)
(* that closes.                                                            *)
ReloadTwice(r) ==
  /\ r.stage # "sent"
  /\ requests' = requests \ {r}
  /\ IF window[r.op.of] = "open" THEN asked' = [asked EXCEPT ![r.op.of] = @ + 2] ELSE UNCHANGED asked
  /\ UNCHANGED <<db, window, getting, source, saveVars, shownTags, opCount, tagLists, seen>>

(* reloadTags, after any removal, and after a tag has been set.            *)
TagsAnswered(r) ==
  /\ r.stage # "sent"
  /\ requests' = requests \ {r}
  /\ IF window[r.op.of] = "open" /\ (r.stage = "done" \/ r.op.does = "remove")
     THEN asked' = [asked EXCEPT ![r.op.of] = @ + 1] ELSE UNCHANGED asked
  /\ UNCHANGED <<db, window, getting, source, saveVars, shownTags, opCount, tagLists, seen>>

(* What comes for a bag that is not there has no tags.                     *)
GetTagsForBag(w) ==
  /\ asked[w] > 0
  /\ asked' = [asked EXCEPT ![w] = @ - 1]
  /\ tagLists' = [tagLists EXCEPT ![w][stored.tags] = @ + 1]
  /\ UNCHANGED <<db, window, getting, source, saveVars, shownTags, opCount, requests, seen>>

TagsLoaded(w, tags) ==
  /\ tagLists[w][tags] > 0
  /\ tagLists' = [tagLists EXCEPT ![w][tags] = @ - 1]
  /\ shownTags' = [shownTags EXCEPT ![w] = tags]
  /\ UNCHANGED <<db, window, getting, source, saveVars, opCount, requests, asked, seen>>
-----------------------------------------------------------------------------
ServerStep(w) == GetBag(w) \/ UpdateBag(w) \/ RefuseSave(w) \/ GetTagsForBag(w)
Told(w) == BagLoaded(w) \/ SaveAnswered(w) \/ \E tags \in TagValues : TagsLoaded(w, tags)

User(w) ==
  \/ Open(w) \/ Close(w) \/ Save(w)
  \/ \E f \in Fields, v \in Values : Edit(w, f, v)
  \/ \E t \in Tags, v \in Texts : SetTag(w, t, v)
  \/ \E some \in SUBSET Tags : RemoveTags(w, some)

Next ==
  \/ BagRemoved \/ \E bag \in Bag : OtherWrites(bag)
  \/ \E bag \in late : LateSave(bag)
  \/ \E w \in Windows : User(w) \/ ServerStep(w) \/ Told(w) \/ SaveLost(w)
  \/ \E r \in requests : ServeTags(r) \/ TagsAnswered(r)

Spec == Init /\ [][Next]_vars

(* The requests about tags are served and answered.                        *)
FairSpec ==
  /\ Spec
  /\ WF_vars(\E r \in requests : ServeTags(r) \/ TagsAnswered(r))
  /\ \A w \in Windows : /\ WF_vars(GetTagsForBag(w))
                        /\ \A tags \in TagValues : WF_vars(TagsLoaded(w, tags))
-----------------------------------------------------------------------------
(* What the window says of a field is what the row holds: the same value,  *)
(* or nothing where the window has an empty string or 0, or nothing where  *)
(* the window has one coordinate and not the other.                        *)
ShownAs(fields, row, f) ==
  \/ row[f] = fields[f]
  \/ row[f] = Null /\ fields[f] \in Falsy
  \/ row[f] = Null /\ f \in Coordinates /\ \E c \in Coordinates : fields[c] \in Falsy

(* When the Save button of a window is grey after a success, and nobody    *)
(* else has written the bag since, every field of the row is as the window *)
(* shows it, except that a window may show an empty string or 0 where the  *)
(* row has null, and a coordinate that the row has not because the other   *)
(* one is empty or 0; it never shows another value than the row's, nor     *)
(* nothing where the row has a value (the edit listener of                 *)
(* BagPropertyGrid, saveBags, its mask, and updateBag).                    *)
LastSaveShown ==
  \A w \in Windows :
    (lastSaver = {w} /\ outcome[w] = "done" /\ ~saveOn[w] /\ saving[w] = "no") =>
      \A f \in Fields : ShownAs(source[w].fields, stored.fields, f)

(* Nothing that would change the tags is on its way, and nothing that      *)
(* would show others than they are.                                        *)
Calm(w) ==
  /\ window[w] = "open" /\ late = {}
  /\ \A r \in requests : r.stage # "sent"
  /\ \A v \in Windows : saving[v] # "sent"
  /\ \A tags \in TagValues : tagLists[w][tags] > 0 => tags = stored.tags

Waiting(w) ==
  \/ asked[w] > 0 \/ \E tags \in TagValues : tagLists[w][tags] > 0
  \/ \E r \in requests : r.op.of = w /\ r.stage = "done"

(* After a user has changed tags, the window comes to show the tags that   *)
(* are stored, unless they change again or it is closed (the calls of      *)
(* reloadTags in TagGrid and SetTagWindow).                                *)
TagsSettle ==
  \A w \in Windows : (Calm(w) /\ Waiting(w)) ~> (shownTags[w] = stored.tags \/ ~Calm(w))
=============================================================================
