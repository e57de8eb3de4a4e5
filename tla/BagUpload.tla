----------------------------- MODULE BagUpload -----------------------------
(***************************************************************************)
(* Uploading bags: the window BagUploadWindow, which sends every file of   *)
(* its list in a request of its own, all at once, and                      *)
(* FilesystemBagStorageImpl.uploadBag, which serves each in a thread.  The *)
(* user may click on Upload All again while requests are at work.          *)
(***************************************************************************)
EXTENDS Naturals, Sequences, FiniteSets, SequencesExt

CONSTANTS
  Items,    \* the .bag files that the user may add; others are skipped
  Names,    \* names of files
  NameOf,   \* the name of each item's file
  Targets,  \* the target paths, of all storages, that the user may choose
  Root,     \* the target "/", the root of the storage, which is chosen first
  MaxPosts,    \* bound on the requests for one item
  MaxRequests  \* bound on the requests for all of them

ASSUME NameAssumption ==
  NameOf \in [Items -> Names] /\ Root \in Targets /\ IsFiniteSet(Items)
ASSUME PostAssumption == MaxPosts \in Nat \ {0} /\ MaxRequests \in Nat

Posts == Items \X (1..MaxPosts)

VARIABLES
  list,         \* the records of the window's store
  added,        \* the items that have ever been in the list
  status,       \* the status of each item's record
  target,       \* what the fields for the target say
  posted,       \* how many requests have been sent for each item
  goal,         \* the target that each request names
  stage,        \* how far each request is at the server
  heard,        \* the requests whose answer, or loss, the page has seen
  directories,  \* the targets that exist
  older,        \* files that were there before, as <<target, name>>
  bytes         \* the items whose bytes the file at <<target, name>> may hold

page == <<list, added, status, target, posted, goal>>
server == <<stage, directories, bytes>>
vars == <<page, server, heard, older>>

Places == Targets \X Names
Stages == {"none", "sent", "missing", "ready", "free", "copying", "stored", "refused", "broken",
           "turned away"}
Ended == {"stored", "refused", "broken", "turned away"}

PlaceOf(p) == <<goal[p], NameOf[p[1]]>>
Copying(place) == {p \in Posts : stage[p] = "copying" /\ PlaceOf(p) = place}

TypeOK ==
  /\ list \in Seq(Items) /\ added \subseteq Items
  /\ status \in [Items -> {"Ready", "Uploading", "Uploaded", "Failed"}]
  /\ target \in Targets /\ posted \in [Items -> 0..MaxPosts]
  /\ goal \in [Posts -> Targets] /\ stage \in [Posts -> Stages]
  /\ heard \subseteq Posts /\ directories \subseteq Targets
  /\ older \subseteq Places /\ bytes \in [Places -> SUBSET Items]

Init ==
  /\ list = <<>> /\ added = {} /\ status = [i \in Items |-> "Ready"]
  /\ target = Root /\ posted = [i \in Items |-> 0]
  /\ goal = [p \in Posts |-> Root] /\ stage = [p \in Posts |-> "none"]
  /\ heard = {} /\ directories \in {d \in SUBSET Targets : Root \in d}
  /\ older \in SUBSET {place \in Places : place[1] \in directories}
  /\ bytes = [place \in Places |-> {}]
-----------------------------------------------------------------------------
(* The window.                                                             *)

(* Files are dropped on the window or picked in the browser's dialogue.    *)
AddFiles ==
  \E new \in (SUBSET (Items \ added)) \ {{}} : \E files \in SetToSeqs(new) :
    /\ list' = list \o files
    /\ added' = added \cup new
    /\ UNCHANGED <<status, target, posted, goal, server, heard, older>>

ChooseTarget ==
  /\ target' \in Targets \ {target}
  /\ UNCHANGED <<list, added, status, posted, goal, server, heard, older>>

(* A request for each of the items, which the list shows as Uploading.     *)
PostDocuments(items) ==
  LET new == {p \in Posts : p[1] \in items /\ p[2] = posted[p[1]] + 1}
  IN  /\ items # {} /\ \A i \in items : posted[i] < MaxPosts
      /\ Cardinality({p \in Posts : stage[p] # "none"} \cup new) <= MaxRequests
      /\ status' = [i \in Items |-> IF i \in items THEN "Uploading" ELSE status[i]]
      /\ posted' = [i \in Items |-> IF i \in items THEN posted[i] + 1 ELSE posted[i]]
      /\ goal' = [p \in Posts |-> IF p \in new THEN target ELSE goal[p]]
      /\ stage' = [p \in Posts |-> IF p \in new THEN "sent" ELSE stage[p]]
      /\ UNCHANGED <<list, added, target, directories, bytes, heard, older>>

UploadAll == PostDocuments({i \in Range(list) : status[i] # "Uploaded"})

ClearAll ==
  /\ list # <<>>
  /\ list' = <<>>
  /\ UNCHANGED <<added, status, target, posted, goal, server, heard, older>>

(* One round of the loop over the records, in which "i--" makes up for a   *)
(* removal: what it makes of the records and of i.                         *)
Round(at, step) ==
  LET records == at[1]
      i == at[2]
  IN  IF i > Len(records) THEN at
      ELSE IF status[records[i]] = "Uploaded" THEN <<RemoveAt(records, i), i + step>>
      ELSE <<records, i + 1>>

(* What all the rounds, of which each has one record less to look at, leave. *)
Swept(step) ==
  LET after[n \in 0..Len(list)] == IF n = 0 THEN <<list, 1>> ELSE Round(after[n - 1], step)
  IN  after[Len(list)][1]

Sweep(step) ==
  /\ list' = Swept(step)
  /\ UNCHANGED <<added, status, target, posted, goal, server, heard, older>>

(* Mutant: no "i--".                                                       *)
ClearSome == Sweep(1)

ClearFinished == Sweep(0)
-----------------------------------------------------------------------------
(* The server: FilesystemBagStorageImpl.uploadBag, step by step.           *)

GoTo(p, s) == stage' = [stage EXCEPT ![p] = s]

(* Something in front of the application, a proxy or a page to log in,     *)
(* answers in its place, with status 200 and what is not JSON.             *)
TurnAway(p) ==
  /\ stage[p] = "sent"
  /\ GoTo(p, "turned away")
  /\ UNCHANGED <<page, directories, bytes, heard, older>>

(* The target may also be a file, not writable, or of an unknown storage.  *)
CheckDirectory(p) ==
  /\ stage[p] = "sent"
  /\ \/ GoTo(p, IF goal[p] \in directories THEN "ready" ELSE "missing")
     \/ GoTo(p, "refused")
  /\ UNCHANGED <<page, directories, bytes, heard, older>>

(* mkdirs() is false when the directory is there by now.                   *)
MakeDirectory(p) ==
  /\ stage[p] = "missing"
  /\ GoTo(p, IF goal[p] \in directories THEN "refused" ELSE "ready")
  /\ directories' = directories \cup {goal[p]}
  /\ UNCHANGED <<page, bytes, heard, older>>

(* Mutant: nobody looks whether there is a file.                           *)
SkipCheck(p) ==
  /\ stage[p] = "ready"
  /\ GoTo(p, "free")
  /\ UNCHANGED <<page, directories, bytes, heard, older>>

CheckFile(p) ==
  /\ stage[p] = "ready"
  /\ GoTo(p, IF PlaceOf(p) \in older \/ bytes[PlaceOf(p)] # {} THEN "refused" ELSE "free")
  /\ UNCHANGED <<page, directories, bytes, heard, older>>

(* The file is emptied; what others are copying to it still comes.         *)
OpenFile(p) ==
  /\ stage[p] = "free"
  /\ GoTo(p, "copying")
  /\ bytes' = [bytes EXCEPT ![PlaceOf(p)] = {p[1]} \cup {q[1] : q \in Copying(PlaceOf(p))}]
  /\ older' = older \ {PlaceOf(p)}
  /\ UNCHANGED <<page, directories, heard>>

(* An exception leaves the file as it is.                                  *)
CopyFile(p) ==
  /\ stage[p] = "copying"
  /\ GoTo(p, "stored") \/ GoTo(p, "broken")
  /\ UNCHANGED <<page, directories, bytes, heard, older>>
-----------------------------------------------------------------------------
(* The answers.                                                            *)

Hear(p, s) ==
  /\ stage[p] # "none" /\ p \notin heard
  /\ heard' = heard \cup {p}
  /\ status' = [status EXCEPT ![p[1]] = s]
  /\ UNCHANGED <<list, added, target, posted, goal, server, older>>

(* Mutant: an answer is an answer, whatever it says of success.            *)
AnyAnswer(p) ==
  /\ stage[p] \in Ended
  /\ Hear(p, "Uploaded")

(* Mutant: nothing is done when the request has failed.                    *)
Unnoticed(p) == FALSE

(* Ext.decode throws on what is not JSON, and the status stays as it is.   *)
Answered(p) ==
  /\ stage[p] \in Ended
  /\ Hear(p, CASE stage[p] = "stored" -> "Uploaded"
               [] stage[p] = "turned away" -> status[p[1]]
               [] OTHER -> "Failed")

(* Mutant: a status of its own for requests that are lost.                 *)
PostVanished(p) == Hear(p, "Lost")

(* The connection breaks, or the file is too large; the server may go on.  *)
PostLost(p) == Hear(p, "Failed")
-----------------------------------------------------------------------------
UploadBag(p) ==
  TurnAway(p) \/ CheckDirectory(p) \/ MakeDirectory(p) \/ CheckFile(p) \/ OpenFile(p) \/ CopyFile(p)

Next ==
  \/ AddFiles \/ ChooseTarget \/ UploadAll \/ ClearAll \/ ClearFinished
  \/ \E p \in Posts : UploadBag(p) \/ Answered(p) \/ PostLost(p)

Spec == Init /\ [][Next]_vars

(* Each request is served, and the page gets its answer.                   *)
FairSpec == Spec /\ \A p \in Posts : WF_vars(UploadBag(p)) /\ WF_vars(Answered(p))
-----------------------------------------------------------------------------
SameFile(i, j) == NameOf[i] = NameOf[j]

(* What the list shows as Uploaded is in the file, whole and alone, if it  *)
(* was sent once and no other item has its name: whatever other requests   *)
(* do to the directory, whatever is lost (uploadBag and postDocument).     *)
UploadedIsStored ==
  \A i \in Items :
    (status[i] = "Uploaded" /\ posted[i] = 1 /\ \A j \in Items : SameFile(i, j) => i = j) =>
      LET p == <<i, 1>> IN /\ stage[p] = "stored" /\ bytes[PlaceOf(p)] = {i}
                           /\ PlaceOf(p) \notin older

(* No upload touches a file that was there before the window was opened    *)
(* (uploadBag, "Not overwriting existing file.").                          *)
OlderFilesKept == [][older' = older]_vars

Unfinished == {n \in DOMAIN list : status[list[n]] # "Uploaded"}

(* Clear Finished takes exactly the finished records out of the list: each *)
(* of the others ends up behind those of them that were before it          *)
(* (BagUploadWindow.js:197, "i--").                                        *)
ClearTakesFinished ==
  [][ClearFinished =>
       /\ Len(list') = Cardinality(Unfinished)
       /\ \A n \in Unfinished : list'[Cardinality(Unfinished \cap 1..n)] = list[n]]_vars

TurnedAway(i) == \E n \in 1..MaxPosts : stage[<<i, n>>] = "turned away"

(* No item stays Uploading for ever, however often Upload All is clicked,  *)
(* unless what answered was not the application (the ways in which         *)
(* postDocument sets the status, and the decoding that throws).            *)
UploadEnds ==
  \A i \in Items :
    status[i] = "Uploading" ~> status[i] \in {"Uploaded", "Failed"} \/ TurnedAway(i)
=============================================================================
