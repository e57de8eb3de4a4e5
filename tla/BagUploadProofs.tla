-------------------------- MODULE BagUploadProofs --------------------------
(***************************************************************************)
(* Proofs about BagUpload, for any files, names, targets and bounds: no    *)
(* upload touches a file that was there before; what the page shows as     *)
(* uploaded is stored whole, unless another upload has taken its place;    *)
(* and Clear Finished takes exactly the finished records out of the list.  *)
(***************************************************************************)
EXTENDS BagUpload, FiniteSetTheorems, TLAPS

Typed ==
  /\ status \in [Items -> {"Ready", "Uploading", "Uploaded", "Failed"}]
  /\ target \in Targets /\ posted \in [Items -> 0..MaxPosts]
  /\ goal \in [Posts -> Targets] /\ stage \in [Posts -> Stages]
  /\ bytes \in [Places -> SUBSET Items]

(* Requests are numbered as they are sent.                                 *)
Numbered == \A p \in Posts : stage[p] # "none" <=> p[2] <= posted[p[1]]

(* Only one of an item's requests can have made it Uploaded.               *)
Backed == \A i \in Items : status[i] = "Uploaded" => \E p \in Posts : p[1] = i /\ stage[p] = "stored"

(* Who has found no file, found no older one.                              *)
Checked == \A p \in Posts : stage[p] \in {"free", "copying", "stored"} => PlaceOf(p) \notin older

(* No other request has named the place of p.                              *)
Alone(p) == \A q \in Posts \ {p} : stage[q] # "none" => PlaceOf(q) # PlaceOf(p)

Whole ==
  \A p \in Posts :
    (stage[p] \in {"copying", "stored"} /\ Alone(p)) => bytes[PlaceOf(p)] = {p[1]}

IInv == Typed /\ Numbered /\ Backed /\ Checked /\ Whole

LEMMA PlaceTyped == ASSUME Typed, NEW p \in Posts PROVE PlaceOf(p) \in Places
BY NameAssumption DEF Typed, PlaceOf, Places, Posts

LEMMA PostTyped ==
  \A p \in Posts : p[1] \in Items /\ p[2] \in 1..MaxPosts /\ p = <<p[1], p[2]>>
BY DEF Posts

LEMMA InitIInv == Init => IInv
<1> SUFFICES ASSUME Init PROVE IInv
  OBVIOUS
<1>1. Typed
  BY NameAssumption, PostAssumption DEF Init, Typed, Stages
<1>2. Numbered
  BY PostTyped, PostAssumption DEF Init, Numbered
<1>3. Backed /\ Checked /\ Whole
  BY DEF Init, Backed, Checked, Whole
<1>4. QED
  BY <1>1, <1>2, <1>3 DEF IInv

(* The list, the fields and the buttons that clear.                        *)
LEMMA WindowStep ==
  IInv /\ UNCHANGED <<status, posted, goal, server, older>> /\ target' \in Targets => IInv'
BY DEF IInv, Typed, Numbered, Backed, Checked, Whole, Alone, PlaceOf, server

LEMMA PostStep ==
  ASSUME IInv, NEW items, PostDocuments(items)
  PROVE  IInv'
<1> DEFINE new == {p \in Posts : p[1] \in items /\ p[2] = posted[p[1]] + 1}
<1>1. /\ \A i \in items : posted[i] < MaxPosts
      /\ status' = [i \in Items |-> IF i \in items THEN "Uploading" ELSE status[i]]
      /\ posted' = [i \in Items |-> IF i \in items THEN posted[i] + 1 ELSE posted[i]]
      /\ goal' = [p \in Posts |-> IF p \in new THEN target ELSE goal[p]]
      /\ stage' = [p \in Posts |-> IF p \in new THEN "sent" ELSE stage[p]]
      /\ UNCHANGED <<target, bytes, older>>
  BY DEF PostDocuments
<1>2. \A p \in new : stage[p] = "none"
  BY PostTyped, PostAssumption DEF IInv, Typed, Numbered
<1> HIDE DEF new
<1>3. Typed'
  <2>1. "sent" \in Stages
    BY DEF Stages
  <2>2. QED
    BY <1>1, <2>1, PostAssumption DEF IInv, Typed
<1>4. ASSUME NEW p \in Posts  PROVE (stage[p] # "none" <=> p[2] <= posted[p[1]])'
  <2>1. /\ p[1] \in Items /\ p[2] \in Nat /\ posted[p[1]] \in Nat
        /\ stage[p] # "none" <=> p[2] <= posted[p[1]]
    BY PostTyped, PostAssumption DEF IInv, Typed, Numbered
  <2>2. p \in new <=> p[1] \in items /\ p[2] = posted[p[1]] + 1
    BY DEF new
  <2>3. /\ stage'[p] = IF p \in new THEN "sent" ELSE stage[p]
        /\ posted'[p[1]] = IF p[1] \in items THEN posted[p[1]] + 1 ELSE posted[p[1]]
    BY <1>1, <2>1
  <2>4. CASE p[1] \in items
    BY <2>1, <2>2, <2>3, <2>4
  <2>5. CASE p[1] \notin items
    BY <2>1, <2>2, <2>3, <2>5
  <2>6. QED
    BY <2>4, <2>5
<1>5. \A p \in Posts : stage'[p] \in {"free", "copying", "stored"} => p \notin new
  BY <1>1
<1>6. Backed'
  BY <1>1, <1>2 DEF IInv, Backed
<1>7. \A p \in Posts \ new : stage'[p] = stage[p] /\ PlaceOf(p)' = PlaceOf(p)
  BY <1>1 DEF PlaceOf
<1>8. Checked'
  BY <1>1, <1>5, <1>7 DEF IInv, Checked
<1>9. \A p \in Posts \ new : Alone(p)' => Alone(p)
  BY <1>2, <1>7 DEF Alone
<1>10. Whole'
  BY <1>1, <1>5, <1>7, <1>9 DEF IInv, Whole
<1>11. QED
  BY <1>3, <1>4, <1>6, <1>8, <1>10 DEF IInv, Numbered

(* The server's steps.                                                     *)
LEMMA ServerStep ==
  ASSUME IInv, NEW p \in Posts, UploadBag(p)
  PROVE  IInv' /\ older' = older
<1> DEFINE s == stage'[p]
<1>1. /\ stage[p] # "none" /\ stage[p] # "stored" /\ stage' = [stage EXCEPT ![p] = s]
      /\ s \in Stages \ {"none", "sent"} /\ UNCHANGED <<status, target, posted, goal>>
  BY DEF UploadBag, TurnAway, CheckDirectory, MakeDirectory, CheckFile, OpenFile, CopyFile, GoTo,
         Stages, IInv, Typed, page
<1>2. \A q \in Posts \ {p} : stage'[q] = stage[q]
  BY <1>1 DEF IInv, Typed
<1> HIDE DEF s
<1>3. Numbered' /\ Backed'
  BY <1>1, <1>2 DEF IInv, Typed, Numbered, Backed, s
<1>4. \A q \in Posts : PlaceOf(q)' = PlaceOf(q) /\ (Alone(q)' => Alone(q))
  BY <1>1, <1>2 DEF PlaceOf, Alone, s
<1>5. CASE TurnAway(p) \/ CheckDirectory(p) \/ MakeDirectory(p)
  <2>1. s \notin {"free", "copying", "stored"} /\ UNCHANGED <<bytes, older>>
    BY <1>5 DEF TurnAway, CheckDirectory, MakeDirectory, GoTo, s, IInv, Typed
  <2>2. QED
    BY <1>1, <1>2, <1>3, <1>4, <2>1 DEF IInv, Typed, Checked, Whole, s
<1>6. CASE CheckFile(p)
  <2>1. s \in {"refused", "free"} /\ (s = "free" => PlaceOf(p) \notin older) /\ UNCHANGED <<bytes, older>>
    BY <1>6 DEF CheckFile, GoTo, s, IInv, Typed
  <2>2. QED
    BY <1>1, <1>2, <1>3, <1>4, <2>1 DEF IInv, Typed, Checked, Whole, s
<1>7. CASE OpenFile(p)
  <2>1. /\ stage[p] = "free" /\ s = "copying"
        /\ bytes' = [bytes EXCEPT ![PlaceOf(p)] = {p[1]} \cup {q[1] : q \in Copying(PlaceOf(p))}]
        /\ older' = older \ {PlaceOf(p)}
    BY <1>7 DEF OpenFile, GoTo, s, IInv, Typed
  <2>2. older' = older
    BY <2>1 DEF IInv, Checked
  <2>3. PlaceOf(p) \in Places /\ \A q \in Copying(PlaceOf(p)) : q[1] \in Items
    BY PlaceTyped, PostTyped DEF IInv, Copying
  <2>4. Typed'
    BY <1>1, <2>1, <2>3, PostTyped DEF IInv, Typed
  <2>5. Checked'
    BY <1>2, <1>4, <2>1, <2>2 DEF IInv, Checked
  <2>6. ASSUME NEW q \in Posts, stage'[q] \in {"copying", "stored"}, Alone(q)'
        PROVE  bytes'[PlaceOf(q)] = {q[1]}
    <3>1. CASE q = p
      <4>1. Copying(PlaceOf(p)) = {}
        BY <1>4, <2>1, <2>6, <3>1 DEF Copying, Alone
      <4>2. QED
        BY <2>1, <2>3, <3>1, <4>1 DEF IInv, Typed
    <3>2. CASE q # p
      <4>1. PlaceOf(p) # PlaceOf(q)
        BY <1>1, <1>4, <2>6, <3>2 DEF Alone
      <4>2. bytes'[PlaceOf(q)] = bytes[PlaceOf(q)]
        BY <2>1, <4>1, PlaceTyped DEF IInv, Typed
      <4>3. QED
        BY <1>2, <1>4, <2>6, <3>2, <4>2 DEF IInv, Whole
    <3>3. QED
      BY <3>1, <3>2
  <2>7. Whole'
    BY <1>4, <2>6 DEF Whole
  <2>8. QED
    BY <1>3, <2>2, <2>4, <2>5, <2>7 DEF IInv
<1>8. CASE CopyFile(p)
  <2>1. stage[p] = "copying" /\ s \in {"stored", "broken"} /\ UNCHANGED <<bytes, older>>
    BY <1>8 DEF CopyFile, GoTo, s, IInv, Typed
  <2>2. QED
    BY <1>1, <1>2, <1>3, <1>4, <2>1 DEF IInv, Typed, Checked, Whole, s
<1>9. QED
  BY <1>5, <1>6, <1>7, <1>8 DEF UploadBag

LEMMA HearStep ==
  ASSUME IInv, NEW p \in Posts, Answered(p) \/ PostLost(p)
  PROVE  IInv'
<1>1. /\ UNCHANGED <<target, posted, goal, stage, bytes, older>>
      /\ \/ status' = [status EXCEPT ![p[1]] = "Failed"]
         \/ status' = [status EXCEPT ![p[1]] = "Uploaded"] /\ stage[p] = "stored"
         \/ status' = status
  <2>1. UNCHANGED <<target, posted, goal, stage, bytes, older>>
    BY DEF Answered, PostLost, Hear, server
  <2>2. CASE Answered(p) /\ stage[p] = "turned away"
    <3>1. status' = [status EXCEPT ![p[1]] = status[p[1]]]
      BY <2>2 DEF Answered, Hear
    <3>2. QED
      BY <2>1, <3>1, PostTyped DEF IInv, Typed
  <2>3. CASE PostLost(p) \/ (Answered(p) /\ stage[p] # "turned away")
    BY <2>1, <2>3 DEF Answered, PostLost, Hear, Ended
  <2>4. QED
    BY <2>2, <2>3
<1>2. Backed' /\ Typed'
  BY <1>1, PostTyped DEF IInv, Typed, Backed
<1>3. Numbered' /\ Checked' /\ Whole'
  BY <1>1 DEF IInv, Numbered, Checked, Whole, Alone, PlaceOf
<1>4. QED
  BY <1>2, <1>3 DEF IInv

LEMMA Step == IInv /\ [Next]_vars => IInv' /\ older' = older
<1> SUFFICES ASSUME IInv, [Next]_vars  PROVE IInv' /\ older' = older
  OBVIOUS
<1>1. CASE AddFiles \/ ChooseTarget \/ ClearAll \/ ClearFinished \/ UNCHANGED vars
  <2>1. UNCHANGED <<status, posted, goal, server, older>> /\ target' \in Targets
    <3>1. CASE AddFiles
      BY <3>1 DEF AddFiles, server, IInv, Typed
    <3>2. CASE ChooseTarget
      BY <3>2 DEF ChooseTarget, server
    <3>3. CASE ClearAll
      BY <3>3 DEF ClearAll, server, IInv, Typed
    <3>4. CASE ClearFinished
      BY <3>4 DEF ClearFinished, Sweep, server, IInv, Typed
    <3>5. CASE UNCHANGED vars
      BY <3>5 DEF vars, page, IInv, Typed
    <3>6. QED
      BY <1>1, <3>1, <3>2, <3>3, <3>4, <3>5
  <2>2. QED
    BY <2>1, WindowStep
<1>2. CASE UploadAll
  BY <1>2, PostStep DEF UploadAll, PostDocuments
<1>3. ASSUME NEW p \in Posts, UploadBag(p)  PROVE IInv' /\ older' = older
  BY <1>3, ServerStep
<1>4. ASSUME NEW p \in Posts, Answered(p) \/ PostLost(p)  PROVE IInv' /\ older' = older
  BY <1>4, HearStep DEF Answered, PostLost, Hear
<1>5. QED
  BY <1>1, <1>2, <1>3, <1>4 DEF Next

(* No upload touches a file that was there before, whatever order the      *)
(* requests go on in (uploadBag).                                          *)
THEOREM NothingOverwritten == Spec => OlderFilesKept
<1>1. IInv /\ [Next]_vars => [older' = older]_vars
  BY Step
<1>2. QED
  BY <1>1, InitIInv, Step, PTL DEF Spec, OlderFilesKept

(* What the page shows as uploaded is stored whole and alone, if no other  *)
(* upload has its name (uploadBag and postDocument).                       *)
THEOREM UploadsStored == Spec => []UploadedIsStored
<1>1. IInv => UploadedIsStored
  <2> SUFFICES ASSUME IInv, NEW i \in Items, status[i] = "Uploaded", posted[i] = 1,
                      \A j \in Items : SameFile(i, j) => i = j
               PROVE  /\ stage[<<i, 1>>] = "stored" /\ bytes[PlaceOf(<<i, 1>>)] = {i}
                      /\ PlaceOf(<<i, 1>>) \notin older
    BY DEF UploadedIsStored
  <2> DEFINE p == <<i, 1>>
  <2>1. p \in Posts /\ p[1] = i /\ p[2] = 1
    BY PostAssumption DEF Posts
  <2>2. \A q \in Posts : q[1] = i /\ stage[q] # "none" => q = p
    <3>1. \A q \in Posts : q[1] = i /\ stage[q] # "none" => q[2] = 1
      BY PostTyped, PostAssumption DEF IInv, Typed, Numbered
    <3>2. QED
      BY <3>1, PostTyped
  <2>3. stage[p] = "stored"
    BY <2>1, <2>2 DEF IInv, Backed
  <2>4. Alone(p)
    <3>1. ASSUME NEW q \in Posts \ {p}, stage[q] # "none"  PROVE PlaceOf(q) # PlaceOf(p)
      <4>1. q[1] \in Items /\ q[1] # i
        BY <2>2, <3>1, PostTyped
      <4>2. NameOf[q[1]] # NameOf[i]
        BY <4>1 DEF SameFile
      <4>3. QED
        BY <2>1, <4>2 DEF PlaceOf
    <3>2. QED
      BY <3>1 DEF Alone
  <2>5. QED
    BY <2>1, <2>3, <2>4 DEF IInv, Whole, Checked
<1>2. QED
  BY <1>1, InitIInv, Step, PTL DEF Spec
-----------------------------------------------------------------------------
(* The loop of Clear Finished.                                             *)

(* Every set of numbers has a smallest one: the finite sets 1..n are well  *)
(* ordered by inclusion.                                                   *)
LEMMA Smallest ==
  ASSUME NEW T \in SUBSET Nat, T # {}
  PROVE  \E x \in T : \A y \in T : x <= y
<1> DEFINE U == {1..x : x \in T}
<1>1. U \subseteq FiniteSubsetsOf(Nat)
  BY FS_Interval DEF FiniteSubsetsOf
<1>2. U # {}
  OBVIOUS
<1>3. IsWellFoundedOn(StrictSubsetOrdering(Nat), FiniteSubsetsOf(Nat))
  BY FS_StrictSubsetOrderingWellFounded
<1>4. \E u \in U : \A v \in U : ~ (<<v, u>> \in StrictSubsetOrdering(Nat))
  <2> HIDE DEF U
  <2>1. QED
    BY <1>1, <1>2, <1>3, WFMin
<1>5. PICK x \in T : \A v \in U : ~ (<<v, 1..x>> \in StrictSubsetOrdering(Nat))
  BY <1>4
<1>6. ASSUME NEW y \in T, y < x  PROVE FALSE
  <2>1. 1..y \subseteq Nat /\ 1..x \subseteq Nat /\ 1..y \subseteq 1..x /\ x \in 1..x /\ x \notin 1..y
    BY <1>6
  <2>2. <<1..y, 1..x>> \in StrictSubsetOrdering(Nat)
    BY <2>1 DEF StrictSubsetOrdering
  <2>3. QED
    BY <1>5, <2>2
<1>7. QED
  BY <1>6

(* Where a loop of k rounds that starts at a is after each of them.        *)
Runs(A, step, a, k) ==
  {f \in [0..k -> A] : f[0] = a /\ \A n \in 1..k : f[n] = step[f[n - 1]]}

LEMMA RoundsExist ==
  ASSUME NEW A, NEW step \in [A -> A], NEW a \in A, NEW N \in Nat
  PROVE  Runs(A, step, a, N) # {}
<1> DEFINE runs(k) == {f \in [0..k -> A] : f[0] = a /\ \A n \in 1..k : f[n] = step[f[n - 1]]}
           T == {k \in Nat : runs(k) = {}}
<1>1. SUFFICES ASSUME T # {}  PROVE FALSE
  BY DEF Runs
<1>2. PICK k \in T : \A m \in T : k <= m
  <2> HIDE DEF T
  <2>1. T \in SUBSET Nat
    BY DEF T
  <2>2. QED
    BY <1>1, <2>1, Smallest
<1>3. k # 0
  <2>1. [n \in 0..0 |-> a] \in runs(0)
    OBVIOUS
  <2>2. QED
    BY <2>1
<1>4. k \in Nat /\ k - 1 \in Nat /\ k - 1 \notin T
  <2>1. k \in Nat
    BY <1>2
  <2> HIDE DEF T
  <2>2. QED
    BY <1>2, <1>3, <2>1
<1>5. PICK f : f \in runs(k - 1)
  BY <1>4
<1> DEFINE g == [n \in 0..k |-> IF n = k THEN step[f[k - 1]] ELSE f[n]]
<1>6. f \in [0..(k - 1) -> A] /\ f[0] = a /\ \A n \in 1..(k - 1) : f[n] = step[f[n - 1]]
  BY <1>5
<1>7. /\ \A n \in 0..k : g[n] \in A
      /\ g[0] = a /\ \A n \in 1..k : g[n] = step[g[n - 1]]
  <2>1. k - 1 \in 0..(k - 1) /\ f[k - 1] \in A /\ \A n \in 0..k : n # k => n \in 0..(k - 1)
    BY <1>4, <1>6
  <2>2. \A n \in 0..k : g[n] \in A
    BY <1>6, <2>1
  <2>3. g[0] = a
    BY <1>3, <1>6
  <2>4. ASSUME NEW n \in 1..k  PROVE g[n] = step[g[n - 1]]
    <3>1. n - 1 \in 0..k /\ n - 1 # k /\ n \in 0..k
      OBVIOUS
    <3>2. CASE n = k
      BY <3>1, <3>2
    <3>3. CASE n # k
      <4>1. n \in 1..(k - 1)
        BY <3>3
      <4>2. QED
        BY <1>6, <3>1, <3>3, <4>1
    <3>4. QED
      BY <3>2, <3>3
  <2>5. QED
    BY <2>2, <2>3, <2>4
<1>8. g \in runs(k)
  BY <1>7
<1>9. QED
  BY <1>2, <1>8

(* How many of the first n records stay.                                   *)
Staying(n) == Cardinality(Unfinished \cap 1..n)

LEMMA StayingCounts ==
  ASSUME list \in Seq(Items)
  PROVE  /\ Unfinished \subseteq 1..Len(list) /\ Staying(0) = 0
         /\ \A n \in Nat : Staying(n) \in Nat
         /\ \A n \in Nat : Staying(n + 1) = Staying(n) + (IF n + 1 \in Unfinished THEN 1 ELSE 0)
         /\ \A n \in Unfinished, m \in Nat : n <= m => Staying(n) \in 1..Staying(m)
         /\ Staying(Len(list)) = Cardinality(Unfinished)
<1>1. Unfinished \subseteq 1..Len(list) /\ Len(list) \in Nat
  BY DEF Unfinished
<1> DEFINE upTo(n) == Unfinished \cap 1..n
<1>2. \A n \in Nat : IsFiniteSet(upTo(n)) /\ Cardinality(upTo(n)) \in Nat
  <2>1. \A n \in Nat : IsFiniteSet(1..n)
    BY FS_Interval
  <2>2. QED
    BY <2>1, FS_Subset, FS_CardinalityType
<1>3. \A n : Staying(n) = Cardinality(upTo(n))
  BY DEF Staying
<1> USE <1>1
<1>4. upTo(0) = {} /\ upTo(Len(list)) = Unfinished
  <2>1. 1..0 = {}
    OBVIOUS
  <2>2. Unfinished \cap 1..Len(list) = Unfinished
    BY Zenon, <1>1
  <2>3. QED
    BY <2>1, <2>2
<1>5. \A n \in Nat : upTo(n + 1) = IF n + 1 \in Unfinished THEN upTo(n) \cup {n + 1} ELSE upTo(n)
  OBVIOUS
<1>6. \A n \in Nat : n + 1 \notin upTo(n)
  OBVIOUS
<1>7. \A n \in Unfinished, m \in Nat : n <= m => n \in upTo(n) /\ upTo(n) \subseteq upTo(m)
  <2>1. \A n \in 1..Len(list), m \in Nat : n <= m => n \in 1..n /\ 1..n \subseteq 1..m
    OBVIOUS
  <2>2. QED
    BY <2>1
<1> HIDE DEF upTo
<1>8. Staying(0) = 0 /\ Staying(Len(list)) = Cardinality(Unfinished)
  BY <1>3, <1>4, FS_EmptySet
<1>9. ASSUME NEW n \in Nat
      PROVE  Staying(n + 1) = Staying(n) + (IF n + 1 \in Unfinished THEN 1 ELSE 0)
  <2>1. Cardinality(upTo(n) \cup {n + 1}) = Cardinality(upTo(n)) + 1
    BY <1>2, <1>6, FS_AddElement
  <2>2. CASE n + 1 \in Unfinished
    BY <1>3, <1>5, <2>1, <2>2
  <2>3. CASE n + 1 \notin Unfinished
    <3>1. Staying(n + 1) = Staying(n) /\ Staying(n) \in Nat
      BY <1>2, <1>3, <1>5, <2>3
    <3>2. QED
      BY <2>3, <3>1
  <2>4. QED
    BY <2>2, <2>3
<1>10. ASSUME NEW n \in Unfinished, NEW m \in Nat, n <= m  PROVE Staying(n) \in 1..Staying(m)
  <2>1. n \in upTo(n) /\ upTo(n) \subseteq upTo(m) /\ n \in Nat
    BY <1>7, <1>10
  <2>2. IsFiniteSet(upTo(m)) /\ IsFiniteSet(upTo(n))
    BY <1>2, <2>1
  <2>3. Cardinality(upTo(n)) <= Cardinality(upTo(m)) /\ Cardinality(upTo(n)) # 0
    BY <2>1, <2>2, FS_Subset, FS_EmptySet
  <2>4. Cardinality(upTo(n)) \in Nat /\ Cardinality(upTo(m)) \in Nat
    BY <1>2, <2>1
  <2>5. QED
    BY <1>3, <2>3, <2>4
<1>11. QED
  BY <1>2, <1>3, <1>8, <1>9, <1>10

(* A record taken out of a sequence leaves the others in their order.      *)
LEMMA RemoveOne ==
  ASSUME NEW s \in Seq(Items), NEW i \in 1..Len(s)
  PROVE  /\ RemoveAt(s, i) \in Seq(Items) /\ Len(RemoveAt(s, i)) = Len(s) - 1
         /\ \A k \in 1..(Len(s) - 1) : RemoveAt(s, i)[k] = IF k < i THEN s[k] ELSE s[k + 1]
<1> DEFINE left == SubSeq(s, 1, i - 1)
           right == SubSeq(s, i + 1, Len(s))
<1>1. left \in Seq(Items) /\ Len(left) = i - 1 /\ \A k \in 1..(i - 1) : left[k] = s[k]
  OBVIOUS
<1>2. /\ right \in Seq(Items) /\ Len(right) = Len(s) - i
      /\ \A k \in 1..(Len(s) - i) : right[k] = s[i + k]
  OBVIOUS
<1>3. RemoveAt(s, i) = left \o right
  BY DEF RemoveAt
<1> HIDE DEF left, right
<1>4. RemoveAt(s, i) \in Seq(Items) /\ Len(RemoveAt(s, i)) = Len(s) - 1
  BY <1>1, <1>2, <1>3
<1>5. ASSUME NEW k \in 1..(Len(s) - 1)
      PROVE  RemoveAt(s, i)[k] = IF k < i THEN s[k] ELSE s[k + 1]
  <2>1. (left \o right)[k] = IF k <= Len(left) THEN left[k] ELSE right[k - Len(left)]
    BY <1>1, <1>2
  <2>2. CASE k < i
    BY <1>1, <1>3, <2>1, <2>2
  <2>3. CASE i <= k
    <3>1. k - (i - 1) \in 1..(Len(s) - i) /\ i + (k - (i - 1)) = k + 1
      BY <2>3
    <3>2. right[k - (i - 1)] = s[k + 1]
      BY <1>2, <3>1
    <3>3. QED
      BY <1>1, <1>3, <2>1, <2>3, <3>2
  <2>4. QED
    BY <2>2, <2>3
<1>6. QED
  BY <1>4, <1>5

(* Where the loop can be after each round.                                 *)
LEMMA RoundTyped ==
  ASSUME NEW at \in Seq(Items) \X (Nat \ {0})
  PROVE  Round(at, 0) \in Seq(Items) \X (Nat \ {0})
<1>1. at[1] \in Seq(Items) /\ at[2] \in Nat \ {0} /\ Len(at[1]) \in Nat
  OBVIOUS
<1>2. at[2] <= Len(at[1]) => at[2] \in 1..Len(at[1])
  BY <1>1
<1>3. CASE at[2] > Len(at[1])
  BY <1>3 DEF Round
<1>4. CASE at[2] \in 1..Len(at[1]) /\ status[at[1][at[2]]] = "Uploaded"
  <2>1. RemoveAt(at[1], at[2]) \in Seq(Items)
    BY <1>1, <1>4, RemoveOne
  <2>2. Round(at, 0) = <<RemoveAt(at[1], at[2]), at[2] + 0>>
    BY <1>1, <1>4 DEF Round
  <2>3. QED
    BY <1>1, <2>1, <2>2
<1>5. CASE at[2] \in 1..Len(at[1]) /\ status[at[1][at[2]]] # "Uploaded"
  <2>1. Round(at, 0) = <<at[1], at[2] + 1>>
    BY <1>1, <1>5 DEF Round
  <2>2. QED
    BY <1>1, <2>1
<1>6. QED
  BY <1>1, <1>2, <1>3, <1>4, <1>5

(* What Clear Finished leaves is what the rounds lead to.                  *)
LEMMA SweptByRounds ==
  ASSUME list \in Seq(Items)
  PROVE  \E f : /\ f[0] = <<list, 1>> /\ \A n \in 1..Len(list) : f[n] = Round(f[n - 1], 0)
               /\ Swept(0) = f[Len(list)][1]
<1> DEFINE N == Len(list)
           A == Seq(Items) \X (Nat \ {0})
           step == [at \in A |-> Round(at, 0)]
           after[n \in 0..N] == IF n = 0 THEN <<list, 1>> ELSE Round(after[n - 1], 0)
           Body(f) == [n \in 0..N |-> IF n = 0 THEN <<list, 1>> ELSE Round(f[n - 1], 0)]
<1>1. N \in Nat /\ <<list, 1>> \in A /\ step \in [A -> A]
  BY RoundTyped
<1>2. PICK f \in [0..N -> A] : f[0] = <<list, 1>> /\ \A n \in 1..N : f[n] = step[f[n - 1]]
  <2> HIDE DEF A, step, N
  <2>1. Runs(A, step, <<list, 1>>, N) # {}
    BY <1>1, RoundsExist
  <2>2. QED
    BY <2>1 DEF Runs
<1>3. \A n \in 1..N : f[n] = Round(f[n - 1], 0)
  <2> HIDE DEF A, N
  <2>1. \A n \in 1..N : n - 1 \in 0..N
    BY <1>1
  <2>2. \A n \in 1..N : f[n - 1] \in A
    BY <1>2, <2>1
  <2>3. QED
    BY <1>2, <2>2
<1>4. f = Body(f)
  <2> HIDE DEF A, N, step
  <2>1. \A n \in 0..N : n = 0 \/ n \in 1..N
    BY <1>1
  <2>2. \A n \in 0..N : f[n] = IF n = 0 THEN <<list, 1>> ELSE Round(f[n - 1], 0)
    BY <1>2, <1>3, <2>1
  <2>3. f = [n \in 0..N |-> f[n]]
    BY <1>2
  <2>4. QED
    BY <2>2, <2>3
<1>5. after = Body(after)
  <2>1. after = CHOOSE g : g = Body(g)
    OBVIOUS
  <2> HIDE DEF after, Body
  <2>2. QED
    BY <1>4, <2>1
<1>6. Swept(0) = after[N][1]
  BY DEF Swept
<1>7. after[0] = <<list, 1>> /\ \A n \in 1..N : after[n] = Round(after[n - 1], 0)
  <2>1. \A n \in 0..N : Body(after)[n] = IF n = 0 THEN <<list, 1>> ELSE Round(after[n - 1], 0)
    OBVIOUS
  <2> HIDE DEF after, Body
  <2>2. \A n \in 0..N : after[n] = IF n = 0 THEN <<list, 1>> ELSE Round(after[n - 1], 0)
    BY <1>5, <2>1
  <2>3. QED
    BY <1>1, <2>2
<1> HIDE DEF after
<1>8. QED
  BY <1>6, <1>7

(* After n rounds the records that stay have moved up and the rest follow. *)
Cleared(at, n) ==
  /\ at[1] \in Seq(Items) /\ at[2] = Staying(n) + 1
  /\ Len(at[1]) = Staying(n) + (Len(list) - n)
  /\ \A j \in Unfinished : j <= n => at[1][Staying(j)] = list[j]
  /\ \A m \in 1..(Len(list) - n) : at[1][Staying(n) + m] = list[n + m]

LEMMA RoundClears ==
  ASSUME list \in Seq(Items), NEW n \in Nat, n < Len(list), NEW at, Cleared(at, n)
  PROVE  Cleared(Round(at, 0), n + 1)
<1> DEFINE records == at[1]
           i == at[2]
           c == Staying(n)
<1>1. /\ Len(list) \in Nat /\ c \in Nat /\ i = c + 1 /\ records \in Seq(Items)
      /\ Len(records) = c + (Len(list) - n) /\ i \in 1..Len(records)
  <2>1. Len(list) \in Nat /\ c \in Nat
    BY StayingCounts
  <2>2. /\ i = c + 1 /\ records \in Seq(Items) /\ Len(records) = c + (Len(list) - n)
    BY DEF Cleared
  <2>3. QED
    BY <2>1, <2>2
<1>2. records[i] = list[n + 1]
  <2>1. 1 \in 1..(Len(list) - n) /\ \A m \in 1..(Len(list) - n) : records[c + m] = list[n + m]
    BY <1>1 DEF Cleared
  <2>2. QED
    BY <1>1, <2>1
<1>3. n + 1 \in Unfinished <=> status[list[n + 1]] # "Uploaded"
  BY <1>1 DEF Unfinished
<1>4. \A j \in Unfinished : j \in Nat /\ (j <= n => records[Staying(j)] = list[j] /\ Staying(j) \in 1..c)
  <2>1. ASSUME NEW j \in Unfinished
        PROVE  j \in Nat /\ (j <= n => Staying(j) \in 1..c)
    <3>1. j \in 1..Len(list)
      BY StayingCounts
    <3>2. \A m \in Nat : j <= m => Staying(j) \in 1..Staying(m)
      BY StayingCounts
    <3>3. QED
      BY <3>1, <3>2
  <2>2. \A j \in Unfinished : j <= n => records[Staying(j)] = list[j]
    BY DEF Cleared
  <2>3. QED
    BY <2>1, <2>2
<1>5. \A m \in 1..(Len(list) - n) : records[c + m] = list[n + m]
  BY DEF Cleared
<1>6. Staying(n + 1) = c + (IF n + 1 \in Unfinished THEN 1 ELSE 0)
  BY StayingCounts
<1>7. CASE n + 1 \notin Unfinished
  <2> DEFINE fewer == RemoveAt(records, i)
  <2>1. Round(at, 0) = <<fewer, i>>
    BY <1>1, <1>2, <1>3, <1>7 DEF Round
  <2>2. /\ fewer \in Seq(Items) /\ Len(fewer) = Len(records) - 1
        /\ \A k \in 1..(Len(records) - 1) : fewer[k] = IF k < i THEN records[k] ELSE records[k + 1]
    BY <1>1, RemoveOne
  <2>3. Staying(n + 1) = c
    BY <1>1, <1>6, <1>7
  <2> HIDE DEF fewer, records, i, c
  <2>4. ASSUME NEW j \in Unfinished, j <= n + 1  PROVE fewer[Staying(j)] = list[j]
    <3>1. j <= n
      BY <1>4, <1>7, <2>4
    <3>2. Staying(j) \in 1..c /\ records[Staying(j)] = list[j]
      BY <1>4, <3>1
    <3>3. Staying(j) \in 1..(Len(records) - 1) /\ Staying(j) < i
      BY <1>1, <3>2
    <3>4. QED
      BY <2>2, <3>2, <3>3
  <2>5. ASSUME NEW m \in 1..(Len(list) - (n + 1))  PROVE fewer[c + m] = list[(n + 1) + m]
    <3>1. c + m \in 1..(Len(records) - 1) /\ ~ (c + m < i) /\ m + 1 \in 1..(Len(list) - n)
      BY <1>1
    <3>2. fewer[c + m] = records[c + m + 1]
      BY <2>2, <3>1
    <3>3. c + m + 1 = c + (m + 1) /\ n + (m + 1) = (n + 1) + m
      BY <1>1
    <3>4. records[c + (m + 1)] = list[n + (m + 1)]
      BY <1>5, <3>1
    <3>5. QED
      BY <3>2, <3>3, <3>4
  <2>6. Len(fewer) = Staying(n + 1) + (Len(list) - (n + 1))
    BY <1>1, <2>2, <2>3
  <2>7. /\ Round(at, 0)[1] = fewer /\ Round(at, 0)[2] = i
    BY <2>1
  <2>8. i = Staying(n + 1) + 1
    BY <1>1, <2>3
  <2>9. \A m \in 1..(Len(list) - (n + 1)) : fewer[Staying(n + 1) + m] = list[(n + 1) + m]
    BY <2>3, <2>5
  <2>10. QED
    BY Zenon, <2>2, <2>4, <2>6, <2>7, <2>8, <2>9 DEF Cleared
<1>8. CASE n + 1 \in Unfinished
  <2>1. Round(at, 0) = <<records, i + 1>>
    BY <1>1, <1>2, <1>3, <1>8 DEF Round
  <2>2. Staying(n + 1) = c + 1
    BY <1>1, <1>6, <1>8
  <2> HIDE DEF records, i, c
  <2>3. ASSUME NEW j \in Unfinished, j <= n + 1  PROVE records[Staying(j)] = list[j]
    <3>1. CASE j = n + 1
      BY <1>1, <1>2, <2>2, <3>1
    <3>2. CASE j # n + 1
      <4>1. j <= n
        BY <1>4, <2>3, <3>2
      <4>2. QED
        BY <1>4, <4>1
    <3>3. QED
      BY <3>1, <3>2
  <2>4. ASSUME NEW m \in 1..(Len(list) - (n + 1))  PROVE records[(c + 1) + m] = list[(n + 1) + m]
    <3>1. m + 1 \in 1..(Len(list) - n)
      BY <1>1
    <3>2. (c + 1) + m = c + (m + 1) /\ n + (m + 1) = (n + 1) + m
      BY <1>1
    <3>3. QED
      BY <1>5, <3>1, <3>2
  <2>5. Len(records) = (c + 1) + (Len(list) - (n + 1))
    BY <1>1
  <2>6. /\ Round(at, 0)[1] = records /\ Round(at, 0)[2] = i + 1
    BY <2>1
  <2>7. i + 1 = Staying(n + 1) + 1 /\ Len(records) = Staying(n + 1) + (Len(list) - (n + 1))
    BY <1>1, <2>2, <2>5
  <2>8. \A m \in 1..(Len(list) - (n + 1)) : records[Staying(n + 1) + m] = list[(n + 1) + m]
    BY <2>2, <2>4
  <2>9. QED
    BY Zenon, <1>1, <2>3, <2>6, <2>7, <2>8 DEF Cleared
<1>9. QED
  BY <1>7, <1>8

(* All the rounds leave the records that stay, in their order.             *)
LEMMA SweptClears ==
  ASSUME list \in Seq(Items)
  PROVE  /\ Swept(0) \in Seq(Items) /\ Len(Swept(0)) = Cardinality(Unfinished)
         /\ \A n \in Unfinished : Swept(0)[Staying(n)] = list[n]
<1> DEFINE N == Len(list)
<1>1. PICK f : /\ f[0] = <<list, 1>> /\ \A n \in 1..N : f[n] = Round(f[n - 1], 0)
               /\ Swept(0) = f[N][1]
  BY SweptByRounds
<1>2. N \in Nat
  OBVIOUS
<1>3. Cleared(f[0], 0)
  <2>1. /\ f[0][1] = list /\ f[0][2] = 1 /\ Staying(0) = 0
        /\ \A j \in Unfinished : ~ (j <= 0)
    BY <1>1, StayingCounts
  <2>2. QED
    BY <2>1 DEF Cleared
<1> DEFINE T == {n \in 0..N : ~ Cleared(f[n], n)}
<1>4. ASSUME T # {}  PROVE FALSE
  <2>1. PICK n \in T : \A m \in T : n <= m
    <3>1. T \in SUBSET Nat
      OBVIOUS
    <3> HIDE DEF T
    <3>2. QED
      BY <1>4, <3>1, Smallest
  <2>2. n \in 0..N /\ n # 0 /\ ~ Cleared(f[n], n)
    BY <1>3
  <2> HIDE DEF T, N
  <2>3. n - 1 \in Nat /\ n - 1 < N /\ n - 1 \in 0..N /\ (n - 1) + 1 = n /\ n \in 1..N /\ ~ (n <= n - 1)
    BY <1>2, <2>2
  <2>4. Cleared(f[n - 1], n - 1)
    BY <2>1, <2>3 DEF T
  <2>5. Cleared(Round(f[n - 1], 0), n)
    BY <2>3, <2>4, RoundClears DEF N
  <2>6. QED
    BY <1>1, <2>2, <2>3, <2>5
<1>5. Cleared(f[N], N)
  BY <1>2, <1>4
<1>6. \A n \in Unfinished : n <= N
  BY StayingCounts
<1>7. Len(list) - N = 0 /\ Staying(N) = Cardinality(Unfinished) /\ Staying(N) \in Nat
  BY <1>2, StayingCounts
<1>8. QED
  BY <1>1, <1>5, <1>6, <1>7 DEF Cleared-----------------------------------------------------------------------------
(* What IInv says nothing of.                                              *)
ListTyped ==
  /\ list \in Seq(Items) /\ added \subseteq Items /\ heard \subseteq Posts
  /\ directories \subseteq Targets /\ older \subseteq Places

LEMMA AddTyped == list \in Seq(Items) /\ added \subseteq Items /\ AddFiles =>
                    list' \in Seq(Items) /\ added' \subseteq Items
<1> SUFFICES ASSUME list \in Seq(Items), added \subseteq Items, AddFiles
             PROVE  list' \in Seq(Items) /\ added' \subseteq Items
  OBVIOUS
<1>1. PICK new \in (SUBSET (Items \ added)) \ {{}} : \E files \in SetToSeqs(new) :
             list' = list \o files /\ added' = added \cup new
  BY DEF AddFiles
<1>2. PICK files \in SetToSeqs(new) : list' = list \o files /\ added' = added \cup new
  BY <1>1
<1>3. IsFiniteSet(new)
  BY NameAssumption, FS_Subset
<1>4. Cardinality(new) \in Nat
  BY <1>3, FS_CardinalityType
<1>5. files \in [1..Cardinality(new) -> new]
  BY DEF SetToSeqs
<1>6. files \in Seq(Items)
  BY <1>4, <1>5
<1>7. QED
  BY <1>2, <1>6

LEMMA InitListTyped == Init => ListTyped
BY DEF Init, ListTyped, Places

LEMMA StepListTyped == IInv /\ ListTyped /\ [Next]_vars => ListTyped'
<1> SUFFICES ASSUME IInv, ListTyped, [Next]_vars  PROVE ListTyped'
  OBVIOUS
<1>1. older' = older
  BY Step
<1>2. CASE AddFiles
  BY <1>1, <1>2, AddTyped DEF AddFiles, ListTyped, server
<1>3. CASE ChooseTarget
  BY <1>1, <1>3 DEF ChooseTarget, ListTyped, server
<1>4. CASE UploadAll
  BY <1>1, <1>4 DEF UploadAll, PostDocuments, ListTyped
<1>5. CASE ClearAll
  BY <1>1, <1>5 DEF ClearAll, ListTyped, server
<1>6. CASE ClearFinished
  BY <1>1, <1>6, SweptClears DEF ClearFinished, Sweep, ListTyped, server
<1>7. ASSUME NEW p \in Posts, UploadBag(p)  PROVE ListTyped'
  <2>1. goal[p] \in Targets
    BY DEF IInv, Typed
  <2>2. UNCHANGED <<list, added, heard>> /\ directories' \subseteq directories \cup {goal[p]}
    BY <1>7 DEF UploadBag, TurnAway, CheckDirectory, MakeDirectory, CheckFile, OpenFile, CopyFile, page
  <2>3. QED
    BY <1>1, <2>1, <2>2 DEF ListTyped
<1>8. ASSUME NEW p \in Posts, Answered(p) \/ PostLost(p)  PROVE ListTyped'
  BY <1>1, <1>8 DEF Answered, PostLost, Hear, ListTyped, server
<1>9. CASE UNCHANGED vars
  BY <1>9 DEF vars, page, server, ListTyped
<1>10. QED
  BY <1>2, <1>3, <1>4, <1>5, <1>6, <1>7, <1>8, <1>9 DEF Next

(* The window and the server stay within their types.                      *)
THEOREM TypeCorrect == Spec => []TypeOK
<1>1. IInv /\ ListTyped => TypeOK
  BY DEF IInv, Typed, ListTyped, TypeOK
<1>2. QED
  BY <1>1, InitIInv, InitListTyped, Step, StepListTyped, PTL DEF Spec

(* Clear Finished takes the finished records out of any list, and no other *)
(* (BagUploadWindow.js:197, "i--").                                        *)
THEOREM FinishedCleared == Spec => ClearTakesFinished
<1> DEFINE Leaves == ClearFinished =>
             /\ Len(list') = Cardinality(Unfinished)
             /\ \A n \in Unfinished : list'[Cardinality(Unfinished \cap 1..n)] = list[n]
<1>1. ListTyped => Leaves
  BY SweptClears DEF ListTyped, ClearFinished, Sweep, Staying
<1>2. ListTyped /\ [Next]_vars => [Leaves]_vars
  BY <1>1
<1>3. Spec => [][Leaves]_vars
  BY <1>2, InitIInv, InitListTyped, Step, StepListTyped, PTL DEF Spec
<1>4. QED
  BY <1>3 DEF ClearTakesFinished
=============================================================================
