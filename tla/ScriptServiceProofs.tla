------------------------ MODULE ScriptServiceProofs ------------------------
(***************************************************************************)
(* Proofs about ScriptService: for any runs, callers, timeouts and pool,   *)
(* and whatever becomes of the list of running scripts, a run is announced *)
(* as finished only when it has been cancelled or has left all it leaves.  *)
(***************************************************************************)
EXTENDS ScriptService, FiniteSetTheorems, TLAPS

Typed ==
  /\ call \in [Runs -> Calls]
  /\ task \in [Runs -> Stages] /\ outcome \in [Runs -> Outcomes \cup {"none"}]
  /\ future \in [Runs -> {"pending", "cancelled", "done"}]
  /\ announced \subseteq Runs /\ late \subseteq Runs /\ results \subseteq Runs

(* What a run has in the database follows from where it is: nothing before *)
(* the transaction, its result unless an exception has prevented it, its   *)
(* output only with the result.                                            *)
Stored(r) ==
  /\ call[r] = "none" => task[r] = "none"
  /\ task[r] \in {"none", "queued", "running", "ended"} => r \notin results
  /\ task[r] \in {"saved", "processed"} => (r \in results <=> outcome[r] # "broken")
  /\ r \in updated => task[r] \in {"processed", "over"} /\ outcome[r] \in {"output", "failed"}
  /\ task[r] = "over" => (r \in updated => r \in results)
  /\ task[r] \in {"ended", "saved", "processed"} => outcome[r] # "none"

(* A Future is done once the run is over and has committed.                *)
Done(r) ==
  future[r] = "done" =>
    task[r] = "over" /\ (r \in results => outcome[r] \in {"output", "failed"})

(* Only a run that somebody has asked for is late, and the Future of a run *)
(* that is over is not pending, so no run that is over is cancelled.       *)
Settled(r) ==
  /\ r \in late => call[r] # "none"
  /\ task[r] = "over" => future[r] # "pending"
  /\ future[r] # "pending" => call[r] # "none"

Inv ==
  /\ Typed
  /\ \A r \in Runs : Stored(r) /\ Done(r) /\ Settled(r)
  /\ \A r \in announced : future[r] # "pending"

LEMMA InitInv == Init => Inv
<1> SUFFICES ASSUME Init PROVE Inv
  OBVIOUS
<1>1. Typed
  BY DEF Init, Typed, Calls, Stages
<1>2. \A r \in Runs : Stored(r) /\ Done(r) /\ Settled(r)
  BY DEF Init, Stored, Done, Settled
<1>3. \A r \in announced : future[r] # "pending"
  BY DEF Init
<1>4. QED
  BY <1>1, <1>2, <1>3 DEF Inv

LEMMA InvStep == Inv /\ [Next]_vars => Inv'
<1> SUFFICES ASSUME Inv, [Next]_vars  PROVE Inv'
  OBVIOUS
<1> USE DEF listVars, runVars, dbVars, checkVars
<1>1. ASSUME NEW q \in Runs, RunScript(q)  PROVE Inv'
  BY <1>1 DEF RunScript, Inv, Typed, Stored, Done, Settled, Stages, Calls
<1>2. ASSUME NEW q \in Runs, CallStep(q) \/ TimeoutPasses(q)  PROVE Inv'
  BY <1>2 DEF CallStep, AddBegins, AddEnds, TimeoutPasses, Inv, Typed, Stored, Done, Settled, Calls
<1>3. ASSUME NEW q \in Runs, ContainerEnds(q)  PROVE Inv'
  BY <1>3 DEF ContainerEnds, Inv, Typed, Stored, Done, Settled, Stages, Outcomes, Calls
<1>4. ASSUME NEW q \in Runs, StartTask(q)  PROVE Inv'
  BY <1>4 DEF StartTask, Inv, Typed, Stored, Done, Settled, Stages, Calls
<1>5. ASSUME NEW q \in Runs, SaveResult(q)  PROVE Inv'
  BY <1>5 DEF SaveResult, Inv, Typed, Stored, Done, Settled, Stages, Calls
<1>6. ASSUME NEW q \in Runs, ProcessScriptOutput(q)  PROVE Inv'
  BY <1>6 DEF ProcessScriptOutput, Inv, Typed, Stored, Done, Settled, Stages, Calls
<1>7. ASSUME NEW q \in Runs, CommitRun(q)  PROVE Inv'
  BY <1>7 DEF CommitRun, Commit, RollBack, SetDone, Inv, Typed, Stored, Done, Settled, Stages, Outcomes, Calls
<1>8. CASE ScanEnds
  BY <1>8 DEF ScanEnds, Inv, Typed, Stored, Done, Settled, Calls
<1>9. CASE CheckRun
  BY <1>9 DEF CheckRun, Inv, Typed, Stored, Done, Settled, Calls
<1>10. CASE CheckBegins \/ CheckThrows \/ RemoveBegins \/ RemoveEnds
  BY <1>10 DEF CheckBegins, CheckThrows, CheckReturns, RemoveBegins, RemoveEnds,
               Inv, Typed, Stored, Done, Settled, Calls
<1>11. CASE UNCHANGED vars
  BY <1>11 DEF vars, Inv, Typed, Stored, Done, Settled, Calls
<1>12. QED
  BY <1>1, <1>2, <1>3, <1>4, <1>5, <1>6, <1>7, <1>8, <1>9, <1>10, <1>11
     DEF Next, PoolStep, CheckStep

(* A run is announced as finished only when it has been cancelled, or has  *)
(* committed its result and what its output says of the bag together       *)
(* (checkRunningScripts against RunnableScript.run).                       *)
THEOREM NewsIsTrue == Spec => []AnnouncedIsOver
<1>1. Inv => AnnouncedIsOver
  <2> SUFFICES ASSUME Inv, NEW r \in announced, future[r] # "cancelled"
               PROVE  /\ task[r] = "over"
                      /\ r \in results => outcome[r] \in {"output", "failed"}
                      /\ r \in updated => r \in results
    BY DEF AnnouncedIsOver
  <2>1. r \in Runs /\ future[r] = "done"
    BY DEF Inv, Typed
  <2>2. QED
    BY <2>1 DEF Inv, Stored, Done
<1>2. QED
  BY <1>1, InitInv, InvStep, PTL DEF Spec

(* A step of the service is a step of the life of one run, or none that    *)
(* shows from outside.                                                     *)
LEMMA StepsLive == Inv /\ [Next]_vars => [Life!LifeNext]_(Life!lifeVars)
<1> SUFFICES ASSUME Inv, [Next]_vars
             PROVE  Life!LifeNext \/ UNCHANGED Life!lifeVars
  OBVIOUS
<1> USE DEF listVars, runVars, dbVars, checkVars, Life!lifeVars
<1>1. ASSUME NEW q \in Runs, RunScript(q)  PROVE Life!Start(q)
  BY <1>1 DEF RunScript, Life!Start, Inv, Typed, Stored
<1>2. ASSUME NEW q \in Runs, CallStep(q)  PROVE UNCHANGED Life!lifeVars
  BY <1>2 DEF CallStep, AddBegins, AddEnds, Inv, Typed
<1>3. ASSUME NEW q \in Runs, TimeoutPasses(q)  PROVE UNCHANGED Life!lifeVars
  BY <1>3 DEF TimeoutPasses
<1>4. ASSUME NEW q \in Runs, ContainerEnds(q)  PROVE UNCHANGED Life!lifeVars
  BY <1>4 DEF ContainerEnds, Inv, Typed
<1>5. ASSUME NEW q \in Runs, StartTask(q)  PROVE Life!End(q) \/ UNCHANGED Life!lifeVars
  BY <1>5 DEF StartTask, Life!End, Inv, Typed, Stored
<1>6. ASSUME NEW q \in Runs, SaveResult(q) \/ ProcessScriptOutput(q)
      PROVE  UNCHANGED Life!lifeVars
  BY <1>6 DEF SaveResult, ProcessScriptOutput, Inv, Typed
<1>7. ASSUME NEW q \in Runs, CommitRun(q)  PROVE Life!End(q)
  BY <1>7 DEF CommitRun, Commit, RollBack, SetDone, Life!End, Inv, Typed, Stored
<1>8. CASE ScanEnds
  BY <1>8 DEF ScanEnds
<1>9. CASE CheckRun
  BY <1>9 DEF CheckRun, Life!LifeNext, Life!Announce, Life!Cancel, Inv, Typed, Stored, Done, Settled
<1>10. CASE CheckBegins \/ CheckThrows \/ RemoveBegins \/ RemoveEnds
  BY <1>10 DEF CheckBegins, CheckThrows, CheckReturns, RemoveBegins, RemoveEnds
<1>11. CASE UNCHANGED vars
  BY <1>11 DEF vars
<1>12. QED
  BY <1>1, <1>2, <1>3, <1>4, <1>5, <1>6, <1>7, <1>8, <1>9, <1>10, <1>11
     DEF Next, PoolStep, CheckStep, Life!LifeNext

(* The service implements RunLife, which is all that the results panel of  *)
(* the web page relies on (ScriptService and RunnableScript against        *)
(* whoever runs scripts).                                                  *)
THEOREM ImplementsRunLife == Spec => RunsLive
<1>1. Init => Life!LifeInit
  BY DEF Init, Life!LifeInit
<1>2. QED
  BY <1>1, InitInv, InvStep, StepsLive, PTL DEF Spec, RunsLive, Life!LifeSpec
-----------------------------------------------------------------------------
(* The list of running scripts.                                            *)

(* removeAll finds a place for every element that it keeps, and one for    *)
(* each.                                                                   *)
LEMMA KeptHavePlaces ==
  ASSUME NEW S, NEW s \in Seq(S)
  PROVE  /\ Kept(s) \subseteq 1..Len(s) /\ IsFiniteSet(Kept(s))
         /\ Cardinality(Kept(s)) \in Nat /\ Cardinality(Kept(s)) <= Len(s)
         /\ \A i \in Kept(s) : Place(s, i) \in 1..Cardinality(Kept(s))
         /\ \A i, j \in Kept(s) : Place(s, i) = Place(s, j) => i = j
         /\ \A n \in 1..Cardinality(Kept(s)) : \E i \in Kept(s) : Place(s, i) = n
<1> DEFINE K == Kept(s)
           c == Cardinality(K)
           upTo(i) == K \cap 1..i
           place == [i \in K |-> Place(s, i)]
<1>1. K \subseteq 1..Len(s) /\ Len(s) \in Nat
  BY DEF Kept
<1> HIDE DEF K
<1>2. IsFiniteSet(K) /\ c \in Nat /\ c <= Len(s)
  <2>1. IsFiniteSet(1..Len(s)) /\ Cardinality(1..Len(s)) = Len(s)
    <3> DEFINE n == Len(s)
    <3>1. n \in Nat
      BY <1>1
    <3> HIDE DEF n
    <3>2. IsFiniteSet(1..n) /\ Cardinality(1..n) = n
      BY <3>1, FS_Interval
    <3>3. QED
      BY <3>2 DEF n
  <2>2. K \in SUBSET (1..Len(s))
    BY <1>1
  <2>3. IsFiniteSet(K) /\ Cardinality(K) <= Cardinality(1..Len(s))
    BY <2>1, <2>2, FS_Subset
  <2>4. Cardinality(K) \in Nat
    BY <2>3, FS_CardinalityType
  <2>5. QED
    BY <2>1, <2>3, <2>4
<1>3. \A i \in K : IsFiniteSet(upTo(i)) /\ Cardinality(upTo(i)) \in Nat /\ Cardinality(upTo(i)) <= c
  BY <1>2, FS_Subset, FS_CardinalityType
<1>4. \A i \in K : Cardinality(upTo(i)) # 0
  <2>1. \A i \in K : i \in upTo(i)
    BY <1>1
  <2>2. QED
    BY <1>3, <2>1, FS_EmptySet
<1>5. \A i \in K : Place(s, i) = Cardinality(upTo(i)) /\ Place(s, i) \in 1..c
  <2>1. \A i \in K : Place(s, i) = Cardinality(upTo(i))
    BY DEF Place, K
  <2>2. ASSUME NEW i \in K  PROVE Place(s, i) \in 1..c
    <3>1. /\ Cardinality(upTo(i)) \in Nat /\ Cardinality(upTo(i)) <= c
          /\ Cardinality(upTo(i)) # 0 /\ Place(s, i) = Cardinality(upTo(i))
      BY <1>3, <1>4, <2>1
    <3> HIDE DEF upTo
    <3>2. QED
      BY <1>2, <3>1
  <2>3. QED
    BY <2>1, <2>2
<1>6. ASSUME NEW i \in K, NEW j \in K, i < j  PROVE Place(s, i) # Place(s, j)
  <2>1. upTo(i) \subseteq upTo(j) /\ j \in upTo(j) /\ j \notin upTo(i)
    BY <1>1, <1>6
  <2>2. Cardinality(upTo(i)) # Cardinality(upTo(j))
    BY <1>3, <2>1, FS_Subset
  <2>3. QED
    BY <1>5, <2>2
<1>7. \A i, j \in K : Place(s, i) = Place(s, j) => i = j
  BY <1>1, <1>6
<1>8. place \in Injection(K, 1..c)
  BY <1>5, <1>7 DEF Injection, IsInjective
<1>9. place \in Surjection(K, 1..c)
  <2>1. IsFiniteSet(1..c) /\ Cardinality(1..c) = c
    BY <1>2, FS_Interval
  <2>2. QED
    BY <1>8, <2>1, FS_Injection
<1>10. \A n \in 1..c : \E i \in K : Place(s, i) = n
  BY <1>9 DEF Surjection
<1>11. QED
  BY <1>1, <1>2, <1>5, <1>7, <1>10 DEF K
LEMMA UnfinishedElements ==
  ASSUME NEW S, NEW s \in Seq(S)
  PROVE  /\ Unfinished(s) \in Seq(S) /\ Len(Unfinished(s)) <= Len(s)
         /\ \A n \in DOMAIN Unfinished(s) : \E i \in DOMAIN s :
              s[i] \notin finished /\ Unfinished(s)[n] = s[i]
         /\ \A i \in DOMAIN s :
              s[i] \notin finished => \E n \in DOMAIN Unfinished(s) : Unfinished(s)[n] = s[i]
         /\ (\A i, j \in DOMAIN s : s[i] = s[j] => i = j) =>
              \A n, m \in DOMAIN Unfinished(s) : Unfinished(s)[n] = Unfinished(s)[m] => n = m
<1> DEFINE from(n) == CHOOSE i \in Kept(s) : Place(s, i) = n
           u == Unfinished(s)
<1>1. /\ Kept(s) \subseteq DOMAIN s /\ \A i \in DOMAIN s : i \in Kept(s) <=> s[i] \notin finished
      /\ \A i \in DOMAIN s : s[i] \in S
  BY DEF Kept
<1>2. \A n \in 1..Cardinality(Kept(s)) : from(n) \in Kept(s) /\ Place(s, from(n)) = n
  BY KeptHavePlaces
<1>3. \A i \in Kept(s) : Place(s, i) \in 1..Cardinality(Kept(s)) /\ from(Place(s, i)) = i
  BY <1>2, KeptHavePlaces
<1> HIDE DEF from
<1>4. u = [n \in 1..Cardinality(Kept(s)) |-> s[from(n)]]
  BY DEF Unfinished, from
<1> HIDE DEF u
<1>5. Cardinality(Kept(s)) \in Nat /\ Cardinality(Kept(s)) <= Len(s)
  BY KeptHavePlaces
<1>6. u \in Seq(S) /\ Len(u) = Cardinality(Kept(s)) /\ DOMAIN u = 1..Cardinality(Kept(s))
  BY <1>1, <1>2, <1>4, <1>5
<1>7. \A n \in DOMAIN u : from(n) \in DOMAIN s /\ s[from(n)] \notin finished /\ u[n] = s[from(n)]
  BY <1>1, <1>2, <1>4
<1>8. \A i \in Kept(s) : Place(s, i) \in DOMAIN u /\ u[Place(s, i)] = s[i]
  BY <1>3, <1>4
<1>9. ASSUME \A i, j \in DOMAIN s : s[i] = s[j] => i = j, NEW n \in DOMAIN u, NEW m \in DOMAIN u, u[n] = u[m]
      PROVE  n = m
  <2>1. from(n) = from(m)
    BY <1>7, <1>9
  <2>2. QED
    BY <1>2, <1>6, <2>1
<1>10. QED
  BY <1>1, <1>5, <1>6, <1>7, <1>8, <1>9 DEF u

Returned == {r \in Runs : call[r] = "returned"}

(* Sizes of the list that anybody has read, and its own, never exceed the  *)
(* number of calls that have returned.                                     *)
Sizes ==
  /\ list \in Seq(Runs \cup {Null}) /\ Len(list) <= Cardinality(Returned)
  /\ slot \in [Runs -> 0..Cardinality(Returned)]
  /\ pos \in 0..Cardinality(Returned) /\ oldSize \in 0..Cardinality(Returned)

Others ==
  /\ late \subseteq Timed /\ bag \in [Runs -> {"there", "uncommitted", "never"}]
  /\ updated \subseteq Runs /\ check \in {"idle", "loop", "removing"}
  /\ finished \subseteq announced /\ disturbed \in BOOLEAN /\ torn \in BOOLEAN

(* Until two changes overlap, one call at a time adds to the list, at its  *)
(* end, and nobody changes it while finished runs are removed.             *)
Alone ==
  ~torn =>
    /\ \A r \in Adding : slot[r] = Len(list) /\ Adding = {r}
    /\ (check = "removing" /\ finished # {}) => Adding = {} /\ oldSize = Len(list)

ListInv == Typed /\ Sizes /\ Others /\ Alone /\ ListSound

LEMMA ReturnedFinite ==
  /\ IsFiniteSet(Returned) /\ Cardinality(Returned) \in Nat /\ Cardinality(Runs) \in Nat
  /\ Cardinality(Returned) <= Cardinality(Runs)
  /\ \A r : /\ IsFiniteSet(Returned \cup {r})
            /\ r \notin Returned => Cardinality(Returned \cup {r}) = Cardinality(Returned) + 1
<1>1. IsFiniteSet(Runs) /\ Returned \in SUBSET Runs
  BY RunAssumption DEF Returned
<1>2. IsFiniteSet(Returned) /\ Cardinality(Returned) <= Cardinality(Runs)
  BY <1>1, FS_Subset
<1>3. Cardinality(Returned) \in Nat /\ Cardinality(Runs) \in Nat
  BY <1>1, <1>2, FS_CardinalityType
<1>4. QED
  BY <1>2, <1>3, FS_AddElement

LEMMA ListInvTypeOK == ListInv => TypeOK
<1> SUFFICES ASSUME ListInv  PROVE TypeOK
  OBVIOUS
<1>1. 0..Cardinality(Returned) \subseteq 0..Cardinality(Runs)
  <2>1. /\ Cardinality(Returned) \in Nat /\ Cardinality(Runs) \in Nat
        /\ Cardinality(Returned) <= Cardinality(Runs)
    BY ReturnedFinite
  <2>2. QED
    BY <2>1
<1>2. Len(list) <= Cardinality(Runs)
  <2>1. /\ Cardinality(Returned) \in Nat /\ Cardinality(Runs) \in Nat /\ Len(list) \in Nat
        /\ Cardinality(Returned) <= Cardinality(Runs) /\ Len(list) <= Cardinality(Returned)
    BY ReturnedFinite DEF ListInv, Sizes
  <2>2. QED
    BY <2>1
<1>3. slot \in [Runs -> 0..Cardinality(Runs)]
  BY <1>1 DEF ListInv, Sizes
<1>4. QED
  BY <1>1, <1>2, <1>3 DEF ListInv, Typed, Sizes, Others, TypeOK

LEMMA InitListInv == Init => ListInv
<1> SUFFICES ASSUME Init  PROVE ListInv
  OBVIOUS
<1>1. Typed
  BY DEF Init, Typed, Calls, Stages
<1>2. Returned = {} /\ Adding = {} /\ Cardinality(Returned) \in Nat
  BY ReturnedFinite DEF Init, Returned, Adding
<1>3. list \in Seq(Runs \cup {Null}) /\ Len(list) = 0 /\ DOMAIN list = {}
  BY DEF Init
<1>4. Sizes
  BY <1>2, <1>3 DEF Init, Sizes
<1>5. Others /\ Alone /\ ListSound
  BY <1>2, <1>3 DEF Init, Others, Alone, ListSound, Listed
<1>6. QED
  BY <1>1, <1>4, <1>5 DEF ListInv

(* A call that returns is one more, and the bounds on sizes grow with it.  *)
LEMMA OneMoreReturned ==
  ASSUME NEW r \in Runs, call \in [Runs -> Calls], call[r] # "returned",
         call' = [call EXCEPT ![r] = "returned"]
  PROVE  Cardinality(Returned') = Cardinality(Returned) + 1
<1>1. Returned' = Returned \cup {r} /\ r \notin Returned
  BY DEF Returned, Calls
<1>2. QED
  BY <1>1, ReturnedFinite

LEMMA SizesStep == ListInv /\ [Next]_vars => Sizes'
<1> SUFFICES ASSUME ListInv, [Next]_vars  PROVE Sizes'
  OBVIOUS
<1> USE DEF listVars, runVars, dbVars, checkVars
<1> DEFINE c == Cardinality(Returned)
<1>1. c \in Nat /\ list \in Seq(Runs \cup {Null}) /\ Len(list) \in Nat /\ Len(list) <= c
  BY ReturnedFinite DEF ListInv, Sizes
<1>2. slot \in [Runs -> 0..c] /\ pos \in 0..c /\ oldSize \in 0..c /\ call \in [Runs -> Calls]
  BY DEF ListInv, Sizes, Typed
<1>3. ASSUME Returned' = Returned, list' \in Seq(Runs \cup {Null}), Len(list') <= c,
             slot' \in [Runs -> 0..c], pos' \in 0..c, oldSize' \in 0..c
      PROVE  Sizes'
  BY <1>3 DEF Sizes
<1> HIDE DEF c
<1>4. ASSUME NEW q \in Runs, RunScript(q)  PROVE Sizes'
  <2>1. Returned' = Returned
    BY <1>2, <1>4 DEF RunScript, Returned, Calls
  <2>2. QED
    BY <1>1, <1>2, <1>3, <1>4, <2>1 DEF RunScript
<1>5. ASSUME NEW q \in Runs, AddBegins(q)  PROVE Sizes'
  <2>1. Returned' = Returned
    BY <1>2, <1>5 DEF AddBegins, Returned, Calls
  <2>2. slot' \in [Runs -> 0..c]
    BY <1>1, <1>2, <1>5 DEF AddBegins
  <2>3. QED
    BY <1>1, <1>2, <1>3, <1>5, <2>1, <2>2 DEF AddBegins
<1>6. ASSUME NEW q \in Runs, AddEnds(q)  PROVE Sizes'
  <2> DEFINE head == [i \in 1..slot[q] |-> IF i <= Len(list) THEN list[i] ELSE Null]
             d == Cardinality(Returned')
  <2>1. d = c + 1
    BY <1>2, <1>6, OneMoreReturned DEF AddEnds, c
  <2>2. slot[q] \in Nat /\ slot[q] <= c
    BY <1>1, <1>2
  <2>3. head \in Seq(Runs \cup {Null}) /\ Len(head) = slot[q]
    <3>1. \A i \in 1..slot[q] : i <= Len(list) => list[i] \in Runs \cup {Null}
      BY <1>1, <2>2
    <3>2. QED
      BY <2>2, <3>1
  <2>4. list' = head \o <<q>>
    BY <1>6 DEF AddEnds
  <2> HIDE DEF head, d
  <2>5. list' \in Seq(Runs \cup {Null}) /\ Len(list') = slot[q] + 1
    BY <2>3, <2>4
  <2>6. Len(list') <= d
    BY <1>1, <2>1, <2>2, <2>5
  <2>7. \A n \in 0..c : n \in 0..d
    BY <1>1, <2>1
  <2>8. slot' \in [Runs -> 0..d]
    BY <1>1, <1>2, <1>6, <2>1, <2>7 DEF AddEnds
  <2>9. pos' \in 0..d /\ oldSize' \in 0..d
    BY <1>2, <1>6, <2>7 DEF AddEnds
  <2>10. QED
    BY <2>5, <2>6, <2>8, <2>9 DEF Sizes, d
<1>7. CASE \E q \in Runs : ContainerEnds(q) \/ PoolStep(q) \/ TimeoutPasses(q)
  <2>1. UNCHANGED <<listVars, checkVars>>
    BY <1>7 DEF ContainerEnds, PoolStep, StartTask, SaveResult, ProcessScriptOutput, CommitRun,
                TimeoutPasses
  <2>2. QED
    BY <1>1, <1>2, <1>3, <2>1 DEF Returned
<1>8. CASE ScanEnds \/ UNCHANGED vars
  <2>1. UNCHANGED <<listVars, checkVars>>
    BY <1>8 DEF ScanEnds, vars
  <2>2. QED
    BY <1>1, <1>2, <1>3, <2>1 DEF Returned
<1>9. CASE CheckBegins \/ CheckThrows
  <2>1. UNCHANGED listVars /\ pos' \in 0..c /\ oldSize' \in 0..c
    BY <1>1, <1>2, <1>9 DEF CheckBegins, CheckThrows, CheckReturns
  <2>2. QED
    BY <1>1, <1>2, <1>3, <2>1 DEF Returned
<1>10. CASE CheckRun
  <2>1. UNCHANGED listVars /\ pos' = pos + 1 /\ pos < Len(list) /\ oldSize' = oldSize
    BY <1>10 DEF CheckRun
  <2>2. pos' \in 0..c
    BY <1>1, <1>2, <2>1
  <2>3. QED
    BY <1>1, <1>2, <1>3, <2>1, <2>2 DEF Returned
<1>11. CASE RemoveBegins
  <2>1. UNCHANGED <<call, slot, list, pos>> /\ oldSize' = Len(list)
    BY <1>11 DEF RemoveBegins
  <2>2. oldSize' \in 0..c
    BY <1>1, <2>1
  <2>3. QED
    BY <1>1, <1>2, <1>3, <2>1, <2>2 DEF Returned
<1>12. CASE RemoveEnds
  <2>1. UNCHANGED <<call, slot>> /\ pos' = 0 /\ oldSize' = 0
    BY <1>12 DEF RemoveEnds, CheckReturns
  <2>2. list' \in Seq(Runs \cup {Null}) /\ Len(list') <= c
    <3>1. CASE list' = list
      BY <1>1, <3>1
    <3>2. CASE list' = Unfinished(list)
      <4>1. Unfinished(list) \in Seq(Runs \cup {Null}) /\ Len(Unfinished(list)) <= Len(list)
        BY <1>1, UnfinishedElements
      <4>2. Len(Unfinished(list)) \in Nat
        BY <4>1
      <4>3. QED
        BY <1>1, <3>2, <4>1, <4>2
    <3>3. CASE Len(list) > oldSize /\ list' = Unfinished(SubSeq(list, 1, oldSize))
      <4> DEFINE front == SubSeq(list, 1, oldSize)
      <4>1. oldSize \in Nat /\ oldSize <= c /\ oldSize <= Len(list)
        BY <1>1, <1>2, <3>3
      <4>2. front \in Seq(Runs \cup {Null}) /\ Len(front) = oldSize
        BY <1>1, <4>1
      <4> HIDE DEF front
      <4>3. Unfinished(front) \in Seq(Runs \cup {Null}) /\ Len(Unfinished(front)) <= Len(front)
        BY <4>2, UnfinishedElements
      <4>4. Len(Unfinished(front)) \in Nat
        BY <4>3
      <4>5. QED
        BY <1>1, <3>3, <4>1, <4>2, <4>3, <4>4 DEF front
    <3>4. QED
      BY <1>12, <3>1, <3>2, <3>3 DEF RemoveEnds
  <2>3. QED
    BY <1>1, <1>2, <1>3, <2>1, <2>2 DEF Returned
<1>13. QED
  BY <1>4, <1>5, <1>6, <1>7, <1>8, <1>9, <1>10, <1>11, <1>12 DEF Next, CallStep, CheckStep

LEMMA OthersStep == ListInv /\ [Next]_vars => Others'
<1> SUFFICES ASSUME ListInv, [Next]_vars  PROVE Others'
  OBVIOUS
<1> USE DEF listVars, runVars, dbVars, checkVars, Others
<1>1. Others /\ finished \subseteq announced
  BY DEF ListInv
<1>2. ASSUME NEW q \in Runs, RunScript(q) \/ CallStep(q) \/ TimeoutPasses(q)  PROVE Others'
  BY <1>1, <1>2 DEF RunScript, CallStep, AddBegins, AddEnds, TimeoutPasses
<1>3. ASSUME NEW q \in Runs, ContainerEnds(q) \/ PoolStep(q)  PROVE Others'
  BY <1>1, <1>3 DEF ContainerEnds, PoolStep, StartTask, SaveResult, ProcessScriptOutput, CommitRun,
                    Commit, RollBack
<1>4. CASE ScanEnds \/ UNCHANGED vars
  BY <1>1, <1>4 DEF ScanEnds, vars
<1>5. CASE CheckStep
  BY <1>1, <1>5 DEF CheckStep, CheckBegins, CheckThrows, CheckReturns, CheckRun, RemoveBegins, RemoveEnds
<1>6. QED
  BY <1>2, <1>3, <1>4, <1>5 DEF Next

LEMMA AloneStep == ListInv /\ [Next]_vars => Alone'
<1> SUFFICES ASSUME ListInv, [Next]_vars, ~torn'
             PROVE  /\ \A r \in Adding' : slot'[r] = Len(list') /\ Adding' = {r}
                    /\ (check' = "removing" /\ finished' # {}) => Adding' = {} /\ oldSize' = Len(list')
  BY DEF Alone
<1> USE DEF listVars, runVars, dbVars, checkVars
<1> DEFINE Goal == /\ \A r \in Adding' : slot'[r] = Len(list') /\ Adding' = {r}
                   /\ (check' = "removing" /\ finished' # {}) => Adding' = {} /\ oldSize' = Len(list')
<1>1. call \in [Runs -> Calls] /\ slot \in [Runs -> 0..Cardinality(Returned)]
      /\ torn \in BOOLEAN
  BY DEF ListInv, Typed, Sizes, Others
<1>2. ~torn
  BY <1>1 DEF Next, RunScript, CallStep, AddBegins, AddEnds, ContainerEnds, PoolStep, StartTask, SaveResult,
              ProcessScriptOutput, CommitRun, TimeoutPasses, ScanEnds, CheckStep, CheckBegins,
              CheckThrows, CheckReturns, CheckRun, RemoveBegins, RemoveEnds, vars
<1>3. /\ \A r \in Adding : slot[r] = Len(list) /\ Adding = {r}
      /\ (check = "removing" /\ finished # {}) => Adding = {} /\ oldSize = Len(list)
  BY <1>2 DEF ListInv, Alone
<1>4. ASSUME NEW q \in Runs, RunScript(q)  PROVE Goal
  <2>1. Adding' = Adding
    BY <1>1, <1>4 DEF RunScript, Adding, Calls
  <2>2. QED
    BY <1>3, <1>4, <2>1 DEF RunScript
<1>5. ASSUME NEW q \in Runs, AddBegins(q)  PROVE Goal
  <2>1. Adding = {} /\ ~(check = "removing" /\ finished # {})
    BY <1>5 DEF AddBegins
  <2>2. Adding' = {q} /\ slot'[q] = Len(list)
    BY <1>1, <1>5, <2>1 DEF AddBegins, Adding, Calls
  <2>3. QED
    BY <1>5, <2>1, <2>2 DEF AddBegins
<1>6. ASSUME NEW q \in Runs, AddEnds(q)  PROVE Goal
  <2>1. q \in Adding /\ Adding = {q}
    BY <1>3, <1>6 DEF AddEnds, Adding
  <2>2. Adding' = {}
    BY <1>1, <1>6, <2>1 DEF AddEnds, Adding, Calls
  <2>3. QED
    BY <1>3, <1>6, <2>1, <2>2 DEF AddEnds
<1>7. CASE \E q \in Runs : ContainerEnds(q) \/ PoolStep(q) \/ TimeoutPasses(q)
  BY <1>3, <1>7 DEF ContainerEnds, PoolStep, StartTask, SaveResult, ProcessScriptOutput, CommitRun,
                    TimeoutPasses, Adding
<1>8. CASE ScanEnds \/ UNCHANGED vars
  BY <1>3, <1>8 DEF ScanEnds, vars, Adding
<1>9. CASE CheckBegins \/ CheckThrows \/ CheckRun
  BY <1>3, <1>9 DEF CheckBegins, CheckThrows, CheckReturns, CheckRun, Adding
<1>10. CASE RemoveBegins
  BY <1>3, <1>10 DEF RemoveBegins, Adding
<1>11. CASE RemoveEnds
  <2>1. Adding' = Adding /\ check' = "idle" /\ slot' = slot
    BY <1>11 DEF RemoveEnds, CheckReturns, Adding
  <2>2. check = "removing" /\ (finished = {} => list' = list)
    BY <1>11 DEF RemoveEnds
  <2>3. QED
    BY <1>3, <2>1, <2>2
<1>12. QED
  BY <1>4, <1>5, <1>6, <1>7, <1>8, <1>9, <1>10, <1>11 DEF Next, CallStep, CheckStep

LEMMA ListSoundStep == ListInv /\ [Next]_vars => ListSound'
<1> SUFFICES ASSUME ListInv, [Next]_vars, ~torn'
             PROVE  /\ \A i, j \in DOMAIN list' : list'[i] = list'[j] => i = j
                    /\ \A r \in Runs : call'[r] = "returned" /\ r \notin announced' => r \in Listed'
                    /\ \A e \in Listed' : e \in Runs /\ call'[e] = "returned"
  BY DEF ListSound
<1> USE DEF listVars, runVars, dbVars, checkVars
<1> DEFINE Goal == /\ \A i, j \in DOMAIN list' : list'[i] = list'[j] => i = j
                   /\ \A r \in Runs : call'[r] = "returned" /\ r \notin announced' => r \in Listed'
                   /\ \A e \in Listed' : e \in Runs /\ call'[e] = "returned"
<1>1. call \in [Runs -> Calls] /\ torn \in BOOLEAN /\ list \in Seq(Runs \cup {Null})
      /\ slot \in [Runs -> 0..Cardinality(Returned)] /\ finished \subseteq announced
  BY DEF ListInv, Typed, Sizes, Others
<1>2. ~torn
  BY <1>1 DEF Next, RunScript, CallStep, AddBegins, AddEnds, ContainerEnds, PoolStep, StartTask, SaveResult,
              ProcessScriptOutput, CommitRun, TimeoutPasses, ScanEnds, CheckStep, CheckBegins,
              CheckThrows, CheckReturns, CheckRun, RemoveBegins, RemoveEnds, vars
<1>3. /\ \A i, j \in DOMAIN list : list[i] = list[j] => i = j
      /\ \A r \in Runs : call[r] = "returned" /\ r \notin announced => r \in Listed
      /\ \A e \in Listed : e \in Runs /\ call[e] = "returned"
  BY <1>2 DEF ListInv, ListSound
<1>4. /\ \A r \in Adding : slot[r] = Len(list) /\ Adding = {r}
      /\ (check = "removing" /\ finished # {}) => Adding = {} /\ oldSize = Len(list)
  BY <1>2 DEF ListInv, Alone
(* A step that leaves the list alone, and announces or not.                *)
<1>5. ASSUME list' = list, announced \subseteq announced',
             \A r \in Runs : call'[r] = "returned" <=> call[r] = "returned"
      PROVE  Goal
  <2>1. Listed' = Listed
    BY <1>5 DEF Listed
  <2>2. QED
    BY <1>3, <1>5, <2>1
<1>6. ASSUME NEW q \in Runs, RunScript(q) \/ AddBegins(q)  PROVE Goal
  <2>1. list' = list /\ announced' = announced
    BY <1>6 DEF RunScript, AddBegins
  <2>2. \A r \in Runs : call'[r] = "returned" <=> call[r] = "returned"
    BY <1>1, <1>6 DEF RunScript, AddBegins
  <2>3. QED
    BY <1>5, <2>1, <2>2
<1>7. ASSUME NEW q \in Runs, AddEnds(q)  PROVE Goal
  <2>1. q \in Adding /\ slot[q] = Len(list) /\ call[q] = "adding" /\ announced' = announced
    BY <1>4, <1>7 DEF AddEnds, Adding
  <2>2. q \notin Listed
    BY <1>3, <2>1
  <2>3. Len(list) \in Nat /\ DOMAIN list = 1..Len(list)
    BY <1>1
  <2> DEFINE head == [i \in 1..slot[q] |-> IF i <= Len(list) THEN list[i] ELSE Null]
  <2>4. head = list
    BY <1>1, <2>1, <2>3
  <2>5. list' = head \o <<q>>
    BY <1>7 DEF AddEnds
  <2> HIDE DEF head
  <2>6. list' = Append(list, q)
    BY <1>1, <2>4, <2>5
  <2>7. /\ DOMAIN list' = 1..(Len(list) + 1) /\ list'[Len(list) + 1] = q
        /\ \A i \in DOMAIN list : list'[i] = list[i]
    BY <1>1, <2>3, <2>6
  <2>8. \A i \in DOMAIN list' : i \in DOMAIN list \/ i = Len(list) + 1
    BY <2>3, <2>7
  <2>9. \A i \in DOMAIN list : list[i] # q /\ i \in DOMAIN list'
    BY <2>2, <2>3, <2>7 DEF Listed
  <2>10. Len(list) + 1 \in DOMAIN list'
    BY <2>3, <2>7
  <2>11. Listed' = Listed \cup {q}
    BY <2>7, <2>8, <2>9, <2>10 DEF Listed
  <2>12. \A r \in Runs : call'[r] = "returned" <=> call[r] = "returned" \/ r = q
    BY <1>1, <1>7 DEF AddEnds
  <2>13. \A i, j \in DOMAIN list' : list'[i] = list'[j] => i = j
    BY <1>3, <2>7, <2>8, <2>9
  <2>14. QED
    BY <1>3, <2>1, <2>11, <2>12, <2>13
<1>8. CASE \E q \in Runs : ContainerEnds(q) \/ PoolStep(q) \/ TimeoutPasses(q)
  <2>1. list' = list /\ announced' = announced /\ call' = call
    BY <1>8 DEF ContainerEnds, PoolStep, StartTask, SaveResult, ProcessScriptOutput, CommitRun,
                TimeoutPasses
  <2>2. QED
    BY <1>5, <2>1
<1>9. CASE ScanEnds \/ CheckBegins \/ CheckThrows \/ RemoveBegins \/ UNCHANGED vars
  <2>1. list' = list /\ announced' = announced /\ call' = call
    BY <1>9 DEF ScanEnds, CheckBegins, CheckThrows, CheckReturns, RemoveBegins, vars
  <2>2. QED
    BY <1>5, <2>1
<1>10. CASE CheckRun
  <2>1. list' = list /\ announced \subseteq announced' /\ call' = call
    BY <1>10 DEF CheckRun
  <2>2. QED
    BY <1>5, <2>1
<1>11. CASE RemoveEnds
  <2>1. call' = call /\ announced' = announced /\ check = "removing"
    BY <1>11 DEF RemoveEnds, CheckReturns
  <2>2. CASE finished = {}
    BY <1>5, <1>11, <2>1, <2>2 DEF RemoveEnds
  <2>3. CASE finished # {}
    <3> DEFINE u == Unfinished(list)
    <3>1. Len(list) = oldSize /\ Len(list) \in Nat
      BY <1>1, <1>4, <2>1, <2>3
    <3>2. list' = u
      BY <1>11, <2>3, <3>1 DEF RemoveEnds
    <3>3. /\ \A n \in DOMAIN u : \E i \in DOMAIN list : list[i] \notin finished /\ u[n] = list[i]
          /\ \A i \in DOMAIN list : list[i] \notin finished => \E n \in DOMAIN u : u[n] = list[i]
          /\ \A n, m \in DOMAIN u : u[n] = u[m] => n = m
      BY <1>1, <1>3, UnfinishedElements
    <3> HIDE DEF u
    <3>4. Listed' = Listed \ finished
      BY <3>2, <3>3 DEF Listed
    <3>5. QED
      BY <1>1, <1>3, <2>1, <3>2, <3>3, <3>4
  <2>4. QED
    BY <2>2, <2>3
<1>12. QED
  BY <1>6, <1>7, <1>8, <1>9, <1>10, <1>11 DEF Next, CallStep, CheckStep

LEMMA ListInvStep == Inv /\ ListInv /\ [Next]_vars => ListInv'
<1>1. Inv' => Typed'
  BY DEF Inv
<1>2. QED
  BY <1>1, InvStep, SizesStep, OthersStep, AloneStep, ListSoundStep DEF ListInv

(* The model's variables keep their types, whatever runScript and the      *)
(* check do to the list at the same time (ScriptService.runningScripts):   *)
(* no element is ever anything but a run or one that was never written.    *)
THEOREM TypeCorrect == Spec => []TypeOK
<1>1. QED
  BY InitInv, InvStep, InitListInv, ListInvStep, ListInvTypeOK, PTL DEF Spec

(* Runs are added while the check goes through the list, whose iterator    *)
(* then throws after some have been announced and before any is removed:   *)
(* no check that ends so loses a run or leaves one to be found twice, and  *)
(* neither does one that ends well.  This holds until two changes of the   *)
(* list itself overlap, two adds or an add and a removal; from then on     *)
(* runs can be lost, and the theorem says nothing (runScript against       *)
(* checkRunningScripts).                                                   *)
THEOREM NoneLost == Spec => []ListSound
<1>1. ListInv => ListSound
  BY DEF ListInv
<1>2. QED
  BY <1>1, InitInv, InvStep, InitListInv, ListInvStep, PTL DEF Spec
=============================================================================
