--------------------------- MODULE ScriptService ---------------------------
(***************************************************************************)
(* Runs of scripts on bag files: ScriptService and RunnableScript.         *)
(*                                                                         *)
(* runScript hands a run to a pool of threads and adds it to the list      *)
(* runningScripts.  A scheduled check goes through the list every half     *)
(* second: it announces the runs that are over and takes them off the      *)
(* list, and cancels the runs whose timeout has passed.  A run's result    *)
(* and what its output says of the bag are stored in one transaction.      *)
(*                                                                         *)
(* The check holds the list's lock; runScript, which web requests and the  *)
(* scanner call, does not.  The list is an ArrayList, whose operations     *)
(* are split here where threads without a common lock can see each other:  *)
(* add reads the size, then writes an element and the new size; removeAll  *)
(* reads the size, then moves the elements it keeps.                       *)
(***************************************************************************)
EXTENDS Naturals, FiniteSets, Sequences

CONSTANTS
  Runs,      \* the runs that may be asked for
  Callers,   \* the threads that call runScript
  Caller,    \* whose call each run is
  Scanner,   \* the caller that runs scripts on the bags it has just inserted
  Timed,     \* the runs of a script with a timeout
  Null,      \* an element of the list nothing has been written to
  PoolSize   \* the threads of taskExecutor

ASSUME RunAssumption ==
  /\ Caller \in [Runs -> Callers] /\ Timed \subseteq Runs /\ Null \notin Runs
  /\ IsFiniteSet(Runs)
ASSUME PoolAssumption == PoolSize \in Nat \ {0}

VARIABLES
  call,       \* how far the call of runScript for each run is
  slot,       \* the size of the list that it has read
  list,       \* the elements of runningScripts, up to its size
  task,       \* where each run is in the pool
  outcome,    \* how each run's container ended
  future,     \* each run's Future
  late,       \* the runs whose timeout has passed
  bag,        \* whether the bag of each run is in the database
  updated,    \* the runs whose output has been applied to the bag
  results,    \* the runs with a row in script_results
  check,      \* where the check is
  pos,        \* how many elements of the list it has gone through
  finished,   \* finishedScripts
  oldSize,    \* the size of the list that removeAll has read
  disturbed,  \* the list has been changed since the check began
  announced,  \* the runs announced on /topic/script_finished
  torn        \* history: two changes of the list have overlapped

listVars  == <<call, slot, list, torn>>
runVars   == <<task, outcome>>
dbVars    == <<bag, updated, results>>
checkVars == <<check, pos, finished, oldSize, disturbed, announced>>
vars == <<listVars, runVars, future, late, dbVars, checkVars>>

Calls    == {"none", "submitted", "adding", "returned"}
Stages   == {"none", "queued", "running", "ended", "saved", "processed", "over"}
(* Output that can be applied, output of a wrong type, an IOException that *)
(* is caught, and any other exception.                                     *)
Outcomes == {"output", "malformed", "failed", "broken"}

TypeOK ==
  /\ call \in [Runs -> Calls] /\ slot \in [Runs -> 0..Cardinality(Runs)]
  /\ list \in Seq(Runs \cup {Null}) /\ Len(list) <= Cardinality(Runs)
  /\ task \in [Runs -> Stages] /\ outcome \in [Runs -> Outcomes \cup {"none"}]
  /\ future \in [Runs -> {"pending", "cancelled", "done"}]
  /\ late \subseteq Timed
  /\ bag \in [Runs -> {"there", "uncommitted", "never"}]
  /\ updated \subseteq Runs /\ results \subseteq Runs
  /\ check \in {"idle", "loop", "removing"}
  /\ pos \in 0..Cardinality(Runs) /\ oldSize \in 0..Cardinality(Runs)
  /\ finished \subseteq Runs /\ announced \subseteq Runs
  /\ disturbed \in BOOLEAN /\ torn \in BOOLEAN
-----------------------------------------------------------------------------
(* runScript.                                                              *)

Busy(c) == \E r \in Runs : Caller[r] = c /\ call[r] \in {"submitted", "adding"}

Adding == {r \in Runs : call[r] = "adding"}

(* The run is submitted before it is in the list.  The scanner's runs are  *)
(* on bags that its transaction has not committed.                         *)
RunScript(r) ==
  /\ call[r] = "none" /\ ~Busy(Caller[r])
  /\ call' = [call EXCEPT ![r] = "submitted"]
  /\ task' = [task EXCEPT ![r] = "queued"]
  /\ bag' = [bag EXCEPT ![r] = IF Caller[r] = Scanner THEN "uncommitted" ELSE "there"]
  /\ UNCHANGED <<slot, list, torn, outcome, future, late, updated, results, checkVars>>

AddBegins(r) ==
  /\ call[r] = "submitted"
  /\ call' = [call EXCEPT ![r] = "adding"]
  /\ slot' = [slot EXCEPT ![r] = Len(list)]
  /\ disturbed' = (check # "idle")
  /\ torn' = (torn \/ Adding # {} \/ (check = "removing" /\ finished # {}))
  /\ UNCHANGED <<list, runVars, future, late, dbVars, check, pos, finished, oldSize, announced>>

AddEnds(r) ==
  /\ call[r] = "adding"
  /\ call' = [call EXCEPT ![r] = "returned"]
  /\ list' = [i \in 1..slot[r] |-> IF i <= Len(list) THEN list[i] ELSE Null] \o <<r>>
  /\ slot' = [slot EXCEPT ![r] = 0]
  /\ UNCHANGED <<torn, runVars, future, late, dbVars, checkVars>>

(* The scanner's transaction ends, with or without the bags.               *)
ScanEnds ==
  /\ ~Busy(Scanner) /\ \E r \in Runs : bag[r] = "uncommitted"
  /\ \E end \in {"there", "never"} :
       bag' = [r \in Runs |-> IF bag[r] = "uncommitted" THEN end ELSE bag[r]]
  /\ UNCHANGED <<listVars, runVars, future, late, updated, results, checkVars>>
-----------------------------------------------------------------------------
(* A run in the pool.                                                      *)

AtWork == {r \in Runs : task[r] \in {"running", "ended", "saved", "processed"}}

StartTask(r) ==
  /\ task[r] = "queued" /\ Cardinality(AtWork) < PoolSize
  /\ task' = [task EXCEPT ![r] = IF future[r] = "pending" THEN "running" ELSE "over"]
  /\ UNCHANGED <<listVars, outcome, future, late, dbVars, checkVars>>

(* RunnableScript.runScript up to the end of the container.  A cancelled   *)
(* run is interrupted, which the container does not notice.                *)
ContainerEnds(r) ==
  /\ task[r] = "running"
  /\ \E o \in Outcomes : outcome' = [outcome EXCEPT ![r] = o]
  /\ task' = [task EXCEPT ![r] = "ended"]
  /\ UNCHANGED <<listVars, future, late, dbVars, checkVars>>

(* From here to CommitRun in one transaction: what is in results and       *)
(* updated of a run that is not over is not committed yet.                 *)
SaveResult(r) ==
  /\ task[r] = "ended"
  /\ task' = [task EXCEPT ![r] = "saved"]
  /\ results' = IF outcome[r] = "broken" THEN results ELSE results \cup {r}
  /\ UNCHANGED <<listVars, outcome, future, late, bag, updated, checkVars>>

(* processScriptOutput looks the bag up by its identifier.  An IOException *)
(* may come before the output has been fetched or after.                   *)
ProcessScriptOutput(r) ==
  /\ task[r] = "saved"
  /\ task' = [task EXCEPT ![r] = "processed"]
  /\ \/ /\ outcome[r] \in {"output", "failed"} /\ bag[r] = "there"
        /\ updated' = updated \cup {r}
     \/ /\ outcome[r] # "output" \/ bag[r] # "there"
        /\ UNCHANGED updated
  /\ UNCHANGED <<listVars, outcome, future, late, bag, results, checkVars>>

SetDone(r) == [future EXCEPT ![r] = IF @ = "pending" THEN "done" ELSE @]

Commit(r)   == outcome[r] # "malformed" /\ UNCHANGED <<results, updated>>
RollBack(r) == results' = results \ {r} /\ updated' = updated \ {r}

(* Mutant: a run that is rolled back has a Future that failed.             *)
CommitOrFail(r) ==
  /\ task[r] = "processed"
  /\ task' = [task EXCEPT ![r] = "over"]
  /\ \/ Commit(r) /\ future' = SetDone(r)
     \/ RollBack(r) /\ future' = [future EXCEPT ![r] = "failed"]
  /\ UNCHANGED <<listVars, outcome, late, bag, checkVars>>

(* The exception of malformed output, which processScriptOutput does not   *)
(* catch, has marked the transaction as one to roll back; any transaction  *)
(* may also fail as it is committed, as when the script has been deleted.  *)
CommitRun(r) ==
  /\ task[r] = "processed"
  /\ task' = [task EXCEPT ![r] = "over"]
  /\ Commit(r) \/ RollBack(r)
  /\ future' = SetDone(r)
  /\ UNCHANGED <<listVars, outcome, late, bag, checkVars>>

PoolStep(r) ==
  StartTask(r) \/ SaveResult(r) \/ ProcessScriptOutput(r) \/ CommitRun(r)

(* The timeout counts from initialize.                                     *)
TimeoutPasses(r) ==
  /\ r \in Timed \ late /\ call[r] # "none"
  /\ late' = late \cup {r}
  /\ UNCHANGED <<listVars, runVars, future, dbVars, checkVars>>
-----------------------------------------------------------------------------
(* checkRunningScripts.                                                    *)

CheckBegins ==
  /\ check = "idle" /\ list # <<>>
  /\ check' = "loop"
  /\ UNCHANGED <<listVars, runVars, future, late, dbVars, pos, finished, oldSize, disturbed,
                 announced>>

CheckReturns ==
  check' = "idle" /\ pos' = 0 /\ finished' = {} /\ oldSize' = 0 /\ disturbed' = FALSE

(* The iterator finds the list changed, or there is no run to ask.  The    *)
(* exception ends this check; the next one is made as scheduled.           *)
CheckThrows ==
  /\ check = "loop" /\ pos # Len(list)
  /\ ~disturbed /\ pos < Len(list) => list[pos + 1] = Null
  /\ CheckReturns
  /\ UNCHANGED <<listVars, runVars, future, late, dbVars, announced>>

(* Mutant: a run with an end status is announced.                          *)
CheckEndStatus ==
  /\ check = "loop" /\ ~disturbed /\ pos < Len(list)
  /\ pos' = pos + 1
  /\ \E r \in Runs :
       /\ list[pos + 1] = r
       /\ IF future[r] # "pending" \/ task[r] \in {"saved", "processed"}
            THEN /\ finished' = finished \cup {r} /\ announced' = announced \cup {r}
                 /\ UNCHANGED future
            ELSE /\ future' = IF r \in late THEN [future EXCEPT ![r] = "cancelled"] ELSE future
                 /\ UNCHANGED <<finished, announced>>
  /\ UNCHANGED <<listVars, runVars, late, dbVars, check, oldSize, disturbed>>

(* Mutant: only runs at work are cancelled.                                *)
CancelAtWork ==
  /\ check = "loop" /\ ~disturbed /\ pos < Len(list)
  /\ pos' = pos + 1
  /\ \E r \in Runs :
       /\ list[pos + 1] = r
       /\ IF future[r] # "pending"
            THEN /\ finished' = finished \cup {r} /\ announced' = announced \cup {r}
                 /\ UNCHANGED future
            ELSE /\ future' = IF r \in late \cap AtWork THEN [future EXCEPT ![r] = "cancelled"] ELSE future
                 /\ UNCHANGED <<finished, announced>>
  /\ UNCHANGED <<listVars, runVars, late, dbVars, check, oldSize, disturbed>>

CheckRun ==
  /\ check = "loop" /\ ~disturbed /\ pos < Len(list)
  /\ pos' = pos + 1
  /\ \E r \in Runs :
       /\ list[pos + 1] = r
       /\ IF future[r] # "pending"
            THEN /\ finished' = finished \cup {r} /\ announced' = announced \cup {r}
                 /\ UNCHANGED future
            ELSE /\ future' = IF r \in late THEN [future EXCEPT ![r] = "cancelled"] ELSE future
                 /\ UNCHANGED <<finished, announced>>
  /\ UNCHANGED <<listVars, runVars, late, dbVars, check, oldSize, disturbed>>

RemoveBegins ==
  /\ check = "loop" /\ pos = Len(list)
  /\ check' = "removing" /\ oldSize' = Len(list)
  /\ torn' = (torn \/ (Adding # {} /\ finished # {}))
  /\ UNCHANGED <<call, slot, list, runVars, future, late, dbVars, pos, finished, disturbed,
                 announced>>

Kept(s) == {i \in DOMAIN s : s[i] \notin finished}

(* Each element that is kept is moved to the next free place.              *)
Place(s, i) == Cardinality(Kept(s) \cap 1..i)
Unfinished(s) ==
  [n \in 1..Cardinality(Kept(s)) |-> s[CHOOSE i \in Kept(s) : Place(s, i) = n]]

(* Mutant: every run that is over by now is removed.                       *)
RemoveOver ==
  /\ check = "removing" /\ CheckReturns
  /\ list' = SelectSeq(list, LAMBDA e : e # Null => future[e] = "pending")
  /\ UNCHANGED <<call, slot, torn, runVars, future, late, dbVars, announced>>

(* Elements added since removeAll began are moved along, or are lost if    *)
(* the new size is computed from the old one.                              *)
RemoveEnds ==
  /\ check = "removing" /\ CheckReturns
  /\ \/ finished = {} /\ list' = list
     \/ finished # {} /\ list' = Unfinished(list)
     \/ finished # {} /\ Len(list) > oldSize /\ list' = Unfinished(SubSeq(list, 1, oldSize))
  /\ UNCHANGED <<call, slot, torn, runVars, future, late, dbVars, announced>>

CheckStep == CheckBegins \/ CheckThrows \/ CheckRun \/ RemoveBegins \/ RemoveEnds
-----------------------------------------------------------------------------
Init ==
  /\ call = [r \in Runs |-> "none"] /\ slot = [r \in Runs |-> 0] /\ list = <<>>
  /\ task = [r \in Runs |-> "none"] /\ outcome = [r \in Runs |-> "none"]
  /\ future = [r \in Runs |-> "pending"] /\ late = {}
  /\ bag = [r \in Runs |-> "there"] /\ updated = {} /\ results = {}
  /\ check = "idle" /\ pos = 0 /\ finished = {} /\ oldSize = 0 /\ disturbed = FALSE
  /\ announced = {} /\ torn = FALSE

CallStep(r) == AddBegins(r) \/ AddEnds(r)

Next ==
  \/ \E r \in Runs : \/ RunScript(r) \/ CallStep(r)
                     \/ ContainerEnds(r) \/ PoolStep(r) \/ TimeoutPasses(r)
  \/ ScanEnds \/ CheckStep

Spec == Init /\ [][Next]_vars

(* Calls return, threads of the pool go on, time passes and the check is   *)
(* scheduled; a container may run for ever.                                *)
FairSpec ==
  /\ Spec /\ WF_vars(CheckStep)
  /\ \A r \in Runs : WF_vars(CallStep(r)) /\ WF_vars(PoolStep(r)) /\ WF_vars(TimeoutPasses(r))
-----------------------------------------------------------------------------
Listed == {list[i] : i \in DOMAIN list}

(* Unless two changes of the list have overlapped, every run that has been *)
(* started and not been announced is in the list, once, where the check    *)
(* finds it: no check that ends early, and no removal, loses a run.        *)
ListSound ==
  ~torn =>
    /\ \A i, j \in DOMAIN list : list[i] = list[j] => i = j
    /\ \A r \in Runs : call[r] = "returned" /\ r \notin announced => r \in Listed
    /\ \A e \in Listed : e \in Runs /\ call[e] = "returned"

(* Whoever is told that a run that has not been cancelled has finished     *)
(* finds what the run leaves committed: what its output says of the bag    *)
(* only with its result, and neither if an exception has escaped it.       *)
AnnouncedIsOver ==
  \A r \in announced :
    \/ future[r] = "cancelled"
    \/ /\ task[r] = "over"
       /\ r \in results => outcome[r] \in {"output", "failed"}
       /\ r \in updated => r \in results

(* Every run of a script with a timeout is announced in the end, though    *)
(* containers may run for ever and keep all threads of the pool busy       *)
(* (scripts.md:58, "The maximum amount of time the script's container may  *)
(* run before it is killed"), unless two changes of the list have          *)
(* overlapped.                                                             *)
TimedRunsAnnounced ==
  \A r \in Timed : call[r] = "returned" ~> r \in announced \/ torn
-----------------------------------------------------------------------------
(* The life of each run as it shows from outside.                          *)
Life == INSTANCE RunLife WITH
  started   <- {r \in Runs : call[r] # "none"},
  cancelled <- {r \in Runs : future[r] = "cancelled"},
  over      <- {r \in Runs : task[r] = "over"},
  stored    <- {r \in results : task[r] = "over"},
  announced <- announced

(* The service implements RunLife: whatever the races on its list and      *)
(* between its threads, nobody outside sees a result before its run has    *)
(* ended, a run announced that goes on without having been cancelled, or   *)
(* anything taken back.                                                    *)
RunsLive == Life!LifeSpec
=============================================================================
