-------------------------- MODULE RecursiveWatcher --------------------------
(***************************************************************************)
(* The watcher of a directory storage: RecursiveWatcher with its           *)
(* subclass DefaultRecursiveWatcher.                                       *)
(*                                                                         *)
(* A thread waits for events of the watched directories.  Every event      *)
(* restarts a timer, and when the timer runs out (the files have settled)  *)
(* its task walks the tree, registers the directories it has no watch key  *)
(* for, cancels the keys of those that are gone, and calls the listener,   *)
(* which has the storage scanned.  Cancelling a timer does not stop a task *)
(* that is already at work, so several may be.                             *)
(*                                                                         *)
(* walkTreeAndSetWatches, unregisterStaleWatches, restartWaitSettlement-   *)
(* Timer, fireListenerEvents and stop are synchronized on the watcher: the *)
(* variable walker says who holds the lock in the one of them, the walk,   *)
(* that is more than one step here, since directories come and go          *)
(* meanwhile.                                                              *)
(***************************************************************************)
EXTENDS Naturals

CONSTANTS
  Dirs,          \* the directories that may be in the tree
  Root,          \* the storage's base directory
  Parent,        \* the directory each other one lies in
  Tasks,         \* the timer tasks that may be at work at one time
  Main,          \* the watch thread, as a holder of the lock
  Nobody,        \* the lock is free
  RegisterFails, \* whether registering a directory may fail
  DirsVanish,    \* whether directories are ever deleted
  ChangeLimit    \* bound on the changes of the tree

ASSUME TreeAssumption ==
  /\ Root \in Dirs
  /\ Parent \in [Dirs \ {Root} -> Dirs]
  /\ \A S \in SUBSET (Dirs \ {Root}) : S # {} => \E d \in S : Parent[d] \notin S
ASSUME HolderAssumption == Main \notin Tasks /\ Nobody \notin Tasks /\ Main # Nobody
ASSUME LimitAssumption ==
  RegisterFails \in BOOLEAN /\ DirsVanish \in BOOLEAN /\ ChangeLimit \in Nat

VARIABLES
  exists,     \* the directories that are there
  mapped,     \* the keys of watchPathKeyMap
  live,       \* those whose watch key is of the directory that is there now
  signalled,  \* the directories whose watch key is queued in the service
  thread,     \* where the watch thread is
  running,    \* the flag of the thread's loop
  closed,     \* the watch service has been closed by stop
  timer,      \* "armed" if a timer is waiting for the files to settle
  tasks,      \* where each timer task is
  walker,     \* who walks the tree
  visit,      \* the directories the walk has found and not visited
  opened,     \* the directories it has visited and not listed
  unseen,     \* history: the directories changed since the listener was last
              \* called (see Noted)
  deaf,       \* history: a directory has been left without a working key
  changes     \* how often the tree has been changed

keyVars  == <<mapped, live, signalled>>
walkVars == <<walker, visit, opened>>
history  == <<unseen, deaf, changes>>
vars == <<exists, keyVars, thread, running, closed, timer, tasks, walkVars, history>>

ThreadStates == {"start", "walk", "poll", "restart", "dead"}
TaskStates   == {"idle", "walk", "stale", "fire"}

TypeOK ==
  /\ exists \subseteq Dirs /\ mapped \subseteq Dirs /\ live \subseteq Dirs
  /\ signalled \subseteq Dirs
  /\ thread \in ThreadStates
  /\ running \in BOOLEAN /\ closed \in BOOLEAN
  /\ timer \in {"none", "armed"}
  /\ tasks \in [Tasks -> TaskStates]
  /\ walker \in Tasks \cup {Main, Nobody}
  /\ visit \subseteq Dirs /\ opened \subseteq Dirs
  /\ unseen \subseteq Dirs
  /\ deaf \in BOOLEAN
  /\ changes \in 0..ChangeLimit
-----------------------------------------------------------------------------
(* The walk: walkTreeAndSetWatches.                                        *)

Children(d) == {c \in Dirs \ {Root} : Parent[c] = d}

BeginWalk(w) ==
  /\ walker = Nobody
  /\ walker' = w /\ visit' = {Root} /\ opened' = {}

(* registerWatch: a directory with a key in the map is left alone; a       *)
(* register call that fails, as when the user's inotify watches are used   *)
(* up, is logged and not repeated.                                         *)
RegisterWatch(d) ==
  \/ d \in mapped /\ UNCHANGED <<mapped, live, deaf>>
  \/ /\ d \notin mapped
     /\ mapped' = mapped \cup {d} /\ live' = live \cup {d}
     /\ UNCHANGED deaf
  \/ /\ d \notin mapped /\ RegisterFails
     /\ deaf' = TRUE
     /\ UNCHANGED <<mapped, live>>

(* Mutant: the walk does not descend into what it has watched before.      *)
VisitNewOnly(d) ==
  /\ d \in visit /\ d \in exists /\ ~closed
  /\ visit' = visit \ {d}
  /\ opened' = IF d \in mapped THEN opened ELSE opened \cup {d}
  /\ RegisterWatch(d)
  /\ UNCHANGED <<exists, signalled, thread, running, closed, timer, tasks, walker,
                 unseen, changes>>

(* preVisitDirectory.  The ignored directories are not in Dirs.            *)
VisitDirectory(d) ==
  /\ d \in visit /\ d \in exists
  /\ closed => d \in mapped
  /\ visit' = visit \ {d} /\ opened' = opened \cup {d}
  /\ RegisterWatch(d)
  /\ UNCHANGED <<exists, signalled, thread, running, closed, timer, tasks, walker,
                 unseen, changes>>

(* visitFileFailed: the directory is gone by now.                          *)
VisitFails(d) ==
  /\ d \in visit /\ d \notin exists
  /\ visit' = visit \ {d}
  /\ UNCHANGED <<exists, keyVars, thread, running, closed, timer, tasks, walker,
                 opened, history>>

ListDirectory(d) ==
  /\ d \in opened
  /\ opened' = opened \ {d}
  /\ visit' = visit \cup (Children(d) \cap exists)
  /\ UNCHANGED <<exists, keyVars, thread, running, closed, timer, tasks, walker, history>>

Unlock == walker' = Nobody /\ visit' = {} /\ opened' = {}

(* Mutant: a timer that failed is kept as dead.                            *)
LeaveDead(d) ==
  /\ d \in visit /\ d \in exists \ mapped /\ closed
  /\ Unlock
  /\ IF walker = Main
       THEN thread' = "dead" /\ UNCHANGED tasks
       ELSE tasks' = [tasks EXCEPT ![walker] = "dead"] /\ UNCHANGED thread
  /\ UNCHANGED <<exists, keyVars, running, closed, timer, history>>

(* Mutant: a walk that failed is tried again after another delay.          *)
RetryWalk(d) ==
  /\ d \in visit /\ d \in exists \ mapped /\ closed
  /\ Unlock
  /\ timer' = "armed"
  /\ IF walker = Main
       THEN thread' = "dead" /\ UNCHANGED tasks
       ELSE tasks' = [tasks EXCEPT ![walker] = "idle"] /\ UNCHANGED thread
  /\ UNCHANGED <<exists, keyVars, running, closed, history>>

(* register throws ClosedWatchServiceException, which nothing on the way   *)
(* out of the walk catches: the thread or the timer task ends.             *)
WalkBreaks(d) ==
  /\ d \in visit /\ d \in exists \ mapped /\ closed
  /\ Unlock
  /\ IF walker = Main
       THEN thread' = "dead" /\ UNCHANGED tasks
       ELSE tasks' = [tasks EXCEPT ![walker] = "idle"] /\ UNCHANGED thread
  /\ UNCHANGED <<exists, keyVars, running, closed, timer, history>>

EndWalk ==
  /\ walker # Nobody /\ visit = {} /\ opened = {}
  /\ Unlock
  /\ IF walker = Main
       THEN thread' = "poll" /\ UNCHANGED tasks
       ELSE tasks' = [tasks EXCEPT ![walker] = "stale"] /\ UNCHANGED thread
  /\ UNCHANGED <<exists, keyVars, running, closed, timer, history>>

WalkStep ==
  \/ \E d \in Dirs : VisitDirectory(d) \/ VisitFails(d) \/ ListDirectory(d) \/ WalkBreaks(d)
  \/ EndWalk
-----------------------------------------------------------------------------
(* The watch thread.                                                       *)

StartThread ==
  /\ thread = "start"
  /\ thread' = "walk" /\ running' = TRUE
  /\ UNCHANGED <<exists, keyVars, closed, timer, tasks, walkVars, history>>

BeforePollEventLoop ==
  /\ thread = "walk" /\ BeginWalk(Main)
  /\ UNCHANGED <<exists, keyVars, thread, running, closed, timer, tasks, history>>

(* pollEvents: what the events are does not matter.                        *)
PollEvents ==
  /\ thread = "poll" /\ running /\ ~closed
  /\ \E d \in signalled : signalled' = signalled \ {d}
  /\ thread' = "restart"
  /\ UNCHANGED <<exists, mapped, live, running, closed, timer, tasks, walkVars, history>>

(* Mutant: events that come while a task is at work are left to it.        *)
RestartUnlessAtWork ==
  /\ thread = "restart" /\ walker = Nobody
  /\ timer' = IF \E t \in Tasks : tasks[t] # "idle" THEN timer ELSE "armed"
  /\ thread' = "poll"
  /\ UNCHANGED <<exists, keyVars, running, closed, tasks, walkVars, history>>

RestartWaitSettlementTimer ==
  /\ thread = "restart" /\ walker = Nobody
  /\ timer' = "armed"
  /\ thread' = "poll"
  /\ UNCHANGED <<exists, keyVars, running, closed, tasks, walkVars, history>>

(* The loop ends: stop has cleared the flag, or take throws.               *)
ExitLoop ==
  /\ thread = "poll" /\ (~running \/ closed)
  /\ thread' = "dead" /\ running' = FALSE
  /\ UNCHANGED <<exists, keyVars, closed, timer, tasks, walkVars, history>>

ThreadStep ==
  StartThread \/ BeforePollEventLoop \/ PollEvents \/ RestartWaitSettlementTimer \/ ExitLoop
-----------------------------------------------------------------------------
(* The timer and its tasks.                                                *)

TimerRunsOut(t) ==
  /\ timer = "armed" /\ tasks[t] = "idle"
  /\ timer' = "none"
  /\ tasks' = [tasks EXCEPT ![t] = "walk"]
  /\ UNCHANGED <<exists, keyVars, thread, running, closed, walkVars, history>>

WatchEventsOccurred(t) ==
  /\ tasks[t] = "walk" /\ BeginWalk(t)
  /\ UNCHANGED <<exists, keyVars, thread, running, closed, timer, tasks, history>>

UnregisterStaleWatches(t) ==
  /\ tasks[t] = "stale" /\ walker = Nobody
  /\ mapped' = mapped \cap exists
  /\ tasks' = [tasks EXCEPT ![t] = "fire"]
  /\ UNCHANGED <<exists, live, signalled, thread, running, closed, timer, walkVars, history>>

(* The listener queues a scan, which looks at all the files.               *)
FireListenerEvents(t) ==
  /\ tasks[t] = "fire" /\ walker = Nobody
  /\ unseen' = {}
  /\ tasks' = [tasks EXCEPT ![t] = "idle"]
  /\ UNCHANGED <<exists, keyVars, thread, running, closed, timer, walkVars, deaf, changes>>

TaskStep(t) ==
  WatchEventsOccurred(t) \/ UnregisterStaleWatches(t) \/ FireListenerEvents(t)

(* stop, by BagScanner.reset: the timer is not cancelled.                  *)
Stop ==
  /\ ~closed /\ walker = Nobody
  /\ running' = FALSE /\ closed' = TRUE
  /\ live' = {} /\ signalled' = {}
  /\ UNCHANGED <<exists, mapped, thread, timer, tasks, walkVars, history>>
-----------------------------------------------------------------------------
(* The tree.                                                               *)

Change == changes < ChangeLimit /\ changes' = changes + 1

(* The changes the watcher has to report: those of a directory it watches, *)
(* and all of them once it has walked the tree for the first time.  What   *)
(* happens before is the business of the scan at the start.                *)
Noted(d) == ~closed /\ (d \in live \/ thread \notin {"start", "walk"})

Report(d) == unseen' = IF Noted(d) THEN unseen \cup {d} ELSE unseen

(* A file of the directory is written, renamed or removed.                 *)
ChangeFile(d) ==
  /\ d \in exists /\ Change
  /\ signalled' = signalled \cup ({d} \cap live)
  /\ Report(d)
  /\ UNCHANGED <<exists, mapped, live, thread, running, closed, timer, tasks, walkVars, deaf>>

(* If the map still has the key of a former directory of that name, the    *)
(* new one will not be registered.                                         *)
CreateDirectory(d) ==
  /\ d \in Dirs \ (exists \cup {Root}) /\ Parent[d] \in exists /\ Change
  /\ exists' = exists \cup {d}
  /\ signalled' = signalled \cup ({Parent[d]} \cap live)
  /\ Report(Parent[d])
  /\ deaf' = (deaf \/ d \in mapped)
  /\ UNCHANGED <<mapped, live, thread, running, closed, timer, tasks, walkVars>>

(* The key of a deleted directory becomes invalid, which is an event too.  *)
DeleteDirectory(d) ==
  /\ DirsVanish
  /\ d \in exists \ {Root} /\ Children(d) \cap exists = {} /\ Change
  /\ exists' = exists \ {d}
  /\ live' = live \ {d}
  /\ signalled' = signalled \cup ({Parent[d], d} \cap live)
  /\ Report(Parent[d])
  /\ UNCHANGED <<mapped, thread, running, closed, timer, tasks, walkVars, deaf>>

TreeStep == \E d \in Dirs : ChangeFile(d) \/ CreateDirectory(d) \/ DeleteDirectory(d)
-----------------------------------------------------------------------------
IsTree(D) == Root \in D /\ \A d \in D \ {Root} : Parent[d] \in D

(* The base directory is there when the storage is started.                *)
Init ==
  /\ exists \in {D \in SUBSET Dirs : IsTree(D)}
  /\ mapped = {} /\ live = {} /\ signalled = {}
  /\ thread = "start" /\ running = FALSE /\ closed = FALSE
  /\ timer = "none" /\ tasks = [t \in Tasks |-> "idle"]
  /\ walker = Nobody /\ visit = {} /\ opened = {}
  /\ unseen = {} /\ deaf = FALSE /\ changes = 0

SomeTaskStep == \E t \in Tasks : TimerRunsOut(t) \/ TaskStep(t)

Next == WalkStep \/ ThreadStep \/ SomeTaskStep \/ Stop \/ TreeStep

Spec == Init /\ [][Next]_vars

(* The watch thread and the timers run.                                    *)
FairSpec ==
  /\ Spec
  /\ WF_vars(WalkStep) /\ WF_vars(ThreadStep)
  /\ WF_vars(\E t \in Tasks : TimerRunsOut(t))
  /\ \A t \in Tasks : WF_vars(TaskStep(t))
-----------------------------------------------------------------------------
(* A walk from the root is still to come.                                  *)
WalkAhead ==
  \/ thread = "walk" /\ walker = Nobody
  \/ signalled # {} \/ thread = "restart" \/ timer = "armed"
  \/ \E t \in Tasks : tasks[t] = "walk" /\ walker # t

(* The listener is still to be called.                                     *)
CallAhead ==
  \/ signalled # {} \/ thread = "restart" \/ timer = "armed"
  \/ \E t \in Tasks : tasks[t] # "idle"

(* The directories from the root to d: what every set that holds d and,    *)
(* with a directory, the one it lies in, has to hold.                      *)
PathTo(d) ==
  {a \in Dirs : \A S \in SUBSET Dirs :
     d \in S /\ (\A e \in S \ {Root} : Parent[e] \in S) => a \in S}

Alert == ~closed /\ ~deaf /\ thread # "start"

(* A directory of the tree that is not watched is still to be reached, by  *)
(* a walk to come or by the rest of the one under way, so that no          *)
(* directory that appears behind the back of a walk stays unwatched.       *)
TreeCovered ==
  Alert => \A d \in exists \ live : WalkAhead \/ PathTo(d) \cap (visit \cup opened) # {}

(* No change is forgotten: as long as the listener has not been called     *)
(* since, an event, the timer or a task is there to have it called,        *)
(* whatever events come while the timer runs out or a task is at work, and *)
(* even for a change in a directory that is not registered yet.            *)
NothingForgotten == Alert /\ unseen # {} => CallAhead

(* Every change is reported in the end (upload.md:23, "it will             *)
(* automatically detect and parse new files"), as long as the watcher has  *)
(* not been stopped and no directory has been left without a working key.  *)
ChangesReported ==
  \A d \in Dirs : d \in unseen ~> d \notin unseen \/ closed \/ deaf

(* After stop the thread and the timer's tasks come to an end for good,    *)
(* also if stop comes before the thread has begun or while a task is at    *)
(* work.                                                                   *)
StopsForGood ==
  closed ~> [](thread = "dead" /\ timer = "none" /\ \A t \in Tasks : tasks[t] = "idle")
=============================================================================
