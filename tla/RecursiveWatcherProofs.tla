----------------------- MODULE RecursiveWatcherProofs -----------------------
(***************************************************************************)
(* Proofs about RecursiveWatcher: whatever the tree, however many timer    *)
(* tasks are at work and however often the tree changes, the watcher is    *)
(* well-typed, has every directory covered by a watch or by a walk, and    *)
(* forgets no change.                                                      *)
(***************************************************************************)
EXTENDS RecursiveWatcher, TLAPS

(* A key is of a directory that is there; and, as long as the watcher is   *)
(* at work, every directory with an entry in the map has its key, and a    *)
(* directory is listed only after it has been registered.                  *)
KeysSound ==
  /\ live \subseteq mapped \cap exists
  /\ Alert => mapped \cap exists \subseteq live /\ opened \subseteq mapped

(* Who holds the lock is at the walk, and a walk leaves nothing behind.    *)
LockSound ==
  /\ walker = Main => thread = "walk"
  /\ \A t \in Tasks : walker = t => tasks[t] = "walk"
  /\ walker = Nobody => visit = {} /\ opened = {}

(* Before the thread begins nothing is registered and nothing happens.     *)
StartSound ==
  thread = "start" =>
    /\ mapped = {} /\ signalled = {} /\ unseen = {}
    /\ timer = "none" /\ walker = Nobody
    /\ \A t \in Tasks : tasks[t] = "idle"

Inv ==
  /\ TypeOK /\ IsTree(exists)
  /\ KeysSound /\ LockSound /\ StartSound
  /\ TreeCovered /\ NothingForgotten
-----------------------------------------------------------------------------
(* Paths to the root.                                                      *)

(* A path leads up: it has the directory itself, and with a directory the  *)
(* one that one lies in.                                                   *)
LEMMA PathClosed ==
  ASSUME NEW d \in Dirs
  PROVE  /\ PathTo(d) \subseteq Dirs /\ d \in PathTo(d)
         /\ \A e \in PathTo(d) \ {Root} : Parent[e] \in PathTo(d)
<1>1. PathTo(d) \subseteq Dirs /\ d \in PathTo(d)
  BY DEF PathTo
<1>2. ASSUME NEW e \in PathTo(d), e # Root  PROVE Parent[e] \in PathTo(d)
  <2>1. e \in Dirs /\ Parent[e] \in Dirs
    BY <1>1, <1>2, TreeAssumption
  <2>2. ASSUME NEW S \in SUBSET Dirs, d \in S, \A f \in S \ {Root} : Parent[f] \in S
        PROVE  Parent[e] \in S
    <3>1. e \in S
      BY <1>2, <2>2 DEF PathTo
    <3>2. QED
      BY <3>1, <2>2, <1>2
  <2>3. QED
    BY <2>1, <2>2 DEF PathTo
<1>3. QED
  BY <1>1, <1>2

(* Every path comes from the root.                                         *)
LEMMA RootOnPath ==
  ASSUME NEW d \in Dirs
  PROVE  Root \in PathTo(d)
<1>1. ASSUME NEW S \in SUBSET Dirs, d \in S, \A e \in S \ {Root} : Parent[e] \in S
      PROVE  Root \in S
  <2>1. SUFFICES ASSUME Root \notin S  PROVE FALSE
    OBVIOUS
  <2>2. S \in SUBSET (Dirs \ {Root}) /\ S # {}
    BY <1>1, <2>1
  <2>3. PICK e \in S : Parent[e] \notin S
    BY <2>2, TreeAssumption
  <2>4. QED
    BY <2>3, <2>1, <1>1
<1>2. Root \in Dirs
  BY TreeAssumption
<1>3. QED
  BY <1>1, <1>2 DEF PathTo

(* A path stays in the tree.                                               *)
LEMMA PathInTree ==
  ASSUME NEW D \in SUBSET Dirs, IsTree(D), NEW d \in D
  PROVE  PathTo(d) \subseteq D
BY DEF PathTo, IsTree

(* The path to a directory goes on from the path to the one it lies in.    *)
LEMMA PathOfParent ==
  ASSUME NEW d \in Dirs \ {Root}
  PROVE  PathTo(Parent[d]) \subseteq PathTo(d)
BY DEF PathTo

(* A path goes on from each directory before the last to one in it.        *)
LEMMA PathGoesOn ==
  ASSUME NEW d \in Dirs, NEW a \in PathTo(d), a # d
  PROVE  \E c \in PathTo(d) \ {Root} : Parent[c] = a
<1> DEFINE S == PathTo(d) \ {a}
<1>1. SUFFICES ASSUME \A c \in PathTo(d) \ {Root} : Parent[c] # a  PROVE FALSE
  OBVIOUS
<1>2. S \in SUBSET Dirs /\ d \in S
  BY PathClosed
<1>3. \A e \in S \ {Root} : Parent[e] \in S
  BY <1>1, PathClosed
<1>4. a \in S
  <2> HIDE DEF S
  <2> QED  BY <1>2, <1>3 DEF PathTo
<1>5. QED
  BY <1>4
-----------------------------------------------------------------------------
LEMMA InitInv == Init => Inv
<1> SUFFICES ASSUME Init PROVE Inv
  OBVIOUS
<1>1. TypeOK
  <2>1. exists \subseteq Dirs
    BY DEF Init
  <2>2. tasks \in [Tasks -> TaskStates] /\ thread \in ThreadStates
    BY DEF Init, TaskStates, ThreadStates
  <2>3. changes \in 0..ChangeLimit
    BY LimitAssumption DEF Init
  <2>4. QED
    BY <2>1, <2>2, <2>3 DEF Init, TypeOK
<1>2. IsTree(exists)
  BY DEF Init
<1>3. KeysSound /\ StartSound /\ TreeCovered /\ NothingForgotten
  BY DEF Init, KeysSound, StartSound, TreeCovered, NothingForgotten, Alert
<1>4. LockSound
  BY HolderAssumption DEF Init, LockSound
<1>5. QED
  BY <1>1, <1>2, <1>3, <1>4 DEF Inv

(* Every step keeps the types.                                             *)
LEMMA TypeStep ==
  ASSUME TypeOK, [Next]_vars
  PROVE  TypeOK'
<1> USE TreeAssumption, LimitAssumption DEF TypeOK, ThreadStates, TaskStates, keyVars, walkVars, history, Change
<1>1. ASSUME NEW d \in Dirs, VisitDirectory(d)  PROVE TypeOK'
  BY <1>1 DEF VisitDirectory, RegisterWatch
<1>2. ASSUME NEW d \in Dirs, VisitFails(d) \/ ListDirectory(d)  PROVE TypeOK'
  BY <1>2 DEF VisitFails, ListDirectory
<1>3. ASSUME NEW d \in Dirs, WalkBreaks(d)  PROVE TypeOK'
  BY <1>3 DEF WalkBreaks, Unlock
<1>4. CASE EndWalk
  BY <1>4 DEF EndWalk, Unlock
<1>5. CASE StartThread \/ BeforePollEventLoop
  BY <1>5 DEF StartThread, BeforePollEventLoop, BeginWalk
<1>6. CASE PollEvents \/ RestartWaitSettlementTimer \/ ExitLoop
  BY <1>6 DEF PollEvents, RestartWaitSettlementTimer, ExitLoop
<1>7. ASSUME NEW t \in Tasks, TimerRunsOut(t) \/ WatchEventsOccurred(t)
      PROVE  TypeOK'
  BY <1>7 DEF TimerRunsOut, WatchEventsOccurred, BeginWalk
<1>8. ASSUME NEW t \in Tasks, UnregisterStaleWatches(t) \/ FireListenerEvents(t)
      PROVE  TypeOK'
  BY <1>8 DEF UnregisterStaleWatches, FireListenerEvents
<1>9. CASE Stop
  BY <1>9 DEF Stop
<1>10. ASSUME NEW d \in Dirs, ChangeFile(d)  PROVE TypeOK'
  BY <1>10 DEF ChangeFile, Report
<1>11. ASSUME NEW d \in Dirs, CreateDirectory(d)  PROVE TypeOK'
  BY <1>11 DEF CreateDirectory, Report
<1>12. ASSUME NEW d \in Dirs, DeleteDirectory(d)  PROVE TypeOK'
  BY <1>12 DEF DeleteDirectory, Report
<1>13. CASE UNCHANGED vars
  BY <1>13 DEF vars
<1>14. QED
  BY <1>1, <1>2, <1>3, <1>4, <1>5, <1>6, <1>7, <1>8, <1>9, <1>10, <1>11, <1>12, <1>13
     DEF Next, WalkStep, ThreadStep, SomeTaskStep, TaskStep, TreeStep

(* The directories always form a tree.                                     *)
LEMMA TreeKept ==
  ASSUME TypeOK, IsTree(exists), [Next]_vars
  PROVE  IsTree(exists')
<1> USE TreeAssumption DEF TypeOK, IsTree, Children, keyVars, walkVars, history
<1>1. ASSUME NEW d \in Dirs, VisitDirectory(d)  PROVE IsTree(exists')
  BY <1>1 DEF VisitDirectory, RegisterWatch
<1>2. ASSUME NEW d \in Dirs, VisitFails(d) \/ ListDirectory(d)  PROVE IsTree(exists')
  BY <1>2 DEF VisitFails, ListDirectory
<1>3. ASSUME NEW d \in Dirs, WalkBreaks(d)  PROVE IsTree(exists')
  BY <1>3 DEF WalkBreaks, Unlock
<1>4. CASE EndWalk
  BY <1>4 DEF EndWalk, Unlock
<1>5. CASE StartThread \/ BeforePollEventLoop
  BY <1>5 DEF StartThread, BeforePollEventLoop, BeginWalk
<1>6. CASE PollEvents \/ RestartWaitSettlementTimer \/ ExitLoop
  BY <1>6 DEF PollEvents, RestartWaitSettlementTimer, ExitLoop
<1>7. ASSUME NEW t \in Tasks, TimerRunsOut(t) \/ WatchEventsOccurred(t)
      PROVE  IsTree(exists')
  BY <1>7 DEF TimerRunsOut, WatchEventsOccurred, BeginWalk
<1>8. ASSUME NEW t \in Tasks, UnregisterStaleWatches(t) \/ FireListenerEvents(t)
      PROVE  IsTree(exists')
  BY <1>8 DEF UnregisterStaleWatches, FireListenerEvents
<1>9. CASE Stop
  BY <1>9 DEF Stop
<1>10. ASSUME NEW d \in Dirs, ChangeFile(d)  PROVE IsTree(exists')
  BY <1>10 DEF ChangeFile, Report
<1>11. ASSUME NEW d \in Dirs, CreateDirectory(d)  PROVE IsTree(exists')
  BY <1>11 DEF CreateDirectory, Report
<1>12. ASSUME NEW d \in Dirs, DeleteDirectory(d)  PROVE IsTree(exists')
  BY <1>12 DEF DeleteDirectory, Report
<1>13. CASE UNCHANGED vars
  BY <1>13 DEF vars
<1>14. QED
  BY <1>1, <1>2, <1>3, <1>4, <1>5, <1>6, <1>7, <1>8, <1>9, <1>10, <1>11, <1>12, <1>13
     DEF Next, WalkStep, ThreadStep, SomeTaskStep, TaskStep, TreeStep

(* Keys stay sound.                                                        *)
LEMMA KeysStep ==
  ASSUME TypeOK, KeysSound, LockSound, StartSound, [Next]_vars
  PROVE  KeysSound'
<1> USE HolderAssumption DEF TypeOK, KeysSound, LockSound, StartSound, Alert, keyVars, walkVars, history
<1>1. ASSUME NEW d \in Dirs, VisitDirectory(d)  PROVE KeysSound'
  BY <1>1 DEF VisitDirectory, RegisterWatch
<1>2. ASSUME NEW d \in Dirs, VisitFails(d) \/ ListDirectory(d)  PROVE KeysSound'
  BY <1>2 DEF VisitFails, ListDirectory
<1>3. ASSUME NEW d \in Dirs, WalkBreaks(d)  PROVE KeysSound'
  BY <1>3 DEF WalkBreaks, Unlock
<1>4. CASE EndWalk
  BY <1>4 DEF EndWalk, Unlock
<1>5. CASE StartThread \/ BeforePollEventLoop
  BY <1>5 DEF StartThread, BeforePollEventLoop, BeginWalk
<1>6. CASE PollEvents \/ RestartWaitSettlementTimer \/ ExitLoop
  BY <1>6 DEF PollEvents, RestartWaitSettlementTimer, ExitLoop
<1>7. ASSUME NEW t \in Tasks, TimerRunsOut(t) \/ WatchEventsOccurred(t)
      PROVE  KeysSound'
  BY <1>7 DEF TimerRunsOut, WatchEventsOccurred, BeginWalk
<1>8. ASSUME NEW t \in Tasks, UnregisterStaleWatches(t) \/ FireListenerEvents(t)
      PROVE  KeysSound'
  BY <1>8 DEF UnregisterStaleWatches, FireListenerEvents
<1>9. CASE Stop
  BY <1>9 DEF Stop
<1>10. ASSUME NEW d \in Dirs, ChangeFile(d)  PROVE KeysSound'
  BY <1>10 DEF ChangeFile, Report
<1>11. ASSUME NEW d \in Dirs, CreateDirectory(d)  PROVE KeysSound'
  BY <1>11 DEF CreateDirectory, Report
<1>12. ASSUME NEW d \in Dirs, DeleteDirectory(d)  PROVE KeysSound'
  BY <1>12 DEF DeleteDirectory, Report
<1>13. CASE UNCHANGED vars
  BY <1>13 DEF vars
<1>14. QED
  BY <1>1, <1>2, <1>3, <1>4, <1>5, <1>6, <1>7, <1>8, <1>9, <1>10, <1>11, <1>12, <1>13
     DEF Next, WalkStep, ThreadStep, SomeTaskStep, TaskStep, TreeStep

(* The lock stays with the walk.                                           *)
LEMMA LockStep ==
  ASSUME TypeOK, LockSound, StartSound, [Next]_vars
  PROVE  LockSound'
<1> USE HolderAssumption DEF TypeOK, LockSound, StartSound, keyVars, walkVars, history
<1>1. ASSUME NEW d \in Dirs, VisitDirectory(d)  PROVE LockSound'
  BY <1>1 DEF VisitDirectory, RegisterWatch
<1>2. ASSUME NEW d \in Dirs, VisitFails(d) \/ ListDirectory(d)  PROVE LockSound'
  BY <1>2 DEF VisitFails, ListDirectory
<1>3. ASSUME NEW d \in Dirs, WalkBreaks(d)  PROVE LockSound'
  BY <1>3 DEF WalkBreaks, Unlock
<1>4. CASE EndWalk
  BY <1>4 DEF EndWalk, Unlock
<1>5. CASE StartThread \/ BeforePollEventLoop
  BY <1>5 DEF StartThread, BeforePollEventLoop, BeginWalk
<1>6. CASE PollEvents \/ RestartWaitSettlementTimer \/ ExitLoop
  BY <1>6 DEF PollEvents, RestartWaitSettlementTimer, ExitLoop
<1>7. ASSUME NEW t \in Tasks, TimerRunsOut(t) \/ WatchEventsOccurred(t)
      PROVE  LockSound'
  BY <1>7 DEF TimerRunsOut, WatchEventsOccurred, BeginWalk
<1>8. ASSUME NEW t \in Tasks, UnregisterStaleWatches(t) \/ FireListenerEvents(t)
      PROVE  LockSound'
  BY <1>8 DEF UnregisterStaleWatches, FireListenerEvents
<1>9. CASE Stop
  BY <1>9 DEF Stop
<1>10. ASSUME NEW d \in Dirs, ChangeFile(d)  PROVE LockSound'
  BY <1>10 DEF ChangeFile, Report
<1>11. ASSUME NEW d \in Dirs, CreateDirectory(d)  PROVE LockSound'
  BY <1>11 DEF CreateDirectory, Report
<1>12. ASSUME NEW d \in Dirs, DeleteDirectory(d)  PROVE LockSound'
  BY <1>12 DEF DeleteDirectory, Report
<1>13. CASE UNCHANGED vars
  BY <1>13 DEF vars
<1>14. QED
  BY <1>1, <1>2, <1>3, <1>4, <1>5, <1>6, <1>7, <1>8, <1>9, <1>10, <1>11, <1>12, <1>13
     DEF Next, WalkStep, ThreadStep, SomeTaskStep, TaskStep, TreeStep

(* Nothing happens before the thread begins.                               *)
LEMMA StartStep ==
  ASSUME TypeOK, KeysSound, LockSound, StartSound, [Next]_vars
  PROVE  StartSound'
<1> USE HolderAssumption DEF TypeOK, KeysSound, LockSound, StartSound, Noted, keyVars, walkVars, history
<1>1. ASSUME NEW d \in Dirs, VisitDirectory(d)  PROVE StartSound'
  BY <1>1 DEF VisitDirectory, RegisterWatch
<1>2. ASSUME NEW d \in Dirs, VisitFails(d) \/ ListDirectory(d)  PROVE StartSound'
  BY <1>2 DEF VisitFails, ListDirectory
<1>3. ASSUME NEW d \in Dirs, WalkBreaks(d)  PROVE StartSound'
  BY <1>3 DEF WalkBreaks, Unlock
<1>4. CASE EndWalk
  BY <1>4 DEF EndWalk, Unlock
<1>5. CASE StartThread \/ BeforePollEventLoop
  BY <1>5 DEF StartThread, BeforePollEventLoop, BeginWalk
<1>6. CASE PollEvents \/ RestartWaitSettlementTimer \/ ExitLoop
  BY <1>6 DEF PollEvents, RestartWaitSettlementTimer, ExitLoop
<1>7. ASSUME NEW t \in Tasks, TimerRunsOut(t) \/ WatchEventsOccurred(t)
      PROVE  StartSound'
  BY <1>7 DEF TimerRunsOut, WatchEventsOccurred, BeginWalk
<1>8. ASSUME NEW t \in Tasks, UnregisterStaleWatches(t) \/ FireListenerEvents(t)
      PROVE  StartSound'
  BY <1>8 DEF UnregisterStaleWatches, FireListenerEvents
<1>9. CASE Stop
  BY <1>9 DEF Stop
<1>10. ASSUME NEW d \in Dirs, ChangeFile(d)  PROVE StartSound'
  BY <1>10 DEF ChangeFile, Report
<1>11. ASSUME NEW d \in Dirs, CreateDirectory(d)  PROVE StartSound'
  BY <1>11 DEF CreateDirectory, Report
<1>12. ASSUME NEW d \in Dirs, DeleteDirectory(d)  PROVE StartSound'
  BY <1>12 DEF DeleteDirectory, Report
<1>13. CASE UNCHANGED vars
  BY <1>13 DEF vars
<1>14. QED
  BY <1>1, <1>2, <1>3, <1>4, <1>5, <1>6, <1>7, <1>8, <1>9, <1>10, <1>11, <1>12, <1>13
     DEF Next, WalkStep, ThreadStep, SomeTaskStep, TaskStep, TreeStep
-----------------------------------------------------------------------------
(* Every directory stays covered.  What has to be shown of a step is that  *)
(* a directory left without a watch, and with no walk to come, is below    *)
(* one that the walk under way still has before it.                        *)
LEMMA CoverStep ==
  ASSUME Inv, IsTree(exists'), [Next]_vars
  PROVE  TreeCovered'
<1> USE DEF keyVars, walkVars, history
<1>1. SUFFICES ASSUME Alert', NEW x \in (exists \ live)', ~WalkAhead'
               PROVE  PathTo(x) \cap (visit' \cup opened') # {}
  BY DEF TreeCovered
<1>2. TypeOK /\ x \in Dirs
  BY <1>1, TypeStep DEF Inv, TypeOK
<1>3. ASSUME Alert, x \in exists \ live, ~WalkAhead
      PROVE  PathTo(x) \cap (visit \cup opened) # {}
  BY <1>3 DEF Inv, TreeCovered
<1>4. Root \in PathTo(x)
  BY <1>2, RootOnPath
<1>5. ASSUME NEW d \in Dirs, VisitDirectory(d)  PROVE PathTo(x) \cap (visit' \cup opened') # {}
  <2>1. visit \cup opened = visit' \cup opened'
    BY <1>5 DEF VisitDirectory
  <2>2. Alert /\ x \in exists \ live /\ ~WalkAhead
    BY <1>1, <1>2, <1>5 DEF VisitDirectory, RegisterWatch, Alert, WalkAhead, TypeOK
  <2>3. QED
    BY <2>1, <2>2, <1>3
<1>6. ASSUME NEW d \in Dirs, VisitFails(d)  PROVE PathTo(x) \cap (visit' \cup opened') # {}
  <2>1. Alert /\ x \in exists \ live /\ ~WalkAhead
    BY <1>1, <1>6 DEF VisitFails, Alert, WalkAhead
  <2>2. d \notin PathTo(x)
    BY <2>1, <1>6, <1>2, PathInTree DEF VisitFails, Inv, TypeOK
  <2>3. QED
    BY <2>1, <2>2, <1>3, <1>6 DEF VisitFails
<1>7. ASSUME NEW d \in Dirs, ListDirectory(d)  PROVE PathTo(x) \cap (visit' \cup opened') # {}
  <2>1. Alert /\ x \in exists \ live /\ ~WalkAhead
    BY <1>1, <1>7 DEF ListDirectory, Alert, WalkAhead
  <2>2. PICK a \in PathTo(x) : a \in visit \cup opened
    BY <2>1, <1>3
  <2>3. CASE a \in visit \cup (opened \ {d})
    BY <2>2, <2>3, <1>7 DEF ListDirectory
  <2>4. CASE a = d
    <3>1. d # x
      BY <2>1, <1>7 DEF ListDirectory, Inv, KeysSound
    <3>2. PICK c \in PathTo(x) \ {Root} : Parent[c] = d
      BY <2>2, <2>4, <3>1, <1>2, PathGoesOn
    <3>3. c \in exists /\ c \in Dirs
      BY <2>1, <1>2, PathInTree DEF Inv, TypeOK
    <3>4. QED
      BY <3>2, <3>3, <1>7 DEF ListDirectory, Children
  <2>5. QED
    BY <2>2, <2>3, <2>4
<1>8. ASSUME NEW d \in Dirs, WalkBreaks(d)  PROVE FALSE
  BY <1>8, <1>1 DEF WalkBreaks, Alert
<1>9. CASE EndWalk
  <2>1. Alert /\ x \in exists \ live
    BY <1>1, <1>9 DEF EndWalk, Alert, Inv, LockSound
  <2>2. ~WalkAhead
    BY <1>1, <1>2, <1>9, HolderAssumption
       DEF EndWalk, Unlock, WalkAhead, TypeOK, Inv, LockSound
  <2>3. QED
    BY <2>1, <2>2, <1>3, <1>9 DEF EndWalk
<1>10. CASE ThreadStep
  <2>1. CASE StartThread
    BY <2>1, <1>1 DEF StartThread, WalkAhead, Inv, StartSound
  <2>2. CASE BeforePollEventLoop
    BY <2>2, <1>4 DEF BeforePollEventLoop, BeginWalk
  <2>3. CASE PollEvents \/ RestartWaitSettlementTimer
    BY <2>3, <1>1 DEF PollEvents, RestartWaitSettlementTimer, WalkAhead
  <2>4. CASE ExitLoop
    BY <2>4, <1>1, <1>3 DEF ExitLoop, Alert, WalkAhead
  <2>5. QED
    BY <1>10, <2>1, <2>2, <2>3, <2>4 DEF ThreadStep
<1>11. ASSUME NEW t \in Tasks, TimerRunsOut(t) \/ TaskStep(t)
       PROVE  PathTo(x) \cap (visit' \cup opened') # {}
  <2>1. CASE TimerRunsOut(t)
    <3>1. tasks'[t] = "walk" /\ walker' # t
      BY <2>1, <1>2 DEF TimerRunsOut, TypeOK, Inv, LockSound
    <3>2. QED
      BY <3>1, <1>1 DEF WalkAhead
  <2>2. CASE WatchEventsOccurred(t)
    BY <2>2, <1>4 DEF WatchEventsOccurred, BeginWalk
  <2>3. CASE UnregisterStaleWatches(t) \/ FireListenerEvents(t)
    <3>1. Alert /\ x \in exists \ live
      BY <2>3, <1>1 DEF UnregisterStaleWatches, FireListenerEvents, Alert
    <3>2. ~WalkAhead
      BY <2>3, <1>1, <1>2 DEF UnregisterStaleWatches, FireListenerEvents, WalkAhead, TypeOK
    <3>3. QED
      BY <3>1, <3>2, <1>3, <2>3 DEF UnregisterStaleWatches, FireListenerEvents
  <2>4. QED
    BY <1>11, <2>1, <2>2, <2>3 DEF TaskStep
<1>12. CASE Stop
  BY <1>12, <1>1 DEF Stop, Alert
<1>13. ASSUME NEW d \in Dirs, ChangeFile(d)  PROVE PathTo(x) \cap (visit' \cup opened') # {}
  BY <1>13, <1>1, <1>3 DEF ChangeFile, Alert, WalkAhead
<1>14. ASSUME NEW d \in Dirs, CreateDirectory(d)
       PROVE  PathTo(x) \cap (visit' \cup opened') # {}
  <2>1. Alert /\ ~WalkAhead
    BY <1>14, <1>1, <1>2 DEF CreateDirectory, Alert, WalkAhead, TypeOK
  <2>2. CASE x \in exists
    BY <2>1, <2>2, <1>1, <1>3, <1>14 DEF CreateDirectory
  <2>3. CASE x = d
    <3>1. Parent[d] \in exists \ live
      BY <1>14, <1>1 DEF CreateDirectory, WalkAhead
    <3>2. PathTo(Parent[d]) \cap (visit \cup opened) # {}
      BY <2>1, <3>1 DEF Inv, TreeCovered
    <3>3. d \in Dirs \ {Root}
      BY <1>14 DEF CreateDirectory
    <3>4. PathTo(Parent[d]) \subseteq PathTo(d)
      BY <3>3, PathOfParent
    <3>5. QED
      BY <2>3, <3>2, <3>4, <1>14 DEF CreateDirectory
  <2>4. QED
    BY <2>2, <2>3, <1>1, <1>14 DEF CreateDirectory
<1>15. ASSUME NEW d \in Dirs, DeleteDirectory(d)
       PROVE  PathTo(x) \cap (visit' \cup opened') # {}
  BY <1>15, <1>1, <1>3 DEF DeleteDirectory, Alert, WalkAhead
<1>16. CASE UNCHANGED vars
  BY <1>16, <1>1, <1>3 DEF vars, Alert, WalkAhead
<1>17. QED
  BY <1>5, <1>6, <1>7, <1>8, <1>9, <1>10, <1>11, <1>12, <1>13, <1>14, <1>15, <1>16
     DEF Next, WalkStep, SomeTaskStep, TreeStep

(* A change in a directory that has no watch, noted after the first walk,  *)
(* is made while a walk is to come or under way.                           *)
LEMMA CallForUnwatched ==
  ASSUME Inv, Alert, NEW d \in exists \ live, thread \notin {"start", "walk"}
  PROVE  CallAhead
<1>1. CASE WalkAhead
  BY <1>1 DEF WalkAhead, CallAhead
<1>2. CASE visit \cup opened # {}
  <2>1. walker \in Tasks
    BY <1>2 DEF Inv, TypeOK, LockSound
  <2>2. tasks[walker] = "walk"
    BY <2>1 DEF Inv, LockSound
  <2>3. QED
    BY <2>1, <2>2 DEF CallAhead
<1>3. QED
  BY <1>1, <1>2 DEF Inv, TreeCovered

(* A change that is noted has the listener called.                         *)
LEMMA NotedIsCalled ==
  ASSUME Inv, Alert, NEW d \in exists, Noted(d),
         signalled' = signalled \cup ({d} \cap live) \/ d \notin live,
         signalled \subseteq signalled', UNCHANGED <<thread, timer, tasks>>
  PROVE  CallAhead'
<1>1. CASE d \in live
  BY <1>1 DEF CallAhead
<1>2. CASE d \notin live
  BY <1>2, CallForUnwatched DEF CallAhead, Noted
<1>3. QED
  BY <1>1, <1>2

(* No step forgets a change.                                               *)
LEMMA ForgetStep ==
  ASSUME Inv, [Next]_vars
  PROVE  NothingForgotten'
<1> USE DEF keyVars, walkVars, history
<1>1. SUFFICES ASSUME Alert', unseen' # {}  PROVE CallAhead'
  BY DEF NothingForgotten
<1>2. TypeOK
  BY DEF Inv
<1>3. Alert /\ unseen # {} => CallAhead
  BY DEF Inv, NothingForgotten
<1>4. CASE WalkStep
  <2>1. ASSUME NEW d \in Dirs, VisitDirectory(d)  PROVE CallAhead'
    BY <2>1, <1>1, <1>2, <1>3 DEF VisitDirectory, RegisterWatch, Alert, CallAhead, TypeOK
  <2>2. ASSUME NEW d \in Dirs, VisitFails(d) \/ ListDirectory(d)  PROVE CallAhead'
    BY <2>2, <1>1, <1>3 DEF VisitFails, ListDirectory, Alert, CallAhead
  <2>3. ASSUME NEW d \in Dirs, WalkBreaks(d)  PROVE FALSE
    BY <2>3, <1>1 DEF WalkBreaks, Alert
  <2>4. CASE EndWalk /\ walker = Main
    <3>1. Alert
      BY <2>4, <1>1 DEF EndWalk, Alert, Inv, LockSound
    <3>2. QED
      BY <2>4, <3>1, <1>1, <1>3 DEF EndWalk, CallAhead, Inv, LockSound
  <2>5. CASE EndWalk /\ walker # Main
    <3>1. walker \in Tasks /\ tasks'[walker] = "stale"
      BY <2>5, <1>2 DEF EndWalk, TypeOK
    <3>2. QED
      BY <3>1 DEF CallAhead
  <2>6. QED
    BY <1>4, <2>1, <2>2, <2>3, <2>4, <2>5 DEF WalkStep
<1>5. CASE ThreadStep
  <2>1. CASE StartThread
    BY <2>1, <1>1 DEF StartThread, Inv, StartSound
  <2>2. CASE BeforePollEventLoop \/ ExitLoop
    BY <2>2, <1>1, <1>3 DEF BeforePollEventLoop, ExitLoop, Alert, CallAhead
  <2>3. CASE PollEvents \/ RestartWaitSettlementTimer
    BY <2>3 DEF PollEvents, RestartWaitSettlementTimer, CallAhead
  <2>4. QED
    BY <1>5, <2>1, <2>2, <2>3 DEF ThreadStep
<1>6. ASSUME NEW t \in Tasks, TimerRunsOut(t) \/ TaskStep(t)  PROVE CallAhead'
  <2>1. CASE TimerRunsOut(t) \/ UnregisterStaleWatches(t)
    <3>1. tasks'[t] # "idle"
      BY <2>1, <1>2 DEF TimerRunsOut, UnregisterStaleWatches, TypeOK
    <3>2. QED
      BY <3>1 DEF CallAhead
  <2>2. CASE WatchEventsOccurred(t)
    BY <2>2, <1>1, <1>3 DEF WatchEventsOccurred, Alert, CallAhead
  <2>3. CASE FireListenerEvents(t)
    BY <2>3, <1>1 DEF FireListenerEvents
  <2>4. QED
    BY <1>6, <2>1, <2>2, <2>3 DEF TaskStep
<1>7. CASE Stop
  BY <1>7, <1>1 DEF Stop, Alert
<1>8. ASSUME NEW d \in Dirs, ChangeFile(d)  PROVE CallAhead'
  <2>1. Alert
    BY <1>8, <1>1 DEF ChangeFile, Alert
  <2>2. CASE Noted(d)
    BY <2>1, <2>2, <1>8, NotedIsCalled DEF ChangeFile
  <2>3. CASE ~Noted(d)
    BY <2>1, <2>3, <1>1, <1>3, <1>8 DEF ChangeFile, Report, CallAhead
  <2>4. QED
    BY <2>2, <2>3
<1>9. ASSUME NEW d \in Dirs, CreateDirectory(d)  PROVE CallAhead'
  <2>1. Alert
    BY <1>9, <1>1, <1>2 DEF CreateDirectory, Alert, TypeOK
  <2>2. CASE Noted(Parent[d])
    BY <2>1, <2>2, <1>9, NotedIsCalled DEF CreateDirectory
  <2>3. CASE ~Noted(Parent[d])
    BY <2>1, <2>3, <1>1, <1>3, <1>9 DEF CreateDirectory, Report, CallAhead
  <2>4. QED
    BY <2>2, <2>3
<1>10. ASSUME NEW d \in Dirs, DeleteDirectory(d)  PROVE CallAhead'
  <2>1. Alert
    BY <1>10, <1>1 DEF DeleteDirectory, Alert
  <2>2. Parent[d] \in exists
    BY <1>10 DEF DeleteDirectory, Inv, IsTree
  <2>3. CASE Noted(Parent[d]) /\ Parent[d] \in live
    BY <2>3, <1>10 DEF DeleteDirectory, CallAhead
  <2>4. CASE Noted(Parent[d]) /\ Parent[d] \notin live
    BY <2>1, <2>2, <2>4, <1>10, NotedIsCalled DEF DeleteDirectory
  <2>5. CASE ~Noted(Parent[d])
    BY <2>1, <2>5, <1>1, <1>3, <1>10 DEF DeleteDirectory, Report, CallAhead
  <2>6. QED
    BY <2>3, <2>4, <2>5
<1>11. CASE UNCHANGED vars
  BY <1>11, <1>1, <1>3 DEF vars, Alert, CallAhead
<1>12. QED
  BY <1>4, <1>5, <1>6, <1>7, <1>8, <1>9, <1>10, <1>11 DEF Next, SomeTaskStep, TreeStep
-----------------------------------------------------------------------------
LEMMA InvStep == Inv /\ [Next]_vars => Inv'
<1> SUFFICES ASSUME Inv, [Next]_vars  PROVE Inv'
  OBVIOUS
<1>1. IsTree(exists')
  BY TreeKept DEF Inv
<1>2. TreeCovered'
  BY <1>1, CoverStep
<1>3. QED
  BY <1>1, <1>2, TypeStep, KeysStep, LockStep, StartStep, ForgetStep DEF Inv

LEMMA Invariance == Spec => []Inv
  BY InitInv, InvStep, PTL DEF Spec

(* Every variable of the watcher keeps its type.                           *)
THEOREM TypeCorrect == Spec => []TypeOK
<1>1. Inv => TypeOK
  BY DEF Inv
<1>2. QED
  BY <1>1, Invariance, PTL

(* The walks leave no directory of the tree unwatched that a walk to come, *)
(* or the rest of the one under way, would not reach (walkTreeAndSet-      *)
(* Watches against directories that come and go).                          *)
THEOREM EveryDirectoryCovered == Spec => []TreeCovered
<1>1. Inv => TreeCovered
  BY DEF Inv
<1>2. QED
  BY <1>1, Invariance, PTL

(* As long as there are changes the listener has not been called for, the  *)
(* watch thread, the timer or a timer task is on the way to calling it     *)
(* (restartWaitSettlementTimer against tasks already at work).             *)
THEOREM NoChangeForgotten == Spec => []NothingForgotten
<1>1. Inv => NothingForgotten
  BY DEF Inv
<1>2. QED
  BY <1>1, Invariance, PTL
=============================================================================
