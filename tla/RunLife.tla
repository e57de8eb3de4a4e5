------------------------------ MODULE RunLife ------------------------------
(***************************************************************************)
(* What whoever starts a script's run may rely on: the life of a run as it *)
(* shows from outside of ScriptService.  A run is started, may be          *)
(* cancelled, comes to its end and then has or has not left a result, and  *)
(* is announced, maybe more than once, after it was cancelled or has       *)
(* ended.  ScriptService implements this.                                  *)
(***************************************************************************)
CONSTANT Runs  \* the runs that may be asked for

VARIABLES
  started,    \* the runs somebody has started
  cancelled,  \* those that have been cancelled
  over,       \* those that have come to their end
  stored,     \* those with a committed result
  announced   \* those announced as finished

lifeVars == <<started, cancelled, over, stored, announced>>

LifeOK ==
  /\ started \subseteq Runs /\ cancelled \subseteq started /\ over \subseteq started
  /\ stored \subseteq over /\ announced \subseteq over \cup cancelled

LifeInit ==
  started = {} /\ cancelled = {} /\ over = {} /\ stored = {} /\ announced = {}

Start(r) ==
  /\ r \notin started
  /\ started' = started \cup {r}
  /\ UNCHANGED <<cancelled, over, stored, announced>>

(* The timeout has passed.  The run may go on all the same.                *)
Cancel(r) ==
  /\ r \in started \ (cancelled \cup over)
  /\ cancelled' = cancelled \cup {r}
  /\ UNCHANGED <<started, over, stored, announced>>

End(r) ==
  /\ r \in started \ over
  /\ over' = over \cup {r}
  /\ stored' \in {stored, stored \cup {r}}
  /\ UNCHANGED <<started, cancelled, announced>>

Announce(r) ==
  /\ r \in over \cup cancelled
  /\ announced' = announced \cup {r}
  /\ UNCHANGED <<started, cancelled, over, stored>>

LifeNext == \E r \in Runs : Start(r) \/ Cancel(r) \/ End(r) \/ Announce(r)

LifeSpec == LifeInit /\ [][LifeNext]_lifeVars
=============================================================================
