---------------------------- MODULE EntityLifecycle ----------------------------
(***************************************************************************)
(* What the library promises about the entities it supervises, without queue, *)
(* latches, heartbeats, clock and lock: an entity is "ok", "reported" or       *)
(* "isolated"; the only way back to "ok" is a restart paid from one of its     *)
(* budgets, and the system mode only rises, when an entity is isolated or a    *)
(* report names no entity.                                                   *)
(***************************************************************************)
EXTENDS Integers

CONSTANTS
  Entities,
  Budget,       \* per entity: the restarts of each kind
  Unlimited     \* the budget that is never used up

VARIABLES phase, spent, mode

lifeVars == <<phase, spent, mode>>

Kinds == {"normal", "watchdog"}

LifeInit ==
  /\ phase = [id \in Entities |-> "ok"]
  /\ spent = [id \in Entities |-> [normal |-> 0, watchdog |-> 0]]
  /\ mode = 0

\* restart() is called once more; nobody counts what has no limit.
Spend(id, k) ==
  LET unlimited == Budget[id][k] = Unlimited
  IN  /\ unlimited \/ spent[id][k] < Budget[id][k]
      /\ \/ spent' = [spent EXCEPT ![id][k] = @ + 1]
         \/ unlimited /\ UNCHANGED spent

Report(id) ==
  /\ phase[id] = "ok"
  /\ phase' = [phase EXCEPT ![id] = "reported"]
  /\ UNCHANGED <<spent, mode>>

Restart(id) ==
  /\ \E k \in Kinds : Spend(id, k)
  /\ phase' = [phase EXCEPT ![id] = "ok"]
  /\ UNCHANGED mode

\* After a restart that failed, or without one.
Isolate(id) ==
  /\ (\E k \in Kinds : Spend(id, k)) \/ UNCHANGED spent
  /\ phase' = [phase EXCEPT ![id] = "isolated"]
  /\ mode' \in mode .. 3

\* A report of an entity that is not registered.
Degrade ==
  /\ mode = 0 /\ mode' = 1
  /\ UNCHANGED <<phase, spent>>

LifeNext ==
  \/ \E id \in Entities : Report(id) \/ Restart(id) \/ Isolate(id)
  \/ Degrade

LifeSpec == LifeInit /\ [][LifeNext]_lifeVars
=============================================================================
