-------------------------- MODULE ConfigGenerations --------------------------
(***************************************************************************)
(* What the configuration store promises, without slots, markers or        *)
(* calls (src/config_store.c; docs/architecture/config-storage.md, "Atomic *)
(* apply"): there is a set of stored generations, each of them a whole     *)
(* document that was accepted on the revision before its own and compiled; *)
(* one of them is current. A generation enters the set in one step, as the *)
(* successor of the current one; only a generation that is not current     *)
(* ever leaves it; a restart makes the newest stored generation current.   *)
(***************************************************************************)
EXTENDS Integers

CONSTANTS Documents, Revisions, Valid, Executable

VARIABLES stored, current

vars == <<stored, current>>

Generation == [revision : Revisions \ {0}, sha : Documents]
Nothing    == [revision |-> 0, sha |-> <<>>]

NewestOf(S, g) ==
  IF S = {} THEN g = Nothing
  ELSE g \in S /\ \A h \in S : g.revision >= h.revision

Init == stored = {} /\ current = Nothing

\* A generation accepted on the current revision becomes stored, whole.
Publish ==
  \E g \in Generation :
     /\ g.revision = current.revision + 1
     /\ <<g.sha, current.revision>> \in Valid
     /\ g.sha \in Executable
     /\ stored \subseteq {current}
     /\ stored' = stored \union {g}
     /\ UNCHANGED current

\* Space for the next one is made from a generation that is not current.
Discard ==
  \E g \in stored \ {current} :
     /\ stored' = stored \ {g}
     /\ UNCHANGED current

\* The commit ends, or the boot falls back: another stored generation.
Switch ==
  /\ current' \in stored
  /\ UNCHANGED stored

\* A restart, possibly while space is being made.
Restart ==
  /\ \E lost \in SUBSET (stored \ {current}) : stored' = stored \ lost
  /\ current' \in stored' \union {Nothing}
  /\ NewestOf(stored', current')

Next == Publish \/ Discard \/ Switch \/ Restart

Spec == Init /\ [][Next]_vars
=============================================================================
