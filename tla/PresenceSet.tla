----------------------------- MODULE PresenceSet -----------------------------
(***************************************************************************)
(* What the memory controller expects of the directory entry of a block    *)
(* and of its block state: two sets of caches.                             *)
(***************************************************************************)
CONSTANTS
  Ids,      \* node_id of the caches
  Outsider  \* node_id of an initiator that is no cache

VARIABLES
  holders,  \* the caches the entry holds
  todo,     \* the caches still to acknowledge an invalidation
  fresh     \* the caches whose last read saw the last store

psVars == <<holders, todo, fresh>>

PsInit == holders = {} /\ todo = {} /\ fresh = {}

Read(x) ==
  /\ holders' = holders \cup {x} /\ fresh' = fresh \cup {x}
  /\ UNCHANGED todo

(* A store leaves no copy but that of its source, and waits for the round  *)
(* of an earlier store before it starts its own.                           *)
Store(x) ==
  /\ holders' = holders \cap {x} /\ fresh' = fresh \cap {x}
  /\ IF holders \ {x} = {}
     THEN UNCHANGED todo
     ELSE todo = {} /\ todo' = holders \ {x}

Acknowledge(x) ==
  /\ x \in todo /\ todo' = todo \ {x}
  /\ UNCHANGED <<holders, fresh>>

PsNext == \/ \E x \in Ids : Read(x) \/ Acknowledge(x)
          \/ \E x \in Ids \cup {Outsider} : Store(x)
PsSpec == PsInit /\ [][PsNext]_psVars
=============================================================================
