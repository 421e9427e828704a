---------------------------- MODULE PageExchange ----------------------------
(***************************************************************************)
(* What the migration of pages promises to the processors: the frames they *)
(* may access hold whole pages, each page in one frame; a frame loses its  *)
(* page when it is poisoned and, when it is accessible again, has one of   *)
(* the pages that no accessible frame holds.  How two nodes agree on the   *)
(* exchange and move the words is not said.                                *)
(***************************************************************************)
CONSTANTS Frames, NoOne

VARIABLE holds     \* the page of each frame, NoOne while it is poisoned

ExchangeInit == holds = [f \in Frames |-> f]

Away == {p \in Frames : \A f \in Frames : holds[f] # p}

Poison(f) == holds[f] # NoOne /\ holds' = [holds EXCEPT ![f] = NoOne]
Return(f) ==
  /\ holds[f] = NoOne
  /\ \E p \in Away : holds' = [holds EXCEPT ![f] = p]

ExchangeNext == \E f \in Frames : Poison(f) \/ Return(f)
ExchangeSpec == ExchangeInit /\ [][ExchangeNext]_holds
=============================================================================
