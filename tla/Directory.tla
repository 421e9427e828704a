------------------------------ MODULE Directory ------------------------------
(***************************************************************************)
(* SOCLIB_DIRECTORY: the presence bits of NB_P caches, packed in slices    *)
(* of 32 bits.  The two highest bits of the last slice are M and E, which  *)
(* Is_Other masks.  A slice is the set of its bits that are 1.             *)
(*                                                                         *)
(* The actions are the calls that CcRamCore makes on the entry of one      *)
(* block and on r_INV_BLOCKSTATE.  CcRamCore (the module) keeps plain sets *)
(* instead; PresenceSet is what it relies on.                              *)
(***************************************************************************)
EXTENDS Integers

CONSTANTS
  Sizes,  \* numbers of caches that init is called with
  Ids     \* node_id of the caches that appear

ASSUME SizesAssumption == Sizes \subseteq Nat \ {0} /\ Ids \subseteq Nat

VARIABLES
  nbP,     \* NB_P of every entry
  entry,   \* s_DIRECTORY of the block
  round,   \* r_INV_BLOCKSTATE
  kick,    \* RAM_FSM is in RAM_DATA_INVAL_WAIT and INV_FSM has not begun
  target,  \* the cache that INV_FSM tells, or NoId
  fresh    \* history: the caches whose last read saw the last store

dirVars == <<nbP, entry, round, kick, target, fresh>>

NoId     == -1     \* also node_id of an initiator that is no cache
Bits     == 0..31
Presence == 0..29  \* 0x3fffffff

(* Mutant: no room for M and E. *)
SlicesTight(n) == n \div 32 + 1

Slices(n) == (n + 1) \div 32 + 1

Cleared(n) == [i \in 0..(Slices(n) - 1) |-> {}]

IsP(d, x) == x % 32 \in d[x \div 32]
SetP(d, x) == [d EXCEPT ![x \div 32] = @ \cup {x % 32}]

(* Mutant: the bit stays. *)
ResetNothing(d, x) == d

ResetP(d, x) == [d EXCEPT ![x \div 32] = @ \ {x % 32}]
IsEmpty(d) == \A i \in DOMAIN d : d[i] = {}

(* Mutant: the bit of x is not left out. *)
IsAny(d, n, x) == ~IsEmpty(d)

IsOther(d, n, x) ==
  \E i \in DOMAIN d :
     LET others == IF i = x \div 32 THEN d[i] \ {x % 32} ELSE d[i]
     IN (IF i = Slices(n) - 1 THEN others \cap Presence ELSE others) # {}

NextId(d, n) ==
  IF \E i \in 0..(n - 1) : IsP(d, i)
  THEN CHOOSE i \in 0..(n - 1) : IsP(d, i) /\ \A j \in 0..(i - 1) : ~IsP(d, j)
  ELSE NoId

-----------------------------------------------------------------------------
Caches == {x \in Ids : x < nbP}

(* init, and the entries of the constructor of CcRamCore. *)
DirInit ==
  /\ nbP \in Sizes
  /\ entry = Cleared(nbP) /\ round = Cleared(nbP)
  /\ kick = FALSE /\ target = NoId /\ fresh = {}

(* on_read, then RAM_DIRUPD. *)
DirRead(x) ==
  /\ ~kick
  /\ entry' = IF IsP(entry, x) THEN entry ELSE SetP(entry, x)
  /\ fresh' = fresh \cup {x}
  /\ UNCHANGED <<nbP, round, kick, target>>

(* on_write decides, RAM_DATA_INVAL starts the round.  One step: no one    *)
(* writes the entry between the two.                                       *)
OthersToTell(x) == IF x = NoId THEN ~IsEmpty(entry) ELSE IsOther(entry, nbP, x)

DirStore(x) ==
  /\ ~OthersToTell(x)
  /\ ~kick
  /\ fresh' = fresh \cap {x}
  /\ UNCHANGED <<nbP, entry, round, kick, target>>

DirStoreShared(x) ==
  /\ OthersToTell(x)
  /\ ~kick /\ target = NoId
  /\ round' = IF x = NoId THEN entry ELSE ResetP(entry, x)
  /\ entry' = IF x # NoId /\ IsP(entry, x) THEN SetP(Cleared(nbP), x)
                                           ELSE Cleared(nbP)
  /\ kick' = TRUE
  /\ fresh' = fresh \cap {x}
  /\ UNCHANGED <<nbP, target>>

TellNext ==
  /\ target' = NextId(round, nbP)
  /\ round' = ResetP(round, NextId(round, nbP))

(* RAM_INV_IDLE, then RAM_INV_RSP. *)
TellFirst ==
  /\ kick /\ kick' = FALSE
  /\ TellNext
  /\ UNCHANGED <<nbP, entry, fresh>>

(* Mutant: INV_FSM goes idle after the first answer. *)
AcknowledgedOnce ==
  /\ target # NoId /\ target' = NoId
  /\ UNCHANGED <<nbP, entry, round, kick, fresh>>

Acknowledged ==
  /\ target # NoId
  /\ IF IsEmpty(round) THEN target' = NoId /\ UNCHANGED round ELSE TellNext
  /\ UNCHANGED <<nbP, entry, kick, fresh>>

InvRound == TellFirst \/ Acknowledged

DirNext ==
  \/ \E x \in Caches : DirRead(x)
  \/ \E x \in Caches \cup {NoId} : DirStore(x) \/ DirStoreShared(x)
  \/ InvRound

DirSpec == DirInit /\ [][DirNext]_dirVars /\ WF_dirVars(InvRound)

-----------------------------------------------------------------------------
(* The caches whose bit is set. *)
Held(d) == {x \in 0..(nbP - 1) : IsP(d, x)}

(* Slices hold bits of caches only: M, E and the bits above NB_P stay 0.   *)
Entries == {d \in [0..(Slices(nbP) - 1) -> SUBSET Bits] :
              \A i \in DOMAIN d : \A b \in d[i] : 32 * i + b \in Caches}

(* While a round is on, the cache being told is out of what remains of it; *)
(* a round that has not begun has someone to tell, and none goes on idle.  *)
RoundInv ==
  /\ target # NoId => ~kick /\ target \in Caches /\ ~IsP(round, target)
  /\ target = NoId => (kick <=> ~IsEmpty(round))

(* Type invariant and inductive invariant: slices have no bit outside the  *)
(* caches, so that the masked bits are always 0, and rounds are well       *)
(* formed (SOCLIB_DIRECTORY::Set_p, Reset_p and the copy in RAM_DATA_INVAL)*)
DirectoryInv ==
  /\ nbP \in Sizes
  /\ entry \in Entries /\ round \in Entries
  /\ kick \in BOOLEAN
  /\ RoundInv

(* The assertions of INV_FSM and of RAM_DATA_INVAL: a round that starts or *)
(* goes on finds a target among the NB_P caches (Get_next_id is not -1).   *)
TargetsExist ==
  kick \/ ~IsEmpty(round) => NextId(round, nbP) \in 0..(nbP - 1)

(* The slices behave as sets of caches: Is_Other, under its mask and at any*)
(* number of caches, sees every other holder, so that a store leaves no    *)
(* copy but its source's, and each holder is told once.                    *)
SetOfCaches == INSTANCE PresenceSet WITH
  Outsider <- NoId,
  holders  <- Held(entry),
  todo     <- Held(round) \cup (IF target = NoId THEN {} ELSE {target})
ActsAsSet == SetOfCaches!PsSpec

(* Every round ends: Reset_p takes out the cache that Get_next_id found.   *)
RoundsEnd == kick ~> (target = NoId /\ ~kick)
=============================================================================
