-------------------------- MODULE DirectoryProofs --------------------------
(***************************************************************************)
(* SOCLIB_DIRECTORY acts as a set of caches for every NB_P.                *)
(*                                                                         *)
(* The lemmas say what each operation on the slices does to the set Held   *)
(* of the caches whose bit is set, for entries in Entries, where no bit is *)
(* outside the caches.  They rest on two facts about 32-bit slices: a      *)
(* cache is determined by its slice and bit, and Slices leaves the two     *)
(* highest bits of the last slice free.                                    *)
(***************************************************************************)
EXTENDS Directory, WellFoundedInduction, TLAPS

-----------------------------------------------------------------------------
(* Numbering of the bits. *)

(* x is the bit x % 32 of the slice x \div 32. *)
LEMMA Numbering ==
  ASSUME NEW x \in Nat
  PROVE  /\ x \div 32 \in Nat /\ x % 32 \in Bits
         /\ x = 32 * (x \div 32) + (x % 32)
BY DEF Bits

LEMMA NumberOf ==
  ASSUME NEW i \in Nat, NEW b \in Bits
  PROVE  /\ 32 * i + b \in Nat
         /\ (32 * i + b) \div 32 = i /\ (32 * i + b) % 32 = b
BY DEF Bits

(* Every cache has a slice, and in the last slice no cache has the bits of *)
(* M and E.                                                                *)
LEMMA RoomForAll ==
  ASSUME NEW n \in Nat, NEW x \in 0..(n - 1)
  PROVE  /\ Slices(n) \in Nat
         /\ x \div 32 \in 0..(Slices(n) - 1)
         /\ x \div 32 = Slices(n) - 1 => x % 32 \in Presence
BY DEF Slices, Presence

(* Two caches differ by their slice or by their bit. *)
LEMMA SameBit ==
  ASSUME NEW x \in Nat, NEW y \in Nat,
         x \div 32 = y \div 32, x % 32 = y % 32
  PROVE  x = y
BY Numbering

-----------------------------------------------------------------------------
(* Operations on an entry of nbP caches. *)

LEMMA SizesArePositive ==
  ASSUME nbP \in Sizes
  PROVE  nbP \in Nat \ {0}
BY SizesAssumption

LEMMA ClearedHoldsNone ==
  ASSUME nbP \in Nat \ {0}
  PROVE  Cleared(nbP) \in Entries /\ Held(Cleared(nbP)) = {}
<1>1. Cleared(nbP) \in Entries
  BY DEF Cleared, Entries
<1>2. \A x \in 0..(nbP - 1) : ~IsP(Cleared(nbP), x)
  BY RoomForAll DEF Cleared, IsP
<1> QED BY <1>1, <1>2 DEF Held

LEMMA SetPAdds ==
  ASSUME nbP \in Nat \ {0}, NEW d \in Entries, NEW x \in 0..(nbP - 1),
         x \in Caches
  PROVE  SetP(d, x) \in Entries /\ Held(SetP(d, x)) = Held(d) \cup {x}
<1>1. x \in Nat /\ x \div 32 \in 0..(Slices(nbP) - 1) /\ x % 32 \in Bits
  BY RoomForAll, Numbering
<1>2. d \in [0..(Slices(nbP) - 1) -> SUBSET Bits]
  BY DEF Entries
<1>3. SetP(d, x) \in Entries
  <2>1. SetP(d, x) \in [0..(Slices(nbP) - 1) -> SUBSET Bits]
    BY <1>1, <1>2 DEF SetP
  <2>2. ASSUME NEW i \in DOMAIN SetP(d, x), NEW b \in SetP(d, x)[i]
        PROVE  32 * i + b \in Caches
    <3>1. i \in DOMAIN d /\ (b \in d[i] \/ (i = x \div 32 /\ b = x % 32))
      BY <1>1, <1>2, <2>1, <2>2 DEF SetP
    <3>2. CASE b \in d[i]
      BY <3>1, <3>2 DEF Entries
    <3>3. CASE i = x \div 32 /\ b = x % 32
      BY <1>1, <3>3, Numbering
    <3> QED BY <3>1, <3>2, <3>3
  <2> QED BY <2>1, <2>2 DEF Entries
<1>4. \A y \in 0..(nbP - 1) : IsP(SetP(d, x), y) <=> IsP(d, y) \/ y = x
  <2> SUFFICES ASSUME NEW y \in 0..(nbP - 1)
               PROVE  IsP(SetP(d, x), y) <=> IsP(d, y) \/ y = x
    OBVIOUS
  <2>1. y \in Nat /\ y \div 32 \in 0..(Slices(nbP) - 1)
    BY RoomForAll
  <2>2. IsP(SetP(d, x), y)
          <=> IsP(d, y) \/ (y \div 32 = x \div 32 /\ y % 32 = x % 32)
    BY <1>1, <1>2, <2>1 DEF SetP, IsP
  <2> QED BY <1>1, <2>1, <2>2, SameBit
<1> QED BY <1>3, <1>4 DEF Held

LEMMA ResetPRemoves ==
  ASSUME nbP \in Nat \ {0}, NEW d \in Entries, NEW x \in 0..(nbP - 1)
  PROVE  ResetP(d, x) \in Entries /\ Held(ResetP(d, x)) = Held(d) \ {x}
<1>1. x \in Nat /\ x \div 32 \in 0..(Slices(nbP) - 1) /\ x % 32 \in Bits
  BY RoomForAll, Numbering
<1>2. d \in [0..(Slices(nbP) - 1) -> SUBSET Bits]
  BY DEF Entries
<1>3. ResetP(d, x) \in Entries
  <2>1. ResetP(d, x) \in [0..(Slices(nbP) - 1) -> SUBSET Bits]
    BY <1>1, <1>2 DEF ResetP
  <2>2. \A i \in DOMAIN d : ResetP(d, x)[i] \subseteq d[i]
    BY <1>1, <1>2 DEF ResetP
  <2> QED BY <1>2, <2>1, <2>2 DEF Entries
<1>4. \A y \in 0..(nbP - 1) : IsP(ResetP(d, x), y) <=> IsP(d, y) /\ y # x
  <2> SUFFICES ASSUME NEW y \in 0..(nbP - 1)
               PROVE  IsP(ResetP(d, x), y) <=> IsP(d, y) /\ y # x
    OBVIOUS
  <2>1. y \in Nat /\ y \div 32 \in 0..(Slices(nbP) - 1)
    BY RoomForAll
  <2>2. IsP(ResetP(d, x), y)
          <=> IsP(d, y) /\ ~(y \div 32 = x \div 32 /\ y % 32 = x % 32)
    BY <1>1, <1>2, <2>1 DEF ResetP, IsP
  <2> QED BY <1>1, <2>1, <2>2, SameBit
<1> QED BY <1>3, <1>4 DEF Held

(* A bit that is set is the bit of a cache. *)
LEMMA BitIsCache ==
  ASSUME nbP \in Nat \ {0}, NEW d \in Entries,
         NEW i \in DOMAIN d, NEW b \in d[i]
  PROVE  32 * i + b \in Held(d) /\ i \in Nat /\ b \in Bits
<1>1. i \in Nat /\ b \in Bits /\ 32 * i + b < nbP
  BY DEF Entries, Caches
<1> HIDE DEF Entries
<1>2. 32 * i + b \in 0..(nbP - 1)
  BY <1>1, NumberOf
<1>3. IsP(d, 32 * i + b)
  BY <1>1, NumberOf DEF IsP
<1> QED BY <1>1, <1>2, <1>3 DEF Held

LEMMA HeldAreCaches ==
  ASSUME nbP \in Nat \ {0}, NEW d \in Entries
  PROVE  Held(d) \subseteq Caches
<1> SUFFICES ASSUME NEW x \in Held(d) PROVE x \in Caches
  OBVIOUS
<1>1. x \in 0..(nbP - 1) /\ x \in Nat /\ x % 32 \in d[x \div 32]
  BY DEF Held, IsP
<1>2. x \div 32 \in DOMAIN d
  BY <1>1, RoomForAll DEF Entries
<1>3. 32 * (x \div 32) + (x % 32) \in Caches
  BY <1>1, <1>2 DEF Entries
<1> QED BY <1>1, <1>3, Numbering

LEMMA EmptyHoldsNone ==
  ASSUME nbP \in Nat \ {0}, NEW d \in Entries
  PROVE  IsEmpty(d) <=> Held(d) = {}
<1>1. ASSUME NEW x \in Held(d) PROVE ~IsEmpty(d)
  <2>1. x \in 0..(nbP - 1) /\ x % 32 \in d[x \div 32]
    BY DEF Held, IsP
  <2>2. x \div 32 \in DOMAIN d
    BY <2>1, RoomForAll DEF Entries
  <2> QED BY <2>1, <2>2 DEF IsEmpty
<1>2. ASSUME ~IsEmpty(d) PROVE Held(d) # {}
  <2>1. PICK i \in DOMAIN d : d[i] # {}
    BY <1>2 DEF IsEmpty
  <2>2. PICK b \in d[i] : TRUE
    BY <2>1
  <2> QED BY <2>2, BitIsCache
<1> QED BY <1>1, <1>2

(* Is_Other is exact at any NB_P: the mask hides no cache. *)
LEMMA OtherHolds ==
  ASSUME nbP \in Nat \ {0}, NEW d \in Entries, NEW x \in 0..(nbP - 1)
  PROVE  IsOther(d, nbP, x) <=> Held(d) \ {x} # {}
<1>0. x \in Nat
  OBVIOUS
<1> DEFINE others(i) == IF i = x \div 32 THEN d[i] \ {x % 32} ELSE d[i]
<1>1. ASSUME NEW y \in Held(d) \ {x} PROVE IsOther(d, nbP, x)
  <2>1. /\ y \in 0..(nbP - 1) /\ y \in Nat /\ y # x
        /\ y % 32 \in d[y \div 32]
    BY DEF Held, IsP
  <2>2. /\ y \div 32 \in DOMAIN d
        /\ y \div 32 = Slices(nbP) - 1 => y % 32 \in Presence
    BY <2>1, RoomForAll DEF Entries
  <2>3. y % 32 \in others(y \div 32)
    BY <1>0, <2>1, SameBit
  <2>4. (IF y \div 32 = Slices(nbP) - 1
         THEN others(y \div 32) \cap Presence ELSE others(y \div 32)) # {}
    <3> HIDE DEF others
    <3> QED BY <2>2, <2>3
  <2> QED BY <2>2, <2>4 DEF IsOther
<1>2. ASSUME IsOther(d, nbP, x) PROVE Held(d) \ {x} # {}
  <2>1. PICK i \in DOMAIN d : \E b \in d[i] : ~(i = x \div 32 /\ b = x % 32)
    BY <1>2 DEF IsOther
  <2>2. PICK b \in d[i] : ~(i = x \div 32 /\ b = x % 32)
    BY <2>1
  <2>3. 32 * i + b \in Held(d) /\ i \in Nat /\ b \in Bits
    BY BitIsCache
  <2>4. 32 * i + b # x
    <3>1. (32 * i + b) \div 32 = i /\ (32 * i + b) % 32 = b
      BY <2>3, NumberOf
    <3> QED BY <2>2, <3>1
  <2> QED BY <2>3, <2>4
<1> QED BY <1>1, <1>2

LEMMA LeastOf ==
  ASSUME NEW S \in SUBSET Nat, S # {}
  PROVE  \E x \in S : \A y \in S : ~(y < x)
<1> DEFINE R == OpToRel(<, Nat)
<1>1. \A x, y \in S : <<y, x>> \in R <=> y < x
  BY DEF OpToRel
<1>2. IsWellFoundedOn(R, Nat)
  BY NatLessThanWellFounded
<1> HIDE DEF R
<1> QED BY <1>1, <1>2, WFMin

(* Get_next_id finds a cache whenever there is one. *)
LEMMA NextIdHeld ==
  ASSUME nbP \in Nat \ {0}, NEW d, Held(d) # {}
  PROVE  NextId(d, nbP) \in Held(d)
<1>1. Held(d) \in SUBSET Nat
  BY DEF Held
<1>2. PICK x \in Held(d) : \A y \in Held(d) : ~(y < x)
  BY <1>1, LeastOf
<1>3. x \in 0..(nbP - 1) /\ IsP(d, x) /\ \A j \in 0..(x - 1) : ~IsP(d, j)
  BY <1>2 DEF Held
<1> QED BY <1>3 DEF NextId, Held

-----------------------------------------------------------------------------
(* The invariant. *)

(* TellNext on a round with someone to tell. *)
LEMMA TellNextKeepsInv ==
  ASSUME DirectoryInv, ~IsEmpty(round), TellNext, nbP' = nbP
  PROVE  /\ round' \in Entries
         /\ target' \in Held(round)
         /\ Held(round') = Held(round) \ {target'}
<1>1. nbP \in Nat \ {0} /\ round \in Entries
  BY SizesArePositive DEF DirectoryInv
<1>2. target' \in Held(round) /\ target' \in 0..(nbP - 1)
  BY <1>1, EmptyHoldsNone, NextIdHeld DEF TellNext, Held
<1>3. round' = ResetP(round, target')
  BY DEF TellNext
<1> QED BY <1>1, <1>2, <1>3, ResetPRemoves

(* What a store that finds others does to the two entries. *)
LEMMA StoreSharedSplits ==
  ASSUME DirectoryInv, NEW x \in Caches \cup {NoId}, DirStoreShared(x)
  PROVE  /\ entry' \in Entries /\ Held(entry') = Held(entry) \cap {x}
         /\ round' \in Entries /\ Held(round') = Held(entry) \ {x}
         /\ Held(entry) \ {x} # {}
<1>1. nbP \in Nat \ {0} /\ entry \in Entries
  BY SizesArePositive DEF DirectoryInv
<1>2. CASE x = NoId
  <2>1. NoId \notin Held(entry)
    BY <1>1 DEF NoId, Held
  <2>2. round' = entry /\ entry' = Cleared(nbP) /\ ~IsEmpty(entry)
    BY <1>2 DEF DirStoreShared, OthersToTell
  <2> QED BY <1>1, <1>2, <2>1, <2>2, ClearedHoldsNone, EmptyHoldsNone
<1>3. CASE x # NoId
  <2>1. x \in 0..(nbP - 1)
    BY <1>1, <1>3, SizesAssumption DEF Caches
  <2>2. /\ round' = ResetP(entry, x) /\ IsOther(entry, nbP, x)
        /\ entry' = IF IsP(entry, x) THEN SetP(Cleared(nbP), x) ELSE Cleared(nbP)
    BY <1>3 DEF DirStoreShared, OthersToTell
  <2>3. x \in Caches /\ (IsP(entry, x) <=> x \in Held(entry))
    BY <1>3, <2>1 DEF Held
  <2>4. entry' \in Entries /\ Held(entry') = Held(entry) \cap {x}
    <3>1. CASE IsP(entry, x)
      BY <1>1, <2>1, <2>2, <2>3, <3>1, ClearedHoldsNone, SetPAdds
    <3>2. CASE ~IsP(entry, x)
      BY <1>1, <2>1, <2>2, <2>3, <3>2, ClearedHoldsNone
    <3> QED BY <3>1, <3>2
  <2> QED BY <1>1, <2>1, <2>2, <2>4, ResetPRemoves, OtherHolds
<1> QED BY <1>2, <1>3

(* DirectoryInv holds for every NB_P: Set_p, Reset_p and the copies of     *)
(* RAM_DATA_INVAL set no bit outside the caches, and a round tells each    *)
(* cache once.                                                             *)
THEOREM DirectoryInvariant == DirSpec => []DirectoryInv
<1>1. DirInit => DirectoryInv
  <2> SUFFICES ASSUME DirInit PROVE DirectoryInv
    OBVIOUS
  <2>1. nbP \in Sizes /\ nbP \in Nat \ {0}
    BY SizesArePositive DEF DirInit
  <2>2. entry \in Entries /\ round \in Entries /\ IsEmpty(round)
    BY <2>1, ClearedHoldsNone, EmptyHoldsNone DEF DirInit
  <2> QED BY <2>1, <2>2 DEF DirInit, DirectoryInv, RoundInv, NoId
<1>2. DirectoryInv /\ [DirNext]_dirVars => DirectoryInv'
  <2> SUFFICES ASSUME DirectoryInv, [DirNext]_dirVars PROVE DirectoryInv'
    OBVIOUS
  <2>0. nbP \in Sizes /\ nbP \in Nat \ {0} /\ entry \in Entries /\ round \in Entries
    BY SizesArePositive DEF DirectoryInv
  <2>1. nbP' = nbP => Entries' = Entries /\ Caches' = Caches
    BY DEF Entries, Caches
  <2>2. ASSUME NEW x \in Caches, DirRead(x) PROVE DirectoryInv'
    <3>1. x \in 0..(nbP - 1)
      BY <2>0, SizesAssumption DEF Caches
    <3>2. entry' \in Entries /\ UNCHANGED <<nbP, round, kick, target>>
      BY <2>0, <2>2, <3>1, SetPAdds DEF DirRead
    <3> QED BY <2>1, <3>2 DEF DirectoryInv, RoundInv
  <2>3. ASSUME NEW x \in Caches \cup {NoId}, DirStore(x) PROVE DirectoryInv'
    <3>1. UNCHANGED <<nbP, entry, round, kick, target>>
      BY <2>3 DEF DirStore
    <3> QED BY <2>1, <3>1 DEF DirectoryInv, RoundInv
  <2>4. ASSUME NEW x \in Caches \cup {NoId}, DirStoreShared(x) PROVE DirectoryInv'
    <3>1. nbP' = nbP /\ kick' = TRUE /\ target' = NoId
      BY <2>4 DEF DirStoreShared
    <3>2. entry' \in Entries /\ round' \in Entries /\ ~IsEmpty(round')
      BY <2>0, <2>4, StoreSharedSplits, EmptyHoldsNone
    <3> QED BY <2>0, <2>1, <3>1, <3>2 DEF DirectoryInv, RoundInv
  <2>5. ASSUME TellNext, ~IsEmpty(round), kick' = FALSE, UNCHANGED <<nbP, entry>>
        PROVE  DirectoryInv'
    <3>1. /\ round' \in Entries /\ target' \in Caches
          /\ ~IsP(round', target')
      BY <2>0, <2>5, TellNextKeepsInv, HeldAreCaches DEF Held
    <3>2. target' # NoId
      BY <2>0, <3>1, SizesAssumption DEF NoId, Caches
    <3> QED BY <2>0, <2>1, <2>5, <3>1, <3>2 DEF DirectoryInv, RoundInv
  <2>6. ASSUME TellFirst PROVE DirectoryInv'
    BY <2>5, <2>6 DEF TellFirst, DirectoryInv, RoundInv
  <2>7. ASSUME Acknowledged PROVE DirectoryInv'
    <3>1. kick' = FALSE /\ UNCHANGED <<nbP, entry>>
      BY <2>7 DEF Acknowledged, DirectoryInv, RoundInv
    <3>2. CASE IsEmpty(round)
      BY <2>0, <2>1, <2>7, <3>1, <3>2 DEF Acknowledged, DirectoryInv, RoundInv
    <3>3. CASE ~IsEmpty(round)
      BY <2>5, <2>7, <3>1, <3>3 DEF Acknowledged
    <3> QED BY <3>2, <3>3
  <2>8. CASE UNCHANGED dirVars
    BY <2>8, <2>1 DEF dirVars, DirectoryInv, RoundInv
  <2> QED BY <2>2, <2>3, <2>4, <2>6, <2>7, <2>8 DEF DirNext, InvRound
<1> QED BY <1>1, <1>2, PTL DEF DirSpec

(* Get_next_id is never -1 when INV_FSM uses it, for every NB_P: the       *)
(* assertions of RAM_INV_IDLE, RAM_INV_RSP and RAM_DATA_INVAL hold.        *)
THEOREM TargetsAlwaysExist == DirSpec => []TargetsExist
<1>1. DirectoryInv => TargetsExist
  <2> SUFFICES ASSUME DirectoryInv, kick \/ ~IsEmpty(round)
               PROVE  NextId(round, nbP) \in 0..(nbP - 1)
    BY DEF TargetsExist
  <2>1. nbP \in Nat \ {0} /\ round \in Entries /\ ~IsEmpty(round)
    BY SizesArePositive DEF DirectoryInv, RoundInv
  <2> QED BY <2>1, EmptyHoldsNone, NextIdHeld DEF Held
<1> QED BY <1>1, DirectoryInvariant, PTL

-----------------------------------------------------------------------------
(* Refinement. *)

(* The slices of soclib_directory act as two sets of caches, for every     *)
(* NB_P: Is_Other misses no holder, a store leaves no stale copy, and an   *)
(* acknowledgement settles one cache.                                      *)
THEOREM DirectoryActsAsSet == DirSpec => ActsAsSet
<1> USE DEF SetOfCaches!PsInit, SetOfCaches!PsNext, SetOfCaches!psVars
<1>1. DirInit => SetOfCaches!PsInit
  <2> SUFFICES ASSUME DirInit PROVE SetOfCaches!PsInit
    OBVIOUS
  <2>1. Held(entry) = {} /\ Held(round) = {}
    BY SizesArePositive, ClearedHoldsNone DEF DirInit
  <2> QED BY <2>1 DEF DirInit
<1>2. DirectoryInv /\ [DirNext]_dirVars => [SetOfCaches!PsNext]_(SetOfCaches!psVars)
  <2> SUFFICES ASSUME DirectoryInv, [DirNext]_dirVars
               PROVE  SetOfCaches!PsNext \/ UNCHANGED SetOfCaches!psVars
    OBVIOUS
  <2>0. nbP \in Nat \ {0} /\ entry \in Entries /\ round \in Entries
    BY SizesArePositive DEF DirectoryInv
  <2>1. nbP' = nbP => /\ entry' = entry => Held(entry)' = Held(entry)
                      /\ round' = round => Held(round)' = Held(round)
                      /\ Held(entry)' = Held(entry') /\ Held(round)' = Held(round')
    BY DEF Held
  <2>2. ASSUME NEW x \in Caches, DirRead(x) PROVE SetOfCaches!Read(x)
    <3>1. x \in 0..(nbP - 1)
      BY <2>0, SizesAssumption DEF Caches
    <3>2. UNCHANGED <<nbP, round, target>> /\ fresh' = fresh \cup {x}
      BY <2>2 DEF DirRead
    <3>3. Held(entry)' = Held(entry) \cup {x}
      <4>1. CASE IsP(entry, x)
        BY <2>1, <2>2, <3>1, <4>1 DEF DirRead, Held
      <4>2. CASE ~IsP(entry, x)
        BY <2>0, <2>1, <2>2, <3>1, <4>2, SetPAdds DEF DirRead
      <4> QED BY <4>1, <4>2
    <3> QED BY <2>1, <3>2, <3>3 DEF SetOfCaches!Read
  <2>3. ASSUME NEW x \in Caches \cup {NoId}, DirStore(x) PROVE SetOfCaches!Store(x)
    <3>1. Held(entry) \ {x} = {}
      <4>1. CASE x = NoId
        BY <2>0, <2>3, <4>1, EmptyHoldsNone DEF DirStore, OthersToTell
      <4>2. CASE x # NoId
        <5>1. x \in 0..(nbP - 1)
          BY <2>0, <4>2, SizesAssumption DEF Caches
        <5> QED BY <2>0, <2>3, <4>2, <5>1, OtherHolds DEF DirStore, OthersToTell
      <4> QED BY <4>1, <4>2
    <3>2. UNCHANGED <<nbP, entry, round, target>> /\ fresh' = fresh \cap {x}
      BY <2>3 DEF DirStore
    <3> QED BY <2>1, <3>1, <3>2 DEF SetOfCaches!Store
  <2>4. ASSUME NEW x \in Caches \cup {NoId}, DirStoreShared(x)
        PROVE  SetOfCaches!Store(x)
    <3>1. /\ UNCHANGED <<nbP, target>> /\ target = NoId /\ ~kick
          /\ fresh' = fresh \cap {x}
      BY <2>4 DEF DirStoreShared
    <3>2. Held(round) = {}
      BY <2>0, <3>1, EmptyHoldsNone DEF DirectoryInv, RoundInv
    <3>3. /\ Held(entry)' = Held(entry) \cap {x}
          /\ Held(round)' = Held(entry) \ {x} /\ Held(entry) \ {x} # {}
      BY <2>1, <2>4, <3>1, StoreSharedSplits
    <3> QED BY <3>1, <3>2, <3>3 DEF SetOfCaches!Store
  <2>5. ASSUME TellFirst PROVE UNCHANGED SetOfCaches!psVars
    <3>1. /\ UNCHANGED <<nbP, entry, fresh>> /\ target = NoId /\ ~IsEmpty(round)
      BY <2>5 DEF TellFirst, DirectoryInv, RoundInv
    <3>2. /\ target' \in Held(round) /\ target' # NoId
          /\ Held(round)' = Held(round) \ {target'}
      BY <2>0, <2>1, <2>5, <3>1, TellNextKeepsInv DEF TellFirst, Held, NoId
    <3> QED BY <2>1, <3>1, <3>2
  <2>6. ASSUME Acknowledged PROVE target \in Ids /\ SetOfCaches!Acknowledge(target)
    <3>1. /\ UNCHANGED <<nbP, entry, fresh>> /\ target # NoId
          /\ target \notin Held(round) /\ target \in Ids
      BY <2>6 DEF Caches, Acknowledged, DirectoryInv, RoundInv, Held
    <3>2. CASE IsEmpty(round)
      BY <2>0, <2>1, <2>6, <3>1, <3>2, EmptyHoldsNone
         DEF Acknowledged, SetOfCaches!Acknowledge
    <3>3. CASE ~IsEmpty(round)
      <4>1. /\ target' \in Held(round) /\ target' # NoId
            /\ Held(round)' = Held(round) \ {target'}
        BY <2>0, <2>1, <2>6, <3>1, <3>3, TellNextKeepsInv DEF Acknowledged, Held, NoId
      <4> QED BY <2>1, <3>1, <4>1 DEF SetOfCaches!Acknowledge
    <3> QED BY <3>2, <3>3
  <2>7. CASE UNCHANGED dirVars
    BY <2>1, <2>7 DEF dirVars
  <2> QED BY <2>2, <2>3, <2>4, <2>5, <2>6, <2>7 DEF DirNext, InvRound, Caches
<1>3. DirSpec => [][SetOfCaches!PsNext]_(SetOfCaches!psVars)
  BY <1>2, DirectoryInvariant, PTL DEF DirSpec
<1> QED BY <1>1, <1>3, PTL DEF DirSpec, ActsAsSet, SetOfCaches!PsSpec
=============================================================================
