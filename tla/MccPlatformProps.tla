--------------------------- MODULE MccPlatformProps ---------------------------
(* What the caches with TLBs and their memory guarantee together. *)
EXTENDS MccPlatform, CcPlatformProps

(* A packet that wrote to another copy of p than its own is not over: the  *)
(* last cell starts the round.                                             *)
MccDoomed(p, b) ==
  \/ RoundAhead(p, b) \/ InvalidationTaken(p, b)
  \/ invCmd[p] # NoBlock /\ ~invCmd[p].tlb /\ invCmd[p].what = b
  \/ mode = "SIZED_WRITE" /\ p # cur.src

(* As StaleCopiesAreDoomed, with one invalidation round per write packet.  *)
MccStaleCopiesAreDoomed ==
  \A p \in Procs, a \in Addr :
    LET b == Block(a)
    IN HasCopy(p, b) /\ line[p][Slot(b)][Offset(a)] # mem[a] =>
         MccDoomed(p, b) \/ StorePending(p, a)

(* The home knows every cache that has, or is being given, a translation:  *)
(* the caches that it would have to tell if the page moved.                *)
TranslationsRecorded ==
  \A p \in Procs :
    /\ \A i \in Entries : LET e == tlb[p][i]
                          IN e.tag # NoPage => p \in ptDirectory[e.tag] /\ e.frame = e.tag
    /\ rs[p].fsm \in {"RSP_TLB_IMISS", "RSP_TLB_DMISS"} /\ rsp[p] # NoCell =>
         p \in ptDirectory[Page(MissedAddr(p))]

(* As ReadsFollowMemoryOrder: what a processor reads at an address never   *)
(* goes back, although a line may be written by several cells before its   *)
(* copies are told.                                                        *)
MccReadsFollowMemoryOrder ==
  [][\A p \in Procs, a \in Addr : seen'[p][a] >= seen[p][a]]_mccVars
=============================================================================
