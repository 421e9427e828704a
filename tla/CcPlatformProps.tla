--------------------------- MODULE CcPlatformProps ---------------------------
(* What caches, directory and memory guarantee together. *)
EXTENDS CcPlatform

-----------------------------------------------------------------------------
(* The round about block b has still to reach p, or has reached its cache. *)
RoundAhead(p, b) ==
  \/ ramFsm = "RAM_DATA_INVAL" /\ sav.block = b /\ p \in OtherSharers(sav.src, b)
  \/ invBlock = b /\ p \in blockState
  \/ invBlock = b /\ ramInvFsm = "RAM_INV_REQ" /\ invTarget = p
InvalidationTaken(p, b) ==
  \/ iv[p].block = b /\ iv[p].req
  \/ iv[p].block = b /\ dc[p].fsm = "DCACHE_RAMINVAL"

(* p has been, is being or is going to be told to drop block b. *)
Doomed(p, b) == RoundAhead(p, b) \/ invCmd[p] = b \/ InvalidationTaken(p, b)

(* A store of p to a under way to memory, or whose answer is.              *)
StorePending(p, a) ==
  \/ dm[p].pending /\ \/ dm[p].addr = a
                      \/ \E i \in DOMAIN wb[p].cells : wb[p].cells[i].addr = a
  \/ dc[p].sc /\ dc[p].addr = a
     /\ \/ dc[p].fsm \in {"DCACHE_UNC_LL_SC_WAIT", "DCACHE_UNC_LL_SC_GO"}
        \/ dc[p].fsm = "DCACHE_RAMINVAL" /\ dc[p].prev = "DCACHE_UNC_LL_SC_WAIT"

(* A copy that differs from memory, other than by the stores its own       *)
(* processor has under way, is doomed: the tag set at the miss, the        *)
(* priority of the invalidations in DCACHE_FSM and the directory together  *)
(* never leave a stale line behind, although stores are acknowledged       *)
(* before the invalidations they cause.                                    *)
StaleCopiesAreDoomed ==
  \A p \in Procs, a \in Addr :
    LET b == Block(a)
    IN HasCopy(p, b) /\ line[p][Slot(b)][Offset(a)] # mem[a] =>
         Doomed(p, b) \/ StorePending(p, a)

(* The directory knows every copy that is not doomed. *)
DirectoryCovers ==
  \A p \in Procs, b \in Blocks : HasCopy(p, b) => p \in directory[b] \/ Doomed(p, b)

(* The assert()s of transition() of the cache: DCACHE_FSM never asks for a *)
(* miss and a flush at once, the write buffer holds what BURST_SIZE says   *)
(* all along the packet, a waiting state is never left without its RSP_OK. *)
CacheAssertionsHold ==
  \A p \in Procs :
    /\ ~(dm[p].req /\ dm[p].flush)
    /\ Puts(p) => Wok(wb[p]) /\ ~Gets(p)
    /\ Proceeds(p) /\ ~dm[p].pending => Wok(wb[p]) /\ ~Rok(wb[p])
    /\ StartsWrite(p) => Rok(wb[p])
    /\ rq[p].fsm = "REQ_WRITE" =>
         /\ dm[p].size = FilledStatus(wb[p]) + rq[p].cpt + 1
         /\ LastCell(p) <=> ~Rok(wb[p])
    /\ ~(rs[p].dOk /\ rs[p].dRetry) /\ ~(rs[p].iOk /\ rs[p].iRetry)
    /\ rsp[p] # NoCell =>
         /\ rs[p].fsm # "RSP_IDLE"
         /\ rs[p].fsm \in {"RSP_DMISS", "RSP_IMISS"} => rs[p].cpt < LineWords
         /\ rs[p].fsm \in {"RSP_WRITE", "RSP_UNC"} => rsp[p].eop

(* Coherence as a processor sees it: a load returns a value that memory    *)
(* had, never older than one that the same processor has already read, or  *)
(* written, at this address - cached, uncached, linked or from the buffer. *)
ReadsFollowMemoryOrder ==
  [][\A p \in Procs, a \in Addr : seen'[p][a] >= seen[p][a]]_vars

(* Every request of a processor is answered, whatever invalidations its    *)
(* cache receives meanwhile and whatever the other caches do.              *)
ProcessorsAnswered ==
  \A p \in Procs : /\ cpu[p] # NoReq ~> cpu[p] = NoReq
                   /\ fetch[p] # NoReq ~> fetch[p] = NoReq
=============================================================================
