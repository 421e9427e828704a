---------------------------- MODULE MccCacheProps ----------------------------
(* What the migration cache guarantees while pages move under its TLB. *)
EXTENDS MccCacheSystem

MccReqStates == SendStates \cup {"REQ_IDLE", "REQ_WRITE", "REQ_DWAIT", "REQ_IWAIT",
                                 "REQ_TLB_INVAL"}
MccRspStates == {"RSP_IDLE", "RSP_IMISS", "RSP_DMISS", "RSP_WRITE", "RSP_UNC",
                 "RSP_TLB_IMISS", "RSP_TLB_DMISS", "RSP_INVAL_SEND_ACK"}

(* The types of the registers that VciCcCache does not have. *)
MccTypeOK ==
  /\ tlb \in [Procs -> [Entries -> [tag : Migrable \cup {NoPage}, frame : Pages]]]
  /\ va \in [Procs -> [data : Addr, inst : Addr]]
  /\ ti \in [Procs -> [inv0 : Pages \cup {NoPage}, inv1 : Pages \cup {NoPage}]]
  /\ ta \in [Procs -> [page : Pages, retry : BOOLEAN]]
  /\ rq \in [Procs -> [fsm : MccReqStates, addr : Addr, data : Word, cpt : 0 .. BufferSize]]
  /\ rs[P].fsm \in MccRspStates /\ rs[P].cpt \in 0 .. LineWords
  /\ iv[P].fsm \in {"INV_IDLE", "INV_CMD", "INV_CMD_TLB", "INV_WAIT", "INV_RSP"}

-----------------------------------------------------------------------------
DataCommands == {"READ", "LOCKED_READ", "STORE_COND", "WRITE"}

(* check_virtual_access() of the memory, which its build leaves out: a     *)
(* frame that accepts requests is never addressed for another page than    *)
(* the one it holds, however late the request comes.                       *)
RightFrame ==
  cmd[P] # NoCell /\ cmd[P].cmd \in DataCommands /\ Page(cmd[P].addr) \notin poisoned =>
    cmd[P].page = holds[Page(cmd[P].addr)]

(* v is to be invalidated: the home has not sent it yet, it is on its way, *)
(* or in a buffer of INV_FSM.                                              *)
InvalidationDue(v) ==
  \/ v \in unsent
  \/ invCmd[P] # NoBlock /\ invCmd[P].tlb /\ invCmd[P].what = v
  \/ v \in {ti[P].inv0, ti[P].inv1}

(* A translation that the home has replaced, in the TLB or in the answer   *)
(* to a miss, has an invalidation on its way, and no page has two entries  *)
(* of which an invalidation would reset one.                               *)
StaleTranslationsAreDoomed ==
  /\ \A i \in Entries : LET e == tlb[P][i]
                        IN e.tag # NoPage =>
                             /\ e.frame = home[e.tag] \/ InvalidationDue(e.tag)
                             /\ \A j \in Entries : tlb[P][j].tag = e.tag => i = j
  /\ rs[P].fsm \in {"RSP_TLB_IMISS", "RSP_TLB_DMISS"} /\ rsp[P] # NoCell /\ ~rsp[P].error =>
       LET v == Page(MissedAddr(P))
       IN FrameOf(rsp[P].data) = home[v] \/ InvalidationDue(v)

(* The assert()s of transition(): no third TLB invalidation finds the two  *)
(* buffers full, REQ_TLB_INVAL finds one, every cell of a write packet is  *)
(* translated, the packet is as long as it says, an answer finds the state *)
(* that waits for it; and on_tlb_ack() awaits what is acknowledged.        *)
MccAssertionsHold ==
  /\ invCmd[P] # NoBlock /\ invCmd[P].tlb /\ iv[P].fsm = "INV_IDLE" =>
       ~(ti[P].inv0 # NoPage /\ ti[P].inv1 # NoPage)
  /\ rq[P].fsm = "REQ_TLB_INVAL" => IsTlbInv(P)
  /\ rq[P].fsm = "REQ_WRITE" =>
       /\ dm[P].size = FilledStatus(wb[P]) + rq[P].cpt + 1
       /\ LastCell(P) <=> ~Rok(wb[P])
       /\ ~LastCell(P) => TlbHit(tlb[P], FlushAddr(P))
  /\ Issues(P) /\ ~dm[P].req /\ dm[P].flush => Rok(wb[P])
  /\ ~(dm[P].req /\ dm[P].flush) /\ ~(MccGets(P) /\ Puts(P))
  /\ ~(rs[P].dOk /\ rs[P].dRetry) /\ ~(rs[P].iOk /\ rs[P].iRetry)
  /\ rsp[P] # NoCell => rs[P].fsm # "RSP_IDLE"
  /\ cmd[P] # NoCell /\ cmd[P].cmd = "TLB_INV_ACK" => Page(cmd[P].addr) \in awaited

-----------------------------------------------------------------------------
(* The word of the processor's stores at a, and where it is. *)
FrameThatHolds(v) == CHOOSE f \in Pages : holds[f] = v
Latest(a) ==
  LET inMemory == memory[PageBase(FrameThatHolds(Page(a))) + (a % PageWords)]
      inBuffer == {i \in DOMAIN wb[P].cells : wb[P].cells[i].addr = a}
  IN IF dm[P].pending /\ dm[P].addr = a THEN Merge(inMemory, dm[P].data, dm[P].wl)
     ELSE IF inBuffer # {} THEN wb[P].cells[CHOOSE i \in inBuffer : TRUE].data
     ELSE inMemory

Port == INSTANCE AtomicMemory WITH
          contents <- [a \in Addr |-> Latest(a)], request <- cpu[P], value <- got

(* Behind its port the processor sees a plain memory: no migration loses,  *)
(* repeats or reorders a store, or shows the words of another page.        *)
MccPortIsAtomicMemory == Port!AmSpec

(* Every request is answered although translations and pages go away under *)
(* it and some packets are refused.                                        *)
RequestsCompleted ==
  []<>(cpu[P] = NoReq) /\ []<>(fetch[P] = NoReq)

(* An exchange ends: the cache acknowledges the invalidations of its TLB   *)
(* whatever request it is busy with, even one that waits for a poisoned    *)
(* frame, and sends again the acknowledgements that are refused.           *)
ExchangesEnd == []<>(move = NoMove)
=============================================================================
