-------------------------- MODULE VciCcCacheProofs --------------------------
(***************************************************************************)
(* Proofs about one clock cycle of a cache, whatever it is connected to.   *)
(*                                                                         *)
(* CacheInv(p) ties the five state machines of cache p together: which     *)
(* request REQ_FSM and RSP_FSM serve, what DCACHE_FSM waits for, and what  *)
(* the write buffer holds at each point of a write packet.  It is          *)
(* preserved by a cycle if the responses are those RSP_FSM expects, and    *)
(* that depends on the other end of the network.                           *)
(***************************************************************************)
EXTENDS VciCcCache, TLAPS

(* DCACHE_FSM waits for memory, an invalidation taken meanwhile included.  *)
Waiting(p) ==
  \/ dc[p].fsm \in WaitStates
  \/ dc[p].fsm = "DCACHE_RAMINVAL" /\ dc[p].prev \in WaitStates

DataCellStates == OneCellStates \ {"REQ_IMISS"}

(* The state in which RSP_FSM receives the answer to the data request.     *)
DataRspState(p) ==
  IF ~dm[p].req THEN "RSP_WRITE"
  ELSE IF dc[p].unc \/ dc[p].ll \/ dc[p].sc THEN "RSP_UNC" ELSE "RSP_DMISS"

(* The state in which REQ_FSM sends it.                                    *)
DataReqState(p) ==
  CASE dc[p].ll -> "REQ_LL" [] dc[p].sc -> "REQ_SC"
    [] OTHER -> IF dc[p].unc THEN "REQ_UNC" ELSE "REQ_DMISS"

(* DCACHE_FSM and what it asks memory for.                                 *)
RequestInv(p) ==
  /\ dm[p].req <=> Waiting(p)
  /\ dm[p].flush => dm[p].pending
  /\ dm[p].pending => ~dm[p].req
  /\ dc[p].fsm \in {"DCACHE_MISSUPDT", "DCACHE_UNC_LL_SC_GO"} => ~dm[p].pending
  /\ ic[p].req <=> ic[p].fsm = "ICACHE_WAIT"

(* REQ_FSM and RSP_FSM serve the same request, and the RSP_OK or RETRY_REQ *)
(* flag that ends it is up when REQ_FSM sees it.  REQ_FSM gives a refused  *)
(* line up at once, and waits for the rest of the cells in REQ_IDLE.       *)
ServiceInv(p) ==
  /\ rq[p].fsm = "REQ_IDLE" =>
       /\ ~rs[p].dOk /\ ~rs[p].iOk
       /\ \/ rs[p].fsm = "RSP_IDLE"
          \/ rs[p].fsm = "RSP_DMISS" /\ dm[p].req /\ DataRspState(p) = "RSP_DMISS" /\ rs[p].dRetry
          \/ rs[p].fsm = "RSP_IMISS" /\ ic[p].req /\ rs[p].iRetry
  /\ rq[p].fsm \in DataCellStates =>
       /\ dm[p].req /\ rq[p].fsm = DataReqState(p)
       /\ rq[p].addr = dc[p].addr /\ (dc[p].sc => rq[p].data = dc[p].data)
  /\ rq[p].fsm = "REQ_WRITE" => dm[p].flush
  /\ rq[p].fsm \in DataCellStates \cup {"REQ_WRITE", "REQ_DWAIT"} =>
       ~rs[p].iOk /\ ~rs[p].iRetry
  /\ rq[p].fsm \in {"REQ_IMISS", "REQ_IWAIT"} =>
       ic[p].req /\ ~rs[p].dOk /\ ~rs[p].dRetry
  /\ rq[p].fsm \in DataCellStates \cup {"REQ_WRITE"} =>
       rs[p].fsm = DataRspState(p) /\ rs[p].cpt = 0 /\ ~rs[p].dOk /\ ~rs[p].dRetry
  /\ rq[p].fsm = "REQ_IMISS" =>
       rs[p].fsm = "RSP_IMISS" /\ rs[p].cpt = 0 /\ ~rs[p].iOk /\ ~rs[p].iRetry
  /\ rq[p].fsm = "REQ_DWAIT" =>
       /\ dm[p].req \/ dm[p].flush
       /\ \/ /\ rs[p].fsm = DataRspState(p) /\ ~rs[p].dOk
             /\ rs[p].fsm # "RSP_DMISS" => ~rs[p].dRetry
          \/ rs[p].fsm = "RSP_IDLE" /\ (rs[p].dOk <=> ~rs[p].dRetry)
  /\ rq[p].fsm = "REQ_IWAIT" =>
       \/ rs[p].fsm = "RSP_IMISS" /\ ~rs[p].iOk
       \/ rs[p].fsm = "RSP_IDLE" /\ (rs[p].iOk <=> ~rs[p].iRetry)

(* The write buffer: filled behind the FIFO_INPUT cell, read by the packet *)
(* that carries it, rewound by a refusal and emptied by the acceptance.    *)
BufferInv(p) ==
  /\ ~dm[p].pending => wb[p] = EmptyBuffer
  /\ dm[p].pending /\ ~dm[p].flush => wb[p].ptr = 0 /\ Len(wb[p].cells) < BufferSize
  /\ dm[p].flush /\ rs[p].dOk => wb[p] = EmptyBuffer
  /\ dm[p].flush /\ ~rs[p].dOk =>
       /\ dm[p].size = Len(wb[p].cells) /\ dm[p].size > 0
       /\ rq[p].fsm = "REQ_DWAIT" => wb[p].ptr = IF rs[p].fsm = "RSP_IDLE" THEN 0 ELSE dm[p].size
       /\ rq[p].fsm \notin {"REQ_WRITE", "REQ_DWAIT"} => wb[p].ptr = 0
  /\ rq[p].fsm = "REQ_WRITE" =>
       /\ wb[p].ptr = rq[p].cpt + 1 /\ rq[p].cpt < dm[p].size
       /\ rq[p].addr = wb[p].cells[wb[p].ptr].addr
       /\ rq[p].data = wb[p].cells[wb[p].ptr].data

(* The stores of a burst are contiguous, the FIFO_INPUT cell is the last.  *)
ContiguousInv(p) ==
  dm[p].pending => \A j \in 1 .. Len(wb[p].cells) :
    wb[p].cells[j].addr = dm[p].addr - Len(wb[p].cells) + j - (IF dm[p].flush THEN 0 ELSE 1)

(* An invalidation that INV_FSM is about to save has not left the network. *)
InvalInv(p) ==
  /\ iv[p].fsm = "INV_CMD" => invCmd[p] # NoBlock
  /\ dc[p].prev \in WaitStates \cup {"DCACHE_IDLE"}

CacheInv(p) ==
  RequestInv(p) /\ ServiceInv(p) /\ BufferInv(p) /\ ContiguousInv(p) /\ InvalInv(p)

(* What ICACHE_FSM and DCACHE_FSM rely on, which VciMccCache has as well:  *)
(* the types of their registers, that a RSP_OK flag is up only in the      *)
(* cycle that ends the request, and that what is not posted fits.          *)
DataRegsOK ==
  /\ cpu \in [Procs -> DataReq \cup {NoReq}]
  /\ fetch \in [Procs -> Addr \cup {NoReq}]
  /\ dc \in [Procs -> DcRegs]
  /\ tag \in [Procs -> [Slots -> Blocks \cup {NoBlock}]]
  /\ line \in [Procs -> [Slots -> [Offsets -> Word]]]
  /\ dm \in [Procs -> DmRegs]
  /\ wb \in [Procs -> WbRegs]
  /\ \A p \in Procs : wb[p].ptr <= Len(wb[p].cells) /\ Len(wb[p].cells) <= BufferSize
  /\ ic \in [Procs -> IcRegs]
  /\ itag \in [Procs -> [Slots -> Blocks \cup {NoBlock}]]

DoneInv(p) ==
  /\ rs[p].dOk <=> DataDone(p)
  /\ rs[p].iOk <=> InstDone(p)
  /\ DataDone(p) => dm[p].req \/ dm[p].flush
  /\ InstDone(p) => ic[p].req

PrevInv(p) == dc[p].prev \in WaitStates \cup {"DCACHE_IDLE"}

CellsFit(p) ==
  dm[p].pending /\ ~dm[p].flush => wb[p].ptr = 0 /\ Len(wb[p].cells) < BufferSize

(* What RSP_FSM expects of the network. *)
ResponseOK(p) ==
  rsp[p] # NoCell =>
    /\ rq[p].fsm \in {"REQ_IDLE", "REQ_DWAIT", "REQ_IWAIT"} /\ rs[p].fsm # "RSP_IDLE"
    /\ rs[p].fsm \in {"RSP_DMISS", "RSP_IMISS"} =>
         rs[p].cpt < LineWords /\ (rsp[p].eop <=> rs[p].cpt = LineWords - 1)
    /\ rs[p].fsm \in {"RSP_WRITE", "RSP_UNC"} => rsp[p].eop

-----------------------------------------------------------------------------
(* The registers of one cache. *)

LEMMA AnyRegTypes ==
  ASSUME DataRegsOK, NEW p \in Procs
  PROVE  /\ cpu[p] \in DataReq \cup {NoReq} /\ fetch[p] \in Addr \cup {NoReq}
         /\ dc[p] \in DcRegs /\ dm[p] \in DmRegs /\ wb[p] \in WbRegs /\ ic[p] \in IcRegs
         /\ wb[p].ptr <= Len(wb[p].cells) /\ Len(wb[p].cells) <= BufferSize
BY DEF DataRegsOK

LEMMA RegTypes ==
  ASSUME CacheTypeOK, NEW p \in Procs
  PROVE  /\ cpu[p] \in DataReq \cup {NoReq} /\ fetch[p] \in Addr \cup {NoReq}
         /\ dc[p] \in DcRegs /\ dm[p] \in DmRegs /\ wb[p] \in WbRegs
         /\ ic[p] \in IcRegs /\ rq[p] \in RqRegs /\ rs[p] \in RsRegs /\ iv[p] \in IvRegs
         /\ wb[p].ptr <= Len(wb[p].cells) /\ Len(wb[p].cells) <= BufferSize
BY DEF CacheTypeOK

LEMMA SizeFacts == BufferSize \in Nat \ {0} /\ LineWords \in Nat \ {0}
BY LineWordsAssumption DEF BufferSize

(* A flag is up only in the cycle that ends the request.                   *)
LEMMA OkIsDone ==
  ASSUME CacheTypeOK, NEW p \in Procs, ServiceInv(p)
  PROVE  /\ rs[p].dOk <=> DataDone(p)
         /\ rs[p].iOk <=> InstDone(p)
         /\ DataDone(p) => dm[p].req \/ dm[p].flush
<1>1. rq[p].fsm \in ReqStates
  BY RegTypes DEF RqRegs
<1> QED BY <1>1 DEF ServiceInv, DataDone, InstDone, ReqStates, DataCellStates, OneCellStates

(* This cache has what its ICACHE_FSM and DCACHE_FSM rely on.              *)
LEMMA DataPart == CacheTypeOK => DataRegsOK
BY DEF CacheTypeOK, DataRegsOK

LEMMA DonePart ==
  ASSUME CacheTypeOK, NEW p \in Procs, ServiceInv(p)
  PROVE  DoneInv(p)
BY OkIsDone DEF DoneInv, InstDone, ServiceInv

-----------------------------------------------------------------------------
(* DCACHE_FSM: what a cycle does to the requests it makes.                 *)
(* A lemma Any... is about either cache, the one after it about this one.  *)

DmAfter(p, d) ==
  dm'[p] = IF DataDone(p) THEN [d EXCEPT !.req = FALSE, !.flush = FALSE, !.pending = FALSE] ELSE d

KeepsRequest(p) ==
  /\ DmAfter(p, dm[p]) /\ ~Puts(p)
  /\ Waiting(p)' <=> Waiting(p) /\ ~DataDone(p)
  /\ Waiting(p)' => /\ dc'[p].addr = dc[p].addr /\ dc'[p].data = dc[p].data
                    /\ dc'[p].be = dc[p].be /\ dc'[p].unc = dc[p].unc
                    /\ dc'[p].ll = dc[p].ll /\ dc'[p].sc = dc[p].sc
  /\ dc'[p].fsm \in {"DCACHE_MISSUPDT", "DCACHE_UNC_LL_SC_GO"} => Waiting(p)

StartsRequest(p) ==
  /\ ~dm[p].pending /\ ~dm[p].req /\ ~DataDone(p) /\ ~Puts(p)
  /\ dm'[p] = [dm[p] EXCEPT !.req = TRUE]
  /\ Waiting(p)'

StartsStores(p) ==
  /\ ~dm[p].pending /\ ~dm[p].req /\ ~DataDone(p) /\ ~Puts(p)
  /\ dm'[p] = [dm[p] EXCEPT !.pending = TRUE, !.first = TRUE, !.addr = cpu[p].addr,
                            !.data = cpu[p].data, !.wf = cpu[p].be, !.wl = cpu[p].be]
  /\ dc'[p].fsm \in {"DCACHE_IDLE", "DCACHE_WUPDT"}

MergesStore(p) ==
  /\ dm[p].pending /\ ~dm[p].flush /\ ~DataDone(p) /\ ~Puts(p)
  /\ Merges(p)
  /\ dm'[p] = [dm[p] EXCEPT !.data = Merge(@, cpu[p].data, cpu[p].be),
                            !.wl = @ \cup cpu[p].be,
                            !.wf = IF dm[p].first THEN @ \cup cpu[p].be ELSE @]
  /\ dc'[p].fsm \in {"DCACHE_IDLE", "DCACHE_WUPDT"}

AddsStore(p) ==
  /\ dm[p].pending /\ ~dm[p].flush /\ ~DataDone(p) /\ Puts(p)
  /\ Continues(p)
  /\ dm'[p] = [dm[p] EXCEPT !.first = FALSE, !.addr = cpu[p].addr,
                            !.data = cpu[p].data, !.wl = cpu[p].be]
  /\ dc'[p].fsm \in {"DCACHE_IDLE", "DCACHE_WUPDT"}

FlushesStores(p) ==
  /\ dm[p].pending /\ ~dm[p].flush /\ ~DataDone(p) /\ Puts(p)
  /\ dm'[p] = [dm[p] EXCEPT !.first = FALSE, !.flush = TRUE, !.size = BurstSize(p)]
  /\ dc'[p].fsm = "DCACHE_IDLE"

(* What the auxiliary writes leave in the registers of p.                  *)
LEMMA AnySetDmAt ==
  ASSUME DataRegsOK, NEW p \in Procs, NEW d, SetDm(p, d)
  PROVE  DmAfter(p, d) /\ \A o \in Procs \ {p} : dm'[o] = dm[o]
BY DEF DataRegsOK, SetDm, DmAfter

(* The same of this cache. *)
LEMMA SetDmAt ==
  ASSUME CacheTypeOK, NEW p \in Procs, NEW d, SetDm(p, d)
  PROVE  DmAfter(p, d) /\ \A o \in Procs \ {p} : dm'[o] = dm[o]
BY AnySetDmAt, DataPart

LEMMA AnyDcAt ==
  ASSUME DataRegsOK, NEW p \in Procs, NEW s, GoTo(p, s)
  PROVE  dc'[p] = [dc[p] EXCEPT !.fsm = s]
BY DEF DataRegsOK, GoTo

(* The same of this cache. *)
LEMMA DcAt ==
  ASSUME CacheTypeOK, NEW p \in Procs, NEW s, GoTo(p, s)
  PROVE  dc'[p] = [dc[p] EXCEPT !.fsm = s]
BY AnyDcAt, DataPart

LEMMA AnyGoToAt ==
  ASSUME DataRegsOK, NEW p \in Procs, NEW s, GoTo(p, s)
  PROVE  dc'[p].fsm = s
<1>1. dc'[p] = [dc[p] EXCEPT !.fsm = s]
  BY AnyDcAt
<1>2. dc[p] \in DcRegs
  BY AnyRegTypes
<1> HIDE DEF DataRegsOK, GoTo
<1> QED BY <1>1, <1>2 DEF DcRegs

(* The same of this cache. *)
LEMMA GoToAt ==
  ASSUME CacheTypeOK, NEW p \in Procs, NEW s, GoTo(p, s)
  PROVE  dc'[p].fsm = s
BY AnyGoToAt, DataPart

LEMMA AnySavedAt ==
  ASSUME DataRegsOK, NEW p \in Procs, NEW s, SaveAndGoTo(p, s)
  PROVE  dc'[p].fsm = s /\ dc'[p].prev = dc[p].prev
BY DEF DataRegsOK, SaveAndGoTo

(* The same of this cache. *)
LEMMA SavedAt ==
  ASSUME CacheTypeOK, NEW p \in Procs, NEW s, SaveAndGoTo(p, s)
  PROVE  dc'[p].fsm = s /\ dc'[p].prev = dc[p].prev
BY AnySavedAt, DataPart

(* The three ways to accept a store.                                       *)
TakesStore(p) == DcFirstStore(p) \/ DcMerge(p) \/ DcBurst(p)

(* The only things DCACHE_FSM does to the request that it has posted.      *)
LEMMA AnyAcceptEffect ==
  ASSUME DataRegsOK, NEW p \in Procs, RequestInv(p), DoneInv(p), TakesStore(p)
  PROVE  StartsStores(p) \/ MergesStore(p) \/ AddsStore(p)
<1>1. ~(dm[p].req \/ dm[p].flush) => ~DataDone(p)
  BY DEF DoneInv
<1>2. dc[p].fsm = "DCACHE_IDLE" => ~Waiting(p) /\ ~dm[p].req
  BY DEF Waiting, WaitStates, RequestInv
<1>3. CASE DcBurst(p)
  <2> DEFINE d == [dm[p] EXCEPT !.first = FALSE, !.addr = cpu[p].addr,
                                !.data = cpu[p].data, !.wl = cpu[p].be]
  <2>1. Gathers(p) /\ Continues(p) /\ AcceptStore(p) /\ SetDm(p, d)
    BY <1>3 DEF DcBurst
  <2>2. DmAfter(p, d) /\ Puts(p) /\ dc'[p].fsm \in {"DCACHE_IDLE", "DCACHE_WUPDT"}
    <3>1. ~Merges(p)
      BY <2>1 DEF Continues, Merges
    <3>2. DmAfter(p, d)
      <4> HIDE DEF d
      <4> QED BY <2>1, AnySetDmAt
    <3> QED BY <2>1, <3>1, <3>2, AnySavedAt DEF Puts, AcceptStore
  <2>3. dm[p].pending /\ ~dm[p].flush /\ ~dm[p].req /\ ~DataDone(p)
    BY <1>1, <1>2, <2>1 DEF Gathers, Proceeds
  <2> QED BY <2>1, <2>2, <2>3 DEF AddsStore, DmAfter
<1>4. CASE DcMerge(p)
  <2> DEFINE d == [dm[p] EXCEPT !.data = Merge(@, cpu[p].data, cpu[p].be),
                                !.wl = @ \cup cpu[p].be,
                                !.wf = IF dm[p].first THEN @ \cup cpu[p].be ELSE @]
  <2>1. Gathers(p) /\ Merges(p) /\ AcceptStore(p) /\ SetDm(p, d)
    BY <1>4 DEF DcMerge
  <2>2. DmAfter(p, d) /\ ~Puts(p) /\ dc'[p].fsm \in {"DCACHE_IDLE", "DCACHE_WUPDT"}
    <3>1. DmAfter(p, d)
      <4> HIDE DEF d
      <4> QED BY <2>1, AnySetDmAt
    <3> QED BY <2>1, <3>1, AnySavedAt DEF Puts, AcceptStore
  <2>3. dm[p].pending /\ ~dm[p].flush /\ ~dm[p].req /\ ~DataDone(p)
    BY <1>1, <1>2, <2>1 DEF Gathers, Proceeds
  <2> QED BY <2>1, <2>2, <2>3 DEF MergesStore, DmAfter
<1>5. CASE DcFirstStore(p)
  <2> DEFINE d == [dm[p] EXCEPT !.pending = TRUE, !.first = TRUE, !.addr = cpu[p].addr,
                                !.data = cpu[p].data, !.wf = cpu[p].be, !.wl = cpu[p].be]
  <2>1. Proceeds(p) /\ ~dm[p].pending /\ AcceptStore(p) /\ SetDm(p, d)
    BY <1>5 DEF DcFirstStore
  <2>2. DmAfter(p, d) /\ ~Puts(p) /\ dc'[p].fsm \in {"DCACHE_IDLE", "DCACHE_WUPDT"}
    <3>1. DmAfter(p, d)
      <4> HIDE DEF d
      <4> QED BY <2>1, AnySetDmAt
    <3> QED BY <2>1, <3>1, AnySavedAt DEF Puts, Gathers, AcceptStore
  <2>3. ~dm[p].flush /\ ~dm[p].req /\ ~DataDone(p)
    BY <1>1, <1>2, <2>1 DEF Proceeds, RequestInv
  <2> QED BY <2>1, <2>2, <2>3 DEF StartsStores, DmAfter
<1> QED BY <1>3, <1>4, <1>5 DEF TakesStore

(* The same of this cache. *)
LEMMA AcceptEffect ==
  ASSUME CacheTypeOK, NEW p \in Procs, RequestInv(p), ServiceInv(p), TakesStore(p)
  PROVE  StartsStores(p) \/ MergesStore(p) \/ AddsStore(p)
BY AnyAcceptEffect, DataPart, DonePart

LEMMA AnyRestEffect ==
  ASSUME DataRegsOK, NEW p \in Procs, RequestInv(p), DoneInv(p), PrevInv(p),
         DCacheFsm(p), ~TakesStore(p)
  PROVE  KeepsRequest(p) \/ StartsRequest(p) \/ FlushesStores(p)
<1>1. dc[p] \in DcRegs /\ dm[p] \in DmRegs
  BY AnyRegTypes
<1>2. ~(dm[p].req \/ dm[p].flush) => ~DataDone(p)
  BY DEF DoneInv
<1>3. dc[p].fsm = "DCACHE_IDLE" => ~Waiting(p) /\ ~dm[p].req
  BY DEF Waiting, WaitStates, RequestInv
<1>4. CASE DcTakeInval(p)
  <2>1. /\ dc'[p] = [dc[p] EXCEPT !.fsm = "DCACHE_RAMINVAL", !.prev = dc[p].fsm]
        /\ DmAfter(p, dm[p])
    BY <1>4, AnySetDmAt DEF DcTakeInval, KeepDm, DataRegsOK
  <2>2. dc'[p].fsm = "DCACHE_RAMINVAL" /\ dc'[p].prev = dc[p].fsm
        /\ dc'[p].addr = dc[p].addr /\ dc'[p].data = dc[p].data /\ dc'[p].be = dc[p].be
        /\ dc'[p].unc = dc[p].unc /\ dc'[p].ll = dc[p].ll /\ dc'[p].sc = dc[p].sc
    BY <1>1, <2>1 DEF DcRegs
  <2>3. ~Puts(p)
    BY <1>4 DEF DcTakeInval, TakesInval, Puts, Gathers, Proceeds
  <2>4. dc[p].fsm \in WaitStates => ~DataDone(p)
    BY <1>4 DEF DoneInv, DcTakeInval, TakesInval, WaitStates
  <2>5. Waiting(p)' <=> Waiting(p) /\ ~DataDone(p)
    BY <1>4, <2>2, <2>4 DEF DcTakeInval, TakesInval, Waiting, WaitStates
  <2> QED BY <2>1, <2>2, <2>3, <2>5 DEF KeepsRequest
<1>5. CASE DcNoRequest(p)
  <2>1. DmAfter(p, dm[p]) /\ dc' = dc
    BY <1>5, AnySetDmAt DEF DcNoRequest, KeepDm
  <2>2. ~Puts(p) /\ dc[p].fsm = "DCACHE_IDLE"
    BY <1>5 DEF DcNoRequest, Puts, Gathers, Proceeds
  <2>3. ~Waiting(p) /\ ~Waiting(p)'
    BY <2>1, <2>2 DEF Waiting, WaitStates
  <2> QED BY <2>1, <2>2, <2>3 DEF KeepsRequest
<1>6. CASE DcFlush(p)
  <2> DEFINE d == [dm[p] EXCEPT !.first = FALSE, !.flush = TRUE, !.size = BurstSize(p)]
  <2>1. /\ Gathers(p) /\ ~Continues(p) /\ ~Merges(p)
        /\ SaveAndGoTo(p, "DCACHE_IDLE") /\ SetDm(p, d)
    BY <1>6 DEF DcFlush
  <2>2. DmAfter(p, d) /\ Puts(p) /\ dc'[p].fsm = "DCACHE_IDLE"
    <3>1. DmAfter(p, d)
      <4> HIDE DEF d
      <4> QED BY <2>1, AnySetDmAt
    <3> QED BY <2>1, <3>1, AnySavedAt DEF Puts
  <2>3. dm[p].pending /\ ~dm[p].flush /\ ~dm[p].req /\ ~DataDone(p)
    BY <1>2, <1>3, <2>1 DEF Gathers, Proceeds
  <2> QED BY <2>1, <2>2, <2>3 DEF FlushesStores, DmAfter
<1>7. CASE DcStall(p)
  <2>1. DmAfter(p, dm[p]) /\ dc'[p].fsm = "DCACHE_IDLE" /\ dc[p].fsm = "DCACHE_IDLE"
    BY <1>7, AnySetDmAt, AnySavedAt DEF DcStall, KeepDm, Proceeds
  <2>2. ~Puts(p)
    BY <1>7 DEF DcStall, Puts, Gathers
  <2>3. ~Waiting(p) /\ ~Waiting(p)'
    BY <2>1 DEF Waiting, WaitStates
  <2> QED BY <2>1, <2>2, <2>3 DEF KeepsRequest
<1>8. CASE DcLoadMiss(p) \/ DcUncached(p)
  <2> DEFINE d == [dm[p] EXCEPT !.req = TRUE]
  <2>1. /\ Proceeds(p) /\ ~dm[p].pending /\ SetDm(p, d)
        /\ SaveAndGoTo(p, "DCACHE_MISSWAIT") \/ SaveAndGoTo(p, "DCACHE_UNC_LL_SC_WAIT")
    BY <1>8 DEF DcLoadMiss, CachedLoad, DcUncached
  <2>2. DmAfter(p, d) /\ ~Puts(p) /\ dc'[p].fsm \in WaitStates
    <3>1. DmAfter(p, d)
      <4> HIDE DEF d
      <4> QED BY <2>1, AnySetDmAt
    <3> QED BY <2>1, <3>1, AnySavedAt DEF Puts, Gathers, WaitStates
  <2>3. ~dm[p].flush /\ ~dm[p].req /\ ~DataDone(p)
    BY <1>2, <1>3, <2>1 DEF Proceeds, RequestInv
  <2> QED BY <2>1, <2>2, <2>3 DEF StartsRequest, DmAfter, Waiting
<1>9. CASE DcLoadHit(p) \/ DcSync(p) \/ DcXtnInval(p)
  <2>1. /\ Proceeds(p) /\ ~dm[p].pending /\ KeepDm(p)
        /\ SaveAndGoTo(p, "DCACHE_IDLE") \/ SaveAndGoTo(p, "DCACHE_CPUINVAL")
    BY <1>9 DEF DcLoadHit, CachedLoad, DcSync, DcXtnInval
  <2>2. /\ DmAfter(p, dm[p]) /\ ~Puts(p) /\ dc[p].fsm = "DCACHE_IDLE"
        /\ dc'[p].fsm \in {"DCACHE_IDLE", "DCACHE_CPUINVAL"}
    BY <2>1, AnySetDmAt, AnySavedAt DEF KeepDm, Puts, Gathers, Proceeds
  <2>3. ~Waiting(p) /\ ~Waiting(p)'
    BY <2>2 DEF Waiting, WaitStates
  <2> QED BY <2>2, <2>3 DEF KeepsRequest
<1>10. CASE \/ DcWriteUpdate(p) \/ DcMissUpdate(p) \/ DcUncachedGo(p) \/ DcCpuInval(p)
  <2>1. KeepDm(p) /\ GoTo(p, "DCACHE_IDLE") /\ ~(dc[p].fsm \in WaitStates)
        /\ dc[p].fsm \notin {"DCACHE_IDLE", "DCACHE_RAMINVAL"}
    BY <1>10 DEF DcWriteUpdate, DcMissUpdate, DcUncachedGo, DcCpuInval, WaitStates
  <2>2. DmAfter(p, dm[p]) /\ ~Puts(p) /\ dc'[p].fsm = "DCACHE_IDLE"
    BY <2>1, AnySetDmAt, AnyGoToAt DEF KeepDm, Puts, Gathers, Proceeds
  <2>3. ~Waiting(p) /\ ~Waiting(p)'
    BY <2>1, <2>2 DEF Waiting, WaitStates
  <2> QED BY <2>2, <2>3 DEF KeepsRequest
<1>11. CASE DcWait(p)
  <2>1. /\ DmAfter(p, dm[p]) /\ ~Puts(p) /\ dc[p].fsm \in WaitStates
        /\ IF ~rs[p].dOk THEN dc' = dc
           ELSE GoTo(p, "DCACHE_MISSUPDT") \/ GoTo(p, "DCACHE_UNC_LL_SC_GO")
    BY <1>11, AnySetDmAt DEF DcWait, KeepDm, Puts, Gathers, Proceeds, WaitStates
  <2>2. Waiting(p)
    BY <2>1 DEF Waiting
  <2>3. CASE ~rs[p].dOk
    <3>1. Waiting(p)' /\ ~DataDone(p) /\ dc'[p].fsm \in WaitStates
      BY <2>1, <2>3 DEF DoneInv, Waiting
    <3> QED BY <2>1, <2>2, <2>3, <3>1 DEF KeepsRequest
  <2>4. CASE rs[p].dOk
    <3>1. dc'[p].fsm \in {"DCACHE_MISSUPDT", "DCACHE_UNC_LL_SC_GO"} /\ DataDone(p)
      BY <2>1, <2>4, AnyGoToAt DEF DoneInv
    <3>2. ~Waiting(p)'
      BY <3>1 DEF Waiting, WaitStates
    <3> QED BY <2>1, <2>2, <3>1, <3>2 DEF KeepsRequest
  <2> QED BY <2>3, <2>4
<1>12. CASE DcRamInval(p)
  <2>1. /\ DmAfter(p, dm[p]) /\ ~Puts(p) /\ dc[p].fsm = "DCACHE_RAMINVAL"
        /\ dc'[p] = [dc[p] EXCEPT !.fsm = AfterInval(p)]
    BY <1>12, AnySetDmAt, AnyDcAt DEF DcRamInval, KeepDm, Puts, Gathers, Proceeds
  <2>2. /\ dc'[p].fsm = AfterInval(p) /\ dc'[p].prev = dc[p].prev
        /\ dc'[p].addr = dc[p].addr /\ dc'[p].data = dc[p].data /\ dc'[p].be = dc[p].be
        /\ dc'[p].unc = dc[p].unc /\ dc'[p].ll = dc[p].ll /\ dc'[p].sc = dc[p].sc
    BY <1>1, <2>1 DEF DcRegs
  <2>3. Waiting(p)' <=> Waiting(p) /\ ~DataDone(p)
    BY <2>1, <2>2 DEF DoneInv, Waiting, AfterInval, WaitStates, PrevInv
  <2>4. dc'[p].fsm \in {"DCACHE_MISSUPDT", "DCACHE_UNC_LL_SC_GO"} => Waiting(p)
    BY <2>1, <2>2 DEF Waiting, AfterInval, WaitStates, PrevInv
  <2> QED BY <2>1, <2>2, <2>3, <2>4 DEF KeepsRequest
<1> QED BY <1>4, <1>5, <1>6, <1>7, <1>8, <1>9, <1>10, <1>11, <1>12 DEF DCacheFsm, TakesStore

(* The same of this cache. *)
LEMMA RestEffect ==
  ASSUME CacheTypeOK, NEW p \in Procs, RequestInv(p), ServiceInv(p), InvalInv(p),
         DCacheFsm(p), ~TakesStore(p)
  PROVE  KeepsRequest(p) \/ StartsRequest(p) \/ FlushesStores(p)
BY AnyRestEffect, DataPart, DonePart DEF InvalInv, PrevInv

LEMMA AnyDcEffect ==
  ASSUME DataRegsOK, NEW p \in Procs, RequestInv(p), DoneInv(p), PrevInv(p), DCacheFsm(p)
  PROVE  \/ KeepsRequest(p) \/ StartsRequest(p) \/ StartsStores(p)
         \/ MergesStore(p) \/ AddsStore(p) \/ FlushesStores(p)
BY AnyAcceptEffect, AnyRestEffect

(* The same of this cache. *)
LEMMA DcEffect ==
  ASSUME CacheTypeOK, NEW p \in Procs, RequestInv(p), ServiceInv(p), InvalInv(p), DCacheFsm(p)
  PROVE  \/ KeepsRequest(p) \/ StartsRequest(p) \/ StartsStores(p)
         \/ MergesStore(p) \/ AddsStore(p) \/ FlushesStores(p)
BY AnyDcEffect, DataPart, DonePart DEF InvalInv, PrevInv

-----------------------------------------------------------------------------
(* VCI_REQ_FSM: what a cycle does to the request that is served. *)

ReqKeeps(p) ==
  /\ rq'[p] = rq[p] /\ cmd' = cmd
  /\ rq[p].fsm = "REQ_IDLE" => rs[p].fsm # "RSP_IDLE"
  /\ rq[p].fsm = "REQ_DWAIT" => ~rs[p].dOk /\ ~rs[p].dRetry
  /\ rq[p].fsm = "REQ_IWAIT" => ~rs[p].iOk /\ ~rs[p].iRetry
  /\ rq[p].fsm \notin {"REQ_IDLE", "REQ_DWAIT", "REQ_IWAIT"} => cmd[p] # NoCell

BothIdle(p) == rq[p].fsm = "REQ_IDLE" /\ rs[p].fsm = "RSP_IDLE"

ReqStartsData(p) ==
  /\ BothIdle(p) /\ dm[p].req /\ cmd' = cmd
  /\ rq'[p].fsm = DataReqState(p) /\ rq'[p].addr = dc[p].addr /\ rq'[p].cpt = 0
  /\ dc[p].sc => rq'[p].data = dc[p].data

ReqStartsWrite(p) ==
  /\ StartsWrite(p) /\ cmd' = cmd
  /\ rq'[p].fsm = "REQ_WRITE" /\ rq'[p].cpt = 0
  /\ rq'[p].addr = ReadCell(wb[p]).addr /\ rq'[p].data = ReadCell(wb[p]).data

ReqStartsInst(p) ==
  /\ BothIdle(p) /\ ~dm[p].req /\ ~dm[p].flush /\ cmd' = cmd
  /\ rq'[p].fsm = IF ic[p].req THEN "REQ_IMISS" ELSE "REQ_IDLE"
  /\ rq'[p].addr = rq[p].addr /\ rq'[p].data = rq[p].data /\ rq'[p].cpt = 0

ReqSendsOneCell(p) ==
  /\ rq[p].fsm \in OneCellStates /\ cmd[p] = NoCell
  /\ cmd' = [cmd EXCEPT ![p] = CommandCell(p)]
  /\ rq'[p].fsm = IF rq[p].fsm = "REQ_IMISS" THEN "REQ_IWAIT" ELSE "REQ_DWAIT"
  /\ rq'[p].addr = rq[p].addr /\ rq'[p].data = rq[p].data /\ rq'[p].cpt = rq[p].cpt

ReqSendsStore(p) ==
  /\ rq[p].fsm = "REQ_WRITE" /\ cmd[p] = NoCell
  /\ cmd' = [cmd EXCEPT ![p] = CommandCell(p)]
  /\ rq'[p].fsm = IF LastCell(p) THEN "REQ_DWAIT" ELSE "REQ_WRITE"
  /\ rq'[p].cpt = rq[p].cpt + 1
  /\ rq'[p].addr = IF LastCell(p) THEN rq[p].addr ELSE ReadCell(wb[p]).addr
  /\ rq'[p].data = IF LastCell(p) THEN rq[p].data ELSE ReadCell(wb[p]).data

ReqEnds(p) ==
  /\ \/ rq[p].fsm = "REQ_DWAIT" /\ (rs[p].dOk \/ rs[p].dRetry)
     \/ rq[p].fsm = "REQ_IWAIT" /\ (rs[p].iOk \/ rs[p].iRetry)
  /\ cmd' = cmd
  /\ rq'[p].fsm = "REQ_IDLE"
  /\ rq'[p].addr = rq[p].addr /\ rq'[p].data = rq[p].data /\ rq'[p].cpt = rq[p].cpt

(* The only things REQ_FSM does.                                           *)
LEMMA ReqEffect ==
  ASSUME CacheTypeOK, NEW p \in Procs, ReqFsm(p)
  PROVE  \/ ReqKeeps(p) \/ ReqStartsData(p) \/ ReqStartsWrite(p) \/ ReqStartsInst(p)
         \/ ReqSendsOneCell(p) \/ ReqSendsStore(p) \/ ReqEnds(p)
<1>1. rq \in [Procs -> RqRegs] /\ rq[p] \in RqRegs
  BY RegTypes DEF CacheTypeOK
<1>2. rq[p].fsm \in ReqStates
  BY <1>1 DEF RqRegs
<1>3. CASE ReqIdle(p)
  <2>1. CASE rs[p].fsm # "RSP_IDLE"
    BY <1>1, <1>3, <2>1 DEF ReqIdle, ReqKeeps
  <2>2. CASE rs[p].fsm = "RSP_IDLE" /\ dm[p].req
    <3> DEFINE r == [fsm |-> DataReqState(p), addr |-> dc[p].addr,
                     data |-> IF dc[p].sc THEN dc[p].data ELSE rq[p].data, cpt |-> 0]
    <3>1. rq' = [rq EXCEPT ![p] = r] /\ cmd' = cmd
      BY <1>3, <2>2 DEF ReqIdle, DataReqState
    <3>2. rq'[p] = r
      <4> HIDE DEF r
      <4> QED BY <1>1, <3>1
    <3> QED BY <1>3, <2>2, <3>1, <3>2 DEF ReqStartsData, BothIdle, ReqIdle
  <2>3. CASE rs[p].fsm = "RSP_IDLE" /\ ~dm[p].req /\ dm[p].flush
    <3> DEFINE r == [fsm |-> "REQ_WRITE", addr |-> ReadCell(wb[p]).addr,
                     data |-> ReadCell(wb[p]).data, cpt |-> 0]
    <3>1. rq' = [rq EXCEPT ![p] = r] /\ cmd' = cmd
      BY <1>3, <2>3 DEF ReqIdle
    <3>2. rq'[p] = r
      <4> HIDE DEF r
      <4> QED BY <1>1, <3>1
    <3> QED BY <1>3, <2>3, <3>1, <3>2 DEF ReqStartsWrite, StartsWrite, ReqIdle
  <2>4. CASE rs[p].fsm = "RSP_IDLE" /\ ~dm[p].req /\ ~dm[p].flush
    <3> DEFINE s == IF ic[p].req THEN "REQ_IMISS" ELSE "REQ_IDLE"
               r == [rq[p] EXCEPT !.fsm = s, !.cpt = 0]
    <3>1. rq'[p] = r
      <4>1. rq'[p] = IF rs[p].fsm # "RSP_IDLE" THEN rq[p]
                     ELSE IF dm[p].req
                     THEN [fsm |-> DataReqState(p), addr |-> dc[p].addr,
                           data |-> IF dc[p].sc THEN dc[p].data ELSE rq[p].data, cpt |-> 0]
                     ELSE IF dm[p].flush
                     THEN [fsm |-> "REQ_WRITE", addr |-> ReadCell(wb[p]).addr,
                           data |-> ReadCell(wb[p]).data, cpt |-> 0]
                     ELSE r
        BY <1>1, <1>3 DEF ReqIdle, DataReqState
      <4> HIDE DEF r
      <4> QED BY <2>4, <4>1
    <3>2. rq'[p].fsm = s /\ rq'[p].addr = rq[p].addr /\ rq'[p].data = rq[p].data
          /\ rq'[p].cpt = 0
      <4> HIDE DEF s
      <4> QED BY <1>1, <3>1 DEF RqRegs
    <3> QED BY <1>3, <2>4, <3>2 DEF ReqStartsInst, BothIdle, ReqIdle
  <2> QED BY <2>1, <2>2, <2>3, <2>4
<1>4. CASE ReqBlocked(p)
  BY <1>4 DEF ReqBlocked, ReqKeeps, OneCellStates
<1>5. CASE ReqOneCell(p)
  <2> DEFINE s == IF rq[p].fsm = "REQ_IMISS" THEN "REQ_IWAIT" ELSE "REQ_DWAIT"
  <2>1. rq' = [rq EXCEPT ![p] = [rq[p] EXCEPT !.fsm = s]]
    BY <1>5 DEF ReqOneCell
  <2>2. rq'[p].fsm = s /\ rq'[p].addr = rq[p].addr /\ rq'[p].data = rq[p].data
        /\ rq'[p].cpt = rq[p].cpt
    <3> HIDE DEF s
    <3> QED BY <1>1, <2>1 DEF RqRegs
  <2> QED BY <1>5, <2>2 DEF ReqOneCell, ReqSendsOneCell
<1>6. CASE ReqWrite(p)
  <2> DEFINE last == [rq[p] EXCEPT !.fsm = "REQ_DWAIT", !.cpt = rq[p].cpt + 1]
             more == [rq[p] EXCEPT !.cpt = rq[p].cpt + 1, !.addr = ReadCell(wb[p]).addr,
                                   !.data = ReadCell(wb[p]).data]
  <2>1. rq'[p] = IF LastCell(p) THEN last ELSE more
    BY <1>1, <1>6 DEF ReqWrite
  <2>2. /\ last.fsm = "REQ_DWAIT" /\ last.addr = rq[p].addr /\ last.data = rq[p].data
        /\ last.cpt = rq[p].cpt + 1
    BY <1>1 DEF RqRegs
  <2>3. /\ more.fsm = rq[p].fsm /\ more.addr = ReadCell(wb[p]).addr
        /\ more.data = ReadCell(wb[p]).data /\ more.cpt = rq[p].cpt + 1
    BY <1>1 DEF RqRegs
  <2> HIDE DEF last, more
  <2> QED BY <1>6, <2>1, <2>2, <2>3 DEF ReqWrite, ReqSendsStore
<1>7. CASE ReqWait(p)
  <2> DEFINE over == IF rq[p].fsm = "REQ_DWAIT" THEN rs[p].dOk \/ rs[p].dRetry
                                                ELSE rs[p].iOk \/ rs[p].iRetry
  <2>1. /\ rq[p].fsm \in {"REQ_DWAIT", "REQ_IWAIT"} /\ cmd' = cmd
        /\ rq' = IF over THEN [rq EXCEPT ![p] = [rq[p] EXCEPT !.fsm = "REQ_IDLE"]] ELSE rq
    BY <1>7 DEF ReqWait
  <2>2. CASE over
    <3>1. rq'[p].fsm = "REQ_IDLE" /\ rq'[p].addr = rq[p].addr /\ rq'[p].data = rq[p].data
          /\ rq'[p].cpt = rq[p].cpt
      <4> HIDE DEF over
      <4> QED BY <1>1, <2>1, <2>2 DEF RqRegs
    <3> QED BY <2>1, <2>2, <3>1 DEF ReqEnds
  <2>3. CASE ~over
    BY <2>1, <2>3 DEF ReqKeeps
  <2> QED BY <2>2, <2>3
<1> QED BY <1>3, <1>4, <1>5, <1>6, <1>7 DEF ReqFsm

-----------------------------------------------------------------------------
(* VCI_RSP_FSM: what a cycle does to the answer that is received. *)

FlagsAfter(p, dOk, iOk, dRetry, iRetry) ==
  /\ rs'[p].dOk <=> dOk \/ (rs[p].dOk /\ ~DataDone(p))
  /\ rs'[p].iOk <=> iOk \/ (rs[p].iOk /\ ~InstDone(p))
  /\ rs'[p].dRetry <=> dRetry
  /\ rs'[p].iRetry <=> iRetry

RspKeeps(p, rspval) ==
  /\ rs[p].fsm = "RSP_IDLE" => rq[p].fsm # "REQ_IDLE"
  /\ rs[p].fsm # "RSP_IDLE" => ~rspval
  /\ rsp' = rsp /\ FlagsAfter(p, FALSE, FALSE, rs[p].dRetry, rs[p].iRetry)
  /\ rs'[p].fsm = rs[p].fsm /\ rs'[p].cpt = rs[p].cpt
  /\ rs'[p].buf = rs[p].buf /\ rs'[p].unc = rs[p].unc /\ rs'[p].cond = rs[p].cond

RspStarts(p) ==
  /\ BothIdle(p) /\ rsp' = rsp /\ FlagsAfter(p, FALSE, FALSE, FALSE, FALSE)
  /\ rs'[p].fsm = IF dm[p].req \/ dm[p].flush THEN DataRspState(p)
                  ELSE IF ic[p].req THEN "RSP_IMISS" ELSE "RSP_IDLE"
  /\ rs'[p].cpt = 0
  /\ rs'[p].buf = rs[p].buf /\ rs'[p].unc = rs[p].unc /\ rs'[p].cond = rs[p].cond

LastOfLine(p) == rs[p].cpt = LineWords - 1

RspTakesLineCell(p, rspval) ==
  /\ rs[p].fsm \in {"RSP_DMISS", "RSP_IMISS"} /\ rspval /\ TakeRsp(p)
  /\ IF rs[p].fsm = "RSP_DMISS"
     THEN FlagsAfter(p, LastOfLine(p) /\ ~rsp[p].error /\ ~rs[p].dRetry, FALSE,
                     rs[p].dRetry \/ rsp[p].error, rs[p].iRetry)
     ELSE FlagsAfter(p, FALSE, LastOfLine(p) /\ ~rsp[p].error /\ ~rs[p].iRetry,
                     rs[p].dRetry, rs[p].iRetry \/ rsp[p].error)
  /\ rs'[p].fsm = IF LastOfLine(p) THEN "RSP_IDLE" ELSE rs[p].fsm
  /\ rs'[p].cpt = rs[p].cpt + 1
  /\ rs'[p].buf = IF rs[p].fsm = "RSP_DMISS"
                  THEN [rs[p].buf EXCEPT ![rs[p].cpt] = rsp[p].data] ELSE rs[p].buf
  /\ rs'[p].unc = rs[p].unc /\ rs'[p].cond = rs[p].cond

RspTakesOneCell(p, rspval) ==
  /\ rs[p].fsm \in {"RSP_WRITE", "RSP_UNC"} /\ rspval /\ TakeRsp(p)
  /\ FlagsAfter(p, ~rsp[p].error, FALSE, rs[p].dRetry \/ rsp[p].error, rs[p].iRetry)
  /\ rs'[p].fsm = "RSP_IDLE" /\ rs'[p].cpt = rs[p].cpt
  /\ rs'[p].buf = rs[p].buf
  /\ rs'[p].unc = IF rs[p].fsm = "RSP_UNC" THEN rsp[p].data ELSE rs[p].unc
  /\ rs'[p].cond = IF rs[p].fsm = "RSP_UNC" THEN rsp[p].ok ELSE rs[p].cond

(* The registers of RSP_FSM, over the states S that it has.               *)
RsShape(S) ==
  [fsm : S, cpt : 0 .. LineWords, buf : [Offsets -> Word], unc : Word, cond : BOOLEAN,
   dOk : BOOLEAN, iOk : BOOLEAN, dRetry : BOOLEAN, iRetry : BOOLEAN]

CcRspStates == {"RSP_IDLE", "RSP_IMISS", "RSP_DMISS", "RSP_WRITE", "RSP_UNC"}

LEMMA RsRegsShape == RsRegs = RsShape(CcRspStates)
BY DEF RsRegs, RsShape, CcRspStates

SameRsNow(p) ==
  /\ RsNow(p).dOk <=> rs[p].dOk /\ ~DataDone(p)
  /\ RsNow(p).iOk <=> rs[p].iOk /\ ~InstDone(p)
  /\ RsNow(p).dRetry = rs[p].dRetry /\ RsNow(p).iRetry = rs[p].iRetry
  /\ RsNow(p).fsm = rs[p].fsm /\ RsNow(p).cpt = rs[p].cpt
  /\ RsNow(p).buf = rs[p].buf /\ RsNow(p).unc = rs[p].unc /\ RsNow(p).cond = rs[p].cond

(* The registers of RSP_FSM after REQ_FSM has reset the flags it has       *)
(* seen.                                                                   *)
LEMMA AnyRsNowFacts ==
  ASSUME NEW S, NEW p \in Procs, rs[p] \in RsShape(S)
  PROVE  RsNow(p) \in RsShape(S) /\ SameRsNow(p)
<1> DEFINE d == rs[p].dOk /\ ~DataDone(p)
           i == rs[p].iOk /\ ~InstDone(p)
<1>1. RsNow(p) = [rs[p] EXCEPT !.dOk = d, !.iOk = i]
  BY DEF RsNow
<1>2. d \in BOOLEAN /\ i \in BOOLEAN
  OBVIOUS
<1> HIDE DEF d, i
<1>3. /\ RsNow(p) \in RsShape(S) /\ RsNow(p).dOk = d /\ RsNow(p).iOk = i
      /\ RsNow(p).dRetry = rs[p].dRetry /\ RsNow(p).iRetry = rs[p].iRetry
      /\ RsNow(p).fsm = rs[p].fsm /\ RsNow(p).cpt = rs[p].cpt
      /\ RsNow(p).buf = rs[p].buf /\ RsNow(p).unc = rs[p].unc /\ RsNow(p).cond = rs[p].cond
  BY <1>1, <1>2 DEF RsShape
<1> USE DEF d, i
<1> QED BY <1>3 DEF SameRsNow

LEMMA RsNowFacts ==
  ASSUME CacheTypeOK, NEW p \in Procs
  PROVE  RsNow(p) \in RsRegs /\ SameRsNow(p)
BY RegTypes, AnyRsNowFacts, RsRegsShape

TakesCell(p, rspval) == RspInst(p, rspval) \/ RspData(p, rspval) \/ RspOneCell(p, rspval)

(* A cell of an answer to a data or instruction request.                   *)
LEMMA AnyRspTakes ==
  ASSUME NEW S, rs \in [Procs -> RsShape(S)], NEW p \in Procs, NEW rspval \in BOOLEAN,
         TakesCell(p, rspval)
  PROVE  RspTakesLineCell(p, rspval) \/ RspTakesOneCell(p, rspval)
<1> DEFINE r == RsNow(p)
<1>1. /\ rs[p] \in RsShape(S) /\ \A x : SetRs(p, x) => rs'[p] = x
  BY DEF SetRs
<1>2. /\ r \in RsShape(S)
      /\ r.dOk <=> rs[p].dOk /\ ~DataDone(p)
      /\ r.iOk <=> rs[p].iOk /\ ~InstDone(p)
      /\ r.dRetry = rs[p].dRetry /\ r.iRetry = rs[p].iRetry
      /\ r.fsm = rs[p].fsm /\ r.cpt = rs[p].cpt
      /\ r.buf = rs[p].buf /\ r.unc = rs[p].unc /\ r.cond = rs[p].cond
  BY <1>1, AnyRsNowFacts DEF SameRsNow
<1>3. CASE RspInst(p, rspval)
  <2> DEFINE last == rs[p].cpt = LineWords - 1
             ok   == r.iOk \/ (last /\ ~rsp[p].error /\ ~rs[p].iRetry)
             re   == r.iRetry \/ rsp[p].error
             s    == IF last THEN "RSP_IDLE" ELSE r.fsm
             e    == [r EXCEPT !.cpt = r.cpt + 1, !.fsm = s, !.iOk = ok, !.iRetry = re]
  <2>1. rs[p].fsm = "RSP_IMISS" /\ rspval /\ TakeRsp(p) /\ SetRs(p, e)
    BY <1>3 DEF RspInst
  <2>2. rs'[p] = e
    BY <1>1, <2>1
  <2>3. /\ e.cpt = r.cpt + 1 /\ e.fsm = s /\ e.iOk = ok /\ e.iRetry = re
        /\ e.dOk = r.dOk /\ e.dRetry = r.dRetry
        /\ e.buf = r.buf /\ e.unc = r.unc /\ e.cond = r.cond
    <3> HIDE DEF r, s, ok, re
    <3> QED BY <1>2 DEF RsShape
  <2> HIDE DEF r, e
  <2> QED BY <1>2, <2>1, <2>2, <2>3 DEF RspTakesLineCell, FlagsAfter, LastOfLine
<1>4. CASE RspData(p, rspval)
  <2> DEFINE last == rs[p].cpt = LineWords - 1
             ok   == r.dOk \/ (last /\ ~rsp[p].error /\ ~rs[p].dRetry)
             re   == r.dRetry \/ rsp[p].error
             s    == IF last THEN "RSP_IDLE" ELSE r.fsm
             bf   == [r.buf EXCEPT ![rs[p].cpt] = rsp[p].data]
             e    == [r EXCEPT !.cpt = r.cpt + 1, !.buf = bf, !.fsm = s, !.dOk = ok,
                               !.dRetry = re]
  <2>1. rs[p].fsm = "RSP_DMISS" /\ rspval /\ TakeRsp(p) /\ SetRs(p, e)
    BY <1>4 DEF RspData
  <2>2. rs'[p] = e
    BY <1>1, <2>1
  <2>3. /\ e.cpt = r.cpt + 1 /\ e.fsm = s /\ e.dOk = ok /\ e.dRetry = re
        /\ e.iOk = r.iOk /\ e.iRetry = r.iRetry
        /\ e.buf = bf /\ e.unc = r.unc /\ e.cond = r.cond
    <3> HIDE DEF r, s, ok, re, bf
    <3> QED BY <1>2 DEF RsShape
  <2> HIDE DEF r, e
  <2> QED BY <1>2, <2>1, <2>2, <2>3 DEF RspTakesLineCell, FlagsAfter, LastOfLine
<1>5. CASE RspOneCell(p, rspval)
  <2> DEFINE ok   == r.dOk \/ ~rsp[p].error
             re   == r.dRetry \/ rsp[p].error
             u    == IF rs[p].fsm = "RSP_UNC" THEN rsp[p].data ELSE r.unc
             c    == IF rs[p].fsm = "RSP_UNC" THEN rsp[p].ok ELSE r.cond
             e    == [r EXCEPT !.unc = u, !.cond = c, !.fsm = "RSP_IDLE", !.dOk = ok,
                               !.dRetry = re]
  <2>1. rs[p].fsm \in {"RSP_WRITE", "RSP_UNC"} /\ rspval /\ TakeRsp(p) /\ SetRs(p, e)
    BY <1>5 DEF RspOneCell
  <2>2. rs'[p] = e
    BY <1>1, <2>1
  <2>3. /\ e.cpt = r.cpt /\ e.fsm = "RSP_IDLE" /\ e.dOk = ok /\ e.dRetry = re
        /\ e.iOk = r.iOk /\ e.iRetry = r.iRetry
        /\ e.buf = r.buf /\ e.unc = u /\ e.cond = c
    <3> HIDE DEF r, ok, re, u, c
    <3> QED BY <1>2 DEF RsShape
  <2> HIDE DEF r, e
  <2> QED BY <1>2, <2>1, <2>2, <2>3 DEF RspTakesOneCell, FlagsAfter
<1> QED BY <1>3, <1>4, <1>5 DEF TakesCell

(* The only things RSP_FSM does.                                           *)
LEMMA RspEffect ==
  ASSUME CacheTypeOK, NEW p \in Procs, NEW rspval \in BOOLEAN, RspFsm(p, rspval)
  PROVE  \/ RspKeeps(p, rspval) \/ RspStarts(p)
         \/ RspTakesLineCell(p, rspval) \/ RspTakesOneCell(p, rspval)
<1> DEFINE r == RsNow(p)
<1>1. /\ rs[p] \in RsRegs /\ \A x : SetRs(p, x) => rs'[p] = x
  BY RegTypes DEF SetRs, CacheTypeOK
<1>2. /\ r \in RsRegs
      /\ r.dOk <=> rs[p].dOk /\ ~DataDone(p)
      /\ r.iOk <=> rs[p].iOk /\ ~InstDone(p)
      /\ r.dRetry = rs[p].dRetry /\ r.iRetry = rs[p].iRetry
      /\ r.fsm = rs[p].fsm /\ r.cpt = rs[p].cpt
      /\ r.buf = rs[p].buf /\ r.unc = rs[p].unc /\ r.cond = rs[p].cond
  BY RsNowFacts DEF SameRsNow
<1>3. CASE \/ RspIdle(p) /\ rq[p].fsm # "REQ_IDLE"
           \/ RspWait(p, rspval)
  <2>1. rs'[p] = r /\ rsp' = rsp
    BY <1>1, <1>3 DEF RspIdle, RspWait
  <2>2. /\ rs[p].fsm = "RSP_IDLE" => rq[p].fsm # "REQ_IDLE"
        /\ rs[p].fsm # "RSP_IDLE" => ~rspval
    BY <1>3 DEF RspIdle, RspWait
  <2> HIDE DEF r
  <2> QED BY <1>1, <1>2, <2>1, <2>2 DEF RspKeeps, FlagsAfter, RsRegs
<1>4. CASE RspIdle(p) /\ rq[p].fsm = "REQ_IDLE"
  <2> DEFINE s == IF dm[p].req
                  THEN IF dc[p].unc \/ dc[p].ll \/ dc[p].sc THEN "RSP_UNC" ELSE "RSP_DMISS"
                  ELSE IF dm[p].flush THEN "RSP_WRITE"
                  ELSE IF ic[p].req THEN "RSP_IMISS" ELSE "RSP_IDLE"
             n == [r EXCEPT !.dRetry = FALSE, !.iRetry = FALSE, !.cpt = 0]
             e == [n EXCEPT !.fsm = s]
  <2>1. rs[p].fsm = "RSP_IDLE" /\ rsp' = rsp
    BY <1>4 DEF RspIdle
  <2>2. n \in RsRegs /\ n.fsm = rs[p].fsm
        /\ n.cpt = 0 /\ n.dRetry = FALSE /\ n.iRetry = FALSE /\ n.dOk = r.dOk
        /\ n.iOk = r.iOk /\ n.buf = r.buf /\ n.unc = r.unc /\ n.cond = r.cond
    <3>1. 0 \in 0 .. LineWords
      BY SizeFacts
    <3> HIDE DEF r
    <3> QED BY <1>2, <3>1 DEF RsRegs
  <2>3. rs'[p] = [n EXCEPT !.fsm = IF dm[p].req
                  THEN IF dc[p].unc \/ dc[p].ll \/ dc[p].sc THEN "RSP_UNC" ELSE "RSP_DMISS"
                  ELSE IF dm[p].flush THEN "RSP_WRITE"
                  ELSE IF ic[p].req THEN "RSP_IMISS" ELSE n.fsm]
    BY <1>1, <1>4 DEF RspIdle, NewPacket
  <2>4. rs'[p] = e
    <3> HIDE DEF n
    <3> QED BY <2>1, <2>2, <2>3
  <2>5. /\ e.fsm = s /\ e.cpt = n.cpt /\ e.dRetry = n.dRetry /\ e.iRetry = n.iRetry
        /\ e.dOk = n.dOk /\ e.iOk = n.iOk /\ e.buf = n.buf /\ e.unc = n.unc
        /\ e.cond = n.cond
    <3> HIDE DEF n, s
    <3> QED BY <2>2 DEF RsRegs
  <2>6. s = IF dm[p].req \/ dm[p].flush THEN DataRspState(p)
            ELSE IF ic[p].req THEN "RSP_IMISS" ELSE "RSP_IDLE"
    BY DEF DataRspState
  <2> HIDE DEF r, n, s, e
  <2> QED BY <1>2, <1>4, <2>1, <2>2, <2>4, <2>5, <2>6 DEF RspStarts, FlagsAfter, BothIdle
<1>5. CASE TakesCell(p, rspval)
  <2>1. rs \in [Procs -> RsShape(CcRspStates)]
    BY RsRegsShape DEF CacheTypeOK
  <2> QED BY <1>5, <2>1, AnyRspTakes
<1> QED BY <1>3, <1>4, <1>5 DEF RspFsm, TakesCell

-----------------------------------------------------------------------------
(* ICACHE_FSM, VCI_INV_FSM and the write buffer. *)

IcEffect(p) ==
  /\ ic'[p].req <=> ic'[p].fsm = "ICACHE_WAIT"
  /\ InstDone(p) => ~ic'[p].req
  /\ ic[p].req /\ ~InstDone(p) => ic'[p].req /\ ic'[p].addr = ic[p].addr

LEMMA AnySetIcAt ==
  ASSUME DataRegsOK, NEW p \in Procs, NEW c \in IcRegs, SetIc(p, c)
  PROVE  /\ ic' \in [Procs -> IcRegs]
         /\ ic'[p].fsm = c.fsm /\ ic'[p].addr = c.addr
         /\ ic'[p].req <=> c.req /\ ~InstDone(p)
<1> DEFINE r == c.req /\ ~InstDone(p)
           n == [c EXCEPT !.req = r]
<1>1. ic' = [ic EXCEPT ![p] = n] /\ ic \in [Procs -> IcRegs]
  BY DEF SetIc, DataRegsOK
<1>2. r \in BOOLEAN
  OBVIOUS
<1>3. n \in IcRegs /\ n.fsm = c.fsm /\ n.addr = c.addr /\ n.req = r
  <2> HIDE DEF r
  <2> QED BY <1>2 DEF IcRegs
<1>4. ic' \in [Procs -> IcRegs] /\ ic'[p] = n
  <2> HIDE DEF n
  <2> QED BY <1>1, <1>3
<1> QED BY <1>3, <1>4

(* A step of ICACHE_FSM: its types, and what it does to its request.       *)
LEMMA AnyIcStep ==
  ASSUME DataRegsOK, NEW p \in Procs, RequestInv(p), DoneInv(p), ICacheFsm(p)
  PROVE  /\ IcEffect(p)
         /\ ic' \in [Procs -> IcRegs]
         /\ fetch' \in [Procs -> Addr \cup {NoReq}]
         /\ itag' \in [Procs -> [Slots -> Blocks \cup {NoBlock}]]
<1>1. /\ ic[p] \in IcRegs /\ fetch[p] \in Addr \cup {NoReq}
      /\ fetch \in [Procs -> Addr \cup {NoReq}]
      /\ itag \in [Procs -> [Slots -> Blocks \cup {NoBlock}]]
  BY DEF DataRegsOK
<1>2. /\ ic[p].req <=> ic[p].fsm = "ICACHE_WAIT"
      /\ rs[p].iOk <=> InstDone(p)
      /\ InstDone(p) => ic[p].req
  BY DEF DoneInv, RequestInv, DoneInv, InstDone
<1>3. CASE IcIdle(p) \/ IcHit(p)
  <2>1. ic[p].fsm = "ICACHE_IDLE" /\ SetIc(p, ic[p])
    BY <1>3 DEF IcIdle, IcHit
  <2>2. fetch' \in [Procs -> Addr \cup {NoReq}] /\ itag' = itag
    BY <1>1, <1>3 DEF IcIdle, IcHit
  <2>3. /\ ic' \in [Procs -> IcRegs]
        /\ ic'[p].fsm = ic[p].fsm /\ ic'[p].addr = ic[p].addr
        /\ ic'[p].req <=> ic[p].req /\ ~InstDone(p)
    BY <1>1, <2>1, AnySetIcAt
  <2> QED BY <1>1, <1>2, <2>1, <2>2, <2>3 DEF IcEffect
<1>4. CASE IcMiss(p)
  <2> DEFINE c == [fsm |-> "ICACHE_WAIT", addr |-> fetch[p], req |-> TRUE]
  <2>1. /\ ic[p].fsm = "ICACHE_IDLE" /\ SetIc(p, c) /\ c \in IcRegs
        /\ fetch' = fetch /\ itag' = itag
    BY <1>1, <1>4 DEF IcMiss, IcRegs
  <2>2. c.fsm = "ICACHE_WAIT" /\ c.req
    OBVIOUS
  <2> HIDE DEF c
  <2>3. /\ ic' \in [Procs -> IcRegs]
        /\ ic'[p].fsm = c.fsm /\ ic'[p].addr = c.addr
        /\ ic'[p].req <=> c.req /\ ~InstDone(p)
    BY <2>1, AnySetIcAt
  <2> QED BY <1>1, <1>2, <2>1, <2>2, <2>3 DEF IcEffect
<1>5. CASE IcWait(p)
  <2> DEFINE c == [ic[p] EXCEPT !.fsm = IF rs[p].iOk THEN "ICACHE_UPDT" ELSE ic[p].fsm]
  <2>1. /\ ic[p].fsm = "ICACHE_WAIT" /\ SetIc(p, c)
        /\ fetch' = fetch /\ itag' = itag
    BY <1>5 DEF IcWait
  <2>2. /\ c \in IcRegs /\ c.req = ic[p].req /\ c.addr = ic[p].addr
        /\ c.fsm = IF rs[p].iOk THEN "ICACHE_UPDT" ELSE ic[p].fsm
    BY <1>1 DEF IcRegs
  <2> HIDE DEF c
  <2>3. /\ ic' \in [Procs -> IcRegs]
        /\ ic'[p].fsm = c.fsm /\ ic'[p].addr = c.addr
        /\ ic'[p].req <=> c.req /\ ~InstDone(p)
    BY <2>1, <2>2, AnySetIcAt
  <2> QED BY <1>1, <1>2, <2>1, <2>2, <2>3 DEF IcEffect
<1>6. CASE IcUpdate(p)
  <2> DEFINE c == [ic[p] EXCEPT !.fsm = "ICACHE_IDLE"]
  <2>1. /\ ic[p].fsm = "ICACHE_UPDT" /\ SetIc(p, c) /\ fetch' = fetch
        /\ itag' = [itag EXCEPT ![p][Slot(Block(ic[p].addr))] = Block(ic[p].addr)]
    BY <1>6 DEF IcUpdate
  <2>2. /\ c \in IcRegs /\ c.req = ic[p].req /\ c.addr = ic[p].addr
        /\ c.fsm = "ICACHE_IDLE"
    BY <1>1 DEF IcRegs
  <2>3. itag' \in [Procs -> [Slots -> Blocks \cup {NoBlock}]]
    <3>1. ic[p].addr \in Addr
      BY <1>1 DEF IcRegs
    <3>2. Block(ic[p].addr) \in Blocks
      BY <3>1 DEF Blocks
    <3> QED BY <1>1, <2>1, <3>2
  <2> HIDE DEF c
  <2>4. /\ ic' \in [Procs -> IcRegs]
        /\ ic'[p].fsm = c.fsm /\ ic'[p].addr = c.addr
        /\ ic'[p].req <=> c.req /\ ~InstDone(p)
    BY <2>1, <2>2, AnySetIcAt
  <2> QED BY <1>1, <1>2, <2>1, <2>2, <2>3, <2>4 DEF IcEffect
<1> QED BY <1>3, <1>4, <1>5, <1>6 DEF ICacheFsm

(* The same of this cache. *)
LEMMA IcStep ==
  ASSUME CacheTypeOK, NEW p \in Procs, RequestInv(p), ServiceInv(p), ICacheFsm(p)
  PROVE  /\ IcEffect(p)
         /\ ic' \in [Procs -> IcRegs]
         /\ fetch' \in [Procs -> Addr \cup {NoReq}]
         /\ itag' \in [Procs -> [Slots -> Blocks \cup {NoBlock}]]
BY AnyIcStep, DataPart, DonePart

(* A step of INV_FSM: it takes the address with the request.               *)
LEMMA IvStep ==
  ASSUME CacheTypeOK, NocTypeOK, NEW p \in Procs, InvalInv(p), NEW invval \in BOOLEAN,
         invval => invCmd[p] # NoBlock, InvalFsm(p, invval)
  PROVE  /\ iv' \in [Procs -> IvRegs]
         /\ iv'[p].fsm = "INV_CMD" => invCmd'[p] # NoBlock
<1> DEFINE q == iv[p].req /\ ~TakesInval(p)
           n == [iv[p] EXCEPT !.req = q]
<1>1. iv \in [Procs -> IvRegs] /\ iv[p] \in IvRegs
  BY DEF CacheTypeOK
<1>2. q \in BOOLEAN
  OBVIOUS
<1>3. n \in IvRegs /\ n.fsm = iv[p].fsm /\ IvNow(p) = n
  <2>1. IvNow(p) = n
    BY DEF IvNow
  <2> HIDE DEF q
  <2> QED BY <1>1, <1>2, <2>1 DEF IvRegs
<1> HIDE DEF n
<1>4. CASE IvIdle(p, invval)
  <2> DEFINE e == [n EXCEPT !.req = TRUE, !.fsm = "INV_CMD"]
  <2>1. /\ iv' = [iv EXCEPT ![p] = IF invval THEN e ELSE n] /\ iv[p].fsm = "INV_IDLE"
        /\ invCmd' = invCmd
    BY <1>3, <1>4 DEF IvIdle, SetIv
  <2>2. e \in IvRegs /\ e.fsm = "INV_CMD"
    BY <1>3 DEF IvRegs
  <2> HIDE DEF e
  <2> QED BY <1>1, <1>3, <2>1, <2>2
<1>5. CASE IvCommand(p)
  <2> DEFINE e == [n EXCEPT !.block = invCmd[p], !.fsm = "INV_WAIT"]
  <2>1. iv' = [iv EXCEPT ![p] = e] /\ iv[p].fsm = "INV_CMD"
    BY <1>3, <1>5 DEF IvCommand, SetIv
  <2>2. invCmd[p] \in Blocks
    BY <2>1 DEF InvalInv, NocTypeOK
  <2>3. e \in IvRegs /\ e.fsm = "INV_WAIT"
    BY <1>3, <2>2 DEF IvRegs
  <2> HIDE DEF e
  <2> QED BY <1>1, <1>3, <2>1, <2>3
<1>6. CASE IvWait(p)
  <2> DEFINE s == IF iv[p].req THEN n.fsm ELSE "INV_RSP"
             e == [n EXCEPT !.fsm = s]
  <2>1. iv' = [iv EXCEPT ![p] = e] /\ iv[p].fsm = "INV_WAIT"
    BY <1>3, <1>6 DEF IvWait, SetIv
  <2>2. e \in IvRegs /\ e.fsm \in {"INV_WAIT", "INV_RSP"}
    BY <1>3, <2>1 DEF IvRegs
  <2> HIDE DEF e
  <2> QED BY <1>1, <1>3, <2>1, <2>2
<1>7. CASE IvAnswer(p)
  <2> DEFINE s == IF invRsp[p] THEN n.fsm ELSE "INV_IDLE"
             e == [n EXCEPT !.fsm = s]
  <2>1. iv' = [iv EXCEPT ![p] = e] /\ iv[p].fsm = "INV_RSP"
    BY <1>3, <1>7 DEF IvAnswer, SetIv
  <2>2. e \in IvRegs /\ e.fsm \in {"INV_IDLE", "INV_RSP"}
    BY <1>3, <2>1 DEF IvRegs
  <2> HIDE DEF e
  <2> QED BY <1>1, <1>3, <2>1, <2>2
<1> QED BY <1>4, <1>5, <1>6, <1>7 DEF InvalFsm

(* The write buffer after a cycle, whichever machines use it in that       *)
(* cycle.                                                                  *)
LEMMA BufferAt ==
  ASSUME CacheTypeOK, NEW p \in Procs, NEW rspval \in BOOLEAN, WriteBuffer(p, rspval)
  PROVE  wb'[p] = IF WriteAnswered(p, rspval)
                  THEN IF rsp[p].error THEN InitRead(wb[p]) ELSE EmptyBuffer
                  ELSE IF Gets(p) THEN SimpleGet(wb[p])
                  ELSE IF Puts(p)
                  THEN SimplePut(wb[p], [addr |-> dm[p].addr, data |-> dm[p].data])
                  ELSE wb[p]
<1>1. wb \in [Procs -> WbRegs]
  BY DEF CacheTypeOK
<1> QED BY <1>1 DEF WriteBuffer

-----------------------------------------------------------------------------
(* A request that is not finished in this cycle is not changed by it. *)

SameRequest(p) ==
  /\ dm'[p].req <=> dm[p].req
  /\ dm'[p].flush <=> dm[p].flush
  /\ dm'[p].pending <=> dm[p].pending
  /\ dm'[p].size = dm[p].size
  /\ dm[p].flush => dm'[p] = dm[p]
  /\ dm[p].req => /\ dc'[p].addr = dc[p].addr /\ dc'[p].data = dc[p].data
                  /\ dc'[p].be = dc[p].be /\ dc'[p].unc = dc[p].unc
                  /\ dc'[p].ll = dc[p].ll /\ dc'[p].sc = dc[p].sc

(* A posted request is not touched until RSP_FSM has served it.            *)
LEMMA AnyRequestHeld ==
  ASSUME DataRegsOK, NEW p \in Procs, RequestInv(p), DoneInv(p), PrevInv(p), DCacheFsm(p),
         dm[p].req \/ dm[p].flush
  PROVE  IF DataDone(p) THEN ~dm'[p].req /\ ~dm'[p].flush /\ ~dm'[p].pending
         ELSE SameRequest(p)
<1>1. dm[p] \in DmRegs
  BY AnyRegTypes
<1>2. KeepsRequest(p)
  <2>1. /\ ~StartsRequest(p) /\ ~StartsStores(p)
        /\ ~MergesStore(p) /\ ~AddsStore(p) /\ ~FlushesStores(p)
    BY DEF StartsRequest, StartsStores, MergesStore, AddsStore, FlushesStores, RequestInv
  <2> QED BY <2>1, AnyDcEffect
<1>3. dm'[p] = IF DataDone(p)
               THEN [dm[p] EXCEPT !.req = FALSE, !.flush = FALSE, !.pending = FALSE] ELSE dm[p]
  BY <1>2 DEF KeepsRequest, DmAfter
<1>4. CASE DataDone(p)
  BY <1>1, <1>3, <1>4 DEF DmRegs
<1>5. CASE ~DataDone(p)
  <2>1. dm[p].req => Waiting(p)'
    BY <1>2, <1>5 DEF KeepsRequest, RequestInv
  <2> QED BY <1>2, <1>3, <1>5, <2>1 DEF KeepsRequest, SameRequest
<1> QED BY <1>4, <1>5

(* The same of this cache. *)
LEMMA RequestHeld ==
  ASSUME CacheTypeOK, NEW p \in Procs, RequestInv(p), ServiceInv(p), InvalInv(p), DCacheFsm(p),
         dm[p].req \/ dm[p].flush
  PROVE  IF DataDone(p) THEN ~dm'[p].req /\ ~dm'[p].flush /\ ~dm'[p].pending
         ELSE SameRequest(p)
BY AnyRequestHeld, DataPart, DonePart DEF InvalInv, PrevInv

LEMMA SameStates ==
  ASSUME NEW p \in Procs, SameRequest(p), dm[p].req \/ dm[p].flush
  PROVE  DataRspState(p)' = DataRspState(p) /\ (dm[p].req => DataReqState(p)' = DataReqState(p))
<1>1. CASE dm[p].req
  BY <1>1 DEF SameRequest, DataRspState, DataReqState
<1>2. CASE ~dm[p].req
  BY <1>2 DEF SameRequest, DataRspState
<1> QED BY <1>1, <1>2

(* One lemma per invariant: requests,                                      *)
LEMMA AnyRequestStep ==
  ASSUME DataRegsOK, NEW p \in Procs, RequestInv(p), DoneInv(p), PrevInv(p),
         DCacheFsm(p), ICacheFsm(p)
  PROVE  RequestInv(p)'
<1>1. RequestInv(p) /\ DoneInv(p) /\ PrevInv(p) /\ dm[p] \in DmRegs
  BY AnyRegTypes
<1>2. ic'[p].req <=> ic'[p].fsm = "ICACHE_WAIT"
  BY <1>1, AnyIcStep DEF IcEffect
<1>3. CASE KeepsRequest(p)
  <2>1. CASE DataDone(p)
    <3>1. ~dm'[p].req /\ ~dm'[p].flush /\ ~dm'[p].pending
      BY <1>1, <2>1, AnyRequestHeld DEF DoneInv
    <3>2. ~Waiting(p)'
      BY <1>3, <2>1 DEF KeepsRequest
    <3> QED BY <1>2, <3>1, <3>2 DEF RequestInv
  <2>2. CASE ~DataDone(p)
    BY <1>1, <1>2, <1>3, <2>2 DEF KeepsRequest, DmAfter, RequestInv
  <2> QED BY <2>1, <2>2
<1>4. CASE StartsRequest(p)
  <2>1. dm'[p].req /\ ~dm'[p].flush /\ ~dm'[p].pending
    BY <1>1, <1>4 DEF StartsRequest, DmRegs, RequestInv
  <2>2. dc'[p].fsm \notin {"DCACHE_MISSUPDT", "DCACHE_UNC_LL_SC_GO"}
    BY <1>4 DEF StartsRequest, Waiting, WaitStates
  <2> QED BY <1>2, <1>4, <2>1, <2>2 DEF StartsRequest, RequestInv
<1>5. CASE StartsStores(p) \/ MergesStore(p) \/ AddsStore(p) \/ FlushesStores(p)
  <2>1. ~dm[p].req
    BY <1>1, <1>5 DEF StartsStores, MergesStore, AddsStore, FlushesStores, RequestInv
  <2>2. dm'[p].pending /\ ~dm'[p].req
    <3>1. CASE StartsStores(p)
      BY <1>1, <2>1, <3>1 DEF StartsStores, DmRegs
    <3>2. CASE AddsStore(p)
      BY <1>1, <2>1, <3>2 DEF AddsStore, DmRegs
    <3>3. CASE FlushesStores(p)
      BY <1>1, <2>1, <3>3 DEF FlushesStores, DmRegs
    <3>4. CASE MergesStore(p)
      <4> DEFINE d == Merge(dm[p].data, cpu[p].data, cpu[p].be)
                 l == dm[p].wl \cup cpu[p].be
                 f == IF dm[p].first THEN dm[p].wf \cup cpu[p].be ELSE dm[p].wf
      <4>1. dm'[p] = [dm[p] EXCEPT !.data = d, !.wl = l, !.wf = f] /\ dm[p].pending
        BY <3>4 DEF MergesStore
      <4> HIDE DEF d, l, f
      <4> QED BY <1>1, <2>1, <4>1 DEF DmRegs
    <3> QED BY <1>5, <3>1, <3>2, <3>3, <3>4
  <2>3. dc'[p].fsm \in {"DCACHE_IDLE", "DCACHE_WUPDT"}
    BY <1>5 DEF StartsStores, MergesStore, AddsStore, FlushesStores
  <2>4. ~Waiting(p)' /\ dc'[p].fsm \notin {"DCACHE_MISSUPDT", "DCACHE_UNC_LL_SC_GO"}
    BY <2>3 DEF Waiting, WaitStates
  <2> QED BY <1>2, <2>2, <2>4 DEF RequestInv
<1> QED BY <1>1, <1>3, <1>4, <1>5, AnyDcEffect

(* The same of this cache. *)
LEMMA RequestStep ==
  ASSUME CacheTypeOK, NEW p \in Procs, CacheInv(p), DCacheFsm(p), ICacheFsm(p)
  PROVE  RequestInv(p)'
BY AnyRequestStep, DataPart, DonePart DEF CacheInv, InvalInv, PrevInv

(* A cycle saves the state that an invalidation interrupts, or keeps it.   *)
LEMMA AnyPrevStep ==
  ASSUME DataRegsOK, NEW p \in Procs, PrevInv(p), DCacheFsm(p)
  PROVE  PrevInv(p)'
<1>0. dc[p] \in DcRegs /\ dc \in [Procs -> DcRegs]
      /\ dc[p].prev \in WaitStates \cup {"DCACHE_IDLE"}
  BY AnyRegTypes DEF PrevInv, DataRegsOK
<1> SUFFICES dc'[p].prev \in WaitStates \cup {"DCACHE_IDLE"}
  BY DEF PrevInv
<1>1. CASE DcTakeInval(p)
  <2>1. dc'[p] = [dc[p] EXCEPT !.fsm = "DCACHE_RAMINVAL", !.prev = dc[p].fsm]
    BY <1>0, <1>1 DEF DcTakeInval
  <2>2. dc'[p].prev = dc[p].fsm
    BY <1>0, <2>1 DEF DcRegs
  <2> QED BY <1>1, <2>2 DEF DcTakeInval, TakesInval
<1>2. ASSUME NEW s, SaveAndGoTo(p, s)
      PROVE  dc'[p].prev = dc[p].prev
  BY <1>2, AnySavedAt
<1>3. ASSUME NEW s, GoTo(p, s)
      PROVE  dc'[p].prev = dc[p].prev
  <2>1. dc'[p] = [dc[p] EXCEPT !.fsm = s]
    BY <1>3, AnyDcAt
  <2> HIDE DEF DataRegsOK
  <2> QED BY <1>0, <2>1 DEF DcRegs
<1>4. CASE DcBurst(p) \/ DcMerge(p) \/ DcFirstStore(p)
  BY <1>0, <1>2, <1>4 DEF DcBurst, DcMerge, DcFirstStore, AcceptStore
<1>5. CASE DcFlush(p) \/ DcStall(p) \/ DcLoadHit(p)
  BY <1>0, <1>2, <1>5 DEF DcFlush, DcStall, DcLoadHit
<1>6. CASE DcLoadMiss(p) \/ DcUncached(p) \/ DcSync(p) \/ DcXtnInval(p)
  BY <1>0, <1>2, <1>6 DEF DcLoadMiss, DcUncached, DcSync, DcXtnInval
<1>7. CASE DcNoRequest(p) \/ DcWait(p)
  BY <1>0, <1>3, <1>7 DEF DcNoRequest, DcWait
<1>8. CASE DcWriteUpdate(p) \/ DcMissUpdate(p) \/ DcUncachedGo(p)
  BY <1>0, <1>3, <1>8 DEF DcWriteUpdate, DcMissUpdate, DcUncachedGo
<1>9. CASE DcCpuInval(p) \/ DcRamInval(p)
  BY <1>0, <1>3, <1>9 DEF DcCpuInval, DcRamInval
<1> QED BY <1>1, <1>4, <1>5, <1>6, <1>7, <1>8, <1>9 DEF DCacheFsm

(* invalidations,                                                          *)
LEMMA InvalStep ==
  ASSUME CacheTypeOK, NocTypeOK, NEW p \in Procs, CacheInv(p), DCacheFsm(p),
         NEW invval \in BOOLEAN, invval => invCmd[p] # NoBlock, InvalFsm(p, invval)
  PROVE  InvalInv(p)'
<1>1. iv'[p].fsm = "INV_CMD" => invCmd'[p] # NoBlock
  BY IvStep DEF CacheInv
<1>3. dc'[p].prev \in WaitStates \cup {"DCACHE_IDLE"}
  BY AnyPrevStep, DataPart DEF CacheInv, InvalInv, PrevInv
<1> QED BY <1>1, <1>3 DEF InvalInv

-----------------------------------------------------------------------------
(* REQ_FSM and RSP_FSM keep serving one request. *)

LEMMA StateFacts ==
  ASSUME CacheTypeOK, NEW p \in Procs
  PROVE  /\ rq[p].fsm \in ReqStates
         /\ DataRspState(p) \in {"RSP_WRITE", "RSP_UNC", "RSP_DMISS"}
         /\ DataReqState(p) \in DataCellStates
         /\ dm[p].req <=> DataRspState(p) \in {"RSP_UNC", "RSP_DMISS"}
<1>1. rq[p].fsm \in ReqStates
  BY RegTypes DEF RqRegs
<1>2. DataReqState(p) \in DataCellStates
  BY DEF DataReqState, DataCellStates, OneCellStates
<1> QED BY <1>1, <1>2 DEF DataRspState

(* who serves whom,                                                        *)
LEMMA ServiceStep ==
  ASSUME CacheTypeOK, NEW p \in Procs, CacheInv(p), ResponseOK(p),
         NEW rspval \in BOOLEAN, rspval => rsp[p] # NoCell,
         DCacheFsm(p), ICacheFsm(p), ReqFsm(p), RspFsm(p, rspval)
  PROVE  ServiceInv(p)'
<1>1. RequestInv(p) /\ ServiceInv(p) /\ InvalInv(p)
  BY DEF CacheInv
<1>2. IcEffect(p)
  BY <1>1, IcStep
<1>3. \/ ReqKeeps(p) \/ ReqStartsData(p) \/ ReqStartsWrite(p) \/ ReqStartsInst(p)
      \/ ReqSendsOneCell(p) \/ ReqSendsStore(p) \/ ReqEnds(p)
  BY ReqEffect
<1>4. \/ RspKeeps(p, rspval) \/ RspStarts(p)
      \/ RspTakesLineCell(p, rspval) \/ RspTakesOneCell(p, rspval)
  BY RspEffect
<1>5. dm[p].req \/ dm[p].flush =>
        IF DataDone(p) THEN ~dm'[p].req /\ ~dm'[p].flush /\ ~dm'[p].pending
        ELSE /\ SameRequest(p) /\ DataRspState(p)' = DataRspState(p)
             /\ dm[p].req => DataReqState(p)' = DataReqState(p)
  BY <1>1, RequestHeld, SameStates
<1>6. /\ rq[p].fsm \in ReqStates
      /\ DataRspState(p) \in {"RSP_WRITE", "RSP_UNC", "RSP_DMISS"}
      /\ DataReqState(p) \in DataCellStates
      /\ dm[p].req <=> DataRspState(p) \in {"RSP_UNC", "RSP_DMISS"}
  BY StateFacts
<1>7. /\ rs[p].dOk <=> DataDone(p)
      /\ rs[p].iOk <=> InstDone(p)
      /\ DataDone(p) => dm[p].req \/ dm[p].flush
  BY <1>1, OkIsDone
<1>8. CASE BothIdle(p)
  <2>1. RspStarts(p)
    BY <1>4, <1>8 DEF BothIdle, RspKeeps, RspTakesLineCell, RspTakesOneCell
  <2>2. ~rs[p].dOk /\ ~rs[p].iOk
    BY <1>1, <1>8 DEF BothIdle, ServiceInv
  <2>3. ~rs'[p].dOk /\ ~rs'[p].iOk /\ ~rs'[p].dRetry /\ ~rs'[p].iRetry /\ rs'[p].cpt = 0
    BY <2>1, <2>2 DEF RspStarts, FlagsAfter
  <2>4. CASE dm[p].req
    <3>1. ReqStartsData(p)
      BY <1>3, <1>8, <2>4 DEF BothIdle, ReqKeeps, ReqStartsWrite, StartsWrite, ReqStartsInst,
           ReqSendsOneCell, ReqSendsStore, ReqEnds, OneCellStates
    <3>2. /\ SameRequest(p) /\ DataRspState(p)' = DataRspState(p)
          /\ DataReqState(p)' = DataReqState(p)
      BY <1>5, <1>7, <2>2, <2>4
    <3>3. rs'[p].fsm = DataRspState(p)
      BY <2>1, <2>4 DEF RspStarts
    <3> QED BY <1>6, <2>3, <2>4, <3>1, <3>2, <3>3
         DEF ServiceInv, ReqStartsData, SameRequest, DataCellStates, OneCellStates
  <2>5. CASE ~dm[p].req /\ dm[p].flush
    <3>1. ReqStartsWrite(p)
      BY <1>3, <1>8, <2>5 DEF BothIdle, ReqKeeps, ReqStartsData, ReqStartsInst,
           ReqSendsOneCell, ReqSendsStore, ReqEnds, OneCellStates
    <3>2. SameRequest(p) /\ DataRspState(p)' = DataRspState(p)
      BY <1>5, <1>7, <2>2, <2>5
    <3>3. rs'[p].fsm = DataRspState(p)
      BY <2>1, <2>5 DEF RspStarts
    <3> QED BY <2>3, <2>5, <3>1, <3>2, <3>3
         DEF ServiceInv, ReqStartsWrite, SameRequest, DataCellStates, OneCellStates
  <2>6. CASE ~dm[p].req /\ ~dm[p].flush
    <3>1. ReqStartsInst(p)
      BY <1>3, <1>8, <2>6 DEF BothIdle, ReqKeeps, ReqStartsData, ReqStartsWrite, StartsWrite,
           ReqSendsOneCell, ReqSendsStore, ReqEnds, OneCellStates
    <3>2. rs'[p].fsm = IF ic[p].req THEN "RSP_IMISS" ELSE "RSP_IDLE"
      BY <2>1, <2>6 DEF RspStarts
    <3>3. ic[p].req => ic'[p].req
      BY <1>2, <1>7, <2>2 DEF IcEffect
    <3> QED BY <2>3, <3>1, <3>2, <3>3
         DEF ServiceInv, ReqStartsInst, DataCellStates, OneCellStates
  <2> QED BY <2>4, <2>5, <2>6
<1>9. CASE rq[p].fsm = "REQ_IDLE" /\ rs[p].fsm # "RSP_IDLE"
  <2>1. rq'[p] = rq[p]
    BY <1>3, <1>9 DEF BothIdle, ReqKeeps, ReqStartsData, ReqStartsWrite, StartsWrite,
         ReqStartsInst, ReqSendsOneCell, ReqSendsStore, ReqEnds, OneCellStates
  <2>2. ~rs[p].dOk /\ ~rs[p].iOk
    BY <1>1, <1>9 DEF ServiceInv
  <2>3. CASE rs[p].fsm = "RSP_DMISS"
    <3>1. dm[p].req /\ DataRspState(p) = "RSP_DMISS" /\ rs[p].dRetry
      BY <1>1, <1>9, <2>3 DEF ServiceInv
    <3>2. SameRequest(p) /\ DataRspState(p)' = DataRspState(p)
      BY <1>5, <1>7, <2>2, <3>1
    <3>3. /\ rs'[p].fsm \in {"RSP_DMISS", "RSP_IDLE"} /\ rs'[p].dRetry
          /\ ~rs'[p].dOk /\ ~rs'[p].iOk
      BY <1>4, <2>2, <2>3, <3>1
         DEF RspKeeps, RspStarts, RspTakesLineCell, RspTakesOneCell, FlagsAfter, BothIdle
    <3> QED BY <1>9, <2>1, <3>1, <3>2, <3>3
         DEF ServiceInv, SameRequest, DataCellStates, OneCellStates
  <2>4. CASE rs[p].fsm # "RSP_DMISS"
    <3>1. rs[p].fsm = "RSP_IMISS" /\ ic[p].req /\ rs[p].iRetry
      BY <1>1, <1>9, <2>4 DEF ServiceInv
    <3>2. ic'[p].req
      BY <1>2, <1>7, <2>2, <3>1 DEF IcEffect
    <3>3. /\ rs'[p].fsm \in {"RSP_IMISS", "RSP_IDLE"} /\ rs'[p].iRetry
          /\ ~rs'[p].dOk /\ ~rs'[p].iOk
      BY <1>4, <2>2, <3>1
         DEF RspKeeps, RspStarts, RspTakesLineCell, RspTakesOneCell, FlagsAfter, BothIdle
    <3> QED BY <1>9, <2>1, <3>2, <3>3
         DEF ServiceInv, DataCellStates, OneCellStates
  <2> QED BY <2>3, <2>4
<1>10. CASE rq[p].fsm \in DataCellStates \cup {"REQ_WRITE"}
  <2>1. /\ rs[p].fsm = DataRspState(p) /\ rs[p].cpt = 0
        /\ ~rs[p].dOk /\ ~rs[p].dRetry /\ ~rs[p].iOk /\ ~rs[p].iRetry
        /\ dm[p].req \/ dm[p].flush
    BY <1>1, <1>10 DEF ServiceInv
  <2>2. ~rspval
    BY <1>10 DEF ResponseOK, DataCellStates, OneCellStates
  <2>3. RspKeeps(p, rspval)
    BY <1>4, <1>6, <1>10, <2>1, <2>2
       DEF RspStarts, RspTakesLineCell, RspTakesOneCell, BothIdle, DataCellStates, OneCellStates
  <2>4. /\ rs'[p].fsm = rs[p].fsm /\ rs'[p].cpt = 0
        /\ ~rs'[p].dOk /\ ~rs'[p].dRetry /\ ~rs'[p].iOk /\ ~rs'[p].iRetry
    BY <2>1, <2>3 DEF RspKeeps, FlagsAfter
  <2>5. /\ SameRequest(p) /\ DataRspState(p)' = DataRspState(p)
        /\ dm[p].req => DataReqState(p)' = DataReqState(p)
    BY <1>5, <1>7, <2>1
  <2>6. CASE rq[p].fsm \in DataCellStates
    <3>1. dm[p].req /\ rq[p].fsm = DataReqState(p) /\ rq[p].addr = dc[p].addr
          /\ (dc[p].sc => rq[p].data = dc[p].data)
      BY <1>1, <2>6 DEF ServiceInv
    <3>2. \/ rq'[p] = rq[p]
          \/ rq'[p].fsm = "REQ_DWAIT"
      BY <1>3, <2>6 DEF BothIdle, ReqKeeps, ReqStartsData, ReqStartsWrite, StartsWrite,
           ReqStartsInst, ReqSendsOneCell, ReqSendsStore, ReqEnds, DataCellStates, OneCellStates
    <3> QED BY <1>6, <2>1, <2>4, <2>5, <2>6, <3>1, <3>2
         DEF ServiceInv, SameRequest, DataCellStates, OneCellStates
  <2>7. CASE rq[p].fsm = "REQ_WRITE"
    <3>1. dm[p].flush
      BY <1>1, <2>7 DEF ServiceInv
    <3>2. rq'[p].fsm \in {"REQ_WRITE", "REQ_DWAIT"}
      BY <1>3, <2>7 DEF BothIdle, ReqKeeps, ReqStartsData, ReqStartsWrite, StartsWrite,
           ReqStartsInst, ReqSendsOneCell, ReqSendsStore, ReqEnds, OneCellStates
    <3> QED BY <2>1, <2>4, <2>5, <3>1, <3>2
         DEF ServiceInv, SameRequest, DataCellStates, OneCellStates
  <2> QED BY <1>10, <2>6, <2>7
<1>11. CASE rq[p].fsm = "REQ_IMISS"
  <2>1. /\ rs[p].fsm = "RSP_IMISS" /\ rs[p].cpt = 0 /\ ic[p].req
        /\ ~rs[p].dOk /\ ~rs[p].dRetry /\ ~rs[p].iOk /\ ~rs[p].iRetry
    BY <1>1, <1>11 DEF ServiceInv
  <2>2. ~rspval
    BY <1>11 DEF ResponseOK
  <2>3. /\ rs'[p].fsm = rs[p].fsm /\ rs'[p].cpt = 0
        /\ ~rs'[p].dOk /\ ~rs'[p].dRetry /\ ~rs'[p].iOk /\ ~rs'[p].iRetry
    BY <1>4, <2>1, <2>2
       DEF RspKeeps, RspStarts, RspTakesLineCell, RspTakesOneCell, FlagsAfter, BothIdle
  <2>4. ic'[p].req
    BY <1>2, <1>7, <2>1 DEF IcEffect
  <2>5. rq'[p].fsm \in {"REQ_IMISS", "REQ_IWAIT"}
    BY <1>3, <1>11 DEF BothIdle, ReqKeeps, ReqStartsData, ReqStartsWrite, StartsWrite,
         ReqStartsInst, ReqSendsOneCell, ReqSendsStore, ReqEnds, OneCellStates
  <2> QED BY <2>1, <2>3, <2>4, <2>5 DEF ServiceInv, DataCellStates, OneCellStates
<1>12. CASE rq[p].fsm = "REQ_DWAIT"
  <2>1. /\ ~rs[p].iOk /\ ~rs[p].iRetry
        /\ dm[p].req \/ dm[p].flush
        /\ \/ /\ rs[p].fsm = DataRspState(p) /\ ~rs[p].dOk
              /\ rs[p].fsm # "RSP_DMISS" => ~rs[p].dRetry
           \/ rs[p].fsm = "RSP_IDLE" /\ (rs[p].dOk <=> ~rs[p].dRetry)
    BY <1>1, <1>12 DEF ServiceInv
  <2>2. rq'[p].fsm = IF rs[p].dOk \/ rs[p].dRetry THEN "REQ_IDLE" ELSE "REQ_DWAIT"
    BY <1>3, <1>12 DEF BothIdle, ReqKeeps, ReqStartsData, ReqStartsWrite, StartsWrite,
         ReqStartsInst, ReqSendsOneCell, ReqSendsStore, ReqEnds, OneCellStates
  <2>3. CASE rs[p].dOk
    <3>1. rs[p].fsm = "RSP_IDLE"
      BY <2>1, <2>3
    <3>2. rs'[p].fsm = "RSP_IDLE" /\ ~rs'[p].dOk /\ ~rs'[p].iOk
      BY <1>4, <1>7, <1>12, <2>1, <2>3, <3>1
         DEF RspKeeps, RspStarts, RspTakesLineCell, RspTakesOneCell, FlagsAfter, BothIdle
    <3> QED BY <2>2, <2>3, <3>2 DEF ServiceInv, DataCellStates, OneCellStates
  <2>4. CASE ~rs[p].dOk
    <3>1. SameRequest(p) /\ DataRspState(p)' = DataRspState(p)
      BY <1>5, <1>7, <2>1, <2>4
    <3>2. ~rs'[p].iOk /\ ~rs'[p].iRetry
      BY <1>4, <1>6, <1>12, <2>1
         DEF RspKeeps, RspStarts, RspTakesLineCell, RspTakesOneCell, FlagsAfter, BothIdle
    <3>3. CASE rs[p].fsm = "RSP_IDLE"
      <4>1. rs[p].dRetry
        BY <2>1, <2>4, <3>3, <1>6
      <4>2. rs'[p].fsm = "RSP_IDLE" /\ ~rs'[p].dOk
        BY <1>4, <1>7, <1>12, <2>4, <3>3
           DEF RspKeeps, RspStarts, RspTakesLineCell, RspTakesOneCell, FlagsAfter, BothIdle
      <4> QED BY <2>2, <3>2, <4>1, <4>2 DEF ServiceInv, DataCellStates, OneCellStates
    <3>4. CASE rs[p].fsm # "RSP_IDLE" /\ rs[p].dRetry
      <4>1. rs[p].fsm = "RSP_DMISS" /\ DataRspState(p) = "RSP_DMISS" /\ dm[p].req
        BY <1>6, <2>1, <3>4
      <4>2. rs'[p].fsm \in {"RSP_DMISS", "RSP_IDLE"} /\ rs'[p].dRetry /\ ~rs'[p].dOk
        BY <1>4, <2>4, <3>4, <4>1
           DEF RspKeeps, RspStarts, RspTakesLineCell, RspTakesOneCell, FlagsAfter, BothIdle
      <4> QED BY <2>2, <3>1, <3>2, <3>4, <4>1, <4>2
           DEF ServiceInv, SameRequest, DataCellStates, OneCellStates
    <3>5. CASE rs[p].fsm # "RSP_IDLE" /\ ~rs[p].dRetry
      <4>1. rs[p].fsm = DataRspState(p)
        BY <2>1, <3>5
      <4>2. \/ /\ rs'[p].fsm = rs[p].fsm /\ ~rs'[p].dOk
               /\ rs[p].fsm # "RSP_DMISS" => ~rs'[p].dRetry
            \/ rs'[p].fsm = "RSP_IDLE" /\ (rs'[p].dOk <=> ~rs'[p].dRetry)
        <5>1. CASE RspKeeps(p, rspval)
          BY <2>4, <3>5, <5>1 DEF RspKeeps, FlagsAfter
        <5>2. CASE RspTakesLineCell(p, rspval)
          BY <1>6, <2>4, <3>5, <4>1, <5>2 DEF RspTakesLineCell, FlagsAfter
        <5>3. CASE RspTakesOneCell(p, rspval)
          BY <2>4, <3>5, <5>3 DEF RspTakesOneCell, FlagsAfter
        <5> QED BY <1>4, <1>12, <5>1, <5>2, <5>3 DEF RspStarts, BothIdle
      <4>3. rq'[p].fsm = "REQ_DWAIT"
        BY <2>2, <2>4, <3>5
      <4>4. dm'[p].req \/ dm'[p].flush
        BY <2>1, <3>1 DEF SameRequest
      <4> QED BY <3>1, <3>2, <4>1, <4>2, <4>3, <4>4
           DEF ServiceInv, DataCellStates, OneCellStates
    <3> QED BY <3>3, <3>4, <3>5
  <2> QED BY <2>3, <2>4
<1>13. CASE rq[p].fsm = "REQ_IWAIT"
  <2>1. /\ ic[p].req /\ ~rs[p].dOk /\ ~rs[p].dRetry
        /\ \/ rs[p].fsm = "RSP_IMISS" /\ ~rs[p].iOk
           \/ rs[p].fsm = "RSP_IDLE" /\ (rs[p].iOk <=> ~rs[p].iRetry)
    BY <1>1, <1>13 DEF ServiceInv
  <2>2. rq'[p].fsm = IF rs[p].iOk \/ rs[p].iRetry THEN "REQ_IDLE" ELSE "REQ_IWAIT"
    BY <1>3, <1>13 DEF BothIdle, ReqKeeps, ReqStartsData, ReqStartsWrite, StartsWrite,
         ReqStartsInst, ReqSendsOneCell, ReqSendsStore, ReqEnds, OneCellStates
  <2>3. ~rs'[p].dOk /\ ~rs'[p].dRetry
    BY <1>4, <1>13, <2>1
       DEF RspKeeps, RspStarts, RspTakesLineCell, RspTakesOneCell, FlagsAfter, BothIdle
  <2>4. CASE rs[p].fsm = "RSP_IDLE"
    <3>1. rs'[p].fsm = "RSP_IDLE" /\ ~rs'[p].iOk /\ rq'[p].fsm = "REQ_IDLE"
      BY <1>4, <1>7, <1>13, <2>1, <2>2, <2>4
         DEF RspKeeps, RspStarts, RspTakesLineCell, RspTakesOneCell, FlagsAfter, BothIdle
    <3> QED BY <2>3, <3>1 DEF ServiceInv, DataCellStates, OneCellStates
  <2>5. CASE rs[p].fsm = "RSP_IMISS"
    <3>1. ~rs[p].iOk
      BY <2>1, <2>5
    <3>2. ic'[p].req
      BY <1>2, <1>7, <2>1, <3>1 DEF IcEffect
    <3>3. /\ \/ rs'[p].fsm = "RSP_IMISS" /\ ~rs'[p].iOk
             \/ rs'[p].fsm = "RSP_IDLE" /\ (rs'[p].iOk <=> ~rs'[p].iRetry)
          /\ rs[p].iRetry => rs'[p].iRetry /\ ~rs'[p].iOk
      BY <1>4, <2>5, <3>1
         DEF RspKeeps, RspStarts, RspTakesLineCell, RspTakesOneCell, FlagsAfter, BothIdle
    <3> QED BY <2>2, <2>3, <3>1, <3>2, <3>3 DEF ServiceInv, DataCellStates, OneCellStates
  <2> QED BY <2>1, <2>4, <2>5
<1> QED BY <1>6, <1>8, <1>9, <1>10, <1>11, <1>12, <1>13
        DEF BothIdle, ReqStates, DataCellStates, OneCellStates

-----------------------------------------------------------------------------
(* The write buffer holds the packet from the first store to its acceptance. *)

LEMMA BufferFacts ==
  ASSUME NEW b \in WbRegs, b.ptr <= Len(b.cells), Len(b.cells) <= BufferSize
  PROVE  /\ InitRead(b) \in WbRegs /\ InitRead(b).cells = b.cells /\ InitRead(b).ptr = 0
         /\ EmptyBuffer \in WbRegs /\ EmptyBuffer.cells = <<>> /\ EmptyBuffer.ptr = 0
         /\ b.ptr < Len(b.cells) =>
              SimpleGet(b) \in WbRegs /\ SimpleGet(b).cells = b.cells
              /\ SimpleGet(b).ptr = b.ptr + 1
         /\ b.ptr = Len(b.cells) => SimpleGet(b) = b
         /\ \A c \in [addr : Addr, data : Word] : Len(b.cells) < BufferSize =>
              SimplePut(b, c) \in WbRegs /\ SimplePut(b, c).cells = Append(b.cells, c)
              /\ SimplePut(b, c).ptr = b.ptr
         /\ \A c : Len(b.cells) = BufferSize => SimplePut(b, c) = b
<1>1. /\ b.cells \in Seq([addr : Addr, data : Word]) /\ b.ptr \in 0 .. BufferSize
      /\ Len(b.cells) \in Nat /\ BufferSize \in Nat
  BY SizeFacts DEF WbRegs
<1>2. 0 \in 0 .. BufferSize /\ <<>> \in Seq([addr : Addr, data : Word])
  BY SizeFacts
<1>3. InitRead(b) \in WbRegs /\ InitRead(b).cells = b.cells /\ InitRead(b).ptr = 0
  BY <1>1, <1>2 DEF InitRead, WbRegs
<1>4. EmptyBuffer \in WbRegs /\ EmptyBuffer.cells = <<>> /\ EmptyBuffer.ptr = 0
  BY <1>2 DEF EmptyBuffer, WbRegs
<1>5. ASSUME b.ptr < Len(b.cells)
      PROVE  SimpleGet(b) \in WbRegs /\ SimpleGet(b).cells = b.cells
             /\ SimpleGet(b).ptr = b.ptr + 1
  <2>1. SimpleGet(b) = [b EXCEPT !.ptr = b.ptr + 1]
    BY <1>1, <1>5 DEF SimpleGet, Rok, FilledStatus
  <2>2. b.ptr + 1 \in 0 .. BufferSize
    BY <1>1, <1>5
  <2> DEFINE n == b.ptr + 1
  <2> HIDE DEF n
  <2> QED BY <1>1, <2>1, <2>2 DEF WbRegs, n
<1>6. ASSUME b.ptr = Len(b.cells)
      PROVE  SimpleGet(b) = b
  BY <1>1, <1>6 DEF SimpleGet, Rok, FilledStatus
<1>7. ASSUME NEW c \in [addr : Addr, data : Word], Len(b.cells) < BufferSize
      PROVE  SimplePut(b, c) \in WbRegs /\ SimplePut(b, c).cells = Append(b.cells, c)
             /\ SimplePut(b, c).ptr = b.ptr
  <2> DEFINE n == Append(b.cells, c)
  <2>1. SimplePut(b, c) = [b EXCEPT !.cells = n]
    BY <1>1, <1>7 DEF SimplePut, Wok
  <2>2. n \in Seq([addr : Addr, data : Word])
    BY <1>1
  <2> HIDE DEF n
  <2>3. [b EXCEPT !.cells = n] \in WbRegs /\ [b EXCEPT !.cells = n].cells = n
        /\ [b EXCEPT !.cells = n].ptr = b.ptr
    BY <2>2 DEF WbRegs
  <2> USE DEF n
  <2> QED BY <2>1, <2>3
<1>8. \A c : Len(b.cells) = BufferSize => SimplePut(b, c) = b
  BY DEF SimplePut, Wok
<1> QED BY <1>3, <1>4, <1>5, <1>6, <1>7, <1>8

(* When the cell enters the buffer, when it is read and when it is kept.   *)
LEMMA AnsweredFacts ==
  ASSUME CacheTypeOK, NEW p \in Procs, CacheInv(p), ResponseOK(p),
         NEW rspval \in BOOLEAN, rspval => rsp[p] # NoCell, WriteAnswered(p, rspval)
  PROVE  /\ dm[p].flush /\ ~dm[p].req /\ rq[p].fsm = "REQ_DWAIT"
         /\ ~rs[p].dOk /\ ~rs[p].dRetry /\ ~Gets(p) /\ ~Puts(p)
<1>1. rq[p].fsm = "REQ_DWAIT" /\ rs[p].fsm = "RSP_WRITE"
  BY DEF WriteAnswered, ResponseOK, CacheInv, ServiceInv
<1>2. dm[p].flush /\ ~dm[p].req /\ ~rs[p].dOk /\ ~rs[p].dRetry
  BY <1>1 DEF CacheInv, ServiceInv, DataRspState
<1> QED BY <1>1, <1>2 DEF Gets, StartsWrite, Puts, Gathers

(* and the cells of the write buffer.                                      *)
LEMMA BufferStep ==
  ASSUME CacheTypeOK, NEW p \in Procs, CacheInv(p), ResponseOK(p),
         NEW rspval \in BOOLEAN, rspval => rsp[p] # NoCell,
         DCacheFsm(p), ReqFsm(p), WriteBuffer(p, rspval), RspFsm(p, rspval)
  PROVE  /\ BufferInv(p)' /\ ContiguousInv(p)'
         /\ wb'[p] \in WbRegs
         /\ wb'[p].ptr <= Len(wb'[p].cells) /\ Len(wb'[p].cells) <= BufferSize
<1> DEFINE b == wb[p]
           C == [addr : Addr, data : Word]
           c == [addr |-> dm[p].addr, data |-> dm[p].data]
<1>1. RequestInv(p) /\ ServiceInv(p) /\ InvalInv(p) /\ BufferInv(p) /\ ContiguousInv(p)
  BY DEF CacheInv
<1>2. /\ dm[p] \in DmRegs /\ rq[p] \in RqRegs /\ rs[p] \in RsRegs /\ b \in WbRegs
      /\ b.ptr <= Len(b.cells) /\ Len(b.cells) <= BufferSize /\ BufferSize \in Nat \ {0}
      /\ b.cells \in Seq(C) /\ b.ptr \in Nat /\ Len(b.cells) \in Nat
  <2>1. /\ dm[p] \in DmRegs /\ rq[p] \in RqRegs /\ rs[p] \in RsRegs /\ b \in WbRegs
        /\ b.ptr <= Len(b.cells) /\ Len(b.cells) <= BufferSize /\ BufferSize \in Nat \ {0}
    BY RegTypes, SizeFacts
  <2>2. b.cells \in Seq(C) /\ b.ptr \in 0 .. BufferSize
    BY <2>1 DEF WbRegs
  <2> HIDE DEF b, C
  <2>3. Len(b.cells) \in Nat /\ b.ptr \in Nat
    BY <2>1, <2>2
  <2> QED BY <2>1, <2>2, <2>3
<1>3. wb'[p] = IF WriteAnswered(p, rspval)
               THEN IF rsp[p].error THEN InitRead(b) ELSE EmptyBuffer
               ELSE IF Gets(p) THEN SimpleGet(b)
               ELSE IF Puts(p) THEN SimplePut(b, c) ELSE b
  BY BufferAt
<1>4. /\ InitRead(b) \in WbRegs /\ InitRead(b).cells = b.cells /\ InitRead(b).ptr = 0
      /\ EmptyBuffer \in WbRegs /\ EmptyBuffer.cells = <<>> /\ EmptyBuffer.ptr = 0
      /\ b.ptr < Len(b.cells) =>
           SimpleGet(b) \in WbRegs /\ SimpleGet(b).cells = b.cells
           /\ SimpleGet(b).ptr = b.ptr + 1
      /\ \A x \in C : Len(b.cells) < BufferSize =>
           SimplePut(b, x) \in WbRegs /\ SimplePut(b, x).cells = Append(b.cells, x)
           /\ SimplePut(b, x).ptr = b.ptr
  BY <1>2, BufferFacts
<1>5. c \in C /\ c.addr = dm[p].addr /\ c.data = dm[p].data
  BY <1>2 DEF DmRegs
<1>6. /\ dm[p].addr \in Nat /\ \A j \in 1 .. Len(b.cells) : b.cells[j].addr \in Nat
  <2>1. \A j \in 1 .. Len(b.cells) : b.cells[j] \in C
    <3> HIDE DEF b, C
    <3> QED BY <1>2
  <2>2. dm[p].addr \in Addr /\ \A j \in 1 .. Len(b.cells) : b.cells[j].addr \in Addr
    BY <1>2, <2>1 DEF DmRegs
  <2>3. Addr \subseteq Nat
    BY NbWordsAssumption DEF Addr
  <2> QED BY <2>2, <2>3
<1>7. \/ ReqKeeps(p) \/ ReqStartsData(p) \/ ReqStartsWrite(p) \/ ReqStartsInst(p)
      \/ ReqSendsOneCell(p) \/ ReqSendsStore(p) \/ ReqEnds(p)
  BY ReqEffect
<1>8. /\ rs[p].dOk <=> DataDone(p)
      /\ DataDone(p) => dm[p].req \/ dm[p].flush
  BY <1>1, OkIsDone
<1>9. rq[p].fsm \in ReqStates
  BY <1>2 DEF RqRegs
<1>10. \/ RspKeeps(p, rspval) \/ RspStarts(p)
       \/ RspTakesLineCell(p, rspval) \/ RspTakesOneCell(p, rspval)
  BY RspEffect
<1>11. WriteAnswered(p, rspval) => 
         /\ dm[p].flush /\ ~dm[p].req /\ rq[p].fsm = "REQ_DWAIT"
         /\ ~rs[p].dOk /\ ~rs[p].dRetry /\ ~Gets(p) /\ ~Puts(p)
  BY AnsweredFacts
<1>12. /\ Gets(p) => dm[p].flush /\ dm[p].pending
       /\ Puts(p) => dm[p].pending /\ ~dm[p].flush
       /\ dm[p].flush => dm[p].pending /\ ~dm[p].req
  BY <1>1 DEF Gets, StartsWrite, Puts, Gathers, ServiceInv, RequestInv
<1> HIDE DEF b, C, c
<1>13. CASE ~dm[p].pending
  <2>1. ~WriteAnswered(p, rspval) /\ ~Gets(p) /\ ~Puts(p) /\ ~dm[p].flush
    BY <1>11, <1>12, <1>13
  <2>2. b = EmptyBuffer
    BY <1>1, <1>13 DEF BufferInv, b
  <2>3. wb'[p] = EmptyBuffer /\ Len(wb'[p].cells) = 0
    BY <1>3, <1>4, <2>1, <2>2
  <2>4. rq'[p].fsm # "REQ_WRITE"
    BY <1>1, <1>7, <2>1 DEF ReqKeeps, ReqStartsData, ReqStartsWrite, StartsWrite, DataReqState,
       ReqStartsInst, ReqSendsOneCell, ReqSendsStore, ReqEnds, ServiceInv
  <2>5. ~dm'[p].flush
    <3>1. CASE KeepsRequest(p)
      BY <1>2, <2>1, <3>1 DEF KeepsRequest, DmAfter, DmRegs
    <3>2. CASE StartsRequest(p)
      BY <1>2, <2>1, <3>2 DEF StartsRequest, DmRegs
    <3>3. CASE StartsStores(p)
      BY <1>2, <2>1, <3>3 DEF StartsStores, DmRegs
    <3> QED BY <1>1, <1>13, <3>1, <3>2, <3>3, DcEffect
            DEF MergesStore, AddsStore, FlushesStores
  <2> QED BY <1>2, <1>4, <2>3, <2>4, <2>5 DEF BufferInv, ContiguousInv
<1>14. CASE dm[p].pending /\ ~dm[p].flush
  <2>1. ~WriteAnswered(p, rspval) /\ ~Gets(p) /\ ~dm[p].req /\ ~DataDone(p)
    BY <1>1, <1>8, <1>11, <1>12, <1>14 DEF RequestInv
  <2>2. rq[p].fsm \in {"REQ_IDLE", "REQ_IMISS", "REQ_IWAIT"}
    BY <1>1, <1>9, <1>14, <2>1 DEF ServiceInv, ReqStates, DataCellStates, OneCellStates
  <2>3. rq'[p].fsm \in {"REQ_IDLE", "REQ_IMISS", "REQ_IWAIT"}
    BY <1>7, <1>14, <2>1, <2>2 DEF ReqKeeps, ReqStartsData, ReqStartsWrite, StartsWrite,
       ReqStartsInst, ReqSendsOneCell, ReqSendsStore, ReqEnds, OneCellStates
  <2>4. b.ptr = 0 /\ Len(b.cells) < BufferSize
        /\ \A j \in 1 .. Len(b.cells) :
             b.cells[j].addr = dm[p].addr - Len(b.cells) + j - 1
    BY <1>1, <1>14 DEF BufferInv, ContiguousInv, b
  <2>5. ~rs'[p].dOk
    BY <1>8, <1>10, <2>1, <2>2, <1>1
       DEF RspKeeps, RspStarts, RspTakesLineCell, RspTakesOneCell, FlagsAfter, ResponseOK,
           ServiceInv, DataRspState
  <2>6. CASE KeepsRequest(p) \/ MergesStore(p)
    <3>1. wb'[p] = b
      BY <1>3, <2>1, <2>6 DEF KeepsRequest, MergesStore
    <3>2. dm'[p].pending /\ ~dm'[p].flush /\ dm'[p].addr = dm[p].addr
      <4>1. CASE KeepsRequest(p)
        BY <1>14, <2>1, <4>1 DEF KeepsRequest, DmAfter
      <4>2. CASE MergesStore(p)
        <5> DEFINE d == Merge(dm[p].data, cpu[p].data, cpu[p].be)
                   l == dm[p].wl \cup cpu[p].be
                   f == IF dm[p].first THEN dm[p].wf \cup cpu[p].be ELSE dm[p].wf
        <5>1. dm'[p] = [dm[p] EXCEPT !.data = d, !.wl = l, !.wf = f]
          BY <4>2 DEF MergesStore
        <5> HIDE DEF d, l, f
        <5> QED BY <1>2, <1>14, <5>1 DEF DmRegs
      <4> QED BY <2>6, <4>1, <4>2
    <3> QED BY <1>2, <2>3, <2>4, <3>1, <3>2 DEF BufferInv, ContiguousInv
  <2>7. CASE AddsStore(p) \/ FlushesStores(p)
    <3>1. /\ wb'[p] \in WbRegs /\ wb'[p].cells = Append(b.cells, c) /\ wb'[p].ptr = 0
      BY <1>3, <1>4, <1>5, <2>1, <2>4, <2>7 DEF AddsStore, FlushesStores
    <3>2. /\ Len(wb'[p].cells) = Len(b.cells) + 1
          /\ wb'[p].cells[Len(b.cells) + 1].addr = dm[p].addr
          /\ \A j \in 1 .. Len(b.cells) : wb'[p].cells[j] = b.cells[j]
      BY <1>2, <1>5, <3>1
    <3>3. \A j \in 1 .. Len(wb'[p].cells) :
            wb'[p].cells[j].addr = dm[p].addr - Len(wb'[p].cells) + j
      <4> SUFFICES ASSUME NEW j \in 1 .. Len(b.cells) + 1
                   PROVE  wb'[p].cells[j].addr = dm[p].addr - (Len(b.cells) + 1) + j
        BY <3>2
      <4>1. CASE j = Len(b.cells) + 1
        BY <1>2, <1>6, <3>2, <4>1
      <4>2. CASE j \in 1 .. Len(b.cells)
        <5>1. wb'[p].cells[j].addr = dm[p].addr - Len(b.cells) + j - 1
          BY <2>4, <3>2, <4>2
        <5>2. dm[p].addr \in Int /\ Len(b.cells) \in Int /\ j \in Int
          BY <1>2, <1>6, <4>2
        <5> QED BY <5>1, <5>2
      <4> QED BY <1>2, <4>1, <4>2
    <3>4. CASE AddsStore(p)
      <4>1. /\ dm'[p] = [dm[p] EXCEPT !.first = FALSE, !.addr = cpu[p].addr,
                                      !.data = cpu[p].data, !.wl = cpu[p].be]
            /\ cpu[p].addr = dm[p].addr + 1 /\ Len(b.cells) - b.ptr # BufferSize - 1
        BY <3>4 DEF AddsStore, Continues, FilledStatus, b
      <4>2. dm'[p].pending /\ ~dm'[p].flush /\ dm'[p].addr = dm[p].addr + 1
        BY <1>2, <1>14, <4>1 DEF DmRegs
      <4>3. Len(wb'[p].cells) < BufferSize
        BY <1>2, <2>4, <3>2, <4>1
      <4>4. \A j \in 1 .. Len(wb'[p].cells) :
              wb'[p].cells[j].addr = dm'[p].addr - Len(wb'[p].cells) + j - 1
        BY <1>2, <1>6, <3>2, <3>3, <4>2
      <4> QED BY <1>2, <2>3, <3>1, <4>2, <4>3, <4>4 DEF BufferInv, ContiguousInv
    <3>5. CASE FlushesStores(p)
      <4>1. dm'[p] = [dm[p] EXCEPT !.first = FALSE, !.flush = TRUE,
                                   !.size = Len(b.cells) - b.ptr + 1]
        BY <3>5 DEF FlushesStores, BurstSize, FilledStatus, b
      <4>2. dm'[p].pending /\ dm'[p].flush /\ dm'[p].addr = dm[p].addr
            /\ dm'[p].size = Len(b.cells) + 1
        BY <1>2, <1>14, <2>4, <4>1 DEF DmRegs
      <4> QED BY <1>2, <2>3, <2>4, <2>5, <3>1, <3>2, <3>3, <4>2 DEF BufferInv, ContiguousInv
    <3> QED BY <2>7, <3>4, <3>5
  <2> QED BY <1>1, <1>14, <2>6, <2>7, DcEffect DEF StartsRequest, StartsStores
<1>15. CASE dm[p].flush
  <2>1. ~Puts(p) /\ ~dm[p].req /\ dm[p].pending
    BY <1>12, <1>15
  <2>2. IF DataDone(p) THEN ~dm'[p].req /\ ~dm'[p].flush /\ ~dm'[p].pending
        ELSE dm'[p] = dm[p]
    BY <1>1, <1>15, RequestHeld DEF SameRequest
  <2>3. CASE DataDone(p)
    <3>1. rs[p].fsm = "RSP_IDLE" /\ rq[p].fsm = "REQ_DWAIT" /\ rs[p].dOk
      BY <1>1, <1>8, <2>1, <2>3 DEF DataDone, ServiceInv, DataRspState
    <3>2. b = EmptyBuffer
      BY <1>1, <1>15, <3>1 DEF BufferInv, b
    <3>3. wb'[p] = EmptyBuffer /\ Len(wb'[p].cells) = 0
      BY <1>3, <1>4, <2>1, <3>1, <3>2 DEF WriteAnswered, Gets, StartsWrite
    <3>4. rq'[p].fsm # "REQ_WRITE"
      BY <1>7, <3>1 DEF ReqKeeps, ReqStartsData, ReqStartsWrite, StartsWrite, BothIdle,
         ReqStartsInst, ReqSendsOneCell, ReqSendsStore, ReqEnds
    <3> QED BY <1>2, <1>4, <2>2, <2>3, <3>3, <3>4 DEF BufferInv, ContiguousInv
  <2>4. CASE ~DataDone(p)
    <3>1. /\ dm'[p] = dm[p] /\ dm[p].size = Len(b.cells) /\ dm[p].size > 0 /\ ~rs[p].dOk
          /\ rq[p].fsm = "REQ_DWAIT" =>
               b.ptr = IF rs[p].fsm = "RSP_IDLE" THEN 0 ELSE dm[p].size
          /\ rq[p].fsm \notin {"REQ_WRITE", "REQ_DWAIT"} => b.ptr = 0
      BY <1>1, <1>8, <1>15, <2>2, <2>4 DEF BufferInv, b
    <3>2. wb'[p].cells = b.cells => ContiguousInv(p)'
      BY <1>1, <1>15, <2>1, <3>1 DEF ContiguousInv, b
    <3>3. CASE rq[p].fsm = "REQ_DWAIT"
      <4>1. rq'[p].fsm = IF rs[p].dRetry THEN "REQ_IDLE" ELSE "REQ_DWAIT"
        BY <1>7, <3>1, <3>3 DEF ReqKeeps, ReqStartsData, ReqStartsWrite, StartsWrite, BothIdle,
           ReqStartsInst, ReqSendsOneCell, ReqSendsStore, ReqEnds, OneCellStates
      <4>2. \/ rs[p].fsm = "RSP_WRITE" /\ ~rs[p].dRetry
            \/ rs[p].fsm = "RSP_IDLE" /\ rs[p].dRetry
        BY <1>1, <2>1, <3>1, <3>3 DEF ServiceInv, DataRspState
      <4>3. ~Gets(p)
        BY <3>3 DEF Gets, StartsWrite
      <4>4. CASE WriteAnswered(p, rspval)
        <5>1. RspTakesOneCell(p, rspval)
          BY <1>10, <3>3, <4>4
             DEF WriteAnswered, RspKeeps, RspStarts, RspTakesLineCell, BothIdle
        <5>2. rs'[p].fsm = "RSP_IDLE" /\ (rs'[p].dOk <=> ~rsp[p].error)
          BY <3>1, <5>1 DEF RspTakesOneCell, FlagsAfter
        <5>3. rq'[p].fsm = "REQ_DWAIT"
          BY <1>11, <4>1, <4>4
        <5>4. CASE rsp[p].error
          <6>1. wb'[p] = InitRead(b)
            BY <1>3, <4>4, <5>4
          <6>2. wb'[p] \in WbRegs /\ wb'[p].cells = b.cells /\ wb'[p].ptr = 0
            BY <1>4, <6>1
          <6> QED BY <1>2, <1>15, <2>1, <3>1, <3>2, <5>2, <5>3, <5>4, <6>2 DEF BufferInv
        <5>5. CASE ~rsp[p].error
          <6>1. wb'[p] = EmptyBuffer /\ Len(wb'[p].cells) = 0
            BY <1>3, <1>4, <4>4, <5>5
          <6> QED BY <1>2, <1>4, <1>15, <2>1, <3>1, <5>2, <5>3, <5>5, <6>1
                  DEF BufferInv, ContiguousInv
        <5> QED BY <5>4, <5>5
      <4>5. CASE ~WriteAnswered(p, rspval)
        <5>1. wb'[p] = b
          BY <1>3, <2>1, <4>3, <4>5
        <5>2. rs'[p].fsm = rs[p].fsm /\ ~rs'[p].dOk
          BY <1>10, <3>1, <3>3, <4>2, <4>5
             DEF WriteAnswered, RspKeeps, RspStarts, RspTakesLineCell, RspTakesOneCell,
                 BothIdle, FlagsAfter
        <5> QED BY <1>2, <1>15, <2>1, <3>1, <3>2, <3>3, <4>1, <4>2, <5>1, <5>2
                DEF BufferInv, b
      <4> QED BY <4>4, <4>5
    <3>4. CASE StartsWrite(p)
      <4>1. ReqStartsWrite(p)
        BY <1>7, <3>4 DEF ReqKeeps, ReqStartsData, StartsWrite, BothIdle,
           ReqStartsInst, ReqSendsOneCell, ReqSendsStore, ReqEnds, OneCellStates
      <4>2. b.ptr = 0
        BY <3>1, <3>4 DEF StartsWrite
      <4>3. wb'[p] \in WbRegs /\ wb'[p].cells = b.cells /\ wb'[p].ptr = 1
        BY <1>2, <1>3, <1>4, <1>11, <3>1, <3>4, <4>2 DEF Gets
      <4>4. ~rs'[p].dOk
        BY <1>10, <3>1, <3>4 DEF StartsWrite, RspKeeps, RspStarts, RspTakesLineCell,
           RspTakesOneCell, FlagsAfter
      <4>5. /\ rq'[p].fsm = "REQ_WRITE" /\ rq'[p].cpt = 0
            /\ rq'[p].addr = b.cells[1].addr /\ rq'[p].data = b.cells[1].data
        BY <4>1, <4>2 DEF ReqStartsWrite, ReadCell, b
      <4> QED BY <1>2, <1>15, <2>1, <3>1, <3>2, <4>3, <4>4, <4>5 DEF BufferInv
    <3>5. CASE rq[p].fsm = "REQ_WRITE"
      <4>1. /\ b.ptr = rq[p].cpt + 1 /\ rq[p].cpt < dm[p].size /\ rq[p].cpt \in Nat
            /\ rq[p].addr = b.cells[b.ptr].addr /\ rq[p].data = b.cells[b.ptr].data
        BY <1>1, <1>2, <3>5 DEF BufferInv, RqRegs, b
      <4>2. rs[p].fsm = "RSP_WRITE" /\ ~rspval
        BY <1>1, <2>1, <3>5 DEF ServiceInv, DataRspState, ResponseOK
      <4>3. rs'[p].fsm = "RSP_WRITE" /\ ~rs'[p].dOk
        BY <1>10, <3>1, <4>2 DEF RspKeeps, RspStarts, RspTakesLineCell,
           RspTakesOneCell, FlagsAfter, BothIdle
      <4>4. ~WriteAnswered(p, rspval) /\ ~StartsWrite(p)
        BY <3>5, <4>2 DEF WriteAnswered, StartsWrite
      <4>5. CASE ReqKeeps(p)
        <5>1. wb'[p] = b
          BY <1>3, <2>1, <3>5, <4>4, <4>5 DEF Gets, ReqKeeps
        <5> QED BY <1>2, <1>15, <2>1, <3>1, <3>2, <3>5, <4>1, <4>3, <4>5, <5>1
                DEF BufferInv, ReqKeeps, b
      <4>6. CASE ReqSendsStore(p) /\ LastCell(p)
        <5>1. wb'[p] = b
          BY <1>3, <2>1, <3>5, <4>4, <4>6 DEF Gets
        <5>2. rq'[p].fsm = "REQ_DWAIT" /\ rq[p].cpt = dm[p].size - 1
          BY <4>6 DEF ReqSendsStore, LastCell
        <5> QED BY <1>2, <1>15, <2>1, <3>1, <3>2, <4>1, <4>3, <5>1, <5>2
                DEF BufferInv, b
      <4>7. CASE ReqSendsStore(p) /\ ~LastCell(p)
        <5>1. rq[p].cpt # dm[p].size - 1 /\ dm[p].size \in Nat
          BY <1>2, <4>7 DEF LastCell, DmRegs
        <5>2. Gets(p)
          BY <4>7 DEF Gets, ReqSendsStore
        <5>3. wb'[p] \in WbRegs /\ wb'[p].cells = b.cells /\ wb'[p].ptr = b.ptr + 1
          <6>1. b.ptr < Len(b.cells)
            BY <1>2, <3>1, <4>1, <5>1
          <6>2. wb'[p] = SimpleGet(b)
            BY <1>3, <4>4, <5>2
          <6> QED BY <1>4, <6>1, <6>2
        <5>4. /\ rq'[p].fsm = "REQ_WRITE" /\ rq'[p].cpt = rq[p].cpt + 1
              /\ rq'[p].addr = b.cells[b.ptr + 1].addr /\ rq'[p].data = b.cells[b.ptr + 1].data
          BY <4>7 DEF ReqSendsStore, ReadCell, b
        <5> QED BY <1>2, <1>15, <2>1, <3>1, <3>2, <4>1, <4>3, <5>1, <5>3, <5>4 DEF BufferInv
      <4> QED BY <1>7, <3>5, <4>4, <4>5, <4>6, <4>7
              DEF ReqStartsData, ReqStartsWrite, ReqStartsInst, ReqSendsOneCell, ReqEnds,
                  BothIdle, OneCellStates
    <3>6. CASE rq[p].fsm \in {"REQ_IMISS", "REQ_IWAIT"} \/ (rq[p].fsm = "REQ_IDLE" /\ rs[p].fsm # "RSP_IDLE")
      <4>1. ~Gets(p) /\ ~WriteAnswered(p, rspval)
        BY <1>11, <3>6 DEF Gets, StartsWrite
      <4>2. wb'[p] = b
        BY <1>3, <2>1, <4>1
      <4>3. rq'[p].fsm \in {"REQ_IMISS", "REQ_IWAIT", "REQ_IDLE"}
        BY <1>7, <1>15, <2>1, <3>6 DEF ReqKeeps, ReqStartsData, ReqStartsWrite, StartsWrite,
           BothIdle, ReqStartsInst, ReqSendsOneCell, ReqSendsStore, ReqEnds, OneCellStates
      <4>4. ~rs'[p].dOk
        <5>1. rs[p].fsm \in {"RSP_IMISS", "RSP_IDLE"}
          BY <1>1, <2>1, <3>6 DEF ServiceInv
        <5> QED BY <1>10, <3>1, <5>1 DEF RspKeeps, RspStarts, RspTakesLineCell,
           RspTakesOneCell, FlagsAfter
      <4> QED BY <1>2, <1>15, <2>1, <3>1, <3>2, <3>6, <4>2, <4>3, <4>4 DEF BufferInv, b
    <3> QED BY <1>1, <1>9, <1>15, <2>1, <3>3, <3>4, <3>5, <3>6
            DEF StartsWrite, ReqStates, OneCellStates, ServiceInv, DataCellStates
  <2> QED BY <2>3, <2>4
<1> QED BY <1>13, <1>14, <1>15

-----------------------------------------------------------------------------
(* Types. *)

LEMMA WordTypes ==
  /\ Zero \in Word
  /\ \A v, w \in Word : \A be : Merge(v, w, be) \in Word
BY ValAssumption DEF Zero, Word, Merge

LEMMA AddrTypes ==
  /\ \A a \in Addr : Block(a) \in Blocks /\ Slot(Block(a)) \in Slots /\ Offset(a) \in Offsets
  /\ \A b \in Blocks : b \in Nat /\ Slot(b) \in Slots /\ Base(b) \in Addr
                       /\ Base(b) \in Nat /\ Base(b) + LineWords <= NbWords
<1>1. LineWords \in Nat \ {0} /\ NbLines \in Nat \ {0} /\ NbWords \in Nat
  BY LineWordsAssumption, NbLinesAssumption, NbWordsAssumption
<1>2. \A b \in Nat : Slot(b) \in Slots
  BY <1>1 DEF Slot, Slots
<1>3. \A a \in Addr : a \in Nat /\ Block(a) \in Nat /\ Offset(a) \in Offsets
  BY <1>1 DEF Addr, Block, Offset, Offsets
<1>4. \A b \in Blocks : b \in Nat
  BY <1>3 DEF Blocks
<1>5. \A b \in Blocks : Base(b) \in Addr /\ Base(b) + LineWords <= NbWords
  BY LinesAssumption
<1>6. Addr \subseteq Nat
  BY <1>3
<1> QED BY <1>2, <1>3, <1>4, <1>5, <1>6 DEF Blocks

DataTyped ==
  /\ cpu' \in [Procs -> DataReq \cup {NoReq}]
  /\ dc' \in [Procs -> DcRegs]
  /\ tag' \in [Procs -> [Slots -> Blocks \cup {NoBlock}]]
  /\ line' \in [Procs -> [Slots -> [Offsets -> Word]]]
  /\ dm' \in [Procs -> DmRegs]

(* The auxiliary writes keep the types,                                    *)
LEMMA AnySetDmTyped ==
  ASSUME DataRegsOK, NEW p \in Procs, NEW d \in DmRegs, SetDm(p, d)
  PROVE  dm' \in [Procs -> DmRegs]
<1> DEFINE e == [d EXCEPT !.req = FALSE, !.flush = FALSE, !.pending = FALSE]
<1>1. e \in DmRegs
  BY DEF DmRegs
<1>2. dm' = [dm EXCEPT ![p] = IF DataDone(p) THEN e ELSE d]
  BY DEF SetDm
<1> HIDE DEF e
<1> QED BY <1>1, <1>2 DEF DataRegsOK

LEMMA AnyGoToTyped ==
  ASSUME DataRegsOK, NEW p \in Procs, NEW s \in DcStates, GoTo(p, s)
  PROVE  dc' \in [Procs -> DcRegs]
<1> DEFINE e == [dc[p] EXCEPT !.fsm = s]
<1>1. dc' = [dc EXCEPT ![p] = e]
  BY DEF GoTo
<1>2. e \in DcRegs
  BY AnyRegTypes DEF DcRegs
<1> HIDE DEF e
<1> QED BY <1>1, <1>2 DEF DataRegsOK

LEMMA AnySaveTyped ==
  ASSUME DataRegsOK, NEW p \in Procs, NEW s \in DcStates, SaveAndGoTo(p, s), cpu[p] # NoReq
  PROVE  dc' \in [Procs -> DcRegs]
<1> DEFINE u == cpu[p].addr \notin Cached
           l == cpu[p].type = "DATA_LL" /\ ~dm[p].pending
           c == cpu[p].type = "DATA_SC" /\ ~dm[p].pending
           e == [fsm |-> s, prev |-> dc[p].prev, addr |-> cpu[p].addr,
                 data |-> cpu[p].data, be |-> cpu[p].be, unc |-> u, ll |-> l, sc |-> c]
<1>1. dc' = [dc EXCEPT ![p] = e]
  BY DEF SaveAndGoTo
<1>2. u \in BOOLEAN /\ l \in BOOLEAN /\ c \in BOOLEAN
  OBVIOUS
<1>3. /\ cpu[p].addr \in Addr /\ cpu[p].data \in Word /\ cpu[p].be \in SUBSET Lanes
      /\ dc[p].prev \in DcStates
  BY AnyRegTypes DEF DataReq, DcRegs
<1> HIDE DEF u, l, c
<1>4. e \in DcRegs
  BY <1>2, <1>3 DEF DcRegs
<1> HIDE DEF e
<1> QED BY <1>1, <1>4 DEF DataRegsOK

LEMMA AnySetTagTyped ==
  ASSUME DataRegsOK, NEW p \in Procs, NEW b, NEW t \in Blocks \cup {NoBlock}, SetTag(p, b, t)
  PROVE  tag' \in [Procs -> [Slots -> Blocks \cup {NoBlock}]]
<1> DEFINE y == Slot(b)
<1>1. tag' = [tag EXCEPT ![p][y] = t]
  BY DEF SetTag
<1> HIDE DEF y
<1> QED BY <1>1 DEF DataRegsOK

(* and so do the state machines: DCACHE_FSM,                               *)
LEMMA AnyDcTypes ==
  ASSUME DataRegsOK, NEW p \in Procs, CellsFit(p), rs[p].buf \in [Offsets -> Word],
         DCacheFsm(p)
  PROVE  DataTyped
<1>1. /\ dc[p] \in DcRegs /\ dm[p] \in DmRegs
      /\ cpu[p] # NoReq => /\ cpu[p].addr \in Addr /\ cpu[p].data \in Word
                           /\ cpu[p].be \in SUBSET Lanes
      /\ cpu \in [Procs -> DataReq \cup {NoReq}] /\ dc \in [Procs -> DcRegs]
      /\ tag \in [Procs -> [Slots -> Blocks \cup {NoBlock}]]
      /\ line \in [Procs -> [Slots -> [Offsets -> Word]]]
  BY AnyRegTypes DEF DataRegsOK, DataReq
<1>2. AnswerCpu(p) => cpu' \in [Procs -> DataReq \cup {NoReq}]
  BY <1>1 DEF AnswerCpu
<1>3. KeepDm(p) => dm' \in [Procs -> DmRegs]
  BY <1>1, AnySetDmTyped DEF KeepDm
<1>4. \A s \in {"DCACHE_IDLE", "DCACHE_WUPDT", "DCACHE_MISSWAIT", "DCACHE_UNC_LL_SC_WAIT",
                "DCACHE_CPUINVAL", "DCACHE_MISSUPDT", "DCACHE_UNC_LL_SC_GO"} : s \in DcStates
  BY DEF DcStates, WaitStates
<1>5. Proceeds(p) => cpu[p] # NoReq
  BY DEF Proceeds
<1>6. AcceptStore(p) /\ cpu[p] # NoReq =>
        /\ cpu' \in [Procs -> DataReq \cup {NoReq}]
        /\ dc' \in [Procs -> DcRegs]
  BY <1>2, <1>4, AnySaveTyped DEF AcceptStore
<1>7. CASE DcTakeInval(p)
  <2> DEFINE e == [dc[p] EXCEPT !.fsm = "DCACHE_RAMINVAL", !.prev = dc[p].fsm]
  <2>1. dc' = [dc EXCEPT ![p] = e]
    BY <1>1, <1>7 DEF DcTakeInval
  <2>2. e \in DcRegs
    BY <1>1 DEF DcRegs, DcStates
  <2> HIDE DEF e
  <2>3. dc' \in [Procs -> DcRegs]
    BY <1>1, <2>1, <2>2
  <2> QED BY <1>1, <1>3, <1>7, <2>3 DEF DcTakeInval, DataTyped
<1>8. CASE DcNoRequest(p)
  BY <1>1, <1>3, <1>8 DEF DcNoRequest, DataTyped
<1>9. CASE DcBurst(p)
  <2> DEFINE d == [dm[p] EXCEPT !.first = FALSE, !.addr = cpu[p].addr,
                                !.data = cpu[p].data, !.wl = cpu[p].be]
  <2>1. Proceeds(p) /\ AcceptStore(p) /\ SetDm(p, d) /\ tag' = tag /\ line' = line
    BY <1>9 DEF DcBurst, Gathers
  <2>2. d \in DmRegs
    BY <1>1, <1>5, <2>1 DEF DmRegs
  <2> HIDE DEF d
  <2> QED BY <1>1, <1>5, <1>6, <2>1, <2>2, AnySetDmTyped DEF DataTyped
<1>10. CASE DcMerge(p)
  <2> DEFINE v == Merge(dm[p].data, cpu[p].data, cpu[p].be)
             l == dm[p].wl \cup cpu[p].be
             f == IF dm[p].first THEN dm[p].wf \cup cpu[p].be ELSE dm[p].wf
             d == [dm[p] EXCEPT !.data = v, !.wl = l, !.wf = f]
  <2>1. Proceeds(p) /\ AcceptStore(p) /\ SetDm(p, d) /\ tag' = tag /\ line' = line
    BY <1>10 DEF DcMerge, Gathers
  <2>2. v \in Word
    BY <1>1, <1>5, <2>1, WordTypes DEF DmRegs
  <2>3. l \in SUBSET Lanes /\ f \in SUBSET Lanes
    <3>1. dm[p].wl \in SUBSET Lanes /\ dm[p].wf \in SUBSET Lanes /\ cpu[p].be \in SUBSET Lanes
      BY <1>1, <1>5, <2>1 DEF DmRegs
    <3> QED BY <3>1
  <2>4. d \in DmRegs
    <3> HIDE DEF v, l, f
    <3> QED BY <1>1, <2>2, <2>3 DEF DmRegs
  <2> HIDE DEF d
  <2> QED BY <1>1, <1>5, <1>6, <2>1, <2>4, AnySetDmTyped DEF DataTyped
<1>11. CASE DcFlush(p)
  <2> DEFINE d == [dm[p] EXCEPT !.first = FALSE, !.flush = TRUE, !.size = BurstSize(p)]
  <2>1. /\ Proceeds(p) /\ dm[p].pending /\ ~dm[p].flush
        /\ SaveAndGoTo(p, "DCACHE_IDLE") /\ SetDm(p, d)
        /\ cpu' = cpu /\ tag' = tag /\ line' = line
    BY <1>11 DEF DcFlush, Gathers
  <2>2. BurstSize(p) \in 0 .. BufferSize
    <3>1. wb[p].ptr = 0 /\ Len(wb[p].cells) < BufferSize
      BY <2>1 DEF CellsFit
    <3>2. wb[p].cells \in Seq([addr : Addr, data : Word])
      BY AnyRegTypes DEF WbRegs
    <3>3. Len(wb[p].cells) \in Nat
      BY <3>2
    <3> QED BY <3>1, <3>3, SizeFacts DEF BurstSize, FilledStatus
  <2>3. d \in DmRegs
    BY <1>1, <2>2 DEF DmRegs
  <2> HIDE DEF d
  <2> QED BY <1>1, <1>4, <1>5, <2>1, <2>3, AnySetDmTyped, AnySaveTyped DEF DataTyped
<1>12. CASE DcStall(p)
  BY <1>1, <1>3, <1>4, <1>5, <1>12, AnySaveTyped DEF DcStall, DataTyped
<1>13. CASE DcFirstStore(p)
  <2> DEFINE d == [dm[p] EXCEPT !.pending = TRUE, !.first = TRUE, !.addr = cpu[p].addr,
                                !.data = cpu[p].data, !.wf = cpu[p].be, !.wl = cpu[p].be]
  <2>1. Proceeds(p) /\ AcceptStore(p) /\ SetDm(p, d) /\ tag' = tag /\ line' = line
    BY <1>13 DEF DcFirstStore
  <2>2. d \in DmRegs
    BY <1>1, <1>5, <2>1 DEF DmRegs
  <2> HIDE DEF d
  <2> QED BY <1>1, <1>5, <1>6, <2>1, <2>2, AnySetDmTyped DEF DataTyped
<1>14. CASE DcLoadHit(p) \/ DcSync(p) \/ DcXtnInval(p)
  <2>1. /\ Proceeds(p) /\ AnswerCpu(p) /\ KeepDm(p) /\ tag' = tag /\ line' = line
        /\ SaveAndGoTo(p, "DCACHE_IDLE") \/ SaveAndGoTo(p, "DCACHE_CPUINVAL")
    BY <1>14 DEF DcLoadHit, CachedLoad, DcSync, DcXtnInval
  <2> QED BY <1>2, <1>1, <1>3, <1>4, <1>5, <2>1, AnySaveTyped DEF DataTyped
<1>15. CASE DcLoadMiss(p) \/ DcUncached(p)
  <2> DEFINE d == [dm[p] EXCEPT !.req = TRUE]
  <2>1. /\ Proceeds(p) /\ SetDm(p, d) /\ cpu' = cpu /\ line' = line
        /\ SaveAndGoTo(p, "DCACHE_MISSWAIT") \/ SaveAndGoTo(p, "DCACHE_UNC_LL_SC_WAIT")
        /\ tag' = tag \/ SetTag(p, Block(cpu[p].addr), Block(cpu[p].addr))
    BY <1>15 DEF DcLoadMiss, CachedLoad, DcUncached
  <2>2. d \in DmRegs
    BY <1>1 DEF DmRegs
  <2>3. Block(cpu[p].addr) \in Blocks
    BY <1>1, <1>5, <2>1, AddrTypes
  <2>4. tag' \in [Procs -> [Slots -> Blocks \cup {NoBlock}]]
    BY <1>1, <2>1, <2>3, AnySetTagTyped
  <2> HIDE DEF d
  <2> QED BY <1>1, <1>4, <1>5, <2>1, <2>2, <2>4, AnySetDmTyped, AnySaveTyped DEF DataTyped
<1>16. CASE DcWriteUpdate(p)
  <2> DEFINE y == Slot(Block(dc[p].addr))
             x == Offset(dc[p].addr)
             w == Merge(line[p][y][x], dc[p].data, dc[p].be)
  <2>1. y \in Slots /\ x \in Offsets
    BY <1>1, AddrTypes DEF DcRegs
  <2>2. w \in Word
    BY <1>1, <2>1, WordTypes DEF DcRegs
  <2>3. line' = [line EXCEPT ![p][y][x] = w]
    BY <1>16 DEF DcWriteUpdate
  <2> HIDE DEF y, x, w
  <2>4. line' \in [Procs -> [Slots -> [Offsets -> Word]]]
    BY <1>1, <2>2, <2>3
  <2> QED BY <1>1, <1>3, <1>4, <1>16, <2>4, AnyGoToTyped DEF DcWriteUpdate, DataTyped
<1>17. CASE DcWait(p)
  BY <1>1, <1>3, <1>4, <1>17, AnyGoToTyped DEF DcWait, DataTyped
<1>18. CASE DcMissUpdate(p)
  <2> DEFINE y == Slot(Block(dc[p].addr))
  <2>1. rs[p].buf \in [Offsets -> Word]
    OBVIOUS
  <2>2. line' = [line EXCEPT ![p][y] = rs[p].buf]
    BY <1>18 DEF DcMissUpdate
  <2> HIDE DEF y
  <2>3. line' \in [Procs -> [Slots -> [Offsets -> Word]]]
    BY <1>1, <2>1, <2>2
  <2> QED BY <1>1, <1>2, <1>3, <1>4, <1>18, <2>3, AnyGoToTyped DEF DcMissUpdate, DataTyped
<1>19. CASE DcUncachedGo(p) \/ DcCpuInval(p)
  <2>1. /\ KeepDm(p) /\ line' = line /\ GoTo(p, "DCACHE_IDLE")
        /\ AnswerCpu(p) \/ cpu' = cpu
        /\ SetTag(p, Block(dc[p].addr), NoBlock)
    BY <1>19 DEF DcUncachedGo, DcCpuInval
  <2>2. tag' \in [Procs -> [Slots -> Blocks \cup {NoBlock}]]
    BY <2>1, AnySetTagTyped
  <2> QED BY <1>1, <1>2, <1>3, <1>4, <2>1, <2>2, AnyGoToTyped DEF DataTyped
<1>20. CASE DcRamInval(p)
  <2>1. AfterInval(p) \in DcStates
    <3>1. dc[p].prev \in DcStates
      BY <1>1 DEF DcRegs
    <3>2. "DCACHE_RAMINVAL" \in DcStates
      BY DEF DcStates
    <3> QED BY <1>4, <3>1, <3>2 DEF AfterInval
  <2>2. /\ KeepDm(p) /\ line' = line /\ cpu' = cpu /\ GoTo(p, AfterInval(p))
        /\ tag' = tag \/ SetTag(p, iv[p].block, NoBlock)
    BY <1>20 DEF DcRamInval
  <2>3. tag' \in [Procs -> [Slots -> Blocks \cup {NoBlock}]]
    BY <1>1, <2>2, AnySetTagTyped
  <2> QED BY <1>1, <1>3, <2>1, <2>2, <2>3, AnyGoToTyped DEF DataTyped
<1> QED BY <1>7, <1>8, <1>9, <1>10, <1>11, <1>12, <1>13, <1>14, <1>15, <1>16, <1>17,
           <1>18, <1>19, <1>20 DEF DCacheFsm

(* The same of this cache. *)
LEMMA DcTypes ==
  ASSUME CacheTypeOK, NocTypeOK, NEW p \in Procs, CacheInv(p), DCacheFsm(p)
  PROVE  DataTyped
BY AnyDcTypes, DataPart, RegTypes DEF CacheInv, BufferInv, CellsFit, RsRegs

(* REQ_FSM,                                                                *)
LEMMA ReqTypes ==
  ASSUME CacheTypeOK, NEW p \in Procs, CacheInv(p), ReqFsm(p)
  PROVE  rq' \in [Procs -> RqRegs]
<1>1. /\ rq[p] \in RqRegs /\ rq \in [Procs -> RqRegs]
      /\ dc[p].addr \in Addr /\ dc[p].data \in Word /\ BufferSize \in Nat
      /\ wb[p].cells \in Seq([addr : Addr, data : Word])
      /\ wb[p].ptr \in Nat /\ wb[p].ptr <= Len(wb[p].cells)
      /\ dm[p].size \in 0 .. BufferSize
  <2>1. dc[p] \in DcRegs /\ rq[p] \in RqRegs /\ wb[p] \in WbRegs /\ dm[p] \in DmRegs
        /\ BufferSize \in Nat
    BY RegTypes, SizeFacts
  <2>2. wb[p].ptr \in 0 .. BufferSize /\ wb[p].cells \in Seq([addr : Addr, data : Word])
    BY <2>1 DEF WbRegs
  <2> QED BY <2>1, <2>2, RegTypes DEF DcRegs, DmRegs, CacheTypeOK
<1>2. wb[p].ptr < Len(wb[p].cells) =>
        ReadCell(wb[p]).addr \in Addr /\ ReadCell(wb[p]).data \in Word
  <2>1. wb[p].ptr < Len(wb[p].cells) => ReadCell(wb[p]) \in [addr : Addr, data : Word]
    <3> DEFINE n == wb[p].cells
               k == wb[p].ptr
               C == [addr : Addr, data : Word]
    <3>1. n \in Seq(C) /\ k \in Nat
      BY <1>1
    <3>2. k < Len(n) => n[k + 1] \in C
      <4> HIDE DEF n, k, C
      <4>1. Len(n) \in Nat /\ \A j \in 1 .. Len(n) : n[j] \in C
        BY <3>1
      <4>2. k < Len(n) => k + 1 \in 1 .. Len(n)
        BY <3>1, <4>1
      <4> QED BY <4>1, <4>2
    <3> QED BY <3>2 DEF ReadCell
  <2> QED BY <2>1
<1>3. ASSUME NEW r \in RqRegs, rq' = [rq EXCEPT ![p] = r]
      PROVE  rq' \in [Procs -> RqRegs]
  BY <1>1, <1>3
<1>4. 0 \in 0 .. BufferSize
  BY <1>1
<1>5. CASE ReqIdle(p)
  <2> DEFINE d == [fsm |-> DataReqState(p), addr |-> dc[p].addr,
                   data |-> IF dc[p].sc THEN dc[p].data ELSE rq[p].data, cpt |-> 0]
             w == [fsm |-> "REQ_WRITE", addr |-> ReadCell(wb[p]).addr,
                   data |-> ReadCell(wb[p]).data, cpt |-> 0]
             i == [rq[p] EXCEPT !.fsm = IF ic[p].req THEN "REQ_IMISS" ELSE "REQ_IDLE",
                                !.cpt = 0]
  <2>1. rq' = [rq EXCEPT ![p] = IF rs[p].fsm # "RSP_IDLE" THEN rq[p]
                 ELSE IF dm[p].req THEN d ELSE IF dm[p].flush THEN w ELSE i]
    BY <1>5 DEF ReqIdle, DataReqState
  <2>2. d \in RqRegs
    <3>1. DataReqState(p) \in ReqStates
      BY StateFacts DEF ReqStates, DataCellStates
    <3>2. rq[p].data \in Word
      BY <1>1 DEF RqRegs
    <3> QED BY <1>1, <1>4, <3>1, <3>2 DEF RqRegs
  <2>3. i \in RqRegs
    BY <1>1, <1>4 DEF RqRegs, ReqStates, OneCellStates
  <2>4. StartsWrite(p) => w \in RqRegs
    <3>1. StartsWrite(p) => wb[p].ptr < Len(wb[p].cells)
      BY DEF StartsWrite, CacheInv, BufferInv, ServiceInv
    <3> QED BY <1>2, <1>4, <3>1 DEF RqRegs, ReqStates
  <2> HIDE DEF d, w, i
  <2> QED BY <1>1, <1>3, <1>5, <2>1, <2>2, <2>3, <2>4 DEF ReqIdle, StartsWrite
<1>6. CASE ReqBlocked(p)
  BY <1>1, <1>6 DEF ReqBlocked
<1>7. CASE ReqOneCell(p)
  <2> DEFINE s == IF rq[p].fsm = "REQ_IMISS" THEN "REQ_IWAIT" ELSE "REQ_DWAIT"
             r == [rq[p] EXCEPT !.fsm = s]
  <2>1. rq' = [rq EXCEPT ![p] = r]
    BY <1>7 DEF ReqOneCell
  <2>2. r \in RqRegs
    BY <1>1 DEF RqRegs, ReqStates
  <2> HIDE DEF r
  <2> QED BY <1>3, <2>1, <2>2
<1>8. CASE ReqWrite(p)
  <2> DEFINE last == [rq[p] EXCEPT !.fsm = "REQ_DWAIT", !.cpt = rq[p].cpt + 1]
             more == [rq[p] EXCEPT !.cpt = rq[p].cpt + 1, !.addr = ReadCell(wb[p]).addr,
                                   !.data = ReadCell(wb[p]).data]
  <2>1. rq' = [rq EXCEPT ![p] = IF LastCell(p) THEN last ELSE more]
    BY <1>8 DEF ReqWrite
  <2>2. /\ wb[p].ptr = rq[p].cpt + 1 /\ rq[p].cpt < dm[p].size /\ dm[p].size = Len(wb[p].cells)
    BY <1>8 DEF ReqWrite, CacheInv, BufferInv, ServiceInv
  <2>3. rq[p].cpt \in Nat /\ rq[p].cpt + 1 \in 0 .. BufferSize
    BY <1>1, <2>2 DEF RqRegs
  <2>4. last \in RqRegs
    BY <1>1, <2>3 DEF RqRegs, ReqStates
  <2>5. ASSUME ~LastCell(p)
        PROVE  more \in RqRegs
    <3>1. wb[p].ptr < Len(wb[p].cells)
      BY <1>1, <2>2, <2>3, <2>5 DEF LastCell
    <3> QED BY <1>1, <1>2, <2>3, <3>1 DEF RqRegs
  <2> HIDE DEF last, more
  <2> QED BY <1>3, <2>1, <2>4, <2>5
<1>9. CASE ReqWait(p)
  <2> DEFINE r == [rq[p] EXCEPT !.fsm = "REQ_IDLE"]
  <2>1. rq' = [rq EXCEPT ![p] = r] \/ rq' = rq
    BY <1>9 DEF ReqWait
  <2>2. r \in RqRegs
    BY <1>1 DEF RqRegs, ReqStates
  <2> HIDE DEF r
  <2> QED BY <1>1, <1>3, <2>1, <2>2
<1> QED BY <1>5, <1>6, <1>7, <1>8, <1>9 DEF ReqFsm

(* RSP_FSM.                                                                *)
LEMMA AnyRspTakesTyped ==
  ASSUME NEW S, "RSP_IDLE" \in S, rs \in [Procs -> RsShape(S)], NEW p \in Procs,
         NEW rspval \in BOOLEAN, rspval => rsp[p] \in RspCell,
         rspval /\ rs[p].fsm \in {"RSP_IMISS", "RSP_DMISS"} => rs[p].cpt < LineWords,
         TakesCell(p, rspval)
  PROVE  rs' \in [Procs -> RsShape(S)]
<1> DEFINE r == RsNow(p)
<1>1. /\ rs \in [Procs -> RsShape(S)] /\ rs[p] \in RsShape(S) /\ r \in RsShape(S)
      /\ r.fsm = rs[p].fsm /\ r.cpt = rs[p].cpt
  BY AnyRsNowFacts DEF SameRsNow
<1>2. LineWords \in Nat \ {0} /\ r.cpt \in Nat
  <2>1. r.cpt \in 0 .. LineWords
    <3> HIDE DEF r
    <3> QED BY <1>1 DEF RsShape
  <2> HIDE DEF r
  <2> QED BY <2>1, SizeFacts
<1>3. ASSUME NEW e \in RsShape(S), SetRs(p, e)
      PROVE  rs' \in [Procs -> RsShape(S)]
  <2> HIDE DEF r
  <2> QED BY <1>1, <1>3 DEF SetRs
<1>4. rspval => /\ rsp[p].data \in Word /\ rsp[p].ok \in BOOLEAN /\ rsp[p].error \in BOOLEAN
  BY DEF RspCell
<1> HIDE DEF r
<1>6. CASE RspInst(p, rspval) \/ RspData(p, rspval)
  <2> DEFINE last == rs[p].cpt = LineWords - 1
             iOk  == r.iOk \/ (last /\ ~rsp[p].error /\ ~rs[p].iRetry)
             iRe  == r.iRetry \/ rsp[p].error
             dOk  == r.dOk \/ (last /\ ~rsp[p].error /\ ~rs[p].dRetry)
             dRe  == r.dRetry \/ rsp[p].error
             s    == IF last THEN "RSP_IDLE" ELSE r.fsm
             bf   == [r.buf EXCEPT ![rs[p].cpt] = rsp[p].data]
             e    == [r EXCEPT !.cpt = r.cpt + 1, !.fsm = s, !.iOk = iOk, !.iRetry = iRe]
             f    == [r EXCEPT !.cpt = r.cpt + 1, !.buf = bf, !.fsm = s, !.dOk = dOk,
                               !.dRetry = dRe]
  <2>1. SetRs(p, e) \/ SetRs(p, f)
    BY <1>6 DEF RspInst, RspData, r
  <2>2. /\ iOk \in BOOLEAN /\ iRe \in BOOLEAN /\ dOk \in BOOLEAN /\ dRe \in BOOLEAN
    OBVIOUS
  <2>3. s \in S
    BY <1>1 DEF RsShape
  <2>4. r.cpt + 1 \in 0 .. LineWords
    <3>1. rspval /\ rs[p].fsm \in {"RSP_IMISS", "RSP_DMISS"}
      BY <1>6 DEF RspInst, RspData
    <3> QED BY <1>1, <1>2, <3>1 
  <2>5. bf \in [Offsets -> Word]
    <3>1. r.buf \in [Offsets -> Word] /\ rsp[p].data \in Word
      BY <1>1, <1>4, <1>6 DEF RsShape, RspInst, RspData
    <3> QED BY <3>1
  <2>6. e \in RsShape(S)
    <3> HIDE DEF s, iOk, iRe
    <3> QED BY <1>1, <2>2, <2>3, <2>4 DEF RsShape
  <2>7. f \in RsShape(S)
    <3> HIDE DEF s, dOk, dRe, bf
    <3> QED BY <1>1, <2>2, <2>3, <2>4, <2>5 DEF RsShape
  <2> HIDE DEF e, f
  <2> QED BY <1>3, <2>1, <2>6, <2>7
<1>7. CASE RspOneCell(p, rspval)
  <2> DEFINE ok == r.dOk \/ ~rsp[p].error
             re == r.dRetry \/ rsp[p].error
             u  == IF rs[p].fsm = "RSP_UNC" THEN rsp[p].data ELSE r.unc
             c  == IF rs[p].fsm = "RSP_UNC" THEN rsp[p].ok ELSE r.cond
             e  == [r EXCEPT !.unc = u, !.cond = c, !.fsm = "RSP_IDLE", !.dOk = ok,
                             !.dRetry = re]
  <2>1. SetRs(p, e) /\ rspval
    BY <1>7 DEF RspOneCell, r
  <2>2. ok \in BOOLEAN /\ re \in BOOLEAN
    OBVIOUS
  <2>3. u \in Word /\ c \in BOOLEAN
    BY <1>1, <1>4, <2>1 DEF RsShape
  <2>4. e \in RsShape(S)
    <3> HIDE DEF ok, re, u, c
    <3> QED BY <1>1, <2>2, <2>3 DEF RsShape
  <2> HIDE DEF e
  <2> QED BY <1>3, <2>1, <2>4
<1> QED BY <1>6, <1>7 DEF TakesCell

LEMMA RspTypes ==
  ASSUME CacheTypeOK, NocTypeOK, NEW p \in Procs, ResponseOK(p),
         NEW rspval \in BOOLEAN, rspval => rsp[p] # NoCell, RspFsm(p, rspval)
  PROVE  rs' \in [Procs -> RsRegs]
<1> DEFINE r == RsNow(p)
<1>1. /\ rs \in [Procs -> RsRegs] /\ rs[p] \in RsRegs /\ r \in RsRegs
      /\ r.fsm = rs[p].fsm /\ r.cpt = rs[p].cpt
  BY RegTypes, RsNowFacts DEF CacheTypeOK, SameRsNow
<1>2. /\ LineWords \in Nat \ {0} /\ r.cpt \in Nat
      /\ rspval => rsp[p] \in RspCell
  <2>1. Procs \subseteq Srcs
    BY NbProcsAssumption, NbSrcsAssumption DEF Procs, Srcs
  <2>2. rspval => rsp[p] \in RspCell
    BY <2>1 DEF NocTypeOK
  <2>3. r.cpt \in 0 .. LineWords
    <3> HIDE DEF r
    <3> QED BY <1>1 DEF RsRegs
  <2> HIDE DEF r
  <2> QED BY <2>2, <2>3, SizeFacts
<1>3. ASSUME NEW e \in RsRegs, SetRs(p, e)
      PROVE  rs' \in [Procs -> RsRegs]
  <2> HIDE DEF r
  <2> QED BY <1>1, <1>3 DEF SetRs
<1> HIDE DEF r
<1>5. CASE RspIdle(p) \/ RspWait(p, rspval)
  <2> DEFINE s == IF dm[p].req
                  THEN IF dc[p].unc \/ dc[p].ll \/ dc[p].sc THEN "RSP_UNC" ELSE "RSP_DMISS"
                  ELSE IF dm[p].flush THEN "RSP_WRITE"
                  ELSE IF ic[p].req THEN "RSP_IMISS" ELSE r.fsm
             n == [r EXCEPT !.dRetry = FALSE, !.iRetry = FALSE, !.cpt = 0]
             e == [n EXCEPT !.fsm = s]
  <2>1. n \in RsRegs /\ n.fsm = r.fsm
    <3>1. 0 \in 0 .. LineWords
      BY <1>2
    <3> QED BY <1>1, <3>1 DEF RsRegs
  <2>2. SetRs(p, r) \/ SetRs(p, [n EXCEPT !.fsm = IF dm[p].req
                  THEN IF dc[p].unc \/ dc[p].ll \/ dc[p].sc THEN "RSP_UNC" ELSE "RSP_DMISS"
                  ELSE IF dm[p].flush THEN "RSP_WRITE"
                  ELSE IF ic[p].req THEN "RSP_IMISS" ELSE n.fsm])
    BY <1>5 DEF RspIdle, RspWait, NewPacket, r
  <2>3. SetRs(p, r) \/ SetRs(p, e)
    <3> HIDE DEF n
    <3> QED BY <2>1, <2>2
  <2>4. e \in RsRegs
    <3>1. s \in {"RSP_IDLE", "RSP_IMISS", "RSP_DMISS", "RSP_WRITE", "RSP_UNC"}
      BY <1>1 DEF RsRegs
    <3> HIDE DEF n, s
    <3> QED BY <2>1, <3>1 DEF RsRegs
  <2> HIDE DEF e
  <2> QED BY <1>1, <1>3, <2>3, <2>4
<1>6. CASE TakesCell(p, rspval)
  <2>1. rs \in [Procs -> RsShape(CcRspStates)] /\ "RSP_IDLE" \in CcRspStates
    BY <1>1, RsRegsShape DEF CcRspStates
  <2>2. rspval /\ rs[p].fsm \in {"RSP_IMISS", "RSP_DMISS"} => rs[p].cpt < LineWords
    BY DEF ResponseOK
  <2>3. rspval => rsp[p] \in RspCell
    BY <1>2
  <2>4. rs' \in [Procs -> RsShape(CcRspStates)]
    BY <1>6, <2>1, <2>2, <2>3, AnyRspTakesTyped
  <2> QED BY <2>4, RsRegsShape
<1> QED BY <1>5, <1>6 DEF RspFsm, TakesCell

-----------------------------------------------------------------------------
(* A cycle of cache p leaves the registers of the others alone. *)

Untouched(o) ==
  /\ cpu'[o] = cpu[o] /\ fetch'[o] = fetch[o] /\ dc'[o] = dc[o] /\ tag'[o] = tag[o]
  /\ line'[o] = line[o] /\ dm'[o] = dm[o] /\ wb'[o] = wb[o] /\ ic'[o] = ic[o]
  /\ itag'[o] = itag[o] /\ rq'[o] = rq[o] /\ rs'[o] = rs[o] /\ iv'[o] = iv[o]

(* A cycle of one cache is none of the others.                             *)
LEMMA OthersDc ==
  ASSUME CacheTypeOK, NEW p \in Procs, DCacheFsm(p)
  PROVE  \A o \in Procs \ {p} : /\ cpu'[o] = cpu[o] /\ dc'[o] = dc[o] /\ tag'[o] = tag[o]
                                /\ line'[o] = line[o] /\ dm'[o] = dm[o]
<1> TAKE o \in Procs \ {p}
<1>1. /\ AnswerCpu(p) => cpu'[o] = cpu[o]
      /\ KeepDm(p) => dm'[o] = dm[o]
      /\ \A d : SetDm(p, d) => dm'[o] = dm[o]
      /\ \A s : GoTo(p, s) => dc'[o] = dc[o]
      /\ \A s : SaveAndGoTo(p, s) => dc'[o] = dc[o]
      /\ \A b, t : SetTag(p, b, t) => tag'[o] = tag[o]
  BY DEF CacheTypeOK, AnswerCpu, KeepDm, SetDm, GoTo, SaveAndGoTo, SetTag
<1>2. AcceptStore(p) => cpu'[o] = cpu[o] /\ dc'[o] = dc[o]
  BY <1>1 DEF AcceptStore
<1>3. CASE DcTakeInval(p)
  BY <1>1, <1>3 DEF DcTakeInval, CacheTypeOK
<1>4. CASE DcBurst(p) \/ DcMerge(p) \/ DcFirstStore(p)
  BY <1>1, <1>2, <1>4 DEF DcBurst, DcMerge, DcFirstStore
<1>5. CASE DcNoRequest(p) \/ DcFlush(p) \/ DcStall(p) \/ DcLoadHit(p) \/ DcSync(p)
  BY <1>1, <1>5 DEF DcNoRequest, DcFlush, DcStall, DcLoadHit, DcSync
<1>6. CASE DcLoadMiss(p) \/ DcUncached(p) \/ DcXtnInval(p) \/ DcWait(p)
  BY <1>1, <1>6 DEF DcLoadMiss, DcUncached, DcXtnInval, DcWait
<1>7. CASE DcWriteUpdate(p)
  <2> DEFINE y == Slot(Block(dc[p].addr))
             x == Offset(dc[p].addr)
             w == Merge(line[p][y][x], dc[p].data, dc[p].be)
  <2>1. line' = [line EXCEPT ![p][y][x] = w]
    BY <1>7 DEF DcWriteUpdate
  <2> HIDE DEF y, x, w
  <2> QED BY <1>1, <1>7, <2>1 DEF DcWriteUpdate, CacheTypeOK
<1>8. CASE DcMissUpdate(p)
  <2>1. line'[o] = line[o]
    BY <1>8 DEF DcMissUpdate, CacheTypeOK
  <2> QED BY <1>1, <1>8, <2>1 DEF DcMissUpdate
<1>9. CASE DcUncachedGo(p) \/ DcCpuInval(p) \/ DcRamInval(p)
  BY <1>1, <1>9 DEF DcUncachedGo, DcCpuInval, DcRamInval
<1> QED BY <1>3, <1>4, <1>5, <1>6, <1>7, <1>8, <1>9 DEF DCacheFsm

LEMMA OthersUntouched ==
  ASSUME CacheTypeOK, NocTypeOK, NEW p \in Procs, NEW rspval \in BOOLEAN,
         NEW invval \in BOOLEAN, CacheCycle(p, rspval, invval)
  PROVE  /\ \A o \in Procs \ {p} : Untouched(o)
         /\ \A o \in Procs \ {p} : invCmd'[o] = invCmd[o] /\ invRsp'[o] = invRsp[o]
         /\ \A o \in Srcs \ {p} : cmd'[o] = cmd[o] /\ rsp'[o] = rsp[o]
<1>1. Procs \subseteq Srcs
  BY NbProcsAssumption, NbSrcsAssumption DEF Procs, Srcs
<1>2. \A o \in Procs \ {p} : fetch'[o] = fetch[o] /\ ic'[o] = ic[o] /\ itag'[o] = itag[o]
  <2>1. \A c : SetIc(p, c) => \A o \in Procs \ {p} : ic'[o] = ic[o]
    BY DEF SetIc, CacheTypeOK
  <2> QED BY <2>1 DEF CacheCycle, ICacheFsm, IcIdle, IcHit, IcMiss, IcWait, IcUpdate, CacheTypeOK
<1>3. /\ \A o \in Procs \ {p} : rq'[o] = rq[o]
      /\ \A o \in Srcs \ {p} : cmd'[o] = cmd[o]
  BY DEF CacheCycle, ReqFsm, ReqIdle, ReqBlocked, ReqOneCell, ReqWrite, ReqWait, CacheTypeOK,
         NocTypeOK
<1>4. /\ \A o \in Procs \ {p} : rs'[o] = rs[o]
      /\ \A o \in Srcs \ {p} : rsp'[o] = rsp[o]
  <2>1. \A r : SetRs(p, r) => \A o \in Procs \ {p} : rs'[o] = rs[o]
    BY DEF SetRs, CacheTypeOK
  <2>2. TakeRsp(p) => \A o \in Srcs \ {p} : rsp'[o] = rsp[o]
    BY DEF TakeRsp, NocTypeOK
  <2> QED BY <2>1, <2>2 DEF CacheCycle, RspFsm, RspIdle, RspWait, RspInst, RspData, RspOneCell
<1>5. \A o \in Procs \ {p} : iv'[o] = iv[o] /\ invCmd'[o] = invCmd[o] /\ invRsp'[o] = invRsp[o]
  <2>1. \A i : SetIv(p, i) => \A o \in Procs \ {p} : iv'[o] = iv[o]
    BY DEF SetIv, CacheTypeOK
  <2> QED BY <2>1 DEF CacheCycle, InvalFsm, IvIdle, IvCommand, IvWait, IvAnswer, NocTypeOK
<1>6. \A o \in Procs \ {p} : wb'[o] = wb[o]
  BY DEF CacheCycle, WriteBuffer, CacheTypeOK
<1> QED BY <1>2, <1>3, <1>4, <1>5, <1>6, OthersDc DEF Untouched, CacheCycle

(* CacheInv is inductive: a cycle of cache p, on the responses that        *)
(* RSP_FSM expects, keeps the registers of all the caches typed and        *)
(* consistent.                                                             *)
THEOREM CycleKeepsCaches ==
  ASSUME CacheTypeOK, NocTypeOK, \A o \in Procs : CacheInv(o),
         NEW p \in Procs, ResponseOK(p), NEW rspval \in BOOLEAN, NEW invval \in BOOLEAN,
         CacheCycle(p, rspval, invval)
  PROVE  CacheTypeOK' /\ \A o \in Procs : CacheInv(o)'
<1>1. /\ CacheInv(p) /\ DCacheFsm(p) /\ ICacheFsm(p) /\ ReqFsm(p) /\ WriteBuffer(p, rspval)
      /\ RspFsm(p, rspval) /\ InvalFsm(p, invval)
      /\ rspval => rsp[p] # NoCell
      /\ invval => invCmd[p] # NoBlock
  BY DEF CacheCycle
<1>2. /\ RequestInv(p)' /\ ServiceInv(p)' /\ InvalInv(p)'
  BY <1>1, RequestStep, ServiceStep, InvalStep
<1>3. /\ BufferInv(p)' /\ ContiguousInv(p)' /\ wb'[p] \in WbRegs
      /\ wb'[p].ptr <= Len(wb'[p].cells) /\ Len(wb'[p].cells) <= BufferSize
  BY <1>1, BufferStep
<1>4. \A o \in Procs \ {p} : Untouched(o) /\ invCmd'[o] = invCmd[o]
  BY OthersUntouched
<1>5. \A o \in Procs : CacheInv(o)'
  <2> SUFFICES ASSUME NEW o \in Procs PROVE CacheInv(o)'
    OBVIOUS
  <2>1. CASE o = p
    BY <1>2, <1>3, <2>1 DEF CacheInv
  <2>2. CASE o # p
    <3>1. CacheInv(o) /\ Untouched(o) /\ invCmd'[o] = invCmd[o]
      BY <1>4, <2>2
    <3> QED BY <3>1 DEF Untouched, CacheInv, RequestInv, ServiceInv, BufferInv, ContiguousInv,
         InvalInv, Waiting, DataRspState, DataReqState
  <2> QED BY <2>1, <2>2
<1>6. CacheTypeOK'
  <2>1. DataTyped /\ rq' \in [Procs -> RqRegs] /\ rs' \in [Procs -> RsRegs]
    BY <1>1, DcTypes, ReqTypes, RspTypes
  <2>2. iv' \in [Procs -> IvRegs]
    BY <1>1, IvStep DEF CacheInv
  <2>3. /\ ic' \in [Procs -> IcRegs]
        /\ fetch' \in [Procs -> Addr \cup {NoReq}]
        /\ itag' \in [Procs -> [Slots -> Blocks \cup {NoBlock}]]
    BY <1>1, IcStep DEF CacheInv
  <2>4. /\ wb' \in [Procs -> WbRegs]
        /\ \A o \in Procs : wb'[o].ptr <= Len(wb'[o].cells) /\ Len(wb'[o].cells) <= BufferSize
    <3>1. \A o \in Procs : /\ wb'[o] \in WbRegs /\ wb'[o].ptr <= Len(wb'[o].cells)
                           /\ Len(wb'[o].cells) <= BufferSize
      BY <1>3, <1>4, RegTypes DEF Untouched
    <3>2. DOMAIN wb' = Procs /\ wb' = [o \in Procs |-> wb'[o]]
      BY <1>1 DEF WriteBuffer, CacheTypeOK
    <3> QED BY <3>1, <3>2
  <2> QED BY <2>1, <2>2, <2>3, <2>4 DEF CacheTypeOK, DataTyped
<1> QED BY <1>5, <1>6

-----------------------------------------------------------------------------
(* The command cell that REQ_FSM drives. *)

CommandAddr(p) ==
  IF rq[p].fsm = "REQ_IMISS" THEN Base(Block(ic[p].addr))
  ELSE IF rq[p].fsm = "REQ_DMISS" THEN Base(Block(rq[p].addr)) ELSE rq[p].addr

(* The command cell that REQ_FSM drives, field by field.                   *)
LEMMA CommandFacts ==
  ASSUME CacheTypeOK, NEW p \in Procs, CacheInv(p), rq[p].fsm \in OneCellStates \cup {"REQ_WRITE"}
  PROVE  /\ CommandCell(p) \in CmdCell
         /\ CommandCell(p).addr = CommandAddr(p)
         /\ CommandCell(p).cmd = IF rq[p].fsm = "REQ_LL" THEN "LOCKED_READ"
                                 ELSE IF rq[p].fsm = "REQ_SC" THEN "STORE_COND"
                                 ELSE IF rq[p].fsm = "REQ_WRITE" THEN "WRITE" ELSE "READ"
         /\ CommandCell(p).cells = IF rq[p].fsm = "REQ_WRITE" THEN dm[p].size
                                   ELSE IF rq[p].fsm \in {"REQ_IMISS", "REQ_DMISS"}
                                   THEN LineWords ELSE 1
         /\ CommandCell(p).eop <=> (rq[p].fsm = "REQ_WRITE" => LastCell(p))
         /\ rq[p].fsm \in {"REQ_WRITE", "REQ_SC"} => CommandCell(p).data = rq[p].data
         /\ CommandCell(p).be = IF rq[p].fsm = "REQ_WRITE" THEN dm[p].wf
                                ELSE IF rq[p].fsm \in {"REQ_UNC", "REQ_SC"} THEN dc[p].be
                                ELSE Lanes
<1> DEFINE Rd(c, a, n) == [cmd |-> c, addr |-> a, data |-> Zero, be |-> Lanes,
                           cells |-> n, eop |-> TRUE]
<1>1. /\ rq[p].addr \in Addr /\ rq[p].data \in Word /\ ic[p].addr \in Addr
      /\ dc[p].be \in SUBSET Lanes /\ dm[p].wf \in SUBSET Lanes
      /\ Zero \in Word /\ Lanes \in SUBSET Lanes
  <2>1. rq[p] \in RqRegs /\ ic[p] \in IcRegs /\ dc[p] \in DcRegs /\ dm[p] \in DmRegs
    BY RegTypes
  <2> QED BY <2>1, WordTypes DEF RqRegs, IcRegs, DcRegs, DmRegs
<1>2. /\ Base(Block(ic[p].addr)) \in Addr /\ Base(Block(rq[p].addr)) \in Addr
      /\ LineWords \in Nat \ {0} /\ 1 \in Nat \ {0}
  BY <1>1, AddrTypes, SizeFacts
<1>3. CASE rq[p].fsm = "REQ_IMISS"
  <2>1. CommandCell(p) = Rd("READ", Base(Block(ic[p].addr)), LineWords)
    BY <1>3 DEF CommandCell
  <2>2. Rd("READ", Base(Block(ic[p].addr)), LineWords) \in CmdCell
    BY <1>1, <1>2 DEF CmdCell, Cmds
  <2> QED BY <1>3, <2>1, <2>2 DEF CommandAddr
<1>4. CASE rq[p].fsm = "REQ_DMISS"
  <2>1. CommandCell(p) = Rd("READ", Base(Block(rq[p].addr)), LineWords)
    BY <1>4 DEF CommandCell
  <2>2. Rd("READ", Base(Block(rq[p].addr)), LineWords) \in CmdCell
    BY <1>1, <1>2 DEF CmdCell, Cmds
  <2> QED BY <1>4, <2>1, <2>2 DEF CommandAddr
<1>5. CASE rq[p].fsm = "REQ_UNC"
  <2> DEFINE r == Rd("READ", rq[p].addr, 1)
             c == [r EXCEPT !.be = dc[p].be]
  <2>1. CommandCell(p) = c
    BY <1>5 DEF CommandCell
  <2>2. /\ r \in CmdCell /\ r.cmd = "READ" /\ r.addr = rq[p].addr /\ r.cells = 1 /\ r.eop
    BY <1>1, <1>2 DEF CmdCell, Cmds
  <2> HIDE DEF r
  <2>3. /\ c \in CmdCell /\ c.cmd = "READ" /\ c.addr = rq[p].addr /\ c.cells = 1 /\ c.eop
        /\ c.be = dc[p].be
    BY <1>1, <2>2 DEF CmdCell
  <2> HIDE DEF c
  <2> QED BY <1>5, <2>1, <2>3 DEF CommandAddr
<1>6. CASE rq[p].fsm = "REQ_LL"
  <2>1. CommandCell(p) = Rd("LOCKED_READ", rq[p].addr, 1)
    BY <1>6 DEF CommandCell
  <2>2. Rd("LOCKED_READ", rq[p].addr, 1) \in CmdCell
    BY <1>1, <1>2 DEF CmdCell, Cmds
  <2> QED BY <1>6, <2>1, <2>2 DEF CommandAddr
<1>7. CASE rq[p].fsm = "REQ_SC"
  <2> DEFINE c == [cmd |-> "STORE_COND", addr |-> rq[p].addr, data |-> rq[p].data,
                   be |-> dc[p].be, cells |-> 1, eop |-> TRUE]
  <2>1. CommandCell(p) = c
    BY <1>7 DEF CommandCell
  <2>2. c \in CmdCell
    BY <1>1, <1>2 DEF CmdCell, Cmds
  <2> QED BY <1>7, <2>1, <2>2 DEF CommandAddr
<1>8. CASE rq[p].fsm = "REQ_WRITE"
  <2> DEFINE e == ~Rok(wb[p])
             c == [cmd |-> "WRITE", addr |-> rq[p].addr, data |-> rq[p].data,
                   be |-> dm[p].wf, cells |-> dm[p].size, eop |-> e]
  <2>1. CommandCell(p) = c
    BY <1>8 DEF CommandCell
  <2>2. /\ dm[p].size = Len(wb[p].cells) /\ wb[p].ptr = rq[p].cpt + 1
        /\ rq[p].cpt < dm[p].size
    BY <1>8 DEF CacheInv, ServiceInv, BufferInv
  <2>3. dm[p].size \in Nat /\ rq[p].cpt \in Nat
    <3>1. dm[p] \in DmRegs /\ rq[p] \in RqRegs
      BY RegTypes
    <3> QED BY <3>1, SizeFacts DEF DmRegs, RqRegs
  <2>4. Rok(wb[p]) <=> ~LastCell(p)
    BY <2>2, <2>3 DEF Rok, FilledStatus, LastCell
  <2>5. c \in CmdCell
    <3>1. e \in BOOLEAN /\ dm[p].size \in Nat \ {0}
      BY <2>2, <2>3
    <3> HIDE DEF e
    <3> QED BY <1>1, <3>1 DEF CmdCell, Cmds
  <2>6. /\ c.addr = rq[p].addr /\ c.cmd = "WRITE" /\ c.cells = dm[p].size /\ c.eop = e
        /\ c.data = rq[p].data /\ c.be = dm[p].wf
    <3> HIDE DEF e
    <3> QED OBVIOUS
  <2>7. e <=> LastCell(p)
    BY <2>4
  <2> HIDE DEF c, e
  <2> QED BY <1>8, <2>1, <2>5, <2>6, <2>7 DEF CommandAddr
<1> QED BY <1>3, <1>4, <1>5, <1>6, <1>7, <1>8 DEF OneCellStates

(* The links keep their types.                                             *)
LEMMA NocTypes ==
  ASSUME CacheTypeOK, NocTypeOK, NEW p \in Procs, CacheInv(p), NEW rspval \in BOOLEAN,
         NEW invval \in BOOLEAN, CacheCycle(p, rspval, invval)
  PROVE  NocTypeOK'
<1>1. CommandCell(p) \in CmdCell \/ cmd' = cmd
  <2>1. CASE ReqIdle(p) \/ ReqBlocked(p) \/ ReqWait(p)
    BY <2>1 DEF ReqIdle, ReqBlocked, ReqWait
  <2>2. CASE ReqOneCell(p) \/ ReqWrite(p)
    BY <2>2, CommandFacts DEF ReqOneCell, ReqWrite
  <2> QED BY <2>1, <2>2 DEF CacheCycle, ReqFsm
<1>2. cmd' \in [Srcs -> CmdCell \cup {NoCell}]
  BY <1>1 DEF NocTypeOK, CacheCycle, ReqFsm, ReqIdle, ReqBlocked, ReqWait, ReqOneCell, ReqWrite
<1>3. rsp' \in [Srcs -> RspCell \cup {NoCell}]
  BY DEF NocTypeOK, CacheCycle, RspFsm, RspIdle, RspWait, RspInst, RspData, RspOneCell, TakeRsp
<1>4. /\ invCmd' \in [Procs -> Blocks \cup {NoBlock}] /\ invRsp' \in [Procs -> BOOLEAN]
  BY DEF NocTypeOK, CacheCycle, InvalFsm, IvIdle, IvCommand, IvWait, IvAnswer
<1> QED BY <1>2, <1>3, <1>4 DEF NocTypeOK

(* What CacheInv says of the write buffer and of the RSP_OK flags, in the  *)
(* terms of the assertions of transition().                                *)
LEMMA CacheConsistent ==
  ASSUME CacheTypeOK, NEW p \in Procs, CacheInv(p)
  PROVE  /\ ~(dm[p].req /\ dm[p].flush)
         /\ rq[p].fsm = "REQ_WRITE" =>
              /\ dm[p].size = FilledStatus(wb[p]) + rq[p].cpt + 1
              /\ LastCell(p) <=> ~Rok(wb[p])
              /\ rq[p].addr = wb[p].cells[wb[p].ptr].addr
         /\ StartsWrite(p) => Rok(wb[p])
         /\ Puts(p) => Wok(wb[p]) /\ ~Gets(p)
         /\ Proceeds(p) /\ ~dm[p].pending =>
              wb[p] = EmptyBuffer /\ Wok(wb[p]) /\ ~Rok(wb[p])
         /\ ~(rs[p].dOk /\ rs[p].dRetry) /\ ~(rs[p].iOk /\ rs[p].iRetry)
<1>1. RequestInv(p) /\ ServiceInv(p) /\ BufferInv(p)
  BY DEF CacheInv
<1>2. /\ Len(wb[p].cells) \in Nat /\ wb[p].ptr \in Nat /\ rq[p].cpt \in Nat
      /\ dm[p].size \in Nat /\ BufferSize \in Nat \ {0}
  <2>1. wb[p] \in WbRegs /\ rq[p] \in RqRegs /\ dm[p] \in DmRegs /\ BufferSize \in Nat \ {0}
    BY RegTypes, SizeFacts
  <2>2. wb[p].cells \in Seq([addr : Addr, data : Word])
    BY <2>1 DEF WbRegs
  <2>3. Len(wb[p].cells) \in Nat
    BY <2>2
  <2>4. wb[p].ptr \in 0 .. BufferSize /\ rq[p].cpt \in 0 .. BufferSize
        /\ dm[p].size \in 0 .. BufferSize
    BY <2>1 DEF WbRegs, RqRegs, DmRegs
  <2> QED BY <2>1, <2>3, <2>4
<1>3. ~(dm[p].req /\ dm[p].flush)
  BY <1>1 DEF RequestInv
<1>4. ASSUME rq[p].fsm = "REQ_WRITE"
      PROVE  /\ dm[p].size = FilledStatus(wb[p]) + rq[p].cpt + 1
             /\ LastCell(p) <=> ~Rok(wb[p])
             /\ rq[p].addr = wb[p].cells[wb[p].ptr].addr
  <2>1. /\ dm[p].size = Len(wb[p].cells) /\ wb[p].ptr = rq[p].cpt + 1
        /\ rq[p].addr = wb[p].cells[wb[p].ptr].addr
    BY <1>1, <1>4 DEF BufferInv, ServiceInv
  <2>2. FilledStatus(wb[p]) = Len(wb[p].cells) - wb[p].ptr
    BY DEF FilledStatus
  <2>3. /\ dm[p].size = FilledStatus(wb[p]) + rq[p].cpt + 1
        /\ FilledStatus(wb[p]) # 0 <=> rq[p].cpt # dm[p].size - 1
    <3> DEFINE n == dm[p].size
               k == rq[p].cpt
               f == FilledStatus(wb[p])
    <3>1. n \in Nat /\ k \in Nat /\ f = n - (k + 1)
      BY <1>2, <2>1, <2>2
    <3> HIDE DEF n, k, f
    <3>2. n = f + k + 1 /\ (f # 0 <=> k # n - 1)
      BY <3>1
    <3> USE DEF n, k, f
    <3> QED BY <3>2
  <2> QED BY <2>1, <2>3 DEF LastCell, Rok
<1>5. StartsWrite(p) => Rok(wb[p])
  <2>1. StartsWrite(p) => wb[p].ptr = 0 /\ Len(wb[p].cells) > 0
    BY <1>1 DEF StartsWrite, BufferInv, ServiceInv
  <2> QED BY <1>2, <2>1 DEF Rok, FilledStatus
<1>6. Puts(p) => Wok(wb[p]) /\ ~Gets(p)
  BY <1>1, <1>2 DEF Puts, Gathers, BufferInv, Wok, Gets, StartsWrite, ServiceInv
<1>7. Proceeds(p) /\ ~dm[p].pending => wb[p] = EmptyBuffer /\ Wok(wb[p]) /\ ~Rok(wb[p])
  BY <1>1, <1>2 DEF BufferInv, EmptyBuffer, Wok, Rok, FilledStatus
<1>8. ~(rs[p].dOk /\ rs[p].dRetry) /\ ~(rs[p].iOk /\ rs[p].iRetry)
  BY <1>1, OkIsDone DEF ServiceInv, DataDone, InstDone
<1> QED BY <1>3, <1>4, <1>5, <1>6, <1>7, <1>8

(* The state after reset. *)
LEMMA CacheInitTyped ==
  ASSUME NocInit, CacheInit
  PROVE  NocTypeOK /\ CacheTypeOK /\ \A p \in Procs : CacheInv(p)
<1>1. NocTypeOK
  BY DEF NocInit, NocTypeOK
<1>2. 0 \in Addr /\ Block(0) \in Blocks /\ Zero \in Word /\ Lanes \in SUBSET Lanes
      /\ 0 \in 0 .. LineWords /\ 0 \in 0 .. BufferSize
  <2>1. 0 \in Addr
    BY NbWordsAssumption DEF Addr
  <2> QED BY <2>1, AddrTypes, WordTypes, SizeFacts
<1>3. cpu \in [Procs -> DataReq \cup {NoReq}] /\ fetch \in [Procs -> Addr \cup {NoReq}]
  BY DEF CacheInit
<1>4. dc \in [Procs -> DcRegs]
  <2> DEFINE r == [fsm |-> "DCACHE_IDLE", prev |-> "DCACHE_IDLE", addr |-> 0,
                   data |-> Zero, be |-> Lanes, unc |-> FALSE, ll |-> FALSE, sc |-> FALSE]
  <2>1. r \in DcRegs
    BY <1>2 DEF DcRegs, DcStates
  <2>2. dc = [p \in Procs |-> r]
    BY DEF CacheInit
  <2> HIDE DEF r
  <2> QED BY <2>1, <2>2
<1>5. /\ tag \in [Procs -> [Slots -> Blocks \cup {NoBlock}]]
      /\ itag \in [Procs -> [Slots -> Blocks \cup {NoBlock}]]
      /\ line \in [Procs -> [Slots -> [Offsets -> Word]]]
  BY <1>2 DEF CacheInit
<1>6. dm \in [Procs -> DmRegs]
  <2> DEFINE r == [req |-> FALSE, pending |-> FALSE, flush |-> FALSE, first |-> FALSE,
                   addr |-> 0, data |-> Zero, wf |-> Lanes, wl |-> Lanes, size |-> 0]
  <2>1. r \in DmRegs
    BY <1>2 DEF DmRegs
  <2>2. dm = [p \in Procs |-> r]
    BY DEF CacheInit
  <2> HIDE DEF r
  <2> QED BY <2>1, <2>2
<1>7. /\ wb \in [Procs -> WbRegs]
      /\ \A p \in Procs : wb[p] = EmptyBuffer
      /\ \A p \in Procs : wb[p].ptr = 0 /\ wb[p].cells = <<>>
  <2>1. wb = [p \in Procs |-> EmptyBuffer]
    BY DEF CacheInit, EmptyBuffer
  <2>2. EmptyBuffer \in WbRegs
    BY <1>2 DEF EmptyBuffer, WbRegs
  <2>3. \A p \in Procs : wb[p] = EmptyBuffer
    BY <2>1
  <2> QED BY <2>1, <2>2, <2>3 DEF EmptyBuffer
<1>8. \A p \in Procs : wb[p].ptr <= Len(wb[p].cells) /\ Len(wb[p].cells) <= BufferSize
  <2>1. Len(<<>>) = 0
    OBVIOUS
  <2> QED BY <1>7, <2>1, SizeFacts
<1>9. ic \in [Procs -> IcRegs]
  <2> DEFINE r == [fsm |-> "ICACHE_IDLE", addr |-> 0, req |-> FALSE]
  <2>1. r \in IcRegs
    BY <1>2 DEF IcRegs
  <2>2. ic = [p \in Procs |-> r]
    BY DEF CacheInit
  <2> HIDE DEF r
  <2> QED BY <2>1, <2>2
<1>10. rq \in [Procs -> RqRegs]
  <2> DEFINE r == [fsm |-> "REQ_IDLE", addr |-> 0, data |-> Zero, cpt |-> 0]
  <2>1. r \in RqRegs
    BY <1>2 DEF RqRegs, ReqStates
  <2>2. rq = [p \in Procs |-> r]
    BY DEF CacheInit
  <2> HIDE DEF r
  <2> QED BY <2>1, <2>2
<1>11. rs \in [Procs -> RsRegs]
  <2> DEFINE z == [x \in Offsets |-> Zero]
             r == [fsm |-> "RSP_IDLE", cpt |-> 0, buf |-> z, unc |-> Zero, cond |-> FALSE,
                   dOk |-> FALSE, iOk |-> FALSE, dRetry |-> FALSE, iRetry |-> FALSE]
  <2>1. z \in [Offsets -> Word]
    BY <1>2
  <2>2. r \in RsRegs
    <3> HIDE DEF z
    <3> QED BY <1>2, <2>1 DEF RsRegs
  <2>3. rs = [p \in Procs |-> r]
    BY DEF CacheInit
  <2> HIDE DEF r
  <2> QED BY <2>2, <2>3
<1>12. iv \in [Procs -> IvRegs]
  <2> DEFINE r == [fsm |-> "INV_IDLE", block |-> Block(0), req |-> FALSE]
  <2>1. r \in IvRegs
    BY <1>2 DEF IvRegs
  <2>2. iv = [p \in Procs |-> r]
    BY DEF CacheInit
  <2> HIDE DEF r
  <2> QED BY <2>1, <2>2
<1>13. CacheTypeOK
  BY <1>3, <1>4, <1>5, <1>6, <1>7, <1>8, <1>9, <1>10, <1>11, <1>12 DEF CacheTypeOK
<1>14. ASSUME NEW p \in Procs PROVE CacheInv(p)
  <2>1. /\ dc[p].fsm = "DCACHE_IDLE" /\ dc[p].prev = "DCACHE_IDLE"
        /\ ~dm[p].req /\ ~dm[p].pending /\ ~dm[p].flush
        /\ ic[p].fsm = "ICACHE_IDLE" /\ ~ic[p].req /\ rq[p].fsm = "REQ_IDLE"
        /\ rs[p].fsm = "RSP_IDLE" /\ ~rs[p].dOk /\ ~rs[p].iOk /\ iv[p].fsm = "INV_IDLE"
    BY DEF CacheInit
  <2>2. RequestInv(p) /\ InvalInv(p)
    BY <2>1 DEF RequestInv, InvalInv, Waiting, WaitStates
  <2>3. ServiceInv(p)
    BY <2>1 DEF ServiceInv, DataCellStates, OneCellStates
  <2>4. BufferInv(p) /\ ContiguousInv(p)
    BY <1>7, <2>1 DEF BufferInv, ContiguousInv
  <2> QED BY <2>2, <2>3, <2>4 DEF CacheInv
<1> QED BY <1>1, <1>13, <1>14

-----------------------------------------------------------------------------
(* DCACHE_FSM: what a cycle does to the tags and the lines. *)

SameData(p) ==
  /\ dc'[p].addr = dc[p].addr /\ dc'[p].data = dc[p].data /\ dc'[p].be = dc[p].be
  /\ dc'[p].unc = dc[p].unc /\ dc'[p].ll = dc[p].ll /\ dc'[p].sc = dc[p].sc

SameLines(p) == tag'[p] = tag[p] /\ line'[p] = line[p]

LooksUp(p) ==
  /\ dc[p].fsm = "DCACHE_IDLE" /\ ~iv[p].req /\ cpu[p] # NoReq
  /\ dc'[p].addr = cpu[p].addr /\ dc'[p].data = cpu[p].data /\ dc'[p].be = cpu[p].be

TakesAway(p) ==
  /\ TakesInval(p) /\ SameData(p) /\ SameLines(p)
  /\ dc'[p].fsm = "DCACHE_RAMINVAL" /\ dc'[p].prev = dc[p].fsm

Idles(p) ==
  /\ dc[p].fsm = "DCACHE_IDLE" /\ ~iv[p].req /\ SameLines(p)
  /\ dc'[p].fsm \in {"DCACHE_IDLE", "DCACHE_CPUINVAL"} /\ dc'[p].prev = dc[p].prev
  /\ SameData(p) \/ LooksUp(p)

StoresWord(p) ==
  /\ LooksUp(p) /\ SameLines(p) /\ dc'[p].prev = dc[p].prev
  /\ dc'[p].fsm = IF Hit(p, cpu[p].addr) THEN "DCACHE_WUPDT" ELSE "DCACHE_IDLE"

Misses(p) ==
  /\ LooksUp(p) /\ ~dm[p].pending /\ dc'[p].prev = dc[p].prev
  /\ dc'[p].fsm = "DCACHE_MISSWAIT"
  /\ ~dc'[p].unc /\ ~dc'[p].ll /\ ~dc'[p].sc
  /\ tag'[p] = [tag[p] EXCEPT ![Slot(Block(cpu[p].addr))] = Block(cpu[p].addr)]
  /\ line'[p] = line[p]

AsksWord(p) ==
  /\ LooksUp(p) /\ ~dm[p].pending /\ SameLines(p) /\ dc'[p].prev = dc[p].prev
  /\ dc'[p].fsm = "DCACHE_UNC_LL_SC_WAIT"
  /\ dc'[p].unc \/ dc'[p].ll \/ dc'[p].sc

UpdatesWord(p) ==
  /\ dc[p].fsm = "DCACHE_WUPDT" /\ dc'[p].fsm = "DCACHE_IDLE" /\ dc'[p].prev = dc[p].prev
  /\ SameData(p) /\ tag'[p] = tag[p]
  /\ line'[p] = [line[p] EXCEPT ![Slot(Block(dc[p].addr))] =
                   [line[p][Slot(Block(dc[p].addr))] EXCEPT ![Offset(dc[p].addr)] =
                      Merge(line[p][Slot(Block(dc[p].addr))][Offset(dc[p].addr)],
                            dc[p].data, dc[p].be)]]

Waits(p) ==
  /\ dc[p].fsm \in WaitStates /\ ~TakesInval(p) /\ SameData(p) /\ SameLines(p)
  /\ dc'[p].prev = dc[p].prev
  /\ dc'[p].fsm = IF ~rs[p].dOk THEN dc[p].fsm
                  ELSE IF dc[p].fsm = "DCACHE_MISSWAIT" THEN "DCACHE_MISSUPDT"
                  ELSE "DCACHE_UNC_LL_SC_GO"

FillsLine(p) ==
  /\ dc[p].fsm = "DCACHE_MISSUPDT" /\ dc'[p].fsm = "DCACHE_IDLE" /\ dc'[p].prev = dc[p].prev
  /\ SameData(p) /\ tag'[p] = tag[p]
  /\ line'[p] = [line[p] EXCEPT ![Slot(Block(dc[p].addr))] = rs[p].buf]

DropsLine(p) ==
  /\ dc[p].fsm \in {"DCACHE_UNC_LL_SC_GO", "DCACHE_CPUINVAL"} /\ dc'[p].fsm = "DCACHE_IDLE"
  /\ dc'[p].prev = dc[p].prev /\ SameData(p) /\ line'[p] = line[p]
  /\ tag'[p] = [tag[p] EXCEPT ![Slot(Block(dc[p].addr))] = NoBlock]

Invalidates(p) ==
  /\ dc[p].fsm = "DCACHE_RAMINVAL" /\ dc'[p].prev = dc[p].prev /\ SameData(p)
  /\ dc'[p].fsm = IF ~rs[p].dOk THEN dc[p].prev
                  ELSE IF dc[p].prev = "DCACHE_MISSWAIT" THEN "DCACHE_MISSUPDT"
                  ELSE IF dc[p].prev = "DCACHE_UNC_LL_SC_WAIT" THEN "DCACHE_UNC_LL_SC_GO"
                  ELSE "DCACHE_RAMINVAL"
  /\ line'[p] = line[p]
  /\ tag'[p] = IF tag[p][Slot(iv[p].block)] = iv[p].block
               THEN [tag[p] EXCEPT ![Slot(iv[p].block)] = NoBlock] ELSE tag[p]

(* What the auxiliary writes of DCACHE_FSM do to the registers of p.       *)
LEMMA AnyLooksUpAt ==
  ASSUME DataRegsOK, NEW p \in Procs, NEW s, Proceeds(p), SaveAndGoTo(p, s)
  PROVE  /\ LooksUp(p) /\ dc'[p].fsm = s /\ dc'[p].prev = dc[p].prev
         /\ dc'[p].unc = (cpu[p].addr \notin Cached)
         /\ dc'[p].ll = (cpu[p].type = "DATA_LL" /\ ~dm[p].pending)
         /\ dc'[p].sc = (cpu[p].type = "DATA_SC" /\ ~dm[p].pending)
BY DEF DataRegsOK, SaveAndGoTo, LooksUp, Proceeds

(* The same of this cache. *)
LEMMA LooksUpAt ==
  ASSUME CacheTypeOK, NEW p \in Procs, NEW s, Proceeds(p), SaveAndGoTo(p, s)
  PROVE  /\ LooksUp(p) /\ dc'[p].fsm = s /\ dc'[p].prev = dc[p].prev
         /\ dc'[p].unc = (cpu[p].addr \notin Cached)
         /\ dc'[p].ll = (cpu[p].type = "DATA_LL" /\ ~dm[p].pending)
         /\ dc'[p].sc = (cpu[p].type = "DATA_SC" /\ ~dm[p].pending)
BY AnyLooksUpAt, DataPart

LEMMA AnyGoToShape ==
  ASSUME DataRegsOK, NEW p \in Procs, NEW s, GoTo(p, s)
  PROVE  SameData(p) /\ dc'[p].fsm = s /\ dc'[p].prev = dc[p].prev
<1>1. dc'[p] = [dc[p] EXCEPT !.fsm = s] /\ dc[p] \in DcRegs
  BY AnyDcAt, AnyRegTypes
<1> HIDE DEF DataRegsOK, GoTo
<1> QED BY <1>1 DEF DcRegs, SameData

LEMMA AnyTagAt ==
  ASSUME DataRegsOK, NEW p \in Procs, NEW b, NEW t, SetTag(p, b, t)
  PROVE  tag'[p] = [tag[p] EXCEPT ![Slot(b)] = t]
BY DEF DataRegsOK, SetTag

(* The same of this cache. *)
LEMMA TagAt ==
  ASSUME CacheTypeOK, NEW p \in Procs, NEW b, NEW t, SetTag(p, b, t)
  PROVE  tag'[p] = [tag[p] EXCEPT ![Slot(b)] = t]
BY AnyTagAt, DataPart

(* The ten things DCACHE_FSM can do in a cycle.                            *)
LEMMA AnyDcShape ==
  ASSUME DataRegsOK, NEW p \in Procs, DCacheFsm(p)
  PROVE  \/ TakesAway(p) \/ Idles(p) \/ StoresWord(p) \/ Misses(p) \/ AsksWord(p)
         \/ UpdatesWord(p) \/ Waits(p) \/ FillsLine(p) \/ DropsLine(p) \/ Invalidates(p)
<1>1. ASSUME DcTakeInval(p) PROVE TakesAway(p)
  <2>1. dc'[p] = [dc[p] EXCEPT !.fsm = "DCACHE_RAMINVAL", !.prev = dc[p].fsm] /\ dc[p] \in DcRegs
    BY <1>1, AnyRegTypes DEF DcTakeInval, DataRegsOK
  <2>2. dc'[p].fsm = "DCACHE_RAMINVAL" /\ dc'[p].prev = dc[p].fsm /\ SameData(p)
    BY <2>1 DEF DcRegs, SameData
  <2> QED BY <1>1, <2>2 DEF DcTakeInval, TakesAway, SameLines
<1>2. ASSUME DcNoRequest(p) PROVE Idles(p)
  BY <1>2 DEF DcNoRequest, Idles, SameLines, SameData
<1>3. ASSUME DcFlush(p) \/ DcStall(p) \/ DcLoadHit(p) \/ DcSync(p) \/ DcXtnInval(p) PROVE Idles(p)
  <2>1. PICK s \in {"DCACHE_IDLE", "DCACHE_CPUINVAL"} : SaveAndGoTo(p, s)
    BY <1>3 DEF DcFlush, DcStall, DcLoadHit, DcSync, DcXtnInval
  <2>2. Proceeds(p) /\ SameLines(p)
    BY <1>3 DEF DcFlush, DcStall, DcLoadHit, DcSync, DcXtnInval, CachedLoad, Gathers, SameLines
  <2>3. LooksUp(p) /\ dc'[p].fsm = s /\ dc'[p].prev = dc[p].prev
    BY <2>1, <2>2, AnyLooksUpAt
  <2> QED BY <2>2, <2>3 DEF Idles, LooksUp
<1>4. ASSUME DcBurst(p) \/ DcMerge(p) \/ DcFirstStore(p) PROVE StoresWord(p)
  <2>1. Proceeds(p) /\ SameLines(p) /\ AcceptStore(p)
    BY <1>4 DEF DcBurst, DcMerge, DcFirstStore, Gathers, SameLines
  <2> QED BY <2>1, AnyLooksUpAt DEF AcceptStore, StoresWord
<1>5. ASSUME DcLoadMiss(p) PROVE Misses(p)
  <2>1. Proceeds(p) /\ CachedLoad(p) /\ SaveAndGoTo(p, "DCACHE_MISSWAIT")
        /\ SetTag(p, Block(cpu[p].addr), Block(cpu[p].addr)) /\ line' = line
    BY <1>5 DEF DcLoadMiss, CachedLoad
  <2>2. /\ LooksUp(p) /\ dc'[p].fsm = "DCACHE_MISSWAIT" /\ dc'[p].prev = dc[p].prev
        /\ ~dc'[p].unc /\ ~dc'[p].ll /\ ~dc'[p].sc
    BY <2>1, AnyLooksUpAt DEF CachedLoad
  <2>3. tag'[p] = [tag[p] EXCEPT ![Slot(Block(cpu[p].addr))] = Block(cpu[p].addr)]
    BY <2>1, AnyTagAt
  <2> QED BY <2>1, <2>2, <2>3 DEF Misses, CachedLoad
<1>6. ASSUME DcUncached(p) PROVE AsksWord(p)
  BY <1>6, AnyLooksUpAt DEF DcUncached, AsksWord, SameLines
<1>7. ASSUME DcWriteUpdate(p) PROVE UpdatesWord(p)
  BY <1>7, AnyGoToShape DEF DcWriteUpdate, UpdatesWord, DataRegsOK
<1>8. ASSUME DcWait(p) PROVE Waits(p)
  BY <1>8, AnyGoToShape DEF DcWait, Waits, SameLines, SameData
<1>9. ASSUME DcMissUpdate(p) PROVE FillsLine(p)
  BY <1>9, AnyGoToShape DEF DcMissUpdate, FillsLine, DataRegsOK
<1>10. ASSUME DcUncachedGo(p) \/ DcCpuInval(p) PROVE DropsLine(p)
  BY <1>10, AnyGoToShape, AnyTagAt DEF DcUncachedGo, DcCpuInval, DropsLine
<1>11. ASSUME DcRamInval(p) PROVE Invalidates(p)
  <2>1. AfterInval(p) = IF ~rs[p].dOk THEN dc[p].prev
                        ELSE IF dc[p].prev = "DCACHE_MISSWAIT" THEN "DCACHE_MISSUPDT"
                        ELSE IF dc[p].prev = "DCACHE_UNC_LL_SC_WAIT" THEN "DCACHE_UNC_LL_SC_GO"
                        ELSE "DCACHE_RAMINVAL"
    BY Zenon DEF AfterInval
  <2>2. tag'[p] = IF tag[p][Slot(iv[p].block)] = iv[p].block
                  THEN [tag[p] EXCEPT ![Slot(iv[p].block)] = NoBlock] ELSE tag[p]
    BY <1>11, AnyTagAt DEF DcRamInval
  <2>3. GoTo(p, AfterInval(p)) /\ line' = line /\ dc[p].fsm = "DCACHE_RAMINVAL"
    BY <1>11 DEF DcRamInval
  <2>4. dc'[p].fsm = AfterInval(p) /\ dc'[p].prev = dc[p].prev /\ SameData(p)
    BY <2>3, AnyGoToShape
  <2> HIDE DEF AfterInval
  <2> QED BY <2>1, <2>2, <2>3, <2>4 DEF Invalidates
<1> QED BY <1>1, <1>2, <1>3, <1>4, <1>5, <1>6, <1>7, <1>8, <1>9, <1>10, <1>11 DEF DCacheFsm

(* The same of this cache. *)
LEMMA DcShape ==
  ASSUME CacheTypeOK, NEW p \in Procs, DCacheFsm(p)
  PROVE  \/ TakesAway(p) \/ Idles(p) \/ StoresWord(p) \/ Misses(p) \/ AsksWord(p)
         \/ UpdatesWord(p) \/ Waits(p) \/ FillsLine(p) \/ DropsLine(p) \/ Invalidates(p)
BY AnyDcShape, DataPart

LEMMA AddrSplit ==
  ASSUME NEW a \in Addr
  PROVE  /\ Base(Block(a)) + Offset(a) = a
         /\ \A c \in Addr : Block(c) = Block(a) /\ Offset(c) = Offset(a) => c = a
<1>1. \A W \in Nat \ {0} : \A c \in Nat : (c \div W) * W + (c % W) = c
  OBVIOUS
<1>2. LineWords \in Nat \ {0} /\ Addr \subseteq Nat
  BY SizeFacts, NbWordsAssumption DEF Addr
<1>3. \A c \in Addr : Base(Block(c)) + Offset(c) = c
  BY <1>1, <1>2 DEF Base, Block, Offset
<1> QED BY <1>3

(* Storing a whole word leaves nothing of the old one.                     *)
LEMMA WholeWord ==
  ASSUME NEW old, NEW d \in Word
  PROVE  Merge(old, d, Lanes) = d
BY DEF Merge, Word

-----------------------------------------------------------------------------
(* What a cycle does to the words that the stores have left, for a cache   *)
(* whose memory holds m: a word is in the FIFO_INPUT cell, in the write    *)
(* buffer or in memory.                                                    *)
Where(cells, a) == {i \in DOMAIN cells : cells[i].addr = a}
AnyOf(S) == CHOOSE i \in S : TRUE
Visible(m, d, cells, a) ==
  IF d.pending /\ d.addr = a THEN Merge(m[a], d.data, d.wl)
  ELSE IF Where(cells, a) # {} THEN cells[AnyOf(Where(cells, a))].data
  ELSE m[a]

LEMMA MergeFacts ==
  ASSUME NEW old \in Word, NEW d \in Word, NEW be, NEW e \in Word, NEW ce
  PROVE  /\ Merge(old, d, be) \in Word
         /\ Merge(Merge(old, d, be), d, be) = Merge(old, d, be)
         /\ Merge(Merge(old, d, be), e, ce) = Merge(old, Merge(d, e, ce), be \cup ce)
         /\ Merge(old, d, Lanes) = d
<1>1. Merge(old, d, be) \in Word
  BY DEF Merge, Word
<1>2. Merge(Merge(old, d, be), d, be) = Merge(old, d, be)
  BY DEF Merge
<1>3. Merge(Merge(old, d, be), e, ce) = Merge(old, Merge(d, e, ce), be \cup ce)
  BY DEF Merge
<1> QED BY <1>1, <1>2, <1>3, WholeWord

(* The FIFO_INPUT cell has the word. *)
InInput(d, a) == d.pending /\ d.addr = a

LEMMA VisibleFacts ==
  ASSUME NEW m, NEW d, NEW cells, NEW a
  PROVE  /\ InInput(d, a) => Visible(m, d, cells, a) = Merge(m[a], d.data, d.wl)
         /\ ~InInput(d, a) /\ Where(cells, a) = {} => Visible(m, d, cells, a) = m[a]
         /\ ~InInput(d, a) /\ Where(cells, a) # {} =>
              /\ AnyOf(Where(cells, a)) \in Where(cells, a)
              /\ Visible(m, d, cells, a) = cells[AnyOf(Where(cells, a))].data
<1>1. Where(cells, a) # {} => AnyOf(Where(cells, a)) \in Where(cells, a)
  BY DEF AnyOf
<1> QED BY <1>1 DEF Visible, InInput

LEMMA WhereAppend ==
  ASSUME NEW S, NEW cells \in Seq(S), NEW c, NEW a
  PROVE  /\ c.addr # a =>
              /\ Where(Append(cells, c), a) = Where(cells, a)
              /\ AnyOf(Where(cells, a)) \in Where(cells, a) =>
                   Append(cells, c)[AnyOf(Where(cells, a))] = cells[AnyOf(Where(cells, a))]
         /\ c.addr = a /\ Where(cells, a) = {} => Where(Append(cells, c), a) = {Len(cells) + 1}
<1> DEFINE n == Len(cells)
           e == Append(cells, c)
<1>1. /\ n \in Nat /\ DOMAIN cells = 1 .. n /\ DOMAIN e = 1 .. (n + 1)
      /\ \A i \in 1 .. n : e[i] = cells[i]
      /\ e[n + 1] = c
  OBVIOUS
<1> HIDE DEF n, e
<1>2. \A i : i \in Where(e, a) <=> (i \in 1 .. n /\ cells[i].addr = a) \/ (i = n + 1 /\ c.addr = a)
  BY <1>1 DEF Where
<1>3. \A i : i \in Where(cells, a) <=> (i \in 1 .. n /\ cells[i].addr = a)
  BY <1>1 DEF Where
<1>4. ASSUME c.addr # a
      PROVE  /\ Where(e, a) = Where(cells, a)
             /\ \A i \in Where(cells, a) : e[i] = cells[i]
  BY <1>1, <1>2, <1>3, <1>4
<1>5. ASSUME c.addr = a, Where(cells, a) = {}
      PROVE  Where(e, a) = {n + 1}
  BY <1>1, <1>2, <1>3, <1>5
<1> QED BY <1>4, <1>5 DEF e, n

(* The FIFO_INPUT cell and the write buffer, ...                           *)
CellsKnown(p) ==
  LET q == wb[p].cells
  IN /\ ~dm[p].pending => q = <<>> /\ ~dm[p].flush
     /\ dm[p].flush => dm[p].pending
     /\ dm[p].pending /\ ~dm[p].flush => \A i \in 1 .. Len(q) : q[i].addr # dm[p].addr
     /\ dm[p].flush /\ ~DataDone(p) => Len(q) > 0 /\ q[Len(q)].addr = dm[p].addr
     /\ dm[p].flush /\ DataDone(p) => q = <<>>

(* ... what a cycle does to the buffer, ...                                *)
CellsNext(p) ==
  LET q == wb[p].cells
      c == [addr |-> dm[p].addr, data |-> dm[p].data]
  IN \/ wb'[p].cells = q /\ ~Puts(p)
     \/ wb'[p].cells = Append(q, c) /\ Puts(p)
     \/ /\ wb'[p].cells = <<>> /\ ~Puts(p) /\ dm[p].flush /\ ~DataDone(p)
        /\ rs[p].fsm = "RSP_WRITE" /\ rsp[p] # NoCell /\ ~rsp[p].error

(* ... and the stores that the memory has performed.  Of more than one     *)
(* word, all are whole.                                                    *)
Performed(p, m) ==
  LET q == wb[p].cells
  IN /\ rs[p].fsm = "RSP_WRITE" /\ rsp[p] # NoCell /\ ~rsp[p].error =>
          \A i \in 1 .. Len(q) : m[q[i].addr] = Merge(m[q[i].addr], q[i].data, dm[p].wf)
     /\ dm[p].flush /\ DataDone(p) =>
          m[dm[p].addr] = Merge(m[dm[p].addr], dm[p].data, dm[p].wl)
     /\ dm[p].flush /\ dm[p].wf # Lanes => Len(q) <= 1

LEMMA AnyCellTypes ==
  ASSUME DataRegsOK, NEW p \in Procs
  PROVE  /\ dm[p] \in DmRegs /\ dm[p].data \in Word /\ dm[p].addr \in Addr
         /\ wb[p].cells \in Seq([addr : Addr, data : Word])
         /\ Len(wb[p].cells) \in Nat /\ DOMAIN wb[p].cells = 1 .. Len(wb[p].cells)
         /\ \A i \in 1 .. Len(wb[p].cells) :
              wb[p].cells[i].addr \in Addr /\ wb[p].cells[i].data \in Word
<1>1. dm[p] \in DmRegs /\ wb[p] \in WbRegs
  BY AnyRegTypes
<1>2. wb[p].cells \in Seq([addr : Addr, data : Word])
  BY <1>1 DEF WbRegs
<1>3. \A i \in 1 .. Len(wb[p].cells) : wb[p].cells[i] \in [addr : Addr, data : Word]
  <2> DEFINE C == [addr : Addr, data : Word]
             c == wb[p].cells
  <2>1. c \in Seq(C)
    BY <1>2
  <2> HIDE DEF C, c
  <2>2. \A i \in 1 .. Len(c) : c[i] \in C
    BY <2>1
  <2> QED BY <2>2 DEF C, c
<1>4. Len(wb[p].cells) \in Nat /\ DOMAIN wb[p].cells = 1 .. Len(wb[p].cells)
  BY <1>2
<1>5. dm[p].data \in Word /\ dm[p].addr \in Addr
  BY <1>1 DEF DmRegs
<1> QED BY <1>1, <1>2, <1>3, <1>4, <1>5

(* A cell for another address is not seen at this one.                     *)
LEMMA VisibleAppend ==
  ASSUME NEW m, NEW d, NEW S, NEW cells \in Seq(S), NEW c, NEW a, c.addr # a, ~InInput(d, a)
  PROVE  Visible(m, d, Append(cells, c), a) = Visible(m, d, cells, a)
<1> DEFINE w == Where(cells, a)
           i == AnyOf(w)
<1>1. Where(Append(cells, c), a) = w
  BY WhereAppend
<1>2. w # {} => i \in w /\ Append(cells, c)[i] = cells[i]
  <2>1. w # {} => i \in w
    BY DEF AnyOf
  <2>2. i \in w => i \in 1 .. Len(cells)
    BY DEF Where
  <2> HIDE DEF i, w
  <2> QED BY <2>1, <2>2
<1> HIDE DEF w
<1> QED BY <1>1, <1>2 DEF Visible, InInput, w

(* Only a cycle that accepts a store changes the words.                    *)
LEMMA AnyWordsKept ==
  ASSUME DataRegsOK, NEW p \in Procs, RequestInv(p), DoneInv(p), PrevInv(p), DCacheFsm(p),
         ~TakesStore(p), CellsKnown(p), CellsNext(p), NEW m, Performed(p, m), NEW a
  PROVE  Visible(m, dm'[p], wb'[p].cells, a) = Visible(m, dm[p], wb[p].cells, a)
<1> DEFINE d  == dm[p]
           d2 == dm'[p]
           q  == wb[p].cells
           q2 == wb'[p].cells
           n  == Len(q)
           c  == [addr |-> d.addr, data |-> d.data]
<1>1. SUFFICES Visible(m, d2, q2, a) = Visible(m, d, q, a)
  OBVIOUS
<1>2. KeepsRequest(p) \/ StartsRequest(p) \/ FlushesStores(p)
  BY AnyRestEffect
<1>3. /\ d \in DmRegs /\ d.data \in Word /\ n \in Nat /\ DOMAIN q = 1 .. n
      /\ q \in Seq([addr : Addr, data : Word])
      /\ \A i \in 1 .. n : q[i].addr \in Addr /\ q[i].data \in Word
  BY AnyCellTypes
<1>4. \/ q2 = q /\ ~Puts(p)
      \/ q2 = Append(q, c) /\ Puts(p)
      \/ /\ q2 = <<>> /\ ~Puts(p) /\ d.flush /\ ~DataDone(p)
         /\ rs[p].fsm = "RSP_WRITE" /\ rsp[p] # NoCell /\ ~rsp[p].error
  BY DEF CellsNext
<1>5. /\ ~d.pending => q = <<>> /\ ~d.flush
      /\ d.flush => d.pending
      /\ d.flush /\ ~DataDone(p) => n > 0 /\ q[n].addr = d.addr
      /\ d.flush /\ DataDone(p) => q = <<>>
  BY DEF CellsKnown
<1>6. /\ rs[p].fsm = "RSP_WRITE" /\ rsp[p] # NoCell /\ ~rsp[p].error =>
           \A i \in 1 .. n : m[q[i].addr] = Merge(m[q[i].addr], q[i].data, d.wf)
      /\ d.flush /\ DataDone(p) => m[d.addr] = Merge(m[d.addr], d.data, d.wl)
      /\ d.flush /\ d.wf # Lanes => n <= 1
  BY DEF Performed
<1>7. DataDone(p) => d.req \/ d.flush
  BY DEF DoneInv
<1>8. \A b : Where(<<>>, b) = {}
  BY DEF Where
<1>9. CASE KeepsRequest(p) /\ ~DataDone(p)
  <2>1. d2 = d /\ ~Puts(p)
    BY <1>9 DEF KeepsRequest, DmAfter
  <2>2. CASE q2 = q
    BY <2>1, <2>2
  <2>3. CASE q2 # q
    <3>1. /\ q2 = <<>> /\ d.flush /\ d.pending /\ n > 0 /\ q[n].addr = d.addr
          /\ \A i \in 1 .. n : m[q[i].addr] = Merge(m[q[i].addr], q[i].data, d.wf)
      BY <1>4, <1>5, <1>6, <1>9, <2>1, <2>3
    <3> HIDE DEF d, d2, q, q2, n, c
    <3>2. CASE d.addr = a
      BY <2>1, <3>1, <3>2, VisibleFacts DEF InInput
    <3>3. CASE d.addr # a /\ Where(q, a) = {}
      BY <1>8, <2>1, <3>1, <3>3, VisibleFacts DEF InInput
    <3>4. CASE d.addr # a /\ Where(q, a) # {}
      <4> DEFINE i == AnyOf(Where(q, a))
      <4>1. i \in Where(q, a) /\ Visible(m, d, q, a) = q[i].data
        BY <3>4, VisibleFacts DEF InInput
      <4> HIDE DEF i
      <4>2. i \in 1 .. n /\ q[i].addr = a /\ i # n
        BY <1>3, <3>1, <3>4, <4>1 DEF Where
      <4>3. d.wf = Lanes
        BY <1>3, <1>6, <3>1, <4>2
      <4>4. m[a] = Merge(m[a], q[i].data, Lanes) /\ q[i].data \in Word
        BY <1>3, <3>1, <4>2, <4>3
      <4>5. m[a] = q[i].data
        BY <4>4, WholeWord
      <4>6. Visible(m, d2, q2, a) = m[a]
        BY <1>8, <2>1, <3>1, <3>4, VisibleFacts DEF InInput
      <4> QED BY <4>1, <4>5, <4>6
    <3> QED BY <3>2, <3>3, <3>4
  <2> QED BY <2>2, <2>3
<1>10. CASE KeepsRequest(p) /\ DataDone(p)
  <2>1. ~Puts(p) /\ d2 = [d EXCEPT !.req = FALSE, !.flush = FALSE, !.pending = FALSE]
    BY <1>10 DEF KeepsRequest, DmAfter
  <2>2. ~d2.pending
    <3> HIDE DEF d2, d
    <3> QED BY <1>3, <2>1 DEF DmRegs
  <2>3. q = <<>> /\ q2 = <<>>
    BY <1>4, <1>5, <1>7, <1>10, <2>1 DEF RequestInv
  <2>4. d.pending => d.flush
    BY <1>7, <1>10 DEF RequestInv
  <2> HIDE DEF d, d2, q, q2, n, c
  <2>5. Visible(m, d2, q2, a) = m[a]
    BY <1>8, <2>2, <2>3, VisibleFacts DEF InInput
  <2>6. CASE d.pending /\ d.addr = a
    BY <1>6, <1>10, <2>4, <2>5, <2>6, VisibleFacts DEF InInput
  <2>7. CASE ~(d.pending /\ d.addr = a)
    BY <1>8, <2>3, <2>5, <2>7, VisibleFacts DEF InInput
  <2> QED BY <2>6, <2>7
<1>11. CASE StartsRequest(p)
  <2>1. ~d.pending /\ ~Puts(p) /\ d2 = [d EXCEPT !.req = TRUE]
    BY <1>11 DEF StartsRequest
  <2>2. ~d2.pending
    <3> HIDE DEF d2, d
    <3> QED BY <1>3, <2>1 DEF DmRegs
  <2>3. q = <<>> /\ q2 = <<>>
    BY <1>4, <1>5, <2>1
  <2> HIDE DEF d, d2, q, q2, n, c
  <2> QED BY <1>8, <2>1, <2>2, <2>3 DEF Visible
<1>12. CASE FlushesStores(p)
  <2>1. /\ d.pending /\ ~d.flush /\ Puts(p)
        /\ d2 = [d EXCEPT !.first = FALSE, !.flush = TRUE, !.size = BurstSize(p)]
    BY <1>12 DEF FlushesStores
  <2>2. d2.pending /\ d2.addr = d.addr /\ d2.data = d.data /\ d2.wl = d.wl
    <3> HIDE DEF d2, d, c
    <3> QED BY <1>3, <2>1 DEF DmRegs
  <2>3. q2 = Append(q, c) /\ c.addr = d.addr
    BY <1>4, <2>1
  <2> HIDE DEF d, d2, q, q2, n, c
  <2>4. CASE d.addr = a
    BY <2>1, <2>2, <2>4 DEF Visible
  <2>5. CASE d.addr # a
    <3>1. Visible(m, d2, q2, a) = Visible(m, d, q2, a)
      BY <2>2, <2>5, VisibleFacts DEF InInput
    <3>2. Visible(m, d, Append(q, c), a) = Visible(m, d, q, a)
      BY <1>3, <2>3, <2>5, VisibleAppend DEF InInput
    <3> QED BY <2>3, <3>1, <3>2
  <2> QED BY <2>4, <2>5
<1> QED BY <1>2, <1>9, <1>10, <1>11, <1>12

(* A cycle that accepts a store changes the word that is stored.  A store  *)
(* in part does not continue a burst, so that what it leaves alone is in   *)
(* memory.                                                                 *)
LEMMA AnyWordStored ==
  ASSUME DataRegsOK, NEW p \in Procs, RequestInv(p), DoneInv(p), TakesStore(p),
         CellsKnown(p), CellsNext(p), NEW m, NEW a \in Addr, m[a] \in Word,
         cpu[p].be = Lanes \/ cpu[p].addr \in PageStarts
  PROVE  Visible(m, dm'[p], wb'[p].cells, a) =
           IF a = cpu[p].addr
           THEN Merge(Visible(m, dm[p], wb[p].cells, a), cpu[p].data, cpu[p].be)
           ELSE Visible(m, dm[p], wb[p].cells, a)
<1> DEFINE d   == dm[p]
           d2  == dm'[p]
           q   == wb[p].cells
           q2  == wb'[p].cells
           n   == Len(q)
           r   == cpu[p]
           c   == [addr |-> d.addr, data |-> d.data]
           old == Visible(m, d, q, a)
           new == Visible(m, d2, q2, a)
<1>1. SUFFICES new = IF a = r.addr THEN Merge(old, r.data, r.be) ELSE old
  OBVIOUS
<1>2. StartsStores(p) \/ MergesStore(p) \/ AddsStore(p)
  BY AnyAcceptEffect
<1>3. /\ d \in DmRegs /\ d.data \in Word /\ d.addr \in Addr /\ n \in Nat /\ DOMAIN q = 1 .. n
      /\ q \in Seq([addr : Addr, data : Word])
  BY AnyCellTypes
<1>4. \/ q2 = q /\ ~Puts(p)
      \/ q2 = Append(q, c) /\ Puts(p)
      \/ q2 = <<>> /\ ~Puts(p) /\ d.flush
  BY DEF CellsNext
<1>5. /\ ~d.pending => q = <<>> /\ ~d.flush
      /\ d.pending /\ ~d.flush => \A i \in 1 .. n : q[i].addr # d.addr
  BY DEF CellsKnown
<1>6. \A b : Where(<<>>, b) = {}
  BY DEF Where
<1>7. r \in DataReq /\ r.addr \in Addr /\ r.data \in Word
  <2>1. r # NoReq
    BY DEF TakesStore, DcFirstStore, DcMerge, DcBurst, Gathers, Proceeds
  <2>2. r \in DataReq
    BY <2>1, AnyRegTypes
  <2> QED BY <2>2 DEF DataReq
<1>8. CASE StartsStores(p)
  <2>1. /\ ~d.pending /\ ~Puts(p)
        /\ d2 = [d EXCEPT !.pending = TRUE, !.first = TRUE, !.addr = r.addr,
                          !.data = r.data, !.wf = r.be, !.wl = r.be]
    BY <1>8 DEF StartsStores
  <2>2. q = <<>> /\ q2 = <<>>
    BY <1>4, <1>5, <2>1
  <2> HIDE DEF d, d2, q, q2, n, r, c
  <2>3. d2.pending /\ d2.addr = r.addr /\ d2.data = r.data /\ d2.wl = r.be
    BY <1>3, <2>1 DEF DmRegs
  <2>4. old = m[a]
    BY <1>6, <2>1, <2>2, VisibleFacts DEF InInput
  <2>5. r.addr = a => new = Merge(m[a], d2.data, d2.wl)
    BY <2>3, VisibleFacts DEF InInput
  <2>6. r.addr # a => new = m[a]
    BY <1>6, <2>2, <2>3, VisibleFacts DEF InInput
  <2> HIDE DEF old, new
  <2> QED BY <2>3, <2>4, <2>5, <2>6
<1>9. CASE MergesStore(p)
  <2> DEFINE e == Merge(d.data, r.data, r.be)
             l == d.wl \cup r.be
             f == IF d.first THEN d.wf \cup r.be ELSE d.wf
  <2>1. /\ d.pending /\ ~d.flush /\ ~Puts(p) /\ d2 = [d EXCEPT !.data = e, !.wl = l, !.wf = f]
        /\ r.addr = d.addr
    BY <1>9 DEF MergesStore, Merges
  <2>2. q2 = q
    BY <1>4, <2>1
  <2> HIDE DEF d, d2, q, q2, n, r, c, e, l, f
  <2>3. d2.pending /\ d2.addr = d.addr /\ d2.data = e /\ d2.wl = l
    BY <1>3, <2>1 DEF DmRegs
  <2>4. CASE r.addr = a
    <3>1. old = Merge(m[a], d.data, d.wl) /\ new = Merge(m[a], d2.data, d2.wl)
      BY <2>1, <2>3, <2>4 DEF Visible
    <3>2. Merge(Merge(m[a], d.data, d.wl), r.data, r.be) = Merge(m[a], e, l)
      BY <1>3, <1>7, MergeFacts DEF e, l
    <3> HIDE DEF old, new
    <3> QED BY <2>3, <2>4, <3>1, <3>2
  <2>5. CASE r.addr # a
    <3>1. old = new
      BY <2>1, <2>2, <2>3, <2>5 DEF Visible
    <3> HIDE DEF old, new
    <3> QED BY <2>5, <3>1
  <2> QED BY <2>4, <2>5
<1>10. CASE AddsStore(p)
  <2>1. /\ d.pending /\ ~d.flush /\ Puts(p) /\ d.wl = Lanes
        /\ r.addr = d.addr + 1 /\ r.addr \notin PageStarts
        /\ d2 = [d EXCEPT !.first = FALSE, !.addr = r.addr, !.data = r.data, !.wl = r.be]
    BY <1>10 DEF AddsStore, Continues
  <2>2. q2 = Append(q, c)
    BY <1>4, <2>1
  <2>3. r.be = Lanes
    BY <2>1
  <2>4. Where(q, d.addr) = {}
    BY <1>3, <1>5, <2>1 DEF Where
  <2>5. r.addr # d.addr
    <3>1. d.addr \in Nat
      BY <1>3, NbWordsAssumption DEF Addr
    <3> QED BY <2>1, <3>1
  <2>6. \A x : Merge(x, r.data, Lanes) = r.data
    BY <1>7, WholeWord
  <2>7. c.addr = d.addr /\ c.data = d.data
    OBVIOUS
  <2> HIDE DEF d, d2, q, q2, n, r, c
  <2>8. d2.pending /\ d2.addr = r.addr /\ d2.data = r.data /\ d2.wl = Lanes
    BY <1>3, <2>1, <2>3 DEF DmRegs
  <2>9. CASE a = r.addr
    <3>1. new = Merge(m[a], d2.data, d2.wl)
      BY <2>8, <2>9, VisibleFacts DEF InInput
    <3> HIDE DEF old, new
    <3> QED BY <2>3, <2>6, <2>8, <2>9, <3>1
  <2>10. CASE a = d.addr
    <3>1. old = Merge(m[a], d.data, d.wl)
      BY <2>1, <2>10, VisibleFacts DEF InInput
    <3>2. Merge(m[a], d.data, d.wl) = d.data
      BY <1>3, <2>1, WholeWord
    <3>3. Where(q2, a) = {Len(q) + 1} /\ q2[Len(q) + 1] = c
      <4> DEFINE S == [addr : Addr, data : Word]
      <4>1. q \in Seq(S)
        BY <1>3
      <4> HIDE DEF S
      <4>2. Where(Append(q, c), a) = {Len(q) + 1}
        BY <2>4, <2>7, <2>10, <4>1, WhereAppend
      <4>3. Append(q, c)[Len(q) + 1] = c
        BY <4>1
      <4> QED BY <2>2, <4>2, <4>3
    <3>4. AnyOf({Len(q) + 1}) = Len(q) + 1
      BY DEF AnyOf
    <3>5. new = c.data
      <4>1. ~InInput(d2, a)
        BY <2>5, <2>8, <2>10 DEF InInput
      <4> QED BY <3>3, <3>4, <4>1, VisibleFacts
    <3> HIDE DEF old, new
    <3> QED BY <2>5, <2>7, <2>10, <3>1, <3>2, <3>5
  <2>11. CASE a # d.addr /\ a # r.addr
    <3>1. new = Visible(m, d, q2, a)
      BY <2>8, <2>11 DEF Visible
    <3>2. Visible(m, d, q2, a) = old
      <4> DEFINE S == [addr : Addr, data : Word]
      <4>1. q \in Seq(S)
        BY <1>3
      <4> HIDE DEF S
      <4> QED BY <2>2, <2>7, <2>11, <4>1, VisibleAppend DEF InInput
    <3> HIDE DEF old, new
    <3> QED BY <2>11, <3>1, <3>2
  <2> QED BY <2>9, <2>10, <2>11
<1> QED BY <1>2, <1>8, <1>9, <1>10

-----------------------------------------------------------------------------
(* What a cycle does to the lines, where lat has the words that the stores *)
(* have left.                                                              *)
LEMMA AnyStoreShape ==
  ASSUME DataRegsOK, NEW p \in Procs, DCacheFsm(p), PrevInv(p)
  PROVE  /\ TakesStore(p) => StoresWord(p) /\ cpu[p] # NoReq
         /\ dc'[p].fsm = "DCACHE_WUPDT" => TakesStore(p)
<1>1. ASSUME TakesStore(p) PROVE StoresWord(p) /\ cpu[p] # NoReq
  <2>1. Proceeds(p) /\ SameLines(p) /\ AcceptStore(p)
    BY <1>1 DEF TakesStore, DcBurst, DcMerge, DcFirstStore, Gathers, SameLines
  <2> QED BY <2>1, AnyLooksUpAt DEF AcceptStore, StoresWord, Proceeds
<1>2. ASSUME dc'[p].fsm = "DCACHE_WUPDT" PROVE TakesStore(p)
  <2>1. dc[p].prev # "DCACHE_WUPDT" /\ dc[p].fsm \in DcStates
    BY AnyRegTypes DEF PrevInv, WaitStates, DcRegs
  <2>2. ~DcTakeInval(p)
    <3> SUFFICES ASSUME DcTakeInval(p) PROVE FALSE
      OBVIOUS
    <3>1. dc'[p] = [dc[p] EXCEPT !.fsm = "DCACHE_RAMINVAL", !.prev = dc[p].fsm] /\ dc[p] \in DcRegs
      BY AnyRegTypes DEF DcTakeInval, DataRegsOK
    <3>2. dc'[p].fsm = "DCACHE_RAMINVAL"
      BY <3>1 DEF DcRegs
    <3> QED BY <1>2, <3>2
  <2>3. ~DcNoRequest(p)
    BY <1>2 DEF DcNoRequest
  <2>4. ~(DcFlush(p) \/ DcStall(p) \/ DcLoadHit(p) \/ DcLoadMiss(p) \/ DcUncached(p) \/ DcSync(p)
          \/ DcXtnInval(p))
    <3>1. \A s : SaveAndGoTo(p, s) => s = "DCACHE_WUPDT"
      BY <1>2, AnySavedAt
    <3> QED BY <3>1 DEF DcFlush, DcStall, DcLoadHit, DcLoadMiss, DcUncached, DcSync, DcXtnInval
  <2>5. ~(DcWriteUpdate(p) \/ DcWait(p) \/ DcMissUpdate(p) \/ DcUncachedGo(p) \/ DcCpuInval(p))
    <3>1. \A s : GoTo(p, s) => s = "DCACHE_WUPDT"
      BY <1>2, AnyGoToAt
    <3> QED BY <1>2, <3>1
            DEF DcWriteUpdate, DcWait, DcMissUpdate, DcUncachedGo, DcCpuInval, WaitStates
  <2>6. ~DcRamInval(p)
    <3> SUFFICES ASSUME DcRamInval(p) PROVE FALSE
      OBVIOUS
    <3>1. dc[p].fsm = "DCACHE_RAMINVAL"
      BY DEF DcRamInval
    <3>2. Invalidates(p)
      BY <3>1, AnyDcShape DEF TakesAway, TakesInval, Idles, StoresWord, Misses, AsksWord, LooksUp,
         UpdatesWord, Waits, FillsLine, DropsLine, WaitStates
    <3> QED BY <1>2, <2>1, <3>2 DEF Invalidates
  <2> QED BY <2>2, <2>3, <2>4, <2>5, <2>6 DEF DCacheFsm, TakesStore
<1> QED BY <1>1, <1>2

(* A word in its line, and what it is after the store that hit it: a store *)
(* is accepted a cycle before the line is written.                         *)
CopyIn(p, a) == line[p][Slot(Block(a))][Offset(a)]
CopyAfter(p, a) ==
  IF dc[p].fsm = "DCACHE_WUPDT" /\ dc[p].addr = a
  THEN Merge(CopyIn(p, a), dc[p].data, dc[p].be) ELSE CopyIn(p, a)

(* The lines that wait for words, and those that have them.                *)
LinesWait(p) ==
  /\ Filling(p) => tag[p][Slot(Block(dc[p].addr))] \in {Block(dc[p].addr), NoBlock}
  /\ dc[p].fsm = "DCACHE_WUPDT" => tag[p][Slot(Block(dc[p].addr))] = Block(dc[p].addr)

LEMMA AnyLineStep ==
  ASSUME DataRegsOK, NEW p \in Procs, PrevInv(p), DCacheFsm(p), LinesWait(p), NEW lat, NEW lat2,
         \A a \in Addr : HasCopy(p, Block(a)) => CopyAfter(p, a) = lat[a],
         dc[p].fsm = "DCACHE_MISSUPDT" =>
           \A a \in Addr : Block(a) = Block(dc[p].addr) => rs[p].buf[Offset(a)] = lat[a],
         \A a \in Addr : lat2[a] = IF TakesStore(p) /\ a = cpu[p].addr
                                   THEN Merge(lat[a], cpu[p].data, cpu[p].be) ELSE lat[a]
  PROVE  /\ LinesWait(p)'
         /\ \A a \in Addr : HasCopy(p, Block(a))' => CopyAfter(p, a)' = lat2[a]
<1> DEFINE k == Slot(Block(dc[p].addr))
<1>1. dc[p].prev \in WaitStates \cup {"DCACHE_IDLE"}
  BY DEF PrevInv
<1>2. \/ TakesAway(p) \/ Idles(p) \/ StoresWord(p) \/ Misses(p) \/ AsksWord(p)
      \/ UpdatesWord(p) \/ Waits(p) \/ FillsLine(p) \/ DropsLine(p) \/ Invalidates(p)
  BY AnyDcShape
<1>3. /\ tag[p] \in [Slots -> Blocks \cup {NoBlock}] /\ line[p] \in [Slots -> [Offsets -> Word]]
      /\ dc[p].addr \in Addr
      /\ \A a \in Addr : Block(a) \in Blocks /\ Block(a) # NoBlock /\ Slot(Block(a)) \in Slots
                         /\ Offset(a) \in Offsets
      /\ cpu[p] # NoReq => cpu[p].addr \in Addr
      /\ k \in Slots
  <2>1. tag[p] \in [Slots -> Blocks \cup {NoBlock}] /\ line[p] \in [Slots -> [Offsets -> Word]]
    BY DEF DataRegsOK
  <2>2. dc[p] \in DcRegs /\ cpu[p] \in DataReq \cup {NoReq}
    BY AnyRegTypes
  <2>3. dc[p].addr \in Addr /\ (cpu[p] # NoReq => cpu[p].addr \in Addr)
    BY <2>2 DEF DcRegs, DataReq
  <2>4. \A a \in Addr : Block(a) \in Blocks /\ Block(a) # NoBlock /\ Slot(Block(a)) \in Slots
                        /\ Offset(a) \in Offsets
    BY AddrTypes, NoBlockAssumption DEF Blocks
  <2> QED BY <2>1, <2>3, <2>4
<1>4. /\ Filling(p) => tag[p][k] \in {Block(dc[p].addr), NoBlock}
      /\ dc[p].fsm = "DCACHE_WUPDT" => tag[p][k] = Block(dc[p].addr)
  BY DEF LinesWait
<1>5. /\ TakesStore(p) => StoresWord(p) /\ cpu[p] # NoReq
      /\ dc'[p].fsm = "DCACHE_WUPDT" => TakesStore(p)
  BY AnyStoreShape
<1>6. Filling(p)' => tag'[p][Slot(Block(dc'[p].addr))] \in {Block(dc'[p].addr), NoBlock}
  <2>1. CASE Misses(p)
    BY <1>3, <2>1 DEF Misses, LooksUp
  <2>2. CASE TakesAway(p) \/ Waits(p)
    BY <1>4, <2>2 DEF TakesAway, Waits, SameLines, SameData, Filling
  <2>3. CASE Invalidates(p)
    BY <1>1, <1>3, <1>4, <2>3 DEF Invalidates, SameData, Filling, WaitStates
  <2>4. CASE Idles(p) \/ AsksWord(p) \/ StoresWord(p) \/ UpdatesWord(p) \/ FillsLine(p) \/ DropsLine(p)
    BY <2>4 DEF Idles, AsksWord, StoresWord, UpdatesWord, FillsLine, DropsLine, Filling
  <2> QED BY <1>2, <2>1, <2>2, <2>3, <2>4
<1>7. dc'[p].fsm = "DCACHE_WUPDT" => tag'[p][Slot(Block(dc'[p].addr))] = Block(dc'[p].addr)
  BY <1>5 DEF StoresWord, LooksUp, SameLines, Hit
<1>8. SUFFICES ASSUME NEW a \in Addr, HasCopy(p, Block(a))'
               PROVE  CopyAfter(p, a)' = lat2[a]
  BY <1>6, <1>7 DEF LinesWait
<1>9. HasCopy(p, Block(a)) => CopyAfter(p, a) = lat[a]
  OBVIOUS
<1> DEFINE b == Block(a)
<1>10. tag'[p][Slot(b)] = b /\ b # NoBlock /\ b \in Blocks /\ Slot(b) \in Slots /\ Offset(a) \in Offsets
  BY <1>3, <1>8 DEF HasCopy
<1>11. CASE TakesStore(p)
  <2>1. StoresWord(p) /\ cpu[p] # NoReq /\ LooksUp(p) /\ SameLines(p)
    BY <1>5, <1>11 DEF StoresWord
  <2>2. HasCopy(p, b) /\ CopyAfter(p, a) = CopyIn(p, a) /\ CopyIn(p, a)' = CopyIn(p, a)
    BY <1>8, <2>1 DEF HasCopy, Filling, LooksUp, SameLines, CopyAfter, CopyIn
  <2>3. CASE a = cpu[p].addr
    <3>1. dc'[p].fsm = "DCACHE_WUPDT" /\ dc'[p].addr = a
          /\ dc'[p].data = cpu[p].data /\ dc'[p].be = cpu[p].be
      BY <1>10, <2>1, <2>3 DEF StoresWord, LooksUp, SameLines, Hit
    <3>2. CopyAfter(p, a)' = Merge(CopyIn(p, a), cpu[p].data, cpu[p].be)
      BY <2>2, <3>1 DEF CopyAfter
    <3>3. lat2[a] = Merge(lat[a], cpu[p].data, cpu[p].be)
      BY <1>11, <2>3
    <3> QED BY <1>9, <2>2, <3>2, <3>3
  <2>4. CASE a # cpu[p].addr
    <3>1. CopyAfter(p, a)' = CopyIn(p, a)
      BY <2>1, <2>2, <2>4 DEF CopyAfter, LooksUp
    <3>2. lat2[a] = lat[a]
      BY <2>4
    <3> QED BY <1>9, <2>2, <3>1, <3>2
  <2> QED BY <2>3, <2>4
<1>12. CASE ~TakesStore(p)
  <2>1. lat2[a] = lat[a] /\ CopyAfter(p, a)' = CopyIn(p, a)'
    BY <1>5, <1>12 DEF CopyAfter
  <2>2. SUFFICES CopyIn(p, a)' = lat[a]
    BY <2>1
  <2>3. CASE TakesAway(p) \/ Idles(p) \/ AsksWord(p) \/ Waits(p) \/ StoresWord(p)
    <3>1. HasCopy(p, b) /\ CopyIn(p, a)' = CopyIn(p, a) /\ dc[p].fsm # "DCACHE_WUPDT"
      BY <1>8, <2>3 DEF HasCopy, Filling, TakesAway, TakesInval, Idles, AsksWord, Waits, StoresWord,
         LooksUp, SameLines, SameData, CopyIn, WaitStates
    <3> QED BY <1>9, <3>1 DEF CopyAfter
  <2>4. CASE Misses(p)
    <3>1. Slot(b) # Slot(Block(cpu[p].addr))
      BY <1>8, <2>4 DEF HasCopy, Filling, Misses, LooksUp
    <3>2. HasCopy(p, b) /\ CopyIn(p, a)' = CopyIn(p, a) /\ dc[p].fsm # "DCACHE_WUPDT"
      BY <1>3, <1>10, <2>4, <3>1 DEF HasCopy, Filling, Misses, LooksUp, CopyIn
    <3> QED BY <1>9, <3>2 DEF CopyAfter
  <2>5. CASE UpdatesWord(p)
    <3> DEFINE new == Merge(line[p][k][Offset(dc[p].addr)], dc[p].data, dc[p].be)
    <3>1. /\ dc[p].fsm = "DCACHE_WUPDT" /\ tag'[p] = tag[p]
          /\ line'[p] = [line[p] EXCEPT ![k] = [line[p][k] EXCEPT ![Offset(dc[p].addr)] = new]]
      BY <2>5 DEF UpdatesWord
    <3>2. HasCopy(p, b)
      BY <1>10, <3>1 DEF HasCopy, Filling
    <3>3. tag[p][k] = Block(dc[p].addr) /\ tag[p][Slot(b)] = b
      BY <1>4, <1>10, <3>1
    <3>4. CASE a = dc[p].addr
      <4>1. CopyIn(p, a)' = new /\ CopyAfter(p, a) = new
        <5> HIDE DEF new
        <5>1. CopyIn(p, a)' = new
          BY <1>3, <3>1, <3>4 DEF CopyIn
        <5>2. CopyAfter(p, a) = new
          BY <3>1, <3>4 DEF CopyAfter, CopyIn, new
        <5> QED BY <5>1, <5>2
      <4> QED BY <1>9, <3>2, <4>1
    <3>5. CASE a # dc[p].addr
      <4>1. Slot(b) # k \/ Offset(a) # Offset(dc[p].addr)
        BY <1>3, <3>3, <3>5, AddrSplit
      <4> HIDE DEF new
      <4>2. CopyIn(p, a)' = CopyIn(p, a)
        BY <1>3, <1>10, <3>1, <4>1 DEF CopyIn
      <4> QED BY <1>9, <3>2, <3>5, <4>2 DEF CopyAfter
    <3> QED BY <3>4, <3>5
  <2>6. CASE FillsLine(p)
    <3>1. /\ dc[p].fsm = "DCACHE_MISSUPDT" /\ tag'[p] = tag[p]
          /\ line'[p] = [line[p] EXCEPT ![k] = rs[p].buf]
      BY <2>6 DEF FillsLine
    <3>2. CASE Slot(b) = k
      <4>1. b = Block(dc[p].addr)
        BY <1>4, <1>10, <3>1, <3>2 DEF Filling
      <4>2. CopyIn(p, a)' = rs[p].buf[Offset(a)]
        BY <1>3, <3>1, <3>2 DEF CopyIn
      <4> QED BY <3>1, <4>1, <4>2
    <3>3. CASE Slot(b) # k
      <4>1. HasCopy(p, b) /\ CopyIn(p, a)' = CopyIn(p, a)
        BY <1>3, <1>10, <3>1, <3>3 DEF HasCopy, CopyIn
      <4> QED BY <1>9, <3>1, <4>1 DEF CopyAfter
    <3> QED BY <3>2, <3>3
  <2>7. CASE DropsLine(p)
    <3>1. tag'[p] = [tag[p] EXCEPT ![k] = NoBlock] /\ line'[p] = line[p]
          /\ dc[p].fsm \in {"DCACHE_UNC_LL_SC_GO", "DCACHE_CPUINVAL"}
      BY <2>7 DEF DropsLine
    <3>2. tag[p][Slot(b)] = b
      BY <1>3, <1>10, <3>1
    <3>3. HasCopy(p, b) /\ CopyIn(p, a)' = CopyIn(p, a)
      BY <3>1, <3>2 DEF HasCopy, Filling, CopyIn
    <3> QED BY <1>9, <3>1, <3>3 DEF CopyAfter
  <2>8. CASE Invalidates(p)
    <3>1. tag[p][Slot(b)] = b
      BY <1>3, <1>10, <2>8 DEF Invalidates
    <3>2. Filling(p)' <=> Filling(p)
      BY <1>1, <2>8 DEF Invalidates, Filling, WaitStates
    <3>3. HasCopy(p, b) /\ CopyIn(p, a)' = CopyIn(p, a) /\ dc[p].fsm # "DCACHE_WUPDT"
      BY <1>8, <2>8, <3>1, <3>2 DEF Invalidates, SameData, HasCopy, CopyIn
    <3> QED BY <1>9, <3>3 DEF CopyAfter
  <2> QED BY <1>2, <2>3, <2>4, <2>5, <2>6, <2>7, <2>8
<1> QED BY <1>11, <1>12
=============================================================================
