----------------------------- MODULE VciMccCache -----------------------------
(***************************************************************************)
(* The cache of the platform that migrates pages, VciMccCache: VciCcCache  *)
(* with a TLB.  Processor, tags and write buffer speak of virtual          *)
(* addresses; a page moves from one physical frame to another, a frame has *)
(* the number of the page that it holds at reset.                          *)
(*                                                                         *)
(* ICACHE_FSM and DCACHE_FSM are those of VciCcCache, but for the request  *)
(* XTN_DCACHE_INVAL, which this cache does not know.  The three others     *)
(* translate: a miss in the TLB is a request of its own, after which the   *)
(* first one is tried again; an invalidation of the TLB is put in one of   *)
(* two buffers, served by REQ_FSM between two requests, and acknowledged   *)
(* with a request, sent until it is accepted.                              *)
(*                                                                         *)
(* A cell of the invalidation network says whether it is about the TLB     *)
(* (bits 5..2 of its address) and which block or page it names.            *)
(***************************************************************************)
EXTENDS VciCcCache, MccPages

CONSTANTS
  TlbSize,    \* TLB_SIZE
  Migrable,   \* the pages that m_MIGRABILITY_MASK has translated
  NoPage      \* an invalid TLB tag, an empty invalidation buffer

ASSUME TlbSizeAssumption   == TlbSize \in Nat \ {0}

VARIABLES
  tlb,  \* m_TLB: ENTRY_TAG and ENTRY_T_ADDR of each entry
  va,   \* REQ_DCACHE_ADDR_VIRT, REQ_ICACHE_ADDR_PHYS
  ti,   \* TLB_INV_TAG_0 and _1 while IS_TLB_INV_0 and _1
  ta    \* TLB_INV_ACK_ADDR, RETRY_ACK_REQ

tlbVars == <<tlb, va, ti, ta>>

Entries == 0 .. TlbSize - 1

ASSUME MigrableAssumption == Migrable \subseteq Pages /\ NoPage \notin Pages
ASSUME BurstsStopAssumption == PageStarts = {a \in Addr : a % PageWords = 0}

(* A command carries the page that the processor names (pktid).            *)
MccCmds    == Cmds \cup {"READ_TLB_MISS", "TLB_INV_ACK"}
MccCmdCell == [cmd : MccCmds, addr : Addr, data : Word, be : SUBSET Lanes,
               cells : Nat \ {0}, eop : BOOLEAN, page : Pages]
MccInvCell == [tlb : {FALSE}, what : Blocks] \cup [tlb : {TRUE}, what : Pages]

ASSUME MccCellsAssumption == NoCell \notin MccCmdCell /\ NoBlock \notin MccInvCell

(* The frame of an entry that is not valid is not kept. *)
NoEntry == [tag |-> NoPage, frame |-> 0]

MccCacheInit ==
  /\ CacheInit
  /\ tlb = [p \in Procs |-> [i \in Entries |-> NoEntry]]
  /\ va  = [p \in Procs |-> [data |-> 0, inst |-> 0]]
  /\ ti  = [p \in Procs |-> [inv0 |-> NoPage, inv1 |-> NoPage]]
  /\ ta  = [p \in Procs |-> [page |-> 0, retry |-> FALSE]]

-----------------------------------------------------------------------------
(* TLB_32. *)

Holding(t, v) == {i \in Entries : t[i].tag = v}
First(s)      == CHOOSE i \in s : \A j \in s : i <= j

TlbHit(t, a)    == Page(a) \notin Migrable \/ Holding(t, Page(a)) # {}
Translate(t, a) ==
  IF Page(a) \in Migrable /\ Holding(t, Page(a)) # {}
  THEN PageBase(t[First(Holding(t, Page(a)))].frame) + (a % PageWords)
  ELSE a

AddEntry(t, i, a, f) == [t EXCEPT ![i] = [tag |-> Page(a), frame |-> f]]
ResetEntry(t, v) ==
  IF Holding(t, v) = {} THEN t ELSE [t EXCEPT ![First(Holding(t, v))] = NoEntry]

-----------------------------------------------------------------------------
(* VCI_REQ_FSM. *)

IsTlbInv(p) == ti[p].inv0 # NoPage \/ ti[p].inv1 # NoPage
Ready(p)    == rq[p].fsm = "REQ_IDLE" /\ rs[p].fsm = "RSP_IDLE"
Issues(p)   == Ready(p) /\ ~ta[p].retry /\ ~IsTlbInv(p)

FlushAddr(p) == ReadCell(wb[p]).addr
SetRq(p, r)  == rq' = [rq EXCEPT ![p] = r]

(* A request of DCACHE_FSM, a flush, or a miss of ICACHE_FSM. *)
ReqData(p) ==
  /\ Issues(p) /\ dm[p].req
  /\ SetRq(p, [fsm  |-> IF ~TlbHit(tlb[p], dc[p].addr) THEN "REQ_TLB_DMISS"
                        ELSE CASE dc[p].ll -> "REQ_LL"
                               [] dc[p].sc -> "REQ_SC"
                               [] OTHER    -> IF dc[p].unc THEN "REQ_UNC" ELSE "REQ_DMISS",
               addr |-> Translate(tlb[p], dc[p].addr),
               data |-> IF TlbHit(tlb[p], dc[p].addr) /\ dc[p].sc /\ ~dc[p].ll
                        THEN dc[p].data ELSE rq[p].data,
               cpt  |-> 0])
  /\ va' = [va EXCEPT ![p].data = dc[p].addr]

ReqFlush(p) ==
  /\ Issues(p) /\ ~dm[p].req /\ dm[p].flush
  /\ SetRq(p, [fsm  |-> IF TlbHit(tlb[p], FlushAddr(p)) THEN "REQ_WRITE" ELSE "REQ_TLB_DMISS",
               addr |-> Translate(tlb[p], FlushAddr(p)),
               data |-> ReadCell(wb[p]).data,
               cpt  |-> 0])
  /\ va' = [va EXCEPT ![p].data = FlushAddr(p)]

ReqInst(p) ==
  /\ Issues(p) /\ ~dm[p].req /\ ~dm[p].flush /\ ic[p].req
  /\ SetRq(p, [rq[p] EXCEPT !.cpt = 0, !.fsm = IF TlbHit(tlb[p], ic[p].addr)
                                               THEN "REQ_IMISS" ELSE "REQ_TLB_IMISS"])
  /\ va' = [va EXCEPT ![p].inst = Translate(tlb[p], ic[p].addr)]

ReqNone(p) ==
  /\ Issues(p) /\ ~dm[p].req /\ ~dm[p].flush /\ ~ic[p].req
  /\ SetRq(p, [rq[p] EXCEPT !.cpt = 0]) /\ UNCHANGED va

(* RSP_FSM is at work, an acknowledgement was refused, or a translation is *)
(* to be invalidated.                                                      *)
ReqHeld(p) ==
  /\ rq[p].fsm = "REQ_IDLE" /\ ~Issues(p)
  /\ SetRq(p, [rq[p] EXCEPT !.fsm = IF ~Ready(p) THEN @
                                    ELSE IF ta[p].retry THEN "REQ_TLB_INVAL_SEND_ACK"
                                    ELSE "REQ_TLB_INVAL"])
  /\ UNCHANGED va

MccReqIdle(p) ==
  /\ ReqData(p) \/ ReqFlush(p) \/ ReqInst(p) \/ ReqNone(p) \/ ReqHeld(p)
  /\ UNCHANGED cmd

ReqTlbInval(p) ==
  /\ rq[p].fsm = "REQ_TLB_INVAL"
  /\ SetRq(p, [rq[p] EXCEPT !.fsm = "REQ_TLB_INVAL_SEND_ACK"])
  /\ UNCHANGED <<cmd, va>>

(* pktid is the page as the processor names it. *)
MccCommandCell(p) ==
  LET Request(c, a, n, v) == [cmd |-> c, addr |-> a, data |-> Zero, be |-> Lanes,
                              cells |-> n, eop |-> TRUE, page |-> v]
      v == Page(va[p].data)
      r == rq[p]
  IN CASE r.fsm = "REQ_IMISS" ->
            Request("READ", Base(Block(va[p].inst)), LineWords, Page(ic[p].addr))
       [] r.fsm = "REQ_DMISS" -> Request("READ", Base(Block(r.addr)), LineWords, v)
       [] r.fsm = "REQ_UNC" -> [Request("READ", r.addr, 1, v) EXCEPT !.be = dc[p].be]
       [] r.fsm = "REQ_LL"  -> Request("LOCKED_READ", r.addr, 1, v)
       [] r.fsm = "REQ_SC"  -> [Request("STORE_COND", r.addr, 1, v) EXCEPT
                                  !.be = dc[p].be, !.data = r.data]
       [] r.fsm = "REQ_WRITE" -> [Request("WRITE", r.addr, dm[p].size, v) EXCEPT
                                    !.be = dm[p].wf, !.data = r.data, !.eop = ~Rok(wb[p])]
       [] r.fsm = "REQ_TLB_IMISS" -> Request("READ_TLB_MISS", va[p].inst, 1, 0)
       [] r.fsm = "REQ_TLB_DMISS" -> Request("READ_TLB_MISS", r.addr, 1, 0)
       [] r.fsm = "REQ_TLB_INVAL_SEND_ACK" ->
            Request("TLB_INV_ACK", PageBase(ta[p].page), 1, 0)

TlbStates == {"REQ_TLB_IMISS", "REQ_TLB_DMISS", "REQ_TLB_INVAL_SEND_ACK"}
SendStates == OneCellStates \cup TlbStates

MccReqBlocked(p) ==
  /\ rq[p].fsm \in SendStates \cup {"REQ_WRITE"} /\ cmd[p] # NoCell
  /\ UNCHANGED <<rq, cmd, va>>

(* After the requests about the TLB, the state to return to is REQ_IDLE.   *)
MccReqOneCell(p) ==
  /\ rq[p].fsm \in SendStates /\ cmd[p] = NoCell
  /\ cmd' = [cmd EXCEPT ![p] = MccCommandCell(p)]
  /\ SetRq(p, [rq[p] EXCEPT !.fsm = CASE @ \in TlbStates   -> "REQ_IDLE"
                                      [] @ = "REQ_IMISS" -> "REQ_IWAIT"
                                      [] OTHER           -> "REQ_DWAIT"])
  /\ UNCHANGED va

(* Each cell of a burst is translated. *)
MccReqWrite(p) ==
  /\ rq[p].fsm = "REQ_WRITE" /\ cmd[p] = NoCell
  /\ cmd' = [cmd EXCEPT ![p] = MccCommandCell(p)]
  /\ IF LastCell(p)
     THEN /\ SetRq(p, [rq[p] EXCEPT !.fsm = "REQ_DWAIT", !.cpt = @ + 1])
          /\ UNCHANGED va
     ELSE /\ SetRq(p, [rq[p] EXCEPT !.cpt = @ + 1, !.data = ReadCell(wb[p]).data,
                                    !.addr = Translate(tlb[p], FlushAddr(p))])
          /\ va' = [va EXCEPT ![p].data = FlushAddr(p)]

MccReqFsm(p) ==
  \/ MccReqIdle(p) \/ ReqTlbInval(p)
  \/ MccReqBlocked(p) \/ MccReqOneCell(p) \/ MccReqWrite(p)
  \/ ReqWait(p) /\ UNCHANGED va

(* The write buffer, with the one command of the two that is given.        *)
MccGets(p) ==
  \/ Issues(p) /\ ~dm[p].req /\ dm[p].flush /\ TlbHit(tlb[p], FlushAddr(p))
  \/ rq[p].fsm = "REQ_WRITE" /\ cmd[p] = NoCell /\ ~LastCell(p)

MccWriteBuffer(p, rspval) ==
  wb' = [wb EXCEPT ![p] =
    IF WriteAnswered(p, rspval)
    THEN IF rsp[p].error THEN InitRead(@) ELSE EmptyBuffer
    ELSE IF MccGets(p) THEN SimpleGet(@)
    ELSE IF Puts(p) THEN SimplePut(@, [addr |-> dm[p].addr, data |-> dm[p].data])
    ELSE @]

-----------------------------------------------------------------------------
(* VCI_RSP_FSM. *)

MccRspIdle(p) ==
  /\ rs[p].fsm = "RSP_IDLE"
  /\ LET Cleared == [RsNow(p) EXCEPT !.dRetry = FALSE, !.iRetry = FALSE]
         Expects == CASE dm[p].req ->
                           IF ~TlbHit(tlb[p], dc[p].addr) THEN "RSP_TLB_DMISS"
                           ELSE IF dc[p].unc \/ dc[p].ll \/ dc[p].sc THEN "RSP_UNC"
                           ELSE "RSP_DMISS"
                      [] ~dm[p].req /\ dm[p].flush ->
                           IF TlbHit(tlb[p], FlushAddr(p)) THEN "RSP_WRITE" ELSE "RSP_TLB_DMISS"
                      [] ~dm[p].req /\ ~dm[p].flush /\ ic[p].req ->
                           IF TlbHit(tlb[p], ic[p].addr) THEN "RSP_IMISS" ELSE "RSP_TLB_IMISS"
                      [] OTHER -> "RSP_IDLE"
     IN SetRs(p, CASE (Ready(p) /\ ta[p].retry) \/ rq[p].fsm = "REQ_TLB_INVAL" ->
                        [RsNow(p) EXCEPT !.fsm = "RSP_INVAL_SEND_ACK"]
                   [] Ready(p) /\ ~ta[p].retry /\ IsTlbInv(p) -> Cleared
                   [] Issues(p) -> [NewPacket(RsNow(p)) EXCEPT !.fsm = Expects]
                   [] OTHER -> RsNow(p))
  /\ UNCHANGED rsp

(* One response cell, to the requests about the TLB. *)
RspTlb(p, rspval) ==
  /\ rs[p].fsm \in {"RSP_TLB_IMISS", "RSP_TLB_DMISS", "RSP_INVAL_SEND_ACK"} /\ rspval
  /\ SetRs(p, [RsNow(p) EXCEPT !.fsm = "RSP_IDLE"])
  /\ TakeRsp(p)

MccRspFsm(p, rspval) ==
  \/ MccRspIdle(p) \/ RspWait(p, rspval) \/ RspTlb(p, rspval)
  \/ RspInst(p, rspval) \/ RspData(p, rspval) \/ RspOneCell(p, rspval)

-----------------------------------------------------------------------------
(* What REQ_FSM, RSP_FSM and INV_FSM do to the TLB and its invalidations.  *)

TlbAnswered(p, rspval) ==
  rspval /\ ~rsp[p].error /\ rs[p].fsm \in {"RSP_TLB_IMISS", "RSP_TLB_DMISS"}
MissedAddr(p) == IF rs[p].fsm = "RSP_TLB_IMISS" THEN ic[p].addr ELSE va[p].data

(* REQ_FSM serves buffer 1 first. *)
Served(p) == IF ti[p].inv1 # NoPage THEN "inv1" ELSE "inv0"

TlbFill(p) ==
  \E i \in Entries :
    tlb' = [tlb EXCEPT ![p] = AddEntry(@, i, MissedAddr(p), FrameOf(rsp[p].data))]

(* Mutant: the entry is kept. *)
TlbDropNone(p) == UNCHANGED tlb

TlbDrop(p) == tlb' = [tlb EXCEPT ![p] = ResetEntry(@, ti[p][Served(p)])]

Tlb(p, rspval) ==
  CASE TlbAnswered(p, rspval)        -> TlbFill(p)
    [] rq[p].fsm = "REQ_TLB_INVAL" -> TlbDrop(p)
    [] OTHER                       -> UNCHANGED tlb

(* Mutant: there is one buffer. *)
BufferOnly0(p, t) == [t EXCEPT !.inv0 = invCmd[p].what]

(* INV_FSM fills buffer 1 if buffer 0 was full before the edge. *)
Buffer(p, t) ==
  IF ti[p].inv0 # NoPage THEN [t EXCEPT !.inv1 = invCmd[p].what]
                         ELSE [t EXCEPT !.inv0 = invCmd[p].what]

TlbInvBuffers(p) ==
  ti' = [ti EXCEPT ![p] =
    LET left == IF rq[p].fsm = "REQ_TLB_INVAL" THEN [@ EXCEPT ![Served(p)] = NoPage] ELSE @
    IN IF iv[p].fsm = "INV_CMD_TLB" THEN Buffer(p, left) ELSE left]

(* Mutant: an acknowledgement is sent once. *)
AckOnce(p, rspval) == FALSE

AckAgain(p, rspval) == rs[p].fsm = "RSP_INVAL_SEND_ACK" /\ rspval /\ rsp[p].error

(* Mutant: RETRY_ACK_REQ is not taken down. *)
TlbAckForEver(p, rspval) ==
  ta' = [ta EXCEPT ![p] = IF rq[p].fsm = "REQ_TLB_INVAL"
                          THEN [@ EXCEPT !.page = ti[p][Served(p)]]
                          ELSE [@ EXCEPT !.retry = ta[p].retry \/ AckAgain(p, rspval)]]

TlbAck(p, rspval) ==
  ta' = [ta EXCEPT ![p] = IF rq[p].fsm = "REQ_TLB_INVAL"
                          THEN [@ EXCEPT !.page = ti[p][Served(p)]]
                          ELSE [@ EXCEPT !.retry = (ta[p].retry /\ ~Ready(p)) \/ AckAgain(p, rspval)]]

-----------------------------------------------------------------------------
(* VCI_INV_FSM. *)

MccIvIdle(p, invval) ==
  /\ iv[p].fsm = "INV_IDLE"
  /\ SetIv(p, IF ~invval THEN IvNow(p)
              ELSE IF invCmd[p].tlb THEN [IvNow(p) EXCEPT !.fsm = "INV_CMD_TLB"]
              ELSE [IvNow(p) EXCEPT !.req = TRUE, !.fsm = "INV_CMD"])
  /\ UNCHANGED <<invCmd, invRsp>>

(* An invalidation of the TLB is acknowledged to the network at once.      *)
MccIvCommand(p) ==
  /\ iv[p].fsm \in {"INV_CMD", "INV_CMD_TLB"}
  /\ SetIv(p, IF iv[p].fsm = "INV_CMD_TLB" THEN [IvNow(p) EXCEPT !.fsm = "INV_RSP"]
              ELSE [IvNow(p) EXCEPT !.block = invCmd[p].what, !.fsm = "INV_WAIT"])
  /\ invCmd' = [invCmd EXCEPT ![p] = NoBlock]
  /\ UNCHANGED invRsp

MccInvalFsm(p, invval) ==
  MccIvIdle(p, invval) \/ MccIvCommand(p) \/ IvWait(p) \/ IvAnswer(p)

-----------------------------------------------------------------------------
(* DCACHE_FSM: a store is waiting for the next request, a request is       *)
(* served, or something that takes more than one cycle goes on.            *)
DcGathering(p) == DcBurst(p) \/ DcMerge(p) \/ DcFlush(p)
DcServing(p) ==
  DcFirstStore(p) \/ DcLoadHit(p) \/ DcLoadMiss(p) \/ DcUncached(p) \/ DcSync(p) \/ DcStall(p)
DcResuming(p) ==
  DcWriteUpdate(p) \/ DcWait(p) \/ DcMissUpdate(p) \/ DcUncachedGo(p) \/ DcRamInval(p)

MccDCacheFsm(p) ==
  DcTakeInval(p) \/ DcNoRequest(p) \/ DcGathering(p) \/ DcServing(p) \/ DcResuming(p)

MccICacheFsm(p) == ICacheFsm(p)

MccCacheCycle(p, rspval, invval) ==
  /\ rspval => rsp[p] # NoCell
  /\ invval => invCmd[p] # NoBlock
  /\ MccICacheFsm(p)
  /\ MccDCacheFsm(p)
  /\ MccReqFsm(p)
  /\ MccWriteBuffer(p, rspval)
  /\ MccRspFsm(p, rspval)
  /\ MccInvalFsm(p, invval)
  /\ Tlb(p, rspval) /\ TlbInvBuffers(p) /\ TlbAck(p, rspval)
=============================================================================
