--------------------------- MODULE MccCacheProofs ---------------------------
(***************************************************************************)
(* MccCacheSystem keeps MccInv: the registers of VciMccCache agree with    *)
(* each other and with the cells under way (MccCacheInv, MccFlightInv),    *)
(* what the TLB holds and what a command names may be used (TlbInv,        *)
(* CommandInv), every acknowledgement that the home awaits has one token   *)
(* (TokenInv), and the exchange and the page table agree (MoveInv).        *)
(* ICACHE_FSM, DCACHE_FSM and the write buffer are proved once, in         *)
(* VciCcCacheProofs; here are the machines that translate, and the home.   *)
(***************************************************************************)
EXTENDS MccCacheProps, VciCcCacheProofs, FiniteSetTheorems, WellFoundedInduction

(* The registers of RSP_FSM and INV_FSM, and a store of a packet.          *)
MccRsRegs == [fsm : MccRspStates, cpt : 0 .. LineWords, buf : [Offsets -> Word], unc : Word,
              cond : BOOLEAN, dOk : BOOLEAN, iOk : BOOLEAN, dRetry : BOOLEAN, iRetry : BOOLEAN]
MccIvRegs == [fsm : {"INV_IDLE", "INV_CMD", "INV_CMD_TLB", "INV_WAIT", "INV_RSP"},
              block : Blocks, req : BOOLEAN]
StoreCell == [addr : Addr, data : Word, be : SUBSET Lanes]

(* The types of all the registers and of the cells and words outside the   *)
(* cache.                                                                  *)
MccRegsOK ==
  /\ DataRegsOK /\ MccTypeOK
  /\ rs \in [Procs -> MccRsRegs]
  /\ iv \in [Procs -> MccIvRegs]
  /\ cmd \in [Srcs -> MccCmdCell \cup {NoCell}]
  /\ rsp \in [Srcs -> RspCell \cup {NoCell}]
  /\ invCmd \in [Procs -> MccInvCell \cup {NoBlock}]
  /\ invRsp \in [Procs -> BOOLEAN]
  /\ memory \in [Addr -> Word]
  /\ packet \in [addr : Nat, left : Nat, written : Seq(StoreCell)]
  /\ packet.addr + packet.left <= NbWords

-----------------------------------------------------------------------------
TlbRspStates == {"RSP_TLB_IMISS", "RSP_TLB_DMISS"}

(* REQ_FSM serves the address a of the processor, and the TLB still gives  *)
(* the frame that it asks.                                                 *)
TranslatesData(p, a) ==
  TlbHit(tlb[p], a) /\ va[p].data = a /\ rq[p].addr = Translate(tlb[p], a)

(* REQ_FSM and RSP_FSM serve the same request, as in VciCcCache, or a miss *)
(* of the TLB, or an invalidation that is acknowledged; a request for data *)
(* is under way only while the TLB translates it.                          *)
MccServiceInv(p) ==
  /\ rq[p].fsm = "REQ_IDLE" =>
       /\ ~rs[p].dOk /\ ~rs[p].iOk
       /\ \/ rs[p].fsm \in TlbRspStates \cup {"RSP_IDLE", "RSP_INVAL_SEND_ACK"}
          \/ rs[p].fsm = "RSP_DMISS" /\ dm[p].req /\ DataRspState(p) = "RSP_DMISS" /\ rs[p].dRetry
          \/ rs[p].fsm = "RSP_IMISS" /\ ic[p].req /\ rs[p].iRetry
  /\ rq[p].fsm \in DataCellStates =>
       /\ dm[p].req /\ rq[p].fsm = DataReqState(p)
       /\ TranslatesData(p, dc[p].addr)
  /\ rq[p].fsm = "REQ_WRITE" => dm[p].flush
  /\ rq[p].fsm \in DataCellStates \cup {"REQ_WRITE", "REQ_DWAIT"} =>
       ~rs[p].iOk /\ ~rs[p].iRetry
  /\ rq[p].fsm \in {"REQ_IMISS", "REQ_IWAIT"} =>
       /\ ic[p].req /\ ~rs[p].dOk /\ ~rs[p].dRetry
       /\ TlbHit(tlb[p], ic[p].addr) /\ va[p].inst = Translate(tlb[p], ic[p].addr)
  /\ rq[p].fsm \in DataCellStates \cup {"REQ_WRITE"} =>
       rs[p].fsm = DataRspState(p) /\ rs[p].cpt = 0 /\ ~rs[p].dOk /\ ~rs[p].dRetry
  /\ rq[p].fsm = "REQ_IMISS" =>
       rs[p].fsm = "RSP_IMISS" /\ rs[p].cpt = 0 /\ ~rs[p].iOk /\ ~rs[p].iRetry
  /\ rq[p].fsm = "REQ_DWAIT" =>
       /\ dm[p].req \/ dm[p].flush
       /\ \/ /\ rs[p].fsm = DataRspState(p) /\ ~rs[p].dOk
             /\ rs[p].fsm # "RSP_DMISS" => ~rs[p].dRetry
          \/ rs[p].fsm = "RSP_IDLE" /\ (rs[p].dOk <=> ~rs[p].dRetry)
  /\ rq[p].fsm = "REQ_IWAIT" =>
       \/ rs[p].fsm = "RSP_IMISS" /\ ~rs[p].iOk
       \/ rs[p].fsm = "RSP_IDLE" /\ (rs[p].iOk <=> ~rs[p].iRetry)
  /\ rq[p].fsm \in TlbStates \cup {"REQ_TLB_INVAL"} => ~rs[p].dOk /\ ~rs[p].iOk
  /\ rq[p].fsm = "REQ_TLB_DMISS" => rs[p].fsm = "RSP_TLB_DMISS" /\ rq[p].addr = va[p].data
  /\ rq[p].fsm = "REQ_TLB_IMISS" => rs[p].fsm = "RSP_TLB_IMISS" /\ va[p].inst = ic[p].addr
  /\ rq[p].fsm = "REQ_TLB_INVAL_SEND_ACK" => rs[p].fsm = "RSP_INVAL_SEND_ACK"
  /\ rq[p].fsm = "REQ_TLB_INVAL" => rs[p].fsm = "RSP_IDLE" /\ IsTlbInv(p)
  /\ rs[p].fsm \in TlbRspStates =>
       /\ rq[p].fsm \in TlbStates \cup {"REQ_IDLE"}
       /\ ~TlbHit(tlb[p], MissedAddr(p))
       /\ rs[p].fsm = "RSP_TLB_IMISS" => ic[p].req
  /\ rs[p].fsm = "RSP_INVAL_SEND_ACK" => rq[p].fsm \in TlbStates \cup {"REQ_IDLE"}
  /\ ta[p].retry => Ready(p)

(* The read pointer of the write buffer follows the packet that is sent.   *)
MccBufferInv(p) ==
  /\ ~dm[p].pending => wb[p] = EmptyBuffer
  /\ dm[p].pending /\ ~dm[p].flush => wb[p].ptr = 0 /\ Len(wb[p].cells) < BufferSize
  /\ dm[p].flush /\ rs[p].dOk => wb[p] = EmptyBuffer
  /\ dm[p].flush /\ ~rs[p].dOk =>
       /\ dm[p].size = Len(wb[p].cells) /\ dm[p].size > 0
       /\ rq[p].fsm = "REQ_DWAIT" => wb[p].ptr = IF rs[p].fsm = "RSP_IDLE" THEN 0 ELSE dm[p].size
       /\ rq[p].fsm \notin {"REQ_WRITE", "REQ_DWAIT"} => wb[p].ptr = 0
  /\ rq[p].fsm = "REQ_WRITE" =>
       /\ wb[p].ptr = rq[p].cpt + 1 /\ rq[p].cpt < dm[p].size
       /\ TranslatesData(p, wb[p].cells[wb[p].ptr].addr)
       /\ rq[p].data = wb[p].cells[wb[p].ptr].data

(* The stores of a burst are to one page: the translation of the first     *)
(* serves all.                                                             *)
OnePageInv(p) ==
  dm[p].pending => \A j \in 1 .. Len(wb[p].cells) : Page(wb[p].cells[j].addr) = Page(dm[p].addr)

(* INV_FSM decides on a cell that is still there.                          *)
MccInvalInv(p) ==
  /\ iv[p].fsm = "INV_CMD" => invCmd[p] # NoBlock /\ ~invCmd[p].tlb
  /\ iv[p].fsm = "INV_CMD_TLB" => invCmd[p] # NoBlock /\ invCmd[p].tlb
  /\ dc[p].prev \in WaitStates \cup {"DCACHE_IDLE"}

MccCacheInv(p) ==
  /\ RequestInv(p) /\ MccServiceInv(p) /\ MccBufferInv(p) /\ ContiguousInv(p)
  /\ OnePageInv(p) /\ MccInvalInv(p)

-----------------------------------------------------------------------------
MccLineRsp == {"RSP_DMISS", "RSP_IMISS"}
MccArrived == IF rsp[P] = NoCell THEN 0 ELSE 1
MccNothing == cmd[P] = NoCell /\ rsp[P] = NoCell /\ packet = NoPacket

(* The command under way is the one that RSP_FSM waits for.                *)
Asked ==
  /\ rs[P].fsm # "RSP_IDLE"
  /\ rs[P].fsm \in MccLineRsp =>
       /\ cmd[P].cmd = "READ" /\ cmd[P].cells = LineWords /\ rs[P].cpt = 0
       /\ cmd[P].addr + LineWords <= NbWords
  /\ rs[P].fsm = "RSP_UNC" =>
       cmd[P].cmd \in {"READ", "LOCKED_READ", "STORE_COND"} /\ cmd[P].cells = 1
  /\ rs[P].fsm = "RSP_WRITE" => cmd[P].cmd = "WRITE"
  /\ rs[P].fsm \in TlbRspStates => cmd[P].cmd = "READ_TLB_MISS" /\ cmd[P].addr = MissedAddr(P)
  /\ rs[P].fsm = "RSP_INVAL_SEND_ACK" =>
       cmd[P].cmd = "TLB_INV_ACK" /\ cmd[P].addr = PageBase(ta[P].page)

(* The network and the memory have the cells of one request: each of the   *)
(* cells of an answer is counted once, as received, on its way or left to  *)
(* send.                                                                   *)
MccFlightInv ==
  /\ packet.left > 0 => packet.written = <<>>
  /\ packet.left = 0 /\ rs[P].fsm # "RSP_WRITE" => packet = NoPacket
  /\ cmd[P] # NoCell =>
       /\ rsp[P] = NoCell /\ packet.left = 0 /\ Asked
       /\ cmd[P].cmd # "WRITE" => packet = NoPacket
  /\ rs[P].fsm = "RSP_IDLE" \/ rq[P].fsm \in SendStates => MccNothing
  /\ rq[P].fsm = "REQ_WRITE" =>
       rsp[P] = NoCell /\ packet.left = 0 /\ (cmd[P] # NoCell => ~cmd[P].eop)
  /\ rq[P].fsm \in {"REQ_IDLE", "REQ_DWAIT", "REQ_IWAIT"} /\ cmd[P] = NoCell =>
       /\ rs[P].fsm \in MccLineRsp => rs[P].cpt + MccArrived + packet.left = LineWords
       /\ rs[P].fsm = "RSP_UNC" => MccArrived + packet.left = 1
       /\ rs[P].fsm \in TlbRspStates \cup {"RSP_WRITE", "RSP_INVAL_SEND_ACK"} =>
            MccArrived = 1 /\ packet = NoPacket
  /\ rq[P].fsm = "REQ_DWAIT" /\ cmd[P] # NoCell => cmd[P].eop
  /\ rsp[P] # NoCell => (rsp[P].eop <=> packet.left = 0)

-----------------------------------------------------------------------------
(* f may translate v: it is the home's frame, and the home has listed the  *)
(* cache or invalidates; or the home has entered another frame, and        *)
(* invalidates.                                                            *)
TranslationOK(v, f) ==
  /\ v \in Migrable /\ f \in Pages
  /\ \/ f = home[v] /\ (v \in listed \/ InvalidationDue(v))
     \/ home[v] \in move.frames /\ f = Partner(home[v]) /\ v \notin move.todo /\ InvalidationDue(v)

TlbAnswer == rs[P].fsm \in TlbRspStates /\ rsp[P] # NoCell /\ ~rsp[P].error

(* What the TLB holds, and what will be entered, may translate.            *)
TlbInv ==
  /\ \A i, j \in Entries : tlb[P][i].tag = tlb[P][j].tag /\ tlb[P][i].tag # NoPage => i = j
  /\ \A i \in Entries : tlb[P][i].tag # NoPage => TranslationOK(tlb[P][i].tag, tlb[P][i].frame)
  /\ TlbAnswer => TranslationOK(Page(MissedAddr(P)), FrameOf(rsp[P].data))

(* A command about data names a frame that the TLB has for its page: it is *)
(* not reset while the command is under way.                               *)
CommandInv ==
  cmd[P] # NoCell /\ cmd[P].cmd \in DataCommands =>
    IF cmd[P].page \in Migrable
    THEN \E i \in Entries : tlb[P][i].tag = cmd[P].page /\ tlb[P][i].frame = Page(cmd[P].addr)
    ELSE Page(cmd[P].addr) = cmd[P].page

(* The invalidation of v is on the network; its acknowledgement is due.    *)
InvSent(v) == invCmd[P] # NoBlock /\ invCmd[P].tlb /\ invCmd[P].what = v
AckDue(v) ==
  /\ ta[P].page = v
  /\ \/ ta[P].retry
     \/ rs[P].fsm = "RSP_INVAL_SEND_ACK" /\ (rsp[P] # NoCell => rsp[P].error)

(* The two pages of the exchange.                                          *)
Moving == {holds[f] : f \in move.frames}

(* A page that the home awaits has one token: to send, on the network, in  *)
(* a buffer of INV_FSM, or in the acknowledgement; no page has two.        *)
TokenInv ==
  /\ unsent \subseteq awaited
  /\ awaited \subseteq Moving /\ awaited \cap move.todo = {}
  /\ \A v \in Pages :
       /\ InvSent(v) => v \in awaited \ unsent
       /\ ti[P].inv0 = v => v \in awaited \ unsent /\ ~InvSent(v)
       /\ ti[P].inv1 = v => v \in awaited \ unsent /\ ~InvSent(v) /\ ti[P].inv0 # v
       /\ AckDue(v) => v \in awaited \ unsent /\ ~InvSent(v) /\ ti[P].inv0 # v /\ ti[P].inv1 # v

(* Only one of the two, the exchange and the page table, has moved v.      *)
Undecided(v) == move.done <=> v \in move.todo

(* holds and home are inverse of each other but for what is undecided; a   *)
(* frame of the exchange that accepts requests is not yet touched, or its  *)
(* old page is no longer looked for there.                                 *)
MoveInv ==
  /\ holds \in [Pages -> Pages] /\ home \in [Pages -> Pages]
  /\ listed \subseteq Pages
  /\ move \in [frames : SUBSET Migrable, todo : SUBSET Pages, done : BOOLEAN]
  /\ \/ move.frames = {}
     \/ \E f, g \in Migrable : f # g /\ move.frames = {f, g}
  /\ move.frames = {} => move = NoMove
  /\ move.todo \subseteq Moving
  /\ poisoned \subseteq move.frames
  /\ \A f \in Pages : home[holds[f]] = IF f \in move.frames /\ Undecided(holds[f])
                                       THEN Partner(f) ELSE f
  /\ \A v \in Pages : holds[IF home[v] \in move.frames /\ Undecided(v)
                            THEN Partner(home[v]) ELSE home[v]] = v
  /\ \A f \in move.frames \ poisoned :
       IF move.done THEN holds[Partner(f)] \notin move.todo \cup awaited
       ELSE Moving \subseteq move.todo
  /\ \A v \in Pages \ Migrable : holds[v] = v

(* The inductive invariant.                                                *)
MccInv ==
  /\ MccRegsOK /\ MccCacheInv(P) /\ MccFlightInv /\ TlbInv /\ CommandInv /\ TokenInv /\ MoveInv

-----------------------------------------------------------------------------
(* Addresses, pages and what the TLB gives. *)

TlbType == [Entries -> [tag : Migrable \cup {NoPage}, frame : Pages]]

(* There is one cache.                                                     *)
LEMMA PIsCache == P \in Procs /\ P \in Srcs /\ Procs = {P}
BY OneCacheAssumption, NbSrcsAssumption DEF P, Procs, Srcs

(* A page has PageWords words, all in memory.                              *)
LEMMA PageFacts ==
  /\ \A a \in Addr : a \in Nat /\ Page(a) \in Pages /\ a % PageWords \in 0 .. PageWords - 1
  /\ \A f \in Pages : f \in Nat
  /\ \A f \in Pages : \A k \in 0 .. PageWords - 1 :
       PageBase(f) + k \in Addr /\ Page(PageBase(f) + k) = f
  /\ \A f \in Pages : PageBase(f) \in Addr /\ Page(PageBase(f)) = f
<1>1. PageWords \in Nat \ {0} /\ NbWords \in Nat \ {0}
  BY PageWordsAssumption, NbWordsAssumption
<1>2. \A a \in Addr : a \in Nat /\ a \div PageWords \in Nat /\ a % PageWords \in 0 .. PageWords - 1
  BY <1>1 DEF Addr
<1>3. \A f \in Pages : f \in Nat
  BY <1>2 DEF Pages, Page
<1>4. ASSUME NEW f \in Pages, NEW k \in 0 .. PageWords - 1
      PROVE  PageBase(f) + k \in Addr /\ Page(PageBase(f) + k) = f
  <2>1. f \in Nat /\ k \in Nat /\ k < PageWords
    BY <1>1, <1>3
  <2>2. f * PageWords \in Nat /\ f * PageWords + PageWords <= NbWords
    <3>1. f * PageWords + PageWords <= NbWords
      BY WholePagesAssumption DEF PageBase
    <3> QED BY <1>1, <2>1, <3>1
  <2>3. (f * PageWords + k) \div PageWords = f
    BY <1>1, <2>1
  <2>4. f * PageWords + k \in Addr
    BY <1>1, <2>1, <2>2 DEF Addr
  <2> QED BY <2>3, <2>4 DEF PageBase, Page
<1>5. ASSUME NEW f \in Pages
      PROVE  PageBase(f) \in Addr /\ Page(PageBase(f)) = f
  <2>1. 0 \in 0 .. PageWords - 1 /\ PageBase(f) \in Nat
    BY <1>1, <1>3 DEF PageBase
  <2>2. PageBase(f) + 0 \in Addr /\ Page(PageBase(f) + 0) = f
    BY <1>4, <2>1
  <2>3. PageBase(f) + 0 = PageBase(f)
    BY <2>1
  <2> QED BY <2>2, <2>3
<1> QED BY <1>2, <1>3, <1>4, <1>5 DEF Pages, Page

(* The next word is in the same page unless a page starts there.           *)
LEMMA NextInPage ==
  ASSUME NEW a \in Addr, a + 1 \in Addr, a + 1 \notin PageStarts
  PROVE  Page(a + 1) = Page(a)
<1>1. PageWords \in Nat \ {0} /\ a \in Nat
  BY PageWordsAssumption DEF Addr
<1>2. (a + 1) % PageWords # 0
  BY BurstsStopAssumption
<1> DEFINE q == (a + 1) \div PageWords
           r == (a + 1) % PageWords
<1>3. /\ q \in Nat /\ r \in 0 .. PageWords - 1
      /\ a + 1 = q * PageWords + r
  BY <1>1
<1>4. r # 0
  BY <1>2
<1> HIDE DEF q, r
<1>5. a = q * PageWords + (r - 1) /\ r - 1 \in 0 .. PageWords - 1 /\ q * PageWords \in Nat
  BY <1>1, <1>3, <1>4
<1>6. \A k \in 0 .. PageWords - 1 : (q * PageWords + k) \div PageWords = q
  BY <1>1, <1>3
<1>7. a \div PageWords = q
  BY <1>5, <1>6
<1> USE DEF q
<1> QED BY <1>7 DEF Page

(* The entry that a lookup finds.                                          *)
LEMMA LeastEntry ==
  ASSUME NEW s \in SUBSET Entries, s # {}
  PROVE  First(s) \in s
<1> DEFINE R == OpToRel(<, Nat)
<1>1. IsWellFoundedOn(R, Nat)
  BY NatLessThanWellFounded
<1>2. s \subseteq Nat
  BY TlbSizeAssumption DEF Entries
<1>3. \E x \in s : \A y \in s : ~(<<y, x>> \in R)
  <2> HIDE DEF R
  <2> QED BY <1>1, <1>2, WFMin
<1>4. \A x, y \in s : <<y, x>> \in R <=> y < x
  BY <1>2 DEF OpToRel
<1>5. \A x, y \in s : ~(y < x) => x <= y
  BY <1>2
<1> HIDE DEF R
<1>6. \E i \in s : \A j \in s : i <= j
  BY <1>3, <1>4, <1>5
<1> QED BY <1>6 DEF First

(* What a lookup gives: an address in the frame of an entry for the page,  *)
(* or the address itself.                                                  *)
LEMMA TranslateFacts ==
  ASSUME NEW t \in TlbType, NEW a \in Addr
  PROVE  /\ Translate(t, a) \in Addr
         /\ Page(a) \notin Migrable => TlbHit(t, a) /\ Translate(t, a) = a
         /\ TlbHit(t, a) /\ Page(a) \in Migrable =>
              \E i \in Entries : t[i].tag = Page(a) /\ t[i].frame = Page(Translate(t, a))
         /\ ~TlbHit(t, a) => /\ Page(a) \in Migrable /\ Translate(t, a) = a
                             /\ \A i \in Entries : t[i].tag # Page(a)
<1> DEFINE h == Holding(t, Page(a))
<1>1. CASE Page(a) \in Migrable /\ h # {}
  <2>1. First(h) \in h
    <3>1. h \in SUBSET Entries
      BY DEF Holding
    <3> HIDE DEF h
    <3> QED BY <1>1, <3>1, LeastEntry
  <2> DEFINE i == First(h)
  <2>2. i \in Entries /\ t[i].tag = Page(a) /\ t[i].frame \in Pages
    <3>1. i \in Entries /\ t[i].tag = Page(a)
      BY <2>1 DEF Holding
    <3> HIDE DEF i
    <3> QED BY <3>1 DEF TlbType
  <2>3. Translate(t, a) = PageBase(t[i].frame) + (a % PageWords)
    BY <1>1 DEF Translate
  <2> HIDE DEF i
  <2>4. a % PageWords \in 0 .. PageWords - 1
    BY PageFacts
  <2>5. Translate(t, a) \in Addr /\ Page(Translate(t, a)) = t[i].frame
    BY <2>2, <2>3, <2>4, PageFacts
  <2>6. TlbHit(t, a)
    BY <1>1 DEF TlbHit
  <2> QED BY <1>1, <2>2, <2>5, <2>6
<1>2. CASE ~(Page(a) \in Migrable /\ h # {})
  <2>1. Translate(t, a) = a /\ (TlbHit(t, a) <=> Page(a) \notin Migrable)
    BY <1>2 DEF Translate, TlbHit
  <2> QED BY <1>2, <2>1 DEF Holding
<1> QED BY <1>1, <1>2

-----------------------------------------------------------------------------
(* The registers of the cache. *)

MccRqRegs == [fsm : MccReqStates, addr : Addr, data : Word, cpt : 0 .. BufferSize]
VaRegs    == [data : Addr, inst : Addr]
TiRegs    == [inv0 : Pages \cup {NoPage}, inv1 : Pages \cup {NoPage}]
TaRegs    == [page : Pages, retry : BOOLEAN]

(* The types of the registers of the cache.                                *)
LEMMA MccRegTypes ==
  ASSUME MccRegsOK
  PROVE  /\ cpu[P] \in DataReq \cup {NoReq} /\ fetch[P] \in Addr \cup {NoReq}
         /\ dc[P] \in DcRegs /\ dm[P] \in DmRegs /\ wb[P] \in WbRegs /\ ic[P] \in IcRegs
         /\ wb[P].ptr <= Len(wb[P].cells) /\ Len(wb[P].cells) <= BufferSize
         /\ rq[P] \in MccRqRegs /\ rs[P] \in MccRsRegs /\ iv[P] \in MccIvRegs
         /\ tlb[P] \in TlbType /\ va[P] \in VaRegs /\ ti[P] \in TiRegs /\ ta[P] \in TaRegs
         /\ cmd[P] \in MccCmdCell \cup {NoCell} /\ rsp[P] \in RspCell \cup {NoCell}
         /\ invCmd[P] \in MccInvCell \cup {NoBlock} /\ invRsp[P] \in BOOLEAN
<1>1. DataRegsOK /\ P \in Procs /\ P \in Srcs
  BY PIsCache DEF MccRegsOK
<1>2. /\ rs[P] \in MccRsRegs /\ iv[P] \in MccIvRegs
      /\ cmd[P] \in MccCmdCell \cup {NoCell} /\ rsp[P] \in RspCell \cup {NoCell}
      /\ invCmd[P] \in MccInvCell \cup {NoBlock} /\ invRsp[P] \in BOOLEAN
  BY <1>1 DEF MccRegsOK
<1>3. /\ rq[P] \in MccRqRegs /\ tlb[P] \in TlbType /\ va[P] \in VaRegs
      /\ ti[P] \in TiRegs /\ ta[P] \in TaRegs
  BY <1>1 DEF MccRegsOK, MccTypeOK, MccRqRegs, TlbType, VaRegs, TiRegs, TaRegs
<1> QED BY <1>1, <1>2, <1>3, AnyRegTypes

(* The addresses that the machines translate.                              *)
LEMMA MccAddrs ==
  ASSUME MccRegsOK
  PROVE  /\ dc[P].addr \in Addr /\ dc[P].data \in Word /\ ic[P].addr \in Addr
         /\ va[P].data \in Addr /\ va[P].inst \in Addr /\ rq[P].addr \in Addr
         /\ rq[P].data \in Word /\ MissedAddr(P) \in Addr
         /\ wb[P].ptr < Len(wb[P].cells) =>
              FlushAddr(P) \in Addr /\ ReadCell(wb[P]).data \in Word
<1>1. /\ dc[P].addr \in Addr /\ dc[P].data \in Word /\ ic[P].addr \in Addr
      /\ va[P].data \in Addr /\ va[P].inst \in Addr /\ rq[P].addr \in Addr
      /\ rq[P].data \in Word
  BY MccRegTypes DEF DcRegs, IcRegs, VaRegs, MccRqRegs
<1>2. wb[P].ptr < Len(wb[P].cells) => ReadCell(wb[P]) \in [addr : Addr, data : Word]
  <2> DEFINE n == wb[P].cells
             k == wb[P].ptr
             C == [addr : Addr, data : Word]
  <2>1. n \in Seq(C) /\ k \in Nat
    BY MccRegTypes, SizeFacts DEF WbRegs
  <2>2. k < Len(n) => n[k + 1] \in C
    <3> HIDE DEF n, k, C
    <3>1. Len(n) \in Nat /\ \A j \in 1 .. Len(n) : n[j] \in C
      BY <2>1
    <3>2. k < Len(n) => k + 1 \in 1 .. Len(n)
      BY <2>1, <3>1
    <3> QED BY <3>1, <3>2
  <2> QED BY <2>2 DEF ReadCell
<1> QED BY <1>1, <1>2 DEF MissedAddr, FlushAddr

(* RSP_OK is up only in the cycle that ends the request, as in VciCcCache. *)
LEMMA MccDone ==
  ASSUME MccRegsOK, MccServiceInv(P)
  PROVE  DoneInv(P)
<1>1. rq[P].fsm \in MccReqStates
  BY MccRegTypes DEF MccRqRegs
<1> QED BY <1>1 DEF MccServiceInv, DoneInv, DataDone, InstDone, MccReqStates, SendStates,
       DataCellStates, OneCellStates, TlbStates

-----------------------------------------------------------------------------
(* VCI_REQ_FSM: what a cycle does to the request that is served. *)

SameVa  == va'[P] = va[P]
KeepsRq == rq'[P].addr = rq[P].addr /\ rq'[P].data = rq[P].data

MccReqKeeps ==
  /\ rq'[P] = rq[P] /\ SameVa /\ cmd' = cmd
  /\ rq[P].fsm = "REQ_IDLE" => rs[P].fsm # "RSP_IDLE"
  /\ rq[P].fsm = "REQ_DWAIT" => ~rs[P].dOk /\ ~rs[P].dRetry
  /\ rq[P].fsm = "REQ_IWAIT" => ~rs[P].iOk /\ ~rs[P].iRetry
  /\ rq[P].fsm \notin {"REQ_IDLE", "REQ_DWAIT", "REQ_IWAIT"} =>
       cmd[P] # NoCell /\ rq[P].fsm # "REQ_TLB_INVAL"

MccReqStartsData ==
  /\ Issues(P) /\ dm[P].req /\ cmd' = cmd
  /\ rq'[P].fsm = IF TlbHit(tlb[P], dc[P].addr) THEN DataReqState(P) ELSE "REQ_TLB_DMISS"
  /\ rq'[P].addr = Translate(tlb[P], dc[P].addr) /\ rq'[P].cpt = 0
  /\ va'[P].data = dc[P].addr /\ va'[P].inst = va[P].inst

MccReqStartsWrite ==
  /\ Issues(P) /\ ~dm[P].req /\ dm[P].flush /\ cmd' = cmd
  /\ rq'[P].fsm = IF TlbHit(tlb[P], FlushAddr(P)) THEN "REQ_WRITE" ELSE "REQ_TLB_DMISS"
  /\ rq'[P].addr = Translate(tlb[P], FlushAddr(P)) /\ rq'[P].cpt = 0
  /\ rq'[P].data = ReadCell(wb[P]).data
  /\ va'[P].data = FlushAddr(P) /\ va'[P].inst = va[P].inst

MccReqStartsInst ==
  /\ Issues(P) /\ ~dm[P].req /\ ~dm[P].flush /\ ic[P].req /\ cmd' = cmd
  /\ rq'[P].fsm = IF TlbHit(tlb[P], ic[P].addr) THEN "REQ_IMISS" ELSE "REQ_TLB_IMISS"
  /\ va'[P].data = va[P].data /\ va'[P].inst = Translate(tlb[P], ic[P].addr)

MccReqStartsNone ==
  /\ Issues(P) /\ ~dm[P].req /\ ~dm[P].flush /\ ~ic[P].req /\ cmd' = cmd /\ SameVa
  /\ rq'[P].fsm = "REQ_IDLE"

(* A refused acknowledgement goes before an invalidation.                  *)
MccReqServes ==
  /\ Ready(P) /\ ~Issues(P) /\ cmd' = cmd /\ SameVa /\ KeepsRq
  /\ rq'[P].fsm = IF ta[P].retry THEN "REQ_TLB_INVAL_SEND_ACK" ELSE "REQ_TLB_INVAL"

MccReqDrops ==
  /\ rq[P].fsm = "REQ_TLB_INVAL" /\ cmd' = cmd /\ SameVa /\ KeepsRq
  /\ rq'[P].fsm = "REQ_TLB_INVAL_SEND_ACK"

MccReqSends ==
  /\ rq[P].fsm \in SendStates /\ cmd[P] = NoCell /\ SameVa /\ KeepsRq
  /\ cmd' = [cmd EXCEPT ![P] = MccCommandCell(P)]
  /\ rq'[P].fsm = IF rq[P].fsm \in TlbStates THEN "REQ_IDLE"
                  ELSE IF rq[P].fsm = "REQ_IMISS" THEN "REQ_IWAIT" ELSE "REQ_DWAIT"

MccReqSendsStore ==
  /\ rq[P].fsm = "REQ_WRITE" /\ cmd[P] = NoCell
  /\ cmd' = [cmd EXCEPT ![P] = MccCommandCell(P)]
  /\ rq'[P].cpt = rq[P].cpt + 1 /\ va'[P].inst = va[P].inst
  /\ LastCell(P) => rq'[P].fsm = "REQ_DWAIT" /\ SameVa /\ KeepsRq
  /\ ~LastCell(P) => /\ rq'[P].fsm = "REQ_WRITE"
                     /\ rq'[P].addr = Translate(tlb[P], FlushAddr(P))
                     /\ rq'[P].data = ReadCell(wb[P]).data
                     /\ va'[P].data = FlushAddr(P)

MccReqEnds ==
  /\ \/ rq[P].fsm = "REQ_DWAIT" /\ (rs[P].dOk \/ rs[P].dRetry)
     \/ rq[P].fsm = "REQ_IWAIT" /\ (rs[P].iOk \/ rs[P].iRetry)
  /\ cmd' = cmd /\ SameVa /\ KeepsRq
  /\ rq'[P].fsm = "REQ_IDLE"

(* What REQ_FSM and the others write is what the next cycle reads.         *)
LEMMA SetRqAt ==
  ASSUME MccRegsOK, NEW r, SetRq(P, r)
  PROVE  rq'[P] = r /\ (r \in MccRqRegs => rq' \in [Procs -> MccRqRegs])
<1>1. rq \in [Procs -> MccRqRegs] /\ P \in Procs
  BY PIsCache DEF MccRegsOK, MccTypeOK, MccRqRegs
<1> HIDE DEF MccRqRegs
<1> QED BY <1>1 DEF SetRq

LEMMA VaAt ==
  ASSUME MccRegsOK, NEW a \in Addr
  PROVE  /\ va' = [va EXCEPT ![P].data = a] =>
              va'[P].data = a /\ va'[P].inst = va[P].inst /\ va' \in [Procs -> VaRegs]
         /\ va' = [va EXCEPT ![P].inst = a] =>
              va'[P].inst = a /\ va'[P].data = va[P].data /\ va' \in [Procs -> VaRegs]
<1>1. va \in [Procs -> VaRegs] /\ P \in Procs /\ va[P] \in VaRegs
  BY PIsCache, MccRegTypes DEF MccRegsOK, MccTypeOK, VaRegs
<1> DEFINE d == [va[P] EXCEPT !.data = a]
           i == [va[P] EXCEPT !.inst = a]
<1>2. /\ d \in VaRegs /\ d.data = a /\ d.inst = va[P].inst
      /\ i \in VaRegs /\ i.inst = a /\ i.data = va[P].data
  BY <1>1 DEF VaRegs
<1>3. /\ va' = [va EXCEPT ![P].data = a] => va' = [va EXCEPT ![P] = d]
      /\ va' = [va EXCEPT ![P].inst = a] => va' = [va EXCEPT ![P] = i]
  OBVIOUS
<1> HIDE DEF d, i, VaRegs
<1> QED BY <1>1, <1>2, <1>3

(* A store that REQ_FSM takes is in the write buffer.                      *)
LEMMA MccFlushCell ==
  ASSUME MccRegsOK, MccServiceInv(P), MccBufferInv(P),
         \/ Issues(P) /\ dm[P].flush
         \/ rq[P].fsm = "REQ_WRITE" /\ ~LastCell(P)
  PROVE  /\ wb[P].ptr < Len(wb[P].cells)
         /\ FlushAddr(P) \in Addr /\ ReadCell(wb[P]).data \in Word
<1>1. /\ dm[P].size \in Nat /\ rq[P].cpt \in Nat /\ wb[P].ptr \in Nat
      /\ Len(wb[P].cells) \in Nat /\ wb[P].ptr <= Len(wb[P].cells)
  BY MccRegTypes, SizeFacts DEF DmRegs, MccRqRegs, WbRegs
<1>2. wb[P].ptr < Len(wb[P].cells)
  <2>1. CASE Issues(P) /\ dm[P].flush
    BY <1>1, <2>1 DEF Issues, Ready, MccServiceInv, MccBufferInv
  <2>2. CASE rq[P].fsm = "REQ_WRITE" /\ ~LastCell(P)
    BY <1>1, <2>2 DEF LastCell, MccServiceInv, MccBufferInv
  <2> QED BY <2>1, <2>2
<1> QED BY <1>2, MccAddrs

MccReqTyped == rq' \in [Procs -> MccRqRegs] /\ va' \in [Procs -> VaRegs]

(* The cycles of REQ_FSM: each starts, sends or ends one thing, or keeps.  *)
MccReqEffects ==
  \/ MccReqKeeps \/ MccReqStartsData \/ MccReqStartsWrite \/ MccReqStartsInst
  \/ MccReqStartsNone \/ MccReqServes \/ MccReqDrops \/ MccReqSends \/ MccReqSendsStore
  \/ MccReqEnds

LEMMA MccSameRegs ==
  ASSUME MccRegsOK
  PROVE  /\ UNCHANGED rq => rq' \in [Procs -> MccRqRegs]
         /\ UNCHANGED va => va' \in [Procs -> VaRegs]
BY DEF MccRegsOK, MccTypeOK, MccRqRegs, VaRegs

(* From REQ_IDLE a request is translated, or a miss of the TLB is sent.    *)
LEMMA MccReqIdleEffect ==
  ASSUME MccRegsOK, MccServiceInv(P), MccBufferInv(P), MccReqIdle(P)
  PROVE  MccReqEffects /\ MccReqTyped
<1>1. rq[P] \in MccRqRegs /\ va[P] \in VaRegs /\ tlb[P] \in TlbType
  BY MccRegTypes
<1>2. cmd' = cmd
  BY DEF MccReqIdle
<1>3. 0 \in 0 .. BufferSize
  BY SizeFacts
<1>4. /\ dc[P].addr \in Addr /\ ic[P].addr \in Addr /\ dc[P].data \in Word /\ rq[P].data \in Word
      /\ dc[P].addr \in Addr => Translate(tlb[P], dc[P].addr) \in Addr
      /\ ic[P].addr \in Addr => Translate(tlb[P], ic[P].addr) \in Addr
      /\ FlushAddr(P) \in Addr => Translate(tlb[P], FlushAddr(P)) \in Addr
  BY <1>1, MccAddrs, TranslateFacts
<1>5. CASE ReqData(P)
  <2> DEFINE h == TlbHit(tlb[P], dc[P].addr)
             s == IF ~h THEN "REQ_TLB_DMISS" ELSE DataReqState(P)
             a == Translate(tlb[P], dc[P].addr)
             d == IF h /\ dc[P].sc /\ ~dc[P].ll THEN dc[P].data ELSE rq[P].data
             r == [fsm |-> s, addr |-> a, data |-> d, cpt |-> 0]
  <2>1. SetRq(P, r) /\ Issues(P) /\ dm[P].req /\ va' = [va EXCEPT ![P].data = dc[P].addr]
    BY <1>5 DEF ReqData, DataReqState
  <2>2. s \in MccReqStates /\ a \in Addr /\ d \in Word
    BY <1>4 DEF DataReqState, MccReqStates, SendStates, OneCellStates, TlbStates
  <2>3. s = IF h THEN DataReqState(P) ELSE "REQ_TLB_DMISS"
    OBVIOUS
  <2> HIDE DEF s, d, h
  <2>4. r \in MccRqRegs /\ r.fsm = s /\ r.addr = a /\ r.cpt = 0
    BY <1>3, <2>2 DEF MccRqRegs
  <2> HIDE DEF r
  <2>5. rq'[P] = r /\ rq' \in [Procs -> MccRqRegs]
    BY <2>1, <2>4, SetRqAt
  <2>6. va'[P].data = dc[P].addr /\ va'[P].inst = va[P].inst /\ va' \in [Procs -> VaRegs]
    BY <1>4, <2>1, VaAt
  <2> QED BY <1>2, <2>1, <2>3, <2>4, <2>5, <2>6 DEF MccReqStartsData, MccReqEffects, MccReqTyped, h
<1>6. CASE ReqFlush(P)
  <2> DEFINE h == TlbHit(tlb[P], FlushAddr(P))
             s == IF h THEN "REQ_WRITE" ELSE "REQ_TLB_DMISS"
             a == Translate(tlb[P], FlushAddr(P))
             d == ReadCell(wb[P]).data
             r == [fsm |-> s, addr |-> a, data |-> d, cpt |-> 0]
  <2>1. /\ SetRq(P, r) /\ Issues(P) /\ ~dm[P].req /\ dm[P].flush
        /\ va' = [va EXCEPT ![P].data = FlushAddr(P)]
    BY <1>6 DEF ReqFlush
  <2>2. FlushAddr(P) \in Addr /\ d \in Word
    BY <2>1, MccFlushCell
  <2>3. s \in MccReqStates /\ a \in Addr
    BY <1>4, <2>2 DEF MccReqStates, SendStates, OneCellStates, TlbStates
  <2> HIDE DEF s, d, a
  <2>4. r \in MccRqRegs /\ r.fsm = s /\ r.addr = a /\ r.cpt = 0 /\ r.data = d
    BY <1>3, <2>2, <2>3 DEF MccRqRegs
  <2> HIDE DEF r
  <2>5. rq'[P] = r /\ rq' \in [Procs -> MccRqRegs]
    BY <2>1, <2>4, SetRqAt
  <2>6. va'[P].data = FlushAddr(P) /\ va'[P].inst = va[P].inst /\ va' \in [Procs -> VaRegs]
    BY <2>1, <2>2, VaAt
  <2> QED BY <1>2, <2>1, <2>4, <2>5, <2>6
          DEF MccReqStartsWrite, MccReqEffects, MccReqTyped, s, a, d
<1>7. CASE ReqInst(P)
  <2> DEFINE s == IF TlbHit(tlb[P], ic[P].addr) THEN "REQ_IMISS" ELSE "REQ_TLB_IMISS"
             a == Translate(tlb[P], ic[P].addr)
             r == [rq[P] EXCEPT !.cpt = 0, !.fsm = s]
  <2>1. /\ SetRq(P, r) /\ Issues(P) /\ ~dm[P].req /\ ~dm[P].flush /\ ic[P].req
        /\ va' = [va EXCEPT ![P].inst = a]
    BY <1>7 DEF ReqInst
  <2>2. s \in MccReqStates /\ a \in Addr
    BY <1>4 DEF MccReqStates, SendStates, OneCellStates, TlbStates
  <2> HIDE DEF s, a
  <2>3. r \in MccRqRegs /\ r.fsm = s
    BY <1>1, <1>3, <2>2 DEF MccRqRegs
  <2> HIDE DEF r
  <2>4. rq'[P] = r /\ rq' \in [Procs -> MccRqRegs]
    BY <2>1, <2>3, SetRqAt
  <2>5. va'[P].inst = a /\ va'[P].data = va[P].data /\ va' \in [Procs -> VaRegs]
    BY <2>1, <2>2, VaAt
  <2> QED BY <1>2, <2>1, <2>3, <2>4, <2>5
          DEF MccReqStartsInst, MccReqEffects, MccReqTyped, s, a
<1>8. CASE ReqNone(P)
  <2> DEFINE r == [rq[P] EXCEPT !.cpt = 0]
  <2>1. r \in MccRqRegs /\ r.fsm = rq[P].fsm
    BY <1>1, <1>3 DEF MccRqRegs
  <2>2. SetRq(P, r)
    BY <1>8 DEF ReqNone
  <2> HIDE DEF r
  <2>3. rq'[P] = r /\ rq' \in [Procs -> MccRqRegs]
    BY <2>1, <2>2, SetRqAt
  <2> QED BY <1>2, <1>8, <2>1, <2>3, MccSameRegs
          DEF ReqNone, Issues, Ready, SameVa, MccReqStartsNone, MccReqEffects, MccReqTyped
<1>9. CASE ReqHeld(P)
  <2> DEFINE s == IF ~Ready(P) THEN rq[P].fsm
                  ELSE IF ta[P].retry THEN "REQ_TLB_INVAL_SEND_ACK" ELSE "REQ_TLB_INVAL"
             r == [rq[P] EXCEPT !.fsm = s]
  <2>1. SetRq(P, r) /\ rq[P].fsm = "REQ_IDLE" /\ ~Issues(P) /\ va' = va
    BY <1>9 DEF ReqHeld
  <2>2. s \in MccReqStates
    BY <1>1 DEF MccRqRegs, MccReqStates, SendStates, TlbStates
  <2>3. s = rq[P].fsm => r = rq[P]
    BY <1>1 DEF MccRqRegs
  <2>4. s = IF ~Ready(P) THEN rq[P].fsm
            ELSE IF ta[P].retry THEN "REQ_TLB_INVAL_SEND_ACK" ELSE "REQ_TLB_INVAL"
    OBVIOUS
  <2> HIDE DEF s
  <2>5. r \in MccRqRegs /\ r.fsm = s /\ r.addr = rq[P].addr /\ r.data = rq[P].data
    BY <1>1, <2>2 DEF MccRqRegs
  <2> HIDE DEF r
  <2>6. rq'[P] = r /\ rq' \in [Procs -> MccRqRegs]
    BY <2>1, <2>5, SetRqAt
  <2>7. CASE Ready(P)
    BY <1>2, <2>1, <2>4, <2>5, <2>6, <2>7, MccSameRegs
       DEF MccReqServes, SameVa, KeepsRq, MccReqEffects, MccReqTyped
  <2>8. CASE ~Ready(P)
    <3>1. MccReqKeeps
      BY <1>2, <2>1, <2>3, <2>4, <2>6, <2>8 DEF MccReqKeeps, SameVa, Ready
    <3> QED BY <2>1, <2>6, <3>1, MccSameRegs DEF MccReqEffects, MccReqTyped
  <2> QED BY <2>7, <2>8
<1> QED BY <1>5, <1>6, <1>7, <1>8, <1>9 DEF MccReqIdle

(* Every cycle of REQ_FSM is one of them.                                  *)
LEMMA MccReqEffect ==
  ASSUME MccRegsOK, MccServiceInv(P), MccBufferInv(P), MccReqFsm(P)
  PROVE  MccReqEffects /\ MccReqTyped
<1>1. rq[P] \in MccRqRegs /\ va[P] \in VaRegs /\ tlb[P] \in TlbType
  BY MccRegTypes
<1>2. rq[P].fsm \in MccReqStates
  BY <1>1 DEF MccRqRegs
<1>3. CASE MccReqIdle(P)
  BY <1>3, MccReqIdleEffect
<1>4. CASE ReqTlbInval(P)
  <2> DEFINE r == [rq[P] EXCEPT !.fsm = "REQ_TLB_INVAL_SEND_ACK"]
  <2>1. /\ SetRq(P, r) /\ rq[P].fsm = "REQ_TLB_INVAL" /\ cmd' = cmd /\ va' = va
    BY <1>4 DEF ReqTlbInval
  <2>2. /\ r \in MccRqRegs /\ r.fsm = "REQ_TLB_INVAL_SEND_ACK"
        /\ r.addr = rq[P].addr /\ r.data = rq[P].data
    BY <1>1 DEF MccRqRegs, MccReqStates, SendStates, TlbStates
  <2> HIDE DEF r
  <2>3. rq'[P] = r /\ rq' \in [Procs -> MccRqRegs]
    BY <2>1, <2>2, SetRqAt
  <2> QED BY <2>1, <2>2, <2>3, MccSameRegs
          DEF MccReqDrops, SameVa, KeepsRq, MccReqEffects, MccReqTyped
<1>5. CASE MccReqBlocked(P)
  <2>1. /\ rq[P].fsm \in SendStates \cup {"REQ_WRITE"} /\ cmd[P] # NoCell
        /\ rq' = rq /\ cmd' = cmd /\ va' = va
    BY <1>5 DEF MccReqBlocked
  <2>2. MccReqKeeps
    BY <2>1 DEF MccReqKeeps, SameVa, SendStates, OneCellStates, TlbStates
  <2> QED BY <2>1, <2>2, MccSameRegs DEF MccReqEffects, MccReqTyped
<1>6. CASE MccReqOneCell(P)
  <2> DEFINE s == IF rq[P].fsm \in TlbStates THEN "REQ_IDLE"
                  ELSE IF rq[P].fsm = "REQ_IMISS" THEN "REQ_IWAIT" ELSE "REQ_DWAIT"
             t == CASE rq[P].fsm \in TlbStates   -> "REQ_IDLE"
                    [] rq[P].fsm = "REQ_IMISS" -> "REQ_IWAIT"
                    [] OTHER                   -> "REQ_DWAIT"
             r == [rq[P] EXCEPT !.fsm = s]
  <2>1. /\ SetRq(P, [rq[P] EXCEPT !.fsm = t]) /\ rq[P].fsm \in SendStates /\ cmd[P] = NoCell
        /\ va' = va /\ cmd' = [cmd EXCEPT ![P] = MccCommandCell(P)]
    BY <1>6 DEF MccReqOneCell
  <2>2. t = s
    <3>1. rq[P].fsm = "REQ_IMISS" => rq[P].fsm \notin TlbStates
      BY DEF TlbStates
    <3> QED BY <3>1, Zenon
  <2>3. s \in MccReqStates
    BY DEF MccReqStates
  <2>4. s = IF rq[P].fsm \in TlbStates THEN "REQ_IDLE"
            ELSE IF rq[P].fsm = "REQ_IMISS" THEN "REQ_IWAIT" ELSE "REQ_DWAIT"
    OBVIOUS
  <2>5. SetRq(P, r)
    BY <2>1, <2>2
  <2> HIDE DEF s, t
  <2>6. r \in MccRqRegs /\ r.fsm = s /\ r.addr = rq[P].addr /\ r.data = rq[P].data
    BY <1>1, <2>3 DEF MccRqRegs
  <2> HIDE DEF r
  <2>7. rq'[P] = r /\ rq' \in [Procs -> MccRqRegs]
    BY <2>5, <2>6, SetRqAt
  <2> QED BY <2>1, <2>4, <2>6, <2>7, MccSameRegs
          DEF MccReqSends, SameVa, KeepsRq, MccReqEffects, MccReqTyped
<1>7. CASE MccReqWrite(P)
  <2>1. /\ rq[P].fsm = "REQ_WRITE" /\ cmd[P] = NoCell
        /\ cmd' = [cmd EXCEPT ![P] = MccCommandCell(P)]
    BY <1>7 DEF MccReqWrite
  <2>2. rq[P].cpt + 1 \in 0 .. BufferSize
    <3>1. /\ rq[P].cpt \in Nat /\ dm[P].size \in 0 .. BufferSize /\ BufferSize \in Nat
      BY MccRegTypes, SizeFacts DEF MccRqRegs, DmRegs
    <3>2. rq[P].cpt < dm[P].size
      BY <2>1 DEF MccBufferInv
    <3> QED BY <3>1, <3>2
  <2>3. CASE LastCell(P)
    <3> DEFINE k == rq[P].cpt + 1
               r == [rq[P] EXCEPT !.fsm = "REQ_DWAIT", !.cpt = k]
    <3>1. SetRq(P, r) /\ va' = va
      BY <1>7, <2>3 DEF MccReqWrite
    <3> HIDE DEF k
    <3>2. /\ r \in MccRqRegs /\ r.fsm = "REQ_DWAIT" /\ r.cpt = k
          /\ r.addr = rq[P].addr /\ r.data = rq[P].data
      BY <1>1, <2>2 DEF MccRqRegs, MccReqStates, k
    <3> HIDE DEF r
    <3>3. rq'[P] = r /\ rq' \in [Procs -> MccRqRegs]
      BY <3>1, <3>2, SetRqAt
    <3> QED BY <2>1, <2>3, <3>1, <3>2, <3>3, MccSameRegs
            DEF MccReqSendsStore, SameVa, KeepsRq, MccReqEffects, MccReqTyped, k
  <2>4. CASE ~LastCell(P)
    <3> DEFINE k == rq[P].cpt + 1
               d == ReadCell(wb[P]).data
               a == Translate(tlb[P], FlushAddr(P))
               r == [rq[P] EXCEPT !.cpt = k, !.data = d, !.addr = a]
    <3>1. SetRq(P, r) /\ va' = [va EXCEPT ![P].data = FlushAddr(P)]
      BY <1>7, <2>4 DEF MccReqWrite
    <3>2. FlushAddr(P) \in Addr /\ d \in Word
      BY <2>1, <2>4, MccFlushCell
    <3>3. a \in Addr
      BY <1>1, <3>2, TranslateFacts
    <3> HIDE DEF k, d, a
    <3>4. /\ r \in MccRqRegs /\ r.fsm = rq[P].fsm /\ r.cpt = k
          /\ r.addr = a /\ r.data = d
      BY <1>1, <2>2, <3>2, <3>3 DEF MccRqRegs, k
    <3> HIDE DEF r
    <3>5. rq'[P] = r /\ rq' \in [Procs -> MccRqRegs]
      BY <3>1, <3>4, SetRqAt
    <3>6. va'[P].data = FlushAddr(P) /\ va'[P].inst = va[P].inst /\ va' \in [Procs -> VaRegs]
      BY <3>1, <3>2, VaAt
    <3> QED BY <2>1, <2>4, <3>4, <3>5, <3>6
            DEF MccReqSendsStore, MccReqEffects, MccReqTyped, k, d, a
  <2> QED BY <2>3, <2>4
<1>8. CASE ReqWait(P) /\ UNCHANGED va
  <2> DEFINE over == IF rq[P].fsm = "REQ_DWAIT" THEN rs[P].dOk \/ rs[P].dRetry
                                                ELSE rs[P].iOk \/ rs[P].iRetry
             r    == [rq[P] EXCEPT !.fsm = "REQ_IDLE"]
  <2>1. /\ rq[P].fsm \in {"REQ_DWAIT", "REQ_IWAIT"} /\ cmd' = cmd /\ va' = va
        /\ rq' = IF over THEN [rq EXCEPT ![P] = r] ELSE rq
    BY <1>8 DEF ReqWait
  <2>2. CASE over
    <3>1. SetRq(P, r)
      BY <2>1, <2>2 DEF SetRq
    <3>2. /\ r \in MccRqRegs /\ r.fsm = "REQ_IDLE"
          /\ r.addr = rq[P].addr /\ r.data = rq[P].data
      BY <1>1 DEF MccRqRegs, MccReqStates
    <3> HIDE DEF r
    <3>3. rq'[P] = r /\ rq' \in [Procs -> MccRqRegs]
      BY <3>1, <3>2, SetRqAt
    <3> QED BY <2>1, <2>2, <3>2, <3>3, MccSameRegs
            DEF MccReqEnds, SameVa, KeepsRq, MccReqEffects, MccReqTyped
  <2>3. CASE ~over
    <3>1. MccReqKeeps
      BY <2>1, <2>3 DEF MccReqKeeps, SameVa
    <3> QED BY <2>1, <2>3, <3>1, MccSameRegs DEF MccReqEffects, MccReqTyped
  <2> QED BY <2>2, <2>3
<1> QED BY <1>3, <1>4, <1>5, <1>6, <1>7, <1>8 DEF MccReqFsm

-----------------------------------------------------------------------------
(* VCI_RSP_FSM: what a cycle does to the answer that is received. *)

MccRspKeeps(rspval) ==
  /\ rs[P].fsm = "RSP_IDLE" => rq[P].fsm \notin {"REQ_IDLE", "REQ_TLB_INVAL"}
  /\ rs[P].fsm # "RSP_IDLE" => ~rspval
  /\ rsp' = rsp /\ FlagsAfter(P, FALSE, FALSE, rs[P].dRetry, rs[P].iRetry)
  /\ rs'[P].fsm = rs[P].fsm /\ rs'[P].cpt = rs[P].cpt

MccRspClears ==
  /\ Ready(P) /\ ~ta[P].retry /\ IsTlbInv(P)
  /\ rsp' = rsp /\ FlagsAfter(P, FALSE, FALSE, FALSE, FALSE)
  /\ rs'[P].fsm = "RSP_IDLE"

MccRspServesAck ==
  /\ rs[P].fsm = "RSP_IDLE"
  /\ (Ready(P) /\ ta[P].retry) \/ rq[P].fsm = "REQ_TLB_INVAL"
  /\ rsp' = rsp /\ FlagsAfter(P, FALSE, FALSE, rs[P].dRetry, rs[P].iRetry)
  /\ rs'[P].fsm = "RSP_INVAL_SEND_ACK"

(* The state of RSP_FSM that receives what REQ_FSM starts.                 *)
MccExpects ==
  IF dm[P].req
  THEN IF TlbHit(tlb[P], dc[P].addr) THEN DataRspState(P) ELSE "RSP_TLB_DMISS"
  ELSE IF dm[P].flush
  THEN IF TlbHit(tlb[P], FlushAddr(P)) THEN "RSP_WRITE" ELSE "RSP_TLB_DMISS"
  ELSE IF ic[P].req
  THEN IF TlbHit(tlb[P], ic[P].addr) THEN "RSP_IMISS" ELSE "RSP_TLB_IMISS"
  ELSE "RSP_IDLE"

MccRspStarts ==
  /\ Issues(P) /\ rsp' = rsp /\ FlagsAfter(P, FALSE, FALSE, FALSE, FALSE)
  /\ rs'[P].fsm = MccExpects /\ rs'[P].cpt = 0

MccRspTakesTlb(rspval) ==
  /\ rs[P].fsm \in TlbRspStates \cup {"RSP_INVAL_SEND_ACK"} /\ rspval /\ TakeRsp(P)
  /\ FlagsAfter(P, FALSE, FALSE, rs[P].dRetry, rs[P].iRetry)
  /\ rs'[P].fsm = "RSP_IDLE"

MccRspEffects(rspval) ==
  \/ MccRspKeeps(rspval) \/ MccRspClears \/ MccRspServesAck \/ MccRspStarts
  \/ MccRspTakesTlb(rspval)
  \/ RspTakesLineCell(P, rspval) \/ RspTakesOneCell(P, rspval)

LEMMA MccRsShape == MccRsRegs = RsShape(MccRspStates)
BY DEF MccRsRegs, RsShape

LEMMA SetRsAt ==
  ASSUME MccRegsOK, NEW r, SetRs(P, r)
  PROVE  rs'[P] = r /\ (r \in MccRsRegs => rs' \in [Procs -> MccRsRegs])
<1>1. rs \in [Procs -> MccRsRegs] /\ P \in Procs
  BY PIsCache DEF MccRegsOK
<1> HIDE DEF MccRsRegs
<1> QED BY <1>1 DEF SetRs

(* From RSP_IDLE, RSP_FSM follows REQ_FSM.                                 *)
LEMMA MccRspIdleEffect ==
  ASSUME MccRegsOK, NEW rspval \in BOOLEAN, MccRspIdle(P)
  PROVE  MccRspEffects(rspval) /\ rs' \in [Procs -> MccRsRegs]
<1> DEFINE r  == RsNow(P)
           c1 == (Ready(P) /\ ta[P].retry) \/ rq[P].fsm = "REQ_TLB_INVAL"
           c2 == Ready(P) /\ ~ta[P].retry /\ IsTlbInv(P)
           c3 == Issues(P)
           e  == CASE dm[P].req ->
                        IF ~TlbHit(tlb[P], dc[P].addr) THEN "RSP_TLB_DMISS"
                        ELSE IF dc[P].unc \/ dc[P].ll \/ dc[P].sc THEN "RSP_UNC"
                        ELSE "RSP_DMISS"
                   [] ~dm[P].req /\ dm[P].flush ->
                        IF TlbHit(tlb[P], FlushAddr(P)) THEN "RSP_WRITE" ELSE "RSP_TLB_DMISS"
                   [] ~dm[P].req /\ ~dm[P].flush /\ ic[P].req ->
                        IF TlbHit(tlb[P], ic[P].addr) THEN "RSP_IMISS" ELSE "RSP_TLB_IMISS"
                   [] OTHER -> "RSP_IDLE"
           r1 == [r EXCEPT !.fsm = "RSP_INVAL_SEND_ACK"]
           r2 == [r EXCEPT !.dRetry = FALSE, !.iRetry = FALSE]
           n  == [r EXCEPT !.dRetry = FALSE, !.iRetry = FALSE, !.cpt = 0]
           r3 == [n EXCEPT !.fsm = e]
<1>1. /\ rs[P] \in RsShape(MccRspStates) /\ P \in Procs
      /\ rs[P].fsm = "RSP_IDLE" /\ rsp' = rsp
  BY MccRegTypes, MccRsShape, PIsCache DEF MccRspIdle
<1>2. /\ r \in MccRsRegs
      /\ r.dOk <=> rs[P].dOk /\ ~DataDone(P)
      /\ r.iOk <=> rs[P].iOk /\ ~InstDone(P)
      /\ r.dRetry = rs[P].dRetry /\ r.iRetry = rs[P].iRetry
      /\ r.fsm = rs[P].fsm /\ r.cpt = rs[P].cpt
  BY <1>1, AnyRsNowFacts, MccRsShape DEF SameRsNow
<1>3. SetRs(P, CASE c1 -> r1 [] c2 -> r2 [] c3 -> r3 [] OTHER -> r)
  BY DEF MccRspIdle, NewPacket
<1>4. ~(c1 /\ c2) /\ ~(c1 /\ c3) /\ ~(c2 /\ c3)
  BY DEF Issues, Ready
<1>5. e = MccExpects
  <2> DEFINE a == IF ~TlbHit(tlb[P], dc[P].addr) THEN "RSP_TLB_DMISS"
                  ELSE IF dc[P].unc \/ dc[P].ll \/ dc[P].sc THEN "RSP_UNC"
                  ELSE "RSP_DMISS"
             f == IF TlbHit(tlb[P], FlushAddr(P)) THEN "RSP_WRITE" ELSE "RSP_TLB_DMISS"
             i == IF TlbHit(tlb[P], ic[P].addr) THEN "RSP_IMISS" ELSE "RSP_TLB_IMISS"
  <2>1. e = CASE dm[P].req -> a [] ~dm[P].req /\ dm[P].flush -> f
              [] ~dm[P].req /\ ~dm[P].flush /\ ic[P].req -> i [] OTHER -> "RSP_IDLE"
    OBVIOUS
  <2>2. dm[P].req => a = IF TlbHit(tlb[P], dc[P].addr) THEN DataRspState(P) ELSE "RSP_TLB_DMISS"
    BY DEF DataRspState
  <2> HIDE DEF a, f, i, e
  <2>3. e = IF dm[P].req THEN a ELSE IF dm[P].flush THEN f ELSE IF ic[P].req THEN i
            ELSE "RSP_IDLE"
    BY <2>1, Zenon
  <2> QED BY <2>2, <2>3 DEF MccExpects, f, i
<1>6. e \in MccRspStates
  <2> HIDE DEF e
  <2> QED BY <1>5 DEF MccExpects, MccRspStates, DataRspState
<1> HIDE DEF r, e
<1>7. /\ r1 \in MccRsRegs /\ r1.fsm = "RSP_INVAL_SEND_ACK"
      /\ r1.dOk = r.dOk /\ r1.iOk = r.iOk /\ r1.dRetry = r.dRetry /\ r1.iRetry = r.iRetry
  BY <1>2 DEF MccRsRegs, MccRspStates
<1>8. /\ r2 \in MccRsRegs /\ r2.fsm = r.fsm
      /\ r2.dOk = r.dOk /\ r2.iOk = r.iOk /\ r2.dRetry = FALSE /\ r2.iRetry = FALSE
  BY <1>2 DEF MccRsRegs
<1>9. /\ n \in MccRsRegs /\ n.cpt = 0
      /\ n.dOk = r.dOk /\ n.iOk = r.iOk /\ n.dRetry = FALSE /\ n.iRetry = FALSE
  <2>1. 0 \in 0 .. LineWords
    BY SizeFacts
  <2> QED BY <1>2, <2>1 DEF MccRsRegs
<1>10. /\ r3 \in MccRsRegs /\ r3.fsm = e /\ r3.cpt = 0
       /\ r3.dOk = r.dOk /\ r3.iOk = r.iOk /\ r3.dRetry = FALSE /\ r3.iRetry = FALSE
  <2> HIDE DEF n
  <2> QED BY <1>6, <1>9 DEF MccRsRegs
<1> HIDE DEF r1, r2, n, r3
<1>11. CASE c1
  <2>1. rs'[P] = r1 /\ rs' \in [Procs -> MccRsRegs]
    <3>1. SetRs(P, r1)
      <4> HIDE DEF c1, c2, c3
      <4>1. (CASE c1 -> r1 [] c2 -> r2 [] c3 -> r3 [] OTHER -> r) = r1
        BY <1>4, <1>11, Zenon
      <4> QED BY <1>3, <4>1
    <3> QED BY <1>7, <3>1, SetRsAt
  <2> QED BY <1>1, <1>2, <1>7, <1>11, <2>1 DEF MccRspServesAck, MccRspEffects, FlagsAfter
<1>12. CASE c2
  <2>1. rs'[P] = r2 /\ rs' \in [Procs -> MccRsRegs]
    <3>1. SetRs(P, r2)
      <4> HIDE DEF c1, c2, c3
      <4>1. (CASE c1 -> r1 [] c2 -> r2 [] c3 -> r3 [] OTHER -> r) = r2
        BY <1>4, <1>12, Zenon
      <4> QED BY <1>3, <4>1
    <3> QED BY <1>8, <3>1, SetRsAt
  <2> QED BY <1>1, <1>2, <1>8, <1>12, <2>1 DEF MccRspClears, MccRspEffects, FlagsAfter
<1>13. CASE c3
  <2>1. rs'[P] = r3 /\ rs' \in [Procs -> MccRsRegs]
    <3>1. SetRs(P, r3)
      <4> HIDE DEF c1, c2, c3
      <4>1. (CASE c1 -> r1 [] c2 -> r2 [] c3 -> r3 [] OTHER -> r) = r3
        BY <1>4, <1>13, Zenon
      <4> QED BY <1>3, <4>1
    <3> QED BY <1>10, <3>1, SetRsAt
  <2> QED BY <1>1, <1>2, <1>5, <1>10, <1>13, <2>1 DEF MccRspStarts, MccRspEffects, FlagsAfter
<1>14. CASE ~c1 /\ ~c2 /\ ~c3
  <2>1. rs'[P] = r /\ rs' \in [Procs -> MccRsRegs]
    <3>1. SetRs(P, r)
      <4> HIDE DEF c1, c2, c3
      <4>1. (CASE c1 -> r1 [] c2 -> r2 [] c3 -> r3 [] OTHER -> r) = r
        BY <1>14, Zenon
      <4> QED BY <1>3, <4>1
    <3> QED BY <1>2, <3>1, SetRsAt
  <2>2. rq[P].fsm \notin {"REQ_IDLE", "REQ_TLB_INVAL"}
    BY <1>1, <1>14 DEF Issues, Ready
  <2> QED BY <1>1, <1>2, <2>1, <2>2 DEF MccRspKeeps, MccRspEffects, FlagsAfter
<1> QED BY <1>11, <1>12, <1>13, <1>14

(* Every cycle of RSP_FSM is one of them.                                  *)
LEMMA MccRspEffect ==
  ASSUME MccRegsOK, NEW rspval \in BOOLEAN, MccRspFsm(P, rspval)
  PROVE  MccRspEffects(rspval)
<1>1. /\ rs \in [Procs -> RsShape(MccRspStates)] /\ rs[P] \in RsShape(MccRspStates) /\ P \in Procs
  BY MccRegTypes, MccRsShape, PIsCache DEF MccRegsOK
<1>2. SameRsNow(P)
  BY <1>1, AnyRsNowFacts
<1>3. CASE MccRspIdle(P)
  BY <1>3, MccRspIdleEffect
<1>4. CASE RspWait(P, rspval)
  <2>1. rs'[P] = RsNow(P) /\ rsp' = rsp /\ ~rspval /\ rs[P].fsm # "RSP_IDLE"
    BY <1>4, SetRsAt DEF RspWait
  <2> QED BY <1>2, <2>1 DEF SameRsNow, MccRspKeeps, MccRspEffects, FlagsAfter
<1>5. CASE RspTlb(P, rspval)
  <2> DEFINE r == RsNow(P)
             e == [r EXCEPT !.fsm = "RSP_IDLE"]
  <2>1. r \in MccRsRegs
    BY <1>1, AnyRsNowFacts, MccRsShape
  <2>2. SetRs(P, e) /\ rspval /\ TakeRsp(P)
        /\ rs[P].fsm \in TlbRspStates \cup {"RSP_INVAL_SEND_ACK"}
    BY <1>5 DEF RspTlb, TlbRspStates
  <2> HIDE DEF r
  <2>3. e.fsm = "RSP_IDLE" /\ e.dOk = r.dOk /\ e.iOk = r.iOk /\ e.dRetry = r.dRetry
        /\ e.iRetry = r.iRetry
    BY <2>1 DEF MccRsRegs
  <2> HIDE DEF e
  <2>4. rs'[P] = e
    BY <2>2, SetRsAt
  <2> QED BY <1>2, <2>2, <2>3, <2>4 DEF SameRsNow, MccRspTakesTlb, MccRspEffects, FlagsAfter, r
<1>6. CASE TakesCell(P, rspval)
  BY <1>1, <1>6, AnyRspTakes DEF MccRspEffects
<1> QED BY <1>3, <1>4, <1>5, <1>6 DEF MccRspFsm, TakesCell

(* RSP_FSM writes within the line that it fills.                           *)
LEMMA MccRspTypes ==
  ASSUME MccRegsOK, NEW rspval \in BOOLEAN, rspval => rsp[P] # NoCell, MccRspFsm(P, rspval),
         rspval /\ rs[P].fsm \in MccLineRsp => rs[P].cpt < LineWords
  PROVE  rs' \in [Procs -> MccRsRegs]
<1>1. /\ rs \in [Procs -> RsShape(MccRspStates)] /\ rs[P] \in RsShape(MccRspStates) /\ P \in Procs
      /\ rspval => rsp[P] \in RspCell
  BY MccRegTypes, MccRsShape, PIsCache DEF MccRegsOK
<1>2. RsNow(P) \in MccRsRegs /\ "RSP_IDLE" \in MccRspStates
  BY <1>1, AnyRsNowFacts, MccRsShape DEF MccRspStates
<1>3. CASE MccRspIdle(P)
  BY <1>3, MccRspIdleEffect
<1>4. CASE RspWait(P, rspval)
  BY <1>2, <1>4, SetRsAt DEF RspWait
<1>5. CASE RspTlb(P, rspval)
  <2> DEFINE r == RsNow(P)
             e == [r EXCEPT !.fsm = "RSP_IDLE"]
  <2>1. SetRs(P, e)
    BY <1>5 DEF RspTlb
  <2>2. e \in MccRsRegs
    <3> HIDE DEF r
    <3>1. r \in MccRsRegs
      BY <1>2 DEF r
    <3> QED BY <1>2, <3>1 DEF MccRsRegs
  <2> HIDE DEF e
  <2> QED BY <2>1, <2>2, SetRsAt
<1>6. CASE TakesCell(P, rspval)
  <2>1. rspval /\ rs[P].fsm \in {"RSP_IMISS", "RSP_DMISS"} => rs[P].cpt < LineWords
    BY DEF MccLineRsp
  <2>2. rs' \in [Procs -> RsShape(MccRspStates)]
    BY <1>1, <1>2, <1>6, <2>1, AnyRspTakesTyped
  <2> QED BY <2>2, MccRsShape
<1> QED BY <1>3, <1>4, <1>5, <1>6 DEF MccRspFsm, TakesCell

-----------------------------------------------------------------------------
(* The other machines: DCACHE_FSM and ICACHE_FSM are those of VciCcCache. *)

LEMMA MccIsDCache == MccDCacheFsm(P) => DCacheFsm(P)
BY DEF MccDCacheFsm, DCacheFsm, DcGathering, DcServing, DcResuming

LEMMA MccIsICache == MccICacheFsm(P) => ICacheFsm(P)
BY DEF MccICacheFsm

LEMMA SetIvAt ==
  ASSUME MccRegsOK, NEW i, SetIv(P, i)
  PROVE  iv'[P] = i /\ (i \in MccIvRegs => iv' \in [Procs -> MccIvRegs])
<1>1. iv \in [Procs -> MccIvRegs] /\ P \in Procs
  BY PIsCache DEF MccRegsOK
<1> HIDE DEF MccIvRegs
<1> QED BY <1>1 DEF SetIv

(* INV_FSM takes a cell of the network once it has looked at it.           *)
MccIvKeeps ==
  /\ invCmd' = invCmd
  /\ iv'[P].fsm = "INV_CMD" => invCmd[P] # NoBlock /\ ~invCmd[P].tlb
  /\ iv'[P].fsm = "INV_CMD_TLB" => invCmd[P] # NoBlock /\ invCmd[P].tlb
  /\ iv[P].fsm \notin {"INV_CMD", "INV_CMD_TLB"}

MccIvTakes ==
  /\ iv[P].fsm \in {"INV_CMD", "INV_CMD_TLB"} /\ invCmd' = [invCmd EXCEPT ![P] = NoBlock]
  /\ iv'[P].fsm \notin {"INV_CMD", "INV_CMD_TLB"}

(* INV_FSM looks at a cell, and takes it in the next cycle.                *)
LEMMA MccIvStep ==
  ASSUME MccRegsOK, MccInvalInv(P), NEW invval \in BOOLEAN, invval => invCmd[P] # NoBlock,
         MccInvalFsm(P, invval)
  PROVE  /\ MccIvKeeps \/ MccIvTakes
         /\ iv' \in [Procs -> MccIvRegs] /\ invRsp' \in [Procs -> BOOLEAN]
         /\ invCmd' \in [Procs -> MccInvCell \cup {NoBlock}]
<1> DEFINE n == IvNow(P)
<1>1. /\ iv[P] \in MccIvRegs /\ P \in Procs
      /\ invCmd[P] \in MccInvCell \cup {NoBlock}
      /\ invRsp \in [Procs -> BOOLEAN] /\ invCmd \in [Procs -> MccInvCell \cup {NoBlock}]
  BY MccRegTypes, PIsCache DEF MccRegsOK
<1>2. n \in MccIvRegs /\ n.fsm = iv[P].fsm
  <2> DEFINE q == iv[P].req /\ ~TakesInval(P)
  <2>1. q \in BOOLEAN /\ n = [iv[P] EXCEPT !.req = q]
    BY DEF IvNow
  <2> HIDE DEF q
  <2> QED BY <1>1, <2>1 DEF MccIvRegs
<1>3. invCmd[P] # NoBlock => invCmd[P].tlb \in BOOLEAN /\ (~invCmd[P].tlb => invCmd[P].what \in Blocks)
  BY <1>1 DEF MccInvCell
<1>4. UNCHANGED invCmd => invCmd' \in [Procs -> MccInvCell \cup {NoBlock}]
  BY <1>1
<1>5. UNCHANGED invRsp => invRsp' \in [Procs -> BOOLEAN]
  BY <1>1
<1> HIDE DEF n
<1>6. CASE MccIvIdle(P, invval)
  <2> DEFINE t == [n EXCEPT !.fsm = "INV_CMD_TLB"]
             c == [n EXCEPT !.req = TRUE, !.fsm = "INV_CMD"]
             e == IF ~invval THEN n ELSE IF invCmd[P].tlb THEN t ELSE c
  <2>1. /\ iv[P].fsm = "INV_IDLE" /\ SetIv(P, e) /\ UNCHANGED invCmd /\ UNCHANGED invRsp
    BY <1>6 DEF MccIvIdle, n
  <2>2. /\ t \in MccIvRegs /\ t.fsm = "INV_CMD_TLB" /\ c \in MccIvRegs /\ c.fsm = "INV_CMD"
    BY <1>2 DEF MccIvRegs
  <2> HIDE DEF t, c
  <2>3. /\ e \in MccIvRegs
        /\ e.fsm = "INV_CMD" => invval /\ ~invCmd[P].tlb
        /\ e.fsm = "INV_CMD_TLB" => invval /\ invCmd[P].tlb
    BY <1>2, <2>1, <2>2
  <2> HIDE DEF e
  <2>4. iv'[P] = e /\ iv' \in [Procs -> MccIvRegs]
    BY <2>1, <2>3, SetIvAt
  <2> QED BY <1>4, <1>5, <2>1, <2>3, <2>4 DEF MccIvKeeps
<1>7. CASE MccIvCommand(P)
  <2> DEFINE t == [n EXCEPT !.fsm = "INV_RSP"]
             c == [n EXCEPT !.block = invCmd[P].what, !.fsm = "INV_WAIT"]
             e == IF iv[P].fsm = "INV_CMD_TLB" THEN t ELSE c
  <2>1. /\ iv[P].fsm \in {"INV_CMD", "INV_CMD_TLB"} /\ SetIv(P, e)
        /\ invCmd' = [invCmd EXCEPT ![P] = NoBlock] /\ UNCHANGED invRsp
    BY <1>7 DEF MccIvCommand, n
  <2>2. /\ t \in MccIvRegs
        /\ t.fsm = "INV_RSP"
        /\ iv[P].fsm = "INV_CMD" => c \in MccIvRegs /\ c.fsm = "INV_WAIT"
    <3>1. iv[P].fsm = "INV_CMD" => invCmd[P].what \in Blocks
      BY <1>3 DEF MccInvalInv
    <3> QED BY <1>2, <3>1 DEF MccIvRegs
  <2> HIDE DEF t, c
  <2>3. e \in MccIvRegs /\ e.fsm \notin {"INV_CMD", "INV_CMD_TLB"}
    BY <2>1, <2>2
  <2> HIDE DEF e
  <2>4. iv'[P] = e /\ iv' \in [Procs -> MccIvRegs]
    BY <2>1, <2>3, SetIvAt
  <2>5. invCmd' \in [Procs -> MccInvCell \cup {NoBlock}]
    BY <1>1, <2>1
  <2> QED BY <1>5, <2>1, <2>3, <2>4, <2>5 DEF MccIvTakes
<1>8. CASE IvWait(P)
  <2> DEFINE s == IF iv[P].req THEN n.fsm ELSE "INV_RSP"
             e == [n EXCEPT !.fsm = s]
  <2>1. /\ iv[P].fsm = "INV_WAIT" /\ SetIv(P, e) /\ UNCHANGED invCmd /\ UNCHANGED invRsp
    BY <1>8 DEF IvWait, n
  <2>2. s \in {"INV_WAIT", "INV_RSP"}
    BY <1>2, <2>1
  <2> HIDE DEF s
  <2>3. e \in MccIvRegs /\ e.fsm = s
    BY <1>2, <2>2 DEF MccIvRegs
  <2> HIDE DEF e
  <2>4. iv'[P] = e /\ iv' \in [Procs -> MccIvRegs]
    BY <2>1, <2>3, SetIvAt
  <2> QED BY <1>4, <1>5, <2>1, <2>2, <2>3, <2>4 DEF MccIvKeeps
<1>9. CASE IvAnswer(P)
  <2> DEFINE s == IF invRsp[P] THEN n.fsm ELSE "INV_IDLE"
             e == [n EXCEPT !.fsm = s]
  <2>1. /\ iv[P].fsm = "INV_RSP" /\ SetIv(P, e) /\ UNCHANGED invCmd
        /\ invRsp' = [invRsp EXCEPT ![P] = TRUE]
    BY <1>9 DEF IvAnswer, n
  <2>2. s \in {"INV_RSP", "INV_IDLE"}
    BY <1>2, <2>1
  <2> HIDE DEF s
  <2>3. e \in MccIvRegs /\ e.fsm = s
    BY <1>2, <2>2 DEF MccIvRegs
  <2> HIDE DEF e
  <2>4. iv'[P] = e /\ iv' \in [Procs -> MccIvRegs]
    BY <2>1, <2>3, SetIvAt
  <2>5. invRsp' \in [Procs -> BOOLEAN]
    BY <1>1, <2>1
  <2> QED BY <1>4, <2>1, <2>2, <2>3, <2>4, <2>5 DEF MccIvKeeps
<1> QED BY <1>6, <1>7, <1>8, <1>9 DEF MccInvalFsm

-----------------------------------------------------------------------------
(* The TLB and its invalidations. *)

(* reset() of an entry leaves the others, and no entry for the page.       *)
LEMMA ResetFacts ==
  ASSUME NEW t \in TlbType, NEW v \in Pages
  PROVE  /\ ResetEntry(t, v) \in TlbType
         /\ \A i \in Entries : ResetEntry(t, v)[i] = t[i] \/ ResetEntry(t, v)[i].tag = NoPage
         /\ (\A i, j \in Entries : t[i].tag = t[j].tag /\ t[i].tag # NoPage => i = j) =>
              \A i \in Entries : ResetEntry(t, v)[i].tag # v
<1> DEFINE h == Holding(t, v)
<1>1. v # NoPage
  BY MigrableAssumption
<1>2. CASE h = {}
  BY <1>2 DEF ResetEntry, Holding
<1>3. CASE h # {}
  <2> DEFINE k == First(h)
  <2>1. k \in Entries /\ t[k].tag = v
    <3>1. h \in SUBSET Entries
      BY DEF Holding
    <3>2. k \in h
      <4> HIDE DEF h
      <4> QED BY <1>3, <3>1, LeastEntry
    <3> HIDE DEF k
    <3> QED BY <3>2 DEF Holding
  <2>2. ResetEntry(t, v) = [t EXCEPT ![k] = NoEntry]
    BY <1>3 DEF ResetEntry
  <2>3. NoEntry \in [tag : Migrable \cup {NoPage}, frame : Pages] /\ NoEntry.tag = NoPage
    <3>1. 0 \in Addr /\ Page(0) = 0
      BY NbWordsAssumption, PageWordsAssumption DEF Addr, Page
    <3>2. 0 \in Pages
      BY <3>1 DEF Pages
    <3> QED BY <3>2 DEF NoEntry
  <2> HIDE DEF h, k
  <2> QED BY <1>1, <2>1, <2>2, <2>3 DEF TlbType
<1> QED BY <1>2, <1>3

(* The TLB enters an answer, resets an entry, or keeps.                    *)
TlbFills(rspval) ==
  /\ TlbAnswered(P, rspval)
  /\ \E k \in Entries :
       /\ tlb'[P][k].tag = Page(MissedAddr(P)) /\ tlb'[P][k].frame = FrameOf(rsp[P].data)
       /\ \A i \in Entries \ {k} : tlb'[P][i] = tlb[P][i]

TlbResets(rspval) ==
  /\ ~TlbAnswered(P, rspval) /\ rq[P].fsm = "REQ_TLB_INVAL"
  /\ tlb'[P] = ResetEntry(tlb[P], ta'[P].page)

TlbKeeps(rspval) ==
  ~TlbAnswered(P, rspval) /\ rq[P].fsm # "REQ_TLB_INVAL" /\ tlb'[P] = tlb[P]

(* The buffer that REQ_FSM serves and the page that is acknowledged.       *)
TaEffect(rspval) ==
  IF rq[P].fsm = "REQ_TLB_INVAL"
  THEN /\ ta'[P].page = IF ti[P].inv1 # NoPage THEN ti[P].inv1 ELSE ti[P].inv0
       /\ ta'[P].retry = ta[P].retry
  ELSE /\ ta'[P].page = ta[P].page
       /\ ta'[P].retry <=> (ta[P].retry /\ ~Ready(P)) \/ AckAgain(P, rspval)

TiEffect ==
  /\ ti'[P].inv0 = IF iv[P].fsm = "INV_CMD_TLB" /\ ti[P].inv0 = NoPage THEN invCmd[P].what
                   ELSE IF rq[P].fsm = "REQ_TLB_INVAL" /\ ti[P].inv1 = NoPage THEN NoPage
                   ELSE ti[P].inv0
  /\ ti'[P].inv1 = IF iv[P].fsm = "INV_CMD_TLB" /\ ti[P].inv0 # NoPage THEN invCmd[P].what
                   ELSE IF rq[P].fsm = "REQ_TLB_INVAL" /\ ti[P].inv1 # NoPage THEN NoPage
                   ELSE ti[P].inv1

(* The second buffer goes first.                                           *)
LEMMA ServedPage ==
  ASSUME MccRegsOK
  PROVE  /\ ti[P][Served(P)] = IF ti[P].inv1 # NoPage THEN ti[P].inv1 ELSE ti[P].inv0
         /\ IsTlbInv(P) => ti[P][Served(P)] \in Pages
BY MccRegTypes DEF Served, IsTlbInv, TiRegs

(* The register of the acknowledgement and its RETRY_ACK_REQ flag.         *)
LEMMA TaStep ==
  ASSUME MccRegsOK, MccServiceInv(P), NEW rspval \in BOOLEAN, rspval => rsp[P] # NoCell,
         TlbAck(P, rspval)
  PROVE  TaEffect(rspval) /\ ta' \in [Procs -> TaRegs]
<1> DEFINE g == ti[P][Served(P)]
           b == (ta[P].retry /\ ~Ready(P)) \/ AckAgain(P, rspval)
           d == [ta[P] EXCEPT !.page = g]
           k == [ta[P] EXCEPT !.retry = b]
<1>1. ta \in [Procs -> TaRegs] /\ ta[P] \in TaRegs /\ P \in Procs
  BY MccRegTypes, PIsCache DEF MccRegsOK, MccTypeOK, TaRegs
<1>2. ta' = [ta EXCEPT ![P] = IF rq[P].fsm = "REQ_TLB_INVAL" THEN d ELSE k]
  BY DEF TlbAck
<1>3. /\ d.page = g /\ d.retry = ta[P].retry /\ k.page = ta[P].page /\ k.retry = b
      /\ k \in TaRegs
  <2>1. b \in BOOLEAN
    OBVIOUS
  <2> HIDE DEF b, g
  <2> QED BY <1>1, <2>1 DEF TaRegs
<1>4. rq[P].fsm = "REQ_TLB_INVAL" => d \in TaRegs
  <2>1. rq[P].fsm = "REQ_TLB_INVAL" => g \in Pages
    BY ServedPage DEF MccServiceInv
  <2> HIDE DEF g
  <2> QED BY <1>1, <2>1 DEF TaRegs
<1>5. g = IF ti[P].inv1 # NoPage THEN ti[P].inv1 ELSE ti[P].inv0
  BY ServedPage
<1> HIDE DEF d, k, g, b
<1>6. ta'[P] = IF rq[P].fsm = "REQ_TLB_INVAL" THEN d ELSE k
  BY <1>1, <1>2
<1>7. ta' \in [Procs -> TaRegs]
  BY <1>1, <1>2, <1>3, <1>4
<1> QED BY <1>3, <1>5, <1>6, <1>7 DEF TaEffect, b

(* The two buffers of invalidations.                                       *)
LEMMA TiStep ==
  ASSUME MccRegsOK, MccInvalInv(P), TlbInvBuffers(P)
  PROVE  TiEffect /\ ti' \in [Procs -> TiRegs]
<1> DEFINE w == invCmd[P].what
           q == rq[P].fsm = "REQ_TLB_INVAL"
           l == IF q THEN [ti[P] EXCEPT ![Served(P)] = NoPage] ELSE ti[P]
           x == IF ti[P].inv0 # NoPage THEN [l EXCEPT !.inv1 = w] ELSE [l EXCEPT !.inv0 = w]
           e == IF iv[P].fsm = "INV_CMD_TLB" THEN x ELSE l
<1>1. ti \in [Procs -> TiRegs] /\ ti[P] \in TiRegs /\ P \in Procs
  BY MccRegTypes, PIsCache DEF MccRegsOK, MccTypeOK, TiRegs
<1>2. ti' = [ti EXCEPT ![P] = e]
  BY DEF TlbInvBuffers, Buffer
<1>3. iv[P].fsm = "INV_CMD_TLB" => w \in Pages
  BY MccRegTypes DEF MccInvalInv, MccInvCell
<1>4. /\ l \in TiRegs
      /\ l.inv0 = IF q /\ ti[P].inv1 = NoPage THEN NoPage ELSE ti[P].inv0
      /\ l.inv1 = IF q /\ ti[P].inv1 # NoPage THEN NoPage ELSE ti[P].inv1
  BY <1>1 DEF TiRegs, Served
<1> HIDE DEF w, q, l
<1>5. /\ iv[P].fsm = "INV_CMD_TLB" => x \in TiRegs
      /\ x.inv0 = IF ti[P].inv0 # NoPage THEN l.inv0 ELSE w
      /\ x.inv1 = IF ti[P].inv0 # NoPage THEN w ELSE l.inv1
  BY <1>3, <1>4 DEF TiRegs
<1> HIDE DEF x
<1>6. e \in TiRegs
  BY <1>4, <1>5
<1>7. ti'[P] = e /\ ti' \in [Procs -> TiRegs]
  <2> HIDE DEF e
  <2> QED BY <1>1, <1>2, <1>6
<1> QED BY <1>4, <1>5, <1>7 DEF TiEffect, w, q

(* The TLB.                                                                *)
LEMMA TlbStep ==
  ASSUME MccRegsOK, MccServiceInv(P), NEW rspval \in BOOLEAN, rspval => rsp[P] # NoCell,
         Tlb(P, rspval), TlbAck(P, rspval),
         TlbAnswered(P, rspval) => FrameOf(rsp[P].data) \in Pages
  PROVE  /\ TlbFills(rspval) \/ TlbResets(rspval) \/ TlbKeeps(rspval)
         /\ tlb' \in [Procs -> TlbType]
<1> DEFINE n == TlbAnswered(P, rspval)
           q == rq[P].fsm = "REQ_TLB_INVAL"
<1>1. tlb \in [Procs -> TlbType] /\ tlb[P] \in TlbType /\ P \in Procs
  BY MccRegTypes, PIsCache DEF MccRegsOK, MccTypeOK, TlbType
<1>2. ~(n /\ q)
  BY DEF TlbAnswered, MccServiceInv
<1>3. IF n THEN TlbFill(P) ELSE IF q THEN TlbDrop(P) ELSE UNCHANGED tlb
  <2>1. (CASE n -> TlbFill(P) [] q -> TlbDrop(P) [] OTHER -> UNCHANGED tlb)
    BY Zenon DEF Tlb
  <2> HIDE DEF n, q
  <2> QED BY <1>2, <2>1, Zenon
<1>4. CASE n
  <2> DEFINE r == [tag |-> Page(MissedAddr(P)), frame |-> FrameOf(rsp[P].data)]
  <2>1. PICK k \in Entries : tlb' = [tlb EXCEPT ![P] = [tlb[P] EXCEPT ![k] = r]]
    BY <1>3, <1>4 DEF TlbFill, AddEntry
  <2>2. Page(MissedAddr(P)) \in Migrable
    BY <1>1, <1>4, MccAddrs, TranslateFacts DEF TlbAnswered, MccServiceInv, TlbRspStates
  <2>3. /\ r \in [tag : Migrable \cup {NoPage}, frame : Pages]
        /\ r.tag = Page(MissedAddr(P)) /\ r.frame = FrameOf(rsp[P].data)
    BY <1>4, <2>2
  <2> HIDE DEF r
  <2>4. tlb'[P] = [tlb[P] EXCEPT ![k] = r]
    BY <1>1, <2>1
  <2>5. tlb' \in [Procs -> TlbType]
    BY <1>1, <2>1, <2>3 DEF TlbType
  <2>6. tlb'[P][k] = r /\ \A i \in Entries \ {k} : tlb'[P][i] = tlb[P][i]
    BY <1>1, <2>4 DEF TlbType
  <2> QED BY <1>4, <2>3, <2>5, <2>6 DEF TlbFills
<1>5. CASE ~n /\ q
  <2> DEFINE v == ti[P][Served(P)]
             t == ResetEntry(tlb[P], v)
  <2>1. tlb' = [tlb EXCEPT ![P] = t]
    BY <1>3, <1>5 DEF TlbDrop
  <2>2. v \in Pages
    BY <1>5, ServedPage DEF MccServiceInv
  <2>3. t \in TlbType
    <3> HIDE DEF v
    <3> QED BY <1>1, <2>2, ResetFacts
  <2>4. ta'[P].page = v
    BY <1>5, TaStep, ServedPage DEF TaEffect
  <2> HIDE DEF t
  <2>5. tlb'[P] = t /\ tlb' \in [Procs -> TlbType]
    BY <1>1, <2>1, <2>3
  <2> QED BY <1>5, <2>4, <2>5 DEF TlbResets, t
<1>6. CASE ~n /\ ~q
  BY <1>1, <1>3, <1>6 DEF TlbKeeps
<1> QED BY <1>4, <1>5, <1>6

-----------------------------------------------------------------------------
(* A cycle of the cache.  An answer finds the state that waits for it.     *)

MccResponseOK ==
  rsp[P] # NoCell =>
    /\ rq[P].fsm \in {"REQ_IDLE", "REQ_DWAIT", "REQ_IWAIT"}
    /\ rs[P].fsm # "RSP_IDLE" /\ cmd[P] = NoCell
    /\ rs[P].fsm \in MccLineRsp =>
         rs[P].cpt < LineWords /\ (packet.left = 0 <=> rs[P].cpt = LineWords - 1)

(* An answer finds the state that waits for it, and the last cell of a     *)
(* line its last word.                                                     *)
LEMMA MccAnswers ==
  ASSUME MccRegsOK, MccServiceInv(P), MccFlightInv
  PROVE  MccResponseOK
<1> SUFFICES ASSUME rsp[P] # NoCell
             PROVE  /\ rq[P].fsm \in {"REQ_IDLE", "REQ_DWAIT", "REQ_IWAIT"}
                    /\ rs[P].fsm # "RSP_IDLE" /\ cmd[P] = NoCell
                    /\ rs[P].fsm \in MccLineRsp =>
                         rs[P].cpt < LineWords /\ (packet.left = 0 <=> rs[P].cpt = LineWords - 1)
  BY DEF MccResponseOK
<1>1. rq[P].fsm \in MccReqStates /\ rs[P].cpt \in Nat /\ LineWords \in Nat /\ packet.left \in Nat
  BY MccRegTypes, SizeFacts DEF MccRqRegs, MccRsRegs, MccRegsOK
<1>2. rs[P].fsm # "RSP_IDLE" /\ cmd[P] = NoCell /\ rq[P].fsm \notin SendStates \cup {"REQ_WRITE"}
  BY DEF MccFlightInv, MccNothing
<1>3. rq[P].fsm # "REQ_TLB_INVAL"
  BY <1>2 DEF MccServiceInv
<1>4. rq[P].fsm \in {"REQ_IDLE", "REQ_DWAIT", "REQ_IWAIT"}
  BY <1>1, <1>2, <1>3 DEF MccReqStates
<1>5. rs[P].fsm \in MccLineRsp => rs[P].cpt + 1 + packet.left = LineWords
  BY <1>2, <1>4 DEF MccFlightInv, MccArrived
<1> QED BY <1>1, <1>2, <1>4, <1>5

(* The states that serve a request of the data cache.                      *)
LEMMA MccStateFacts ==
  ASSUME MccRegsOK
  PROVE  /\ rq[P].fsm \in MccReqStates /\ rs[P].fsm \in MccRspStates
         /\ DataRspState(P) \in {"RSP_WRITE", "RSP_UNC", "RSP_DMISS"}
         /\ DataReqState(P) \in DataCellStates
         /\ dm[P].req <=> DataRspState(P) \in {"RSP_UNC", "RSP_DMISS"}
<1>1. rq[P].fsm \in MccReqStates /\ rs[P].fsm \in MccRspStates
  BY MccRegTypes DEF MccRqRegs, MccRsRegs
<1>2. DataReqState(P) \in DataCellStates
  BY DEF DataReqState, DataCellStates, OneCellStates
<1> QED BY <1>1, <1>2 DEF DataRspState

(* The frame that answers a miss.                                          *)
LEMMA AnsweredFrame ==
  ASSUME TlbInv, NEW rspval \in BOOLEAN, rspval => rsp[P] # NoCell, TlbAnswered(P, rspval)
  PROVE  FrameOf(rsp[P].data) \in Pages /\ TranslationOK(Page(MissedAddr(P)), FrameOf(rsp[P].data))
BY DEF TlbInv, TlbAnswer, TlbAnswered, TlbRspStates, TranslationOK

(* What the machines do in one cycle, seen from the registers before it.   *)
MccCycleEffects(rspval) ==
  /\ MccReqEffects /\ MccRspEffects(rspval) /\ IcEffect(P)
  /\ TaEffect(rspval) /\ TiEffect
  /\ TlbFills(rspval) \/ TlbResets(rspval) \/ TlbKeeps(rspval)
  /\ MccIvKeeps \/ MccIvTakes

(* The request of the data cache is held until it is answered.             *)
HeldEffect ==
  dm[P].req \/ dm[P].flush =>
    IF DataDone(P) THEN ~dm'[P].req /\ ~dm'[P].flush /\ ~dm'[P].pending
    ELSE /\ SameRequest(P) /\ DataRspState(P)' = DataRspState(P)
         /\ dm[P].req => DataReqState(P)' = DataReqState(P)

(* The machines have these effects.                                        *)
LEMMA MccCycleFacts ==
  ASSUME MccRegsOK, MccCacheInv(P), MccFlightInv, TlbInv,
         NEW rspval \in BOOLEAN, NEW invval \in BOOLEAN, MccCacheCycle(P, rspval, invval)
  PROVE  /\ MccCycleEffects(rspval) /\ HeldEffect
         /\ DoneInv(P) /\ MccResponseOK /\ PrevInv(P)'
<1>1. /\ MccServiceInv(P) /\ MccBufferInv(P) /\ RequestInv(P) /\ PrevInv(P) /\ MccInvalInv(P)
      /\ DataRegsOK /\ P \in Procs
  BY PIsCache DEF MccCacheInv, MccInvalInv, PrevInv, MccRegsOK
<1>2. /\ rspval => rsp[P] # NoCell
      /\ invval => invCmd[P] # NoBlock
      /\ ICacheFsm(P) /\ DCacheFsm(P) /\ MccReqFsm(P) /\ MccRspFsm(P, rspval)
      /\ MccInvalFsm(P, invval) /\ Tlb(P, rspval) /\ TlbInvBuffers(P) /\ TlbAck(P, rspval)
  BY MccIsDCache, MccIsICache DEF MccCacheCycle
<1>3. DoneInv(P) /\ MccResponseOK
  BY <1>1, MccDone, MccAnswers
<1>4. PrevInv(P)' /\ IcEffect(P)
  BY <1>1, <1>2, <1>3, AnyPrevStep, AnyIcStep
<1>5. HeldEffect
  BY <1>1, <1>2, <1>3, AnyRequestHeld, SameStates DEF HeldEffect
<1>6. MccReqEffects /\ MccRspEffects(rspval)
  BY <1>1, <1>2, MccReqEffect, MccRspEffect
<1>7. TaEffect(rspval) /\ TiEffect
  BY <1>1, <1>2, TaStep, TiStep
<1>8. TlbFills(rspval) \/ TlbResets(rspval) \/ TlbKeeps(rspval)
  BY <1>1, <1>2, TlbStep, AnsweredFrame
<1>9. MccIvKeeps \/ MccIvTakes
  BY <1>1, <1>2, MccIvStep
<1> QED BY <1>3, <1>4, <1>5, <1>6, <1>7, <1>8, <1>9 DEF MccCycleEffects

(* The cycles, by the state of REQ_FSM and RSP_FSM.                        *)
CycleIssues ==
  /\ Issues(P) /\ MccRspStarts
  /\ MccReqStartsData \/ MccReqStartsWrite \/ MccReqStartsInst \/ MccReqStartsNone

CycleServes ==
  /\ MccReqServes
  /\ IF ta[P].retry THEN MccRspServesAck ELSE MccRspClears

MccRspTakes(rspval) ==
  \/ MccRspKeeps(rspval) \/ MccRspTakesTlb(rspval)
  \/ RspTakesLineCell(P, rspval) \/ RspTakesOneCell(P, rspval)

CycleListens(rspval) ==
  rq[P].fsm = "REQ_IDLE" /\ rs[P].fsm # "RSP_IDLE" /\ MccReqKeeps /\ MccRspTakes(rspval)

CycleDrops == MccReqDrops /\ MccRspServesAck

CycleSends(rspval) ==
  /\ MccReqSends \/ MccReqSendsStore \/ MccReqKeeps
  /\ rq[P].fsm \in SendStates \cup {"REQ_WRITE"}
  /\ ~rspval /\ rs[P].fsm # "RSP_IDLE" /\ MccRspKeeps(rspval)

CycleWaits(rspval) ==
  /\ MccReqEnds \/ MccReqKeeps
  /\ rq[P].fsm \in {"REQ_DWAIT", "REQ_IWAIT"} /\ MccRspTakes(rspval)

MccCycleCases(rspval) ==
  \/ CycleIssues \/ CycleServes \/ CycleListens(rspval) \/ CycleDrops
  \/ CycleSends(rspval) \/ CycleWaits(rspval)

(* REQ_FSM and RSP_FSM go together: these are the cycles there are.        *)
LEMMA MccCases ==
  ASSUME MccRegsOK, MccServiceInv(P), MccResponseOK, NEW rspval \in BOOLEAN,
         rspval => rsp[P] # NoCell, MccCycleEffects(rspval)
  PROVE  MccCycleCases(rspval)
<1>1. MccReqEffects /\ MccRspEffects(rspval)
  BY DEF MccCycleEffects
<1>2. rq[P].fsm \in MccReqStates /\ rs[P].fsm \in MccRspStates
  BY MccStateFacts
<1>3. CASE Issues(P)
  <2>1. MccReqStartsData \/ MccReqStartsWrite \/ MccReqStartsInst \/ MccReqStartsNone
    BY <1>1, <1>3 DEF MccReqEffects, Issues, Ready, MccReqKeeps, MccReqServes, MccReqDrops,
       MccReqSends, MccReqSendsStore, MccReqEnds, SendStates, OneCellStates, TlbStates
  <2>2. MccRspStarts
    BY <1>1, <1>3 DEF MccRspEffects, Issues, Ready, MccRspKeeps, MccRspClears, MccRspServesAck,
       MccRspTakesTlb, RspTakesLineCell, RspTakesOneCell, TlbRspStates
  <2> QED BY <1>3, <2>1, <2>2 DEF CycleIssues, MccCycleCases
<1>4. CASE Ready(P) /\ ~Issues(P)
  <2>1. MccReqServes
    BY <1>1, <1>4 DEF MccReqEffects, Ready, MccReqKeeps, MccReqStartsData, MccReqStartsWrite,
       MccReqStartsInst, MccReqStartsNone, MccReqDrops,
       MccReqSends, MccReqSendsStore, MccReqEnds, SendStates, OneCellStates, TlbStates
  <2>2. MccRspClears \/ MccRspServesAck
    BY <1>1, <1>4 DEF MccRspEffects, Ready, MccRspKeeps, MccRspStarts,
       MccRspTakesTlb, RspTakesLineCell, RspTakesOneCell, TlbRspStates
  <2>3. IF ta[P].retry THEN MccRspServesAck ELSE MccRspClears
    BY <1>4, <2>2 DEF MccRspClears, MccRspServesAck, Ready
  <2> QED BY <2>1, <2>3 DEF CycleServes, MccCycleCases
<1>5. CASE rq[P].fsm = "REQ_IDLE" /\ ~Ready(P)
  <2>1. rs[P].fsm # "RSP_IDLE"
    BY <1>5 DEF Ready
  <2>2. MccReqKeeps
    BY <1>1, <1>5 DEF MccReqEffects, Issues, Ready, MccReqServes, MccReqDrops,
       MccReqStartsData, MccReqStartsWrite, MccReqStartsInst, MccReqStartsNone,
       MccReqSends, MccReqSendsStore, MccReqEnds, SendStates, OneCellStates, TlbStates
  <2>3. MccRspTakes(rspval)
    BY <1>1, <1>5 DEF MccRspEffects, MccRspTakes, Ready, Issues, MccRspClears,
       MccRspServesAck, MccRspStarts
  <2> QED BY <1>5, <2>1, <2>2, <2>3 DEF CycleListens, MccCycleCases
<1>6. CASE rq[P].fsm = "REQ_TLB_INVAL"
  <2>1. MccReqDrops
    BY <1>1, <1>6 DEF MccReqEffects, Issues, Ready, MccReqServes, MccReqKeeps,
       MccReqStartsData, MccReqStartsWrite, MccReqStartsInst, MccReqStartsNone,
       MccReqSends, MccReqSendsStore, MccReqEnds, SendStates, OneCellStates, TlbStates
  <2>2. rs[P].fsm = "RSP_IDLE"
    BY <1>6 DEF MccServiceInv
  <2>3. MccRspServesAck
    BY <1>1, <1>6, <2>2 DEF MccRspEffects, Ready, Issues, MccRspKeeps, MccRspClears,
       MccRspStarts, MccRspTakesTlb, RspTakesLineCell, RspTakesOneCell, TlbRspStates
  <2> QED BY <2>1, <2>3 DEF CycleDrops, MccCycleCases
<1>7. CASE rq[P].fsm \in SendStates \cup {"REQ_WRITE"}
  <2>1. MccReqSends \/ MccReqSendsStore \/ MccReqKeeps
    BY <1>1, <1>7 DEF MccReqEffects, Issues, Ready, MccReqServes, MccReqDrops,
       MccReqStartsData, MccReqStartsWrite, MccReqStartsInst, MccReqStartsNone,
       MccReqEnds, SendStates, OneCellStates, TlbStates
  <2>2. ~rspval
    BY <1>7 DEF MccResponseOK, SendStates, OneCellStates, TlbStates
  <2>3. rs[P].fsm # "RSP_IDLE"
    <3>1. CASE rq[P].fsm \in DataCellStates \cup {"REQ_WRITE"}
      <4>1. rs[P].fsm = DataRspState(P)
        BY <3>1 DEF MccServiceInv
      <4> QED BY <4>1, MccStateFacts
    <3>2. CASE rq[P].fsm = "REQ_IMISS"
      BY <3>2 DEF MccServiceInv
    <3>3. CASE rq[P].fsm \in TlbStates
      BY <3>3 DEF MccServiceInv, TlbStates
    <3> QED BY <1>7, <3>1, <3>2, <3>3 DEF SendStates, DataCellStates
  <2>4. MccRspKeeps(rspval)
    BY <1>1, <1>7, <2>2, <2>3 DEF MccRspEffects, Ready, Issues, MccRspServesAck, MccRspClears,
       MccRspStarts, MccRspTakesTlb, RspTakesLineCell, RspTakesOneCell
  <2> QED BY <1>7, <2>1, <2>2, <2>3, <2>4 DEF CycleSends, MccCycleCases
<1>8. CASE rq[P].fsm \in {"REQ_DWAIT", "REQ_IWAIT"}
  <2>1. MccReqEnds \/ MccReqKeeps
    BY <1>1, <1>8 DEF MccReqEffects, Issues, Ready, MccReqServes, MccReqDrops,
       MccReqStartsData, MccReqStartsWrite, MccReqStartsInst, MccReqStartsNone,
       MccReqSends, MccReqSendsStore, SendStates, OneCellStates, TlbStates
  <2>2. MccRspTakes(rspval)
    BY <1>1, <1>8 DEF MccRspEffects, MccRspTakes, Ready, Issues, MccRspClears,
       MccRspServesAck, MccRspStarts
  <2> QED BY <1>8, <2>1, <2>2 DEF CycleWaits, MccCycleCases
<1> QED BY <1>2, <1>3, <1>4, <1>5, <1>6, <1>7, <1>8 DEF MccReqStates

(* What the cycle's invariants are proved from.                            *)
CycleContext(rspval) ==
  /\ MccRegsOK /\ MccServiceInv(P) /\ MccResponseOK /\ DoneInv(P)
  /\ rspval \in BOOLEAN
  /\ rspval => rsp[P] # NoCell
  /\ MccCycleEffects(rspval) /\ HeldEffect

(* A cycle that issues a request leaves MccServiceInv.                     *)
LEMMA ServiceIssues ==
  ASSUME NEW rspval, CycleContext(rspval), CycleIssues
  PROVE  MccServiceInv(P)'
<1>1. /\ Issues(P) /\ MccRspStarts /\ MccServiceInv(P) /\ HeldEffect /\ IcEffect(P) /\ DoneInv(P)
      /\ TaEffect(rspval)
      /\ TlbFills(rspval) \/ TlbResets(rspval) \/ TlbKeeps(rspval)
  BY DEF CycleIssues, CycleContext, MccCycleEffects
<1>2. /\ rq[P].fsm = "REQ_IDLE" /\ rs[P].fsm = "RSP_IDLE" /\ ~ta[P].retry
      /\ ~rs[P].dOk /\ ~rs[P].iOk /\ ~DataDone(P) /\ ~InstDone(P)
  BY <1>1 DEF Issues, Ready, MccServiceInv, DoneInv
<1>3. ~ta'[P].retry
  BY <1>1, <1>2 DEF TaEffect, AckAgain
<1>4. tlb'[P] = tlb[P]
  BY <1>1, <1>2 DEF TlbFills, TlbResets, TlbKeeps, TlbAnswered
<1>5. /\ ~rs'[P].dOk /\ ~rs'[P].iOk /\ ~rs'[P].dRetry /\ ~rs'[P].iRetry
      /\ rs'[P].cpt = 0 /\ rs'[P].fsm = MccExpects
  BY <1>1, <1>2 DEF MccRspStarts, FlagsAfter
<1>6. /\ DataRspState(P) \in {"RSP_WRITE", "RSP_UNC", "RSP_DMISS"}
      /\ DataReqState(P) \in DataCellStates
  BY MccStateFacts DEF CycleContext
<1>7. /\ ic[P].req => ic'[P].req /\ ic'[P].addr = ic[P].addr
      /\ dm[P].req \/ dm[P].flush => SameRequest(P) /\ DataRspState(P)' = DataRspState(P)
      /\ dm[P].req => DataReqState(P)' = DataReqState(P)
  BY <1>1, <1>2 DEF IcEffect, HeldEffect
<1>8. \A a \in Addr : ~TlbHit(tlb[P], a) => Translate(tlb[P], a) = a
  BY MccRegTypes, TranslateFacts DEF CycleContext
<1>9. dc[P].addr \in Addr /\ ic[P].addr \in Addr
  BY MccAddrs DEF CycleContext
<1>10. CASE MccReqStartsData
  <2>1. /\ dm[P].req /\ va'[P].data = dc[P].addr
        /\ rq'[P].addr = Translate(tlb[P], dc[P].addr)
        /\ dm'[P].req /\ dc'[P].addr = dc[P].addr
    BY <1>7, <1>10 DEF MccReqStartsData, SameRequest
  <2>2. CASE TlbHit(tlb[P], dc[P].addr)
    <3>1. rq'[P].fsm = DataReqState(P) /\ rs'[P].fsm = DataRspState(P)
      BY <1>5, <1>10, <2>1, <2>2 DEF MccReqStartsData, MccExpects
    <3>2. TranslatesData(P, dc[P].addr)'
      BY <1>4, <2>1, <2>2 DEF TranslatesData
    <3> QED BY <1>3, <1>5, <1>6, <1>7, <2>1, <3>1, <3>2
         DEF MccServiceInv, DataCellStates, OneCellStates, TlbStates, TlbRspStates
  <2>3. CASE ~TlbHit(tlb[P], dc[P].addr)
    <3>1. rq'[P].fsm = "REQ_TLB_DMISS" /\ rs'[P].fsm = "RSP_TLB_DMISS"
      BY <1>5, <1>10, <2>1, <2>3 DEF MccReqStartsData, MccExpects
    <3>2. MissedAddr(P)' = dc[P].addr /\ ~TlbHit(tlb'[P], dc[P].addr)
      BY <1>4, <2>1, <2>3, <3>1 DEF MissedAddr
    <3>3. rq'[P].addr = va'[P].data
      BY <1>8, <1>9, <2>1, <2>3
    <3> QED BY <1>3, <1>5, <3>1, <3>2, <3>3
         DEF MccServiceInv, DataCellStates, OneCellStates, TlbStates, TlbRspStates
  <2> QED BY <2>2, <2>3
<1>11. CASE MccReqStartsWrite
  <2>1. /\ ~dm[P].req /\ dm[P].flush /\ va'[P].data = FlushAddr(P)
        /\ rq'[P].addr = Translate(tlb[P], FlushAddr(P))
        /\ ~dm'[P].req /\ dm'[P].flush /\ DataRspState(P)' = "RSP_WRITE"
    BY <1>7, <1>11 DEF MccReqStartsWrite, SameRequest, DataRspState
  <2>2. CASE TlbHit(tlb[P], FlushAddr(P))
    <3>1. rq'[P].fsm = "REQ_WRITE" /\ rs'[P].fsm = "RSP_WRITE"
      BY <1>5, <1>11, <2>1, <2>2 DEF MccReqStartsWrite, MccExpects
    <3> QED BY <1>3, <1>5, <2>1, <3>1
         DEF MccServiceInv, DataCellStates, OneCellStates, TlbStates, TlbRspStates
  <2>3. CASE ~TlbHit(tlb[P], FlushAddr(P))
    <3>1. rq'[P].fsm = "REQ_TLB_DMISS" /\ rs'[P].fsm = "RSP_TLB_DMISS"
      BY <1>5, <1>11, <2>1, <2>3 DEF MccReqStartsWrite, MccExpects
    <3>2. MissedAddr(P)' = FlushAddr(P) /\ ~TlbHit(tlb'[P], FlushAddr(P))
      BY <1>4, <2>1, <2>3, <3>1 DEF MissedAddr
    <3>3. rq'[P].addr = va'[P].data
      <4>1. Translate(tlb[P], FlushAddr(P)) = FlushAddr(P)
        BY <2>3 DEF TlbHit, Translate
      <4> QED BY <2>1, <4>1
    <3> QED BY <1>3, <1>5, <3>1, <3>2, <3>3
         DEF MccServiceInv, DataCellStates, OneCellStates, TlbStates, TlbRspStates
  <2> QED BY <2>2, <2>3
<1>12. CASE MccReqStartsInst
  <2>1. /\ ~dm[P].req /\ ~dm[P].flush /\ ic[P].req /\ ic'[P].req /\ ic'[P].addr = ic[P].addr
        /\ va'[P].inst = Translate(tlb[P], ic[P].addr)
    BY <1>7, <1>12 DEF MccReqStartsInst
  <2>2. CASE TlbHit(tlb[P], ic[P].addr)
    <3>1. rq'[P].fsm = "REQ_IMISS" /\ rs'[P].fsm = "RSP_IMISS"
      BY <1>5, <1>12, <2>1, <2>2 DEF MccReqStartsInst, MccExpects
    <3>2. TlbHit(tlb'[P], ic'[P].addr) /\ va'[P].inst = Translate(tlb'[P], ic'[P].addr)
      BY <1>4, <2>1, <2>2
    <3> QED BY <1>3, <1>5, <2>1, <3>1, <3>2
         DEF MccServiceInv, DataCellStates, OneCellStates, TlbStates, TlbRspStates
  <2>3. CASE ~TlbHit(tlb[P], ic[P].addr)
    <3>1. rq'[P].fsm = "REQ_TLB_IMISS" /\ rs'[P].fsm = "RSP_TLB_IMISS"
      BY <1>5, <1>12, <2>1, <2>3 DEF MccReqStartsInst, MccExpects
    <3>2. MissedAddr(P)' = ic[P].addr /\ ~TlbHit(tlb'[P], ic[P].addr)
      BY <1>4, <2>1, <2>3, <3>1 DEF MissedAddr
    <3>3. va'[P].inst = ic'[P].addr
      BY <1>8, <1>9, <2>1, <2>3
    <3> QED BY <1>3, <1>5, <2>1, <3>1, <3>2, <3>3
         DEF MccServiceInv, DataCellStates, OneCellStates, TlbStates, TlbRspStates
  <2> QED BY <2>2, <2>3
<1>13. CASE MccReqStartsNone
  <2>1. rq'[P].fsm = "REQ_IDLE" /\ rs'[P].fsm = "RSP_IDLE"
    BY <1>5, <1>13 DEF MccReqStartsNone, MccExpects
  <2> QED BY <1>3, <1>5, <2>1
       DEF MccServiceInv, DataCellStates, OneCellStates, TlbStates, TlbRspStates
<1> QED BY <1>10, <1>11, <1>12, <1>13 DEF CycleIssues

(* A cycle that serves an invalidation.                                    *)
LEMMA ServiceServes ==
  ASSUME NEW rspval, CycleContext(rspval), CycleServes \/ CycleDrops, MccInvalInv(P)
  PROVE  MccServiceInv(P)'
<1>1. /\ MccServiceInv(P) /\ DoneInv(P) /\ MccRegsOK
      /\ TaEffect(rspval) /\ TiEffect
  BY DEF CycleContext, MccCycleEffects
<1>2. rs[P].fsm = "RSP_IDLE" /\ ~rs[P].dOk /\ ~rs[P].iOk
  BY <1>1 DEF CycleServes, CycleDrops, MccReqServes, Ready, MccRspServesAck, MccServiceInv, MccReqDrops
<1>3. ~ta'[P].retry
  BY <1>1, <1>2 DEF CycleServes, CycleDrops, MccReqServes, MccReqDrops, Ready, TaEffect, AckAgain,
     MccServiceInv
<1>4. ~rs'[P].dOk /\ ~rs'[P].iOk
  BY <1>2 DEF CycleServes, CycleDrops, MccRspServesAck, MccRspClears, FlagsAfter
<1>5. CASE CycleServes /\ ~ta[P].retry
  <2>1. rq'[P].fsm = "REQ_TLB_INVAL" /\ rs'[P].fsm = "RSP_IDLE" /\ IsTlbInv(P) /\ rq[P].fsm = "REQ_IDLE"
    BY <1>5 DEF CycleServes, MccReqServes, MccRspClears, Ready
  <2>2. iv[P].fsm = "INV_CMD_TLB" => invCmd[P].what \in Pages
    BY <1>1, MccRegTypes DEF MccInvalInv, MccInvCell
  <2>3. IsTlbInv(P)'
    BY <1>1, <2>1, <2>2, MigrableAssumption DEF TiEffect, IsTlbInv
  <2> QED BY <1>3, <1>4, <2>1, <2>3
       DEF MccServiceInv, DataCellStates, OneCellStates, TlbStates, TlbRspStates
<1>6. CASE CycleServes /\ ta[P].retry
  <2>1. rq'[P].fsm = "REQ_TLB_INVAL_SEND_ACK" /\ rs'[P].fsm = "RSP_INVAL_SEND_ACK"
    BY <1>6 DEF CycleServes, MccReqServes, MccRspServesAck
  <2> QED BY <1>3, <1>4, <2>1
       DEF MccServiceInv, DataCellStates, OneCellStates, TlbStates, TlbRspStates
<1>7. CASE CycleDrops
  <2>1. rq'[P].fsm = "REQ_TLB_INVAL_SEND_ACK" /\ rs'[P].fsm = "RSP_INVAL_SEND_ACK"
    BY <1>7 DEF CycleDrops, MccReqDrops, MccRspServesAck
  <2> QED BY <1>3, <1>4, <2>1
       DEF MccServiceInv, DataCellStates, OneCellStates, TlbStates, TlbRspStates
<1> QED BY <1>5, <1>6, <1>7

(* A cycle that waits for the answer of a miss in the TLB, or drops a line *)
(* that was refused.                                                       *)
LEMMA ServiceListens ==
  ASSUME NEW rspval, CycleContext(rspval), CycleListens(rspval)
  PROVE  MccServiceInv(P)'
<1>1. /\ MccServiceInv(P) /\ HeldEffect /\ IcEffect(P) /\ MccRegsOK
      /\ TaEffect(rspval)
      /\ TlbFills(rspval) \/ TlbResets(rspval) \/ TlbKeeps(rspval)
  BY DEF CycleContext, MccCycleEffects
<1>2. /\ rq[P].fsm = "REQ_IDLE" /\ rs[P].fsm # "RSP_IDLE" /\ rq'[P].fsm = "REQ_IDLE"
      /\ va'[P] = va[P] /\ MccRspTakes(rspval)
      /\ ~DataDone(P) /\ ~InstDone(P)
  BY DEF CycleListens, MccReqKeeps, SameVa, DataDone, InstDone
<1>3. /\ ~rs[P].dOk /\ ~rs[P].iOk /\ ~ta[P].retry
      /\ \/ rs[P].fsm \in TlbRspStates \cup {"RSP_INVAL_SEND_ACK"}
         \/ rs[P].fsm = "RSP_DMISS" /\ dm[P].req /\ DataRspState(P) = "RSP_DMISS" /\ rs[P].dRetry
         \/ rs[P].fsm = "RSP_IMISS" /\ ic[P].req /\ rs[P].iRetry
  BY <1>1, <1>2 DEF MccServiceInv, Ready
<1>4. ~rs'[P].dOk /\ ~rs'[P].iOk
  <2>1. CASE MccRspKeeps(rspval)
    BY <1>3, <2>1 DEF MccRspKeeps, FlagsAfter
  <2>2. CASE MccRspTakesTlb(rspval)
    BY <1>3, <2>2 DEF MccRspTakesTlb, FlagsAfter
  <2>3. CASE RspTakesLineCell(P, rspval)
    BY <1>3, <2>3 DEF RspTakesLineCell, FlagsAfter, TlbRspStates
  <2>4. CASE RspTakesOneCell(P, rspval)
    BY <1>3, <2>4 DEF RspTakesOneCell, TlbRspStates
  <2> QED BY <1>2, <2>1, <2>2, <2>3, <2>4 DEF MccRspTakes
<1>5. ta'[P].retry => Ready(P)'
  <2>1. ta'[P].retry => AckAgain(P, rspval)
    BY <1>1, <1>2, <1>3 DEF TaEffect
  <2>2. AckAgain(P, rspval) => rs'[P].fsm = "RSP_IDLE"
    BY <1>2 DEF AckAgain, MccRspTakes, MccRspKeeps, MccRspTakesTlb, RspTakesLineCell,
       RspTakesOneCell
  <2> QED BY <1>2, <2>1, <2>2 DEF Ready
<1>6. CASE rs[P].fsm \in TlbRspStates \cup {"RSP_INVAL_SEND_ACK"}
  <2>1. \/ rs'[P].fsm = "RSP_IDLE"
        \/ rs'[P].fsm = rs[P].fsm /\ ~rspval
    BY <1>2, <1>6 DEF MccRspTakes, MccRspKeeps, MccRspTakesTlb, RspTakesLineCell,
       RspTakesOneCell, TlbRspStates
  <2>2. CASE rs'[P].fsm \in TlbRspStates
    <3>1. rs'[P].fsm = rs[P].fsm /\ ~rspval
      BY <2>1, <2>2 DEF TlbRspStates
    <3>2. tlb'[P] = tlb[P]
      BY <1>1, <1>2, <3>1 DEF TlbFills, TlbResets, TlbKeeps, TlbAnswered
    <3>3. /\ ~TlbHit(tlb[P], MissedAddr(P))
          /\ rs[P].fsm = "RSP_TLB_IMISS" => ic[P].req
      BY <1>1, <2>2, <3>1 DEF MccServiceInv
    <3>4. rs'[P].fsm = "RSP_TLB_IMISS" => ic'[P].req /\ ic'[P].addr = ic[P].addr
      BY <1>1, <1>2, <3>1, <3>3 DEF IcEffect
    <3>5. MissedAddr(P)' = MissedAddr(P)
      BY <1>2, <3>1, <3>4 DEF MissedAddr
    <3>6. ~TlbHit(tlb'[P], MissedAddr(P)')
      BY <3>2, <3>3, <3>5
    <3> QED BY <1>2, <1>4, <1>5, <2>2, <3>4, <3>6
         DEF MccServiceInv, DataCellStates, OneCellStates, TlbStates, TlbRspStates
  <2>3. CASE rs'[P].fsm \in {"RSP_IDLE", "RSP_INVAL_SEND_ACK"}
    BY <1>2, <1>4, <1>5, <2>3
       DEF MccServiceInv, DataCellStates, OneCellStates, TlbStates, TlbRspStates
  <2> QED BY <1>6, <2>1, <2>2, <2>3
<1>7. CASE rs[P].fsm = "RSP_DMISS" /\ dm[P].req /\ DataRspState(P) = "RSP_DMISS" /\ rs[P].dRetry
  <2>1. dm'[P].req /\ DataRspState(P)' = "RSP_DMISS"
    BY <1>1, <1>2, <1>7 DEF HeldEffect, SameRequest
  <2>2. rs'[P].fsm \in {"RSP_DMISS", "RSP_IDLE"} /\ rs'[P].dRetry
    BY <1>2, <1>7 DEF MccRspTakes, MccRspKeeps, MccRspTakesTlb, RspTakesLineCell,
       RspTakesOneCell, TlbRspStates, FlagsAfter
  <2> QED BY <1>2, <1>4, <1>5, <2>1, <2>2
       DEF MccServiceInv, DataCellStates, OneCellStates, TlbStates, TlbRspStates
<1>8. CASE rs[P].fsm = "RSP_IMISS" /\ ic[P].req /\ rs[P].iRetry
  <2>1. ic'[P].req
    BY <1>1, <1>2, <1>8 DEF IcEffect
  <2>2. rs'[P].fsm \in {"RSP_IMISS", "RSP_IDLE"} /\ rs'[P].iRetry
    BY <1>2, <1>8 DEF MccRspTakes, MccRspKeeps, MccRspTakesTlb, RspTakesLineCell,
       RspTakesOneCell, TlbRspStates, FlagsAfter
  <2> QED BY <1>2, <1>4, <1>5, <2>1, <2>2
       DEF MccServiceInv, DataCellStates, OneCellStates, TlbStates, TlbRspStates
<1> QED BY <1>3, <1>6, <1>7, <1>8

(* A cycle that sends a cell.                                              *)
LEMMA ServiceSends ==
  ASSUME NEW rspval, CycleContext(rspval), CycleSends(rspval)
  PROVE  MccServiceInv(P)'
<1>1. /\ MccServiceInv(P) /\ HeldEffect /\ IcEffect(P) /\ MccRegsOK /\ DoneInv(P)
      /\ TaEffect(rspval)
      /\ TlbFills(rspval) \/ TlbResets(rspval) \/ TlbKeeps(rspval)
  BY DEF CycleContext, MccCycleEffects
<1>2. /\ MccReqSends \/ MccReqSendsStore \/ MccReqKeeps
      /\ rq[P].fsm \in SendStates \cup {"REQ_WRITE"}
      /\ ~rspval /\ rs[P].fsm # "RSP_IDLE" /\ MccRspKeeps(rspval)
  BY DEF CycleSends
<1>3. /\ ~DataDone(P) /\ ~InstDone(P) /\ ~rs[P].dOk /\ ~rs[P].iOk
      /\ rq[P].fsm # "REQ_IDLE" /\ rq[P].fsm # "REQ_TLB_INVAL"
  BY <1>1, <1>2 DEF DoneInv, DataDone, InstDone, SendStates, OneCellStates, TlbStates
<1>4. /\ rs'[P].fsm = rs[P].fsm /\ rs'[P].cpt = rs[P].cpt /\ ~rs'[P].dOk /\ ~rs'[P].iOk
      /\ rs'[P].dRetry <=> rs[P].dRetry
      /\ rs'[P].iRetry <=> rs[P].iRetry
  BY <1>2, <1>3 DEF MccRspKeeps, FlagsAfter
<1>5. ~ta'[P].retry
  BY <1>1, <1>2, <1>3 DEF TaEffect, AckAgain, MccServiceInv, Ready
<1>6. tlb'[P] = tlb[P]
  BY <1>1, <1>2, <1>3 DEF TlbFills, TlbResets, TlbKeeps, TlbAnswered
<1>7. /\ ic[P].req => ic'[P].req /\ ic'[P].addr = ic[P].addr
      /\ dm[P].req \/ dm[P].flush => SameRequest(P) /\ DataRspState(P)' = DataRspState(P)
      /\ dm[P].req => DataReqState(P)' = DataReqState(P)
  BY <1>1, <1>3 DEF IcEffect, HeldEffect
<1>8. CASE rq[P].fsm \in DataCellStates
  <2>1. /\ dm[P].req /\ rq[P].fsm = DataReqState(P) /\ TranslatesData(P, dc[P].addr)
        /\ rs[P].fsm = DataRspState(P) /\ rs[P].cpt = 0 /\ ~rs[P].dRetry /\ ~rs[P].iRetry
    BY <1>1, <1>8 DEF MccServiceInv
  <2>2. dm'[P].req /\ dc'[P].addr = dc[P].addr
    BY <1>7, <2>1 DEF SameRequest
  <2>3. rs'[P].fsm = DataRspState(P)'
    BY <1>4, <1>7, <2>1
  <2>4. DataRspState(P) \in {"RSP_WRITE", "RSP_UNC", "RSP_DMISS"}
    BY <1>1, MccStateFacts
  <2>5. CASE MccReqSends
    <3>1. rq'[P].fsm = "REQ_DWAIT"
      BY <1>8, <2>5 DEF MccReqSends, DataCellStates, OneCellStates, TlbStates
    <3> QED BY <1>4, <1>5, <2>1, <2>2, <2>3, <2>4, <3>1
         DEF MccServiceInv, DataCellStates, OneCellStates, TlbStates, TlbRspStates
  <2>6. CASE MccReqKeeps
    <3>1. rq'[P] = rq[P] /\ va'[P] = va[P]
      BY <2>6 DEF MccReqKeeps, SameVa
    <3>2. TranslatesData(P, dc[P].addr)'
      BY <1>6, <2>1, <2>2, <3>1 DEF TranslatesData
    <3>3. rq'[P].fsm = DataReqState(P)' /\ rq'[P].fsm \in DataCellStates
      BY <1>7, <1>8, <2>1, <3>1
    <3> QED BY <1>4, <1>5, <2>1, <2>2, <2>3, <2>4, <3>2, <3>3
         DEF MccServiceInv, DataCellStates, OneCellStates, TlbStates, TlbRspStates
  <2>7. ~MccReqSendsStore
    BY <1>8 DEF MccReqSendsStore, DataCellStates, OneCellStates
  <2> QED BY <1>2, <2>5, <2>6, <2>7
<1>9. CASE rq[P].fsm = "REQ_WRITE"
  <2>1. /\ dm[P].flush
        /\ rs[P].fsm = DataRspState(P) /\ rs[P].cpt = 0 /\ ~rs[P].dRetry /\ ~rs[P].iRetry
    BY <1>1, <1>9 DEF MccServiceInv
  <2>2. dm'[P].flush
    BY <1>7, <2>1 DEF SameRequest
  <2>3. rs'[P].fsm = DataRspState(P)'
    BY <1>4, <1>7, <2>1
  <2>4. DataRspState(P) \in {"RSP_WRITE", "RSP_UNC", "RSP_DMISS"}
    BY <1>1, MccStateFacts
  <2>5. rq'[P].fsm \in {"REQ_WRITE", "REQ_DWAIT"}
    BY <1>2, <1>9 DEF MccReqSends, MccReqSendsStore, MccReqKeeps, SendStates, OneCellStates, TlbStates
  <2> QED BY <1>4, <1>5, <2>1, <2>2, <2>3, <2>4, <2>5
       DEF MccServiceInv, DataCellStates, OneCellStates, TlbStates, TlbRspStates
<1>10. CASE rq[P].fsm = "REQ_IMISS"
  <2>1. /\ ic[P].req /\ ~rs[P].dRetry
        /\ TlbHit(tlb[P], ic[P].addr) /\ va[P].inst = Translate(tlb[P], ic[P].addr)
        /\ rs[P].fsm = "RSP_IMISS" /\ rs[P].cpt = 0 /\ ~rs[P].iRetry
    BY <1>1, <1>10 DEF MccServiceInv
  <2>2. ic'[P].req /\ ic'[P].addr = ic[P].addr
    BY <1>7, <2>1
  <2>3. rq'[P].fsm \in {"REQ_IMISS", "REQ_IWAIT"} /\ va'[P] = va[P]
    BY <1>2, <1>10 DEF MccReqSends, MccReqSendsStore, MccReqKeeps, SameVa, TlbStates
  <2>4. TlbHit(tlb'[P], ic'[P].addr) /\ va'[P].inst = Translate(tlb'[P], ic'[P].addr)
    BY <1>6, <2>1, <2>2, <2>3
  <2> QED BY <1>4, <1>5, <2>1, <2>2, <2>3, <2>4
       DEF MccServiceInv, DataCellStates, OneCellStates, TlbStates, TlbRspStates
<1>11. CASE rq[P].fsm \in TlbStates
  <2>1. /\ rq[P].fsm = "REQ_TLB_DMISS" => rs[P].fsm = "RSP_TLB_DMISS" /\ rq[P].addr = va[P].data
        /\ rq[P].fsm = "REQ_TLB_IMISS" => rs[P].fsm = "RSP_TLB_IMISS" /\ va[P].inst = ic[P].addr
        /\ rq[P].fsm = "REQ_TLB_INVAL_SEND_ACK" => rs[P].fsm = "RSP_INVAL_SEND_ACK"
        /\ rs[P].fsm \in TlbRspStates =>
             ~TlbHit(tlb[P], MissedAddr(P)) /\ (rs[P].fsm = "RSP_TLB_IMISS" => ic[P].req)
    BY <1>1 DEF MccServiceInv
  <2>2. /\ rq'[P].fsm = rq[P].fsm \/ rq'[P].fsm = "REQ_IDLE"
        /\ rq'[P].addr = rq[P].addr /\ va'[P] = va[P]
    BY <1>2, <1>11 DEF MccReqSends, MccReqSendsStore, MccReqKeeps, SameVa, TlbStates, KeepsRq
  <2>3. rs[P].fsm = "RSP_TLB_IMISS" => ic'[P].req /\ ic'[P].addr = ic[P].addr
    BY <1>7, <2>1 DEF TlbRspStates
  <2>4. MissedAddr(P)' = MissedAddr(P)
    BY <1>4, <2>2, <2>3 DEF MissedAddr
  <2>5. rs'[P].fsm \in TlbRspStates => ~TlbHit(tlb'[P], MissedAddr(P)')
    BY <1>4, <1>6, <2>1, <2>4
  <2>6. rs[P].fsm \in TlbRspStates \cup {"RSP_INVAL_SEND_ACK"}
    BY <1>11, <2>1 DEF TlbStates, TlbRspStates
  <2> QED BY <1>4, <1>5, <1>11, <2>1, <2>2, <2>3, <2>5, <2>6
       DEF MccServiceInv, DataCellStates, OneCellStates, TlbStates, TlbRspStates
<1> QED BY <1>2, <1>8, <1>9, <1>10, <1>11 DEF SendStates, DataCellStates

(* A cycle that waits for an answer.                                       *)
LEMMA ServiceWaits ==
  ASSUME NEW rspval, CycleContext(rspval), CycleWaits(rspval)
  PROVE  MccServiceInv(P)'
<1>1. /\ MccServiceInv(P) /\ HeldEffect /\ IcEffect(P) /\ MccRegsOK /\ DoneInv(P)
      /\ TaEffect(rspval) /\ MccResponseOK /\ rspval \in BOOLEAN
      /\ TlbFills(rspval) \/ TlbResets(rspval) \/ TlbKeeps(rspval)
  BY DEF CycleContext, MccCycleEffects
<1>2. /\ MccReqEnds \/ MccReqKeeps
      /\ rq[P].fsm \in {"REQ_DWAIT", "REQ_IWAIT"}
      /\ \/ MccRspKeeps(rspval) \/ MccRspTakesTlb(rspval)
         \/ RspTakesLineCell(P, rspval) \/ RspTakesOneCell(P, rspval)
  BY DEF CycleWaits, MccRspTakes
<1>3. DataRspState(P) \in {"RSP_WRITE", "RSP_UNC", "RSP_DMISS"}
  BY <1>1, MccStateFacts
<1>4. rs[P].fsm \notin TlbRspStates \cup {"RSP_INVAL_SEND_ACK"}
  BY <1>1, <1>2 DEF MccServiceInv, TlbRspStates, TlbStates
<1>5. ~ta'[P].retry
  BY <1>1, <1>2, <1>4 DEF TaEffect, AckAgain, MccServiceInv, Ready
<1>6. tlb'[P] = tlb[P] /\ va'[P] = va[P]
  BY <1>1, <1>2, <1>4 DEF TlbFills, TlbResets, TlbKeeps, TlbAnswered, TlbRspStates, MccReqEnds,
     MccReqKeeps, SameVa
<1>7. \/ MccRspKeeps(rspval) \/ RspTakesLineCell(P, rspval) \/ RspTakesOneCell(P, rspval)
  BY <1>2, <1>4 DEF MccRspTakesTlb
<1>8. CASE rq[P].fsm = "REQ_DWAIT"
  <2>1. /\ ~rs[P].iOk /\ ~rs[P].iRetry
        /\ dm[P].req \/ dm[P].flush
        /\ \/ /\ rs[P].fsm = DataRspState(P) /\ ~rs[P].dOk
              /\ rs[P].fsm # "RSP_DMISS" => ~rs[P].dRetry
           \/ rs[P].fsm = "RSP_IDLE" /\ (rs[P].dOk <=> ~rs[P].dRetry)
    BY <1>1, <1>8 DEF MccServiceInv
  <2>2. rq'[P].fsm = IF rs[P].dOk \/ rs[P].dRetry THEN "REQ_IDLE" ELSE "REQ_DWAIT"
    BY <1>2, <1>8 DEF MccReqEnds, MccReqKeeps
  <2>3. CASE rs[P].dOk
    <3>1. rs[P].fsm = "RSP_IDLE" /\ DataDone(P)
      BY <1>1, <2>1, <2>3 DEF DoneInv
    <3>2. rs'[P].fsm = "RSP_IDLE" /\ ~rs'[P].dOk /\ ~rs'[P].iOk
      BY <1>7, <2>1, <2>3, <3>1
         DEF MccRspKeeps, RspTakesLineCell, RspTakesOneCell, FlagsAfter
    <3> QED BY <1>5, <2>2, <2>3, <3>2
         DEF MccServiceInv, DataCellStates, OneCellStates, TlbStates, TlbRspStates
  <2>4. CASE ~rs[P].dOk
    <3>1. SameRequest(P) /\ DataRspState(P)' = DataRspState(P)
      BY <1>1, <2>1, <2>4 DEF HeldEffect, DataDone
    <3>2. ~rs'[P].iOk /\ ~rs'[P].iRetry
      BY <1>3, <1>7, <2>1
         DEF MccRspKeeps, RspTakesLineCell, RspTakesOneCell, FlagsAfter
    <3>3. CASE rs[P].fsm = "RSP_IDLE"
      <4>1. rs[P].dRetry
        BY <1>3, <2>1, <2>4, <3>3
      <4>2. rs'[P].fsm = "RSP_IDLE" /\ ~rs'[P].dOk
        BY <1>7, <2>4, <3>3
           DEF MccRspKeeps, RspTakesLineCell, RspTakesOneCell, FlagsAfter
      <4> QED BY <1>5, <2>2, <3>2, <4>1, <4>2
           DEF MccServiceInv, DataCellStates, OneCellStates, TlbStates, TlbRspStates
    <3>4. CASE rs[P].fsm # "RSP_IDLE" /\ rs[P].dRetry
      <4>1. rs[P].fsm = "RSP_DMISS" /\ DataRspState(P) = "RSP_DMISS" /\ dm[P].req
        BY <1>1, <2>1, <3>4, MccStateFacts
      <4>2. rs'[P].fsm \in {"RSP_DMISS", "RSP_IDLE"} /\ rs'[P].dRetry /\ ~rs'[P].dOk
        BY <1>7, <2>4, <3>4, <4>1
           DEF MccRspKeeps, RspTakesLineCell, RspTakesOneCell, FlagsAfter
      <4> QED BY <1>5, <2>2, <3>1, <3>2, <3>4, <4>1, <4>2
           DEF MccServiceInv, SameRequest, DataCellStates, OneCellStates, TlbStates, TlbRspStates
    <3>5. CASE rs[P].fsm # "RSP_IDLE" /\ ~rs[P].dRetry
      <4>1. rs[P].fsm = DataRspState(P)
        BY <2>1, <3>5
      <4>2. \/ /\ rs'[P].fsm = rs[P].fsm /\ ~rs'[P].dOk
               /\ rs[P].fsm # "RSP_DMISS" => ~rs'[P].dRetry
            \/ rs'[P].fsm = "RSP_IDLE" /\ (rs'[P].dOk <=> ~rs'[P].dRetry)
        <5>1. CASE MccRspKeeps(rspval)
          BY <2>4, <3>5, <5>1 DEF MccRspKeeps, FlagsAfter
        <5>2. CASE RspTakesLineCell(P, rspval)
          BY <1>3, <2>4, <3>5, <4>1, <5>2 DEF RspTakesLineCell, FlagsAfter
        <5>3. CASE RspTakesOneCell(P, rspval)
          BY <2>4, <3>5, <5>3 DEF RspTakesOneCell, FlagsAfter
        <5> QED BY <1>7, <5>1, <5>2, <5>3
      <4>3. rq'[P].fsm = "REQ_DWAIT"
        BY <2>2, <2>4, <3>5
      <4>4. dm'[P].req \/ dm'[P].flush
        BY <2>1, <3>1 DEF SameRequest
      <4>5. rs'[P].fsm \in {DataRspState(P)', "RSP_IDLE"}
        BY <3>1, <4>1, <4>2
      <4> QED BY <1>3, <1>5, <3>1, <3>2, <4>1, <4>2, <4>3, <4>4, <4>5
           DEF MccServiceInv, DataCellStates, OneCellStates, TlbStates, TlbRspStates
    <3> QED BY <3>3, <3>4, <3>5
  <2> QED BY <2>3, <2>4
<1>9. CASE rq[P].fsm = "REQ_IWAIT"
  <2>1. /\ ic[P].req /\ ~rs[P].dOk /\ ~rs[P].dRetry
        /\ TlbHit(tlb[P], ic[P].addr) /\ va[P].inst = Translate(tlb[P], ic[P].addr)
        /\ \/ rs[P].fsm = "RSP_IMISS" /\ ~rs[P].iOk
           \/ rs[P].fsm = "RSP_IDLE" /\ (rs[P].iOk <=> ~rs[P].iRetry)
    BY <1>1, <1>9 DEF MccServiceInv
  <2>2. rq'[P].fsm = IF rs[P].iOk \/ rs[P].iRetry THEN "REQ_IDLE" ELSE "REQ_IWAIT"
    BY <1>2, <1>9 DEF MccReqEnds, MccReqKeeps
  <2>3. ~rs'[P].dOk /\ ~rs'[P].dRetry
    BY <1>7, <2>1 DEF MccRspKeeps, RspTakesLineCell, RspTakesOneCell, FlagsAfter
  <2>4. CASE rs[P].fsm = "RSP_IDLE"
    <3>1. rs'[P].fsm = "RSP_IDLE" /\ ~rs'[P].iOk /\ rq'[P].fsm = "REQ_IDLE"
      BY <1>1, <1>7, <1>9, <2>1, <2>2, <2>4
         DEF MccRspKeeps, RspTakesLineCell, RspTakesOneCell, FlagsAfter, DoneInv
    <3> QED BY <1>5, <2>3, <3>1
         DEF MccServiceInv, DataCellStates, OneCellStates, TlbStates, TlbRspStates
  <2>5. CASE rs[P].fsm = "RSP_IMISS"
    <3>1. ~rs[P].iOk
      BY <2>1, <2>5
    <3>2. ic'[P].req /\ ic'[P].addr = ic[P].addr
      BY <1>1, <2>1, <3>1 DEF IcEffect, InstDone
    <3>3. /\ \/ rs'[P].fsm = "RSP_IMISS" /\ ~rs'[P].iOk
             \/ rs'[P].fsm = "RSP_IDLE" /\ (rs'[P].iOk <=> ~rs'[P].iRetry)
          /\ rs[P].iRetry => rs'[P].iRetry /\ ~rs'[P].iOk
      BY <1>7, <2>5, <3>1
         DEF MccRspKeeps, RspTakesLineCell, RspTakesOneCell, FlagsAfter
    <3>4. TlbHit(tlb'[P], ic'[P].addr) /\ va'[P].inst = Translate(tlb'[P], ic'[P].addr)
      BY <1>6, <2>1, <3>2
    <3> QED BY <1>5, <2>2, <2>3, <3>1, <3>2, <3>3, <3>4
         DEF MccServiceInv, DataCellStates, OneCellStates, TlbStates, TlbRspStates
  <2> QED BY <2>1, <2>4, <2>5
<1> QED BY <1>2, <1>8, <1>9

(* In every cycle MccServiceInv is preserved.                              *)
LEMMA MccServiceStep ==
  ASSUME NEW rspval, CycleContext(rspval), MccInvalInv(P)
  PROVE  MccServiceInv(P)' /\ MccCycleCases(rspval)
<1>1. MccCycleCases(rspval)
  BY MccCases DEF CycleContext
<1> QED BY <1>1, ServiceIssues, ServiceServes, ServiceListens, ServiceSends, ServiceWaits
     DEF MccCycleCases

-----------------------------------------------------------------------------
(* The write buffer. *)

PutCell == [addr |-> dm[P].addr, data |-> dm[P].data]

WbAfter(rspval) ==
  wb'[P] = IF WriteAnswered(P, rspval)
           THEN IF rsp[P].error THEN InitRead(wb[P]) ELSE EmptyBuffer
           ELSE IF MccGets(P) THEN SimpleGet(wb[P])
           ELSE IF Puts(P) THEN SimplePut(wb[P], PutCell) ELSE wb[P]

(* The buffer after the edge.                                              *)
LEMMA MccBufferAt ==
  ASSUME MccRegsOK, NEW rspval \in BOOLEAN, MccWriteBuffer(P, rspval)
  PROVE  WbAfter(rspval)
<1> DEFINE w == IF WriteAnswered(P, rspval)
                THEN IF rsp[P].error THEN InitRead(wb[P]) ELSE EmptyBuffer
                ELSE IF MccGets(P) THEN SimpleGet(wb[P])
                ELSE IF Puts(P)
                THEN SimplePut(wb[P], [addr |-> dm[P].addr, data |-> dm[P].data])
                ELSE wb[P]
<1>1. wb' = [wb EXCEPT ![P] = w]
  BY DEF MccWriteBuffer
<1> HIDE DEF w
<1>2. wb'[P] = w
  BY <1>1, PIsCache DEF MccRegsOK, DataRegsOK
<1> QED BY <1>2 DEF w, WbAfter, PutCell

(* What the registers of the write buffer are, and what is done to them.   *)
WbCell == [addr : Addr, data : Word]
WbTyped(b) == b \in WbRegs /\ b.ptr <= Len(b.cells) /\ Len(b.cells) <= BufferSize

(* The cells of the buffer have the types of addresses and words.          *)
LEMMA WbShape ==
  ASSUME MccRegsOK
  PROVE  /\ WbTyped(wb[P]) /\ BufferSize \in Nat \ {0}
         /\ wb[P].cells \in Seq(WbCell) /\ wb[P].ptr \in Nat /\ Len(wb[P].cells) \in Nat
         /\ \A j \in 1 .. Len(wb[P].cells) : wb[P].cells[j].addr \in Addr
         /\ \A j \in 1 .. Len(wb[P].cells) : wb[P].cells[j].addr \in Nat
         /\ dm[P].addr \in Addr /\ dm[P].addr \in Nat
         /\ PutCell \in WbCell /\ PutCell.addr = dm[P].addr
<1> DEFINE b == wb[P]
<1>1. /\ WbTyped(b) /\ BufferSize \in Nat \ {0}
      /\ b.cells \in Seq(WbCell) /\ b.ptr \in 0 .. BufferSize /\ dm[P] \in DmRegs
  BY MccRegTypes, SizeFacts DEF WbRegs, WbTyped, WbCell
<1>2. dm[P].addr \in Addr /\ dm[P].addr \in Nat /\ PutCell \in WbCell /\ PutCell.addr = dm[P].addr
  BY <1>1, NbWordsAssumption DEF DmRegs, PutCell, WbCell, Addr
<1> HIDE DEF b
<1>3. Len(b.cells) \in Nat /\ b.ptr \in Nat
  BY <1>1
<1>4. \A j \in 1 .. Len(b.cells) : b.cells[j] \in WbCell
  BY <1>1
<1>5. \A j \in 1 .. Len(b.cells) : b.cells[j].addr \in Addr
  BY <1>4 DEF WbCell
<1>6. \A j \in 1 .. Len(b.cells) : b.cells[j].addr \in Nat
  BY <1>5, NbWordsAssumption DEF Addr
<1> QED BY <1>1, <1>2, <1>3, <1>5, <1>6 DEF b

(* What each operation leaves.                                             *)
LEMMA WbMoves ==
  ASSUME MccRegsOK
  PROVE  LET b == wb[P]
         IN /\ InitRead(b) \in WbRegs /\ InitRead(b).cells = b.cells /\ InitRead(b).ptr = 0
            /\ EmptyBuffer \in WbRegs /\ EmptyBuffer.cells = <<>> /\ EmptyBuffer.ptr = 0
            /\ b.ptr < Len(b.cells) =>
                 /\ SimpleGet(b) \in WbRegs /\ SimpleGet(b).cells = b.cells
                 /\ SimpleGet(b).ptr = b.ptr + 1
            /\ Len(b.cells) < BufferSize =>
                 /\ SimplePut(b, PutCell) \in WbRegs
                 /\ SimplePut(b, PutCell).cells = Append(b.cells, PutCell)
                 /\ SimplePut(b, PutCell).ptr = b.ptr
<1> DEFINE b == wb[P]
<1>1. b \in WbRegs /\ b.ptr <= Len(b.cells) /\ Len(b.cells) <= BufferSize /\ PutCell \in WbCell
  BY WbShape DEF WbTyped
<1> HIDE DEF b
<1>2. /\ InitRead(b) \in WbRegs /\ InitRead(b).cells = b.cells /\ InitRead(b).ptr = 0
      /\ EmptyBuffer \in WbRegs /\ EmptyBuffer.cells = <<>> /\ EmptyBuffer.ptr = 0
      /\ b.ptr < Len(b.cells) =>
           /\ SimpleGet(b) \in WbRegs /\ SimpleGet(b).cells = b.cells
           /\ SimpleGet(b).ptr = b.ptr + 1
      /\ \A x \in WbCell : Len(b.cells) < BufferSize =>
           /\ SimplePut(b, x) \in WbRegs /\ SimplePut(b, x).cells = Append(b.cells, x)
           /\ SimplePut(b, x).ptr = b.ptr
  BY <1>1, BufferFacts DEF WbCell
<1> QED BY <1>1, <1>2 DEF b

(* What DCACHE_FSM does to its request.                                    *)
DcEffects(p) ==
  \/ KeepsRequest(p) \/ StartsRequest(p) \/ StartsStores(p)
  \/ MergesStore(p) \/ AddsStore(p) \/ FlushesStores(p)

(* The cycle, seen from the buffer. *)
BufferContext(rspval) ==
  /\ CycleContext(rspval) /\ MccCycleCases(rspval) /\ MccServiceInv(P)'
  /\ RequestInv(P) /\ MccBufferInv(P) /\ ContiguousInv(P) /\ OnePageInv(P)
  /\ DcEffects(P) /\ WbAfter(rspval)
  /\ cpu[P] # NoReq => cpu[P].addr \in Addr

(* What is to be shown of the buffer.                                      *)
BufferAfter ==
  /\ MccBufferInv(P)' /\ ContiguousInv(P)' /\ OnePageInv(P)'
  /\ WbTyped(wb'[P])

(* A packet is answered only once it is sent.                              *)
LEMMA MccAnsweredFacts ==
  ASSUME NEW rspval, CycleContext(rspval), WriteAnswered(P, rspval)
  PROVE  /\ dm[P].flush /\ ~dm[P].req /\ rq[P].fsm = "REQ_DWAIT"
         /\ ~rs[P].dOk /\ ~rs[P].dRetry /\ ~MccGets(P)
<1>1. MccServiceInv(P) /\ MccResponseOK /\ rsp[P] # NoCell /\ rs[P].fsm = "RSP_WRITE"
  BY DEF CycleContext, WriteAnswered
<1>2. rq[P].fsm = "REQ_DWAIT"
  BY <1>1 DEF MccResponseOK, MccServiceInv, TlbRspStates
<1>3. dm[P].flush /\ ~dm[P].req /\ ~rs[P].dOk /\ ~rs[P].dRetry
  BY <1>1, <1>2 DEF MccServiceInv, DataRspState
<1> QED BY <1>2, <1>3 DEF MccGets, Issues, Ready

(* Who may use the buffer: DCACHE_FSM or REQ_FSM.                          *)
LEMMA BufferCommon ==
  ASSUME NEW rspval, BufferContext(rspval)
  PROVE  /\ ~dm[P].flush => ~WriteAnswered(P, rspval) /\ ~MccGets(P)
         /\ Puts(P) => dm[P].pending /\ ~dm[P].flush
         /\ dm[P].flush => dm[P].pending /\ ~dm[P].req
         /\ dm[P].pending => ~dm[P].req
         /\ ~dm[P].flush => rq'[P].fsm # "REQ_WRITE"
         /\ ~dm[P].flush /\ ~dm[P].req => ~rs'[P].dOk
<1>1. /\ MccServiceInv(P) /\ MccServiceInv(P)' /\ RequestInv(P) /\ MccCycleCases(rspval) /\ MccRegsOK
      /\ CycleContext(rspval)
  BY DEF BufferContext, CycleContext
<1>2. ~dm[P].flush => ~WriteAnswered(P, rspval) /\ ~MccGets(P)
  BY <1>1, MccAnsweredFacts DEF MccGets, MccServiceInv
<1>3. ~dm[P].flush => rq[P].fsm # "REQ_WRITE"
  BY <1>1 DEF MccServiceInv
<1>4. ~dm[P].flush => rq'[P].fsm # "REQ_WRITE"
  <2>1. DataReqState(P) \in DataCellStates
    BY <1>1, MccStateFacts
  <2> QED BY <1>1, <1>3, <2>1 DEF MccCycleCases, CycleIssues, CycleServes, CycleListens, CycleDrops,
     CycleSends, CycleWaits, MccReqKeeps, MccReqStartsData, MccReqStartsWrite, MccReqStartsInst,
     MccReqStartsNone, MccReqServes, MccReqDrops, MccReqSends, MccReqSendsStore, MccReqEnds,
     DataCellStates, OneCellStates
<1>5. ~dm[P].flush /\ ~dm[P].req => rq[P].fsm \notin DataCellStates \cup {"REQ_WRITE", "REQ_DWAIT"}
  BY <1>1 DEF MccServiceInv
<1>6. ~dm[P].flush /\ ~dm[P].req => rq'[P].fsm \notin DataCellStates \cup {"REQ_WRITE", "REQ_DWAIT"}
  BY <1>1, <1>5 DEF MccCycleCases, CycleIssues, CycleServes, CycleListens, CycleDrops,
     CycleSends, CycleWaits, MccReqKeeps, MccReqStartsData, MccReqStartsWrite, MccReqStartsInst,
     MccReqStartsNone, MccReqServes, MccReqDrops, MccReqSends, MccReqSendsStore, MccReqEnds,
     DataCellStates, OneCellStates, SendStates, TlbStates
<1>7. ~dm[P].flush /\ ~dm[P].req => ~rs'[P].dOk
  <2>1. rq'[P].fsm \in MccReqStates
    <3>1. DataReqState(P) \in DataCellStates /\ rq[P].fsm \in MccReqStates
      BY <1>1, MccStateFacts
    <3> QED BY <1>1, <3>1 DEF MccCycleCases, CycleIssues, CycleServes, CycleListens, CycleDrops,
     CycleSends, CycleWaits, MccReqKeeps, MccReqStartsData, MccReqStartsWrite, MccReqStartsInst,
     MccReqStartsNone, MccReqServes, MccReqDrops, MccReqSends, MccReqSendsStore, MccReqEnds,
     DataCellStates, OneCellStates, SendStates, TlbStates, MccReqStates
  <2>2. rq'[P].fsm \notin DataCellStates \cup {"REQ_WRITE", "REQ_DWAIT"} => ~rs'[P].dOk
    BY <1>1, <2>1 DEF MccServiceInv, MccReqStates, SendStates, DataCellStates, OneCellStates, TlbStates
  <2> QED BY <1>6, <2>2
<1> QED BY <1>1, <1>2, <1>4, <1>7 DEF RequestInv, Puts, Gathers

(* No store is pending.                                                    *)
LEMMA BufferEmpty ==
  ASSUME NEW rspval, BufferContext(rspval), ~dm[P].pending
  PROVE  BufferAfter
<1>1. /\ MccRegsOK /\ MccBufferInv(P) /\ RequestInv(P) /\ DcEffects(P) /\ WbAfter(rspval) /\ DoneInv(P)
  BY DEF BufferContext, CycleContext
<1>2. ~dm[P].flush /\ dm[P] \in DmRegs
  BY <1>1, MccRegTypes DEF RequestInv
<1>3. ~WriteAnswered(P, rspval) /\ ~MccGets(P) /\ ~Puts(P) /\ rq'[P].fsm # "REQ_WRITE"
  BY <1>2, BufferCommon
<1>4. wb[P] = EmptyBuffer
  BY <1>1 DEF MccBufferInv
<1>5. /\ wb'[P] = EmptyBuffer /\ wb'[P] \in WbRegs /\ wb'[P].ptr = 0
      /\ wb'[P].cells = <<>> /\ Len(wb'[P].cells) = 0 /\ BufferSize \in Nat \ {0}
  BY <1>1, <1>3, <1>4, WbMoves, WbShape DEF WbAfter
<1>6. ~dm'[P].flush
  <2>1. CASE KeepsRequest(P)
    BY <1>2, <2>1 DEF KeepsRequest, DmAfter, DmRegs
  <2>2. CASE StartsRequest(P)
    BY <1>2, <2>2 DEF StartsRequest, DmRegs
  <2>3. CASE StartsStores(P)
    BY <1>2, <2>3 DEF StartsStores, DmRegs
  <2> QED BY <1>1, <2>1, <2>2, <2>3 DEF DcEffects, MergesStore, AddsStore, FlushesStores
<1> QED BY <1>3, <1>5, <1>6 DEF BufferAfter, MccBufferInv, ContiguousInv, OnePageInv, WbTyped

(* Stores are gathered.                                                    *)
LEMMA BufferGathers ==
  ASSUME NEW rspval, BufferContext(rspval), dm[P].pending, ~dm[P].flush
  PROVE  BufferAfter
<1> DEFINE b == wb[P]
           n == Len(b.cells)
<1>1. /\ MccRegsOK /\ MccBufferInv(P) /\ ContiguousInv(P) /\ OnePageInv(P) /\ RequestInv(P)
      /\ DcEffects(P) /\ WbAfter(rspval) /\ DoneInv(P)
      /\ cpu[P] # NoReq => cpu[P].addr \in Addr
  BY DEF BufferContext, CycleContext
<1>2. /\ ~WriteAnswered(P, rspval) /\ ~MccGets(P) /\ ~dm[P].req
      /\ rq'[P].fsm # "REQ_WRITE" /\ ~rs'[P].dOk /\ ~DataDone(P)
  BY <1>1, BufferCommon DEF DoneInv
<1>3. /\ dm[P] \in DmRegs /\ WbTyped(b) /\ BufferSize \in Nat \ {0} /\ b.cells \in Seq(WbCell)
      /\ n \in Nat /\ PutCell \in WbCell /\ PutCell.addr = dm[P].addr
      /\ dm[P].addr \in Addr /\ dm[P].addr \in Nat
      /\ \A j \in 1 .. n : b.cells[j].addr \in Nat
  BY <1>1, MccRegTypes, WbShape
<1>4. /\ b.ptr = 0 /\ n < BufferSize
      /\ \A j \in 1 .. n : b.cells[j].addr = dm[P].addr - n + j - 1
      /\ \A j \in 1 .. n : Page(b.cells[j].addr) = Page(dm[P].addr)
  BY <1>1 DEF MccBufferInv, ContiguousInv, OnePageInv
<1>5. /\ SimplePut(b, PutCell) \in WbRegs
      /\ SimplePut(b, PutCell).cells = Append(b.cells, PutCell)
      /\ SimplePut(b, PutCell).ptr = 0
  BY <1>1, <1>4, WbMoves
<1>6. \/ KeepsRequest(P) \/ MergesStore(P) \/ AddsStore(P) \/ FlushesStores(P)
  BY <1>1 DEF DcEffects, StartsRequest, StartsStores
<1> HIDE DEF b, n
<1>7. CASE KeepsRequest(P) \/ MergesStore(P)
  <2>1. wb'[P] = b
    BY <1>1, <1>2, <1>7 DEF KeepsRequest, MergesStore, WbAfter, b
  <2>2. dm'[P].pending /\ ~dm'[P].flush /\ dm'[P].addr = dm[P].addr
    <3>1. CASE KeepsRequest(P)
      BY <1>2, <3>1 DEF KeepsRequest, DmAfter
    <3>2. CASE MergesStore(P)
      <4> DEFINE d == Merge(dm[P].data, cpu[P].data, cpu[P].be)
                 l == dm[P].wl \cup cpu[P].be
                 f == IF dm[P].first THEN dm[P].wf \cup cpu[P].be ELSE dm[P].wf
      <4>1. dm'[P] = [dm[P] EXCEPT !.data = d, !.wl = l, !.wf = f]
        BY <3>2 DEF MergesStore
      <4> HIDE DEF d, l, f
      <4> QED BY <1>3, <4>1 DEF DmRegs
    <3> QED BY <1>7, <3>1, <3>2
  <2> QED BY <1>2, <1>3, <1>4, <2>1, <2>2
       DEF BufferAfter, MccBufferInv, ContiguousInv, OnePageInv, n
<1>8. CASE AddsStore(P) \/ FlushesStores(P)
  <2>1. /\ wb'[P] \in WbRegs /\ wb'[P].cells = Append(b.cells, PutCell) /\ wb'[P].ptr = 0
    BY <1>1, <1>2, <1>5, <1>8 DEF AddsStore, FlushesStores, WbAfter, b
  <2>2. /\ Len(wb'[P].cells) = n + 1
        /\ wb'[P].cells[n + 1].addr = dm[P].addr
        /\ \A j \in 1 .. n : wb'[P].cells[j] = b.cells[j]
    BY <1>3, <2>1 DEF n
  <2>3. \A j \in 1 .. n + 1 :
          /\ wb'[P].cells[j].addr = dm[P].addr - (n + 1) + j
          /\ Page(wb'[P].cells[j].addr) = Page(dm[P].addr)
    <3> SUFFICES ASSUME NEW j \in 1 .. n + 1
                 PROVE  /\ wb'[P].cells[j].addr = dm[P].addr - (n + 1) + j
                        /\ Page(wb'[P].cells[j].addr) = Page(dm[P].addr)
      OBVIOUS
    <3>1. CASE j = n + 1
      BY <1>3, <2>2, <3>1
    <3>2. CASE j \in 1 .. n
      <4>1. /\ wb'[P].cells[j].addr = dm[P].addr - n + j - 1
            /\ Page(wb'[P].cells[j].addr) = Page(dm[P].addr)
        BY <1>4, <2>2, <3>2
      <4>2. dm[P].addr \in Int /\ n \in Int /\ j \in Int
        BY <1>3, <3>2
      <4> QED BY <4>1, <4>2
    <3> QED BY <1>3, <3>1, <3>2
  <2>4. CASE AddsStore(P)
    <3>1. /\ dm'[P] = [dm[P] EXCEPT !.first = FALSE, !.addr = cpu[P].addr,
                                    !.data = cpu[P].data, !.wl = cpu[P].be]
          /\ cpu[P].addr = dm[P].addr + 1 /\ n - b.ptr # BufferSize - 1
          /\ cpu[P].addr \notin PageStarts /\ cpu[P] # NoReq
      BY <2>4 DEF AddsStore, Continues, FilledStatus, b, n, Puts, Gathers, Proceeds
    <3>2. dm'[P].pending /\ ~dm'[P].flush /\ dm'[P].addr = dm[P].addr + 1
      BY <1>3, <3>1 DEF DmRegs
    <3>3. Len(wb'[P].cells) < BufferSize
      BY <1>3, <1>4, <2>2, <3>1
    <3>4. Page(dm'[P].addr) = Page(dm[P].addr)
      BY <1>1, <1>3, <3>1, <3>2, NextInPage
    <3>5. \A j \in 1 .. Len(wb'[P].cells) :
            /\ wb'[P].cells[j].addr = dm'[P].addr - Len(wb'[P].cells) + j - 1
            /\ Page(wb'[P].cells[j].addr) = Page(dm'[P].addr)
      <4> SUFFICES ASSUME NEW j \in 1 .. n + 1
                   PROVE  /\ wb'[P].cells[j].addr = dm'[P].addr - (n + 1) + j - 1
                          /\ Page(wb'[P].cells[j].addr) = Page(dm'[P].addr)
        BY <2>2
      <4>1. dm[P].addr \in Int /\ n \in Int /\ j \in Int
        BY <1>3
      <4> QED BY <2>3, <3>2, <3>4, <4>1
    <3>6. WbTyped(wb'[P])
      BY <1>3, <2>1, <2>2, <3>3 DEF WbTyped
    <3>7. MccBufferInv(P)'
      BY <1>2, <2>1, <3>2, <3>3 DEF MccBufferInv
    <3>8. ContiguousInv(P)' /\ OnePageInv(P)'
      BY <3>2, <3>5 DEF ContiguousInv, OnePageInv
    <3> QED BY <3>6, <3>7, <3>8 DEF BufferAfter
  <2>5. CASE FlushesStores(P)
    <3>1. dm'[P] = [dm[P] EXCEPT !.first = FALSE, !.flush = TRUE, !.size = n - b.ptr + 1]
      BY <2>5 DEF FlushesStores, BurstSize, FilledStatus, b, n
    <3>2. dm'[P].pending /\ dm'[P].flush /\ dm'[P].addr = dm[P].addr /\ dm'[P].size = n + 1
      BY <1>3, <1>4, <3>1 DEF DmRegs
    <3>3. WbTyped(wb'[P]) /\ dm'[P].size = Len(wb'[P].cells) /\ dm'[P].size > 0
      BY <1>3, <1>4, <2>1, <2>2, <3>2 DEF WbTyped
    <3>4. rq'[P].fsm # "REQ_DWAIT"
      <4>1. MccServiceInv(P) /\ MccCycleCases(rspval)
        BY DEF BufferContext, CycleContext
      <4>2. rq[P].fsm \notin DataCellStates \cup {"REQ_WRITE", "REQ_DWAIT"}
        BY <1>2, <4>1 DEF MccServiceInv
      <4> QED BY <1>2, <4>1, <4>2 DEF MccCycleCases, CycleIssues, CycleServes, CycleListens, CycleDrops,
           CycleSends, CycleWaits, MccReqKeeps, MccReqStartsData, MccReqStartsWrite, MccReqStartsInst,
           MccReqStartsNone, MccReqServes, MccReqDrops, MccReqSends, MccReqSendsStore, MccReqEnds,
           DataCellStates, OneCellStates, SendStates, TlbStates
    <3>5. MccBufferInv(P)'
      BY <1>2, <2>1, <3>2, <3>3, <3>4 DEF MccBufferInv
    <3>6. ContiguousInv(P)' /\ OnePageInv(P)'
      BY <2>2, <2>3, <3>2 DEF ContiguousInv, OnePageInv
    <3> QED BY <3>3, <3>5, <3>6 DEF BufferAfter
  <2> QED BY <1>8, <2>4, <2>5
<1> QED BY <1>6, <1>7, <1>8

(* A page is translated as a whole. *)
LEMMA SamePageHit ==
  ASSUME NEW t, NEW a, NEW c, Page(a) = Page(c), TlbHit(t, a)
  PROVE  TlbHit(t, c)
BY DEF TlbHit

(* What the buffer looks like while a packet is to be sent. *)
FlushNow ==
  /\ dm[P].size = Len(wb[P].cells) /\ dm[P].size > 0 /\ ~rs[P].dOk
  /\ rq[P].fsm = "REQ_DWAIT" => wb[P].ptr = IF rs[P].fsm = "RSP_IDLE" THEN 0 ELSE dm[P].size
  /\ rq[P].fsm \notin {"REQ_WRITE", "REQ_DWAIT"} => wb[P].ptr = 0

FlushContext(rspval) ==
  /\ BufferContext(rspval)
  /\ dm[P].flush /\ dm[P].pending /\ ~dm[P].req /\ ~DataDone(P)
  /\ dm'[P] = dm[P] /\ FlushNow /\ ~Puts(P)
  /\ dm[P].addr \in Nat /\ WbTyped(wb[P]) /\ BufferSize \in Nat \ {0}
  /\ Len(wb[P].cells) \in Nat /\ wb[P].ptr \in Nat

(* The cells stay where they are. *)
LEMMA CellsStay ==
  ASSUME NEW rspval, FlushContext(rspval), wb'[P].cells = wb[P].cells
  PROVE  ContiguousInv(P)' /\ OnePageInv(P)'
BY DEF FlushContext, BufferContext, ContiguousInv, OnePageInv

(* A packet that waits to be sent.                                         *)
LEMMA FlushHeld ==
  ASSUME NEW rspval, FlushContext(rspval), wb'[P] = wb[P],
         rq[P].fsm \notin {"REQ_WRITE", "REQ_DWAIT"},
         rq'[P].fsm \notin {"REQ_WRITE", "REQ_DWAIT"}, ~rs'[P].dOk
  PROVE  BufferAfter
<1>1. wb[P].ptr = 0 /\ dm[P].size = Len(wb[P].cells) /\ dm[P].size > 0
      /\ dm'[P] = dm[P] /\ dm[P].flush /\ dm[P].pending /\ WbTyped(wb'[P])
  BY DEF FlushContext, FlushNow
<1>2. ContiguousInv(P)' /\ OnePageInv(P)'
  BY CellsStay
<1>3. MccBufferInv(P)'
  BY <1>1 DEF MccBufferInv
<1> QED BY <1>1, <1>2, <1>3 DEF BufferAfter

(* The packet is started, or its page is missed in the TLB.                *)
LEMMA FlushIssues ==
  ASSUME NEW rspval, FlushContext(rspval), CycleIssues
  PROVE  BufferAfter
<1>1. /\ MccRegsOK /\ MccServiceInv(P) /\ MccServiceInv(P)' /\ WbAfter(rspval) /\ OnePageInv(P)
      /\ MccRspStarts /\ Issues(P) /\ ~dm[P].req /\ dm[P].flush /\ dm[P].pending
      /\ TlbFills(rspval) \/ TlbResets(rspval) \/ TlbKeeps(rspval)
  BY DEF FlushContext, BufferContext, CycleContext, MccCycleEffects, CycleIssues
<1>2. rq[P].fsm = "REQ_IDLE" /\ rs[P].fsm = "RSP_IDLE"
  BY <1>1 DEF Issues, Ready
<1>3. MccReqStartsWrite
  BY <1>1 DEF CycleIssues, MccReqStartsData, MccReqStartsInst, MccReqStartsNone
<1>4. wb[P].ptr = 0 /\ dm[P].size = Len(wb[P].cells) /\ dm[P].size > 0
      /\ dm'[P] = dm[P] /\ WbTyped(wb[P]) /\ ~rs[P].dOk /\ ~Puts(P)
  BY <1>2 DEF FlushContext, FlushNow
<1>5. ~rs'[P].dOk
  BY <1>1, <1>4 DEF MccRspStarts, FlagsAfter
<1>6. tlb'[P] = tlb[P]
  BY <1>1, <1>2 DEF TlbFills, TlbResets, TlbKeeps, TlbAnswered
<1>7. ~WriteAnswered(P, rspval)
  BY <1>2 DEF WriteAnswered
<1>8. CASE TlbHit(tlb[P], FlushAddr(P))
  <2>1. wb'[P] = SimpleGet(wb[P])
    BY <1>1, <1>7, <1>8 DEF MccGets, WbAfter
  <2>2. wb'[P] \in WbRegs /\ wb'[P].cells = wb[P].cells /\ wb'[P].ptr = 1
    BY <1>1, <1>4, <2>1, WbMoves
  <2>3. FlushAddr(P) = wb[P].cells[1].addr /\ ReadCell(wb[P]).data = wb[P].cells[1].data
    BY <1>4 DEF FlushAddr, ReadCell
  <2>4. /\ rq'[P].fsm = "REQ_WRITE" /\ rq'[P].cpt = 0
        /\ rq'[P].addr = Translate(tlb[P], FlushAddr(P)) /\ va'[P].data = FlushAddr(P)
        /\ rq'[P].data = wb'[P].cells[wb'[P].ptr].data
    BY <1>3, <1>8, <2>2, <2>3 DEF MccReqStartsWrite
  <2>5. wb'[P].cells[wb'[P].ptr].addr = FlushAddr(P)
    BY <2>2, <2>3
  <2>6. TranslatesData(P, wb[P].cells[wb[P].ptr].addr)'
    BY <1>6, <1>8, <2>4, <2>5 DEF TranslatesData
  <2>7. MccBufferInv(P)'
    BY <1>1, <1>4, <1>5, <2>2, <2>4, <2>6 DEF MccBufferInv
  <2>8. WbTyped(wb'[P])
    BY <1>4, <2>2 DEF WbTyped, FlushContext
  <2> QED BY <2>2, <2>7, <2>8, CellsStay DEF BufferAfter
<1>9. CASE ~TlbHit(tlb[P], FlushAddr(P))
  <2>1. wb'[P] = wb[P]
    BY <1>1, <1>2, <1>4, <1>7, <1>9 DEF MccGets, WbAfter
  <2>2. rq'[P].fsm = "REQ_TLB_DMISS"
    BY <1>3, <1>9 DEF MccReqStartsWrite
  <2> QED BY <1>2, <1>5, <2>1, <2>2, FlushHeld
<1> QED BY <1>8, <1>9

(* Something else is served first.                                         *)
LEMMA FlushIdles ==
  ASSUME NEW rspval, FlushContext(rspval),
         CycleServes \/ CycleListens(rspval) \/ CycleDrops
  PROVE  BufferAfter
<1>1. /\ MccServiceInv(P) /\ MccServiceInv(P)' /\ WbAfter(rspval) /\ CycleContext(rspval) /\ ~Puts(P)
  BY DEF FlushContext, BufferContext, CycleContext
<1>2. rq[P].fsm \in {"REQ_IDLE", "REQ_TLB_INVAL"} /\ ~Issues(P)
  BY DEF CycleServes, CycleListens, CycleDrops, MccReqServes, MccReqDrops, Issues, Ready
<1>3. ~WriteAnswered(P, rspval) /\ ~MccGets(P)
  BY <1>1, <1>2, MccAnsweredFacts DEF MccGets
<1>4. wb'[P] = wb[P]
  BY <1>1, <1>3 DEF WbAfter
<1>5. rq'[P].fsm \in {"REQ_IDLE", "REQ_TLB_INVAL", "REQ_TLB_INVAL_SEND_ACK"}
  BY <1>2 DEF CycleServes, CycleListens, CycleDrops, MccReqServes, MccReqDrops, MccReqKeeps
<1>6. ~rs'[P].dOk
  BY <1>1, <1>5 DEF MccServiceInv, TlbStates
<1> QED BY <1>2, <1>4, <1>5, <1>6, FlushHeld

(* A cell of the packet is sent.                                           *)
LEMMA FlushSends ==
  ASSUME NEW rspval, FlushContext(rspval), CycleSends(rspval)
  PROVE  BufferAfter
<1>1. /\ MccRegsOK /\ MccServiceInv(P) /\ MccServiceInv(P)' /\ WbAfter(rspval) /\ OnePageInv(P)
      /\ MccBufferInv(P) /\ ~Puts(P) /\ dm[P].flush /\ dm[P].pending /\ ~dm[P].req
      /\ dm'[P] = dm[P] /\ dm[P].size = Len(wb[P].cells) /\ dm[P].size > 0 /\ ~rs[P].dOk
      /\ WbTyped(wb[P]) /\ Len(wb[P].cells) \in Nat
      /\ TlbFills(rspval) \/ TlbResets(rspval) \/ TlbKeeps(rspval)
  BY DEF FlushContext, FlushNow, BufferContext, CycleContext, MccCycleEffects
<1>2. /\ MccReqSends \/ MccReqSendsStore \/ MccReqKeeps
      /\ rq[P].fsm \in SendStates \cup {"REQ_WRITE"}
      /\ ~rspval /\ rs[P].fsm # "RSP_IDLE" /\ MccRspKeeps(rspval)
  BY DEF CycleSends
<1>3. ~WriteAnswered(P, rspval) /\ rs'[P].fsm = rs[P].fsm /\ ~rs'[P].dOk
  BY <1>1, <1>2 DEF WriteAnswered, MccRspKeeps, FlagsAfter
<1>4. CASE rq[P].fsm = "REQ_WRITE"
  <2>1. /\ wb[P].ptr = rq[P].cpt + 1 /\ rq[P].cpt < dm[P].size /\ rq[P].cpt \in Nat
        /\ TranslatesData(P, wb[P].cells[wb[P].ptr].addr)
        /\ rq[P].data = wb[P].cells[wb[P].ptr].data
    BY <1>1, <1>4, MccRegTypes DEF MccBufferInv, MccRqRegs
  <2>2. tlb'[P] = tlb[P]
    BY <1>1, <1>2, <1>4 DEF TlbFills, TlbResets, TlbKeeps, TlbAnswered
  <2>3. ~Issues(P) /\ rs'[P].fsm = "RSP_WRITE"
    BY <1>1, <1>3, <1>4 DEF MccServiceInv, DataRspState, Issues, Ready
  <2>4. CASE MccReqKeeps
    <3>1. wb'[P] = wb[P]
      BY <1>1, <1>3, <1>4, <2>3, <2>4 DEF MccGets, MccReqKeeps, WbAfter
    <3>2. rq'[P] = rq[P] /\ va'[P] = va[P]
      BY <2>4 DEF MccReqKeeps, SameVa
    <3>3. TranslatesData(P, wb[P].cells[wb[P].ptr].addr)'
      BY <2>1, <2>2, <3>1, <3>2 DEF TranslatesData
    <3>4. MccBufferInv(P)'
      BY <1>1, <1>3, <1>4, <2>1, <3>1, <3>2, <3>3 DEF MccBufferInv
    <3> QED BY <1>1, <3>1, <3>4, CellsStay DEF BufferAfter
  <2>5. CASE MccReqSendsStore /\ LastCell(P)
    <3>1. wb'[P] = wb[P]
      BY <1>1, <1>3, <1>4, <2>3, <2>5 DEF MccGets, WbAfter
    <3>2. rq'[P].fsm = "REQ_DWAIT" /\ rq[P].cpt = dm[P].size - 1
      BY <2>5 DEF MccReqSendsStore, LastCell
    <3>3. wb'[P].ptr = dm'[P].size
      BY <1>1, <2>1, <3>1, <3>2
    <3>4. MccBufferInv(P)'
      BY <1>1, <1>3, <2>3, <3>1, <3>2, <3>3 DEF MccBufferInv
    <3> QED BY <1>1, <3>1, <3>4, CellsStay DEF BufferAfter
  <2>6. CASE MccReqSendsStore /\ ~LastCell(P)
    <3>1. rq[P].cpt # dm[P].size - 1 /\ cmd[P] = NoCell
      BY <2>6 DEF LastCell, MccReqSendsStore
    <3>2. wb[P].ptr < Len(wb[P].cells)
      BY <1>1, <2>1, <3>1
    <3>3. MccGets(P)
      BY <1>4, <2>6, <3>1 DEF MccGets
    <3>4. wb'[P] = SimpleGet(wb[P])
      BY <1>1, <1>3, <3>3 DEF WbAfter
    <3>5. wb'[P] \in WbRegs /\ wb'[P].cells = wb[P].cells /\ wb'[P].ptr = wb[P].ptr + 1
      BY <1>1, <3>2, <3>4, WbMoves
    <3>6. FlushAddr(P) = wb'[P].cells[wb'[P].ptr].addr
      BY <3>5 DEF FlushAddr, ReadCell
    <3>7. /\ rq'[P].fsm = "REQ_WRITE" /\ rq'[P].cpt = rq[P].cpt + 1
          /\ rq'[P].addr = Translate(tlb[P], FlushAddr(P)) /\ va'[P].data = FlushAddr(P)
          /\ rq'[P].data = wb'[P].cells[wb'[P].ptr].data
      BY <2>6, <3>5 DEF MccReqSendsStore, ReadCell
    <3>8. Page(FlushAddr(P)) = Page(wb[P].cells[wb[P].ptr].addr)
      <4>1. wb[P].ptr \in 1 .. Len(wb[P].cells) /\ wb[P].ptr + 1 \in 1 .. Len(wb[P].cells)
        BY <1>1, <2>1, <3>2
      <4> QED BY <1>1, <3>5, <3>6, <4>1 DEF OnePageInv
    <3>9. TlbHit(tlb[P], FlushAddr(P))
      BY <2>1, <3>8, SamePageHit DEF TranslatesData
    <3>10. TranslatesData(P, wb[P].cells[wb[P].ptr].addr)'
      BY <2>2, <3>6, <3>7, <3>9 DEF TranslatesData
    <3>11. wb'[P].ptr = rq'[P].cpt + 1 /\ rq'[P].cpt < dm'[P].size
      <4>1. wb[P].ptr = rq[P].cpt + 1 /\ rq[P].cpt < dm[P].size /\ rq[P].cpt \in Nat
        BY <2>1
      <4>2. dm[P].size \in Nat /\ dm'[P].size = dm[P].size
        BY <1>1
      <4>3. rq[P].cpt + 1 < dm[P].size
        BY <3>1, <4>1, <4>2
      <4>4. wb'[P].ptr = wb[P].ptr + 1 /\ rq'[P].cpt = rq[P].cpt + 1
        BY <3>5, <3>7
      <4> QED BY <4>1, <4>2, <4>3, <4>4
    <3>12. MccBufferInv(P)'
      BY <1>1, <1>3, <3>5, <3>7, <3>10, <3>11 DEF MccBufferInv
    <3>13. WbTyped(wb'[P])
      BY <1>1, <3>2, <3>5 DEF WbTyped, FlushContext
    <3> QED BY <3>5, <3>12, <3>13, CellsStay DEF BufferAfter
  <2> QED BY <1>2, <1>4, <2>4, <2>5, <2>6 DEF MccReqSends, SendStates, OneCellStates, TlbStates
<1>5. CASE rq[P].fsm # "REQ_WRITE"
  <2>1. rq[P].fsm \in {"REQ_IMISS"} \cup TlbStates
    BY <1>1, <1>2, <1>5 DEF MccServiceInv, SendStates, DataCellStates
  <2>2. ~MccGets(P)
    BY <1>5, <2>1 DEF MccGets, Issues, Ready, TlbStates
  <2>3. wb'[P] = wb[P]
    BY <1>1, <1>3, <2>2 DEF WbAfter
  <2>4. rq'[P].fsm \in {"REQ_IMISS", "REQ_IWAIT", "REQ_IDLE"} \cup TlbStates
    BY <1>2, <1>5, <2>1 DEF MccReqSends, MccReqSendsStore, MccReqKeeps, TlbStates
  <2> QED BY <1>3, <2>1, <2>3, <2>4, FlushHeld DEF TlbStates
<1> QED BY <1>4, <1>5

(* The answer of the packet is awaited.                                    *)
LEMMA FlushWaits ==
  ASSUME NEW rspval, FlushContext(rspval), CycleWaits(rspval)
  PROVE  BufferAfter
<1>1. /\ MccRegsOK /\ MccServiceInv(P) /\ MccServiceInv(P)' /\ WbAfter(rspval)
      /\ MccBufferInv(P) /\ ~Puts(P) /\ dm[P].flush /\ dm[P].pending /\ ~dm[P].req
      /\ dm'[P] = dm[P] /\ dm[P].size = Len(wb[P].cells) /\ dm[P].size > 0 /\ ~rs[P].dOk
      /\ WbTyped(wb[P]) /\ CycleContext(rspval) /\ FlushNow
  BY DEF FlushContext, FlushNow, BufferContext, CycleContext
<1>2. /\ MccReqEnds \/ MccReqKeeps
      /\ rq[P].fsm \in {"REQ_DWAIT", "REQ_IWAIT"}
      /\ \/ MccRspKeeps(rspval) \/ MccRspTakesTlb(rspval)
         \/ RspTakesLineCell(P, rspval) \/ RspTakesOneCell(P, rspval)
  BY DEF CycleWaits, MccRspTakes
<1>3. ~MccGets(P)
  BY <1>2 DEF MccGets, Issues, Ready
<1>4. CASE rq[P].fsm = "REQ_DWAIT"
  <2>1. rq'[P].fsm = IF rs[P].dRetry THEN "REQ_IDLE" ELSE "REQ_DWAIT"
    BY <1>1, <1>2, <1>4 DEF MccReqEnds, MccReqKeeps
  <2>2. \/ rs[P].fsm = "RSP_WRITE" /\ ~rs[P].dRetry
        \/ rs[P].fsm = "RSP_IDLE" /\ rs[P].dRetry
    BY <1>1, <1>4 DEF MccServiceInv, DataRspState
  <2>3. wb[P].ptr = IF rs[P].fsm = "RSP_IDLE" THEN 0 ELSE dm[P].size
    BY <1>1, <1>4 DEF FlushNow
  <2>4. CASE WriteAnswered(P, rspval)
    <3>1. RspTakesOneCell(P, rspval)
      BY <1>2, <2>4 DEF WriteAnswered, MccRspKeeps, MccRspTakesTlb, RspTakesLineCell, TlbRspStates
    <3>2. rs'[P].fsm = "RSP_IDLE" /\ (rs'[P].dOk <=> ~rsp[P].error)
      BY <1>1, <3>1 DEF RspTakesOneCell, FlagsAfter
    <3>3. rq'[P].fsm = "REQ_DWAIT"
      BY <2>1, <2>2, <2>4 DEF WriteAnswered
    <3>4. CASE rsp[P].error
      <4>1. wb'[P] = InitRead(wb[P])
        BY <1>1, <2>4, <3>4 DEF WbAfter
      <4>2. wb'[P] \in WbRegs /\ wb'[P].cells = wb[P].cells /\ wb'[P].ptr = 0
        BY <1>1, <4>1, WbMoves
      <4>3. MccBufferInv(P)'
        BY <1>1, <3>2, <3>3, <3>4, <4>2 DEF MccBufferInv
      <4>4. WbTyped(wb'[P])
        BY <1>1, <4>2 DEF WbTyped, FlushContext
      <4> QED BY <4>2, <4>3, <4>4, CellsStay DEF BufferAfter
    <3>5. CASE ~rsp[P].error
      <4>1. /\ wb'[P] = EmptyBuffer /\ wb'[P] \in WbRegs /\ wb'[P].ptr = 0
            /\ wb'[P].cells = <<>> /\ Len(wb'[P].cells) = 0 /\ BufferSize \in Nat \ {0}
        BY <1>1, <2>4, <3>5, WbMoves, WbShape DEF WbAfter
      <4> QED BY <1>1, <3>2, <3>3, <3>5, <4>1
           DEF BufferAfter, MccBufferInv, ContiguousInv, OnePageInv, WbTyped
    <3> QED BY <3>4, <3>5
  <2>5. CASE ~WriteAnswered(P, rspval)
    <3>1. wb'[P] = wb[P]
      BY <1>1, <1>3, <2>5 DEF WbAfter
    <3>2. rs'[P].fsm = rs[P].fsm /\ ~rs'[P].dOk
      BY <1>1, <1>2, <2>2, <2>5 DEF WriteAnswered, MccRspKeeps, MccRspTakesTlb,
         RspTakesLineCell, RspTakesOneCell, FlagsAfter, TlbRspStates
    <3>3. MccBufferInv(P)'
      BY <1>1, <2>1, <2>2, <2>3, <3>1, <3>2 DEF MccBufferInv
    <3> QED BY <1>1, <3>1, <3>3, CellsStay DEF BufferAfter
  <2> QED BY <2>4, <2>5
<1>5. CASE rq[P].fsm = "REQ_IWAIT"
  <2>1. ~WriteAnswered(P, rspval)
    BY <1>1, <1>5, MccAnsweredFacts
  <2>2. wb'[P] = wb[P]
    BY <1>1, <1>3, <2>1 DEF WbAfter
  <2>3. rq'[P].fsm \in {"REQ_IWAIT", "REQ_IDLE"}
    BY <1>2, <1>5 DEF MccReqEnds, MccReqKeeps
  <2>4. ~rs'[P].dOk
    BY <1>1, <2>3 DEF MccServiceInv
  <2> QED BY <1>5, <2>2, <2>3, <2>4, FlushHeld
<1> QED BY <1>2, <1>4, <1>5

(* A packet is sent, and sent again.                                       *)
LEMMA BufferFlushes ==
  ASSUME NEW rspval, BufferContext(rspval), dm[P].flush
  PROVE  BufferAfter
<1>1. /\ MccRegsOK /\ MccServiceInv(P) /\ MccBufferInv(P) /\ WbAfter(rspval) /\ DoneInv(P)
      /\ HeldEffect /\ MccCycleCases(rspval) /\ CycleContext(rspval)
  BY DEF BufferContext, CycleContext
<1>2. ~Puts(P) /\ ~dm[P].req /\ dm[P].pending
  BY BufferCommon
<1>3. CASE DataDone(P)
  <2>1. ~dm'[P].flush /\ ~dm'[P].pending
    BY <1>1, <1>3 DEF HeldEffect
  <2>2. rs[P].fsm = "RSP_IDLE" /\ rq[P].fsm = "REQ_DWAIT" /\ rs[P].dOk
    BY <1>1, <1>2, <1>3 DEF DataDone, MccServiceInv
  <2>3. wb[P] = EmptyBuffer
    BY <1>1, <2>2 DEF MccBufferInv
  <2>4. ~WriteAnswered(P, rspval) /\ ~MccGets(P)
    BY <2>2 DEF WriteAnswered, MccGets, Issues, Ready
  <2>5. /\ wb'[P] = EmptyBuffer /\ wb'[P] \in WbRegs /\ wb'[P].ptr = 0
        /\ wb'[P].cells = <<>> /\ Len(wb'[P].cells) = 0 /\ BufferSize \in Nat \ {0}
    BY <1>1, <1>2, <2>3, <2>4, WbMoves, WbShape DEF WbAfter
  <2>6. rq'[P].fsm # "REQ_WRITE"
    BY <1>1, <2>2 DEF MccCycleCases, CycleIssues, CycleServes, CycleListens, CycleDrops,
       CycleSends, CycleWaits, Issues, Ready, MccReqServes, MccReqDrops, MccReqKeeps, MccReqEnds,
       SendStates, OneCellStates, TlbStates
  <2> QED BY <2>1, <2>5, <2>6
       DEF BufferAfter, MccBufferInv, ContiguousInv, OnePageInv, WbTyped
<1>4. CASE ~DataDone(P)
  <2>1. dm'[P] = dm[P]
    BY <1>1, <1>4 DEF HeldEffect, SameRequest
  <2>2. FlushNow
    BY <1>1, <1>4 DEF MccBufferInv, FlushNow, DoneInv
  <2>3. FlushContext(rspval)
    BY <1>1, <1>2, <1>4, <2>1, <2>2, WbShape DEF FlushContext
  <2> QED BY <1>1, <2>3, FlushIssues, FlushIdles, FlushSends, FlushWaits DEF MccCycleCases
<1> QED BY <1>3, <1>4

(* The buffer, in every cycle.                                             *)
LEMMA MccBufferStep ==
  ASSUME NEW rspval, BufferContext(rspval)
  PROVE  BufferAfter
BY BufferEmpty, BufferGathers, BufferFlushes

-----------------------------------------------------------------------------
(* The command cell that REQ_FSM drives, field by field. *)

MccCommandAddr ==
  IF rq[P].fsm = "REQ_IMISS" THEN Base(Block(va[P].inst))
  ELSE IF rq[P].fsm = "REQ_DMISS" THEN Base(Block(rq[P].addr))
  ELSE IF rq[P].fsm = "REQ_TLB_IMISS" THEN va[P].inst
  ELSE IF rq[P].fsm = "REQ_TLB_INVAL_SEND_ACK" THEN PageBase(ta[P].page)
  ELSE rq[P].addr

CommandPage ==
  IF rq[P].fsm \in TlbStates THEN 0
  ELSE IF rq[P].fsm = "REQ_IMISS" THEN Page(ic[P].addr) ELSE Page(va[P].data)

CommandName ==
  IF rq[P].fsm = "REQ_LL" THEN "LOCKED_READ"
  ELSE IF rq[P].fsm = "REQ_SC" THEN "STORE_COND"
  ELSE IF rq[P].fsm = "REQ_WRITE" THEN "WRITE"
  ELSE IF rq[P].fsm \in {"REQ_TLB_IMISS", "REQ_TLB_DMISS"} THEN "READ_TLB_MISS"
  ELSE IF rq[P].fsm = "REQ_TLB_INVAL_SEND_ACK" THEN "TLB_INV_ACK" ELSE "READ"

CommandFields(c) ==
  /\ c \in MccCmdCell /\ c.addr = MccCommandAddr /\ c.page = CommandPage /\ c.cmd = CommandName
  /\ c.cells = IF rq[P].fsm = "REQ_WRITE" THEN dm[P].size
               ELSE IF rq[P].fsm \in {"REQ_IMISS", "REQ_DMISS"} THEN LineWords ELSE 1
  /\ c.eop <=> (rq[P].fsm = "REQ_WRITE" => LastCell(P))

Plain(c, a, n, v) == [cmd |-> c, addr |-> a, data |-> Zero, be |-> Lanes,
                      cells |-> n, eop |-> TRUE, page |-> v]

PlainFields(x, c, a, n, v) ==
  x \in MccCmdCell /\ x.cmd = c /\ x.addr = a /\ x.cells = n /\ x.page = v /\ x.eop = TRUE

(* The cells that are not stores.                                          *)
LEMMA PlainFacts ==
  ASSUME NEW c \in MccCmds, NEW a \in Addr, NEW n \in Nat \ {0}, NEW v \in Pages
  PROVE  PlainFields(Plain(c, a, n, v), c, a, n, v)
BY WordTypes DEF Plain, PlainFields, MccCmdCell

(* What REQ_FSM drives is a cell, with these fields.                       *)
LEMMA MccCommandFacts ==
  ASSUME MccRegsOK, MccServiceInv(P), MccBufferInv(P), rq[P].fsm \in SendStates \cup {"REQ_WRITE"}
  PROVE  CommandFields(MccCommandCell(P))
<1> DEFINE v == Page(va[P].data)
<1>1. /\ rq[P].addr \in Addr /\ rq[P].data \in Word /\ ic[P].addr \in Addr
      /\ va[P].data \in Addr /\ va[P].inst \in Addr
      /\ dc[P].be \in SUBSET Lanes /\ dm[P].wf \in SUBSET Lanes /\ ta[P].page \in Pages
      /\ LineWords \in Nat \ {0} /\ 1 \in Nat \ {0}
  BY MccAddrs, MccRegTypes, SizeFacts DEF DcRegs, DmRegs, TaRegs
<1>2. /\ Base(Block(va[P].inst)) \in Addr /\ Base(Block(rq[P].addr)) \in Addr
      /\ Page(ic[P].addr) \in Pages /\ v \in Pages /\ PageBase(ta[P].page) \in Addr
  BY <1>1, AddrTypes, PageFacts
<1>3. 0 \in Pages
  <2>1. 0 \in Addr
    BY NbWordsAssumption DEF Addr
  <2>2. Page(0) = 0
    BY PageWordsAssumption DEF Page
  <2> QED BY <2>1, <2>2, PageFacts
<1> HIDE DEF v
<1>4. CASE rq[P].fsm = "REQ_IMISS"
  <2>1. MccCommandCell(P) = Plain("READ", Base(Block(va[P].inst)), LineWords, Page(ic[P].addr))
    BY <1>4 DEF MccCommandCell, Plain
  <2>2. "READ" \in MccCmds
    BY DEF MccCmds, Cmds
  <2>3. PlainFields(Plain("READ", Base(Block(va[P].inst)), LineWords, Page(ic[P].addr)),
                   "READ", Base(Block(va[P].inst)), LineWords, Page(ic[P].addr))
    BY <1>1, <1>2, <1>3, <2>2, PlainFacts
  <2> QED BY <1>1, <1>2, <1>4, <2>1, <2>3
       DEF PlainFields, CommandFields, MccCommandAddr, CommandPage, CommandName, TlbStates
<1>5. CASE rq[P].fsm = "REQ_DMISS"
  <2>1. MccCommandCell(P) = Plain("READ", Base(Block(rq[P].addr)), LineWords, v)
    BY <1>5 DEF MccCommandCell, Plain, v
  <2>2. "READ" \in MccCmds
    BY DEF MccCmds, Cmds
  <2>3. PlainFields(Plain("READ", Base(Block(rq[P].addr)), LineWords, v),
                   "READ", Base(Block(rq[P].addr)), LineWords, v)
    BY <1>1, <1>2, <1>3, <2>2, PlainFacts
  <2> QED BY <1>1, <1>2, <1>5, <2>1, <2>3
       DEF PlainFields, CommandFields, MccCommandAddr, CommandPage, CommandName, TlbStates, v
<1>6. CASE rq[P].fsm = "REQ_UNC"
  <2> DEFINE r == Plain("READ", rq[P].addr, 1, v)
             e == dc[P].be
             c == [r EXCEPT !.be = e]
  <2>1. MccCommandCell(P) = c
    BY <1>6 DEF MccCommandCell, Plain, v
  <2>2. "READ" \in MccCmds
    BY DEF MccCmds, Cmds
  <2>3. PlainFields(r, "READ", rq[P].addr, 1, v)
    BY <1>1, <1>2, <2>2, PlainFacts
  <2>4. e \in SUBSET Lanes
    BY <1>1
  <2> HIDE DEF r, e
  <2>5. /\ c \in MccCmdCell /\ c.cmd = "READ" /\ c.addr = rq[P].addr
        /\ c.cells = 1 /\ c.page = v /\ c.eop = TRUE
    BY <2>3, <2>4 DEF MccCmdCell, PlainFields
  <2> HIDE DEF c
  <2> QED BY <1>6, <2>1, <2>5
       DEF PlainFields, CommandFields, MccCommandAddr, CommandPage, CommandName, TlbStates, v
<1>7. CASE rq[P].fsm = "REQ_LL"
  <2>1. MccCommandCell(P) = Plain("LOCKED_READ", rq[P].addr, 1, v)
    BY <1>7 DEF MccCommandCell, Plain, v
  <2>2. "LOCKED_READ" \in MccCmds
    BY DEF MccCmds, Cmds
  <2>3. PlainFields(Plain("LOCKED_READ", rq[P].addr, 1, v),
                   "LOCKED_READ", rq[P].addr, 1, v)
    BY <1>1, <1>2, <1>3, <2>2, PlainFacts
  <2> QED BY <1>1, <1>2, <1>7, <2>1, <2>3
       DEF PlainFields, CommandFields, MccCommandAddr, CommandPage, CommandName, TlbStates, v
<1>8. CASE rq[P].fsm = "REQ_SC"
  <2> DEFINE r == Plain("STORE_COND", rq[P].addr, 1, v)
             e == dc[P].be
             d == rq[P].data
             c == [r EXCEPT !.be = e, !.data = d]
  <2>1. MccCommandCell(P) = c
    BY <1>8 DEF MccCommandCell, Plain, v
  <2>2. "STORE_COND" \in MccCmds
    BY DEF MccCmds, Cmds
  <2>3. PlainFields(r, "STORE_COND", rq[P].addr, 1, v)
    BY <1>1, <1>2, <2>2, PlainFacts
  <2>4. e \in SUBSET Lanes /\ d \in Word
    BY <1>1
  <2> HIDE DEF r, e, d
  <2>5. /\ c \in MccCmdCell /\ c.cmd = "STORE_COND" /\ c.addr = rq[P].addr
        /\ c.cells = 1 /\ c.page = v /\ c.eop = TRUE
    BY <2>3, <2>4 DEF MccCmdCell, PlainFields
  <2> HIDE DEF c
  <2> QED BY <1>8, <2>1, <2>5
       DEF PlainFields, CommandFields, MccCommandAddr, CommandPage, CommandName, TlbStates, v
<1>9. CASE rq[P].fsm = "REQ_WRITE"
  <2> DEFINE n == dm[P].size
             r == Plain("WRITE", rq[P].addr, n, v)
             e == dm[P].wf
             d == rq[P].data
             z == ~Rok(wb[P])
             c == [r EXCEPT !.be = e, !.data = d, !.eop = z]
  <2>1. MccCommandCell(P) = c
    BY <1>9 DEF MccCommandCell, Plain, v
  <2>2. /\ dm[P].size = Len(wb[P].cells) /\ wb[P].ptr = rq[P].cpt + 1
        /\ rq[P].cpt < dm[P].size
    BY <1>9 DEF MccServiceInv, MccBufferInv
  <2>3. dm[P].size \in Nat /\ rq[P].cpt \in Nat
    BY MccRegTypes, SizeFacts DEF DmRegs, MccRqRegs
  <2>4. z <=> LastCell(P)
    BY <2>2, <2>3 DEF Rok, FilledStatus, LastCell
  <2>5. "WRITE" \in MccCmds
    BY DEF MccCmds, Cmds
  <2>6. n \in Nat \ {0}
    BY <2>2, <2>3
  <2> HIDE DEF n
  <2>7. PlainFields(r, "WRITE", rq[P].addr, n, v)
    BY <1>1, <1>2, <2>5, <2>6, PlainFacts
  <2>8. e \in SUBSET Lanes /\ d \in Word /\ z \in BOOLEAN
    BY <1>1
  <2> HIDE DEF r, e, d, z
  <2>9. /\ c \in MccCmdCell /\ c.cmd = "WRITE" /\ c.addr = rq[P].addr
        /\ c.cells = n /\ c.page = v /\ c.eop = z
    BY <2>7, <2>8 DEF MccCmdCell, PlainFields
  <2> HIDE DEF c
  <2> QED BY <1>9, <2>1, <2>4, <2>9
       DEF PlainFields, CommandFields, MccCommandAddr, CommandPage, CommandName, TlbStates, v, n
<1>10. CASE rq[P].fsm = "REQ_TLB_IMISS"
  <2>1. MccCommandCell(P) = Plain("READ_TLB_MISS", va[P].inst, 1, 0)
    BY <1>10 DEF MccCommandCell, Plain
  <2>2. "READ_TLB_MISS" \in MccCmds
    BY DEF MccCmds
  <2>3. PlainFields(Plain("READ_TLB_MISS", va[P].inst, 1, 0),
                   "READ_TLB_MISS", va[P].inst, 1, 0)
    BY <1>1, <1>2, <1>3, <2>2, PlainFacts
  <2> QED BY <1>1, <1>3, <1>10, <2>1, <2>3
       DEF PlainFields, CommandFields, MccCommandAddr, CommandPage, CommandName, TlbStates
<1>11. CASE rq[P].fsm = "REQ_TLB_DMISS"
  <2>1. MccCommandCell(P) = Plain("READ_TLB_MISS", rq[P].addr, 1, 0)
    BY <1>11 DEF MccCommandCell, Plain
  <2>2. "READ_TLB_MISS" \in MccCmds
    BY DEF MccCmds
  <2>3. PlainFields(Plain("READ_TLB_MISS", rq[P].addr, 1, 0),
                   "READ_TLB_MISS", rq[P].addr, 1, 0)
    BY <1>1, <1>2, <1>3, <2>2, PlainFacts
  <2> QED BY <1>1, <1>3, <1>11, <2>1, <2>3
       DEF PlainFields, CommandFields, MccCommandAddr, CommandPage, CommandName, TlbStates
<1>12. CASE rq[P].fsm = "REQ_TLB_INVAL_SEND_ACK"
  <2>1. MccCommandCell(P) = Plain("TLB_INV_ACK", PageBase(ta[P].page), 1, 0)
    BY <1>12 DEF MccCommandCell, Plain
  <2>2. "TLB_INV_ACK" \in MccCmds
    BY DEF MccCmds
  <2>3. PlainFields(Plain("TLB_INV_ACK", PageBase(ta[P].page), 1, 0),
                   "TLB_INV_ACK", PageBase(ta[P].page), 1, 0)
    BY <1>1, <1>2, <1>3, <2>2, PlainFacts
  <2> QED BY <1>1, <1>2, <1>3, <1>12, <2>1, <2>3
       DEF PlainFields, CommandFields, MccCommandAddr, CommandPage, CommandName, TlbStates
<1> QED BY <1>4, <1>5, <1>6, <1>7, <1>8, <1>9, <1>10, <1>11, <1>12
     DEF SendStates, OneCellStates, TlbStates

-----------------------------------------------------------------------------
(* What a rising edge of the clock preserves, of the registers. *)

(* The invariants in front of an edge.                                     *)
MccEdge(rspval, invval) ==
  /\ MccRegsOK /\ MccCacheInv(P) /\ MccFlightInv /\ TlbInv
  /\ rspval \in BOOLEAN /\ invval \in BOOLEAN
  /\ MccCacheCycle(P, rspval, invval)

(* The effects of the five machines and the invariants that have been seen *)
(* to hold after them.                                                     *)
LEMMA MccCycleInv ==
  ASSUME NEW rspval, NEW invval, MccEdge(rspval, invval)
  PROVE  /\ CycleContext(rspval) /\ MccCycleCases(rspval) /\ BufferAfter
         /\ MccCacheInv(P)'
<1>1. /\ MccRegsOK /\ MccCacheInv(P) /\ MccFlightInv /\ TlbInv
      /\ rspval \in BOOLEAN /\ invval \in BOOLEAN /\ MccCacheCycle(P, rspval, invval)
  BY DEF MccEdge
<1>2. /\ MccServiceInv(P) /\ MccBufferInv(P) /\ RequestInv(P) /\ PrevInv(P) /\ MccInvalInv(P)
      /\ ContiguousInv(P) /\ OnePageInv(P) /\ DataRegsOK /\ P \in Procs
  BY <1>1, PIsCache DEF MccCacheInv, MccInvalInv, PrevInv, MccRegsOK
<1>3. /\ rspval => rsp[P] # NoCell
      /\ ICacheFsm(P) /\ DCacheFsm(P) /\ MccWriteBuffer(P, rspval)
  BY <1>1, MccIsDCache, MccIsICache DEF MccCacheCycle
<1>4. /\ MccCycleEffects(rspval) /\ HeldEffect /\ DoneInv(P) /\ MccResponseOK /\ PrevInv(P)'
  BY <1>1, MccCycleFacts
<1>5. CycleContext(rspval)
  BY <1>1, <1>2, <1>3, <1>4 DEF CycleContext
<1>6. MccServiceInv(P)' /\ MccCycleCases(rspval)
  BY <1>2, <1>5, MccServiceStep
<1>7. RequestInv(P)'
  BY <1>2, <1>3, <1>4, AnyRequestStep
<1>8. DcEffects(P) /\ WbAfter(rspval)
  BY <1>1, <1>2, <1>3, <1>4, AnyDcEffect, MccBufferAt DEF DcEffects
<1>9. cpu[P] # NoReq => cpu[P].addr \in Addr
  BY <1>1, MccRegTypes DEF DataReq
<1>10. BufferAfter
  <2>1. BufferContext(rspval)
    BY <1>2, <1>5, <1>6, <1>8, <1>9 DEF BufferContext
  <2> QED BY <2>1, MccBufferStep
<1>11. MccInvalInv(P)'
  <2>1. MccIvKeeps \/ MccIvTakes
    BY <1>4 DEF MccCycleEffects
  <2> QED BY <1>4, <2>1 DEF MccIvKeeps, MccIvTakes, MccInvalInv, PrevInv
<1> QED BY <1>5, <1>6, <1>7, <1>10, <1>11 DEF MccCacheInv, BufferAfter

(* The cells have their types after the edge ...                           *)
LEMMA MccCellTypes ==
  ASSUME NEW rspval, NEW invval, MccEdge(rspval, invval), MccReqEffects, MccRspEffects(rspval)
  PROVE  /\ cmd' \in [Srcs -> MccCmdCell \cup {NoCell}]
         /\ rsp' \in [Srcs -> RspCell \cup {NoCell}]
<1>1. MccRegsOK /\ MccServiceInv(P) /\ MccBufferInv(P)
  BY DEF MccEdge, MccCacheInv
<1>2. \/ cmd' = cmd
      \/ /\ cmd' = [cmd EXCEPT ![P] = MccCommandCell(P)]
         /\ rq[P].fsm \in SendStates \cup {"REQ_WRITE"}
  BY DEF MccReqEffects, MccReqKeeps, MccReqStartsData, MccReqStartsWrite, MccReqStartsInst,
     MccReqStartsNone, MccReqServes, MccReqDrops, MccReqSends, MccReqSendsStore, MccReqEnds
<1>3. rq[P].fsm \in SendStates \cup {"REQ_WRITE"} => MccCommandCell(P) \in MccCmdCell
  BY <1>1, MccCommandFacts DEF CommandFields
<1>4. rsp' = rsp \/ rsp' = [rsp EXCEPT ![P] = NoCell]
  BY DEF MccRspEffects, MccRspKeeps, MccRspClears, MccRspServesAck, MccRspStarts, MccRspTakesTlb,
     RspTakesLineCell, RspTakesOneCell, TakeRsp
<1> QED BY <1>1, <1>2, <1>3, <1>4 DEF MccRegsOK

(* ... and so have all the registers.                                      *)
LEMMA MccCycleTypes ==
  ASSUME NEW rspval, NEW invval, MccEdge(rspval, invval), UNCHANGED memVars
  PROVE  MccRegsOK'
<1>1. /\ MccRegsOK /\ MccCacheInv(P) /\ MccFlightInv /\ TlbInv
      /\ rspval \in BOOLEAN /\ invval \in BOOLEAN /\ MccCacheCycle(P, rspval, invval)
  BY DEF MccEdge
<1>2. /\ MccServiceInv(P) /\ MccBufferInv(P) /\ RequestInv(P) /\ PrevInv(P) /\ MccInvalInv(P)
      /\ DataRegsOK /\ P \in Procs
  BY <1>1, PIsCache DEF MccCacheInv, MccInvalInv, PrevInv, MccRegsOK
<1>3. /\ rspval => rsp[P] # NoCell
      /\ invval => invCmd[P] # NoBlock
      /\ ICacheFsm(P) /\ DCacheFsm(P) /\ MccReqFsm(P) /\ MccRspFsm(P, rspval)
      /\ MccInvalFsm(P, invval) /\ Tlb(P, rspval) /\ TlbInvBuffers(P) /\ TlbAck(P, rspval)
      /\ MccWriteBuffer(P, rspval)
  BY <1>1, MccIsDCache, MccIsICache DEF MccCacheCycle
<1>4. /\ CycleContext(rspval) /\ BufferAfter /\ DoneInv(P) /\ MccResponseOK
      /\ MccReqEffects /\ MccRspEffects(rspval)
  BY MccCycleInv DEF CycleContext, MccCycleEffects
<1>5. DataTyped
  <2>1. CellsFit(P)
    BY <1>2 DEF CellsFit, MccBufferInv
  <2>2. rs[P].buf \in [Offsets -> Word]
    BY <1>1, MccRegTypes DEF MccRsRegs
  <2> QED BY <1>2, <1>3, <2>1, <2>2, AnyDcTypes
<1>6. /\ ic' \in [Procs -> IcRegs]
      /\ fetch' \in [Procs -> Addr \cup {NoReq}]
      /\ itag' \in [Procs -> [Slots -> Blocks \cup {NoBlock}]]
  BY <1>2, <1>3, <1>4, AnyIcStep
<1>7. /\ wb' \in [Procs -> WbRegs]
      /\ \A p \in Procs : wb'[p].ptr <= Len(wb'[p].cells) /\ Len(wb'[p].cells) <= BufferSize
  <2> DEFINE w == IF WriteAnswered(P, rspval)
                  THEN IF rsp[P].error THEN InitRead(wb[P]) ELSE EmptyBuffer
                  ELSE IF MccGets(P) THEN SimpleGet(wb[P])
                  ELSE IF Puts(P)
                  THEN SimplePut(wb[P], [addr |-> dm[P].addr, data |-> dm[P].data])
                  ELSE wb[P]
  <2>1. wb' = [wb EXCEPT ![P] = w] /\ wb \in [Procs -> WbRegs]
    BY <1>2, <1>3 DEF MccWriteBuffer, DataRegsOK
  <2>2. WbTyped(wb'[P])
    BY <1>4 DEF BufferAfter
  <2> HIDE DEF w
  <2>3. wb'[P] = w
    BY <1>2, <2>1
  <2> QED BY <2>1, <2>2, <2>3, PIsCache DEF WbTyped
<1>8. DataRegsOK'
  BY <1>5, <1>6, <1>7 DEF DataRegsOK, DataTyped
<1>9. rq' \in [Procs -> MccRqRegs] /\ va' \in [Procs -> VaRegs]
  BY <1>1, <1>2, <1>3, MccReqEffect DEF MccReqTyped
<1>10. rs' \in [Procs -> MccRsRegs]
  BY <1>1, <1>3, <1>4, MccRspTypes DEF MccResponseOK
<1>11. tlb' \in [Procs -> TlbType]
  BY <1>1, <1>2, <1>3, TlbStep, AnsweredFrame
<1>12. ta' \in [Procs -> TaRegs] /\ ti' \in [Procs -> TiRegs]
  BY <1>1, <1>2, <1>3, TaStep, TiStep
<1>13. /\ iv' \in [Procs -> MccIvRegs] /\ invRsp' \in [Procs -> BOOLEAN]
       /\ invCmd' \in [Procs -> MccInvCell \cup {NoBlock}]
  BY <1>1, <1>2, <1>3, MccIvStep
<1>14. /\ cmd' \in [Srcs -> MccCmdCell \cup {NoCell}]
       /\ rsp' \in [Srcs -> RspCell \cup {NoCell}]
  BY <1>4, MccCellTypes
<1>15. /\ memory' \in [Addr -> Word]
       /\ packet' \in [addr : Nat, left : Nat, written : Seq(StoreCell)]
       /\ packet'.addr + packet'.left <= NbWords
  BY <1>1 DEF MccRegsOK, memVars
<1>16. rs'[P].fsm \in MccRspStates /\ rs'[P].cpt \in 0 .. LineWords
  BY <1>2, <1>10 DEF MccRsRegs
<1>17. iv'[P].fsm \in {"INV_IDLE", "INV_CMD", "INV_CMD_TLB", "INV_WAIT", "INV_RSP"}
  BY <1>2, <1>13 DEF MccIvRegs
<1>18. MccTypeOK'
  BY <1>9, <1>11, <1>12, <1>16, <1>17 DEF MccTypeOK, MccRqRegs, VaRegs, TlbType, TaRegs, TiRegs
<1> QED BY <1>8, <1>10, <1>13, <1>14, <1>15, <1>18 DEF MccRegsOK

-----------------------------------------------------------------------------
(* The cells that are under way, over a rising edge of the clock.          *)

(* Nothing is under way where RSP_FSM waits for nothing.                   *)
LEMMA FlightOfNothing ==
  ASSUME MccNothing', packet'.left = 0,
         rs'[P].fsm = "RSP_IDLE" \/ rq'[P].fsm \notin {"REQ_IDLE", "REQ_DWAIT", "REQ_IWAIT"}
  PROVE  MccFlightInv'
BY DEF MccFlightInv, MccNothing, NoPacket, MccLineRsp, TlbRspStates

(* What was asked is not changed while the request is held.                *)
LEMMA AskedStays ==
  ASSUME NEW rspval, CycleContext(rspval), SameVa, cmd' = cmd,
         rs[P].fsm # "RSP_IDLE", rs'[P].fsm = rs[P].fsm, rs'[P].cpt = rs[P].cpt
  PROVE  /\ rs[P].fsm \in TlbRspStates => MissedAddr(P)' = MissedAddr(P)
         /\ ta'[P].page = ta[P].page
         /\ Asked => Asked'
<1>1. /\ MccServiceInv(P) /\ IcEffect(P) /\ TaEffect(rspval) /\ DoneInv(P)
  BY DEF CycleContext, MccCycleEffects
<1>2. rq[P].fsm # "REQ_TLB_INVAL"
  BY <1>1 DEF MccServiceInv
<1>3. ta'[P].page = ta[P].page
  BY <1>1, <1>2 DEF TaEffect
<1>4. rs[P].fsm \in TlbRspStates => MissedAddr(P)' = MissedAddr(P)
  <2>1. rs[P].fsm = "RSP_TLB_IMISS" => ic[P].req /\ ~InstDone(P)
    BY <1>1 DEF MccServiceInv, TlbRspStates, InstDone, TlbStates
  <2>2. rs[P].fsm = "RSP_TLB_IMISS" => ic'[P].addr = ic[P].addr
    BY <1>1, <2>1 DEF IcEffect
  <2>3. va'[P].data = va[P].data
    BY DEF SameVa
  <2> QED BY <2>2, <2>3 DEF MissedAddr
<1> QED BY <1>3, <1>4 DEF Asked

(* A cycle that neither sends nor takes a cell.                            *)
LEMMA FlightStays ==
  ASSUME MccFlightInv, cmd' = cmd, rsp' = rsp, packet' = packet,
         rs'[P].fsm = rs[P].fsm, rs'[P].cpt = rs[P].cpt, Asked => Asked',
         \/ rq'[P].fsm = rq[P].fsm
         \/ rq'[P].fsm = "REQ_IDLE" /\ rq[P].fsm \in {"REQ_DWAIT", "REQ_IWAIT"}
  PROVE  MccFlightInv'
<1>1. MccNothing' <=> MccNothing
  BY DEF MccNothing
<1>2. MccArrived' = MccArrived
  BY DEF MccArrived
<1> QED BY <1>1, <1>2 DEF MccFlightInv, SendStates, OneCellStates, TlbStates

(* RSP_FSM takes a cell.                                                   *)
LEMMA FlightTaken ==
  ASSUME NEW rspval, CycleContext(rspval), MccFlightInv, packet' = packet, cmd' = cmd,
         rspval, rs[P].fsm # "RSP_IDLE",
         rq'[P].fsm \in {"REQ_IDLE", "REQ_DWAIT", "REQ_IWAIT"},
         \/ MccRspTakesTlb(rspval)
         \/ RspTakesLineCell(P, rspval) \/ RspTakesOneCell(P, rspval)
  PROVE  MccFlightInv'
<1>1. /\ MccRegsOK /\ MccResponseOK /\ rsp[P] # NoCell
  BY DEF CycleContext
<1>2. /\ rq[P].fsm \in {"REQ_IDLE", "REQ_DWAIT", "REQ_IWAIT"} /\ cmd[P] = NoCell
      /\ rs[P].fsm \in MccLineRsp =>
           rs[P].cpt < LineWords /\ (packet.left = 0 <=> rs[P].cpt = LineWords - 1)
  BY <1>1 DEF MccResponseOK
<1>3. MccArrived = 1 /\ rsp'[P] = NoCell /\ MccArrived' = 0
  <2>1. rsp' = [rsp EXCEPT ![P] = NoCell] /\ rsp \in [Srcs -> RspCell \cup {NoCell}]
    BY <1>1 DEF MccRspTakesTlb, RspTakesLineCell, RspTakesOneCell, TakeRsp, MccRegsOK
  <2> QED BY <1>1, <2>1, PIsCache DEF MccArrived
<1>4. packet.left \in Nat /\ rs[P].cpt \in Nat /\ LineWords \in Nat
  BY <1>1, MccRegTypes, SizeFacts DEF MccRsRegs, MccRegsOK
<1>5. CASE rs'[P].fsm = "RSP_IDLE"
  <2>1. packet = NoPacket
    <3>1. CASE MccRspTakesTlb(rspval)
      BY <1>2, <3>1 DEF MccFlightInv, MccRspTakesTlb
    <3>2. CASE RspTakesLineCell(P, rspval)
      <4>1. packet.left = 0 /\ rs[P].fsm # "RSP_WRITE"
        BY <1>2, <1>5, <3>2 DEF RspTakesLineCell, LastOfLine, MccLineRsp
      <4> QED BY <4>1 DEF MccFlightInv
    <3>3. CASE RspTakesOneCell(P, rspval)
      <4>1. rs[P].fsm = "RSP_UNC" => packet.left = 0
        BY <1>2, <1>3, <1>4 DEF MccFlightInv
      <4> QED BY <1>2, <3>3, <4>1 DEF MccFlightInv, RspTakesOneCell
    <3> QED BY <3>1, <3>2, <3>3
  <2>2. MccNothing' /\ packet'.left = 0
    BY <1>2, <1>3, <2>1 DEF MccNothing, NoPacket
  <2> QED BY <1>5, <2>2, FlightOfNothing
<1>6. CASE rs'[P].fsm # "RSP_IDLE"
  <2>1. RspTakesLineCell(P, rspval) /\ ~LastOfLine(P)
    BY <1>6 DEF MccRspTakesTlb, RspTakesLineCell, RspTakesOneCell
  <2>2. rs'[P].fsm = rs[P].fsm /\ rs'[P].cpt = rs[P].cpt + 1 /\ rs[P].fsm \in MccLineRsp
    BY <2>1 DEF RspTakesLineCell, MccLineRsp
  <2>3. rs[P].cpt + 1 + packet.left = LineWords
    BY <1>2, <1>3, <2>2 DEF MccFlightInv
  <2>4. rs'[P].cpt + 0 + packet'.left = LineWords
    BY <1>4, <2>2, <2>3
  <2>5. rs'[P].fsm \notin TlbRspStates \cup {"RSP_WRITE", "RSP_INVAL_SEND_ACK", "RSP_UNC", "RSP_IDLE"}
    BY <2>2 DEF MccLineRsp, TlbRspStates
  <2>6. rq'[P].fsm \notin SendStates \cup {"REQ_WRITE"}
    BY DEF SendStates, OneCellStates, TlbStates
  <2>7. cmd'[P] = NoCell /\ packet' = packet
    BY <1>2
  <2> QED BY <1>3, <2>2, <2>4, <2>5, <2>6, <2>7 DEF MccFlightInv
<1> QED BY <1>5, <1>6

(* REQ_FSM sends the cell of a request that takes one.                     *)
LEMMA FlightSent ==
  ASSUME NEW rspval, CycleContext(rspval), MccBufferInv(P), MccFlightInv, packet' = packet,
         MccReqSends, rsp' = rsp, rs'[P].fsm = rs[P].fsm, rs'[P].cpt = rs[P].cpt
  PROVE  MccFlightInv'
<1>1. /\ MccServiceInv(P) /\ MccRegsOK /\ rq[P].fsm \in SendStates /\ SameVa
      /\ cmd' = [cmd EXCEPT ![P] = MccCommandCell(P)]
      /\ IcEffect(P) /\ TaEffect(rspval)
  BY DEF CycleContext, MccReqSends, MccCycleEffects
<1>2. CommandFields(MccCommandCell(P))
  BY <1>1, MccCommandFacts
<1>3. cmd'[P] = MccCommandCell(P)
  BY <1>1, PIsCache DEF MccRegsOK
<1>4. /\ cmd'[P] \in MccCmdCell /\ cmd'[P].addr = MccCommandAddr /\ cmd'[P].cmd = CommandName
      /\ cmd'[P].cells = IF rq[P].fsm = "REQ_WRITE" THEN dm[P].size
                         ELSE IF rq[P].fsm \in {"REQ_IMISS", "REQ_DMISS"} THEN LineWords ELSE 1
      /\ cmd'[P].eop <=> (rq[P].fsm = "REQ_WRITE" => LastCell(P))
  BY <1>2, <1>3 DEF CommandFields
<1>5. MccNothing /\ rsp'[P] = NoCell /\ packet' = NoPacket
  BY <1>1 DEF MccFlightInv, MccNothing
<1>6. /\ rq[P].fsm # "REQ_WRITE" /\ rq[P].fsm # "REQ_TLB_INVAL"
      /\ rq'[P].fsm \in {"REQ_IDLE", "REQ_IWAIT", "REQ_DWAIT"}
  BY <1>1 DEF MccReqSends, SendStates, OneCellStates, TlbStates
<1>7. cmd'[P].eop
  BY <1>4, <1>6
<1>8. /\ ta'[P].page = ta[P].page /\ va'[P] = va[P]
      /\ ic[P].req => ic'[P].addr = ic[P].addr
  BY <1>1, <1>6 DEF TaEffect, SameVa, IcEffect, InstDone, SendStates, OneCellStates, TlbStates
<1>9. Asked'
  <2>1. CASE rq[P].fsm \in DataCellStates
    <3>1. rq[P].fsm = DataReqState(P) /\ rs[P].fsm = DataRspState(P) /\ rs[P].cpt = 0 /\ dm[P].req
      BY <1>1, <2>1 DEF MccServiceInv
    <3>2. /\ rs[P].fsm = "RSP_DMISS" => rq[P].fsm = "REQ_DMISS"
          /\ rs[P].fsm = "RSP_UNC" => rq[P].fsm \in {"REQ_LL", "REQ_SC", "REQ_UNC"}
          /\ rs[P].fsm \in {"RSP_UNC", "RSP_DMISS"}
      BY <3>1 DEF DataReqState, DataRspState
    <3>3. rs[P].fsm = "RSP_DMISS" => cmd'[P].addr + LineWords <= NbWords
      <4>1. rq[P].addr \in Addr
        BY <1>1, MccAddrs
      <4>2. Block(rq[P].addr) \in Blocks
        BY <4>1 DEF Blocks
      <4>3. Base(Block(rq[P].addr)) + LineWords <= NbWords
        BY <4>2, LinesAssumption
      <4> QED BY <1>4, <3>2, <4>3 DEF MccCommandAddr
    <3>4. CASE rs[P].fsm = "RSP_DMISS"
      BY <1>4, <3>1, <3>2, <3>3, <3>4 DEF Asked, MccLineRsp, CommandName, TlbRspStates
    <3>5. CASE rs[P].fsm = "RSP_UNC"
      BY <1>4, <3>1, <3>2, <3>5 DEF Asked, MccLineRsp, CommandName, TlbRspStates
    <3> QED BY <3>2, <3>4, <3>5
  <2>2. CASE rq[P].fsm = "REQ_IMISS"
    <3>1. rs[P].fsm = "RSP_IMISS" /\ rs[P].cpt = 0
      BY <1>1, <2>2 DEF MccServiceInv
    <3>2. va[P].inst \in Addr
      BY <1>1, MccAddrs
    <3>3. Block(va[P].inst) \in Blocks
      BY <3>2 DEF Blocks
    <3>4. Base(Block(va[P].inst)) + LineWords <= NbWords
      BY <3>3, LinesAssumption
    <3>5. cmd'[P].addr + LineWords <= NbWords /\ cmd'[P].cmd = "READ" /\ cmd'[P].cells = LineWords
      BY <1>4, <2>2, <3>4 DEF MccCommandAddr, CommandName
    <3> QED BY <3>1, <3>5 DEF Asked, MccLineRsp, TlbRspStates
  <2>3. CASE rq[P].fsm = "REQ_TLB_IMISS"
    <3>1. rs[P].fsm = "RSP_TLB_IMISS" /\ va[P].inst = ic[P].addr
      BY <1>1, <2>3 DEF MccServiceInv
    <3>2. ic[P].req
      BY <1>1, <3>1 DEF MccServiceInv, TlbRspStates
    <3>3. cmd'[P].addr = va[P].inst /\ cmd'[P].cmd = "READ_TLB_MISS"
      BY <1>4, <2>3 DEF MccCommandAddr, CommandName
    <3>4. MissedAddr(P)' = ic[P].addr
      BY <1>8, <3>1, <3>2 DEF MissedAddr
    <3> QED BY <3>1, <3>3, <3>4 DEF Asked, MccLineRsp, TlbRspStates
  <2>4. CASE rq[P].fsm = "REQ_TLB_DMISS"
    <3>1. rs[P].fsm = "RSP_TLB_DMISS" /\ rq[P].addr = va[P].data
      BY <1>1, <2>4 DEF MccServiceInv
    <3>2. cmd'[P].addr = rq[P].addr /\ cmd'[P].cmd = "READ_TLB_MISS"
      BY <1>4, <2>4 DEF MccCommandAddr, CommandName
    <3>3. MissedAddr(P)' = va[P].data
      BY <1>8, <3>1 DEF MissedAddr
    <3> QED BY <3>1, <3>2, <3>3 DEF Asked, MccLineRsp, TlbRspStates
  <2>5. CASE rq[P].fsm = "REQ_TLB_INVAL_SEND_ACK"
    <3>1. rs[P].fsm = "RSP_INVAL_SEND_ACK"
      BY <1>1, <2>5 DEF MccServiceInv
    <3>2. cmd'[P].addr = PageBase(ta[P].page) /\ cmd'[P].cmd = "TLB_INV_ACK"
      BY <1>4, <2>5 DEF MccCommandAddr, CommandName
    <3> QED BY <1>8, <3>1, <3>2 DEF Asked, MccLineRsp, TlbRspStates
  <2> QED BY <1>1, <2>1, <2>2, <2>3, <2>4, <2>5 DEF SendStates, TlbStates, DataCellStates
<1>10. rs[P].fsm # "RSP_IDLE"
  BY <1>9 DEF Asked
<1>11. cmd'[P] # NoCell
  BY <1>4, MccCellsAssumption
<1>12. packet'.left = 0
  BY <1>5 DEF NoPacket
<1>13. rq'[P].fsm \notin SendStates \cup {"REQ_WRITE"}
  BY <1>6 DEF SendStates, OneCellStates, TlbStates
<1> QED BY <1>5, <1>6, <1>7, <1>9, <1>10, <1>11, <1>12, <1>13 DEF MccFlightInv

(* REQ_FSM sends a cell of a burst.                                        *)
LEMMA FlightSentStore ==
  ASSUME NEW rspval, CycleContext(rspval), RequestInv(P), MccBufferInv(P), MccFlightInv,
         packet' = packet,
         MccReqSendsStore, rsp' = rsp, rs'[P].fsm = rs[P].fsm
  PROVE  MccFlightInv'
<1>1. /\ MccServiceInv(P) /\ MccRegsOK /\ rq[P].fsm = "REQ_WRITE"
      /\ cmd' = [cmd EXCEPT ![P] = MccCommandCell(P)]
  BY DEF CycleContext, MccReqSendsStore
<1>2. CommandFields(MccCommandCell(P))
  BY <1>1, MccCommandFacts
<1>3. cmd'[P] = MccCommandCell(P)
  BY <1>1, PIsCache DEF MccRegsOK
<1>4. /\ cmd'[P] \in MccCmdCell /\ cmd'[P].cmd = "WRITE"
      /\ cmd'[P].eop <=> LastCell(P)
  BY <1>1, <1>2, <1>3 DEF CommandFields, CommandName
<1>5. rs[P].fsm = "RSP_WRITE"
  BY <1>1 DEF MccServiceInv, DataRspState, RequestInv
<1>6. Asked'
  BY <1>4, <1>5 DEF Asked, MccLineRsp, TlbRspStates
<1>7. rsp[P] = NoCell /\ packet.left = 0
  BY <1>1 DEF MccFlightInv
<1>8. rq'[P].fsm = IF LastCell(P) THEN "REQ_DWAIT" ELSE "REQ_WRITE"
  BY DEF MccReqSendsStore
<1>9. cmd'[P] # NoCell
  BY <1>4, MccCellsAssumption
<1> QED BY <1>4, <1>5, <1>6, <1>7, <1>8, <1>9 DEF MccFlightInv, SendStates, OneCellStates, TlbStates

(* A cycle of the cache keeps the account of the cells.                    *)
LEMMA MccFlightCycle ==
  ASSUME NEW rspval, NEW invval, MccEdge(rspval, invval), UNCHANGED memVars
  PROVE  MccFlightInv'
<1>1. /\ CycleContext(rspval) /\ MccCycleCases(rspval)
      /\ MccRegsOK /\ RequestInv(P) /\ MccBufferInv(P) /\ MccServiceInv(P) /\ MccFlightInv
      /\ packet' = packet
  BY MccCycleInv DEF MccEdge, MccCacheInv, memVars
<1>2. CASE CycleIssues
  <2>1. rs[P].fsm = "RSP_IDLE" /\ rsp' = rsp /\ cmd' = cmd /\ rs'[P].fsm = MccExpects
    BY <1>2 DEF CycleIssues, Issues, Ready, MccRspStarts, MccReqStartsData, MccReqStartsWrite,
       MccReqStartsInst, MccReqStartsNone
  <2>2. MccNothing' /\ packet'.left = 0
    BY <1>1, <2>1 DEF MccFlightInv, MccNothing, NoPacket
  <2>3. DataReqState(P) \in DataCellStates
    BY <1>1, MccStateFacts DEF CycleContext
  <2>4. rs'[P].fsm = "RSP_IDLE" \/ rq'[P].fsm \notin {"REQ_IDLE", "REQ_DWAIT", "REQ_IWAIT"}
    BY <1>2, <2>1, <2>3 DEF CycleIssues, MccExpects, MccReqStartsData, MccReqStartsWrite,
       MccReqStartsInst, MccReqStartsNone, DataCellStates, OneCellStates
  <2> QED BY <2>2, <2>4, FlightOfNothing
<1>3. CASE CycleServes \/ CycleDrops
  <2>1. rs[P].fsm = "RSP_IDLE" /\ rsp' = rsp /\ cmd' = cmd
    BY <1>1, <1>3 DEF CycleServes, CycleDrops, Ready, MccReqServes, MccReqDrops, MccRspServesAck,
       MccRspClears, MccServiceInv
  <2>2. MccNothing' /\ packet'.left = 0
    BY <1>1, <2>1 DEF MccFlightInv, MccNothing, NoPacket
  <2>3. rq'[P].fsm \notin {"REQ_IDLE", "REQ_DWAIT", "REQ_IWAIT"}
    BY <1>3 DEF CycleServes, CycleDrops, MccReqServes, MccReqDrops
  <2> QED BY <2>2, <2>3, FlightOfNothing
<1>4. CASE CycleListens(rspval) \/ CycleWaits(rspval)
  <2>1. /\ MccRspTakes(rspval) /\ cmd' = cmd /\ SameVa
        /\ rq[P].fsm \in {"REQ_IDLE", "REQ_DWAIT", "REQ_IWAIT"}
        /\ \/ rq'[P].fsm = rq[P].fsm
           \/ rq'[P].fsm = "REQ_IDLE" /\ rq[P].fsm \in {"REQ_DWAIT", "REQ_IWAIT"}
    BY <1>4 DEF CycleListens, CycleWaits, MccReqKeeps, MccReqEnds
  <2>2. CASE MccRspKeeps(rspval)
    <3>1. rsp' = rsp /\ rs'[P].fsm = rs[P].fsm /\ rs'[P].cpt = rs[P].cpt
      BY <2>2 DEF MccRspKeeps
    <3>2. Asked => Asked'
      <4>1. CASE rs[P].fsm = "RSP_IDLE"
        BY <4>1 DEF Asked
      <4>2. CASE rs[P].fsm # "RSP_IDLE"
        BY <1>1, <2>1, <3>1, <4>2, AskedStays
      <4> QED BY <4>1, <4>2
    <3> QED BY <1>1, <2>1, <3>1, <3>2, FlightStays
  <2>3. CASE ~MccRspKeeps(rspval)
    <3>1. \/ MccRspTakesTlb(rspval)
          \/ RspTakesLineCell(P, rspval) \/ RspTakesOneCell(P, rspval)
      BY <2>1, <2>3 DEF MccRspTakes
    <3>2. rspval /\ rs[P].fsm # "RSP_IDLE"
      BY <3>1 DEF MccRspTakesTlb, RspTakesLineCell, RspTakesOneCell, TlbRspStates
    <3>3. rq'[P].fsm \in {"REQ_IDLE", "REQ_DWAIT", "REQ_IWAIT"}
      BY <2>1
    <3> QED BY <1>1, <2>1, <3>1, <3>2, <3>3, FlightTaken
  <2> QED BY <2>2, <2>3
<1>5. CASE CycleSends(rspval)
  <2>1. /\ MccReqSends \/ MccReqSendsStore \/ MccReqKeeps
        /\ rq[P].fsm \in SendStates \cup {"REQ_WRITE"} /\ rs[P].fsm # "RSP_IDLE"
        /\ rsp' = rsp /\ rs'[P].fsm = rs[P].fsm /\ rs'[P].cpt = rs[P].cpt
    BY <1>5 DEF CycleSends, MccRspKeeps
  <2>2. CASE MccReqSends
    BY <1>1, <2>1, <2>2, FlightSent
  <2>3. CASE MccReqSendsStore
    BY <1>1, <2>1, <2>3, FlightSentStore
  <2>4. CASE MccReqKeeps
    <3>1. SameVa /\ cmd' = cmd /\ rq'[P].fsm = rq[P].fsm
      BY <2>4 DEF MccReqKeeps
    <3>2. Asked => Asked'
      BY <1>1, <2>1, <3>1, AskedStays
    <3> QED BY <1>1, <2>1, <3>1, <3>2, FlightStays
  <2> QED BY <2>1, <2>2, <2>3, <2>4
<1> QED BY <1>1, <1>2, <1>3, <1>4, <1>5 DEF MccCycleCases

-----------------------------------------------------------------------------
(* Where the invalidation of a translation is, over a rising edge.         *)

(* An exchange is of two pages.                                            *)
LEMMA MovingFew ==
  ASSUME MoveInv
  PROVE  \A u, v, w \in Moving : u = v \/ u = w \/ v = w
<1>1. CASE move.frames = {}
  BY <1>1 DEF Moving
<1>2. CASE move.frames # {}
  <2>1. PICK f \in Migrable, g \in Migrable : f # g /\ move.frames = {f, g}
    BY <1>2 DEF MoveInv
  <2> QED BY <2>1 DEF Moving
<1> QED BY <1>1, <1>2

(* A third invalidation does not find the two buffers full.                *)
LEMMA InvalRoom ==
  ASSUME MccRegsOK, TokenInv, MoveInv, invCmd[P] # NoBlock, invCmd[P].tlb
  PROVE  /\ invCmd[P].what \in Pages /\ InvSent(invCmd[P].what)
         /\ ti[P].inv0 = NoPage \/ ti[P].inv1 = NoPage
<1>1. invCmd[P] \in MccInvCell /\ ti[P] \in TiRegs
  BY MccRegTypes
<1>2. invCmd[P].what \in Pages
  BY <1>1 DEF MccInvCell
<1>3. InvSent(invCmd[P].what)
  BY DEF InvSent
<1>4. ASSUME ti[P].inv0 # NoPage, ti[P].inv1 # NoPage
      PROVE  FALSE
  <2>1. ti[P].inv0 \in Pages /\ ti[P].inv1 \in Pages
    BY <1>1, <1>4 DEF TiRegs
  <2>2. /\ invCmd[P].what \in Moving /\ ti[P].inv0 \in Moving /\ ti[P].inv1 \in Moving
        /\ ~InvSent(ti[P].inv0) /\ ~InvSent(ti[P].inv1) /\ ti[P].inv0 # ti[P].inv1
    BY <1>2, <1>3, <2>1 DEF TokenInv
  <2> QED BY <1>3, <2>2, MovingFew
<1> QED BY <1>2, <1>3, <1>4

(* The invalidations of the TLB after the edge, and where they were.       *)
TokensMove(v) ==
  /\ InvSent(v)' => InvSent(v) /\ iv[P].fsm # "INV_CMD_TLB"
  /\ InvSent(v) /\ iv[P].fsm # "INV_CMD_TLB" => InvSent(v)'
  /\ v \in {ti'[P].inv0, ti'[P].inv1} =>
       \/ InvSent(v) /\ iv[P].fsm = "INV_CMD_TLB"
       \/ v \in {ti[P].inv0, ti[P].inv1}
          /\ (rq[P].fsm = "REQ_TLB_INVAL" => v # ta'[P].page)
  /\ InvSent(v) /\ iv[P].fsm = "INV_CMD_TLB" => v \in {ti'[P].inv0, ti'[P].inv1}
  /\ v \in {ti[P].inv0, ti[P].inv1} =>
       \/ v \in {ti'[P].inv0, ti'[P].inv1}
       \/ rq[P].fsm = "REQ_TLB_INVAL" /\ v = ta'[P].page
  /\ ti'[P].inv1 = v => ti'[P].inv0 # v

(* An invalidation moves from the network to a buffer, and from there to   *)
(* the acknowledgement.                                                    *)
LEMMA TokensAfter ==
  ASSUME NEW rspval, CycleContext(rspval), MccInvalInv(P), TokenInv, MoveInv, NEW v \in Pages
  PROVE  TokensMove(v)
<1>1. /\ MccRegsOK /\ TiEffect /\ TaEffect(rspval) /\ MccServiceInv(P)
      /\ MccIvKeeps \/ MccIvTakes
  BY DEF CycleContext, MccCycleEffects
<1>2. v # NoPage
  BY MigrableAssumption
<1>3. /\ InvSent(v) => ti[P].inv0 # v /\ ti[P].inv1 # v
      /\ ti[P].inv1 = v => ti[P].inv0 # v
  BY DEF TokenInv
<1>4. iv[P].fsm = "INV_CMD_TLB" =>
        /\ invCmd[P] # NoBlock /\ invCmd[P].tlb /\ invCmd[P].what \in Pages
        /\ ti[P].inv0 = NoPage \/ ti[P].inv1 = NoPage
        /\ invCmd[P].what # NoPage
        /\ invCmd'[P] = NoBlock
  <2>1. iv[P].fsm = "INV_CMD_TLB" => invCmd[P] # NoBlock /\ invCmd[P].tlb
    BY DEF MccInvalInv
  <2>2. iv[P].fsm = "INV_CMD_TLB" => invCmd'[P] = NoBlock
    BY <1>1, PIsCache DEF MccIvKeeps, MccIvTakes, MccRegsOK
  <2> QED BY <1>1, <2>1, <2>2, InvalRoom, MigrableAssumption
<1>5. iv[P].fsm # "INV_CMD_TLB" => (InvSent(v)' <=> InvSent(v))
  <2>1. CASE MccIvKeeps
    BY <2>1 DEF MccIvKeeps, InvSent
  <2>2. CASE MccIvTakes
    <3>1. invCmd'[P] = NoBlock
      BY <1>1, <2>2, PIsCache DEF MccIvTakes, MccRegsOK
    <3>2. iv[P].fsm # "INV_CMD_TLB" => ~InvSent(v)
      BY <2>2 DEF MccIvTakes, MccInvalInv, InvSent
    <3> QED BY <3>1, <3>2 DEF InvSent
  <2> QED BY <1>1, <2>1, <2>2
<1>6. iv[P].fsm = "INV_CMD_TLB" => ~InvSent(v)' /\ (InvSent(v) <=> invCmd[P].what = v)
  BY <1>4 DEF InvSent
<1>7. /\ ti'[P].inv0 = IF iv[P].fsm = "INV_CMD_TLB" /\ ti[P].inv0 = NoPage THEN invCmd[P].what
                       ELSE IF rq[P].fsm = "REQ_TLB_INVAL" /\ ti[P].inv1 = NoPage THEN NoPage
                       ELSE ti[P].inv0
      /\ ti'[P].inv1 = IF iv[P].fsm = "INV_CMD_TLB" /\ ti[P].inv0 # NoPage THEN invCmd[P].what
                       ELSE IF rq[P].fsm = "REQ_TLB_INVAL" /\ ti[P].inv1 # NoPage THEN NoPage
                       ELSE ti[P].inv1
      /\ rq[P].fsm = "REQ_TLB_INVAL" =>
           /\ ta'[P].page = IF ti[P].inv1 # NoPage THEN ti[P].inv1 ELSE ti[P].inv0
           /\ ti[P].inv0 # NoPage \/ ti[P].inv1 # NoPage
  BY <1>1 DEF TiEffect, TaEffect, MccServiceInv, IsTlbInv
<1>8. ~(ti[P].inv0 = ti[P].inv1 /\ ti[P].inv0 \in Pages)
  BY DEF TokenInv
<1>9. CASE iv[P].fsm = "INV_CMD_TLB"
  <2>1. ti'[P].inv1 = v => ti'[P].inv0 # v
    BY <1>2, <1>3, <1>4, <1>6, <1>7, <1>9
  <2> QED BY <1>2, <1>3, <1>4, <1>6, <1>7, <1>8, <1>9, <2>1 DEF TokensMove
<1>10. CASE iv[P].fsm # "INV_CMD_TLB"
  BY <1>2, <1>3, <1>5, <1>7, <1>8, <1>10 DEF TokensMove
<1> QED BY <1>9, <1>10

(* The acknowledgements to send after the edge.                            *)
LEMMA AckAfter ==
  ASSUME NEW rspval, CycleContext(rspval), MccCycleCases(rspval), NEW v, AckDue(v)'
  PROVE  IF rq[P].fsm = "REQ_TLB_INVAL" THEN v = ta'[P].page ELSE AckDue(v)
<1>1. /\ MccRegsOK /\ TaEffect(rspval) /\ MccServiceInv(P) /\ (rspval => rsp[P] # NoCell)
  BY DEF CycleContext, MccCycleEffects
<1>2. /\ ta'[P].page = v
      /\ \/ ta'[P].retry
         \/ rs'[P].fsm = "RSP_INVAL_SEND_ACK" /\ (rsp'[P] # NoCell => rsp'[P].error)
  BY DEF AckDue
<1>3. CASE rq[P].fsm = "REQ_TLB_INVAL"
  BY <1>2, <1>3
<1>4. CASE rq[P].fsm # "REQ_TLB_INVAL"
  <2>1. /\ ta[P].page = v
        /\ ta'[P].retry <=> (ta[P].retry /\ ~Ready(P)) \/ AckAgain(P, rspval)
    BY <1>1, <1>2, <1>4 DEF TaEffect
  <2>2. CASE ta'[P].retry
    <3>1. AckAgain(P, rspval)
      BY <1>1, <2>1, <2>2 DEF MccServiceInv
    <3> QED BY <1>1, <1>4, <2>1, <3>1 DEF AckAgain, AckDue
  <2>3. CASE rs'[P].fsm = "RSP_INVAL_SEND_ACK" /\ (rsp'[P] # NoCell => rsp'[P].error)
    <3>1. DataRspState(P) # "RSP_INVAL_SEND_ACK"
      BY DEF DataRspState
    <3>2. CASE CycleIssues
      BY <2>3, <3>1, <3>2 DEF CycleIssues, MccRspStarts, MccExpects
    <3>3. CASE CycleServes
      BY <1>4, <2>1, <2>3, <3>3 DEF CycleServes, MccRspClears, AckDue
    <3>4. CASE CycleListens(rspval) \/ CycleWaits(rspval) \/ CycleSends(rspval)
      <4>1. MccRspTakes(rspval)
        BY <3>4 DEF CycleListens, CycleWaits, CycleSends, MccRspTakes
      <4>2. rs'[P].fsm = rs[P].fsm /\ rsp' = rsp
        BY <2>3, <4>1 DEF MccRspTakes, MccRspKeeps, MccRspTakesTlb, RspTakesLineCell, RspTakesOneCell
      <4> QED BY <1>4, <2>1, <2>3, <4>2 DEF AckDue
    <3>5. ~CycleDrops
      BY <1>4 DEF CycleDrops, MccReqDrops
    <3> QED BY <3>2, <3>3, <3>4, <3>5 DEF MccCycleCases
  <2> QED BY <1>2, <2>2, <2>3
<1> QED BY <1>3, <1>4

-----------------------------------------------------------------------------
(* The invariants about the exchange, over a rising edge.                  *)

(* The registers and the exchange, in front of an edge that the memories   *)
(* do not see.                                                             *)
MoveEdge(rspval, invval) ==
  /\ MccEdge(rspval, invval)
  /\ UNCHANGED <<memVars, moveVars>>
  /\ TokenInv /\ MoveInv /\ CommandInv

(* What such an edge is.                                                   *)
LEMMA MoveEdgeFacts ==
  ASSUME NEW rspval, NEW invval, MoveEdge(rspval, invval)
  PROVE  /\ CycleContext(rspval) /\ MccCycleCases(rspval) /\ MccInvalInv(P)
         /\ MccRegsOK /\ MccServiceInv(P) /\ MccBufferInv(P) /\ MccFlightInv /\ TlbInv
         /\ TokenInv /\ MoveInv /\ CommandInv
         /\ holds' = holds /\ home' = home /\ listed' = listed /\ poisoned' = poisoned
         /\ move' = move /\ unsent' = unsent /\ awaited' = awaited /\ packet' = packet
         /\ TlbFills(rspval) \/ TlbResets(rspval) \/ TlbKeeps(rspval)
         /\ rspval \in BOOLEAN
<1>1. MccEdge(rspval, invval)
  BY DEF MoveEdge
<1>2. CycleContext(rspval) /\ MccCycleCases(rspval)
  BY <1>1, MccCycleInv
<1>3. TlbFills(rspval) \/ TlbResets(rspval) \/ TlbKeeps(rspval)
  BY <1>2 DEF CycleContext, MccCycleEffects
<1> QED BY <1>1, <1>2, <1>3 DEF MoveEdge, MccEdge, MccCacheInv, memVars, moveVars

(* An exchange that makes no step.                                         *)
LEMMA MoveUnchanged ==
  ASSUME MoveInv, holds' = holds, home' = home, listed' = listed, poisoned' = poisoned,
         move' = move, awaited' = awaited
  PROVE  MoveInv' /\ Moving' = Moving
<1>1. Moving' = Moving
  BY DEF Moving
<1>2. \A f : Partner(f)' = Partner(f)
  BY DEF Partner
<1>3. \A v : Undecided(v)' <=> Undecided(v)
  BY DEF Undecided
<1> QED BY <1>1, <1>2, <1>3 DEF MoveInv

(* A cycle of the cache neither loses nor doubles a token.                 *)
LEMMA TokenCycle ==
  ASSUME NEW rspval, NEW invval, MoveEdge(rspval, invval)
  PROVE  TokenInv'
<1>1. /\ CycleContext(rspval) /\ MccCycleCases(rspval) /\ MccInvalInv(P)
      /\ TokenInv /\ MoveInv /\ MccServiceInv(P) /\ MccRegsOK
      /\ holds' = holds /\ move' = move /\ unsent' = unsent /\ awaited' = awaited
  BY MoveEdgeFacts
<1>2. Moving' = Moving
  BY <1>1 DEF Moving
<1>3. ASSUME NEW v \in Pages
      PROVE  /\ InvSent(v)' => v \in awaited' \ unsent'
             /\ ti'[P].inv0 = v => v \in awaited' \ unsent' /\ ~InvSent(v)'
             /\ ti'[P].inv1 = v => v \in awaited' \ unsent' /\ ~InvSent(v)' /\ ti'[P].inv0 # v
             /\ AckDue(v)' => v \in awaited' \ unsent' /\ ~InvSent(v)'
                              /\ ti'[P].inv0 # v /\ ti'[P].inv1 # v
    <2>1. TokensMove(v)
      BY <1>1, TokensAfter
    <2>2. /\ InvSent(v) => v \in awaited \ unsent
          /\ ti[P].inv0 = v => v \in awaited \ unsent /\ ~InvSent(v)
          /\ ti[P].inv1 = v => v \in awaited \ unsent /\ ~InvSent(v) /\ ti[P].inv0 # v
          /\ AckDue(v) => v \in awaited \ unsent /\ ~InvSent(v) /\ ti[P].inv0 # v /\ ti[P].inv1 # v
      BY <1>1 DEF TokenInv
    <2>3. AckDue(v)' => IF rq[P].fsm = "REQ_TLB_INVAL" THEN v = ta'[P].page ELSE AckDue(v)
      BY <1>1, AckAfter
    <2>4. rq[P].fsm = "REQ_TLB_INVAL" => ta'[P].page \in {ti[P].inv0, ti[P].inv1}
      BY <1>1 DEF CycleContext, MccCycleEffects, TaEffect
    <2>5. v \in {ti'[P].inv0, ti'[P].inv1} => v \in awaited \ unsent /\ ~InvSent(v)'
      BY <2>1, <2>2 DEF TokensMove
    <2>6. AckDue(v)' => v \in awaited \ unsent /\ ~InvSent(v) /\ v \notin {ti'[P].inv0, ti'[P].inv1}
      BY <2>1, <2>2, <2>3, <2>4 DEF TokensMove
    <2> QED BY <1>1, <2>1, <2>2, <2>5, <2>6 DEF TokensMove
<1> QED BY <1>1, <1>2, <1>3 DEF TokenInv

(* A translation stays good, unless its invalidation is served.            *)
LEMMA TranslationStays ==
  ASSUME NEW rspval, NEW invval, MoveEdge(rspval, invval), NEW v, NEW f, TranslationOK(v, f)
  PROVE  TranslationOK(v, f)' \/ (rq[P].fsm = "REQ_TLB_INVAL" /\ v = ta'[P].page)
<1>1. /\ CycleContext(rspval) /\ MccInvalInv(P) /\ TokenInv /\ MoveInv
      /\ home' = home /\ listed' = listed /\ move' = move /\ unsent' = unsent
  BY MoveEdgeFacts
<1>2. v \in Pages
  BY MigrableAssumption DEF TranslationOK
<1>3. TokensMove(v)
  BY <1>1, <1>2, TokensAfter
<1>4. InvalidationDue(v) <=> v \in unsent \/ InvSent(v) \/ v \in {ti[P].inv0, ti[P].inv1}
  BY DEF InvalidationDue, InvSent
<1>5. InvalidationDue(v)' <=> v \in unsent' \/ InvSent(v)' \/ v \in {ti'[P].inv0, ti'[P].inv1}
  BY DEF InvalidationDue, InvSent
<1>6. InvalidationDue(v) => \/ InvalidationDue(v)'
                            \/ rq[P].fsm = "REQ_TLB_INVAL" /\ v = ta'[P].page
  BY <1>1, <1>3, <1>4, <1>5 DEF TokensMove
<1>7. Partner(home[v])' = Partner(home[v])
  BY <1>1 DEF Partner
<1> QED BY <1>1, <1>6, <1>7 DEF TranslationOK

(* A cycle of the cache leaves in the TLB only what may translate.         *)
LEMMA TlbCycle ==
  ASSUME NEW rspval, NEW invval, MoveEdge(rspval, invval)
  PROVE  TlbInv'
<1>1. /\ CycleContext(rspval) /\ MccCycleCases(rspval)
      /\ MccServiceInv(P) /\ MccRegsOK /\ TlbInv /\ MccFlightInv
      /\ TlbFills(rspval) \/ TlbResets(rspval) \/ TlbKeeps(rspval)
      /\ rspval \in BOOLEAN
  BY MoveEdgeFacts
<1>2. rspval => rsp[P] # NoCell
  BY <1>1 DEF CycleContext
<1>3. /\ \A i, j \in Entries : tlb[P][i].tag = tlb[P][j].tag /\ tlb[P][i].tag # NoPage => i = j
      /\ \A i \in Entries : tlb[P][i].tag # NoPage => TranslationOK(tlb[P][i].tag, tlb[P][i].frame)
  BY <1>1 DEF TlbInv
<1>4. /\ \A i, j \in Entries : tlb'[P][i].tag = tlb'[P][j].tag /\ tlb'[P][i].tag # NoPage => i = j
      /\ \A i \in Entries : tlb'[P][i].tag # NoPage =>
                              TranslationOK(tlb[P][i].tag, tlb[P][i].frame)'
  <2>1. CASE TlbFills(rspval)
    <3>1. /\ TlbAnswered(P, rspval) /\ rs[P].fsm \in TlbRspStates /\ rq[P].fsm # "REQ_TLB_INVAL"
      BY <1>1, <2>1 DEF TlbFills, TlbAnswered, TlbRspStates, MccServiceInv, TlbStates
    <3>2. TranslationOK(Page(MissedAddr(P)), FrameOf(rsp[P].data))
      BY <1>1, <1>2, <3>1, AnsweredFrame
    <3>3. ~TlbHit(tlb[P], MissedAddr(P))
      BY <1>1, <3>1 DEF MccServiceInv
    <3>4. \A i \in Entries : tlb[P][i].tag # Page(MissedAddr(P))
      BY <3>3 DEF TlbHit, Holding
    <3>5. PICK k \in Entries :
            /\ tlb'[P][k].tag = Page(MissedAddr(P)) /\ tlb'[P][k].frame = FrameOf(rsp[P].data)
            /\ \A i \in Entries \ {k} : tlb'[P][i] = tlb[P][i]
      BY <2>1 DEF TlbFills
    <3>6. \A i, j \in Entries : tlb'[P][i].tag = tlb'[P][j].tag /\ tlb'[P][i].tag # NoPage => i = j
      BY <1>3, <3>4, <3>5
    <3>7. ASSUME NEW i \in Entries, tlb'[P][i].tag # NoPage
          PROVE  TranslationOK(tlb[P][i].tag, tlb[P][i].frame)'
      <4>1. PICK v, f : v = tlb'[P][i].tag /\ f = tlb'[P][i].frame /\ TranslationOK(v, f)
        <5>1. CASE i = k
          BY <3>2, <3>5, <5>1
        <5>2. CASE i # k
          BY <1>3, <3>5, <3>7, <5>2
        <5> QED BY <5>1, <5>2
      <4>2. TranslationOK(v, f)'
        BY <3>1, <4>1, TranslationStays
      <4> QED BY <4>1, <4>2
    <3> QED BY <3>6, <3>7
  <2>2. CASE TlbResets(rspval)
    <3>1. rq[P].fsm = "REQ_TLB_INVAL" /\ tlb'[P] = ResetEntry(tlb[P], ta'[P].page)
      BY <2>2 DEF TlbResets
    <3>2. tlb[P] \in TlbType
      BY <1>1, MccRegTypes
    <3>3. ta'[P].page \in Pages
      <4>1. ta'[P].page = ti[P][Served(P)] /\ IsTlbInv(P)
        BY <1>1, <3>1, ServedPage DEF CycleContext, MccCycleEffects, TaEffect, MccServiceInv
      <4> QED BY <1>1, <4>1, ServedPage
    <3>4. /\ \A i \in Entries : tlb'[P][i] = tlb[P][i] \/ tlb'[P][i].tag = NoPage
          /\ \A i \in Entries : tlb'[P][i].tag # ta'[P].page
      BY <1>3, <3>1, <3>2, <3>3, ResetFacts
    <3>5. \A i, j \in Entries : tlb'[P][i].tag = tlb'[P][j].tag /\ tlb'[P][i].tag # NoPage => i = j
      BY <1>3, <3>4
    <3>6. ASSUME NEW i \in Entries, tlb'[P][i].tag # NoPage
          PROVE  TranslationOK(tlb[P][i].tag, tlb[P][i].frame)'
      <4>1. PICK v, f : v = tlb'[P][i].tag /\ f = tlb'[P][i].frame /\ TranslationOK(v, f)
        BY <1>3, <3>4, <3>6
      <4>2. TranslationOK(v, f)'
        BY <3>4, <4>1, TranslationStays
      <4> QED BY <4>1, <4>2
    <3> QED BY <3>5, <3>6
  <2>3. CASE TlbKeeps(rspval)
    <3>1. tlb'[P] = tlb[P] /\ rq[P].fsm # "REQ_TLB_INVAL"
      BY <2>3 DEF TlbKeeps
    <3>2. ASSUME NEW i \in Entries, tlb'[P][i].tag # NoPage
          PROVE  TranslationOK(tlb[P][i].tag, tlb[P][i].frame)'
      <4>1. PICK v, f : v = tlb'[P][i].tag /\ f = tlb'[P][i].frame /\ TranslationOK(v, f)
        BY <1>3, <3>1, <3>2
      <4>2. TranslationOK(v, f)'
        BY <3>1, <4>1, TranslationStays
      <4> QED BY <4>1, <4>2
    <3> QED BY <1>3, <3>1, <3>2
  <2> QED BY <1>1, <2>1, <2>2, <2>3
<1>5. ASSUME TlbAnswer'
      PROVE  TranslationOK(Page(MissedAddr(P)), FrameOf(rsp[P].data))'
  <2>1. rs'[P].fsm \in TlbRspStates /\ rsp'[P] # NoCell /\ ~rsp'[P].error
    BY <1>5 DEF TlbAnswer
  <2>2. /\ rs[P].fsm = rs'[P].fsm /\ rs'[P].cpt = rs[P].cpt /\ rsp' = rsp /\ cmd' = cmd /\ SameVa
    <3>1. DataRspState(P) \notin TlbRspStates
      BY DEF DataRspState, TlbRspStates
    <3>2. rs[P].fsm = "RSP_IDLE" \/ rq[P].fsm \in SendStates => rsp[P] = NoCell
      BY <1>1 DEF MccFlightInv, MccNothing
    <3>3. ~CycleIssues
      BY <2>1, <3>2 DEF CycleIssues, Issues, Ready, MccRspStarts
    <3>4. ~CycleServes /\ ~CycleDrops
      BY <2>1 DEF CycleServes, CycleDrops, MccRspClears, MccRspServesAck, TlbRspStates
    <3>5. CASE CycleSends(rspval)
      <4>1. rs'[P].fsm = rs[P].fsm /\ rsp' = rsp /\ rs'[P].cpt = rs[P].cpt
        BY <3>5 DEF CycleSends, MccRspKeeps
      <4>2. rq[P].fsm \notin SendStates
        BY <2>1, <3>2, <4>1
      <4>3. rs[P].fsm \notin TlbRspStates
        BY <1>1, <3>5, <4>2 DEF CycleSends, MccServiceInv, TlbRspStates, SendStates, TlbStates
      <4> QED BY <2>1, <4>1, <4>3
    <3>6. CASE CycleListens(rspval) \/ CycleWaits(rspval)
      <4>1. MccRspTakes(rspval) /\ cmd' = cmd /\ SameVa
        BY <3>6 DEF CycleListens, CycleWaits, MccReqKeeps, MccReqEnds
      <4>2. MccRspKeeps(rspval)
        BY <2>1, <4>1 DEF MccRspTakes, MccRspTakesTlb, RspTakesLineCell, RspTakesOneCell,
           TlbRspStates
      <4> QED BY <4>1, <4>2 DEF MccRspKeeps
    <3> QED BY <1>1, <3>3, <3>4, <3>5, <3>6 DEF MccCycleCases
  <2>3. rs[P].fsm # "RSP_IDLE"
    BY <2>1, <2>2 DEF TlbRspStates
  <2>4. MissedAddr(P)' = MissedAddr(P)
    BY <1>1, <2>1, <2>2, <2>3, AskedStays
  <2>5. PICK v, f : v = Page(MissedAddr(P)) /\ f = FrameOf(rsp[P].data) /\ TranslationOK(v, f)
    BY <1>1, <2>1, <2>2 DEF TlbInv, TlbAnswer
  <2>6. rq[P].fsm # "REQ_TLB_INVAL"
    BY <1>1, <2>3 DEF MccServiceInv
  <2>7. TranslationOK(v, f)'
    BY <2>5, <2>6, TranslationStays
  <2> QED BY <2>2, <2>4, <2>5, <2>7
<1> QED BY <1>4, <1>5 DEF TlbInv

(* A command about data names the frame that a translation gives.          *)
Translated(t, v, a) ==
  IF v \in Migrable
  THEN \E i \in Entries : t[i].tag = v /\ t[i].frame = Page(a)
  ELSE Page(a) = v

(* A lookup translates the address, and the line that it is in.            *)
LEMMA TranslatedHit ==
  ASSUME NEW t \in TlbType, NEW a \in Addr, TlbHit(t, a)
  PROVE  /\ Translated(t, Page(a), Translate(t, a))
         /\ Translated(t, Page(a), Base(Block(Translate(t, a))))
<1>1. /\ Translate(t, a) \in Addr
      /\ Page(a) \notin Migrable => Translate(t, a) = a
      /\ Page(a) \in Migrable =>
           \E i \in Entries : t[i].tag = Page(a) /\ t[i].frame = Page(Translate(t, a))
  BY TranslateFacts
<1>2. Page(Base(Block(Translate(t, a)))) = Page(Translate(t, a))
  BY <1>1, LinesInPagesAssumption
<1> QED BY <1>1, <1>2 DEF Translated

(* What REQ_FSM sends is translated with the TLB as it is.                 *)
LEMMA SentTranslated ==
  ASSUME MccRegsOK, MccServiceInv(P), MccBufferInv(P), rq[P].fsm \in SendStates \cup {"REQ_WRITE"},
         CommandName \in DataCommands
  PROVE  Translated(tlb[P], CommandPage, MccCommandAddr)
<1>1. /\ rq[P].fsm \in DataCellStates \cup {"REQ_WRITE", "REQ_IMISS"}
      /\ rq[P].fsm \notin TlbStates
  BY DEF CommandName, DataCommands, SendStates, TlbStates, DataCellStates
<1>2. tlb[P] \in TlbType
  BY MccRegTypes
<1>3. CASE rq[P].fsm = "REQ_IMISS"
  <2>1. TlbHit(tlb[P], ic[P].addr) /\ va[P].inst = Translate(tlb[P], ic[P].addr)
    BY <1>3 DEF MccServiceInv
  <2>2. ic[P].addr \in Addr
    BY MccAddrs
  <2>3. Translated(tlb[P], Page(ic[P].addr), Base(Block(Translate(tlb[P], ic[P].addr))))
    BY <1>2, <2>1, <2>2, TranslatedHit
  <2>4. MccCommandAddr = Base(Block(va[P].inst)) /\ CommandPage = Page(ic[P].addr)
    BY <1>1, <1>3 DEF MccCommandAddr, CommandPage
  <2> QED BY <2>1, <2>3, <2>4
<1>4. CASE rq[P].fsm \in DataCellStates \cup {"REQ_WRITE"}
  <2>1. PICK a \in Addr : TranslatesData(P, a)
    <3>1. CASE rq[P].fsm \in DataCellStates
      <4>1. TranslatesData(P, dc[P].addr)
        BY <3>1 DEF MccServiceInv
      <4>2. dc[P].addr \in Addr
        BY MccAddrs
      <4> QED BY <4>1, <4>2
    <3>2. CASE rq[P].fsm = "REQ_WRITE"
      <4>1. TranslatesData(P, wb[P].cells[wb[P].ptr].addr)
        BY <3>2 DEF MccBufferInv
      <4>2. TranslatesData(P, va[P].data)
        BY <4>1 DEF TranslatesData
      <4>3. va[P].data \in Addr
        BY MccAddrs
      <4> QED BY <4>2, <4>3
    <3> QED BY <1>4, <3>1, <3>2
  <2>2. TlbHit(tlb[P], a) /\ va[P].data = a /\ rq[P].addr = Translate(tlb[P], a)
    BY <2>1 DEF TranslatesData
  <2>3. CommandPage = Page(a)
    BY <1>1, <1>4, <2>2 DEF CommandPage, DataCellStates
  <2>4. MccCommandAddr \in {Translate(tlb[P], a), Base(Block(Translate(tlb[P], a)))}
    BY <1>1, <1>4, <2>2 DEF MccCommandAddr, DataCellStates, OneCellStates, TlbStates
  <2> QED BY <1>2, <2>2, <2>3, <2>4, TranslatedHit
<1> QED BY <1>1, <1>3, <1>4

(* A command about data is not overtaken by the reset of its translation.  *)
LEMMA CommandCycle ==
  ASSUME NEW rspval, NEW invval, MoveEdge(rspval, invval)
  PROVE  CommandInv'
<1>1. /\ CycleContext(rspval) /\ MccCycleCases(rspval)
      /\ MccServiceInv(P) /\ MccBufferInv(P) /\ MccRegsOK /\ MccFlightInv /\ CommandInv
      /\ TlbFills(rspval) \/ TlbResets(rspval) \/ TlbKeeps(rspval)
      /\ rspval \in BOOLEAN
  BY MoveEdgeFacts
<1> SUFFICES ASSUME cmd'[P] # NoCell, cmd'[P].cmd \in DataCommands
             PROVE  Translated(tlb'[P], cmd'[P].page, cmd'[P].addr)
  BY DEF CommandInv, Translated
<1>2. CASE cmd' = cmd
  <2>1. Translated(tlb[P], cmd[P].page, cmd[P].addr) /\ Asked
    BY <1>1, <1>2 DEF CommandInv, Translated, MccFlightInv
  <2>2. rs[P].fsm # "RSP_IDLE" /\ rs[P].fsm \notin TlbRspStates
    BY <1>2, <2>1 DEF Asked, DataCommands
  <2>3. rq[P].fsm # "REQ_TLB_INVAL"
    BY <1>1, <2>2 DEF MccServiceInv
  <2>4. tlb'[P] = tlb[P]
    BY <1>1, <2>2, <2>3 DEF TlbFills, TlbResets, TlbKeeps, TlbAnswered, TlbRspStates
  <2> QED BY <1>2, <2>1, <2>4
<1>3. CASE cmd' # cmd
  <2>1. CycleSends(rspval) /\ (MccReqSends \/ MccReqSendsStore)
    BY <1>1, <1>3 DEF MccCycleCases, CycleIssues, CycleServes, CycleListens, CycleDrops, CycleSends,
       CycleWaits, MccReqKeeps, MccReqEnds, MccReqServes, MccReqDrops, MccReqStartsData,
       MccReqStartsWrite, MccReqStartsInst, MccReqStartsNone
  <2>2. /\ rq[P].fsm \in SendStates \cup {"REQ_WRITE"} /\ ~rspval
        /\ cmd' = [cmd EXCEPT ![P] = MccCommandCell(P)]
    BY <2>1 DEF CycleSends, MccReqSends, MccReqSendsStore
  <2>3. cmd'[P] = MccCommandCell(P)
    BY <1>1, <2>2, PIsCache DEF MccRegsOK
  <2>4. CommandFields(MccCommandCell(P))
    BY <1>1, <2>2, MccCommandFacts
  <2>5. /\ cmd'[P].addr = MccCommandAddr /\ cmd'[P].page = CommandPage
        /\ CommandName \in DataCommands
    BY <2>3, <2>4 DEF CommandFields
  <2>6. tlb'[P] = tlb[P]
    <3>1. rq[P].fsm # "REQ_TLB_INVAL"
      BY <2>2 DEF SendStates, OneCellStates, TlbStates
    <3> QED BY <1>1, <2>2, <3>1 DEF TlbFills, TlbResets, TlbKeeps, TlbAnswered
  <2>7. Translated(tlb[P], CommandPage, MccCommandAddr)
    BY <1>1, <2>2, <2>5, SentTranslated
  <2> QED BY <2>5, <2>6, <2>7
<1> QED BY <1>2, <1>3

(* A rising edge of the clock preserves the invariant.                     *)
LEMMA MccInvCycle ==
  ASSUME MccInv, CacheStep
  PROVE  MccInv'
<1>1. PICK rspval \in BOOLEAN, invval \in BOOLEAN : MccCacheCycle(P, rspval, invval)
  BY DEF CacheStep
<1>2. MoveEdge(rspval, invval) /\ MccEdge(rspval, invval)
  BY <1>1 DEF MoveEdge, MccEdge, MccInv, CacheStep
<1>3. UNCHANGED memVars
  BY <1>2 DEF MoveEdge, memVars
<1>4. MccRegsOK' /\ MccCacheInv(P)' /\ MccFlightInv'
  BY <1>2, <1>3, MccCycleInv, MccCycleTypes, MccFlightCycle
<1>5. TlbInv' /\ CommandInv' /\ TokenInv'
  BY <1>2, TlbCycle, CommandCycle, TokenCycle
<1>6. MoveInv'
  BY <1>2, MoveEdgeFacts, MoveUnchanged
<1> QED BY <1>4, <1>5, <1>6 DEF MccInv

-----------------------------------------------------------------------------
(* The steps of the processor and of the memories.                         *)

(* No register of the cache changes.                                       *)
CacheKept == UNCHANGED <<dc, tag, line, dm, wb, ic, itag, rq, rs, iv, tlb, va, ti, ta>>

(* The registers of the cache, between two edges.                          *)
LEMMA CacheKeeps ==
  ASSUME CacheKept, MccCacheInv(P), MccInvalInv(P)'
  PROVE  MccCacheInv(P)'
<1>1. /\ dc' = dc /\ dm' = dm /\ wb' = wb /\ ic' = ic /\ rq' = rq /\ rs' = rs
      /\ tlb' = tlb /\ va' = va /\ ti' = ti /\ ta' = ta
  BY DEF CacheKept
<1>2. RequestInv(P)'
  BY <1>1 DEF MccCacheInv, RequestInv, Waiting
<1>3. MccServiceInv(P)'
  <2>1. DataReqState(P)' = DataReqState(P) /\ DataRspState(P)' = DataRspState(P)
    BY <1>1, Zenon DEF DataReqState, DataRspState
  <2>2. MissedAddr(P)' = MissedAddr(P) /\ IsTlbInv(P)' = IsTlbInv(P) /\ Ready(P)' = Ready(P)
    BY <1>1 DEF MissedAddr, IsTlbInv, Ready
  <2>3. TranslatesData(P, dc[P].addr)' <=> TranslatesData(P, dc[P].addr)
    BY <1>1 DEF TranslatesData
  <2> QED BY <1>1, <2>1, <2>2, <2>3 DEF MccCacheInv, MccServiceInv
<1>4. MccBufferInv(P)' /\ ContiguousInv(P)' /\ OnePageInv(P)'
  BY <1>1 DEF MccCacheInv, MccBufferInv, ContiguousInv, OnePageInv, TranslatesData
<1> QED BY <1>2, <1>3, <1>4 DEF MccCacheInv

(* The types, between two edges.                                           *)
LEMMA RegsKeep ==
  ASSUME CacheKept, MccRegsOK,
         cpu' \in [Procs -> DataReq \cup {NoReq}], fetch' \in [Procs -> Addr \cup {NoReq}],
         cmd' \in [Srcs -> MccCmdCell \cup {NoCell}], rsp' \in [Srcs -> RspCell \cup {NoCell}],
         invCmd' \in [Procs -> MccInvCell \cup {NoBlock}], invRsp' \in [Procs -> BOOLEAN],
         memory' \in [Addr -> Word],
         packet' \in [addr : Nat, left : Nat, written : Seq(StoreCell)],
         packet'.addr + packet'.left <= NbWords
  PROVE  MccRegsOK'
BY DEF CacheKept, MccRegsOK, DataRegsOK, MccTypeOK

(* A step that leaves the cells under way alone.                           *)
LEMMA FlightKept ==
  ASSUME CacheKept, UNCHANGED <<cmd, rsp, packet>>, MccFlightInv
  PROVE  MccFlightInv'
<1>1. Asked' <=> Asked
  BY DEF CacheKept, Asked, MissedAddr
<1>2. MccNothing' <=> MccNothing
  BY DEF MccNothing
<1>3. MccArrived' = MccArrived
  BY DEF MccArrived
<1> QED BY <1>1, <1>2, <1>3 DEF CacheKept, MccFlightInv

(* A step that leaves alone all that the exchange is about.                *)
TokensKept ==
  /\ tlb' = tlb /\ rs' = rs /\ va' = va /\ ic' = ic /\ ti' = ti /\ ta' = ta
  /\ UNCHANGED <<holds, home, poisoned, move, unsent, awaited>>
  /\ \A v \in Pages : InvSent(v)' <=> InvSent(v)

(* A translation stays good ...                                            *)
LEMMA TranslationKept ==
  ASSUME TokensKept, listed \subseteq listed', NEW v, NEW f, TranslationOK(v, f)
  PROVE  TranslationOK(v, f)'
<1>1. v \in Pages
  BY MigrableAssumption DEF TranslationOK
<1>2. InvalidationDue(v) <=> v \in unsent \/ InvSent(v) \/ v \in {ti[P].inv0, ti[P].inv1}
  BY DEF InvalidationDue, InvSent
<1>3. InvalidationDue(v)' <=> v \in unsent' \/ InvSent(v)' \/ v \in {ti'[P].inv0, ti'[P].inv1}
  BY DEF InvalidationDue, InvSent
<1>4. InvalidationDue(v)' <=> InvalidationDue(v)
  BY <1>1, <1>2, <1>3 DEF TokensKept
<1>5. Partner(home[v])' = Partner(home[v])
  BY DEF Partner, TokensKept
<1> QED BY <1>4, <1>5 DEF TranslationOK, TokensKept

(* ... and with it the TLB,                                                *)
LEMMA TlbKept ==
  ASSUME TlbInv, tlb' = tlb,
         \A v, f : TranslationOK(v, f) => TranslationOK(v, f)',
         TlbAnswer' => \/ /\ TlbAnswer /\ rsp' = rsp
                          /\ MissedAddr(P)' = MissedAddr(P)
                       \/ TranslationOK(Page(MissedAddr(P)), FrameOf(rsp[P].data))'
  PROVE  TlbInv'
<1>1. ASSUME NEW i \in Entries, tlb[P][i].tag # NoPage
      PROVE  TranslationOK(tlb[P][i].tag, tlb[P][i].frame)'
  <2>1. PICK v, f : v = tlb[P][i].tag /\ f = tlb[P][i].frame /\ TranslationOK(v, f)
    BY <1>1 DEF TlbInv
  <2>2. TranslationOK(v, f)'
    BY <2>1
  <2> QED BY <2>1, <2>2
<1>2. ASSUME TlbAnswer'
      PROVE  TranslationOK(Page(MissedAddr(P)), FrameOf(rsp[P].data))'
  <2>1. CASE TlbAnswer /\ rsp' = rsp /\ MissedAddr(P)' = MissedAddr(P)
    <3>1. PICK v, f : v = Page(MissedAddr(P)) /\ f = FrameOf(rsp[P].data) /\ TranslationOK(v, f)
      BY <2>1 DEF TlbInv
    <3>2. TranslationOK(v, f)'
      BY <3>1
    <3> QED BY <2>1, <3>1, <3>2
  <2> QED BY <1>2, <2>1
<1> QED BY <1>1, <1>2 DEF TlbInv

(* the tokens,                                                             *)
LEMMA TokenKept ==
  ASSUME TokensKept, TokenInv, \A v \in Pages : AckDue(v)' => AckDue(v)
  PROVE  TokenInv'
<1>1. Moving' = Moving
  BY DEF Moving, TokensKept
<1> QED BY <1>1 DEF TokenInv, TokensKept

(* and the command.                                                        *)
LEMMA CommandKept ==
  ASSUME CommandInv, tlb' = tlb, cmd' = cmd \/ cmd'[P] = NoCell
  PROVE  CommandInv'
BY DEF CommandInv

(* A step that is of no interest to the invariant but for its types.       *)
LEMMA Indifferent ==
  ASSUME MccInv, CacheKept, MccRegsOK', MccInvalInv(P)',
         UNCHANGED <<cmd, rsp, packet, holds, home, listed, poisoned, move, unsent, awaited>>,
         \A v \in Pages : InvSent(v)' <=> InvSent(v)
  PROVE  MccInv'
<1>1. TokensKept
  BY DEF TokensKept, CacheKept
<1>2. MccCacheInv(P)' /\ MccFlightInv'
  BY CacheKeeps, FlightKept DEF MccInv
<1>3. TlbInv'
  <2>1. \A v, f : TranslationOK(v, f) => TranslationOK(v, f)'
    BY <1>1, TranslationKept
  <2>2. TlbAnswer' => TlbAnswer /\ rsp' = rsp /\ MissedAddr(P)' = MissedAddr(P)
    BY DEF TlbAnswer, MissedAddr, CacheKept
  <2> QED BY <2>1, <2>2, TlbKept DEF MccInv, CacheKept
<1>4. TokenInv'
  <2>1. \A v \in Pages : AckDue(v)' => AckDue(v)
    BY DEF AckDue, CacheKept
  <2> QED BY <1>1, <2>1, TokenKept DEF MccInv
<1>5. CommandInv'
  BY CommandKept DEF MccInv, CacheKept
<1>6. MoveInv'
  BY MoveUnchanged DEF MccInv
<1> QED BY <1>2, <1>3, <1>4, <1>5, <1>6 DEF MccInv

(* The processor asks for a word.                                          *)
LEMMA CpuRequestKeeps == ASSUME MccInv, CpuRequest PROVE MccInv'
<1>1. CacheKept
  BY DEF CpuRequest, CacheKept, tlbVars
<1>2. /\ UNCHANGED <<cmd, rsp, packet, holds, home, listed, poisoned, move, unsent, awaited>>
      /\ UNCHANGED <<fetch, invCmd, invRsp, memory>>
  BY DEF CpuRequest, nocVars, memVars, moveVars
<1>3. MccInvalInv(P)'
  BY <1>1, <1>2 DEF MccInv, MccCacheInv, MccInvalInv, CacheKept
<1>4. \A v \in Pages : InvSent(v)' <=> InvSent(v)
  BY <1>2 DEF InvSent
<1>5. cpu' \in [Procs -> DataReq \cup {NoReq}]
  <2>1. PICK t \in types \cap DataTypes, a \in Addr :
          \E d \in IF t = "DATA_WRITE" THEN {[l \in Lanes |-> v] : v \in Stored} ELSE {Zero} :
            cpu' = [cpu EXCEPT ![P] = [type |-> t, addr |-> a, data |-> d, be |-> Lanes]]
    BY DEF CpuRequest
  <2>2. PICK d \in IF t = "DATA_WRITE" THEN {[l \in Lanes |-> v] : v \in Stored} ELSE {Zero} :
          cpu' = [cpu EXCEPT ![P] = [type |-> t, addr |-> a, data |-> d, be |-> Lanes]]
    BY <2>1
  <2>3. d \in Word
    <3>1. CASE t = "DATA_WRITE"
      <4>1. PICK v \in Stored : d = [l \in Lanes |-> v]
        BY <2>2, <3>1
      <4> QED BY <4>1, FetchedAssumption DEF Word
    <3>2. CASE t # "DATA_WRITE"
      BY <2>2, <3>2, ValAssumption DEF Word, Zero
    <3> QED BY <3>1, <3>2
  <2>4. Lanes \in (SUBSET Lanes) \ {{}}
    BY LanesAssumption
  <2>5. [type |-> t, addr |-> a, data |-> d, be |-> Lanes] \in DataReq
    BY <2>3, <2>4 DEF DataReq
  <2> QED BY <2>2, <2>5 DEF MccInv, MccRegsOK, DataRegsOK
<1>6. MccRegsOK'
  BY <1>1, <1>2, <1>5, RegsKeep DEF MccInv, MccRegsOK, DataRegsOK
<1> QED BY <1>1, <1>2, <1>3, <1>4, <1>6, Indifferent

(* The processor asks for an instruction.                                  *)
LEMMA FetchRequestKeeps == ASSUME MccInv, FetchRequest PROVE MccInv'
<1>1. CacheKept
  BY DEF FetchRequest, CacheKept, tlbVars
<1>2. /\ UNCHANGED <<cmd, rsp, packet, holds, home, listed, poisoned, move, unsent, awaited>>
      /\ UNCHANGED <<cpu, invCmd, invRsp, memory>>
  BY DEF FetchRequest, nocVars, memVars, moveVars
<1>3. MccInvalInv(P)'
  BY <1>1, <1>2 DEF MccInv, MccCacheInv, MccInvalInv, CacheKept
<1>4. \A v \in Pages : InvSent(v)' <=> InvSent(v)
  BY <1>2 DEF InvSent
<1>5. fetch' \in [Procs -> Addr \cup {NoReq}]
  BY FetchedAssumption DEF FetchRequest, MccInv, MccRegsOK, DataRegsOK
<1>6. MccRegsOK'
  BY <1>1, <1>2, <1>5, RegsKeep DEF MccInv, MccRegsOK, DataRegsOK
<1> QED BY <1>1, <1>2, <1>3, <1>4, <1>6, Indifferent

(* The network takes the acknowledgement of a line.                        *)
LEMMA MemTakeAckKeeps == ASSUME MccInv, MemTakeAck PROVE MccInv'
<1>1. CacheKept
  BY DEF MemTakeAck, CacheKept, tlbVars, cacheVars
<1>2. /\ UNCHANGED <<cmd, rsp, packet, holds, home, listed, poisoned, move, unsent, awaited>>
      /\ UNCHANGED <<cpu, fetch, invCmd, memory>>
  BY DEF MemTakeAck, cacheVars, memVars, moveVars
<1>3. MccInvalInv(P)'
  BY <1>1, <1>2 DEF MccInv, MccCacheInv, MccInvalInv, CacheKept
<1>4. \A v \in Pages : InvSent(v)' <=> InvSent(v)
  BY <1>2 DEF InvSent
<1>5. invRsp' \in [Procs -> BOOLEAN]
  BY DEF MemTakeAck, MccInv, MccRegsOK
<1>6. MccRegsOK'
  BY <1>1, <1>2, <1>5, RegsKeep DEF MccInv, MccRegsOK, DataRegsOK
<1> QED BY <1>1, <1>2, <1>3, <1>4, <1>6, Indifferent

(* An invalidation is sent where none is under way.                        *)
LEMMA InvalSent ==
  ASSUME MccInv, NEW t \in BOOLEAN, NEW b, SendInval(t, b),
         [tlb |-> t, what |-> b] \in MccInvCell
  PROVE  /\ CacheKept /\ MccRegsOK' /\ MccInvalInv(P)'
         /\ UNCHANGED <<cmd, rsp, packet, holds, home, listed, poisoned, move, awaited>>
         /\ \A v \in Pages : ~InvSent(v)
         /\ \A v \in Pages : InvSent(v)' <=> t /\ v = b
<1>1. CacheKept
  BY DEF SendInval, CacheKept, tlbVars, cacheVars
<1>2. /\ UNCHANGED <<cmd, rsp, packet, holds, home, listed, poisoned, move, awaited>>
      /\ UNCHANGED <<cpu, fetch, invRsp, memory>>
      /\ invCmd[P] = NoBlock /\ invCmd' = [invCmd EXCEPT ![P] = [tlb |-> t, what |-> b]]
  BY DEF SendInval, cacheVars, memVars
<1>3. MccInvalInv(P)'
  BY <1>1, <1>2 DEF MccInv, MccCacheInv, MccInvalInv, CacheKept
<1> DEFINE c == [tlb |-> t, what |-> b]
<1>4. invCmd'[P] = c /\ invCmd' \in [Procs -> MccInvCell \cup {NoBlock}]
  BY <1>2, PIsCache DEF MccInv, MccRegsOK
<1>5. c # NoBlock /\ c.tlb = t /\ c.what = b
  BY MccCellsAssumption
<1>6. MccRegsOK'
  BY <1>1, <1>2, <1>4, RegsKeep DEF MccInv, MccRegsOK, DataRegsOK
<1> HIDE DEF c
<1>7. \A v \in Pages : ~InvSent(v) /\ (InvSent(v)' <=> t /\ v = b)
  BY <1>2, <1>4, <1>5 DEF InvSent
<1> QED BY <1>1, <1>2, <1>3, <1>6, <1>7

(* A line is invalidated.                                                  *)
LEMMA MemInvalKeeps == ASSUME MccInv, MemInval PROVE MccInv'
<1>1. PICK b \in Blocks : SendInval(FALSE, b) /\ unsent' = unsent
  BY DEF MemInval
<1>2. [tlb |-> FALSE, what |-> b] \in MccInvCell
  BY DEF MccInvCell
<1>3. /\ CacheKept /\ MccRegsOK' /\ MccInvalInv(P)'
      /\ UNCHANGED <<cmd, rsp, packet, holds, home, listed, poisoned, move, awaited>>
      /\ \A v \in Pages : ~InvSent(v)
      /\ \A v \in Pages : InvSent(v)' <=> FALSE /\ v = b
  BY <1>1, <1>2, InvalSent
<1> QED BY <1>1, <1>3, Indifferent

(* The invalidation of a translation leaves the home.                      *)
LEMMA SendTlbInvalKeeps == ASSUME MccInv, SendTlbInval PROVE MccInv'
<1>1. PICK w \in unsent : SendInval(TRUE, w) /\ unsent' = unsent \ {w}
  BY DEF SendTlbInval
<1>2. w \in awaited /\ w \in Pages
  <2>1. w \in Moving
    BY <1>1 DEF MccInv, TokenInv
  <2>2. move.frames \subseteq Pages
    BY MigrableAssumption DEF MccInv, MoveInv
  <2> QED BY <1>1, <2>1, <2>2 DEF MccInv, TokenInv, Moving, MoveInv
<1>3. [tlb |-> TRUE, what |-> w] \in MccInvCell
  BY <1>2 DEF MccInvCell
<1>4. /\ CacheKept /\ MccRegsOK' /\ MccInvalInv(P)'
      /\ UNCHANGED <<cmd, rsp, packet, holds, home, listed, poisoned, move, awaited>>
      /\ \A v \in Pages : ~InvSent(v)
      /\ \A v \in Pages : InvSent(v)' <=> TRUE /\ v = w
  BY <1>1, <1>3, InvalSent
<1>5. MccCacheInv(P)' /\ MccFlightInv'
  BY <1>4, CacheKeeps, FlightKept DEF MccInv
<1>6. \A v, f : TranslationOK(v, f) => TranslationOK(v, f)'
  <2> TAKE v, f
  <2> SUFFICES ASSUME TranslationOK(v, f) PROVE TranslationOK(v, f)'
    OBVIOUS
  <2>1. v \in Pages
    BY MigrableAssumption DEF TranslationOK
  <2>2. InvalidationDue(v) <=> v \in unsent \/ InvSent(v) \/ v \in {ti[P].inv0, ti[P].inv1}
    BY DEF InvalidationDue, InvSent
  <2>3. InvalidationDue(v)' <=> v \in unsent' \/ InvSent(v)' \/ v \in {ti'[P].inv0, ti'[P].inv1}
    BY DEF InvalidationDue, InvSent
  <2>4. InvalidationDue(v) => InvalidationDue(v)'
    BY <1>1, <1>4, <2>1, <2>2, <2>3 DEF CacheKept
  <2>5. Partner(home[v])' = Partner(home[v])
    BY <1>4 DEF Partner
  <2> QED BY <1>4, <2>4, <2>5 DEF TranslationOK
<1>7. TlbInv'
  <2>1. TlbAnswer' => TlbAnswer /\ rsp' = rsp /\ MissedAddr(P)' = MissedAddr(P)
    BY <1>4 DEF TlbAnswer, MissedAddr, CacheKept
  <2> QED BY <1>4, <1>6, <2>1, TlbKept DEF MccInv, CacheKept
<1>8. TokenInv'
  <2>1. Moving' = Moving
    BY <1>4 DEF Moving
  <2>2. \A v \in Pages : AckDue(v)' <=> AckDue(v)
    BY <1>4 DEF AckDue, CacheKept
  <2>3. ti' = ti
    BY <1>4 DEF CacheKept
  <2> QED BY <1>1, <1>2, <1>4, <2>1, <2>2, <2>3 DEF MccInv, TokenInv
<1>9. CommandInv' /\ MoveInv'
  BY <1>4, CommandKept, MoveUnchanged DEF MccInv, CacheKept
<1> QED BY <1>4, <1>5, <1>7, <1>8, <1>9 DEF MccInv

(* What a memory that takes a command knows of the cache.                  *)
TakenCommand(cmds) ==
  /\ cmd[P] # NoCell /\ cmd[P].cmd \in cmds /\ cmd'[P] = NoCell
  /\ cmd' \in [Srcs -> MccCmdCell \cup {NoCell}]
  /\ cmd[P] \in MccCmdCell
  /\ rsp[P] = NoCell /\ packet.left = 0 /\ Asked
  /\ cmd[P].cmd # "WRITE" => packet = NoPacket
  /\ rq[P].fsm \notin SendStates \cup {"REQ_TLB_INVAL"}
  /\ rq[P].fsm = "REQ_WRITE" => rs[P].fsm = "RSP_WRITE" /\ ~cmd[P].eop
  /\ rq[P].fsm = "REQ_DWAIT" => cmd[P].eop
  /\ rs[P].fsm \in MccRspStates /\ rq[P].fsm \in MccReqStates

(* What is known when a memory takes a command.                            *)
LEMMA TakenFacts ==
  ASSUME MccInv, NEW cmds, TakeCommand(cmds)
  PROVE  TakenCommand(cmds)
<1>1. MccRegsOK /\ MccFlightInv /\ MccServiceInv(P) /\ RequestInv(P)
  BY DEF MccInv, MccCacheInv
<1>2. cmd[P] # NoCell /\ cmd[P].cmd \in cmds /\ cmd' = [cmd EXCEPT ![P] = NoCell]
  BY DEF TakeCommand
<1>3. /\ cmd'[P] = NoCell /\ cmd' \in [Srcs -> MccCmdCell \cup {NoCell}]
      /\ cmd[P] \in MccCmdCell
  BY <1>1, <1>2, PIsCache, MccRegTypes DEF MccRegsOK
<1>4. /\ rsp[P] = NoCell /\ packet.left = 0 /\ Asked
      /\ cmd[P].cmd # "WRITE" => packet = NoPacket
      /\ rq[P].fsm \notin SendStates /\ rs[P].fsm # "RSP_IDLE"
      /\ rq[P].fsm = "REQ_WRITE" => ~cmd[P].eop
      /\ rq[P].fsm = "REQ_DWAIT" => cmd[P].eop
  BY <1>1, <1>2 DEF MccFlightInv, MccNothing
<1>5. rq[P].fsm # "REQ_TLB_INVAL"
  BY <1>1, <1>4 DEF MccServiceInv
<1>6. rq[P].fsm = "REQ_WRITE" => rs[P].fsm = "RSP_WRITE"
  BY <1>1 DEF MccServiceInv, RequestInv, DataRspState
<1>7. rs[P].fsm \in MccRspStates /\ rq[P].fsm \in MccReqStates
  BY <1>1, MccStateFacts
<1> QED BY <1>2, <1>3, <1>4, <1>5, <1>6, <1>7 DEF TakenCommand

(* The type of what a memory answers.                                      *)
LEMMA Responded ==
  ASSUME MccRegsOK, NEW f, NEW d \in Word, NEW e \in BOOLEAN, NEW eop \in BOOLEAN,
         Respond(f, d, e, eop)
  PROVE  /\ rsp' \in [Srcs -> RspCell \cup {NoCell}] /\ rsp'[P] \in RspCell /\ rsp'[P] # NoCell
         /\ rsp'[P].error = e /\ rsp'[P].eop = eop
         /\ ~e => rsp'[P].data = d
<1> DEFINE x == IF e THEN Zero ELSE d
<1>1. x \in Word
  BY ValAssumption DEF Word, Zero
<1>2. rsp' = [rsp EXCEPT ![P] = [data |-> x, ok |-> FALSE, error |-> e, eop |-> eop]]
  BY DEF Respond
<1>3. ~e => x = d
  OBVIOUS
<1> HIDE DEF x
<1> DEFINE c == [data |-> x, ok |-> FALSE, error |-> e, eop |-> eop]
<1>4. c \in RspCell /\ c.error = e /\ c.eop = eop /\ c.data = x
  BY <1>1 DEF RspCell
<1>5. rsp'[P] = c /\ (c \in RspCell => rsp' \in [Srcs -> RspCell \cup {NoCell}])
  BY <1>2, PIsCache DEF MccRegsOK
<1> HIDE DEF c
<1> QED BY <1>3, <1>4, <1>5, NoCellAssumption

LEMMA ErrorsAreBooleans ==
  ASSUME NEW f, NEW e \in Errors(f)
  PROVE  e \in BOOLEAN
BY DEF Errors

(* A step of the memories about data, which the exchange does not see.     *)
LEMMA DataServed ==
  ASSUME MccInv, CacheKept, MccRegsOK', MccFlightInv',
         UNCHANGED <<invCmd, holds, home, listed, poisoned, move, unsent, awaited>>,
         cmd' = cmd \/ cmd'[P] = NoCell,
         rs[P].fsm \notin TlbRspStates \cup {"RSP_INVAL_SEND_ACK"}
  PROVE  MccInv'
<1>1. \A v \in Pages : InvSent(v)' <=> InvSent(v)
  BY DEF InvSent
<1>2. TokensKept
  BY <1>1 DEF TokensKept, CacheKept
<1>3. MccCacheInv(P)'
  <2>1. MccInvalInv(P)'
    BY DEF MccInv, MccCacheInv, MccInvalInv, CacheKept
  <2> QED BY <2>1, CacheKeeps DEF MccInv
<1>4. TlbInv'
  <2>1. \A v, f : TranslationOK(v, f) => TranslationOK(v, f)'
    BY <1>2, TranslationKept
  <2>2. ~TlbAnswer'
    BY DEF TlbAnswer, CacheKept
  <2> QED BY <2>1, <2>2, TlbKept DEF MccInv, CacheKept
<1>5. TokenInv'
  <2>1. \A v \in Pages : AckDue(v)' => AckDue(v)
    BY DEF AckDue, CacheKept
  <2> QED BY <1>2, <2>1, TokenKept DEF MccInv
<1>6. CommandInv'
  BY CommandKept DEF MccInv, CacheKept
<1>7. MoveInv'
  BY MoveUnchanged DEF MccInv
<1> QED BY <1>3, <1>4, <1>5, <1>6, <1>7 DEF MccInv

(* A memory takes a read.                                                  *)
LEMMA MemTakeReadKeeps == ASSUME MccInv, MemTakeRead PROVE MccInv'
<1>1. /\ CacheKept
      /\ UNCHANGED <<invCmd, holds, home, listed, poisoned, move, unsent, awaited>>
      /\ UNCHANGED <<cpu, fetch, rsp, invRsp, memory>>
      /\ packet' = [packet EXCEPT !.addr = cmd[P].addr, !.left = cmd[P].cells]
      /\ TakeCommand({"READ", "LOCKED_READ"})
  BY DEF MemTakeRead, CacheKept, cacheVars, tlbVars, moveVars
<1>2. TakenCommand({"READ", "LOCKED_READ"})
  BY <1>1, TakenFacts
<1>3. packet = NoPacket /\ cmd[P].addr \in Nat /\ cmd[P].cells \in Nat \ {0} /\ cmd[P].addr \in Addr
  BY <1>2 DEF TakenCommand, MccCmdCell, Addr
<1>4. packet' = [addr |-> cmd[P].addr, left |-> cmd[P].cells, written |-> <<>>]
  BY <1>1, <1>3 DEF NoPacket
<1>5. rs[P].fsm \in MccLineRsp \cup {"RSP_UNC"}
  BY <1>2 DEF TakenCommand, Asked, MccRspStates, MccLineRsp, TlbRspStates
<1>6. /\ rs[P].fsm \in MccLineRsp => /\ cmd[P].cells = LineWords /\ rs[P].cpt = 0
                                      /\ cmd[P].addr + LineWords <= NbWords
      /\ rs[P].fsm = "RSP_UNC" => cmd[P].cells = 1
  BY <1>2 DEF TakenCommand, Asked
<1>7. cmd[P].addr + cmd[P].cells <= NbWords
  <2>1. NbWords \in Nat
    BY NbWordsAssumption
  <2>2. cmd[P].addr + 1 <= NbWords
    BY <1>3, <2>1 DEF Addr
  <2> QED BY <1>5, <1>6, <2>2
<1>8. MccRegsOK'
  <2>1. packet' \in [addr : Nat, left : Nat, written : Seq(StoreCell)]
    BY <1>3, <1>4
  <2>2. packet'.addr + packet'.left <= NbWords
    BY <1>4, <1>7
  <2>3. cmd' \in [Srcs -> MccCmdCell \cup {NoCell}]
    BY <1>2 DEF TakenCommand
  <2> QED BY <1>1, <2>1, <2>2, <2>3, RegsKeep DEF MccInv, MccRegsOK, DataRegsOK
<1>9. MccFlightInv'
  <2>1. /\ rsp'[P] = NoCell /\ cmd'[P] = NoCell /\ rs' = rs /\ rq' = rq
        /\ rq[P].fsm \notin SendStates \cup {"REQ_WRITE"}
        /\ packet'.left = cmd[P].cells /\ packet'.written = <<>> /\ packet'.left # 0
    <3>1. packet'.left = cmd[P].cells /\ packet'.written = <<>>
      BY <1>4
    <3>2. rq[P].fsm # "REQ_WRITE"
      BY <1>2, <1>5 DEF TakenCommand, MccLineRsp
    <3> QED BY <1>1, <1>2, <1>3, <3>1, <3>2 DEF TakenCommand, CacheKept
  <2>2. rs[P].fsm # "RSP_IDLE" /\ rs[P].fsm \notin TlbRspStates \cup {"RSP_WRITE", "RSP_INVAL_SEND_ACK"}
    BY <1>5 DEF MccLineRsp, TlbRspStates
  <2>3. MccArrived' = 0
    BY <2>1 DEF MccArrived
  <2>4. /\ rs[P].fsm \in MccLineRsp => rs[P].cpt + 0 + packet'.left = LineWords
        /\ rs[P].fsm = "RSP_UNC" => 0 + packet'.left = 1
    BY <1>3, <1>6, <2>1
  <2> QED BY <2>1, <2>2, <2>3, <2>4 DEF MccFlightInv
<1>10. cmd'[P] = NoCell
  BY <1>2 DEF TakenCommand
<1>11. rs[P].fsm \notin TlbRspStates \cup {"RSP_INVAL_SEND_ACK"}
  BY <1>5 DEF MccLineRsp, TlbRspStates
<1> QED BY <1>1, <1>8, <1>9, <1>10, <1>11, DataServed

(* A memory answers a cell of it.                                          *)
LEMMA MemAnswerReadKeeps == ASSUME MccInv, MemAnswerRead PROVE MccInv'
<1>1. /\ CacheKept
      /\ UNCHANGED <<invCmd, holds, home, listed, poisoned, move, unsent, awaited>>
      /\ UNCHANGED <<cpu, fetch, cmd, invRsp, memory>>
      /\ packet.left > 0 /\ rsp[P] = NoCell
      /\ packet' = IF packet.left = 1 THEN NoPacket
                   ELSE [packet EXCEPT !.addr = packet.addr + 1, !.left = packet.left - 1]
  BY DEF MemAnswerRead, CacheKept, cacheVars, tlbVars, moveVars
<1>2. PICK e \in Errors(Page(packet.addr)) :
        Respond(Page(packet.addr), memory[packet.addr], e, packet.left = 1)
  BY DEF MemAnswerRead
<1>3. /\ MccRegsOK /\ MccFlightInv /\ MccServiceInv(P) /\ RequestInv(P)
      /\ packet \in [addr : Nat, left : Nat, written : Seq(StoreCell)]
      /\ packet.addr + packet.left <= NbWords
  BY DEF MccInv, MccCacheInv, MccRegsOK
<1>4. packet.addr \in Nat /\ packet.left \in Nat /\ NbWords \in Nat
  BY <1>3, NbWordsAssumption
<1>5. packet.addr \in Addr /\ memory[packet.addr] \in Word
  <2>1. packet.addr \in Addr
    BY <1>1, <1>3, <1>4 DEF Addr
  <2> QED BY <1>3, <2>1 DEF MccRegsOK
<1>6. e \in BOOLEAN
  BY <1>2, ErrorsAreBooleans
<1>7. /\ rsp' \in [Srcs -> RspCell \cup {NoCell}] /\ rsp'[P] \in RspCell /\ rsp'[P] # NoCell
      /\ rsp'[P].eop <=> packet.left = 1
  <2> DEFINE f == Page(packet.addr)
             d == memory[packet.addr]
             z == packet.left = 1
  <2>1. /\ MccRegsOK /\ d \in Word /\ e \in BOOLEAN /\ z \in BOOLEAN
        /\ Respond(f, d, e, z)
    BY <1>2, <1>3, <1>5, <1>6
  <2> HIDE DEF f, d, z
  <2>2. /\ rsp' \in [Srcs -> RspCell \cup {NoCell}] /\ rsp'[P] \in RspCell /\ rsp'[P] # NoCell
        /\ rsp'[P].eop = z
    BY <2>1, Responded
  <2> QED BY <2>2 DEF z
<1>8. /\ packet'.left = packet.left - 1 /\ packet'.addr + packet'.left <= NbWords
      /\ packet' \in [addr : Nat, left : Nat, written : Seq(StoreCell)]
      /\ packet'.left = 0 => packet' = NoPacket
      /\ packet'.written = <<>>
  <2>1. CASE packet.left = 1
    BY <1>1, <1>4, <2>1 DEF NoPacket
  <2>2. CASE packet.left # 1
    <3>1. packet.written = <<>>
      BY <1>1, <1>3 DEF MccFlightInv
    <3>2. packet' = [packet EXCEPT !.addr = packet.addr + 1, !.left = packet.left - 1]
      BY <1>1, <2>2
    <3>3. /\ packet'.addr = packet.addr + 1 /\ packet'.left = packet.left - 1
          /\ packet'.written = packet.written
      BY <1>3, <3>2
    <3>4. packet.addr + 1 \in Nat /\ packet.left - 1 \in Nat /\ packet.left - 1 # 0
      BY <1>1, <1>4, <2>2
    <3>5. packet' \in [addr : Nat, left : Nat, written : Seq(StoreCell)]
      BY <1>3, <3>2, <3>4
    <3>6. packet'.addr + packet'.left = packet.addr + packet.left
      BY <1>4, <3>3
    <3> QED BY <1>3, <3>1, <3>3, <3>4, <3>5, <3>6
  <2> QED BY <2>1, <2>2
<1>9. MccRegsOK'
  BY <1>1, <1>7, <1>8, RegsKeep DEF MccInv, MccRegsOK, DataRegsOK
<1>10. /\ cmd[P] = NoCell /\ rs[P].fsm # "RSP_IDLE" /\ rq[P].fsm \notin SendStates \cup {"REQ_WRITE"}
  BY <1>1, <1>3, <1>4 DEF MccFlightInv, MccNothing, NoPacket
<1>11. rq[P].fsm \in {"REQ_IDLE", "REQ_DWAIT", "REQ_IWAIT"}
  <2>1. rq[P].fsm \in MccReqStates /\ rq[P].fsm # "REQ_TLB_INVAL"
    BY <1>3, <1>10, MccStateFacts DEF MccServiceInv
  <2> QED BY <1>10, <2>1 DEF MccReqStates
<1>12. /\ rs[P].fsm \notin TlbRspStates \cup {"RSP_WRITE", "RSP_INVAL_SEND_ACK"}
       /\ rs[P].fsm \in MccLineRsp => rs[P].cpt + 0 + packet.left = LineWords
       /\ rs[P].fsm = "RSP_UNC" => 0 + packet.left = 1
  <2>1. MccArrived = 0 /\ packet # NoPacket
    BY <1>1 DEF MccArrived, NoPacket
  <2> QED BY <1>3, <1>10, <1>11, <2>1 DEF MccFlightInv
<1>13. MccFlightInv'
  <2>1. MccArrived' = 1 /\ rs' = rs /\ rq' = rq /\ cmd' = cmd
    BY <1>1, <1>7 DEF MccArrived, CacheKept
  <2>2. rs[P].cpt \in Nat /\ LineWords \in Nat
    BY <1>3, MccRegTypes, SizeFacts DEF MccRsRegs
  <2>3. /\ rs[P].fsm \in MccLineRsp => rs[P].cpt + 1 + packet'.left = LineWords
        /\ rs[P].fsm = "RSP_UNC" => 1 + packet'.left = 1
    BY <1>4, <1>8, <1>12, <2>2
  <2>4. rsp'[P].eop <=> packet'.left = 0
    BY <1>4, <1>7, <1>8
  <2> QED BY <1>7, <1>8, <1>10, <1>11, <1>12, <2>1, <2>3, <2>4 DEF MccFlightInv
<1>14. rs[P].fsm \notin TlbRspStates \cup {"RSP_INVAL_SEND_ACK"}
  BY <1>12
<1> QED BY <1>1, <1>9, <1>13, <1>14, DataServed

(* The words of a packet are written together.                             *)
LEMMA WrittenTypes ==
  ASSUME memory \in [Addr -> Word], NEW w \in Seq(StoreCell), NEW e \in BOOLEAN
  PROVE  [a \in Addr |-> LET hits == {i \in DOMAIN w : w[i].addr = a}
                         IN IF e \/ hits = {} THEN memory[a]
                            ELSE LET x == w[CHOOSE i \in hits : TRUE]
                                 IN Merge(memory[a], x.data, x.be)] \in [Addr -> Word]
<1> SUFFICES ASSUME NEW a \in Addr
             PROVE  (LET hits == {i \in DOMAIN w : w[i].addr = a}
                     IN IF e \/ hits = {} THEN memory[a]
                        ELSE LET x == w[CHOOSE i \in hits : TRUE]
                             IN Merge(memory[a], x.data, x.be)) \in Word
  OBVIOUS
<1> DEFINE hits == {i \in DOMAIN w : w[i].addr = a}
           k == CHOOSE i \in hits : TRUE
<1>1. memory[a] \in Word
  OBVIOUS
<1>2. ASSUME hits # {}
      PROVE  Merge(memory[a], w[k].data, w[k].be) \in Word
  <2>1. k \in hits
    BY <1>2
  <2>2. k \in DOMAIN w
    BY <2>1
  <2> HIDE DEF k
  <2>3. w[k] \in StoreCell
    BY <2>2
  <2>4. w[k].data \in Word
    BY <2>3 DEF StoreCell
  <2> QED BY <1>1, <2>4 DEF Merge, Word
<1> QED BY <1>1, <1>2

(* A memory takes a store, the last of a packet or not.                    *)
LEMMA MemTakeWriteKeeps == ASSUME MccInv, MemTakeWrite PROVE MccInv'
<1>1. /\ CacheKept
      /\ UNCHANGED <<invCmd, holds, home, listed, poisoned, move, unsent, awaited>>
      /\ UNCHANGED <<cpu, fetch, invRsp>>
      /\ TakeCommand({"WRITE"})
  BY DEF MemTakeWrite, CacheKept, cacheVars, tlbVars, moveVars
<1> DEFINE written == Append(packet.written, [addr |-> cmd[P].addr, data |-> cmd[P].data,
                                              be |-> cmd[P].be])
<1>2. \/ /\ ~cmd[P].eop
         /\ packet' = [packet EXCEPT !.written = written]
         /\ UNCHANGED <<rsp, memory>>
      \/ /\ cmd[P].eop
         /\ packet' = NoPacket
         /\ \E e \in Errors(Page(cmd[P].addr)) :
              /\ Respond(Page(cmd[P].addr), Zero, e, TRUE)
              /\ memory' = [a \in Addr |->
                   LET hits == {i \in DOMAIN written : written[i].addr = a}
                   IN IF e \/ hits = {} THEN memory[a]
                      ELSE LET w == written[CHOOSE i \in hits : TRUE]
                           IN Merge(memory[a], w.data, w.be)]
  BY DEF MemTakeWrite
<1>3. TakenCommand({"WRITE"})
  BY <1>1, TakenFacts
<1>4. /\ MccRegsOK /\ MccServiceInv(P) /\ memory \in [Addr -> Word]
      /\ packet \in [addr : Nat, left : Nat, written : Seq(StoreCell)]
      /\ packet.addr + packet.left <= NbWords
  BY DEF MccInv, MccCacheInv, MccRegsOK
<1>5. written \in Seq(StoreCell)
  <2>1. [addr |-> cmd[P].addr, data |-> cmd[P].data, be |-> cmd[P].be] \in StoreCell
    BY <1>3 DEF TakenCommand, MccCmdCell, StoreCell
  <2>2. packet.written \in Seq(StoreCell)
    BY <1>4
  <2> QED BY <2>1, <2>2
<1> HIDE DEF written
<1>6. rs[P].fsm = "RSP_WRITE"
  BY <1>3 DEF TakenCommand, Asked, MccRspStates, MccLineRsp, TlbRspStates
<1>7. rq[P].fsm \notin {"REQ_IDLE", "REQ_IWAIT"} \cup SendStates \cup {"REQ_TLB_INVAL"}
  BY <1>3, <1>4, <1>6 DEF TakenCommand, MccServiceInv, TlbRspStates
<1>8. rq[P].fsm = IF cmd[P].eop THEN "REQ_DWAIT" ELSE "REQ_WRITE"
  BY <1>3, <1>7 DEF TakenCommand, MccReqStates
<1>9. cmd'[P] = NoCell /\ rsp[P] = NoCell /\ packet.left = 0
  BY <1>3 DEF TakenCommand
<1>10. MccRegsOK' /\ MccFlightInv'
  <2>1. CASE ~cmd[P].eop
    <3>1. packet' = [packet EXCEPT !.written = written] /\ rsp' = rsp /\ memory' = memory
      BY <1>2, <2>1
    <3>2. /\ packet'.left = 0 /\ packet'.addr = packet.addr
          /\ packet' \in [addr : Nat, left : Nat, written : Seq(StoreCell)]
      BY <1>4, <1>5, <1>9, <3>1
    <3>3. packet'.addr + packet'.left <= NbWords
      BY <1>4, <1>9, <3>2
    <3>4. MccRegsOK'
      BY <1>1, <1>3, <3>1, <3>2, <3>3, RegsKeep DEF MccInv, MccRegsOK, DataRegsOK, TakenCommand
    <3>5. rs' = rs /\ rq' = rq
      BY <1>1 DEF CacheKept
    <3>6. MccFlightInv'
      BY <1>6, <1>8, <1>9, <2>1, <3>1, <3>2, <3>5
         DEF MccFlightInv, SendStates, OneCellStates, TlbStates
    <3> QED BY <3>4, <3>6
  <2>2. CASE cmd[P].eop
    <3>1. PICK e \in Errors(Page(cmd[P].addr)) :
            /\ Respond(Page(cmd[P].addr), Zero, e, TRUE)
            /\ memory' = [a \in Addr |->
                 LET hits == {i \in DOMAIN written : written[i].addr = a}
                 IN IF e \/ hits = {} THEN memory[a]
                    ELSE LET w == written[CHOOSE i \in hits : TRUE]
                         IN Merge(memory[a], w.data, w.be)]
      BY <1>2, <2>2
    <3>2. e \in BOOLEAN /\ Zero \in Word
      BY <3>1, ErrorsAreBooleans, ValAssumption DEF Word, Zero
    <3>3. memory' \in [Addr -> Word]
      BY <1>4, <1>5, <3>1, <3>2, WrittenTypes
    <3>4. /\ rsp' \in [Srcs -> RspCell \cup {NoCell}] /\ rsp'[P] # NoCell /\ rsp'[P].eop = TRUE
      BY <1>4, <3>1, <3>2, Responded
    <3>5. packet' = NoPacket
      BY <1>2, <2>2
    <3>6. /\ packet' \in [addr : Nat, left : Nat, written : Seq(StoreCell)]
          /\ packet'.addr + packet'.left <= NbWords
          /\ packet'.left = 0
      BY <3>5, NbWordsAssumption DEF NoPacket
    <3>7. MccRegsOK'
      BY <1>1, <1>3, <3>3, <3>4, <3>6, RegsKeep DEF MccInv, MccRegsOK, DataRegsOK, TakenCommand
    <3>8. rs' = rs /\ rq' = rq /\ MccArrived' = 1
      BY <1>1, <3>4 DEF CacheKept, MccArrived
    <3>9. MccFlightInv'
      BY <1>6, <1>8, <1>9, <2>2, <3>4, <3>5, <3>6, <3>8
         DEF MccFlightInv, SendStates, OneCellStates, TlbStates, MccLineRsp
    <3> QED BY <3>7, <3>9
  <2> QED BY <2>1, <2>2
<1>11. rs[P].fsm \notin TlbRspStates \cup {"RSP_INVAL_SEND_ACK"}
  BY <1>6 DEF TlbRspStates
<1> QED BY <1>1, <1>9, <1>10, <1>11, DataServed

(* A request about the TLB that is answered.                               *)
TlbServed ==
  /\ CacheKept /\ packet' = packet /\ invCmd' = invCmd
  /\ cmd'[P] = NoCell /\ rsp'[P] # NoCell /\ rsp'[P].eop
  /\ MccRegsOK'

(* The account of the cells after such a request.                          *)
LEMMA FlightOfTlb ==
  ASSUME MccInv, NEW cmds, TakenCommand(cmds), TlbServed,
         rs[P].fsm \in TlbRspStates \cup {"RSP_INVAL_SEND_ACK"}
  PROVE  MccFlightInv' /\ MccCacheInv(P)' /\ CommandInv' /\ rq[P].fsm = "REQ_IDLE"
<1>1. MccServiceInv(P) /\ MccFlightInv /\ CommandInv /\ MccCacheInv(P)
  BY DEF MccInv, MccCacheInv
<1>2. rq[P].fsm = "REQ_IDLE"
  BY <1>1 DEF TakenCommand, MccServiceInv, SendStates, TlbRspStates
<1>3. packet = NoPacket
  <2>1. cmd[P].cmd # "WRITE"
    BY DEF TakenCommand, Asked
  <2> QED BY <2>1 DEF TakenCommand
<1>4. rs' = rs /\ rq' = rq /\ MccArrived' = 1
  BY DEF TlbServed, CacheKept, MccArrived
<1>5. MccFlightInv'
  BY <1>2, <1>3, <1>4
     DEF TlbServed, MccFlightInv, SendStates, OneCellStates, TlbStates, MccLineRsp, TlbRspStates, NoPacket
<1>6. MccInvalInv(P)'
  BY <1>1 DEF MccCacheInv, MccInvalInv, TlbServed, CacheKept
<1>7. MccCacheInv(P)' /\ CommandInv'
  BY <1>1, <1>6, CacheKeeps, CommandKept DEF TlbServed, CacheKept
<1> QED BY <1>2, <1>5, <1>7

(* The home lists the cache for the translation that it gives.             *)
LEMMA MemTlbMissKeeps == ASSUME MccInv, MemTlbMiss PROVE MccInv'
<1>1. /\ CacheKept /\ packet' = packet
      /\ UNCHANGED <<invCmd, holds, home, poisoned, move, unsent, awaited>>
      /\ UNCHANGED <<cpu, fetch, invRsp, memory>>
      /\ TakeCommand({"READ_TLB_MISS"})
  BY DEF MemTlbMiss, CacheKept, cacheVars, tlbVars
<1> DEFINE v == Page(cmd[P].addr)
<1>2. PICK e \in Errors(NoPage) :
        /\ Respond(NoPage, FrameWord(home[v]), e, TRUE)
        /\ listed' = IF e THEN listed ELSE listed \cup {v}
  BY DEF MemTlbMiss
<1>3. TakenCommand({"READ_TLB_MISS"})
  BY <1>1, TakenFacts
<1>4. MccRegsOK /\ MccServiceInv(P) /\ MoveInv /\ TlbInv /\ TokenInv
  BY DEF MccInv, MccCacheInv
<1>5. v \in Pages
  BY <1>3, PageFacts DEF TakenCommand, MccCmdCell
<1>6. home[v] \in Pages
  BY <1>4, <1>5 DEF MoveInv
<1>7. FrameWord(home[v]) \in Word /\ FrameOf(FrameWord(home[v])) = home[v]
  BY <1>6, FramesAssumption, LanesAssumption DEF Word, FrameWord, FrameOf
<1>8. e \in BOOLEAN
  BY <1>2, ErrorsAreBooleans
<1>9. /\ rsp' \in [Srcs -> RspCell \cup {NoCell}] /\ rsp'[P] # NoCell
      /\ rsp'[P].error = e /\ rsp'[P].eop = TRUE
      /\ ~e => rsp'[P].data = FrameWord(home[v])
  BY <1>2, <1>4, <1>7, <1>8, Responded
<1>10. MccRegsOK'
  BY <1>1, <1>3, <1>9, RegsKeep DEF MccInv, MccRegsOK, DataRegsOK, TakenCommand
<1>11. rs[P].fsm \in TlbRspStates /\ cmd[P].addr = MissedAddr(P)
  BY <1>3 DEF TakenCommand, Asked, MccRspStates, MccLineRsp, TlbRspStates
<1>12. TlbServed
  BY <1>1, <1>3, <1>9, <1>10 DEF TlbServed, TakenCommand
<1>13. MccFlightInv' /\ MccCacheInv(P)' /\ CommandInv' /\ rq[P].fsm = "REQ_IDLE"
  BY <1>3, <1>11, <1>12, FlightOfTlb
<1>14. TokensKept
  <2>1. \A u \in Pages : InvSent(u)' <=> InvSent(u)
    BY <1>1 DEF InvSent
  <2> QED BY <1>1, <2>1 DEF TokensKept, CacheKept
<1>15. v \in Migrable
  <2>1. ~TlbHit(tlb[P], MissedAddr(P))
    BY <1>4, <1>11 DEF MccServiceInv
  <2> QED BY <1>11, <2>1 DEF TlbHit
<1> HIDE DEF v
<1>16. listed \subseteq listed' /\ listed' \subseteq Pages
  BY <1>2, <1>4, <1>5 DEF MoveInv
<1>17. TlbInv'
  <2>1. \A u, f : TranslationOK(u, f) => TranslationOK(u, f)'
    BY <1>14, <1>16, TranslationKept
  <2>2. MissedAddr(P)' = MissedAddr(P)
    BY <1>1 DEF MissedAddr, CacheKept
  <2>3. ASSUME TlbAnswer'
        PROVE  TranslationOK(Page(MissedAddr(P)), FrameOf(rsp[P].data))'
    <3>1. ~e
      BY <1>9, <2>3 DEF TlbAnswer
    <3>2. v \in listed' /\ FrameOf(rsp'[P].data) = home[v]
      BY <1>2, <1>7, <1>9, <3>1
    <3>3. PICK u, f : u = v /\ f = home[v]
      OBVIOUS
    <3>4. TranslationOK(u, f)'
      BY <1>1, <1>6, <1>15, <3>2, <3>3 DEF TranslationOK
    <3>5. Page(MissedAddr(P))' = u
      BY <1>11, <2>2, <3>3 DEF v
    <3> QED BY <3>2, <3>3, <3>4, <3>5
  <2> QED BY <1>1, <1>4, <2>1, <2>3, TlbKept DEF CacheKept
<1>18. TokenInv'
  <2>1. \A u \in Pages : AckDue(u)' => AckDue(u)
    BY <1>1, <1>11 DEF AckDue, CacheKept, TlbRspStates
  <2> QED BY <1>4, <1>14, <2>1, TokenKept
<1>19. MoveInv'
  <2>1. Moving' = Moving
    BY <1>1 DEF Moving
  <2>2. \A u : Partner(u)' = Partner(u) /\ (Undecided(u)' <=> Undecided(u))
    BY <1>1 DEF Partner, Undecided
  <2> QED BY <1>1, <1>4, <1>16, <2>1, <2>2 DEF MoveInv
<1> QED BY <1>10, <1>13, <1>17, <1>18, <1>19 DEF MccInv

(* The home no longer awaits the page that is acknowledged.                *)
LEMMA MemTlbAckKeeps == ASSUME MccInv, MemTlbAck PROVE MccInv'
<1>1. /\ CacheKept /\ packet' = packet
      /\ UNCHANGED <<invCmd, holds, home, listed, poisoned, move, unsent>>
      /\ UNCHANGED <<cpu, fetch, invRsp, memory>>
      /\ TakeCommand({"TLB_INV_ACK"})
  BY DEF MemTlbAck, CacheKept, cacheVars, tlbVars
<1>2. PICK e \in Errors(NoPage) :
        /\ Respond(NoPage, Zero, e, TRUE)
        /\ awaited' = IF e THEN awaited ELSE awaited \ {Page(cmd[P].addr)}
  BY DEF MemTlbAck
<1>3. TakenCommand({"TLB_INV_ACK"})
  BY <1>1, TakenFacts
<1>4. MccRegsOK /\ MccServiceInv(P) /\ MoveInv /\ TlbInv /\ TokenInv
  BY DEF MccInv, MccCacheInv
<1>5. rs[P].fsm = "RSP_INVAL_SEND_ACK" /\ cmd[P].addr = PageBase(ta[P].page)
  BY <1>3 DEF TakenCommand, Asked, MccRspStates, MccLineRsp, TlbRspStates
<1>6. ta[P].page \in Pages /\ Page(cmd[P].addr) = ta[P].page
  <2>1. ta[P].page \in Pages
    BY <1>4, MccRegTypes DEF TaRegs
  <2> QED BY <1>5, <2>1, PageFacts
<1>7. e \in BOOLEAN /\ Zero \in Word
  BY <1>2, ErrorsAreBooleans, ValAssumption DEF Word, Zero
<1>8. /\ rsp' \in [Srcs -> RspCell \cup {NoCell}] /\ rsp'[P] # NoCell
      /\ rsp'[P].error = e /\ rsp'[P].eop = TRUE
  BY <1>2, <1>4, <1>7, Responded
<1>9. MccRegsOK'
  BY <1>1, <1>3, <1>8, RegsKeep DEF MccInv, MccRegsOK, DataRegsOK, TakenCommand
<1>10. TlbServed
  BY <1>1, <1>3, <1>8, <1>9 DEF TlbServed, TakenCommand
<1>11. MccFlightInv' /\ MccCacheInv(P)' /\ CommandInv' /\ rq[P].fsm = "REQ_IDLE"
  BY <1>3, <1>5, <1>10, FlightOfTlb
<1>12. TlbInv'
  <2>1. ASSUME NEW u, NEW f, TranslationOK(u, f)
        PROVE  TranslationOK(u, f)'
    <3>1. InvalidationDue(u)' <=> InvalidationDue(u)
      BY <1>1 DEF InvalidationDue, CacheKept
    <3>2. Partner(home[u])' = Partner(home[u])
      BY <1>1 DEF Partner
    <3> QED BY <1>1, <2>1, <3>1, <3>2 DEF TranslationOK
  <2>2. ~TlbAnswer'
    BY <1>1, <1>5 DEF TlbAnswer, CacheKept, TlbRspStates
  <2> QED BY <1>1, <1>4, <2>1, <2>2, TlbKept DEF CacheKept
<1>13. TokenInv'
  <2>1. /\ \A u \in Pages : InvSent(u)' <=> InvSent(u)
        /\ Moving' = Moving
        /\ ti' = ti /\ ta' = ta /\ rs' = rs
    BY <1>1 DEF InvSent, Moving, CacheKept
  <2>2. AckDue(ta[P].page)
    BY <1>3, <1>5 DEF AckDue, TakenCommand
  <2>3. /\ ta[P].page \in awaited \ unsent /\ ~InvSent(ta[P].page)
        /\ ti[P].inv0 # ta[P].page /\ ti[P].inv1 # ta[P].page
    BY <1>4, <1>6, <2>2 DEF TokenInv
  <2>4. ~ta[P].retry
    BY <1>4, <1>5 DEF MccServiceInv, Ready
  <2>5. \A u \in Pages : AckDue(u)' => u = ta[P].page /\ e
    BY <1>8, <2>1, <2>4 DEF AckDue
  <2>6. CASE e
    BY <1>1, <1>2, <1>4, <2>1, <2>3, <2>5, <2>6 DEF TokenInv
  <2>7. CASE ~e
    <3>1. awaited' = awaited \ {ta[P].page}
      BY <1>2, <1>6, <2>7
    <3> QED BY <1>1, <1>4, <2>1, <2>3, <2>5, <2>7, <3>1 DEF TokenInv
  <2> QED BY <2>6, <2>7
<1>14. MoveInv'
  <2>1. Moving' = Moving
    BY <1>1 DEF Moving
  <2>2. \A u : Partner(u)' = Partner(u) /\ (Undecided(u)' <=> Undecided(u))
    BY <1>1 DEF Partner, Undecided
  <2>3. awaited' \subseteq awaited
    BY <1>2
  <2> QED BY <1>1, <1>4, <2>1, <2>2, <2>3 DEF MoveInv
<1> QED BY <1>9, <1>11, <1>12, <1>13, <1>14 DEF MccInv

-----------------------------------------------------------------------------
(* The steps of an exchange.                                               *)

(* The two frames of an exchange are each other's partner.                 *)
LEMMA PartnerOfTwo ==
  ASSUME NEW f, NEW g, f # g, move.frames = {f, g}
  PROVE  Partner(f) = g /\ Partner(g) = f
BY DEF Partner

(* Partner is an involution without fixed points.                          *)
LEMMA Partners ==
  ASSUME MoveInv
  PROVE  /\ move.frames \subseteq Migrable /\ move.frames \subseteq Pages
         /\ \A f \in move.frames : /\ Partner(f) \in move.frames /\ Partner(f) # f
                                    /\ Partner(Partner(f)) = f
         /\ \A f, g \in move.frames : f # g => g = Partner(f)
<1>1. CASE move.frames = {}
  BY <1>1
<1>2. CASE move.frames # {}
  <2>1. PICK f \in Migrable, g \in Migrable : f # g /\ move.frames = {f, g}
    BY <1>2 DEF MoveInv
  <2>2. Partner(f) = g /\ Partner(g) = f
    BY <2>1, PartnerOfTwo
  <2> QED BY <2>1, <2>2, MigrableAssumption
<1> QED BY <1>1, <1>2

(* The registers and the cells under way do not see the exchange.          *)
MoveOnly == UNCHANGED <<nocVars, cacheVars, tlbVars, packet>>

(* What a step of the exchange leaves.                                     *)
LEMMA MoveKeeps ==
  ASSUME MccInv, MoveOnly, memory' \in [Addr -> Word]
  PROVE  /\ MccRegsOK' /\ MccCacheInv(P)' /\ MccFlightInv' /\ CommandInv'
         /\ tlb' = tlb /\ rsp' = rsp /\ ti' = ti
         /\ TlbAnswer' => TlbAnswer /\ rsp' = rsp /\ MissedAddr(P)' = MissedAddr(P)
         /\ \A v \in Pages : (InvSent(v)' <=> InvSent(v)) /\ (AckDue(v)' <=> AckDue(v))
<1>1. CacheKept /\ UNCHANGED <<cpu, fetch, cmd, rsp, invCmd, invRsp, packet>>
  BY DEF MoveOnly, CacheKept, nocVars, cacheVars, tlbVars
<1>2. MccRegsOK'
  BY <1>1, RegsKeep DEF MccInv, MccRegsOK, DataRegsOK
<1>3. MccInvalInv(P)'
  BY <1>1 DEF MccInv, MccCacheInv, MccInvalInv, CacheKept
<1>4. MccCacheInv(P)' /\ MccFlightInv' /\ CommandInv'
  BY <1>1, <1>3, CacheKeeps, FlightKept, CommandKept DEF MccInv, CacheKept
<1>5. TlbAnswer' => TlbAnswer /\ rsp' = rsp /\ MissedAddr(P)' = MissedAddr(P)
  BY <1>1 DEF TlbAnswer, MissedAddr, CacheKept
<1>6. \A v \in Pages : (InvSent(v)' <=> InvSent(v)) /\ (AckDue(v)' <=> AckDue(v))
  BY <1>1 DEF InvSent, AckDue, CacheKept
<1> QED BY <1>1, <1>2, <1>4, <1>5, <1>6 DEF CacheKept

(* The rest of the invariant, in a step of the exchange.                   *)
LEMMA MoveStep ==
  ASSUME MccInv, MoveOnly, memory' \in [Addr -> Word],
         \A v, f : TranslationOK(v, f) => TranslationOK(v, f)',
         TokenInv', MoveInv'
  PROVE  MccInv'
<1>1. /\ MccRegsOK' /\ MccCacheInv(P)' /\ MccFlightInv' /\ CommandInv'
      /\ tlb' = tlb
      /\ TlbAnswer' => TlbAnswer /\ rsp' = rsp /\ MissedAddr(P)' = MissedAddr(P)
  BY MoveKeeps
<1>2. TlbInv'
  BY <1>1, TlbKept DEF MccInv
<1> QED BY <1>1, <1>2 DEF MccInv

(* Before an exchange the page table and the frames agree.                 *)
LEMMA MoveBeginKeeps == ASSUME MccInv, MoveBegin PROVE MccInv'
<1>1. /\ MoveOnly
      /\ UNCHANGED <<memory, holds, home, listed, poisoned, unsent, awaited>>
      /\ move = NoMove
  BY DEF MoveBegin, MoveOnly, OnlyMoves
<1>2. PICK f \in Migrable, g \in Migrable :
        f < g /\ move' = [frames |-> {f, g}, todo |-> {holds[f], holds[g]}, done |-> FALSE]
  BY DEF MoveBegin
<1>3. MccRegsOK /\ TokenInv /\ MoveInv /\ memory' \in [Addr -> Word]
  BY <1>1 DEF MccInv, MccRegsOK
<1>4. f # g /\ f \in Pages /\ g \in Pages
  <2>1. f \in Nat /\ g \in Nat
    BY MigrableAssumption, PageFacts
  <2> QED BY <1>2, <2>1, MigrableAssumption
<1>5. /\ move.frames = {} /\ move.todo = {} /\ move.done = FALSE
      /\ awaited = {} /\ unsent = {} /\ poisoned = {} /\ Moving = {}
  BY <1>1, <1>3 DEF NoMove, Moving, TokenInv, MoveInv
<1>6. /\ move'.frames = {f, g} /\ move'.todo = {holds[f], holds[g]} /\ move'.done = FALSE
  BY <1>2
<1>7. \A v, w : TranslationOK(v, w) => TranslationOK(v, w)'
  <2> TAKE v, w
  <2>1. InvalidationDue(v)' <=> InvalidationDue(v)
    BY <1>1 DEF InvalidationDue, MoveOnly, nocVars, tlbVars
  <2> QED BY <1>1, <1>5, <2>1 DEF TranslationOK
<1>8. TokenInv'
  <2>1. /\ \A v \in Pages : (InvSent(v)' <=> InvSent(v)) /\ (AckDue(v)' <=> AckDue(v))
        /\ ti' = ti
    BY <1>1, <1>3, MoveKeeps
  <2> QED BY <1>1, <1>3, <1>5, <2>1 DEF TokenInv
<1>9. MoveInv'
  <2>1. \A x \in Pages : home[holds[x]] = x
    BY <1>3, <1>5 DEF MoveInv
  <2>2. \A v \in Pages : holds[home[v]] = v
    BY <1>3, <1>5 DEF MoveInv
  <2>3. \A v : Undecided(v)' <=> v \notin {holds[f], holds[g]}
    BY <1>6 DEF Undecided
  <2>4. \A x \in Pages : home'[holds'[x]] = IF x \in move'.frames /\ Undecided(holds[x])'
                                            THEN Partner(x)' ELSE x
    BY <1>1, <1>6, <2>1, <2>3
  <2>5. \A v \in Pages : holds'[IF home'[v] \in move'.frames /\ Undecided(v)'
                                THEN Partner(home[v])' ELSE home'[v]] = v
    <3> TAKE v \in Pages
    <3>1. holds[home[v]] = v
      BY <2>2
    <3>2. ~(home[v] \in move'.frames /\ Undecided(v)')
      BY <1>6, <2>3, <3>1
    <3> QED BY <1>1, <3>1, <3>2
  <2>6. Moving' = move'.todo
    BY <1>1, <1>6 DEF Moving
  <2>7. /\ holds' \in [Pages -> Pages] /\ home' \in [Pages -> Pages] /\ listed' \subseteq Pages
        /\ \A v \in Pages \ Migrable : holds'[v] = v
    BY <1>1, <1>3 DEF MoveInv
  <2>8. /\ \E x, y \in Migrable : x # y /\ move'.frames = {x, y}
        /\ move'.frames # {} /\ poisoned' \subseteq move'.frames
    BY <1>1, <1>4, <1>5, <1>6
  <2>9. move' \in [frames : SUBSET Migrable, todo : SUBSET Pages, done : BOOLEAN]
    <3>1. holds[f] \in Pages /\ holds[g] \in Pages
      BY <1>3, <1>4 DEF MoveInv
    <3> QED BY <1>2, <3>1
  <2> QED BY <1>6, <2>4, <2>5, <2>6, <2>7, <2>8, <2>9 DEF MoveInv
<1> QED BY <1>1, <1>3, <1>7, <1>8, <1>9, MoveStep

(* A frame is poisoned.                                                    *)
LEMMA PoisonKeeps == ASSUME MccInv, Poison PROVE MccInv'
<1>1. /\ MoveOnly
      /\ UNCHANGED <<memory, holds, home, listed, move, unsent, awaited>>
  BY DEF Poison, MoveOnly, OnlyMoves
<1>2. PICK f \in move.frames \ poisoned : poisoned' = poisoned \cup {f}
  BY DEF Poison
<1>3. MccRegsOK /\ TokenInv /\ MoveInv /\ memory' \in [Addr -> Word]
  BY <1>1 DEF MccInv, MccRegsOK
<1>4. \A u : Partner(u)' = Partner(u) /\ (Undecided(u)' <=> Undecided(u))
  BY <1>1 DEF Partner, Undecided
<1>5. Moving' = Moving
  BY <1>1 DEF Moving
<1>6. \A v, w : TranslationOK(v, w) => TranslationOK(v, w)'
  <2> TAKE v, w
  <2>1. InvalidationDue(v)' <=> InvalidationDue(v)
    BY <1>1 DEF InvalidationDue, MoveOnly, nocVars, tlbVars
  <2>2. Partner(home[v])' = Partner(home[v])
    BY <1>1 DEF Partner
  <2> QED BY <1>1, <2>1, <2>2 DEF TranslationOK
<1>7. TokenInv'
  <2>1. /\ \A v \in Pages : (InvSent(v)' <=> InvSent(v)) /\ (AckDue(v)' <=> AckDue(v))
        /\ ti' = ti
    BY <1>1, <1>3, MoveKeeps
  <2> QED BY <1>1, <1>3, <1>5, <2>1 DEF TokenInv
<1>8. MoveInv'
  BY <1>1, <1>2, <1>3, <1>4, <1>5 DEF MoveInv
<1> QED BY <1>1, <1>3, <1>6, <1>7, <1>8, MoveStep

(* A step of the exchange whose effect on the tokens is in the variables   *)
(* of the home.                                                            *)
LEMMA MoveTokens ==
  ASSUME MccInv, MoveOnly, memory' \in [Addr -> Word], Moving' = Moving,
         unsent' = unsent, awaited' = awaited, move'.todo = move.todo
  PROVE  TokenInv'
<1>1. /\ \A v \in Pages : (InvSent(v)' <=> InvSent(v)) /\ (AckDue(v)' <=> AckDue(v))
      /\ ti' = ti
  BY MoveKeeps
<1>2. TokenInv
  BY DEF MccInv
<1> QED BY <1>1, <1>2 DEF TokenInv

(* The words of the two frames are exchanged when both are poisoned.       *)
LEMMA ExchangeKeeps == ASSUME MccInv, Exchange PROVE MccInv'
<1>1. /\ MoveOnly
      /\ UNCHANGED <<home, listed, poisoned, unsent, awaited>>
  BY DEF Exchange, MoveOnly, OnlyMoves
<1>2. MccRegsOK /\ TokenInv /\ MoveInv
  BY DEF MccInv
<1>3. ~move.done /\ move.frames # {} /\ poisoned = move.frames
  BY <1>2 DEF Exchange, BothPoisoned, MoveInv
<1>4. /\ move'.frames = move.frames /\ move'.todo = move.todo /\ move'.done = TRUE
      /\ move' \in [frames : SUBSET Migrable, todo : SUBSET Pages, done : BOOLEAN]
  BY <1>2 DEF Exchange, MoveInv
<1>5. /\ move.frames \subseteq Migrable /\ move.frames \subseteq Pages
      /\ \A f \in move.frames : /\ Partner(f) \in move.frames /\ Partner(f) # f
                                 /\ Partner(Partner(f)) = f
  BY <1>2, Partners
<1>6. \A f \in Pages : holds'[f] = IF f \in move.frames THEN holds[Partner(f)] ELSE holds[f]
  BY DEF Exchange
<1>7. \A u : Partner(u)' = Partner(u)
  BY <1>4 DEF Partner
<1>8. \A v : (Undecided(v) <=> v \notin move.todo) /\ (Undecided(v)' <=> v \in move.todo)
  BY <1>3, <1>4 DEF Undecided
<1>9. holds \in [Pages -> Pages] /\ home \in [Pages -> Pages]
  BY <1>2 DEF MoveInv
<1>10. holds' \in [Pages -> Pages]
  <2>1. \A f \in Pages : (IF f \in move.frames THEN holds[Partner(f)] ELSE holds[f]) \in Pages
    BY <1>5, <1>9
  <2> QED BY <2>1 DEF Exchange
<1>11. memory' \in [Addr -> Word]
  <2>1. memory \in [Addr -> Word]
    BY <1>2 DEF MccRegsOK
  <2>2. ASSUME NEW a \in Addr
        PROVE  (IF Page(a) \in move.frames
                THEN memory[PageBase(Partner(Page(a))) + (a % PageWords)] ELSE memory[a]) \in Word
    <3>1. CASE Page(a) \in move.frames
      <4>1. Partner(Page(a)) \in Pages /\ a % PageWords \in 0 .. PageWords - 1
        BY <1>5, <3>1, PageFacts
      <4>2. PageBase(Partner(Page(a))) + (a % PageWords) \in Addr
        BY <4>1, PageFacts
      <4> QED BY <2>1, <3>1, <4>2
    <3>2. CASE Page(a) \notin move.frames
      BY <2>1, <3>2
    <3> QED BY <3>1, <3>2
  <2> QED BY <2>2 DEF Exchange
<1>12. Moving' = Moving
  <2>1. \A f \in move.frames : holds'[f] = holds[Partner(f)]
    BY <1>5, <1>6
  <2> QED BY <1>4, <1>5, <2>1 DEF Moving
<1>13. TokenInv'
  BY <1>1, <1>4, <1>11, <1>12, MoveTokens
<1>14. \A v, w : TranslationOK(v, w) => TranslationOK(v, w)'
  <2> TAKE v, w
  <2>1. InvalidationDue(v)' <=> InvalidationDue(v)
    BY <1>1 DEF InvalidationDue, MoveOnly, nocVars, tlbVars
  <2>2. Partner(home[v])' = Partner(home[v])
    BY <1>1, <1>4 DEF Partner
  <2> QED BY <1>1, <1>4, <2>1, <2>2 DEF TranslationOK
<1>15. MoveInv'
  <2>1. \A x \in Pages : home[holds'[x]] = IF x \in move.frames /\ holds'[x] \in move.todo
                                           THEN Partner(x) ELSE x
    <3> TAKE x \in Pages
    <3>1. CASE x \notin move.frames
      BY <1>2, <1>6, <3>1 DEF MoveInv
    <3>2. CASE x \in move.frames
      <4> DEFINE y == Partner(x)
      <4>1. y \in move.frames /\ y \in Pages /\ Partner(y) = x /\ holds'[x] = holds[y]
        BY <1>5, <1>6, <3>2
      <4>2. home[holds[y]] = IF holds[y] \notin move.todo THEN x ELSE y
        <5> HIDE DEF y
        <5> QED BY <1>2, <1>8, <4>1 DEF MoveInv
      <4> QED BY <3>2, <4>1, <4>2
    <3> QED BY <3>1, <3>2
  <2>2. \A v \in Pages : holds'[IF home[v] \in move.frames /\ v \in move.todo
                                THEN Partner(home[v]) ELSE home[v]] = v
    <3> TAKE v \in Pages
    <3> DEFINE h == home[v]
    <3>1. h \in Pages
      BY <1>9
    <3>2. holds[IF h \in move.frames /\ v \notin move.todo THEN Partner(h) ELSE h] = v
      BY <1>2, <1>8 DEF MoveInv
    <3> HIDE DEF h
    <3>3. holds'[IF h \in move.frames /\ v \in move.todo THEN Partner(h) ELSE h] = v
      BY <1>5, <1>6, <3>1, <3>2
    <3> QED BY <3>3 DEF h
  <2>3. \A v \in Pages \ Migrable : holds'[v] = v
    BY <1>2, <1>5, <1>6 DEF MoveInv
  <2>4. \A x \in Pages : home'[holds'[x]] = IF x \in move'.frames /\ (Undecided(holds[x]))'
                                            THEN Partner(x)' ELSE x
    BY <1>1, <1>4, <1>7, <1>8, <2>1
  <2>5. \A v \in Pages : holds'[IF home'[v] \in move'.frames /\ Undecided(v)'
                                THEN Partner(home[v])' ELSE home'[v]] = v
    BY <1>1, <1>4, <1>7, <1>8, <2>2
  <2>6. /\ move'.todo \subseteq Moving' /\ poisoned' \subseteq move'.frames
        /\ move'.frames \ poisoned' = {} /\ move'.frames # {} /\ listed' \subseteq Pages
        /\ \E f, g \in Migrable : f # g /\ move'.frames = {f, g}
    BY <1>1, <1>2, <1>3, <1>4, <1>12 DEF MoveInv
  <2> QED BY <1>1, <1>4, <1>9, <1>10, <2>3, <2>4, <2>5, <2>6 DEF MoveInv
<1> QED BY <1>1, <1>11, <1>13, <1>14, <1>15, MoveStep

(* The page that is entered is still where the page table says, or already *)
(* in the frame that the page table will say.                              *)
LEMMA UpdatePageTableKeeps == ASSUME MccInv, UpdatePageTable PROVE MccInv'
<1>1. /\ MoveOnly
      /\ UNCHANGED <<memory, holds, poisoned>>
  BY DEF UpdatePageTable, MoveOnly, OnlyMoves
<1>2. PICK v \in move.todo :
        /\ home' = [home EXCEPT ![v] = Partner(home[v])]
        /\ listed' = listed \ {v}
        /\ unsent' = unsent \cup ({v} \cap listed)
        /\ awaited' = awaited \cup ({v} \cap listed)
        /\ move' = [move EXCEPT !.todo = @ \ {v}]
  BY DEF UpdatePageTable
<1>3. MccRegsOK /\ TokenInv /\ MoveInv /\ memory' \in [Addr -> Word]
  BY <1>1 DEF MccInv, MccRegsOK
<1>4. /\ move'.frames = move.frames /\ move'.todo = move.todo \ {v} /\ move'.done = move.done
      /\ move' \in [frames : SUBSET Migrable, todo : SUBSET Pages, done : BOOLEAN]
  BY <1>2, <1>3 DEF MoveInv
<1>5. /\ move.frames \subseteq Migrable /\ move.frames \subseteq Pages
      /\ \A f \in move.frames : /\ Partner(f) \in move.frames /\ Partner(f) # f
                                 /\ Partner(Partner(f)) = f
  BY <1>3, Partners
<1>6. holds \in [Pages -> Pages] /\ home \in [Pages -> Pages]
  BY <1>3 DEF MoveInv
<1>7. Moving' = Moving
  BY <1>1, <1>4 DEF Moving
<1>8. \A u : Partner(u)' = Partner(u)
  BY <1>4 DEF Partner
<1>9. v \in Pages /\ v \in Moving /\ home[v] \in move.frames
  <2>1. PICK x \in move.frames : holds[x] = v
    BY <1>2, <1>3 DEF MoveInv, Moving
  <2>2. x \in Pages /\ home[holds[x]] \in {x, Partner(x)}
    BY <1>3, <1>5, <2>1 DEF MoveInv
  <2> QED BY <1>2, <1>3, <1>5, <1>6, <2>1, <2>2 DEF MoveInv
<1>10. /\ home'[v] = Partner(home[v]) /\ home' \in [Pages -> Pages]
       /\ \A u \in Pages : u # v => home'[u] = home[u]
  BY <1>2, <1>5, <1>6, <1>9
<1>11. /\ v \notin awaited /\ v \notin unsent
       /\ ~InvSent(v) /\ ti[P].inv0 # v /\ ti[P].inv1 # v /\ ~AckDue(v)
  BY <1>2, <1>3, <1>9 DEF TokenInv
<1>12. ~InvalidationDue(v)
  BY <1>11 DEF InvalidationDue, InvSent
<1>13. \A u, w : TranslationOK(u, w) => TranslationOK(u, w)'
  <2> SUFFICES ASSUME NEW u, NEW w, TranslationOK(u, w) PROVE TranslationOK(u, w)'
    OBVIOUS
  <2>1. u \in Migrable /\ u \in Pages /\ w \in Pages
    BY MigrableAssumption DEF TranslationOK
  <2>2. InvalidationDue(u) => InvalidationDue(u)'
    BY <1>1, <1>2 DEF InvalidationDue, MoveOnly, nocVars, tlbVars
  <2>3. CASE u # v
    <3>1. home'[u] = home[u] /\ (u \in listed => u \in listed')
      BY <1>2, <1>10, <2>1, <2>3
    <3>2. Partner(home[u])' = Partner(home[u])
      BY <1>4, <3>1 DEF Partner
    <3> QED BY <1>4, <2>2, <3>1, <3>2 DEF TranslationOK
  <2>4. CASE u = v
    <3>1. w = home[v] /\ v \in listed
      BY <1>2, <1>12, <2>4 DEF TranslationOK
    <3>2. v \in unsent'
      BY <1>2, <3>1
    <3>3. InvalidationDue(v)'
      BY <3>2 DEF InvalidationDue
    <3>4. home'[v] \in move.frames /\ Partner(home[v])' = home[v]
      <4>1. Partner(home[v])' = Partner(Partner(home[v]))
        BY <1>4, <1>10 DEF Partner
      <4> QED BY <1>5, <1>9, <1>10, <4>1
    <3> QED BY <1>4, <2>1, <2>4, <3>1, <3>3, <3>4 DEF TranslationOK
  <2> QED BY <2>3, <2>4
<1>14. TokenInv'
  <2>1. /\ \A u \in Pages : (InvSent(u)' <=> InvSent(u)) /\ (AckDue(u)' <=> AckDue(u))
        /\ ti' = ti
    BY <1>1, <1>3, MoveKeeps
  <2>2. unsent' \subseteq awaited' /\ awaited' \subseteq Moving' /\ awaited' \cap move'.todo = {}
    BY <1>2, <1>3, <1>4, <1>7, <1>9 DEF TokenInv
  <2>3. \A u \in Pages : u # v => (u \in awaited' \ unsent' <=> u \in awaited \ unsent)
    BY <1>2
  <2>4. /\ ~InvSent(v)' /\ ~AckDue(v)' /\ ti'[P].inv0 # v /\ ti'[P].inv1 # v
    BY <1>9, <1>11, <2>1
  <2>5. ASSUME NEW u \in Pages
        PROVE  /\ InvSent(u)' => u \in awaited' \ unsent'
               /\ ti'[P].inv0 = u => u \in awaited' \ unsent' /\ ~InvSent(u)'
               /\ ti'[P].inv1 = u => u \in awaited' \ unsent' /\ ~InvSent(u)' /\ ti'[P].inv0 # u
               /\ AckDue(u)' => /\ u \in awaited' \ unsent' /\ ~InvSent(u)'
                                /\ ti'[P].inv0 # u /\ ti'[P].inv1 # u
    <3>1. CASE u = v
      BY <2>4, <3>1
    <3>2. CASE u # v
      BY <1>3, <2>1, <2>3, <3>2 DEF TokenInv
    <3> QED BY <3>1, <3>2
  <2> QED BY <2>2, <2>5 DEF TokenInv
<1>15. MoveInv'
  <2>1. \A u : u # v => (Undecided(u)' <=> Undecided(u))
    BY <1>4 DEF Undecided
  <2>2. (Undecided(v) <=> move.done) /\ (Undecided(v)' <=> ~move.done) /\ move.done \in BOOLEAN
    BY <1>2, <1>3, <1>4 DEF Undecided, MoveInv
  <2>3. ASSUME NEW x \in Pages
        PROVE  home'[holds[x]] = IF x \in move.frames /\ Undecided(holds[x])'
                                 THEN Partner(x) ELSE x
    <3>1. home[holds[x]] = IF x \in move.frames /\ Undecided(holds[x]) THEN Partner(x) ELSE x
      BY <1>3 DEF MoveInv
    <3>2. CASE holds[x] # v
      <4>1. Undecided(holds[x])' <=> Undecided(holds[x])
        BY <1>1, <2>1, <3>2 DEF Undecided
      <4> QED BY <1>6, <1>10, <3>1, <3>2, <4>1
    <3>3. CASE holds[x] = v
      <4>1. x \in move.frames
        BY <1>9, <3>1, <3>3
      <4>2. Undecided(holds[x])' <=> ~Undecided(holds[x])
        BY <1>1, <2>2, <3>3 DEF Undecided
      <4> QED BY <1>5, <1>10, <3>1, <3>3, <4>1, <4>2
    <3> QED BY <3>2, <3>3
  <2>4. ASSUME NEW u \in Pages
        PROVE  holds[IF home'[u] \in move.frames /\ Undecided(u)'
                     THEN Partner(home'[u]) ELSE home'[u]] = u
    <3>1. holds[IF home[u] \in move.frames /\ Undecided(u)
                THEN Partner(home[u]) ELSE home[u]] = u
      BY <1>3 DEF MoveInv
    <3>2. CASE u # v
      BY <1>10, <2>1, <3>1, <3>2
    <3>3. CASE u = v
      BY <1>5, <1>9, <1>10, <2>2, <3>1, <3>3
    <3> QED BY <3>2, <3>3
  <2>5. \A x \in Pages : home'[holds'[x]] = IF x \in move'.frames /\ (Undecided(holds[x]))'
                                            THEN Partner(x)' ELSE x
    BY <1>1, <1>4, <1>8, <2>3
  <2>6. \A u \in Pages : holds'[IF home'[u] \in move'.frames /\ Undecided(u)'
                                THEN Partner(home[u])' ELSE home'[u]] = u
    <3> TAKE u \in Pages
    <3>1. Partner(home[u])' = Partner(home'[u])
      BY <1>4 DEF Partner
    <3> QED BY <1>1, <1>4, <2>4, <3>1
  <2>7. \A f \in move.frames \ poisoned :
          IF move.done THEN holds[Partner(f)] \notin (move.todo \ {v}) \cup awaited'
          ELSE Moving \subseteq move.todo \ {v}
    <3> TAKE f \in move.frames \ poisoned
    <3>1. move.done
      BY <1>3 DEF UpdatePageTable, BothPoisoned
    <3>2. holds[Partner(f)] \notin move.todo \cup awaited
      BY <1>3, <3>1 DEF MoveInv
    <3> QED BY <1>2, <3>1, <3>2
  <2>8. \A f \in move'.frames \ poisoned' :
          IF move'.done THEN holds'[Partner(f)'] \notin move'.todo \cup awaited'
          ELSE Moving' \subseteq move'.todo
    BY <1>1, <1>4, <1>7, <1>8, <2>7
  <2>9. /\ move'.todo \subseteq Moving' /\ poisoned' \subseteq move'.frames
        /\ move'.frames # {} /\ listed' \subseteq Pages
        /\ \E f, g \in Migrable : f # g /\ move'.frames = {f, g}
        /\ \A u \in Pages \ Migrable : holds'[u] = u
    BY <1>1, <1>2, <1>3, <1>4, <1>7, <1>9 DEF MoveInv
  <2> QED BY <1>1, <1>4, <1>6, <1>10, <2>5, <2>6, <2>8, <2>9 DEF MoveInv
<1> QED BY <1>1, <1>3, <1>13, <1>14, <1>15, MoveStep

(* The last frame that accepts requests again ends the exchange: no page   *)
(* is left to enter and no acknowledgement to come.                        *)
LEMMA UnpoisonKeeps == ASSUME MccInv, Unpoison PROVE MccInv'
<1>1. /\ MoveOnly
      /\ UNCHANGED <<memory, holds, home, listed, unsent, awaited>>
  BY DEF Unpoison, MoveOnly, OnlyMoves
<1>2. PICK f \in poisoned :
        /\ holds[Partner(f)] \notin move.todo \cup awaited
        /\ poisoned' = poisoned \ {f}
        /\ move' = IF poisoned = {f} THEN NoMove ELSE move
  BY DEF Unpoison
<1>3. MccRegsOK /\ TokenInv /\ MoveInv /\ memory' \in [Addr -> Word] /\ move.done
  BY <1>1 DEF MccInv, MccRegsOK, Unpoison
<1>4. /\ move.frames \subseteq Migrable /\ move.frames \subseteq Pages
      /\ \A x \in move.frames : /\ Partner(x) \in move.frames /\ Partner(x) # x
                                 /\ Partner(Partner(x)) = x
      /\ \A x, y \in move.frames : x # y => y = Partner(x)
  BY <1>3, Partners
<1>5. f \in move.frames
  BY <1>3 DEF MoveInv
<1>6. /\ \A v \in Pages : (InvSent(v)' <=> InvSent(v)) /\ (AckDue(v)' <=> AckDue(v))
      /\ ti' = ti
  BY <1>1, <1>3, MoveKeeps
<1>7. \A v : InvalidationDue(v)' <=> InvalidationDue(v)
  BY <1>1 DEF InvalidationDue, MoveOnly, nocVars, tlbVars
<1>8. CASE poisoned # {f}
  <2>1. move' = move
    BY <1>2, <1>8
  <2>2. Moving' = Moving
    BY <1>1, <2>1 DEF Moving
  <2>3. \A u : Partner(u)' = Partner(u) /\ (Undecided(u)' <=> Undecided(u))
    BY <2>1 DEF Partner, Undecided
  <2>4. TokenInv'
    BY <1>1, <1>3, <2>1, <2>2, MoveTokens
  <2>5. \A v, w : TranslationOK(v, w) => TranslationOK(v, w)'
    <3> TAKE v, w
    <3>1. Partner(home[v])' = Partner(home[v])
      BY <1>1, <2>1 DEF Partner
    <3> QED BY <1>1, <1>7, <2>1, <3>1 DEF TranslationOK
  <2>6. MoveInv'
    BY <1>1, <1>2, <1>3, <2>1, <2>2, <2>3 DEF MoveInv
  <2> QED BY <1>1, <1>3, <2>4, <2>5, <2>6, MoveStep
<1>9. CASE poisoned = {f}
  <2>1. move' = NoMove /\ poisoned' = {}
    BY <1>2, <1>9
  <2>2. /\ move'.frames = {} /\ move'.todo = {} /\ move'.done = FALSE
        /\ move' \in [frames : SUBSET Migrable, todo : SUBSET Pages, done : BOOLEAN]
    BY <2>1 DEF NoMove
  <2> DEFINE g == Partner(f)
  <2>3. g \in move.frames /\ g # f /\ Partner(g) = f /\ g \notin poisoned
    BY <1>4, <1>5, <1>9
  <2>4. holds[f] \notin move.todo \cup awaited /\ holds[g] \notin move.todo \cup awaited
    <3>1. holds[Partner(g)] \notin move.todo \cup awaited
      <4> HIDE DEF g
      <4> QED BY <1>3, <2>3 DEF MoveInv
    <3> QED BY <1>2, <2>3, <3>1
  <2>5. move.todo = {} /\ awaited = {} /\ unsent = {}
    <3>1. Moving \cap (move.todo \cup awaited) = {}
      BY <1>4, <1>5, <2>4 DEF Moving
    <3> QED BY <1>3, <3>1 DEF TokenInv, MoveInv
  <2>6. \A v \in Pages : ~InvalidationDue(v)
    BY <1>3, <2>5 DEF InvalidationDue, InvSent, TokenInv
  <2>7. \A v : ~Undecided(v)
    BY <1>3, <2>5 DEF Undecided
  <2>8. \A v, w : TranslationOK(v, w) => TranslationOK(v, w)'
    BY <1>1, <2>6, MigrableAssumption DEF TranslationOK
  <2>9. TokenInv'
    <3>1. awaited' = {} /\ unsent' = {}
      BY <1>1, <2>5
    <3>2. \A v \in Pages : ~InvSent(v)' /\ ~AckDue(v)' /\ ti'[P].inv0 # v /\ ti'[P].inv1 # v
      BY <1>3, <1>6, <2>5 DEF TokenInv
    <3> QED BY <3>1, <3>2 DEF TokenInv
  <2>10. MoveInv'
    <3>1. \A x \in Pages : home'[holds'[x]] = x
      BY <1>1, <1>3, <2>7 DEF MoveInv
    <3>2. \A v \in Pages : holds'[home'[v]] = v
      BY <1>1, <1>3, <2>7 DEF MoveInv
    <3>3. /\ holds' \in [Pages -> Pages] /\ home' \in [Pages -> Pages] /\ listed' \subseteq Pages
          /\ \A v \in Pages \ Migrable : holds'[v] = v
      BY <1>1, <1>3 DEF MoveInv
    <3> QED BY <2>1, <2>2, <3>1, <3>2, <3>3 DEF MoveInv
  <2> QED BY <1>1, <1>3, <2>8, <2>9, <2>10, MoveStep
<1> QED BY <1>8, <1>9

-----------------------------------------------------------------------------
(* The invariant of the specification. *)

(* The invariant holds at reset ...                                        *)
LEMMA MccInit == ASSUME Init PROVE MccInv
<1>1. /\ NocInit /\ CacheInit /\ P \in Procs /\ P \in Srcs
      /\ CacheTypeOK /\ RequestInv(P) /\ ContiguousInv(P)
  <2>1. NocInit /\ CacheInit
    BY DEF Init, MccCacheInit
  <2> QED BY <2>1, PIsCache, CacheInitTyped DEF CacheInv
<1>2. /\ cmd[P] = NoCell /\ rsp[P] = NoCell /\ invCmd[P] = NoBlock /\ ~invRsp[P]
      /\ cmd \in [Srcs -> {NoCell}] /\ rsp \in [Srcs -> {NoCell}]
      /\ invCmd \in [Procs -> {NoBlock}] /\ invRsp \in [Procs -> {FALSE}]
  BY <1>1 DEF NocInit
<1>3. /\ dc[P].prev = "DCACHE_IDLE" /\ ~dm[P].req /\ ~dm[P].pending /\ ~dm[P].flush
      /\ ~ic[P].req /\ rq[P].fsm = "REQ_IDLE" /\ rs[P].fsm = "RSP_IDLE"
      /\ ~rs[P].dOk /\ ~rs[P].iOk /\ iv[P].fsm = "INV_IDLE" /\ wb[P] = EmptyBuffer
  BY <1>1 DEF CacheInit, EmptyBuffer
<1>4. /\ 0 \in Addr /\ 0 \in Pages /\ Zero \in Word /\ 0 \in 0 .. BufferSize /\ 0 \in 0 .. LineWords
      /\ Block(0) \in Blocks
  <2>1. 0 \in Addr
    BY NbWordsAssumption DEF Addr
  <2>2. Page(0) = 0
    BY PageWordsAssumption DEF Page
  <2>3. 0 \in Pages
    BY <2>1, <2>2, PageFacts
  <2> QED BY <2>1, <2>3, AddrTypes, WordTypes, SizeFacts
<1>5. /\ tlb \in [Procs -> TlbType] /\ \A i \in Entries : tlb[P][i].tag = NoPage
      /\ va \in [Procs -> VaRegs]
      /\ ti \in [Procs -> TiRegs] /\ ti[P].inv0 = NoPage /\ ti[P].inv1 = NoPage
      /\ ta \in [Procs -> TaRegs] /\ ~ta[P].retry
  <2>1. NoEntry \in [tag : Migrable \cup {NoPage}, frame : Pages]
    BY <1>4 DEF NoEntry
  <2>2. tlb = [p \in Procs |-> [i \in Entries |-> NoEntry]]
    BY DEF Init, MccCacheInit
  <2>3. tlb \in [Procs -> TlbType] /\ \A i \in Entries : tlb[P][i].tag = NoPage
    BY <1>1, <2>1, <2>2 DEF TlbType, NoEntry
  <2>4. va \in [Procs -> VaRegs]
    BY <1>4 DEF Init, MccCacheInit, VaRegs
  <2>5. ti \in [Procs -> TiRegs] /\ ti[P].inv0 = NoPage /\ ti[P].inv1 = NoPage
    BY <1>1 DEF Init, MccCacheInit, TiRegs
  <2>6. ta \in [Procs -> TaRegs] /\ ~ta[P].retry
    BY <1>1, <1>4 DEF Init, MccCacheInit, TaRegs
  <2> QED BY <2>3, <2>4, <2>5, <2>6
<1>6. rq \in [Procs -> MccRqRegs]
  <2> DEFINE r == [fsm |-> "REQ_IDLE", addr |-> 0, data |-> Zero, cpt |-> 0]
  <2>1. r \in MccRqRegs
    BY <1>4 DEF MccRqRegs, MccReqStates
  <2>2. rq = [p \in Procs |-> r]
    BY <1>1 DEF CacheInit
  <2> HIDE DEF r
  <2> QED BY <2>1, <2>2
<1>7. rs \in [Procs -> MccRsRegs] /\ rs[P] \in MccRsRegs
  <2> DEFINE z == [x \in Offsets |-> Zero]
             r == [fsm |-> "RSP_IDLE", cpt |-> 0, buf |-> z, unc |-> Zero, cond |-> FALSE,
                   dOk |-> FALSE, iOk |-> FALSE, dRetry |-> FALSE, iRetry |-> FALSE]
  <2>1. z \in [Offsets -> Word]
    BY <1>4
  <2>2. r \in MccRsRegs
    <3> HIDE DEF z
    <3> QED BY <1>4, <2>1 DEF MccRsRegs, MccRspStates
  <2>3. rs = [p \in Procs |-> r]
    BY <1>1 DEF CacheInit
  <2> HIDE DEF r
  <2> QED BY <1>1, <2>2, <2>3
<1>8. iv \in [Procs -> MccIvRegs] /\ iv[P] \in MccIvRegs
  <2> DEFINE r == [fsm |-> "INV_IDLE", block |-> Block(0), req |-> FALSE]
  <2>1. r \in MccIvRegs
    BY <1>4 DEF MccIvRegs
  <2>2. iv = [p \in Procs |-> r]
    BY <1>1 DEF CacheInit
  <2> HIDE DEF r
  <2> QED BY <1>1, <2>1, <2>2
<1>9. MccTypeOK
  <2>1. tlb \in [Procs -> [Entries -> [tag : Migrable \cup {NoPage}, frame : Pages]]]
    BY <1>5 DEF TlbType
  <2>2. /\ va \in [Procs -> [data : Addr, inst : Addr]]
        /\ ti \in [Procs -> [inv0 : Pages \cup {NoPage}, inv1 : Pages \cup {NoPage}]]
        /\ ta \in [Procs -> [page : Pages, retry : BOOLEAN]]
    BY <1>5 DEF VaRegs, TiRegs, TaRegs
  <2>3. rq \in [Procs -> [fsm : MccReqStates, addr : Addr, data : Word, cpt : 0 .. BufferSize]]
    BY <1>6 DEF MccRqRegs
  <2>4. rs[P].fsm \in MccRspStates /\ rs[P].cpt \in 0 .. LineWords
    BY <1>7 DEF MccRsRegs
  <2>5. iv[P].fsm \in {"INV_IDLE", "INV_CMD", "INV_CMD_TLB", "INV_WAIT", "INV_RSP"}
    BY <1>8 DEF MccIvRegs
  <2> QED BY <2>1, <2>2, <2>3, <2>4, <2>5 DEF MccTypeOK
<1>10. /\ packet = NoPacket /\ packet.addr = 0 /\ packet.left = 0 /\ packet.written = <<>>
       /\ packet \in [addr : Nat, left : Nat, written : Seq(StoreCell)]
  BY DEF Init, NoPacket
<1>11. MccRegsOK
  <2>1. DataRegsOK
    BY <1>1 DEF CacheTypeOK, DataRegsOK
  <2>2. memory \in [Addr -> Word]
    <3>1. \A a \in Addr : FrameWord(Page(a)) \in Word
      BY PageFacts, FramesAssumption DEF FrameWord, Word
    <3> QED BY <3>1 DEF Init
  <2>3. /\ cmd \in [Srcs -> MccCmdCell \cup {NoCell}] /\ rsp \in [Srcs -> RspCell \cup {NoCell}]
        /\ invCmd \in [Procs -> MccInvCell \cup {NoBlock}] /\ invRsp \in [Procs -> BOOLEAN]
    BY <1>2
  <2>4. packet.addr + packet.left <= NbWords
    BY <1>10, NbWordsAssumption
  <2> QED BY <1>7, <1>8, <1>9, <1>10, <2>1, <2>2, <2>3, <2>4 DEF MccRegsOK
<1>12. MccCacheInv(P)
  <2>1. MccServiceInv(P)
    BY <1>3, <1>5 DEF MccServiceInv, DataCellStates, OneCellStates, TlbStates, TlbRspStates
  <2>2. MccBufferInv(P) /\ OnePageInv(P) /\ MccInvalInv(P)
    BY <1>3 DEF MccBufferInv, OnePageInv, MccInvalInv
  <2> QED BY <1>1, <2>1, <2>2 DEF MccCacheInv
<1>13. MccFlightInv
  BY <1>2, <1>3, <1>10 DEF MccFlightInv, MccNothing, MccLineRsp, TlbRspStates
<1>14. TlbInv /\ CommandInv
  BY <1>2, <1>5 DEF TlbInv, TlbAnswer, CommandInv
<1>15. /\ move = NoMove /\ move.frames = {} /\ move.todo = {} /\ move.done = FALSE
       /\ unsent = {} /\ awaited = {} /\ poisoned = {} /\ listed = {}
       /\ holds = [f \in Pages |-> f] /\ home = holds
  BY DEF Init, NoMove
<1>16. TokenInv
  BY <1>2, <1>3, <1>5, <1>15, MigrableAssumption DEF TokenInv, InvSent, AckDue
<1>17. MoveInv
  <2>1. move \in [frames : SUBSET Migrable, todo : SUBSET Pages, done : BOOLEAN]
    BY DEF Init, NoMove
  <2> QED BY <1>15, <2>1 DEF MoveInv
<1> QED BY <1>11, <1>12, <1>13, <1>14, <1>16, <1>17 DEF MccInv

(* ... and every step preserves it.                                        *)
LEMMA MccNext == ASSUME MccInv, [Next]_vars PROVE MccInv'
<1>1. CASE CpuRequest \/ FetchRequest \/ CacheStep \/ MemInval \/ MemTakeAck
  BY <1>1, CpuRequestKeeps, FetchRequestKeeps, MccInvCycle, MemInvalKeeps, MemTakeAckKeeps
<1>2. CASE MemTakeRead \/ MemAnswerRead \/ MemTakeWrite \/ MemTlbMiss \/ MemTlbAck
  BY <1>2, MemTakeReadKeeps, MemAnswerReadKeeps, MemTakeWriteKeeps, MemTlbMissKeeps,
     MemTlbAckKeeps
<1>3. CASE MoveBegin \/ Poison \/ Exchange \/ UpdatePageTable \/ SendTlbInval \/ Unpoison
  BY <1>3, MoveBeginKeeps, PoisonKeeps, ExchangeKeeps, UpdatePageTableKeeps,
     SendTlbInvalKeeps, UnpoisonKeeps
<1>4. CASE UNCHANGED vars
  <2>1. MoveOnly /\ UNCHANGED <<memory, holds, home, listed, poisoned, move, unsent, awaited>>
    BY <1>4 DEF vars, MoveOnly, memVars, moveVars
  <2>2. MoveInv'
    BY <2>1, MoveUnchanged DEF MccInv
  <2>3. memory' \in [Addr -> Word]
    BY <2>1 DEF MccInv, MccRegsOK
  <2>4. TokenInv'
    <3>1. Moving' = Moving /\ move'.todo = move.todo
      BY <2>1 DEF Moving
    <3> QED BY <2>1, <2>3, <3>1, MoveTokens
  <2>5. \A v, w : TranslationOK(v, w) => TranslationOK(v, w)'
    <3> TAKE v, w
    <3>1. InvalidationDue(v)' <=> InvalidationDue(v)
      BY <2>1 DEF InvalidationDue, MoveOnly, nocVars, tlbVars
    <3>2. Partner(home[v])' = Partner(home[v])
      BY <2>1 DEF Partner
    <3> QED BY <2>1, <3>1, <3>2 DEF TranslationOK
  <2> QED BY <2>1, <2>2, <2>3, <2>4, <2>5, MoveStep
<1> QED BY <1>1, <1>2, <1>3, <1>4 DEF Next

(* The cache and the memories that exchange pages under it stay consistent.*)
THEOREM MccConsistent == Spec => []MccInv
BY MccInit, MccNext, PTL DEF Spec

(* Every register of the cache, and what its TLB holds, keeps its type.    *)
THEOREM MccTypesHold == Spec => []MccTypeOK
<1>1. MccInv => MccTypeOK
  BY DEF MccInv, MccRegsOK
<1> QED BY <1>1, MccConsistent, PTL

(* A translation that the home has replaced has an invalidation on its way,*)
(* and a page has one entry.                                               *)
THEOREM StaleTranslationsDie == Spec => []StaleTranslationsAreDoomed
<1>1. ASSUME MccInv PROVE StaleTranslationsAreDoomed
  <2>1. TlbInv
    BY <1>1 DEF MccInv
  <2>2. \A v, f : TranslationOK(v, f) => f = home[v] \/ InvalidationDue(v)
    BY DEF TranslationOK
  <2>3. ASSUME NEW i \in Entries, tlb[P][i].tag # NoPage
        PROVE  /\ tlb[P][i].frame = home[tlb[P][i].tag] \/ InvalidationDue(tlb[P][i].tag)
               /\ \A j \in Entries : tlb[P][j].tag = tlb[P][i].tag => i = j
    BY <2>1, <2>2, <2>3 DEF TlbInv
  <2>4. ASSUME TlbAnswer
        PROVE  FrameOf(rsp[P].data) = home[Page(MissedAddr(P))]
                 \/ InvalidationDue(Page(MissedAddr(P)))
    BY <2>1, <2>2, <2>4 DEF TlbInv
  <2> QED BY <2>3, <2>4 DEF StaleTranslationsAreDoomed, TlbAnswer, TlbRspStates
<1> QED BY <1>1, MccConsistent, PTL

(* A page is looked for in the frame that has it, or in a poisoned one.    *)
LEMMA LooksInRightFrame ==
  ASSUME MccInv, NEW v, NEW f, TranslationOK(v, f), f \notin poisoned
  PROVE  holds[f] = v
<1>1. /\ TokenInv /\ MoveInv /\ v \in Migrable /\ v \in Pages /\ f \in Pages
  BY MigrableAssumption DEF MccInv, TranslationOK
<1>2. holds \in [Pages -> Pages] /\ home \in [Pages -> Pages] /\ move.done \in BOOLEAN
  BY <1>1 DEF MoveInv
<1>3. /\ move.frames \subseteq Pages
      /\ \A x \in move.frames : /\ Partner(x) \in move.frames /\ Partner(x) # x
                                 /\ Partner(Partner(x)) = x
  BY <1>1, Partners
<1>4. holds[IF home[v] \in move.frames /\ Undecided(v) THEN Partner(home[v]) ELSE home[v]] = v
  BY <1>1 DEF MoveInv
<1>5. \A x \in move.frames \ poisoned :
        IF move.done THEN holds[Partner(x)] \notin move.todo \cup awaited
        ELSE Moving \subseteq move.todo
  BY <1>1 DEF MoveInv
<1>6. CASE f = home[v] /\ ~(home[v] \in move.frames /\ Undecided(v))
  BY <1>4, <1>6
<1>7. CASE f = home[v] /\ home[v] \in move.frames /\ Undecided(v)
  <2>1. holds[Partner(f)] = v /\ Partner(f) \in move.frames
    BY <1>3, <1>4, <1>7
  <2>2. v \in Moving
    BY <2>1 DEF Moving
  <2> QED BY <1>2, <1>5, <1>7, <2>1, <2>2 DEF Undecided
<1>8. CASE home[v] \in move.frames /\ f = Partner(home[v]) /\ v \notin move.todo /\ InvalidationDue(v)
  <2>1. v \in awaited
    BY <1>1, <1>8 DEF InvalidationDue, TokenInv, InvSent
  <2>2. f \in move.frames /\ Partner(f) = home[v]
    BY <1>3, <1>8
  <2>3. CASE move.done
    BY <1>4, <1>5, <1>8, <2>1, <2>2, <2>3 DEF Undecided
  <2>4. CASE ~move.done
    BY <1>1, <1>5, <1>8, <2>1, <2>2, <2>4 DEF TokenInv
  <2> QED BY <1>2, <2>3, <2>4
<1> QED BY <1>6, <1>7, <1>8 DEF TranslationOK

(* check_virtual_access(): a frame that accepts requests is addressed for  *)
(* the page that it holds.                                                 *)
THEOREM FramesAreRight == Spec => []RightFrame
<1>1. ASSUME MccInv, cmd[P] # NoCell, cmd[P].cmd \in DataCommands,
             Page(cmd[P].addr) \notin poisoned
      PROVE  cmd[P].page = holds[Page(cmd[P].addr)]
  <2>1. /\ CommandInv /\ TlbInv /\ MoveInv /\ cmd[P] \in MccCmdCell
    BY <1>1, MccRegTypes DEF MccInv
  <2>2. CASE cmd[P].page \in Migrable
    <3>1. PICK i \in Entries : tlb[P][i].tag = cmd[P].page /\ tlb[P][i].frame = Page(cmd[P].addr)
      BY <1>1, <2>1, <2>2 DEF CommandInv
    <3>2. TranslationOK(cmd[P].page, Page(cmd[P].addr))
      <4>1. tlb[P][i].tag # NoPage
        BY <2>2, <3>1, MigrableAssumption
      <4> QED BY <2>1, <3>1, <4>1 DEF TlbInv
    <3> QED BY <1>1, <3>2, LooksInRightFrame
  <2>3. CASE cmd[P].page \notin Migrable
    <3>1. Page(cmd[P].addr) = cmd[P].page
      BY <1>1, <2>1, <2>3 DEF CommandInv
    <3>2. cmd[P].page \in Pages
      BY <2>1 DEF MccCmdCell
    <3> QED BY <2>1, <2>3, <3>1, <3>2 DEF MoveInv
  <2> QED BY <2>2, <2>3
<1>2. MccInv => RightFrame
  BY <1>1 DEF RightFrame
<1> QED BY <1>2, MccConsistent, PTL

(* The packet of stores under way: it is as long as it says, and the next  *)
(* cell of the buffer is in the page that the first one translated.        *)
LEMMA PacketTranslated ==
  ASSUME MccRegsOK, MccCacheInv(P), rq[P].fsm = "REQ_WRITE"
  PROVE  /\ dm[P].size = FilledStatus(wb[P]) + rq[P].cpt + 1
         /\ LastCell(P) <=> ~Rok(wb[P])
         /\ ~LastCell(P) => TlbHit(tlb[P], FlushAddr(P))
<1>1. /\ RequestInv(P) /\ MccServiceInv(P) /\ MccBufferInv(P) /\ OnePageInv(P)
  BY DEF MccCacheInv
<1> DEFINE n == wb[P].cells
           k == wb[P].ptr
<1>2. dm[P].flush /\ dm[P].pending /\ ~rs[P].dOk
  BY <1>1 DEF MccServiceInv, RequestInv
<1>3. /\ dm[P].size = Len(n) /\ k = rq[P].cpt + 1 /\ rq[P].cpt < dm[P].size
      /\ TlbHit(tlb[P], n[k].addr)
  BY <1>1, <1>2 DEF MccBufferInv, TranslatesData
<1>4. /\ Len(n) \in Nat /\ rq[P].cpt \in Nat
      /\ \A j \in 1 .. Len(n) : Page(n[j].addr) = Page(dm[P].addr)
  <2>1. rq[P].cpt \in Nat
    <3>1. rq[P].cpt \in 0 .. BufferSize
      BY MccRegTypes DEF MccRqRegs
    <3> QED BY <3>1, SizeFacts
  <2>2. Len(n) \in Nat
    BY MccRegTypes DEF WbRegs
  <2> QED BY <1>1, <1>2, <2>1, <2>2 DEF OnePageInv
<1>5. FilledStatus(wb[P]) = Len(n) - k
  BY DEF FilledStatus
<1>6. FlushAddr(P) = n[k + 1].addr
  BY DEF FlushAddr, ReadCell
<1>7. /\ dm[P].size = (Len(n) - k) + rq[P].cpt + 1
      /\ rq[P].cpt = dm[P].size - 1 <=> Len(n) - k = 0
  <2> DEFINE l == Len(n)
             c == rq[P].cpt
             s == dm[P].size
  <2>1. l \in Nat /\ c \in Nat /\ s = l /\ k = c + 1
    BY <1>3, <1>4
  <2> HIDE DEF l, c, s, k
  <2>2. s = (l - k) + c + 1 /\ (c = s - 1 <=> l - k = 0)
    BY <2>1
  <2> QED BY <2>2 DEF l, c, s
<1> HIDE DEF n, k
<1>8. ASSUME rq[P].cpt # dm[P].size - 1
      PROVE  TlbHit(tlb[P], n[k + 1].addr)
  <2>1. k \in 1 .. Len(n) /\ k + 1 \in 1 .. Len(n)
    BY <1>3, <1>4, <1>8
  <2>2. Page(n[k].addr) = Page(n[k + 1].addr)
    BY <1>4, <2>1
  <2> QED BY <1>3, <2>2, SamePageHit
<1> QED BY <1>5, <1>6, <1>7, <1>8 DEF LastCell, Rok

(* No assert() of transition() fails, and the home awaits every page that  *)
(* is acknowledged.                                                        *)
THEOREM MccAssertionsNeverFail == Spec => []MccAssertionsHold
<1>1. ASSUME MccInv PROVE MccAssertionsHold
  <2>1. /\ MccRegsOK /\ MccCacheInv(P) /\ MccFlightInv /\ TokenInv /\ MoveInv
        /\ RequestInv(P) /\ MccServiceInv(P) /\ MccBufferInv(P)
    BY <1>1 DEF MccInv, MccCacheInv
  <2>2. /\ rs[P].dOk \in BOOLEAN /\ rs[P].iOk \in BOOLEAN
        /\ rs[P].dRetry \in BOOLEAN /\ rs[P].iRetry \in BOOLEAN
        /\ rs[P].fsm \in MccRspStates /\ rq[P].fsm \in MccReqStates /\ ta[P].page \in Pages
    BY <2>1, MccRegTypes DEF MccRsRegs, MccRqRegs, TaRegs
  <2>3. invCmd[P] # NoBlock /\ invCmd[P].tlb => ~(ti[P].inv0 # NoPage /\ ti[P].inv1 # NoPage)
    BY <2>1, InvalRoom
  <2>4. rq[P].fsm = "REQ_TLB_INVAL" => IsTlbInv(P)
    BY <2>1 DEF MccServiceInv
  <2>5. rq[P].fsm = "REQ_WRITE" =>
          /\ dm[P].size = FilledStatus(wb[P]) + rq[P].cpt + 1
          /\ LastCell(P) <=> ~Rok(wb[P])
          /\ ~LastCell(P) => TlbHit(tlb[P], FlushAddr(P))
    BY <2>1, PacketTranslated
  <2>6. ASSUME Issues(P), ~dm[P].req, dm[P].flush
        PROVE  Rok(wb[P])
    <3>1. rq[P].fsm = "REQ_IDLE" /\ ~rs[P].dOk
      BY <2>1, <2>6 DEF Issues, Ready, MccServiceInv
    <3>2. dm[P].size = Len(wb[P].cells) /\ dm[P].size > 0 /\ wb[P].ptr = 0
      BY <2>1, <2>6, <3>1 DEF MccBufferInv
    <3>3. Len(wb[P].cells) \in Nat
      BY <2>1, MccRegTypes DEF WbRegs
    <3> QED BY <3>2, <3>3 DEF Rok, FilledStatus
  <2>7. ~(dm[P].req /\ dm[P].flush)
    BY <2>1 DEF RequestInv
  <2>8. ~(MccGets(P) /\ Puts(P))
    BY <2>1 DEF MccGets, Puts, Gathers, MccServiceInv
  <2>9. ~(rs[P].dOk /\ rs[P].dRetry) /\ ~(rs[P].iOk /\ rs[P].iRetry)
    BY <2>1, <2>2 DEF MccServiceInv, MccReqStates, SendStates, DataCellStates, OneCellStates,
       TlbStates
  <2>10. rsp[P] # NoCell => rs[P].fsm # "RSP_IDLE"
    BY <2>1 DEF MccFlightInv, MccNothing
  <2>11. ASSUME cmd[P] # NoCell, cmd[P].cmd = "TLB_INV_ACK"
         PROVE  Page(cmd[P].addr) \in awaited
    <3>1. Asked /\ rsp[P] = NoCell
      BY <2>1, <2>11 DEF MccFlightInv
    <3>2. rs[P].fsm = "RSP_INVAL_SEND_ACK" /\ cmd[P].addr = PageBase(ta[P].page)
      BY <2>2, <2>11, <3>1 DEF Asked, MccRspStates, MccLineRsp, TlbRspStates
    <3>3. AckDue(ta[P].page)
      BY <3>1, <3>2 DEF AckDue
    <3>4. Page(cmd[P].addr) = ta[P].page
      BY <2>2, <3>2, PageFacts
    <3> QED BY <2>1, <2>2, <3>3, <3>4 DEF TokenInv
  <2> QED BY <2>3, <2>4, <2>5, <2>6, <2>7, <2>8, <2>9, <2>10, <2>11 DEF MccAssertionsHold
<1> QED BY <1>1, MccConsistent, PTL
=============================================================================
