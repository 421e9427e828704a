-------------------------- MODULE CcPlatformProofs --------------------------
(***************************************************************************)
(* The platform, for any number of caches and any size of memory: the      *)
(* caches are initiators that the memory controller may rely on, so that   *)
(* the lemmas about it (CcRamProofs) hold here; the responses are those    *)
(* that the caches expect, so that the invariant of a cache                *)
(* (VciCcCacheProofs) is preserved; and together they are coherent.        *)
(***************************************************************************)
EXTENDS CcPlatformProps, VciCcCacheProofs

(***************************************************************************)
(* The caches as initiators of the memory controller: the packet of which  *)
(* cells have left, in the terms of CcRamSystem (its variable out).        *)
(***************************************************************************)
NoPacket == [cmd |-> "READ", addr |-> 0, toSend |-> 0, toRecv |-> 0]

NothingSent(p) ==
  \/ rs[p].fsm = "RSP_IDLE"
  \/ rq[p].fsm \in OneCellStates
  \/ rq[p].fsm = "REQ_WRITE" /\ rq[p].cpt = 0

UncachedCmd(p) ==
  IF DataReqState(p) = "REQ_LL" THEN "LOCKED_READ"
  ELSE IF DataReqState(p) = "REQ_SC" THEN "STORE_COND" ELSE "READ"

MissAddr(p) == IF rs[p].fsm = "RSP_DMISS" THEN rq[p].addr ELSE ic[p].addr

Packet(p) ==
  IF NothingSent(p) THEN NoPacket
  ELSE IF rq[p].fsm = "REQ_WRITE"
  THEN [cmd |-> "WRITE", addr |-> rq[p].addr - 1, toSend |-> dm[p].size - rq[p].cpt, toRecv |-> 1]
  ELSE IF rs[p].fsm = "RSP_WRITE"
  THEN [cmd |-> "WRITE", addr |-> rq[p].addr, toSend |-> 0, toRecv |-> 1]
  ELSE IF rs[p].fsm = "RSP_UNC"
  THEN [cmd |-> UncachedCmd(p), addr |-> rq[p].addr, toSend |-> 0, toRecv |-> 1]
  ELSE [cmd |-> "READ", addr |-> Base(Block(MissAddr(p))), toSend |-> 0,
        toRecv |-> LineWords - rs[p].cpt]

Packets == [s \in Srcs |-> IF s \in Procs THEN Packet(s) ELSE NoPacket]

Ram == INSTANCE CcRamProofs
  WITH out <- Packets, holders <- [b \in Blocks |-> {}], reg <- [s \in Srcs |-> Zero], succ <- 0,
       ops <- {}, Workloads <- {{}}, Stored <- {}, Starts <- {}, MaxBurst <- 1, MaxCount <- 0

RamInv == Ram!RamTypeOK /\ Ram!PacketInv /\ Ram!RoundInv /\ Ram!ReaderInv

-----------------------------------------------------------------------------
(* The definitions that Ram shares with this module are the same. *)

LEMMA SameMap ==
  /\ Ram!Procs = Procs /\ Ram!Srcs = Srcs /\ Ram!Addr = Addr /\ Ram!Word = Word
  /\ Ram!Blocks = Blocks /\ \A a : Ram!Block(a) = Block(a) /\ Ram!Base(a) = Base(a)
  /\ Ram!Zero = Zero /\ Ram!CmdCell = CmdCell /\ Ram!RspCell = RspCell /\ Ram!Cmds = Cmds
BY DEF Ram!Procs, Procs, Ram!Srcs, Srcs, Ram!Addr, Addr, Ram!Word, Word, Ram!Blocks, Blocks,
   Ram!Block, Block, Ram!Base, Base, Ram!Zero, Zero, Ram!CmdCell, CmdCell, Ram!RspCell, RspCell,
   Ram!Cmds, Cmds

(* The memory controller of the platform takes the steps of the one        *)
(* proved about: INV_FSM, the handlers, RAM_FSM.                           *)
LEMMA SameInvFsm == InvFsm => Ram!InvFsm
<1>1. SendNextInval => Ram!SendNextInval
  BY DEF SendNextInval, Ram!SendNextInval, NextId, Ram!NextId
<1>2. InvIdleKick => Ram!InvIdleKick
  BY <1>1 DEF InvIdleKick, Ram!InvIdleKick
<1>3. InvIdle => Ram!InvIdle
  BY DEF InvIdle, Ram!InvIdle, OtherSharers, Ram!OtherSharers
<1>4. InvReq => Ram!InvReq
  BY DEF InvReq, Ram!InvReq
<1>5. InvRspWait => Ram!InvRspWait
  BY DEF InvRspWait, Ram!InvRspWait, invFsmVars, Ram!invFsmVars
<1>6. InvRspTake => Ram!InvRspTake
  BY <1>1 DEF InvRspTake, Ram!InvRspTake
<1> QED BY <1>2, <1>3, <1>4, <1>5, <1>6 DEF InvFsm, Ram!InvFsm

LEMMA SameHandlers ==
  ASSUME NEW s, NEW a, NEW d, NEW be, NEW eop, NEW c
  PROVE  /\ HandleWrite(s, a, d, be, eop) => Ram!HandleWrite(s, a, d, be, eop)
         /\ HandleStoreCond(s, a, d, be, eop) => Ram!HandleStoreCond(s, a, d, be, eop)
         /\ HandleRead(s, c, a, eop) => Ram!HandleRead(s, c, a, eop)
<1>1. OnWrite(s, a, d, be) => Ram!OnWrite(s, a, d, be)
  BY DEF OnWrite, Ram!OnWrite, Merge, Ram!Merge, OtherSharers, Ram!OtherSharers, Save, Ram!Save,
     Block, Ram!Block
<1>2. OnRead(s, a, eop) => Ram!OnRead(s, a, eop)
  BY SameMap DEF OnRead, Ram!OnRead, Save, Ram!Save, Block, Ram!Block
<1>3. AccessDone(a) = Ram!AccessDone(a) /\ DoLoadLinked(a, s) = Ram!DoLoadLinked(a, s)
      /\ IsAtomic(a, s) = Ram!IsAtomic(a, s)
  BY DEF AccessDone, Ram!AccessDone, DoLoadLinked, Ram!DoLoadLinked, IsAtomic, Ram!IsAtomic,
     NoLink, Ram!NoLink, Srcs, Ram!Srcs
<1> QED BY <1>1, <1>2, <1>3, SameMap
        DEF HandleWrite, Ram!HandleWrite, HandleStoreCond, Ram!HandleStoreCond,
            HandleRead, Ram!HandleRead, Answer, Ram!Answer

LEMMA SameRamFsm == RamFsm => Ram!RamFsm
<1> USE DEF PeerAccepted, Ram!PeerAccepted, AfterPeer, Ram!AfterPeer, DeliverRsp, Ram!DeliverRsp,
            TakeCmd, Ram!TakeCmd, targetVars, Ram!targetVars
<1>1. ASSUME NEW s \in Srcs, AcceptCmd(s) PROVE s \in Ram!Srcs /\ Ram!AcceptCmd(s)
  BY <1>1, SameMap, SameHandlers DEF AcceptCmd, Ram!AcceptCmd, CmdAck, Ram!CmdAck
<1>2. TargetIdle => Ram!TargetIdle
  BY DEF TargetIdle, Ram!TargetIdle
<1>3. InoutQuery => Ram!InoutQuery
  BY DEF InoutQuery, Ram!InoutQuery
<1>4. SizedReadWait => Ram!SizedReadWait
  BY DEF SizedReadWait, Ram!SizedReadWait
<1>5. SizedReadNext => Ram!SizedReadNext
  BY SameHandlers DEF SizedReadNext, Ram!SizedReadNext
<1>6. SizedWriteWait => Ram!SizedWriteWait
  BY DEF SizedWriteWait, Ram!SizedWriteWait
<1>7. SizedWriteCell => Ram!SizedWriteCell
  BY SameHandlers DEF SizedWriteCell, Ram!SizedWriteCell
<1>8. TargetFsm => Ram!TargetFsm
  BY <1>1, <1>2, <1>3, <1>4, <1>5, <1>6, <1>7 DEF TargetFsm, Ram!TargetFsm
<1>9. RamIdle => Ram!RamIdle
  BY <1>8 DEF RamIdle, Ram!RamIdle
<1>10. RamDirUpd => Ram!RamDirUpd
  BY DEF RamDirUpd, Ram!RamDirUpd
<1>11. RamDataInval => Ram!RamDataInval
  BY DEF RamDataInval, Ram!RamDataInval, Left, Ram!Left
<1>12. RamDataInvalWait => Ram!RamDataInvalWait
  BY DEF RamDataInvalWait, Ram!RamDataInvalWait
<1> QED BY <1>9, <1>10, <1>11, <1>12 DEF RamFsm, Ram!RamFsm

(* The types of the memory controller, in the terms of this module. *)
LEMMA RamTypes ==
  ASSUME Ram!RamTypeOK
  PROVE  /\ NocTypeOK /\ blockState \subseteq Procs /\ invBlock \in Blocks /\ invTarget \in Procs
         /\ directory \in [Blocks -> SUBSET Procs] /\ sav \in [src : Srcs, block : Blocks]
         /\ mem \in [Addr -> Word]
         /\ cur \in [src : Srcs, cmd : Cmds, addr : Nat, eop : BOOLEAN, data : Word, ok : BOOLEAN]
         /\ cellsToGo \in Nat /\ sendRsp \in BOOLEAN
         /\ mode \in {"IDLE", "INOUT_QUERY", "SIZED_READ", "SIZED_WRITE"}
         /\ ramFsm \in {"RAM_IDLE", "RAM_DIRUPD", "RAM_DATA_INVAL", "RAM_DATA_INVAL_WAIT"}
         /\ ramInvFsm \in {"RAM_INV_IDLE", "RAM_INV_REQ", "RAM_INV_RSP"}
BY SameMap DEF Ram!RamTypeOK, Ram!NocTypeOK, NocTypeOK, Ram!Modes, Ram!RamStates, Ram!RamInvStates

LEMMA SplitTypes ==
  ASSUME Ram!RamTypeOK
  PROVE  Ram!InvTypeOK /\ Ram!TargetTypeOK
BY DEF Ram!RamTypeOK, Ram!NocTypeOK, Ram!InvTypeOK, Ram!TargetTypeOK

-----------------------------------------------------------------------------
(* The packet of a cache. *)

(* A packet that has left belongs to a request that is not finished. *)
LEMMA BusyFacts ==
  ASSUME CacheTypeOK, NEW p \in Procs, CacheInv(p), ~NothingSent(p)
  PROVE  /\ rq[p].fsm \in {"REQ_WRITE", "REQ_IDLE", "REQ_DWAIT", "REQ_IWAIT"}
         /\ rs[p].fsm \in {"RSP_IMISS", "RSP_DMISS", "RSP_WRITE", "RSP_UNC"}
         /\ rq[p].fsm = "REQ_WRITE" => rs[p].fsm = "RSP_WRITE" /\ rq[p].cpt > 0
         /\ rs[p].fsm = "RSP_WRITE" =>
              rq[p].fsm \in {"REQ_WRITE", "REQ_DWAIT"} /\ dm[p].flush /\ ~rs[p].dOk /\ ~rs[p].dRetry
         /\ rs[p].fsm \in {"RSP_UNC", "RSP_DMISS"} =>
              dm[p].req /\ ~rs[p].dOk /\ rs[p].fsm = DataRspState(p)
         /\ rs[p].fsm = "RSP_UNC" => rq[p].fsm = "REQ_DWAIT" /\ ~rs[p].dRetry
         /\ rs[p].fsm = "RSP_IMISS" => ic[p].req /\ ~rs[p].iOk
<1>1. /\ rq[p].fsm \in ReqStates /\ rs[p] \in RsRegs /\ rq[p].cpt \in Nat
      /\ ServiceInv(p) /\ RequestInv(p)
  BY RegTypes, SizeFacts DEF RqRegs, CacheInv
<1>2. /\ rq[p].fsm \in {"REQ_WRITE", "REQ_IDLE", "REQ_DWAIT", "REQ_IWAIT"}
      /\ rs[p].fsm \in {"RSP_IMISS", "RSP_DMISS", "RSP_WRITE", "RSP_UNC"}
      /\ rq[p].fsm = "REQ_WRITE" => rq[p].cpt > 0
  BY <1>1 DEF NothingSent, ReqStates, RsRegs
<1>3. /\ DataRspState(p) \in {"RSP_WRITE", "RSP_UNC", "RSP_DMISS"}
      /\ dm[p].req <=> DataRspState(p) \in {"RSP_UNC", "RSP_DMISS"}
  BY StateFacts
<1>4. CASE rq[p].fsm = "REQ_WRITE"
  <2>1. dm[p].flush /\ ~dm[p].req /\ rs[p].fsm = DataRspState(p) /\ ~rs[p].dOk /\ ~rs[p].dRetry
    BY <1>1, <1>4 DEF ServiceInv, RequestInv
  <2> QED BY <1>2, <1>3, <1>4, <2>1
<1>5. CASE rq[p].fsm = "REQ_IDLE"
  BY <1>1, <1>2, <1>3, <1>5 DEF ServiceInv
<1>6. CASE rq[p].fsm = "REQ_DWAIT"
  BY <1>1, <1>2, <1>3, <1>6 DEF ServiceInv
<1>7. CASE rq[p].fsm = "REQ_IWAIT"
  BY <1>1, <1>2, <1>3, <1>7 DEF ServiceInv
<1> QED BY <1>2, <1>4, <1>5, <1>6, <1>7

(* REQ_FSM in the middle of a burst. *)
LEMMA BurstFacts ==
  ASSUME CacheTypeOK, NEW p \in Procs, CacheInv(p), rq[p].fsm = "REQ_WRITE"
  PROVE  /\ rq[p].cpt \in Nat /\ dm[p].size \in Nat /\ rq[p].cpt < dm[p].size
         /\ dm[p].size = Len(wb[p].cells) /\ wb[p].ptr = rq[p].cpt + 1
         /\ rq[p].addr = wb[p].cells[rq[p].cpt + 1].addr
         /\ rq[p].data = wb[p].cells[rq[p].cpt + 1].data
         /\ rq[p].addr \in Addr
         /\ rq[p].cpt > 0 => /\ rq[p].addr - 1 = wb[p].cells[rq[p].cpt].addr
                             /\ rq[p].addr - 1 \in Addr
         /\ ~LastCell(p) => /\ ReadCell(wb[p]).addr = rq[p].addr + 1
                            /\ ReadCell(wb[p]) = wb[p].cells[rq[p].cpt + 2]
         /\ rq[p].addr + (dm[p].size - rq[p].cpt) <= NbWords
<1>1. dm[p].flush /\ dm[p].pending /\ ~rs[p].dOk
  BY DEF CacheInv, ServiceInv, RequestInv
<1>2. /\ dm[p].size = Len(wb[p].cells) /\ wb[p].ptr = rq[p].cpt + 1 /\ rq[p].cpt < dm[p].size
      /\ rq[p].addr = wb[p].cells[wb[p].ptr].addr /\ rq[p].data = wb[p].cells[wb[p].ptr].data
  BY <1>1 DEF CacheInv, BufferInv
<1>3. /\ rq[p].cpt \in Nat /\ dm[p].size \in Nat /\ rq[p].addr \in Addr /\ dm[p].addr \in Addr
      /\ wb[p].cells \in Seq([addr : Addr, data : Word])
  <2>1. rq[p] \in RqRegs /\ dm[p] \in DmRegs /\ wb[p] \in WbRegs
    BY RegTypes
  <2> QED BY <2>1, SizeFacts DEF RqRegs, DmRegs, WbRegs
<1>4. \A j \in 1 .. dm[p].size : /\ wb[p].cells[j].addr = dm[p].addr - dm[p].size + j
                                 /\ wb[p].cells[j].addr \in Addr
  <2>1. \A j \in 1 .. dm[p].size : wb[p].cells[j].addr = dm[p].addr - dm[p].size + j - 0
    BY <1>1, <1>2 DEF CacheInv, ContiguousInv
  <2>2. \A j \in 1 .. dm[p].size : wb[p].cells[j].addr \in Addr
    <3> DEFINE S == wb[p].cells
               T == [addr : Addr, data : Word]
    <3>1. S \in Seq(T) /\ Len(S) = dm[p].size
      BY <1>2, <1>3
    <3>2. \A j \in 1 .. Len(S) : S[j] \in T
      <4> HIDE DEF S, T
      <4> QED BY <3>1
    <3> QED BY <3>1, <3>2
  <2> QED BY <1>3, <2>1, <2>2 DEF Addr
<1> DEFINE n == rq[p].cpt
           size == dm[p].size
           cells == wb[p].cells
<1>5. Addr \subseteq Nat /\ NbWords \in Nat /\ \A a \in Addr : a < NbWords
  BY NbWordsAssumption DEF Addr
<1>6. n + 1 \in 1 .. size /\ (n > 0 => n \in 1 .. size) /\ (~LastCell(p) => n + 2 \in 1 .. size)
  BY <1>2, <1>3 DEF LastCell
<1>7. rq[p].addr = dm[p].addr - size + (n + 1) /\ cells[n + 1].addr = rq[p].addr
  BY <1>2, <1>4, <1>6
<1>8. n > 0 => cells[n].addr = dm[p].addr - size + n /\ cells[n].addr \in Addr
  BY <1>4, <1>6
<1>9. ~LastCell(p) => ReadCell(wb[p]) = cells[n + 2] /\ cells[n + 2].addr = dm[p].addr - size + (n + 2)
  BY <1>2, <1>3, <1>4, <1>6 DEF ReadCell
<1>10. n \in Nat /\ size \in Nat /\ n < size /\ dm[p].addr \in Nat /\ dm[p].addr < NbWords
  BY <1>2, <1>3, <1>5
<1>11. n > 0 => cells[n].addr = rq[p].addr - 1
  <2> HIDE DEF n, size, cells
  <2> QED BY <1>7, <1>8, <1>10
<1>12. ~LastCell(p) => ReadCell(wb[p]).addr = rq[p].addr + 1
  <2> HIDE DEF n, size, cells
  <2> QED BY <1>7, <1>9, <1>10
<1>13. rq[p].addr + (size - n) <= NbWords
  <2> HIDE DEF n, size, cells
  <2> QED BY <1>5, <1>7, <1>10
<1> QED BY <1>2, <1>3, <1>8, <1>9, <1>11, <1>12, <1>13

(* The packet that the registers of a cache describe is a packet of        *)
(* CcRamSystem.                                                            *)
LEMMA PacketTypes ==
  ASSUME CacheTypeOK, NEW p \in Procs, CacheInv(p)
  PROVE  Packet(p) \in [cmd : Cmds, addr : Addr, toSend : Nat, toRecv : Nat]
<1>1. rq[p].addr \in Addr /\ ic[p].addr \in Addr /\ rs[p].cpt \in 0 .. LineWords
  BY RegTypes DEF RqRegs, IcRegs, RsRegs
<1>2. /\ 0 \in Addr /\ LineWords - rs[p].cpt \in Nat
      /\ \A a \in Addr : Base(Block(a)) \in Addr
  BY <1>1, NbWordsAssumption, SizeFacts, AddrTypes DEF Addr
<1>3. rq[p].fsm = "REQ_WRITE" /\ rq[p].cpt > 0 =>
        rq[p].addr - 1 \in Addr /\ dm[p].size - rq[p].cpt \in Nat
  BY BurstFacts
<1>4. "READ" \in Cmds /\ "WRITE" \in Cmds /\ UncachedCmd(p) \in Cmds
  BY DEF Cmds, UncachedCmd
<1>5. rq[p].fsm = "REQ_WRITE" /\ ~NothingSent(p) => rq[p].cpt > 0
  BY BusyFacts
<1> QED BY <1>1, <1>2, <1>3, <1>4, <1>5 DEF Packet, NoPacket, MissAddr

LEMMA OutTypes ==
  ASSUME CacheTypeOK, \A p \in Procs : CacheInv(p)
  PROVE  /\ Ram!OutTypeOK
         /\ \A p \in Procs : p \in Srcs /\ Packets[p] = Packet(p)
<1>1. Procs \subseteq Srcs
  BY NbProcsAssumption, NbSrcsAssumption DEF Procs, Srcs
<1>2. NoPacket \in [cmd : Cmds, addr : Addr, toSend : Nat, toRecv : Nat]
  BY NbWordsAssumption DEF NoPacket, Cmds, Addr
<1>3. Packets \in [Srcs -> [cmd : Cmds, addr : Addr, toSend : Nat, toRecv : Nat]]
  BY <1>2, PacketTypes DEF Packets
<1> QED BY <1>1, <1>3, SameMap, WordTypes DEF Ram!OutTypeOK, Packets

(* The memory controller answers as RSP_FSM expects. *)
LEMMA AnswersExpected ==
  ASSUME RamInv, CacheTypeOK, \A o \in Procs : CacheInv(o), NEW p \in Procs
  PROVE  ResponseOK(p)
<1>1. SUFFICES ASSUME rsp[p] # NoCell
               PROVE  /\ rq[p].fsm \in {"REQ_IDLE", "REQ_DWAIT", "REQ_IWAIT"}
                      /\ rs[p].fsm # "RSP_IDLE"
                      /\ rs[p].fsm \in {"RSP_DMISS", "RSP_IMISS"} =>
                           rs[p].cpt < LineWords /\ (rsp[p].eop <=> rs[p].cpt = LineWords - 1)
                      /\ rs[p].fsm \in {"RSP_WRITE", "RSP_UNC"} => rsp[p].eop
  BY DEF ResponseOK
<1>2. /\ Packet(p).toSend = 0 /\ Packet(p).toRecv > 0
      /\ rsp[p].eop <=> Packet(p).toRecv = 1
  BY <1>1, OutTypes, SameMap DEF RamInv, Ram!PacketInv, Ram!RspMatches
<1>3. ~NothingSent(p)
  BY <1>2 DEF Packet, NoPacket
<1>4. rs[p].cpt \in 0 .. LineWords /\ LineWords \in Nat
  BY RegTypes, SizeFacts DEF RsRegs
<1>5. rq[p].fsm # "REQ_WRITE"
  <2>1. SUFFICES ASSUME rq[p].fsm = "REQ_WRITE" PROVE FALSE
    OBVIOUS
  <2>2. dm[p].size - rq[p].cpt = 0
    BY <1>2, <1>3, <2>1 DEF Packet
  <2> QED BY <2>1, <2>2, BurstFacts
<1>6. /\ rq[p].fsm \in {"REQ_IDLE", "REQ_DWAIT", "REQ_IWAIT"} /\ rs[p].fsm # "RSP_IDLE"
      /\ rs[p].fsm \in {"RSP_IMISS", "RSP_DMISS", "RSP_WRITE", "RSP_UNC"}
  BY <1>3, <1>5, BusyFacts
<1>7. CASE rs[p].fsm \in {"RSP_DMISS", "RSP_IMISS"}
  <2>1. Packet(p).toRecv = LineWords - rs[p].cpt
    BY <1>3, <1>5, <1>7 DEF Packet
  <2>2. rs[p].cpt < LineWords /\ (Packet(p).toRecv = 1 <=> rs[p].cpt = LineWords - 1)
    BY <1>2, <1>4, <2>1
  <2> QED BY <1>2, <1>6, <1>7, <2>2
<1>8. CASE rs[p].fsm \in {"RSP_WRITE", "RSP_UNC"}
  <2>1. Packet(p).toRecv = 1
    BY <1>3, <1>5, <1>8 DEF Packet
  <2> QED BY <1>2, <1>6, <1>8, <2>1
<1> QED BY <1>6, <1>7, <1>8

-----------------------------------------------------------------------------
(* A cycle of a cache.  PortsOK is what the memory controller and the      *)
(* caches need of each other.                                              *)

PortsOK == RamInv /\ CacheTypeOK /\ \A p \in Procs : CacheInv(p)

(* What PortsOK gives, in the names of both systems.                       *)
LEMMA PortFacts ==
  ASSUME PortsOK
  PROVE  /\ Ram!RamTypeOK /\ Ram!PacketInv /\ Ram!RoundInv /\ Ram!ReaderInv
         /\ NocTypeOK /\ Ram!InvTypeOK /\ Ram!TargetTypeOK /\ Ram!OutTypeOK
         /\ \A p \in Procs : p \in Srcs /\ Packets[p] = Packet(p) /\ ResponseOK(p)
<1>1. RamInv /\ CacheTypeOK /\ \A p \in Procs : CacheInv(p)
  BY DEF PortsOK
<1>2. Ram!RamTypeOK /\ Ram!PacketInv /\ Ram!RoundInv /\ Ram!ReaderInv
  BY <1>1 DEF RamInv
<1> QED BY <1>1, <1>2, RamTypes, SplitTypes, OutTypes, AnswersExpected

(* What the machines of p do in a cycle. *)
LEMMA CycleEffects ==
  ASSUME PortsOK, NEW p \in Procs, NEW rspval \in BOOLEAN, NEW invval \in BOOLEAN,
         CacheCycle(p, rspval, invval)
  PROVE  /\ CacheInv(p) /\ ResponseOK(p)
         /\ rspval => rsp[p] # NoCell
         /\ \/ ReqKeeps(p) \/ ReqStartsData(p) \/ ReqStartsWrite(p) \/ ReqStartsInst(p)
            \/ ReqSendsOneCell(p) \/ ReqSendsStore(p) \/ ReqEnds(p)
         /\ \/ RspKeeps(p, rspval) \/ RspStarts(p)
            \/ RspTakesLineCell(p, rspval) \/ RspTakesOneCell(p, rspval)
         /\ TakeRsp(p) => rsp'[p] = NoCell
         /\ (cmd' = [cmd EXCEPT ![p] = CommandCell(p)]) => cmd'[p] = CommandCell(p)
         /\ dm[p].req \/ dm[p].flush =>
              IF rs[p].dOk THEN ~dm'[p].req /\ ~dm'[p].flush /\ ~dm'[p].pending
              ELSE SameRequest(p)
         /\ ic[p].req /\ ~rs[p].iOk => ic'[p].req /\ ic'[p].addr = ic[p].addr
         /\ \A o \in Procs \ {p} : Untouched(o)
         /\ \A o \in Srcs \ {p} : cmd'[o] = cmd[o] /\ rsp'[o] = rsp[o]
<1>1. /\ CacheTypeOK /\ NocTypeOK /\ CacheInv(p) /\ ResponseOK(p) /\ p \in Srcs
      /\ RequestInv(p) /\ ServiceInv(p) /\ InvalInv(p)
  BY PortFacts DEF PortsOK, CacheInv
<1>2. /\ DCacheFsm(p) /\ ICacheFsm(p) /\ ReqFsm(p) /\ RspFsm(p, rspval)
      /\ rspval => rsp[p] # NoCell
  BY DEF CacheCycle
<1>3. (rs[p].dOk <=> DataDone(p)) /\ (rs[p].iOk <=> InstDone(p))
  BY <1>1, OkIsDone
<1>4. \/ ReqKeeps(p) \/ ReqStartsData(p) \/ ReqStartsWrite(p) \/ ReqStartsInst(p)
      \/ ReqSendsOneCell(p) \/ ReqSendsStore(p) \/ ReqEnds(p)
  BY <1>1, <1>2, ReqEffect
<1>5. \/ RspKeeps(p, rspval) \/ RspStarts(p)
      \/ RspTakesLineCell(p, rspval) \/ RspTakesOneCell(p, rspval)
  BY <1>1, <1>2, RspEffect
<1>6. /\ TakeRsp(p) => rsp'[p] = NoCell
      /\ (cmd' = [cmd EXCEPT ![p] = CommandCell(p)]) => cmd'[p] = CommandCell(p)
  BY <1>1 DEF TakeRsp, NocTypeOK
<1>7. dm[p].req \/ dm[p].flush =>
        IF rs[p].dOk THEN ~dm'[p].req /\ ~dm'[p].flush /\ ~dm'[p].pending ELSE SameRequest(p)
  BY <1>1, <1>2, <1>3, RequestHeld
<1>8. ic[p].req /\ ~rs[p].iOk => ic'[p].req /\ ic'[p].addr = ic[p].addr
  BY <1>1, <1>2, <1>3, IcStep DEF IcEffect
<1>9. /\ \A o \in Procs \ {p} : Untouched(o)
      /\ \A o \in Srcs \ {p} : cmd'[o] = cmd[o] /\ rsp'[o] = rsp[o]
  BY <1>1, OthersUntouched
<1> QED BY <1>1, <1>2, <1>4, <1>5, <1>6, <1>7, <1>8, <1>9

LEMMA PacketStays ==
  ASSUME NEW o, Untouched(o)
  PROVE  Packet(o)' = Packet(o)
<1>1. DataReqState(o)' = DataReqState(o)
  BY DEF Untouched, DataReqState
<1> QED BY <1>1 DEF Untouched, Packet, NothingSent, MissAddr, UncachedCmd

(* The ways a cycle may change the packet of p, as the lemmas about the    *)
(* controller's initiators have them.                                      *)
Quiet(p) == cmd'[p] = cmd[p] /\ rsp'[p] = rsp[p] /\ Packet(p)' = Packet(p)

SendsFirst(p) ==
  /\ Packet(p).toRecv = 0 /\ rsp'[p] = rsp[p] /\ cmd'[p] # NoCell
  /\ cmd'[p].cmd = Packet(p)'.cmd /\ cmd'[p].addr = Packet(p)'.addr
  /\ cmd'[p].eop <=> Packet(p)'.toSend = 0
  /\ IF Packet(p)'.cmd = "READ"
     THEN Packet(p)'.toRecv = cmd'[p].cells /\ Packet(p)'.addr + cmd'[p].cells <= NbWords
     ELSE Packet(p)'.toRecv = 1
  /\ Packet(p)'.cmd = "WRITE" => cmd'[p].cells = Packet(p)'.toSend + 1
  /\ Packet(p)'.toSend > 0 => Packet(p)'.cmd = "WRITE"
  /\ Packet(p)'.addr + Packet(p)'.toSend < NbWords

SendsNext(p) ==
  /\ Packet(p).toSend > 0 /\ cmd[p] = NoCell /\ rsp'[p] = rsp[p]
  /\ cmd'[p] # NoCell /\ cmd'[p].cmd = "WRITE" /\ cmd'[p].addr = Packet(p).addr + 1
  /\ cmd'[p].eop <=> Packet(p)'.toSend = 0
  /\ Packet(p)'.cmd = "WRITE" /\ Packet(p)'.toRecv = 1
  /\ Packet(p)'.addr = Packet(p).addr + 1 /\ Packet(p)'.toSend = Packet(p).toSend - 1

Receives(p) ==
  /\ rsp[p] # NoCell /\ rsp'[p] = NoCell /\ cmd'[p] = cmd[p]
  /\ Packet(p)'.toSend = 0 /\ Packet(p)'.addr \in Addr
  /\ Packet(p).toRecv # 1 => Packet(p)'.toRecv = Packet(p).toRecv - 1

(* REQ_FSM and RSP_FSM both idle: nothing moves on the links.              *)
LEMMA IdlePacket ==
  ASSUME PortsOK, NEW p \in Procs, NEW rspval \in BOOLEAN, NEW invval \in BOOLEAN,
         CacheCycle(p, rspval, invval), BothIdle(p)
  PROVE  Quiet(p)
<1>1. RspStarts(p) /\ NothingSent(p)
  BY CycleEffects DEF BothIdle, RspKeeps, RspTakesLineCell, RspTakesOneCell, NothingSent
<1>2. /\ cmd' = cmd /\ rsp' = rsp
      /\ ReqStartsData(p) \/ ReqStartsWrite(p) \/ ReqStartsInst(p)
  BY <1>1, CycleEffects DEF BothIdle, ReqKeeps, ReqStartsData, ReqStartsWrite, ReqStartsInst,
     ReqSendsOneCell, ReqSendsStore, ReqEnds, OneCellStates, RspStarts
<1>3. NothingSent(p)'
  <2>1. CASE ReqStartsData(p) \/ ReqStartsWrite(p)
    BY <2>1, StateFacts DEF ReqStartsData, ReqStartsWrite, DataCellStates, NothingSent, PortsOK
  <2>2. CASE ReqStartsInst(p)
    BY <1>1, <2>2 DEF ReqStartsInst, RspStarts, NothingSent, OneCellStates
  <2> QED BY <1>2, <2>1, <2>2
<1> QED BY <1>1, <1>2, <1>3 DEF Quiet, Packet

(* REQ_FSM sends a command of one cell, if the link is free.               *)
LEMMA OneCellPacket ==
  ASSUME PortsOK, NEW p \in Procs, NEW rspval \in BOOLEAN, NEW invval \in BOOLEAN,
         CacheCycle(p, rspval, invval), rq[p].fsm \in OneCellStates
  PROVE  Quiet(p) \/ SendsFirst(p)
<1>1. /\ CacheTypeOK /\ CacheInv(p) /\ ServiceInv(p) /\ RequestInv(p) /\ NothingSent(p)
      /\ rq[p].fsm \notin {"REQ_IDLE", "REQ_DWAIT", "REQ_IWAIT", "REQ_WRITE"}
  BY DEF PortsOK, CacheInv, NothingSent, OneCellStates
<1>2. /\ rs[p].cpt = 0 /\ rs[p].fsm \in {"RSP_UNC", "RSP_DMISS", "RSP_IMISS"}
      /\ rs[p].fsm = "RSP_IMISS" => rq[p].fsm = "REQ_IMISS" /\ ic[p].req /\ ~rs[p].iOk
      /\ rs[p].fsm # "RSP_IMISS" =>
           dm[p].req /\ ~rs[p].dOk /\ rs[p].fsm = DataRspState(p) /\ rq[p].fsm = DataReqState(p)
  <2>1. CASE rq[p].fsm = "REQ_IMISS"
    BY <1>1, <2>1 DEF ServiceInv
  <2>2. CASE rq[p].fsm \in DataCellStates
    BY <1>1, <2>2, StateFacts DEF ServiceInv
  <2> QED BY <2>1, <2>2 DEF DataCellStates
<1>3. ~rspval /\ rsp' = rsp /\ rs'[p].fsm = rs[p].fsm /\ rs'[p].cpt = 0
  <2>1. ~rspval
    BY <1>1, CycleEffects DEF ResponseOK
  <2> QED BY <1>1, <1>2, <2>1, CycleEffects
          DEF RspKeeps, RspStarts, RspTakesLineCell, RspTakesOneCell, BothIdle
<1>4. ReqKeeps(p) \/ ReqSendsOneCell(p)
  BY <1>1, CycleEffects DEF BothIdle, ReqStartsData, ReqStartsWrite, StartsWrite,
     ReqStartsInst, ReqSendsStore, ReqEnds
<1>5. CASE ReqKeeps(p)
  <2>1. NothingSent(p)' /\ cmd' = cmd
    BY <1>5 DEF ReqKeeps, NothingSent
  <2> QED BY <1>1, <1>3, <2>1 DEF Quiet, Packet
<1>6. CASE ReqSendsOneCell(p)
  <2> DEFINE c == CommandCell(p)
  <2>1. /\ c \in CmdCell /\ c.addr = CommandAddr(p) /\ c.eop
        /\ c.cmd = IF rq[p].fsm = "REQ_LL" THEN "LOCKED_READ"
                   ELSE IF rq[p].fsm = "REQ_SC" THEN "STORE_COND" ELSE "READ"
        /\ c.cells = IF rq[p].fsm \in {"REQ_IMISS", "REQ_DMISS"} THEN LineWords ELSE 1
    BY <1>1, CommandFacts
  <2>2. cmd'[p] = c /\ c # NoCell
    <3>1. cmd'[p] = c
      BY <1>6, CycleEffects DEF ReqSendsOneCell
    <3> HIDE DEF c
    <3> QED BY <2>1, <3>1, NoCellAssumption
  <2>3. /\ rq'[p].fsm \in {"REQ_DWAIT", "REQ_IWAIT"} /\ rq'[p].addr = rq[p].addr
    BY <1>6 DEF ReqSendsOneCell
  <2>4. ~NothingSent(p)'
    BY <1>2, <1>3, <2>3 DEF NothingSent, OneCellStates
  <2>5. /\ rs[p].fsm # "RSP_IMISS" => DataReqState(p)' = DataReqState(p)
        /\ rs[p].fsm = "RSP_IMISS" => ic'[p].addr = ic[p].addr
    BY <1>2, CycleEffects, SameStates
  <2>6. /\ rq[p].addr \in Addr /\ ic[p].addr \in Addr /\ LineWords \in Nat /\ NbWords \in Nat
        /\ \A a \in Addr : a + 1 <= NbWords /\ a < NbWords
        /\ \A a \in Addr : /\ Base(Block(a)) + LineWords <= NbWords
                           /\ Base(Block(a)) \in Nat /\ Base(Block(a)) < NbWords
    <3>1. rq[p].addr \in Addr /\ ic[p].addr \in Addr
      BY <1>1, RegTypes DEF RqRegs, IcRegs
    <3>2. \A a \in Addr : Base(Block(a)) \in Addr /\ Base(Block(a)) + LineWords <= NbWords
      BY AddrTypes
    <3> QED BY <3>1, <3>2, SizeFacts, NbWordsAssumption DEF Addr
  <2>7. Packet(p).toRecv = 0
    BY <1>1 DEF Packet, NoPacket
  <2>8. CASE rs[p].fsm = "RSP_UNC"
    <3>1. rq[p].fsm = DataReqState(p) /\ rq[p].fsm \in {"REQ_LL", "REQ_SC", "REQ_UNC"}
      <4>1. rq[p].fsm = DataReqState(p) /\ (dc[p].unc \/ dc[p].ll \/ dc[p].sc)
        BY <1>2, <2>8 DEF DataRspState
      <4>2. DataReqState(p) \in {"REQ_LL", "REQ_SC", "REQ_UNC"}
        BY <4>1 DEF DataReqState
      <4> QED BY <4>1, <4>2
    <3>2. c.addr = rq[p].addr /\ c.cells = 1 /\ c.cmd = UncachedCmd(p)
      BY <2>1, <3>1 DEF CommandAddr, UncachedCmd
    <3>3. Packet(p)' = [cmd |-> UncachedCmd(p), addr |-> rq[p].addr, toSend |-> 0, toRecv |-> 1]
      BY <1>3, <2>3, <2>4, <2>5, <2>8 DEF Packet, UncachedCmd
    <3>4. UncachedCmd(p) # "WRITE"
      BY DEF UncachedCmd
    <3>5. /\ Packet(p)'.cmd = UncachedCmd(p) /\ Packet(p)'.addr = rq[p].addr
          /\ Packet(p)'.toSend = 0 /\ Packet(p)'.toRecv = 1
      BY <3>3
    <3>6. /\ rq[p].addr \in Nat /\ rq[p].addr < NbWords /\ rq[p].addr + 1 <= NbWords
      BY <2>6, NbWordsAssumption DEF Addr
    <3> HIDE DEF c
    <3> QED BY <1>3, <2>1, <2>2, <2>7, <3>2, <3>4, <3>5, <3>6 DEF SendsFirst
  <2>9. CASE rs[p].fsm # "RSP_UNC"
    <3>1. rq[p].fsm = IF rs[p].fsm = "RSP_IMISS" THEN "REQ_IMISS" ELSE "REQ_DMISS"
      <4>1. CASE rs[p].fsm = "RSP_DMISS"
        <5>1. rq[p].fsm = DataReqState(p) /\ ~dc[p].unc /\ ~dc[p].ll /\ ~dc[p].sc
          BY <1>2, <4>1 DEF DataRspState
        <5> QED BY <4>1, <5>1 DEF DataReqState
      <4> QED BY <1>2, <2>9, <4>1
    <3>2. c.addr = Base(Block(MissAddr(p))) /\ c.cells = LineWords /\ c.cmd = "READ"
      BY <1>2, <2>1, <2>9, <3>1 DEF CommandAddr, MissAddr
    <3>3. Packet(p)' = [cmd |-> "READ", addr |-> Base(Block(MissAddr(p))), toSend |-> 0,
                        toRecv |-> LineWords - 0]
      BY <1>2, <1>3, <2>3, <2>4, <2>5, <2>9 DEF Packet, MissAddr
    <3>4. MissAddr(p) \in Addr
      BY <2>6 DEF MissAddr
    <3> DEFINE a == Base(Block(MissAddr(p)))
    <3>5. a + LineWords <= NbWords /\ a < NbWords /\ a \in Nat
      BY <2>6, <3>4
    <3> HIDE DEF a, c
    <3>6. /\ Packet(p)'.cmd = "READ" /\ Packet(p)'.addr = a /\ Packet(p)'.toSend = 0
          /\ Packet(p)'.toRecv = LineWords
      BY <2>6, <3>3 DEF a
    <3> QED BY <1>3, <2>1, <2>2, <2>6, <2>7, <3>2, <3>5, <3>6 DEF SendsFirst, a
  <2> QED BY <2>8, <2>9
<1> QED BY <1>4, <1>5, <1>6

(* REQ_FSM sends the next cell of a burst, if the link is free.            *)
LEMMA BurstPacket ==
  ASSUME PortsOK, NEW p \in Procs, NEW rspval \in BOOLEAN, NEW invval \in BOOLEAN,
         CacheCycle(p, rspval, invval), rq[p].fsm = "REQ_WRITE"
  PROVE  Quiet(p) \/ SendsFirst(p) \/ SendsNext(p)
<1>1. /\ CacheTypeOK /\ CacheInv(p) /\ dm[p].flush /\ ~dm[p].req /\ ~rs[p].dOk
      /\ rs[p].fsm = "RSP_WRITE" /\ rs[p].cpt = 0
  BY DEF PortsOK, CacheInv, ServiceInv, RequestInv, DataRspState
<1>2. /\ ~rspval /\ rsp' = rsp /\ rs'[p].fsm = "RSP_WRITE"
      /\ dm'[p].size = dm[p].size
  <2>1. ~rspval
    BY <1>1, CycleEffects DEF ResponseOK
  <2> QED BY <1>1, <2>1, CycleEffects
          DEF RspKeeps, RspStarts, RspTakesLineCell, RspTakesOneCell, BothIdle, SameRequest
<1>3. ReqKeeps(p) \/ ReqSendsStore(p)
  BY CycleEffects DEF BothIdle, ReqStartsData, ReqStartsWrite, StartsWrite,
     ReqStartsInst, ReqSendsOneCell, ReqEnds, OneCellStates
<1>4. CASE ReqKeeps(p)
  BY <1>1, <1>2, <1>4 DEF ReqKeeps, Quiet, Packet, NothingSent, OneCellStates
<1>5. CASE ReqSendsStore(p)
  <2> DEFINE c    == CommandCell(p)
             n    == rq[p].cpt
             size == dm[p].size
             a    == rq[p].addr
  <2>1. /\ c \in CmdCell /\ c.addr = a /\ (c.eop <=> LastCell(p)) /\ c.cmd = "WRITE"
        /\ c.cells = size
    BY <1>1, CommandFacts DEF CommandAddr
  <2>2. cmd'[p] = c /\ c # NoCell
    <3>1. cmd'[p] = c
      BY <1>5, CycleEffects DEF ReqSendsStore
    <3> HIDE DEF c
    <3> QED BY <2>1, <3>1, NoCellAssumption
  <2>3. /\ n \in Nat /\ size \in Nat /\ n < size /\ a \in Nat /\ a + (size - n) <= NbWords
        /\ NbWords \in Nat
        /\ LastCell(p) <=> n + 1 = size
        /\ ~LastCell(p) => ReadCell(wb[p]).addr = a + 1
    <3>1. a \in Addr /\ Addr \subseteq Nat /\ NbWords \in Nat
      BY <1>1, BurstFacts, NbWordsAssumption DEF Addr
    <3>2. /\ n \in Nat /\ size \in Nat /\ n < size /\ a + (size - n) <= NbWords
          /\ ~LastCell(p) => ReadCell(wb[p]).addr = a + 1
      BY <1>1, BurstFacts
    <3>3. LastCell(p) <=> n = size - 1
      BY DEF LastCell
    <3> HIDE DEF n, size, a
    <3> QED BY <3>1, <3>2, <3>3
  <2>4. /\ rq'[p].cpt = n + 1
        /\ rq'[p].fsm = IF LastCell(p) THEN "REQ_DWAIT" ELSE "REQ_WRITE"
        /\ rq'[p].addr = IF LastCell(p) THEN a ELSE a + 1
    BY <1>5, <2>3 DEF ReqSendsStore
  <2>5. Packet(p)' = [cmd |-> "WRITE", addr |-> a, toSend |-> size - (n + 1), toRecv |-> 1]
    <3>1. ~NothingSent(p)'
      BY <1>2, <2>3, <2>4 DEF NothingSent, OneCellStates
    <3>2. CASE LastCell(p)
      <4>1. Packet(p)' = [cmd |-> "WRITE", addr |-> a, toSend |-> 0, toRecv |-> 1]
        BY <1>2, <2>4, <3>1, <3>2 DEF Packet
      <4>2. size - (n + 1) = 0
        <5> HIDE DEF n, size
        <5> QED BY <2>3, <3>2
      <4> QED BY <4>1, <4>2
    <3>3. CASE ~LastCell(p)
      <4>1. Packet(p)' = [cmd |-> "WRITE", addr |-> (a + 1) - 1, toSend |-> size - (n + 1),
                          toRecv |-> 1]
        BY <1>2, <2>4, <3>1, <3>3 DEF Packet
      <4>2. (a + 1) - 1 = a
        <5> HIDE DEF a
        <5> QED BY <2>3
      <4> QED BY <4>1, <4>2
    <3> QED BY <3>2, <3>3
  <2>6. /\ Packet(p)'.cmd = "WRITE" /\ Packet(p)'.addr = a
        /\ Packet(p)'.toSend = size - (n + 1) /\ Packet(p)'.toRecv = 1
    BY <2>5
  <2>7. CASE n = 0
    <3>1. Packet(p).toRecv = 0
      BY <2>7 DEF Packet, NothingSent, NoPacket
    <3> HIDE DEF c, n, size, a
    <3> QED BY <1>2, <2>1, <2>2, <2>3, <2>6, <2>7, <3>1 DEF SendsFirst
  <2>8. CASE n > 0
    <3>1. /\ Packet(p).addr = a - 1 /\ Packet(p).toSend = size - n
      BY <1>1, <2>3, <2>8 DEF Packet, NothingSent, OneCellStates
    <3>2. cmd[p] = NoCell
      BY <1>5 DEF ReqSendsStore
    <3> HIDE DEF c, n, size, a
    <3> QED BY <1>2, <2>1, <2>2, <2>3, <2>6, <2>8, <3>1, <3>2 DEF SendsNext
  <2> QED BY <2>3, <2>7, <2>8
<1> QED BY <1>3, <1>4, <1>5

(* REQ_FSM waits for the answer, of which RSP_FSM may take a cell.         *)
LEMMA WaitPacket ==
  ASSUME PortsOK, NEW p \in Procs, NEW rspval \in BOOLEAN, NEW invval \in BOOLEAN,
         CacheCycle(p, rspval, invval),
         rq[p].fsm \in {"REQ_IDLE", "REQ_DWAIT", "REQ_IWAIT"}, ~BothIdle(p)
  PROVE  Quiet(p) \/ Receives(p)
<1>1. CacheTypeOK /\ CacheInv(p)
  BY DEF PortsOK
<1>2. /\ cmd' = cmd /\ rq'[p].addr = rq[p].addr
      /\ rq'[p].fsm = "REQ_IDLE" \/ rq'[p].fsm = rq[p].fsm
  BY CycleEffects DEF ReqKeeps, BothIdle, ReqStartsData, ReqStartsWrite, StartsWrite,
     ReqStartsInst, ReqSendsOneCell, ReqSendsStore, ReqEnds, OneCellStates
<1>3. /\ NothingSent(p) <=> rs[p].fsm = "RSP_IDLE"
      /\ NothingSent(p)' <=> rs'[p].fsm = "RSP_IDLE"
      /\ rq'[p].fsm # "REQ_WRITE" /\ rq[p].fsm # "REQ_WRITE"
  BY <1>2 DEF NothingSent, OneCellStates
<1>4. CASE NothingSent(p)
  <2>1. RspKeeps(p, rspval)
    BY <1>3, <1>4, CycleEffects DEF RspStarts, RspTakesLineCell, RspTakesOneCell
  <2>2. rs'[p].fsm = "RSP_IDLE" /\ rsp' = rsp
    BY <1>3, <1>4, <2>1 DEF RspKeeps
  <2> QED BY <1>2, <1>3, <1>4, <2>2 DEF Quiet, Packet
<1>5. CASE ~NothingSent(p)
  <2>1. /\ rs[p].fsm \in {"RSP_IMISS", "RSP_DMISS", "RSP_WRITE", "RSP_UNC"}
        /\ rs[p].fsm = "RSP_UNC" => DataReqState(p)' = DataReqState(p)
        /\ rs[p].fsm = "RSP_IMISS" => ic'[p].addr = ic[p].addr
    BY <1>1, <1>5, BusyFacts, CycleEffects, SameStates
  <2>2. ASSUME rs'[p].fsm = rs[p].fsm
        PROVE  /\ Packet(p)'.addr = Packet(p).addr /\ Packet(p)'.toSend = 0
               /\ rs[p].fsm \in {"RSP_WRITE", "RSP_UNC"} => Packet(p)' = Packet(p)
               /\ rs[p].fsm \in {"RSP_DMISS", "RSP_IMISS"} =>
                    Packet(p)'.toRecv = LineWords - rs'[p].cpt
               /\ rs'[p].cpt = rs[p].cpt => Packet(p)' = Packet(p)
    <3>1. CASE rs[p].fsm = "RSP_UNC"
      BY <1>2, <1>3, <1>5, <2>1, <2>2, <3>1 DEF Packet, UncachedCmd
    <3>2. CASE rs[p].fsm = "RSP_WRITE"
      BY <1>2, <1>3, <1>5, <2>1, <2>2, <3>2 DEF Packet
    <3>3. CASE rs[p].fsm \in {"RSP_IMISS", "RSP_DMISS"}
      BY <1>2, <1>3, <1>5, <2>1, <2>2, <3>3 DEF Packet, MissAddr
    <3> QED BY <2>1, <3>1, <3>2, <3>3
  <2>3. /\ Packet(p).addr \in Addr /\ 0 \in Addr
    BY <1>1, PacketTypes, NbWordsAssumption DEF Addr
  <2>4. CASE RspKeeps(p, rspval)
    BY <1>2, <2>2, <2>4 DEF RspKeeps, Quiet
  <2>5. ASSUME RspTakesLineCell(p, rspval) \/ RspTakesOneCell(p, rspval)
        PROVE  rsp[p] # NoCell /\ rsp'[p] = NoCell
    BY <2>5, CycleEffects DEF RspTakesLineCell, RspTakesOneCell
  <2>6. rs'[p].fsm = "RSP_IDLE" => Packet(p)' = NoPacket
    BY <1>3 DEF Packet
  <2>7. CASE RspTakesOneCell(p, rspval)
    <3>1. Packet(p).toRecv = 1 /\ rs'[p].fsm = "RSP_IDLE"
      BY <1>3, <1>5, <2>7 DEF RspTakesOneCell, Packet
    <3> QED BY <1>2, <2>3, <2>5, <2>6, <2>7, <3>1 DEF Receives, NoPacket
  <2>8. CASE RspTakesLineCell(p, rspval)
    <3>1. /\ rs[p].fsm \in {"RSP_DMISS", "RSP_IMISS"} /\ rs'[p].cpt = rs[p].cpt + 1
          /\ rs'[p].fsm = IF LastOfLine(p) THEN "RSP_IDLE" ELSE rs[p].fsm
      BY <2>8 DEF RspTakesLineCell
    <3>2. Packet(p).toRecv = LineWords - rs[p].cpt
      BY <1>3, <1>5, <3>1 DEF Packet
    <3>3. rs[p].cpt \in 0 .. LineWords /\ LineWords \in Nat
      BY <1>1, RegTypes, SizeFacts DEF RsRegs
    <3>4. CASE LastOfLine(p)
      <4>1. Packet(p).toRecv = 1
        BY <3>2, <3>3, <3>4 DEF LastOfLine
      <4> QED BY <1>2, <2>3, <2>5, <2>6, <2>8, <3>1, <3>4, <4>1 DEF Receives, NoPacket
    <3>5. CASE ~LastOfLine(p)
      <4>1. Packet(p)'.toRecv = LineWords - (rs[p].cpt + 1)
        BY <2>2, <3>1, <3>5
      <4>2. Packet(p)'.toRecv = Packet(p).toRecv - 1
        BY <3>2, <3>3, <4>1
      <4> QED BY <1>2, <2>2, <2>3, <2>5, <2>8, <3>1, <3>5, <4>2 DEF Receives
    <3> QED BY <3>4, <3>5
  <2> QED BY <1>3, <1>5, <2>4, <2>7, <2>8, CycleEffects DEF RspStarts, BothIdle
<1> QED BY <1>4, <1>5

(* The instance of the memory controller's proofs assumes nothing of its own. *)
LEMMA RamAssumptions ==
  /\ Ram!NbProcsAssumption /\ Ram!NbSrcsAssumption /\ Ram!NbWordsAssumption
  /\ Ram!LineWordsAssumption /\ Ram!LanesAssumption /\ Ram!ValAssumption
  /\ Ram!LinesAssumption /\ Ram!NoCellAssumption /\ Ram!NoBlockAssumption
  /\ Ram!WorkloadsAssumption /\ Ram!StoredAssumption /\ Ram!MaxBurstAssumption
  /\ Ram!MaxCountAssumption
<1>1. /\ Ram!NbProcsAssumption /\ Ram!NbSrcsAssumption /\ Ram!NbWordsAssumption
      /\ Ram!LineWordsAssumption /\ Ram!LanesAssumption /\ Ram!ValAssumption
  BY NbProcsAssumption, NbSrcsAssumption, NbWordsAssumption, LineWordsAssumption,
     LanesAssumption, ValAssumption
  DEF Ram!NbProcsAssumption, Ram!NbSrcsAssumption, Ram!NbWordsAssumption,
      Ram!LineWordsAssumption, Ram!LanesAssumption, Ram!ValAssumption
<1>2. Ram!LinesAssumption
  BY LinesAssumption, SameMap DEF Ram!LinesAssumption
<1>3. Ram!NoCellAssumption /\ Ram!NoBlockAssumption
  BY NoCellAssumption, NoBlockAssumption, SameMap DEF Ram!NoCellAssumption, Ram!NoBlockAssumption
<1>4. Ram!WorkloadsAssumption /\ Ram!StoredAssumption
  BY DEF Ram!WorkloadsAssumption, Ram!StoredAssumption
<1>5. Ram!MaxBurstAssumption /\ Ram!MaxCountAssumption
  BY ValAssumption DEF Ram!MaxBurstAssumption, Ram!MaxCountAssumption
<1> QED BY <1>1, <1>2, <1>3, <1>4, <1>5

(* A cycle of a cache is a step of an initiator, or of none. *)
LEMMA CyclePackets ==
  ASSUME PortsOK, NEW p \in Procs, NEW rspval \in BOOLEAN, NEW invval \in BOOLEAN,
         CacheCycle(p, rspval, invval), UNCHANGED ramRegs
  PROVE  Ram!PacketInv'
<1>1. /\ Ram!TargetTypeOK /\ Ram!OutTypeOK /\ Ram!PacketInv
      /\ p \in Srcs /\ Packets[p] = Packet(p)
  BY PortFacts
<1>2. UNCHANGED <<mode, cur, cellsToGo, sendRsp>>
  BY DEF ramRegs
<1>3. Packets'[p] = Packet(p)'
  BY <1>1 DEF Packets
<1>4. \A r \in Srcs \ {p} : cmd'[r] = cmd[r] /\ rsp'[r] = rsp[r] /\ Packets'[r] = Packets[r]
  BY CycleEffects, PacketStays DEF Packets
<1>5. Ram!Srcs = Srcs /\ Ram!Addr = Addr
  BY SameMap
<1>6. Quiet(p) \/ SendsFirst(p) \/ SendsNext(p) \/ Receives(p)
  <2>1. rq[p].fsm \in OneCellStates \cup {"REQ_WRITE", "REQ_IDLE", "REQ_DWAIT", "REQ_IWAIT"}
    BY StateFacts DEF PortsOK, ReqStates
  <2> QED BY <2>1, IdlePacket, OneCellPacket, BurstPacket, WaitPacket
<1>7. CASE Quiet(p)
  BY <1>1, <1>2, <1>3, <1>4, <1>5, <1>7, RamAssumptions, Ram!QuietPackets DEF Quiet
<1>8. CASE SendsFirst(p)
  BY <1>1, <1>2, <1>3, <1>4, <1>5, <1>8, RamAssumptions, Ram!FirstCellPackets DEF SendsFirst
<1>9. CASE SendsNext(p)
  BY <1>1, <1>2, <1>3, <1>4, <1>5, <1>9, RamAssumptions, Ram!NextCellPackets DEF SendsNext
<1>10. CASE Receives(p)
  BY <1>1, <1>2, <1>3, <1>4, <1>5, <1>10, RamAssumptions, Ram!TakeRspPackets DEF Receives
<1> QED BY <1>6, <1>7, <1>8, <1>9, <1>10

(* Each step of the platform keeps the invariant: a cycle of a cache,      *)
LEMMA CyclePorts ==
  ASSUME PortsOK, NEW p \in Procs, NEW rspval \in BOOLEAN, NEW invval \in BOOLEAN,
         CacheCycle(p, rspval, invval), UNCHANGED ramRegs
  PROVE  PortsOK'
<1>1. /\ CacheTypeOK /\ NocTypeOK /\ ResponseOK(p) /\ Ram!RamTypeOK /\ CacheInv(p)
      /\ \A o \in Procs : CacheInv(o)
      /\ Ram!RoundInv /\ Ram!ReaderInv
  BY PortFacts DEF PortsOK
<1>2. CacheTypeOK' /\ \A o \in Procs : CacheInv(o)'
  BY <1>1, CycleKeepsCaches
<1>3. NocTypeOK'
  BY <1>1, NocTypes
<1>4. Ram!RamTypeOK'
  BY <1>1, <1>3, SameMap DEF Ram!RamTypeOK, Ram!NocTypeOK, NocTypeOK, ramRegs, ramFsmVars
<1>5. Ram!RoundInv' /\ Ram!ReaderInv'
  BY <1>1 DEF Ram!RoundInv, Ram!ReaderInv, Ram!OtherSharers, ramRegs, ramFsmVars
<1> QED BY <1>2, <1>4, <1>5, CyclePackets DEF PortsOK, RamInv

(* A request of the processor disturbs nothing that a component relies on. *)
LEMMA SameCaches ==
  ASSUME UNCHANGED <<dc, dm, ic, rq, rs, wb, iv>>
  PROVE  /\ UNCHANGED Packets
         /\ \A o \in Procs : CacheInv(o) /\ (iv[o].fsm = "INV_CMD" => invCmd'[o] # NoBlock)
                               => CacheInv(o)'
<1>1. \A o : Packet(o)' = Packet(o)
  BY DEF Packet, NothingSent, UncachedCmd, MissAddr, DataReqState
<1>2. UNCHANGED Packets
  BY <1>1 DEF Packets
<1>3. ASSUME NEW o \in Procs, CacheInv(o), iv[o].fsm = "INV_CMD" => invCmd'[o] # NoBlock
      PROVE  CacheInv(o)'
  BY <1>3 DEF CacheInv, RequestInv, ServiceInv, BufferInv, ContiguousInv, InvalInv, Waiting,
     DataRspState, DataReqState
<1> QED BY <1>2, <1>3

(* a request put at a port,                                                *)
LEMMA RequestPorts ==
  ASSUME PortsOK, CacheTypeOK', UNCHANGED <<ramVars, dc, dm, ic, rq, rs, wb, iv>>
  PROVE  PortsOK'
<1>1. UNCHANGED Packets /\ \A o \in Procs : CacheInv(o)'
  <2>1. \A o \in Procs : iv[o].fsm = "INV_CMD" => invCmd'[o] # NoBlock
    BY DEF PortsOK, CacheInv, InvalInv, ramVars, nocVars
  <2> QED BY <2>1, SameCaches DEF PortsOK
<1>2. UNCHANGED <<cmd, rsp, invCmd, invRsp, ramFsm, ramInvFsm, blockState, invBlock, invTarget,
                  directory, sav, mem, link, mode, cur, cellsToGo, sendRsp>>
  BY DEF ramVars, ramRegs, ramFsmVars, nocVars
<1>3. Ram!RamTypeOK' /\ Ram!RoundInv' /\ Ram!ReaderInv'
  BY <1>2 DEF PortsOK, RamInv, Ram!RamTypeOK, Ram!NocTypeOK, Ram!RoundInv, Ram!ReaderInv,
     Ram!OtherSharers
<1>4. /\ UNCHANGED <<mode, cur, cellsToGo, sendRsp>>
      /\ \A r \in Ram!Srcs : cmd'[r] = cmd[r] /\ rsp'[r] = rsp[r] /\ Packets'[r] = Packets[r]
  BY <1>1, <1>2
<1>5. Ram!PacketInv'
  BY <1>4, PortFacts, RamAssumptions, Ram!QuietPackets
<1> QED BY <1>1, <1>3, <1>5 DEF PortsOK, RamInv

(* The bounds of the processors' requests. *)
RequestsOK == types \in Workloads /\ stores \in 0 .. MaxStores

LEMMA CpuPorts ==
  ASSUME PortsOK, RequestsOK, NEW p \in Procs, CpuRequest(p) PROVE PortsOK' /\ RequestsOK'
<1>1. PICK t \in types \ {"FETCH"} : \E a \in IF t \in Links THEN Linked ELSE Used :
        /\ t \in Stores => stores < MaxStores
        /\ cpu' = [cpu EXCEPT ![p] = [type |-> t, addr |-> a, be |-> Lanes,
                     data |-> IF t \in Stores THEN Full(stores + 1) ELSE Zero]]
        /\ stores' = IF t \in Stores THEN stores + 1 ELSE stores
  BY DEF CpuRequest
<1>2. PICK a \in IF t \in Links THEN Linked ELSE Used :
        cpu' = [cpu EXCEPT ![p] = [type |-> t, addr |-> a, be |-> Lanes,
                     data |-> IF t \in Stores THEN Full(stores + 1) ELSE Zero]]
  BY <1>1
<1>3. t \in DataTypes /\ a \in Addr
  BY UsedAssumption, WorkloadsAssumption DEF RequestsOK
<1>4. RequestsOK'
  BY <1>1, MaxStoresAssumption DEF RequestsOK, CpuRequest
<1> DEFINE d == IF t \in Stores THEN Full(stores + 1) ELSE Zero
           q == [type |-> t, addr |-> a, be |-> Lanes, data |-> d]
<1>5. d \in Word
  BY <1>1, MaxStoresAssumption, ValAssumption DEF RequestsOK, Full, Zero, Word
<1>6. q \in DataReq
  <2> HIDE DEF d
  <2>1. Lanes \in (SUBSET Lanes) \ {{}}
    BY LanesAssumption
  <2> QED BY <1>3, <1>5, <2>1 DEF DataReq
<1>7. cpu' = [cpu EXCEPT ![p] = q]
  BY <1>2
<1>8. cpu' \in [Procs -> DataReq \cup {NoReq}]
  <2> HIDE DEF q
  <2> QED BY <1>6, <1>7 DEF PortsOK, CacheTypeOK
<1>9. CacheTypeOK'
  BY <1>8 DEF PortsOK, CacheTypeOK, CpuRequest
<1> QED BY <1>4, <1>9, RequestPorts DEF CpuRequest

LEMMA FetchPorts ==
  ASSUME PortsOK, NEW p \in Procs, FetchRequest(p) PROVE PortsOK'
<1>1. fetch' \in [Procs -> Addr \cup {NoReq}]
  BY FetchedAssumption DEF FetchRequest, PortsOK, CacheTypeOK
<1>2. CacheTypeOK'
  BY <1>1 DEF PortsOK, CacheTypeOK, FetchRequest
<1> QED BY <1>2, RequestPorts DEF FetchRequest

(* A cycle of the memory controller: its own lemmas apply, and it never    *)
(* takes back an invalidation that a cache is about to save.               *)
LEMMA RamPorts == ASSUME PortsOK, RamStep PROVE PortsOK'
<1>1. RamCycle /\ InvFsm /\ RamFsm /\ UNCHANGED cacheVars
  BY DEF RamStep, RamCycle
<1>2. Ram!InvFsm /\ Ram!RamFsm /\ Ram!RamCycle
  BY <1>1, SameInvFsm, SameRamFsm DEF Ram!RamCycle
<1>3. UNCHANGED <<dc, dm, ic, rq, rs, wb, iv>> /\ CacheTypeOK'
  BY <1>1 DEF PortsOK, CacheTypeOK, cacheVars
<1>4. \A o \in Procs : invCmd[o] # NoBlock => invCmd'[o] # NoBlock
  BY <1>1, PortFacts DEF InvFsm, InvIdleKick, InvIdle, InvReq, InvRspWait, InvRspTake, invFsmVars,
     NocTypeOK
<1>5. UNCHANGED Packets /\ \A o \in Procs : CacheInv(o)'
  <2>1. \A o \in Procs : iv[o].fsm = "INV_CMD" => invCmd'[o] # NoBlock
    BY <1>4 DEF PortsOK, CacheInv, InvalInv
  <2> QED BY <1>3, <2>1, SameCaches DEF PortsOK
<1>6. Ram!InvTypeOK' /\ Ram!TargetTypeOK'
  BY <1>2, PortFacts, RamAssumptions, Ram!InvFsmType, Ram!RamFsmType
<1>7. Ram!RamTypeOK'
  BY <1>6 DEF Ram!RamTypeOK, Ram!NocTypeOK, Ram!InvTypeOK, Ram!TargetTypeOK
<1>8. Ram!PacketInv' /\ Ram!RoundInv' /\ Ram!ReaderInv'
  BY <1>2, <1>5, PortFacts, RamAssumptions, Ram!RamFsmPackets, Ram!RoundStep, Ram!ReaderStep
<1> QED BY <1>3, <1>5, <1>7, <1>8 DEF PortsOK, RamInv

LEMMA InitPorts == Init => PortsOK /\ RequestsOK
<1> SUFFICES ASSUME Init PROVE PortsOK /\ RequestsOK
  OBVIOUS
<1>1. NocTypeOK /\ CacheTypeOK /\ \A p \in Procs : CacheInv(p)
  BY CacheInitTyped DEF Init
<1>2. RequestsOK
  BY MaxStoresAssumption DEF Init, RequestsOK
<1>3. Packets = [s \in Srcs |-> NoPacket]
  BY DEF Init, CacheInit, Packets, Packet, NothingSent
<1>4. /\ \A s \in Srcs : cmd[s] = NoCell /\ rsp[s] = NoCell /\ Packets[s] = NoPacket
      /\ mode = "IDLE" /\ ~sendRsp /\ NbWords \in Nat \ {0}
  BY <1>3, NbWordsAssumption DEF Init, NocInit, RamInit
<1>5. Ram!RamTypeOK
  <2>1. /\ 0 \in Procs /\ 0 \in Srcs /\ Block(0) \in Blocks /\ Zero \in Word
    BY RamAssumptions, Ram!ConstantFacts, SameMap
  <2>2. cur \in [src : Srcs, cmd : Cmds, addr : Nat, eop : BOOLEAN, data : Word, ok : BOOLEAN]
    BY <2>1 DEF Init, RamInit, Cmds
  <2>3. link = [s \in Srcs |-> -1]
    BY DEF Init, RamInit, NoLink
  <2> QED BY <1>1, <2>1, <2>2, <2>3, SameMap
          DEF Init, RamInit, Ram!RamTypeOK, Ram!NocTypeOK, NocTypeOK, Ram!Modes,
              Ram!RamStates, Ram!RamInvStates, Ram!NoLink
<1>6. Ram!PacketInv
  BY <1>4, SameMap DEF Ram!PacketInv, Ram!TargetMatches, Ram!PacketFits, Ram!CmdMatches,
     Ram!RspMatches, NoPacket
<1>7. Ram!RoundInv /\ Ram!ReaderInv
  BY DEF Init, RamInit, Ram!RoundInv, Ram!ReaderInv
<1> QED BY <1>1, <1>2, <1>5, <1>6, <1>7 DEF PortsOK, RamInv

(* and so any step.                                                        *)
LEMMA NextPorts == PortsOK /\ RequestsOK /\ [Next]_vars => PortsOK' /\ RequestsOK'
<1> SUFFICES ASSUME PortsOK, RequestsOK, [Next]_vars PROVE PortsOK' /\ RequestsOK'
  OBVIOUS
<1>1. CASE RamStep
  BY <1>1, RamPorts DEF RamStep, RequestsOK
<1>2. ASSUME NEW p \in Procs, CpuRequest(p) PROVE PortsOK' /\ RequestsOK'
  BY <1>2, CpuPorts
<1>3. ASSUME NEW p \in Procs, FetchRequest(p) PROVE PortsOK' /\ RequestsOK'
  BY <1>3, FetchPorts DEF FetchRequest, RequestsOK, history
<1>4. ASSUME NEW p \in Procs, CacheStep(p) PROVE PortsOK' /\ RequestsOK'
  <2>1. PICK rspval \in BOOLEAN, invval \in BOOLEAN : CacheCycle(p, rspval, invval)
    BY <1>4 DEF CacheStep
  <2> QED BY <1>4, <2>1, CyclePorts DEF CacheStep, RequestsOK
<1>5. CASE UNCHANGED vars
  <2>1. CacheTypeOK'
    BY <1>5 DEF PortsOK, CacheTypeOK, vars, cacheVars
  <2>2. UNCHANGED <<ramVars, dc, dm, ic, rq, rs, wb, iv>>
    BY <1>5 DEF vars, cacheVars
  <2> QED BY <1>5, <2>1, <2>2, RequestPorts DEF vars, history, RequestsOK
<1> QED BY <1>1, <1>2, <1>3, <1>4, <1>5 DEF Next

(* Whatever the number of caches and the size of memory, the registers keep *)
(* their types, and each side of the networks is what the other relies on: *)
(* a packet of commands is whole and in the segment, an answer has as many *)
(* cells as RSP_FSM counts, one round of invalidations goes on at a time.  *)
THEOREM PortsAreConsistent == Spec => [](PortsOK /\ RequestsOK)
<1>1. Init => PortsOK /\ RequestsOK
  BY InitPorts
<1>2. (PortsOK /\ RequestsOK) /\ [Next]_vars => (PortsOK /\ RequestsOK)'
  BY NextPorts
<1> QED BY <1>1, <1>2, PTL DEF Spec

(* The type invariant of the platform's caches. *)
THEOREM CachesTyped == Spec => []CacheTypeOK
<1>1. PortsOK /\ RequestsOK => CacheTypeOK
  BY DEF PortsOK
<1> QED BY <1>1, PortsAreConsistent, PTL

(* The assert()s of transition() of the cache never fire. *)
THEOREM CacheAssertionsNeverFire == Spec => []CacheAssertionsHold
<1>1. PortsOK /\ RequestsOK => CacheAssertionsHold
  <2> SUFFICES ASSUME PortsOK PROVE CacheAssertionsHold
    OBVIOUS
  <2>1. CacheTypeOK /\ \A p \in Procs : CacheInv(p) /\ ResponseOK(p)
    BY PortFacts DEF PortsOK
  <2> QED BY <2>1, CacheConsistent DEF CacheAssertionsHold, ResponseOK
<1> QED BY <1>1, PortsAreConsistent, PTL

-----------------------------------------------------------------------------
(***************************************************************************)
(* Coherence of the platform, for any number of caches and any size of     *)
(* memory: the directory knows every copy that is not about to be dropped, *)
(* and such a copy differs from memory by the stores of its own processor  *)
(* only; and what a processor reads never goes back in memory order.  The  *)
(* inductive invariant follows a block from memory to the line of a cache, *)
(* a store from the write buffer to memory, an invalidation from the       *)
(* directory to the tag, and the place in memory order of each word that   *)
(* is in a cache or on its way to it.                                      *)
(***************************************************************************)

(* The cells of the answer to the read of p. *)
Span(p) == IF rs[p].fsm \in {"RSP_DMISS", "RSP_IMISS"} THEN LineWords ELSE 1

Reading(p) == mode = "SIZED_READ" /\ cur.src = p

(* A read, on its way: no answer is an error, so that nothing is retried,  *)
(* the command and its answer are about what the registers of p say.       *)
ReadInv(p) ==
  /\ rsp[p] # NoCell => ~rsp[p].error
  /\ ~rs[p].dRetry /\ ~rs[p].iRetry
  /\ rq[p].fsm = "REQ_DWAIT" /\ dm[p].req => rq[p].addr = dc[p].addr
  /\ cmd[p] # NoCell /\ cmd[p].cmd = "READ" => cmd[p].cells = Span(p)
  /\ Reading(p) => cur.addr + cellsToGo = Packet(p).addr + Span(p)
  /\ rs[p].fsm \in {"RSP_DMISS", "RSP_IMISS"} /\ cur.src = p /\ (mode # "IDLE" \/ sendRsp) =>
       mode = "SIZED_READ"

(* An invalidation, from the network to the tags: INV_FSM holds it until   *)
(* DCACHE_FSM has looked at the tag.                                       *)
InvalTakenInv(p) ==
  /\ iv[p].req => iv[p].fsm \in {"INV_CMD", "INV_WAIT"}
  /\ iv[p].fsm = "INV_CMD" => iv[p].req
  /\ dc[p].fsm = "DCACHE_RAMINVAL" =>
       /\ ~iv[p].req
       /\ iv[p].fsm = "INV_WAIT" \/ (iv[p].fsm = "INV_RSP" /\ ~rs[p].dOk)

(* p has been, is being or is going to be told to drop b. *)
Condemned(p, b) ==
  \/ RoundAhead(p, b)
  \/ invCmd[p] = b
  \/ iv[p].block = b /\ \/ iv[p].req /\ iv[p].fsm = "INV_WAIT"
                        \/ dc[p].fsm = "DCACHE_RAMINVAL"

(* A line that is being read was asked for as one, and its tag is set      *)
(* unless it has been invalidated meanwhile.                               *)
FillingInv(p) ==
  Filling(p) =>
    /\ dc[p].fsm # "DCACHE_MISSUPDT" => ~dc[p].unc /\ ~dc[p].ll /\ ~dc[p].sc
    /\ tag[p][Slot(Block(dc[p].addr))] \in {Block(dc[p].addr), NoBlock}

Fills(p, b) == Filling(p) /\ Block(dc[p].addr) = b
Served(p) ==
  \/ rs[p].fsm = "RSP_DMISS" /\ (rs[p].cpt > 0 \/ rsp[p] # NoCell)
  \/ rs[p].dOk
  \/ dc[p].fsm = "DCACHE_MISSUPDT"

(* The memory controller sets the presence bit of p with the last word of  *)
(* a line, when the first ones may already be there.                       *)
CoverInv(p) ==
  \A b \in Blocks :
    tag[p][Slot(b)] = b /\ (Fills(p, b) => Served(p)) =>
      \/ p \in directory[b]
      \/ Condemned(p, b)
      \/ Fills(p, b) /\ rs[p].fsm = "RSP_DMISS" /\ Reading(p)

-----------------------------------------------------------------------------
(* INV_FSM: what a cycle does to the invalidation it has taken. *)
LEMMA IvShape ==
  ASSUME CacheTypeOK, NocTypeOK, NEW p \in Procs, NEW invval \in BOOLEAN, InvalFsm(p, invval)
  PROVE  /\ iv'[p].block = IF iv[p].fsm = "INV_CMD" THEN invCmd[p] ELSE iv[p].block
         /\ invCmd'[p] = IF iv[p].fsm = "INV_CMD" THEN NoBlock ELSE invCmd[p]
         /\ iv[p].fsm = "INV_IDLE" => iv'[p].fsm \in {"INV_IDLE", "INV_CMD"}
         /\ iv[p].fsm = "INV_CMD" => iv'[p].fsm = "INV_WAIT"
         /\ iv[p].fsm = "INV_WAIT" => iv'[p].fsm = IF iv[p].req THEN "INV_WAIT" ELSE "INV_RSP"
         /\ iv[p].fsm = "INV_RSP" => iv'[p].fsm \in {"INV_RSP", "INV_IDLE"}
         /\ iv'[p].fsm = "INV_CMD" => iv'[p].req
         /\ iv'[p].fsm # "INV_CMD" => (iv'[p].req <=> iv[p].req /\ ~TakesInval(p))
<1>1. iv \in [Procs -> IvRegs] /\ iv[p] \in IvRegs /\ invCmd \in [Procs -> Blocks \cup {NoBlock}]
  BY DEF CacheTypeOK, NocTypeOK
<1> DEFINE q == iv[p].req /\ ~TakesInval(p)
           n == [iv[p] EXCEPT !.req = q]
<1>2. /\ n \in IvRegs /\ n.fsm = iv[p].fsm /\ n.block = iv[p].block /\ (n.req <=> q)
      /\ IvNow(p) = n
  <2>1. IvNow(p) = n
    BY DEF IvNow
  <2>2. q \in BOOLEAN
    OBVIOUS
  <2> HIDE DEF q
  <2> QED BY <1>1, <2>1, <2>2 DEF IvRegs
<1> HIDE DEF n
<1>3. CASE IvIdle(p, invval)
  <2>1. iv'[p] = (IF invval THEN [n EXCEPT !.req = TRUE, !.fsm = "INV_CMD"] ELSE n)
        /\ invCmd' = invCmd /\ iv[p].fsm = "INV_IDLE"
    BY <1>1, <1>2, <1>3 DEF IvIdle, SetIv
  <2> QED BY <1>2, <2>1 DEF IvRegs
<1>4. CASE IvCommand(p)
  <2>1. iv'[p] = [n EXCEPT !.block = invCmd[p], !.fsm = "INV_WAIT"] /\ iv[p].fsm = "INV_CMD"
        /\ invCmd'[p] = NoBlock
    BY <1>1, <1>2, <1>4 DEF IvCommand, SetIv
  <2> QED BY <1>2, <2>1 DEF IvRegs
<1>5. CASE IvWait(p)
  <2>1. iv'[p] = [n EXCEPT !.fsm = IF iv[p].req THEN n.fsm ELSE "INV_RSP"]
        /\ invCmd' = invCmd /\ iv[p].fsm = "INV_WAIT"
    BY <1>1, <1>2, <1>5 DEF IvWait, SetIv
  <2> QED BY <1>2, <2>1 DEF IvRegs
<1>6. CASE IvAnswer(p)
  <2>1. iv'[p] = [n EXCEPT !.fsm = IF invRsp[p] THEN n.fsm ELSE "INV_IDLE"]
        /\ invCmd' = invCmd /\ iv[p].fsm = "INV_RSP"
    BY <1>1, <1>2, <1>6 DEF IvAnswer, SetIv
  <2> QED BY <1>2, <2>1 DEF IvRegs
<1> QED BY <1>3, <1>4, <1>5, <1>6 DEF InvalFsm

(* A cycle of the cache p, in the terms of the lemmas above. *)
LEMMA CycleShape ==
  ASSUME PortsOK, NEW p \in Procs, NEW rspval \in BOOLEAN, NEW invval \in BOOLEAN,
         CacheCycle(p, rspval, invval)
  PROVE  /\ CacheTypeOK /\ NocTypeOK /\ p \in Srcs
         /\ RequestInv(p) /\ ServiceInv(p) /\ BufferInv(p) /\ ContiguousInv(p) /\ InvalInv(p)
         /\ rs[p].dOk <=> DataDone(p)
         /\ \/ TakesAway(p) \/ Idles(p) \/ StoresWord(p) \/ Misses(p) \/ AsksWord(p)
            \/ UpdatesWord(p) \/ Waits(p) \/ FillsLine(p) \/ DropsLine(p) \/ Invalidates(p)
         /\ rspval => rsp[p] # NoCell
         /\ InvalFsm(p, invval) /\ DCacheFsm(p)
<1>1. CacheTypeOK /\ NocTypeOK /\ CacheInv(p) /\ p \in Srcs
  BY PortFacts DEF PortsOK
<1>2. DCacheFsm(p) /\ InvalFsm(p, invval) /\ (rspval => rsp[p] # NoCell)
  BY DEF CacheCycle
<1> QED BY <1>1, <1>2, OkIsDone, DcShape DEF CacheInv

(* An invalidation stays with INV_FSM until DCACHE_FSM has looked at the   *)
(* tag.                                                                    *)
LEMMA InvalTakenStep ==
  ASSUME PortsOK, NEW p \in Procs, NEW rspval \in BOOLEAN, NEW invval \in BOOLEAN,
         CacheCycle(p, rspval, invval), InvalTakenInv(p)
  PROVE  InvalTakenInv(p)'
<1>1. /\ ServiceInv(p) /\ InvalInv(p) /\ (rs[p].dOk <=> DataDone(p)) /\ iv[p] \in IvRegs
      /\ \/ TakesAway(p) \/ Idles(p) \/ StoresWord(p) \/ Misses(p) \/ AsksWord(p)
         \/ UpdatesWord(p) \/ Waits(p) \/ FillsLine(p) \/ DropsLine(p) \/ Invalidates(p)
  BY CycleShape, RegTypes
<1>2. iv[p].fsm \in {"INV_IDLE", "INV_CMD", "INV_WAIT", "INV_RSP"}
  BY <1>1 DEF IvRegs
<1>3. /\ iv[p].fsm = "INV_IDLE" => iv'[p].fsm \in {"INV_IDLE", "INV_CMD"}
      /\ iv[p].fsm = "INV_CMD" => iv'[p].fsm = "INV_WAIT"
      /\ iv[p].fsm = "INV_WAIT" => iv'[p].fsm = IF iv[p].req THEN "INV_WAIT" ELSE "INV_RSP"
      /\ iv[p].fsm = "INV_RSP" => iv'[p].fsm \in {"INV_RSP", "INV_IDLE"}
      /\ iv'[p].fsm = "INV_CMD" => iv'[p].req
      /\ iv'[p].fsm # "INV_CMD" => (iv'[p].req <=> iv[p].req /\ ~TakesInval(p))
  BY CycleShape, IvShape
<1>4. /\ iv'[p].req => iv'[p].fsm \in {"INV_CMD", "INV_WAIT"}
      /\ iv'[p].fsm = "INV_CMD" => iv'[p].req
  BY <1>2, <1>3 DEF InvalTakenInv
<1>5. ASSUME dc'[p].fsm = "DCACHE_RAMINVAL"
      PROVE  /\ ~iv'[p].req
             /\ iv'[p].fsm = "INV_WAIT" \/ (iv'[p].fsm = "INV_RSP" /\ ~rs'[p].dOk)
  <2>1. CASE TakesAway(p)
    BY <1>2, <1>3, <2>1 DEF TakesAway, TakesInval, InvalTakenInv
  <2>2. CASE Invalidates(p)
    <3>1. rs[p].dOk /\ dc[p].fsm = "DCACHE_RAMINVAL"
      BY <1>1, <1>5, <2>2 DEF Invalidates, InvalInv, WaitStates
    <3>2. rq[p].fsm = "REQ_DWAIT" /\ rs[p].fsm = "RSP_IDLE"
      BY <1>1, <3>1 DEF DataDone, ServiceInv
    <3>3. RspKeeps(p, rspval)
      BY <3>2, CycleEffects DEF RspStarts, BothIdle, RspTakesLineCell, RspTakesOneCell
    <3>4. ~rs'[p].dOk
      BY <1>1, <3>1, <3>3 DEF RspKeeps, FlagsAfter
    <3> QED BY <1>3, <3>1, <3>4 DEF InvalTakenInv
  <2> QED BY <1>1, <1>5, <2>1, <2>2
          DEF Idles, StoresWord, Misses, AsksWord, UpdatesWord, Waits, FillsLine, DropsLine,
              WaitStates
<1> QED BY <1>4, <1>5 DEF InvalTakenInv

(* p goes on being told to drop b until it has no line of b. *)
LEMMA CondemnedCycle ==
  ASSUME PortsOK, NEW p \in Procs, NEW rspval \in BOOLEAN, NEW invval \in BOOLEAN,
         CacheCycle(p, rspval, invval), UNCHANGED ramRegs, InvalTakenInv(p),
         NEW b \in Blocks, Condemned(p, b)
  PROVE  Condemned(p, b)' \/ tag'[p][Slot(b)] # b
<1>1. /\ CacheTypeOK /\ NocTypeOK
      /\ \/ TakesAway(p) \/ Idles(p) \/ StoresWord(p) \/ Misses(p) \/ AsksWord(p)
         \/ UpdatesWord(p) \/ Waits(p) \/ FillsLine(p) \/ DropsLine(p) \/ Invalidates(p)
  BY CycleShape
<1>2. /\ iv'[p].block = IF iv[p].fsm = "INV_CMD" THEN invCmd[p] ELSE iv[p].block
      /\ invCmd'[p] = IF iv[p].fsm = "INV_CMD" THEN NoBlock ELSE invCmd[p]
      /\ iv[p].fsm = "INV_CMD" => iv'[p].fsm = "INV_WAIT"
      /\ iv[p].fsm = "INV_WAIT" => iv'[p].fsm = IF iv[p].req THEN "INV_WAIT" ELSE "INV_RSP"
      /\ iv'[p].fsm # "INV_CMD" => (iv'[p].req <=> iv[p].req /\ ~TakesInval(p))
  BY CycleShape, IvShape
<1>3. CASE RoundAhead(p, b)
  BY <1>3 DEF RoundAhead, OtherSharers, Condemned, ramRegs, ramFsmVars
<1>4. iv[p].req /\ TakesInval(p) => dc'[p].fsm = "DCACHE_RAMINVAL"
  BY <1>1 DEF TakesAway, Idles, StoresWord, Misses, AsksWord, LooksUp, UpdatesWord, Waits,
     FillsLine, DropsLine, Invalidates, TakesInval, WaitStates
<1>5. CASE invCmd[p] = b
  BY <1>2, <1>4, <1>5 DEF Condemned, InvalTakenInv
<1>6. CASE iv[p].block = b /\ iv[p].req /\ iv[p].fsm = "INV_WAIT"
  BY <1>2, <1>4, <1>6 DEF Condemned
<1>7. CASE iv[p].block = b /\ dc[p].fsm = "DCACHE_RAMINVAL"
  <2>1. tag'[p] = IF tag[p][Slot(b)] = b
                  THEN [tag[p] EXCEPT ![Slot(b)] = NoBlock] ELSE tag[p]
    BY <1>1, <1>7
    DEF TakesAway, Idles, StoresWord, Misses, AsksWord, LooksUp, UpdatesWord, Waits,
        FillsLine, DropsLine, Invalidates, TakesInval, WaitStates
  <2>2. tag[p] \in [Slots -> Blocks \cup {NoBlock}] /\ Slot(b) \in Slots
    BY <1>1, AddrTypes DEF CacheTypeOK
  <2> QED BY <2>1, <2>2, NoBlockAssumption
<1> QED BY <1>3, <1>5, <1>6, <1>7 DEF Condemned

-----------------------------------------------------------------------------
(* The line that is being read. *)

LEMMA FillStep ==
  ASSUME PortsOK, NEW p \in Procs, NEW rspval \in BOOLEAN, NEW invval \in BOOLEAN,
         CacheCycle(p, rspval, invval)
  PROVE  /\ Filling(p) /\ ~rs[p].dOk /\ dc[p].fsm # "DCACHE_MISSUPDT" =>
              Filling(p)' /\ SameData(p) /\ dc'[p].fsm # "DCACHE_MISSUPDT"
         /\ Filling(p)' => Misses(p) \/ (Filling(p) /\ SameData(p)
                                         /\ dc[p].fsm # "DCACHE_MISSUPDT")
         /\ dc'[p].fsm = "DCACHE_MISSUPDT" => Filling(p) /\ rs[p].dOk
<1>1. /\ \/ TakesAway(p) \/ Idles(p) \/ StoresWord(p) \/ Misses(p) \/ AsksWord(p)
         \/ UpdatesWord(p) \/ Waits(p) \/ FillsLine(p) \/ DropsLine(p) \/ Invalidates(p)
      /\ dc[p].prev \in WaitStates \cup {"DCACHE_IDLE"}
  BY CycleShape DEF InvalInv
<1>2. /\ Filling(p) <=> \/ dc[p].fsm \in {"DCACHE_MISSWAIT", "DCACHE_MISSUPDT"}
                        \/ dc[p].fsm = "DCACHE_RAMINVAL" /\ dc[p].prev = "DCACHE_MISSWAIT"
      /\ Filling(p)' <=> \/ dc'[p].fsm \in {"DCACHE_MISSWAIT", "DCACHE_MISSUPDT"}
                         \/ dc'[p].fsm = "DCACHE_RAMINVAL" /\ dc'[p].prev = "DCACHE_MISSWAIT"
  BY DEF Filling
<1>3. CASE TakesAway(p)
  BY <1>2, <1>3 DEF TakesAway, TakesInval, WaitStates
<1>4. CASE Idles(p) \/ StoresWord(p) \/ AsksWord(p) \/ UpdatesWord(p) \/ FillsLine(p) \/ DropsLine(p)
  BY <1>2, <1>4 DEF Idles, StoresWord, AsksWord, LooksUp, UpdatesWord, FillsLine, DropsLine
<1>5. CASE Misses(p)
  BY <1>2, <1>5 DEF Misses, LooksUp
<1>6. CASE Waits(p)
  BY <1>2, <1>6 DEF Waits, WaitStates
<1>7. CASE Invalidates(p)
  BY <1>1, <1>2, <1>7 DEF Invalidates, WaitStates
<1> QED BY <1>1, <1>3, <1>4, <1>5, <1>6, <1>7

(* A cycle of the cache keeps what its registers say of the line that is   *)
(* coming.                                                                 *)
LEMMA FillingStep ==
  ASSUME PortsOK, NEW p \in Procs, NEW rspval \in BOOLEAN, NEW invval \in BOOLEAN,
         CacheCycle(p, rspval, invval), FillingInv(p)
  PROVE  FillingInv(p)'
<1> SUFFICES ASSUME Filling(p)'
             PROVE  /\ dc'[p].fsm # "DCACHE_MISSUPDT" => ~dc'[p].unc /\ ~dc'[p].ll /\ ~dc'[p].sc
                    /\ tag'[p][Slot(Block(dc'[p].addr))] \in {Block(dc'[p].addr), NoBlock}
  BY DEF FillingInv
<1>1. /\ CacheTypeOK
      /\ \/ TakesAway(p) \/ Idles(p) \/ StoresWord(p) \/ Misses(p) \/ AsksWord(p)
         \/ UpdatesWord(p) \/ Waits(p) \/ FillsLine(p) \/ DropsLine(p) \/ Invalidates(p)
  BY CycleShape
<1>2. tag[p] \in [Slots -> Blocks \cup {NoBlock}]
  BY <1>1 DEF CacheTypeOK
<1>3. CASE Misses(p)
  <2>1. cpu[p] \in DataReq
    BY <1>1, <1>3 DEF CacheTypeOK, Misses, LooksUp
  <2>2. Slot(Block(cpu[p].addr)) \in Slots
    BY <2>1, AddrTypes DEF DataReq
  <2> QED BY <1>2, <1>3, <2>2 DEF Misses, LooksUp
<1>4. CASE Filling(p) /\ SameData(p) /\ dc[p].fsm # "DCACHE_MISSUPDT"
  <2>1. dc[p] \in DcRegs /\ iv[p] \in IvRegs
    BY <1>1, RegTypes
  <2>2. Slot(Block(dc[p].addr)) \in Slots /\ Slot(iv[p].block) \in Slots
    BY <2>1, AddrTypes DEF DcRegs, IvRegs
  <2> DEFINE y == Slot(Block(dc[p].addr))
  <2>3. tag'[p][y] \in {tag[p][y], NoBlock}
    <3>1. tag'[p] = tag[p] \/ tag'[p] = [tag[p] EXCEPT ![Slot(iv[p].block)] = NoBlock]
      BY <1>1, <1>4
      DEF TakesAway, Idles, StoresWord, Misses, AsksWord, LooksUp, UpdatesWord, Waits,
          FillsLine, DropsLine, Invalidates, SameLines, Filling
    <3> QED BY <1>2, <2>2, <3>1
  <2>4. tag[p][y] \in {Block(dc[p].addr), NoBlock} /\ ~dc[p].unc /\ ~dc[p].ll /\ ~dc[p].sc
    BY <1>4 DEF FillingInv
  <2> QED BY <1>4, <2>3, <2>4 DEF SameData
<1> QED BY <1>3, <1>4, FillStep

(* A line of which no cell has come is not served when it begins to be     *)
(* read, nor by a cycle of the cache.                                      *)
LEMMA NotServedStep ==
  ASSUME PortsOK, NEW p \in Procs, NEW rspval \in BOOLEAN, NEW invval \in BOOLEAN,
         CacheCycle(p, rspval, invval), ReadInv(p), FillingInv(p),
         (Filling(p) /\ ~Served(p)) \/ Misses(p)
  PROVE  ~Served(p)'
<1>1. /\ RequestInv(p) /\ ServiceInv(p) /\ ResponseOK(p) /\ ~rs[p].dRetry
      /\ rspval => rsp[p] # NoCell
      /\ \/ RspKeeps(p, rspval) \/ RspStarts(p)
         \/ RspTakesLineCell(p, rspval) \/ RspTakesOneCell(p, rspval)
  BY CycleShape, CycleEffects DEF ReadInv
<1>2. /\ ~rs[p].dOk /\ rs[p].fsm \in {"RSP_IDLE", "RSP_DMISS", "RSP_IMISS"}
      /\ rs[p].fsm = "RSP_DMISS" => rs[p].cpt = 0 /\ rsp[p] = NoCell
      /\ dc'[p].fsm # "DCACHE_MISSUPDT"
  <2>1. rq[p].fsm \in DataCellStates \cup {"REQ_IDLE", "REQ_WRITE", "REQ_DWAIT", "REQ_IWAIT", "REQ_IMISS"}
    BY CycleShape, StateFacts DEF ReqStates, DataCellStates
  <2>2. CASE Filling(p) /\ ~Served(p)
    <3>1. dm[p].req /\ ~dm[p].flush /\ DataRspState(p) = "RSP_DMISS"
      BY <1>1, <2>2 DEF RequestInv, Waiting, WaitStates, Served, FillingInv, DataRspState, Filling
    <3>2. /\ ~rs[p].dOk /\ (rs[p].fsm = "RSP_DMISS" => rs[p].cpt = 0 /\ rsp[p] = NoCell)
      <4>1. rs[p].cpt \in Nat
        BY CycleShape, RegTypes, SizeFacts DEF RsRegs
      <4> QED BY <2>2, <4>1 DEF Served
    <3>3. rs[p].fsm \in {"RSP_IDLE", "RSP_DMISS", "RSP_IMISS"}
      BY <1>1, <2>1, <3>1 DEF ServiceInv
    <3> QED BY <2>2, <3>2, <3>3, FillStep DEF Served
  <2>3. CASE Misses(p)
    <3>1. ~dm[p].req /\ ~dm[p].flush
      BY <1>1, <2>3 DEF Misses, LooksUp, RequestInv, Waiting, WaitStates
    <3>2. ~rs[p].dOk /\ rs[p].fsm \in {"RSP_IDLE", "RSP_IMISS"}
      BY <1>1, <2>1, <3>1 DEF ServiceInv
    <3> QED BY <2>3, <3>2 DEF Misses
  <2> QED BY <2>2, <2>3
<1>3. ~rs'[p].dOk
  BY <1>1, <1>2 DEF RspKeeps, RspStarts, RspTakesLineCell, RspTakesOneCell, FlagsAfter
<1>4. ASSUME rs'[p].fsm = "RSP_DMISS" PROVE rs'[p].cpt = 0 /\ rsp'[p] = NoCell
  <2>1. CASE RspKeeps(p, rspval)
    BY <1>2, <1>4, <2>1 DEF RspKeeps
  <2>2. CASE RspStarts(p)
    BY <1>1, <2>2 DEF RspStarts, BothIdle, ResponseOK
  <2>3. CASE RspTakesLineCell(p, rspval) \/ RspTakesOneCell(p, rspval)
    BY <1>1, <1>2, <1>4, <2>3 DEF RspTakesLineCell, RspTakesOneCell
  <2> QED BY <1>1, <2>1, <2>2, <2>3
<1> QED BY <1>2, <1>3, <1>4 DEF Served

(* While memory answers p, its answer goes on. *)
LEMMA ReadStays ==
  ASSUME PortsOK, NEW p \in Procs, NEW rspval \in BOOLEAN, NEW invval \in BOOLEAN,
         CacheCycle(p, rspval, invval), ReadInv(p), Reading(p)
  PROVE  /\ rs'[p].fsm = rs[p].fsm /\ Packet(p)'.addr = Packet(p).addr
         /\ ~NothingSent(p) /\ Packet(p).toSend = 0
         /\ Packet(p).toRecv = cellsToGo + (IF rsp[p] = NoCell THEN 0 ELSE 1)
         /\ cellsToGo \in Nat \ {0}
<1>1. /\ Packets[p] = Packet(p) /\ Ram!ReadingLine(p) /\ cellsToGo \in Nat
      /\ cur.src = p /\ mode = "SIZED_READ"
  BY PortFacts, RamTypes DEF Ram!PacketInv, Ram!TargetMatches, Reading
<1>2. /\ Packet(p).toSend = 0 /\ cellsToGo \in Nat \ {0}
      /\ Packet(p).toRecv = cellsToGo + (IF rsp[p] = NoCell THEN 0 ELSE 1)
  BY <1>1 DEF Ram!ReadingLine
<1>3. ~NothingSent(p)
  <2>1. Packet(p).toRecv > 0
    BY <1>2
  <2>2. NothingSent(p) => Packet(p).toRecv = 0
    BY DEF Packet, NoPacket
  <2> QED BY <2>1, <2>2
<1>4. CacheTypeOK /\ CacheInv(p) /\ dm[p].size \in Nat /\ rs[p].cpt \in Nat /\ LineWords \in Nat
  BY RegTypes, SizeFacts DEF PortsOK, DmRegs, RsRegs
<1>5. /\ rs[p].fsm \in {"RSP_IMISS", "RSP_DMISS", "RSP_WRITE", "RSP_UNC"}
      /\ rs[p].fsm = "RSP_IMISS" => ic[p].req /\ ~rs[p].iOk
      /\ rq[p].fsm \in {"REQ_WRITE", "REQ_IDLE", "REQ_DWAIT", "REQ_IWAIT"}
  BY <1>3, <1>4, BusyFacts
<1>6. rq[p].fsm # "REQ_WRITE"
  <2> SUFFICES ASSUME rq[p].fsm = "REQ_WRITE" PROVE FALSE
    OBVIOUS
  <2>1. rq[p].cpt \in Nat /\ rq[p].cpt < dm[p].size
    BY <1>4, BurstFacts
  <2>2. Packet(p).toSend = dm[p].size - rq[p].cpt
    BY <1>3 DEF Packet
  <2> QED BY <1>2, <1>4, <2>1, <2>2
<1>7. /\ rq'[p].fsm \in {"REQ_IDLE", "REQ_DWAIT", "REQ_IWAIT"} /\ rq'[p].addr = rq[p].addr
  BY <1>5, <1>6, CycleEffects
  DEF ReqKeeps, BothIdle, ReqStartsData, ReqStartsWrite, StartsWrite, ReqStartsInst,
      ReqSendsOneCell, ReqSendsStore, ReqEnds, OneCellStates
<1>8. rs'[p].fsm = rs[p].fsm
  <2>1. CASE RspKeeps(p, rspval)
    BY <2>1 DEF RspKeeps
  <2>2. ~RspStarts(p)
    BY <1>5 DEF RspStarts, BothIdle
  <2>3. ASSUME rsp[p] # NoCell PROVE Packet(p).toRecv # 1
    BY <1>2, <2>3
  <2>4. ~RspTakesOneCell(p, rspval)
    <3> SUFFICES ASSUME RspTakesOneCell(p, rspval) PROVE FALSE
      OBVIOUS
    <3>1. Packet(p).toRecv = 1
      BY <1>3, <1>6 DEF Packet, RspTakesOneCell
    <3>2. rsp[p] # NoCell
      BY CycleEffects DEF RspTakesOneCell
    <3> QED BY <2>3, <3>1, <3>2
  <2>5. CASE RspTakesLineCell(p, rspval)
    <3>1. rsp[p] # NoCell /\ rs[p].fsm \in {"RSP_DMISS", "RSP_IMISS"}
          /\ rs'[p].fsm = IF LastOfLine(p) THEN "RSP_IDLE" ELSE rs[p].fsm
      BY <2>5, CycleEffects DEF RspTakesLineCell
    <3>2. Packet(p).toRecv = LineWords - rs[p].cpt
      BY <1>3, <1>6, <3>1 DEF Packet
    <3>3. ~LastOfLine(p)
      BY <1>4, <2>3, <3>1, <3>2 DEF LastOfLine
    <3> QED BY <3>1, <3>3
  <2> QED BY <2>1, <2>2, <2>4, <2>5, CycleEffects
<1>9. ~NothingSent(p)'
  BY <1>5, <1>7, <1>8 DEF NothingSent, OneCellStates
<1>10. rs[p].fsm = "RSP_IMISS" => ic'[p].addr = ic[p].addr
  BY <1>5, CycleEffects
<1>11. Packet(p)'.addr = Packet(p).addr
  BY <1>3, <1>5, <1>6, <1>7, <1>8, <1>9, <1>10 DEF Packet, MissAddr
<1> QED BY <1>2, <1>3, <1>8, <1>11

(* A cycle of the cache keeps what its registers say of the read on its    *)
(* way.                                                                    *)
LEMMA ReadStep ==
  ASSUME PortsOK, NEW p \in Procs, NEW rspval \in BOOLEAN, NEW invval \in BOOLEAN,
         CacheCycle(p, rspval, invval), UNCHANGED ramRegs, ReadInv(p)
  PROVE  ReadInv(p)'
<1>1. /\ CacheTypeOK /\ CacheInv(p) /\ RequestInv(p) /\ ServiceInv(p) /\ ResponseOK(p) /\ p \in Srcs
      /\ rsp[p] # NoCell => ~rsp[p].error
      /\ ~rs[p].dRetry /\ ~rs[p].iRetry
      /\ rspval => rsp[p] # NoCell
      /\ \/ RspKeeps(p, rspval) \/ RspStarts(p)
         \/ RspTakesLineCell(p, rspval) \/ RspTakesOneCell(p, rspval)
      /\ TakeRsp(p) => rsp'[p] = NoCell
  BY CycleShape, CycleEffects DEF ReadInv
<1>2. UNCHANGED <<mode, cur, cellsToGo, sendRsp>>
  BY DEF ramRegs
<1>3. rsp'[p] # NoCell => ~rsp'[p].error
  BY <1>1 DEF RspKeeps, RspStarts, RspTakesLineCell, RspTakesOneCell
<1>4. ~rs'[p].dRetry /\ ~rs'[p].iRetry
  BY <1>1 DEF RspKeeps, RspStarts, RspTakesLineCell, RspTakesOneCell, FlagsAfter
<1>5. ASSUME rq'[p].fsm = "REQ_DWAIT", dm'[p].req PROVE rq'[p].addr = dc'[p].addr
  <2>1. dm[p].req \/ dm[p].flush =>
          IF rs[p].dOk THEN ~dm'[p].req /\ ~dm'[p].flush /\ ~dm'[p].pending ELSE SameRequest(p)
    BY CycleEffects
  <2>2. CASE ReqKeeps(p)
    <3>1. rq[p].fsm = "REQ_DWAIT" /\ ~rs[p].dOk /\ rq'[p].addr = rq[p].addr
      BY <1>5, <2>2 DEF ReqKeeps
    <3>2. dm[p].req /\ dc'[p].addr = dc[p].addr
      BY <1>1, <1>5, <2>1, <3>1 DEF ServiceInv, SameRequest
    <3> QED BY <3>1, <3>2 DEF ReadInv
  <2>3. CASE ReqSendsOneCell(p)
    <3>1. rq[p].fsm \in DataCellStates /\ rq'[p].addr = rq[p].addr
      BY <1>5, <2>3 DEF ReqSendsOneCell, DataCellStates
    <3>2. dm[p].req /\ rq[p].addr = dc[p].addr /\ ~rs[p].dOk
      BY <1>1, <3>1 DEF ServiceInv
    <3> QED BY <2>1, <3>1, <3>2 DEF SameRequest
  <2>4. ~ReqSendsStore(p)
    <3> SUFFICES ASSUME rq[p].fsm = "REQ_WRITE" PROVE FALSE
      BY DEF ReqSendsStore
    <3>1. dm[p].flush /\ ~rs[p].dOk /\ ~dm[p].req
      BY <1>1 DEF ServiceInv, RequestInv
    <3> QED BY <1>5, <2>1, <3>1 DEF SameRequest
  <2>5. DataReqState(p) # "REQ_DWAIT"
    BY <1>1, StateFacts DEF DataCellStates, OneCellStates
  <2> QED BY <1>5, <2>2, <2>3, <2>4, <2>5, CycleEffects
          DEF ReqStartsData, ReqStartsWrite, ReqStartsInst, ReqEnds
<1>6. ASSUME cmd'[p] # NoCell, cmd'[p].cmd = "READ" PROVE cmd'[p].cells = Span(p)'
  <2>1. CASE cmd' = cmd
    <3>1. rsp[p] = NoCell /\ rs[p].fsm # "RSP_IDLE"
      <4>1. Packets[p] = Packet(p) /\ Ram!CmdMatches(p) /\ Ram!Srcs = Srcs
            /\ cmd[p] \in CmdCell
        BY <1>1, <1>6, <2>1, PortFacts, SameMap DEF Ram!PacketInv, NocTypeOK
      <4>2. cmd[p].cells \in Nat \ {0}
        BY <4>1 DEF CmdCell
      <4>3. rsp[p] = NoCell /\ Packet(p).toRecv = cmd[p].cells
        BY <1>6, <2>1, <4>1 DEF Ram!CmdMatches
      <4>4. NothingSent(p) => Packet(p).toRecv = 0
        BY DEF Packet, NoPacket
      <4> QED BY <4>2, <4>3, <4>4 DEF NothingSent
    <3>2. RspKeeps(p, rspval)
      BY <1>1, <3>1 DEF RspStarts, BothIdle, RspTakesLineCell, RspTakesOneCell
    <3>3. rs'[p].fsm = rs[p].fsm
      BY <3>2 DEF RspKeeps
    <3> QED BY <1>6, <2>1, <3>3 DEF ReadInv, Span
  <2>2. CASE cmd' # cmd
    <3>1. /\ rq[p].fsm \in OneCellStates \cup {"REQ_WRITE"} /\ cmd'[p] = CommandCell(p)
      BY <2>2, CycleEffects
      DEF ReqKeeps, ReqStartsData, ReqStartsWrite, ReqStartsInst, ReqSendsOneCell,
          ReqSendsStore, ReqEnds
    <3>2. /\ rq[p].fsm \in {"REQ_IMISS", "REQ_DMISS", "REQ_UNC"}
          /\ cmd'[p].cells = IF rq[p].fsm \in {"REQ_IMISS", "REQ_DMISS"} THEN LineWords ELSE 1
      BY <1>1, <1>6, <3>1, CommandFacts DEF OneCellStates
    <3>3. rsp[p] = NoCell
      BY <1>1, <3>2 DEF ResponseOK
    <3>4. RspKeeps(p, rspval)
      BY <1>1, <3>2, <3>3 DEF RspStarts, BothIdle, RspTakesLineCell, RspTakesOneCell
    <3>5. rs'[p].fsm = rs[p].fsm
      BY <3>4 DEF RspKeeps
    <3>6. CASE rq[p].fsm = "REQ_IMISS"
      BY <1>1, <3>2, <3>5, <3>6 DEF ServiceInv, Span
    <3>7. CASE rq[p].fsm \in {"REQ_DMISS", "REQ_UNC"}
      <4>1. rs[p].fsm = DataRspState(p) /\ rq[p].fsm = DataReqState(p) /\ dm[p].req
        BY <1>1, <3>7 DEF ServiceInv, DataCellStates, OneCellStates
      <4>2. CASE dc[p].ll \/ dc[p].sc
        <5>1. DataReqState(p) \in {"REQ_LL", "REQ_SC"}
          BY <4>2, Zenon DEF DataReqState
        <5> QED BY <3>7, <4>1, <5>1
      <4>3. CASE ~dc[p].ll /\ ~dc[p].sc
        <5>1. DataReqState(p) = IF dc[p].unc THEN "REQ_UNC" ELSE "REQ_DMISS"
          BY <4>3, Zenon DEF DataReqState
        <5>2. DataRspState(p) = IF dc[p].unc THEN "RSP_UNC" ELSE "RSP_DMISS"
          BY <4>1, <4>3 DEF DataRspState
        <5> HIDE DEF DataReqState, DataRspState
        <5> QED BY <3>2, <3>5, <3>7, <4>1, <5>1, <5>2 DEF Span
      <4> QED BY <4>2, <4>3
    <3> QED BY <3>2, <3>6, <3>7
  <2> QED BY <2>1, <2>2
<1>7. ASSUME Reading(p)' PROVE cur'.addr + cellsToGo' = Packet(p)'.addr + Span(p)'
  <2>1. Reading(p)
    BY <1>2, <1>7 DEF Reading
  <2> QED BY <1>2, <2>1, ReadStays DEF ReadInv, Span
<1>8. ASSUME rs'[p].fsm \in {"RSP_DMISS", "RSP_IMISS"}, cur'.src = p, mode' # "IDLE" \/ sendRsp'
      PROVE  mode' = "SIZED_READ"
  <2>1. Ram!AtTarget(p) /\ Packet(p).toRecv > 0
    <3>1. Ram!AtTarget(p)
      BY <1>2, <1>8 DEF Ram!AtTarget
    <3> QED BY <1>1, <3>1, PortFacts, SameMap, RamAssumptions, Ram!ServedAwaits DEF Ram!PacketInv
  <2>2. ~BothIdle(p)
    BY <2>1 DEF BothIdle, Packet, NothingSent, NoPacket
  <2>3. rs[p].fsm = rs'[p].fsm
    BY <1>1, <1>8, <2>2
    DEF RspKeeps, RspStarts, RspTakesLineCell, RspTakesOneCell
  <2> QED BY <1>2, <1>8, <2>1, <2>3 DEF ReadInv
<1> QED BY <1>3, <1>4, <1>5, <1>6, <1>7, <1>8 DEF ReadInv

-----------------------------------------------------------------------------
(* The directory: a cycle of a cache. *)

LEMMA CoverStep ==
  ASSUME PortsOK, NEW p \in Procs, NEW rspval \in BOOLEAN, NEW invval \in BOOLEAN,
         CacheCycle(p, rspval, invval), UNCHANGED ramRegs,
         ReadInv(p), InvalTakenInv(p), FillingInv(p), CoverInv(p)
  PROVE  CoverInv(p)'
<1> SUFFICES ASSUME NEW b \in Blocks,
                    tag'[p][Slot(b)] = b, Fills(p, b)' => Served(p)'
             PROVE  \/ p \in directory'[b]
                    \/ Condemned(p, b)'
                    \/ Fills(p, b)' /\ rs'[p].fsm = "RSP_DMISS" /\ Reading(p)'
  BY DEF CoverInv
<1>1. /\ CacheTypeOK /\ RequestInv(p) /\ ServiceInv(p)
      /\ \/ TakesAway(p) \/ Idles(p) \/ StoresWord(p) \/ Misses(p) \/ AsksWord(p)
         \/ UpdatesWord(p) \/ Waits(p) \/ FillsLine(p) \/ DropsLine(p) \/ Invalidates(p)
  BY CycleShape
<1>2. /\ tag[p] \in [Slots -> Blocks \cup {NoBlock}] /\ NoBlock \notin Blocks
      /\ Slot(b) \in Slots
  BY <1>1, AddrTypes, NoBlockAssumption DEF CacheTypeOK
<1>3. tag[p][Slot(b)] = b
  <2>1. CASE Misses(p)
    <3>1. ~Served(p)'
      BY <2>1, NotServedStep
    <3>2. Filling(p)' /\ dc'[p].addr = cpu[p].addr
      BY <2>1 DEF Misses, LooksUp, Filling
    <3>3. Block(cpu[p].addr) # b
      BY <3>1, <3>2 DEF Fills
    <3>4. tag'[p] = [tag[p] EXCEPT ![Slot(Block(cpu[p].addr))] = Block(cpu[p].addr)]
      BY <2>1 DEF Misses
    <3> QED BY <1>2, <3>3, <3>4
  <2>2. CASE DropsLine(p)
    <3>1. tag'[p] = [tag[p] EXCEPT ![Slot(Block(dc[p].addr))] = NoBlock]
      BY <2>2 DEF DropsLine
    <3> QED BY <1>2, <3>1
  <2>3. CASE Invalidates(p)
    <3>1. tag'[p] = IF tag[p][Slot(iv[p].block)] = iv[p].block
                    THEN [tag[p] EXCEPT ![Slot(iv[p].block)] = NoBlock] ELSE tag[p]
      BY <2>3 DEF Invalidates
    <3> QED BY <1>2, <3>1
  <2>4. CASE TakesAway(p) \/ Idles(p) \/ StoresWord(p) \/ AsksWord(p) \/ UpdatesWord(p)
             \/ Waits(p) \/ FillsLine(p)
    BY <2>4 DEF TakesAway, Idles, StoresWord, AsksWord, UpdatesWord, Waits, FillsLine, SameLines
  <2> QED BY <1>1, <2>1, <2>2, <2>3, <2>4
<1>4. Fills(p, b) => Served(p)
  <2> SUFFICES ASSUME Fills(p, b), ~Served(p) PROVE FALSE
    OBVIOUS
  <2>1. Filling(p) /\ ~rs[p].dOk /\ dc[p].fsm # "DCACHE_MISSUPDT"
    BY DEF Fills, Served
  <2>2. Filling(p)' /\ dc'[p].addr = dc[p].addr
    BY <2>1, FillStep DEF SameData
  <2>3. ~Served(p)'
    BY <2>1, NotServedStep
  <2> QED BY <2>2, <2>3 DEF Fills
<1>5. /\ directory' = directory /\ mode' = mode /\ cur' = cur
  BY DEF ramRegs, ramFsmVars
<1>6. CASE p \in directory[b]
  BY <1>5, <1>6
<1>7. CASE Condemned(p, b)
  BY <1>7, CondemnedCycle
<1>8. CASE Fills(p, b) /\ rs[p].fsm = "RSP_DMISS" /\ Reading(p)
  <2>1. rs'[p].fsm = "RSP_DMISS" /\ Reading(p)' /\ ~NothingSent(p)
    BY <1>5, <1>8, ReadStays DEF Reading
  <2>2. CacheInv(p)
    BY CycleEffects
  <2>3. dm[p].req /\ ~rs[p].dOk
    BY <1>1, <1>8, <2>1, <2>2, BusyFacts
  <2>4. dc[p].fsm # "DCACHE_MISSUPDT"
    BY <1>1, <2>3 DEF RequestInv, Waiting, WaitStates
  <2>5. Filling(p)' /\ dc'[p].addr = dc[p].addr
    BY <1>8, <2>3, <2>4, FillStep DEF SameData, Fills
  <2> QED BY <1>8, <2>1, <2>5 DEF Fills
<1> QED BY <1>3, <1>4, <1>6, <1>7, <1>8 DEF CoverInv

(* The invariants of a cache when neither it nor memory makes a step. *)
SameCache(o) ==
  /\ dc'[o] = dc[o] /\ tag'[o] = tag[o] /\ line'[o] = line[o] /\ dm'[o] = dm[o]
  /\ wb'[o] = wb[o] /\ rq'[o] = rq[o] /\ rs'[o] = rs[o] /\ iv'[o] = iv[o]
  /\ cmd'[o] = cmd[o] /\ rsp'[o] = rsp[o] /\ invCmd'[o] = invCmd[o]
  /\ Packet(o)' = Packet(o)

(* What does not concern a cache keeps its invariants.                     *)
LEMMA CoverStays ==
  ASSUME NEW o \in Procs, SameCache(o), UNCHANGED ramRegs
  PROVE  /\ ReadInv(o) => ReadInv(o)'
         /\ InvalTakenInv(o) => InvalTakenInv(o)'
         /\ FillingInv(o) => FillingInv(o)'
         /\ CoverInv(o) => CoverInv(o)'
<1>1. UNCHANGED <<ramInvFsm, blockState, invBlock, invTarget, ramFsm, sav, directory,
                  mode, cur, cellsToGo, sendRsp>>
  BY DEF ramRegs, ramFsmVars
<1>2. ReadInv(o) => ReadInv(o)'
  BY <1>1 DEF ReadInv, SameCache, Reading, Span
<1>3. InvalTakenInv(o) => InvalTakenInv(o)'
  BY DEF InvalTakenInv, SameCache
<1>4. FillingInv(o) => FillingInv(o)'
  BY DEF FillingInv, Filling, SameCache
<1>5. ASSUME NEW b \in Blocks
      PROVE  /\ Condemned(o, b)' <=> Condemned(o, b)
             /\ Fills(o, b)' <=> Fills(o, b)
             /\ Served(o)' <=> Served(o)
             /\ Reading(o)' <=> Reading(o)
             /\ tag'[o] = tag[o] /\ directory' = directory /\ rs'[o] = rs[o]
  BY <1>1 DEF Condemned, RoundAhead, OtherSharers, Fills, Filling, Served, Reading, SameCache
<1>6. CoverInv(o) => CoverInv(o)'
  BY <1>5 DEF CoverInv
<1> QED BY <1>2, <1>3, <1>4, <1>6

DirectoryInv(p) == ReadInv(p) /\ InvalTakenInv(p) /\ FillingInv(p) /\ CoverInv(p)

LEMMA CycleSame ==
  ASSUME PortsOK, NEW p \in Procs, NEW rspval \in BOOLEAN, NEW invval \in BOOLEAN,
         CacheCycle(p, rspval, invval), NEW o \in Procs \ {p}
  PROVE  SameCache(o)
<1>1. /\ Untouched(o) /\ o \in Srcs \ {p}
      /\ cmd'[o] = cmd[o] /\ rsp'[o] = rsp[o]
  BY CycleEffects, PortFacts
<1>2. Packet(o)' = Packet(o)
  BY <1>1, PacketStays
<1>3. InvalFsm(p, invval) /\ NocTypeOK
  BY CycleShape
<1>4. invCmd'[o] = invCmd[o]
  BY <1>3 DEF InvalFsm, IvIdle, IvCommand, IvWait, IvAnswer, NocTypeOK
<1> QED BY <1>1, <1>2, <1>4 DEF SameCache, Untouched

(* A cycle of a cache keeps the invariant of the directory.                *)
LEMMA CycleDirectory ==
  ASSUME PortsOK, \A o \in Procs : DirectoryInv(o),
         NEW p \in Procs, NEW rspval \in BOOLEAN, NEW invval \in BOOLEAN,
         CacheCycle(p, rspval, invval), UNCHANGED ramRegs
  PROVE  \A o \in Procs : DirectoryInv(o)'
<1> TAKE o \in Procs
<1>1. CASE o = p
  BY <1>1, ReadStep, InvalTakenStep, FillingStep, CoverStep DEF DirectoryInv
<1>2. CASE o # p
  BY <1>2, CycleSame, CoverStays DEF DirectoryInv
<1> QED BY <1>1, <1>2

-----------------------------------------------------------------------------
(* A cycle of the memory controller: the reads. *)

(* Where a word is in its line. *)
LEMMA LineCells ==
  ASSUME NEW b \in Nat, NEW i \in Offsets
  PROVE  Block(Base(b) + i) = b /\ Offset(Base(b) + i) = i
<1>1. \A W \in Nat \ {0} : \A j \in 0 .. W - 1 : (b * W + j) \div W = b
  OBVIOUS
<1>2. \A W \in Nat \ {0} : \A j \in 0 .. W - 1 : (b * W + j) % W = j
  OBVIOUS
<1>3. LineWords \in Nat \ {0} /\ i \in 0 .. LineWords - 1
  BY SizeFacts DEF Offsets
<1> QED BY <1>1, <1>2, <1>3 DEF Block, Base, Offset

(* What the packet of p is while its line is read. *)
LEMMA LinePacket ==
  ASSUME CacheTypeOK, NEW p \in Procs, CacheInv(p), rs[p].fsm \in {"RSP_DMISS", "RSP_IMISS"}
  PROVE  /\ Packet(p).cmd = "READ"
         /\ ~NothingSent(p) => Packet(p).addr = Base(Block(MissAddr(p)))
<1>1. rq[p].fsm = "REQ_WRITE" => rs[p].fsm = "RSP_WRITE"
  BY DEF CacheInv, ServiceInv, RequestInv, DataRspState
<1>2. CASE NothingSent(p)
  BY <1>2 DEF Packet, NoPacket
<1>3. CASE ~NothingSent(p)
  <2>1. Packet(p) = [cmd |-> "READ", addr |-> Base(Block(MissAddr(p))), toSend |-> 0,
                     toRecv |-> LineWords - rs[p].cpt]
    BY <1>1, <1>3 DEF Packet
  <2> QED BY <2>1
<1> QED BY <1>2, <1>3

(* The target state machine, in a cycle that reads or not. *)
ReadsFirst(s) ==
  /\ mode = "IDLE" /\ ~sendRsp /\ cmd[s] # NoCell /\ cmd[s].cmd = "READ" /\ rsp' = rsp
  /\ mode' = "SIZED_READ" /\ cur'.src = s /\ cur'.addr = cmd[s].addr
  /\ cellsToGo' = cmd[s].cells /\ cur'.data = mem[cmd[s].addr] /\ mem' = mem

ReadsNext ==
  /\ mode = "SIZED_READ" /\ cellsToGo # 1 /\ (sendRsp => PeerAccepted) /\ DeliverRsp
  /\ mode' = mode /\ cur'.src = cur.src /\ cur'.addr = cur.addr + 1
  /\ cellsToGo' = cellsToGo - 1 /\ cur'.data = mem[cur.addr + 1] /\ mem' = mem

ReadsLast ==
  /\ mode = "SIZED_READ" /\ cellsToGo = 1 /\ (sendRsp => PeerAccepted) /\ DeliverRsp
  /\ mode' = "IDLE" /\ ~sendRsp' /\ mem' = mem

AnswersOne ==
  /\ mode \in {"IDLE", "INOUT_QUERY"} /\ DeliverRsp /\ mode' \in {"IDLE", mode}
  /\ cur' = cur /\ mem' = mem
  /\ sendRsp' => sendRsp
  /\ mode' # "IDLE" => sendRsp'

ServesOther(s) ==
  /\ mode = "IDLE" /\ ~sendRsp /\ cmd[s] # NoCell /\ cmd[s].cmd # "READ" /\ rsp' = rsp
  /\ mode' \in {"INOUT_QUERY", "SIZED_WRITE"} /\ cur'.src = s
  /\ cmd[s].cmd = "LOCKED_READ" => cur'.data = mem[cmd[s].addr] /\ mem' = mem

WritesNext ==
  /\ mode = "SIZED_WRITE" /\ rsp' = rsp /\ mode' \in {"IDLE", mode} /\ cur'.src = cur.src

(* The things the target state machine can do in a cycle, and that it      *)
(* does nothing while RAM_FSM is busy.                                     *)
LEMMA TargetShape ==
  ASSUME PortsOK, RamFsm
  PROVE  /\ \/ UNCHANGED targetVars
            \/ \E s \in Srcs : ReadsFirst(s) \/ ServesOther(s)
            \/ ReadsNext \/ ReadsLast \/ AnswersOne \/ WritesNext
         /\ \A s \in Srcs : cmd'[s] \in {cmd[s], NoCell}
         /\ ~(UNCHANGED targetVars) => ramFsm = "RAM_IDLE" /\ directory' = directory
<1>0. Ram!TargetTypeOK /\ Ram!RamTypeOK /\ NocTypeOK
  BY PortFacts
<1>1. CASE RamDirUpd \/ RamDataInval \/ RamDataInvalWait
  BY <1>1 DEF RamDirUpd, RamDataInval, RamDataInvalWait, targetVars
<1>2. CASE RamIdle
  <2>1. ramFsm = "RAM_IDLE" /\ directory' = directory /\ TargetFsm
    BY <1>2 DEF RamIdle
  <2>2. ASSUME NEW s \in Srcs, AcceptCmd(s)
        PROVE  (ReadsFirst(s) \/ ServesOther(s)) /\ \A o \in Srcs : cmd'[o] \in {cmd[o], NoCell}
    <3>1. mode = "IDLE" /\ ~sendRsp /\ cmd[s] # NoCell /\ rsp' = rsp
          /\ cmd' = [cmd EXCEPT ![s] = NoCell]
      BY <2>2 DEF AcceptCmd, CmdAck, TakeCmd
    <3>2. \A o \in Srcs : cmd'[o] \in {cmd[o], NoCell}
      BY <1>0, <3>1 DEF NocTypeOK
    <3> DEFINE c == cmd[s]
               first == c.cells = 1
    <3>3. CASE /\ c.cmd = "READ" /\ mode' = "SIZED_READ" /\ cellsToGo' = c.cells
               /\ HandleRead(s, c.cmd, c.addr, first)
      <4> HIDE DEF first
      <4> QED BY <3>1, <3>2, <3>3 DEF ReadsFirst, HandleRead, OnRead, Answer
    <3>4. CASE /\ c.cmd = "WRITE" /\ c.eop /\ mode' = "INOUT_QUERY"
               /\ HandleWrite(s, c.addr, c.data, c.be, TRUE)
      BY <3>1, <3>2, <3>4 DEF ServesOther, HandleWrite, Answer
    <3>5. CASE /\ c.cmd = "WRITE" /\ ~c.eop /\ mode' = "SIZED_WRITE"
               /\ HandleWrite(s, c.addr, c.data, c.be, FALSE)
      BY <3>1, <3>2, <3>5 DEF ServesOther, HandleWrite, Answer
    <3>6. CASE /\ c.cmd = "LOCKED_READ" /\ mode' = "INOUT_QUERY"
               /\ HandleRead(s, c.cmd, c.addr, c.eop)
      BY <3>1, <3>2, <3>6 DEF ServesOther, HandleRead, OnRead, Answer
    <3>7. CASE /\ c.cmd = "STORE_COND" /\ mode' = "INOUT_QUERY"
               /\ HandleStoreCond(s, c.addr, c.data, c.be, c.eop)
      BY <3>1, <3>2, <3>7 DEF ServesOther, HandleStoreCond, Answer
    <3> HIDE DEF c, first
    <3> QED BY <2>2, <3>3, <3>4, <3>5, <3>6, <3>7 DEF AcceptCmd, c, first
  <2>3. CASE TargetIdle \/ InoutQuery
    BY <1>0, <2>1, <2>3
    DEF TargetIdle, InoutQuery, AfterPeer, AnswersOne, PeerAccepted, NocTypeOK
  <2>4. CASE SizedReadWait \/ SizedWriteWait
    BY <2>4 DEF SizedReadWait, SizedWriteWait, targetVars
  <2>5. CASE SizedReadNext
    <3>1. mode = "SIZED_READ" /\ (sendRsp => PeerAccepted) /\ DeliverRsp /\ cmd' = cmd
          /\ cellsToGo' = cellsToGo - 1
      BY <2>5 DEF SizedReadNext, AfterPeer, PeerAccepted
    <3>2. CASE cellsToGo # 1
      <4> DEFINE next == cur.addr + 1
                 last == cellsToGo = 2
      <4>1. HandleRead(cur.src, cur.cmd, next, last) /\ mode' = mode
        BY <2>5, <3>2 DEF SizedReadNext
      <4> HIDE DEF next, last
      <4>2. /\ cur'.src = cur.src /\ cur'.addr = next /\ cur'.data = mem[next] /\ mem' = mem
        BY <4>1 DEF HandleRead, OnRead, Answer
      <4> QED BY <2>1, <3>1, <3>2, <4>1, <4>2 DEF ReadsNext, next
    <3>3. CASE cellsToGo = 1
      BY <2>1, <2>5, <3>1, <3>3 DEF SizedReadNext, ReadsLast
    <3> QED BY <3>2, <3>3
  <2>6. CASE SizedWriteCell
    <3>1. cur.src \in Srcs
      BY <1>0 DEF Ram!TargetTypeOK, Srcs, Ram!Srcs
    <3>2. /\ mode = "SIZED_WRITE" /\ rsp' = rsp /\ mode' \in {"IDLE", mode}
          /\ cmd' = [cmd EXCEPT ![cur.src] = NoCell]
      BY <2>6 DEF SizedWriteCell, TakeCmd
    <3>3. cur'.src = cur.src
      BY <2>6 DEF SizedWriteCell, HandleWrite, Answer
    <3> QED BY <1>0, <2>1, <3>1, <3>2, <3>3 DEF WritesNext, NocTypeOK
  <2> QED BY <2>1, <2>2, <2>3, <2>4, <2>5, <2>6 DEF TargetFsm, targetVars
<1> QED BY <1>1, <1>2 DEF RamFsm

(* A cycle of the memory controller keeps the read on its way.             *)
LEMMA ReadRam ==
  ASSUME PortsOK, RamFsm, NEW p \in Procs, ReadInv(p),
         UNCHANGED cacheVars, Packet(p)' = Packet(p)
  PROVE  ReadInv(p)'
<1>1. /\ UNCHANGED <<dc, dm, rq, rs>> /\ p \in Srcs
      /\ NocTypeOK /\ CacheTypeOK /\ CacheInv(p) /\ Ram!PacketInv /\ Packets[p] = Packet(p)
      /\ Ram!Srcs = Srcs
  BY PortFacts, SameMap DEF PortsOK, cacheVars
<1>2. /\ cur.src \in Srcs /\ cur.addr \in Nat /\ cellsToGo \in Nat
      /\ rsp \in [Srcs -> RspCell \cup {NoCell}]
  BY <1>1, PortFacts DEF NocTypeOK, Ram!TargetTypeOK
<1>3. cmd'[p] \in {cmd[p], NoCell}
  BY <1>1, TargetShape
<1>4. ASSUME rsp'[p] # NoCell PROVE ~rsp'[p].error
  <2>1. CASE rsp' = rsp
    BY <1>4, <2>1 DEF ReadInv
  <2>2. CASE DeliverRsp
    <3> DEFINE r == [data |-> cur.data, ok |-> cur.ok, error |-> FALSE, eop |-> cur.eop]
    <3>1. r.error = FALSE
      OBVIOUS
    <3>2. rsp' = rsp \/ rsp' = [rsp EXCEPT ![cur.src] = r]
      BY <2>2 DEF DeliverRsp
    <3> HIDE DEF r
    <3>3. rsp'[p] \in {rsp[p], r}
      BY <1>1, <1>2, <3>2
    <3> QED BY <1>4, <3>1, <3>3 DEF ReadInv
  <2> QED BY <2>1, <2>2, TargetShape
          DEF ReadsFirst, ServesOther, ReadsNext, ReadsLast, AnswersOne, WritesNext, targetVars
<1>5. cmd'[p] # NoCell /\ cmd'[p].cmd = "READ" => cmd'[p].cells = Span(p)'
  BY <1>1, <1>3 DEF ReadInv, Span
<1>6. ASSUME Reading(p)' PROVE cur'.addr + cellsToGo' = Packet(p)'.addr + Span(p)'
  <2>1. Span(p)' = Span(p) /\ Packet(p)' = Packet(p)
    BY <1>1 DEF Span
  <2>2. CASE UNCHANGED targetVars
    BY <1>6, <2>1, <2>2 DEF targetVars, Reading, ReadInv
  <2>3. ASSUME NEW s \in Srcs, ReadsFirst(s)
        PROVE  cur'.addr + cellsToGo' = Packet(p).addr + Span(p)
    <3>1. s = p
      BY <1>6, <2>3 DEF ReadsFirst, Reading
    <3>2. cmd[p].addr = Packet(p).addr
      BY <1>1, <2>3, <3>1 DEF ReadsFirst, Ram!PacketInv, Ram!CmdMatches
    <3> QED BY <2>3, <3>1, <3>2 DEF ReadsFirst, ReadInv
  <2>4. CASE ReadsNext
    BY <1>2, <1>6, <2>1, <2>4 DEF ReadsNext, Reading, ReadInv
  <2>5. ~ReadsLast /\ ~(\E s \in Srcs : ServesOther(s)) /\ ~WritesNext /\ ~AnswersOne
    BY <1>6 DEF ReadsLast, ServesOther, WritesNext, AnswersOne, Reading
  <2> QED BY <2>1, <2>2, <2>3, <2>4, <2>5, TargetShape
<1>7. ASSUME rs'[p].fsm \in {"RSP_DMISS", "RSP_IMISS"}, cur'.src = p, mode' # "IDLE" \/ sendRsp'
      PROVE  mode' = "SIZED_READ"
  <2>1. rs[p].fsm \in {"RSP_DMISS", "RSP_IMISS"}
    BY <1>1, <1>7
  <2>2. CASE UNCHANGED targetVars
    BY <1>1, <1>7, <2>2 DEF targetVars, ReadInv
  <2>3. ASSUME NEW s \in Srcs, ServesOther(s) PROVE FALSE
    <3>1. s = p /\ cmd[p] # NoCell /\ cmd[p].cmd # "READ"
      BY <1>7, <2>3 DEF ServesOther
    <3>2. Packet(p).cmd = "READ"
      BY <1>1, <2>1, LinePacket
    <3> QED BY <1>1, <3>1, <3>2 DEF Ram!PacketInv, Ram!CmdMatches
  <2>4. CASE AnswersOne
    BY <1>7, <2>1, <2>4 DEF AnswersOne, ReadInv
  <2>5. CASE WritesNext
    BY <1>7, <2>1, <2>5 DEF WritesNext, ReadInv
  <2>6. CASE ReadsLast
    BY <1>7, <2>6 DEF ReadsLast
  <2>7. CASE ReadsNext \/ \E s \in Srcs : ReadsFirst(s)
    BY <2>7 DEF ReadsFirst, ReadsNext
  <2> QED BY <2>2, <2>3, <2>4, <2>5, <2>6, <2>7, TargetShape
<1> QED BY <1>1, <1>4, <1>5, <1>6, <1>7 DEF ReadInv

(* An invalidation is not forgotten before the cache has taken it. *)
LEMMA CondemnedRam ==
  ASSUME PortsOK, RamStep, NEW p \in Procs, NEW b \in Blocks, Condemned(p, b)
  PROVE  Condemned(p, b)'
<1>1. /\ InvFsm /\ RamFsm /\ UNCHANGED <<iv, dc>>
      /\ Ram!InvTypeOK /\ Ram!RoundInv /\ Ram!InvFsm
  BY PortFacts, SameInvFsm DEF RamStep, RamCycle, cacheVars
<1>2. CASE RoundAhead(p, b) \/ invCmd[p] = b
  <2>1. ASSUME Ram!InvPending(p, b)' PROVE Condemned(p, b)'
    BY <2>1 DEF Ram!InvPending, Condemned, RoundAhead
  <2>2. CASE Ram!InvPending(p, b)
    BY <1>1, <2>1, <2>2, SameMap, RamAssumptions, Ram!PendingStays
  <2>3. CASE ramFsm = "RAM_DATA_INVAL" /\ sav.block = b /\ p \in OtherSharers(sav.src, b)
    <3>1. RamDataInval
      BY <1>1, <2>3 DEF RamFsm, RamIdle, RamDirUpd, RamDataInval, RamDataInvalWait
    <3>2. CASE ramInvFsm = "RAM_INV_IDLE"
      <4>1. InvIdle
        BY <1>1, <2>3, <3>2 DEF InvFsm, InvIdleKick, InvReq, InvRspWait, InvRspTake
      <4> QED BY <2>1, <2>3, <4>1 DEF InvIdle, Ram!InvPending
    <3>3. CASE ramInvFsm # "RAM_INV_IDLE"
      BY <2>3, <3>1, <3>3 DEF RamDataInval, Condemned, RoundAhead, OtherSharers
    <3> QED BY <3>2, <3>3
  <2> QED BY <1>2, <2>2, <2>3 DEF RoundAhead, Ram!InvPending
<1>3. CASE ~RoundAhead(p, b) /\ invCmd[p] # b
  BY <1>1, <1>3 DEF Condemned
<1> QED BY <1>2, <1>3

(* The presence bit is set before the last word of the line leaves. *)
LEMMA LineDone ==
  ASSUME PortsOK, NEW p \in Procs, ReadInv(p), NEW b \in Blocks,
         Fills(p, b), rs[p].fsm = "RSP_DMISS", Reading(p), ReadsLast, ramFsm = "RAM_IDLE"
  PROVE  p \in directory[b]
<1>1. /\ p \in Srcs /\ CacheTypeOK /\ CacheInv(p) /\ Ram!PacketInv /\ Ram!ReaderInv
      /\ Packets[p] = Packet(p) /\ Ram!Srcs = Srcs /\ Ram!Procs = Procs
      /\ \A a : Ram!Block(a) = Block(a)
      /\ rq[p].addr \in Addr /\ cur.addr \in Nat /\ LineWords \in Nat \ {0}
  <2>1. CacheTypeOK /\ CacheInv(p)
    BY DEF PortsOK
  <2>2. rq[p].addr \in Addr
    BY <2>1, RegTypes DEF RqRegs
  <2> QED BY <2>1, <2>2, PortFacts, SameMap, SizeFacts DEF Ram!TargetTypeOK
<1>2. Ram!ReadingLine(p) /\ cur.src = p /\ cellsToGo = 1
  BY <1>1 DEF Ram!PacketInv, Ram!TargetMatches, Reading, ReadsLast
<1>3. ~NothingSent(p)
  BY <1>1, <1>2 DEF Ram!ReadingLine, Packet, NoPacket
<1>4. cur.eop /\ p \in directory[Block(cur.addr)]
  BY <1>1, <1>2 DEF Ram!ReadingLine, Ram!ReaderInv, Reading
<1>5. rq[p].fsm = "REQ_DWAIT" /\ dm[p].req
  BY <1>1, <1>3, BusyFacts DEF CacheInv, ServiceInv, RequestInv, ReadInv, DataRspState
<1>6. Packet(p).addr = Base(Block(rq[p].addr)) /\ rq[p].addr = dc[p].addr
  BY <1>1, <1>3, <1>5, LinePacket DEF MissAddr, ReadInv
<1>7. Block(rq[p].addr) = b /\ b \in Nat /\ Base(b) \in Nat
  BY <1>6, AddrTypes DEF Fills
<1>8. cur.addr + 1 = Base(b) + LineWords
  BY <1>2, <1>6, <1>7 DEF ReadInv, Span
<1>9. cur.addr = Base(b) + (LineWords - 1) /\ LineWords - 1 \in Offsets
  BY <1>1, <1>7, <1>8 DEF Offsets
<1>10. Block(cur.addr) = b
  BY <1>7, <1>9, LineCells
<1> QED BY <1>4, <1>10

(* It covers the reader that gets its last cell, and condemns whom it      *)
(* takes out of the directory.                                             *)
LEMMA CoverRam ==
  ASSUME PortsOK, RamStep, NEW p \in Procs, ReadInv(p), CoverInv(p)
  PROVE  CoverInv(p)'
<1> SUFFICES ASSUME NEW b \in Blocks,
                    tag'[p][Slot(b)] = b, Fills(p, b)' => Served(p)'
             PROVE  \/ p \in directory'[b]
                    \/ Condemned(p, b)'
                    \/ Fills(p, b)' /\ rs'[p].fsm = "RSP_DMISS" /\ Reading(p)'
  BY DEF CoverInv
<1>1. /\ InvFsm /\ RamFsm /\ UNCHANGED <<tag, dc, rs>>
      /\ Ram!TargetTypeOK /\ Ram!InvTypeOK /\ Ram!RoundInv /\ Ram!RamCycle /\ p \in Srcs
      /\ NocTypeOK
  BY PortFacts, SameInvFsm, SameRamFsm DEF RamStep, RamCycle, cacheVars, Ram!RamCycle
<1>2. Fills(p, b)' <=> Fills(p, b)
  BY <1>1 DEF Fills, Filling
<1>3. ASSUME Fills(p, b), rs[p].fsm = "RSP_DMISS", Reading(p), ReadsLast
      PROVE  p \in directory'[b]
  <2>1. ramFsm = "RAM_IDLE" /\ directory' = directory
    <3>1. ~(UNCHANGED targetVars)
      BY <1>3 DEF ReadsLast, targetVars
    <3> QED BY <1>1, <3>1, TargetShape
  <2> QED BY <1>3, <2>1, LineDone
<1>4. CASE Fills(p, b) => Served(p)
  <2>1. CASE p \in directory[b]
    <3>1. p \in directory'[b] \/ Ram!InvPending(p, b)'
      BY <1>1, <2>1, SameMap, RamAssumptions, Ram!BitClearedIsPending
    <3> QED BY <3>1 DEF Ram!InvPending, Condemned, RoundAhead
  <2>2. CASE Condemned(p, b)
    BY <2>2, CondemnedRam
  <2>3. CASE Fills(p, b) /\ rs[p].fsm = "RSP_DMISS" /\ Reading(p)
    <3>1. Reading(p)' \/ ReadsLast
      BY <1>1, <2>3, TargetShape
      DEF Reading, ReadsNext, ReadsFirst, ServesOther, AnswersOne, WritesNext, targetVars
    <3> QED BY <1>1, <1>2, <1>3, <2>3, <3>1
  <2> QED BY <1>1, <1>4, <2>1, <2>2, <2>3 DEF CoverInv
<1>5. CASE Fills(p, b) /\ ~Served(p)
  <2>1. rs[p].fsm = "RSP_DMISS" /\ rsp[p] = NoCell /\ rsp'[p] # NoCell
    BY <1>1, <1>2, <1>5 DEF Served
  <2>2. /\ cur.src = p /\ sendRsp /\ (ReadsNext \/ ReadsLast \/ AnswersOne)
    <3>1. DeliverRsp /\ (ReadsNext \/ ReadsLast \/ AnswersOne)
      BY <1>1, <2>1, TargetShape
      DEF ReadsFirst, ServesOther, WritesNext, ReadsNext, ReadsLast, AnswersOne, targetVars
    <3>2. PeerAccepted /\ cur.src = p
      BY <1>1, <2>1, <3>1 DEF DeliverRsp, NocTypeOK
    <3> QED BY <3>1, <3>2 DEF PeerAccepted
  <2>3. mode = "SIZED_READ" /\ Reading(p) /\ (ReadsNext \/ ReadsLast)
    BY <2>1, <2>2 DEF ReadInv, Reading, AnswersOne
  <2> QED BY <1>1, <1>2, <1>3, <1>5, <2>1, <2>2, <2>3 DEF Reading, ReadsNext
<1> QED BY <1>4, <1>5

LEMMA RamDirectory ==
  ASSUME PortsOK, \A o \in Procs : DirectoryInv(o), RamStep
  PROVE  \A o \in Procs : DirectoryInv(o)'
<1>1. RamFsm /\ UNCHANGED cacheVars /\ UNCHANGED <<iv, dc, rs, tag>>
  BY DEF RamStep, RamCycle, cacheVars
<1> TAKE o \in Procs
<1>2. Packet(o)' = Packet(o)
  BY <1>1 DEF cacheVars, Packet, NothingSent, MissAddr, UncachedCmd, DataReqState
<1>3. ReadInv(o)'
  BY <1>1, <1>2, ReadRam DEF DirectoryInv
<1>4. InvalTakenInv(o)' /\ FillingInv(o)'
  BY <1>1 DEF DirectoryInv, InvalTakenInv, FillingInv, Filling
<1> QED BY <1>3, <1>4, CoverRam DEF DirectoryInv

(* A request put at a port changes nothing here.                           *)
LEMMA RequestDirectory ==
  ASSUME \A o \in Procs : DirectoryInv(o),
         UNCHANGED <<ramVars, dc, tag, line, dm, wb, ic, rq, rs, iv>>
  PROVE  \A o \in Procs : DirectoryInv(o)'
<1> TAKE o \in Procs
<1>1. Packet(o)' = Packet(o)
  BY DEF Packet, NothingSent, MissAddr, UncachedCmd, DataReqState
<1>2. SameCache(o) /\ UNCHANGED ramRegs
  BY <1>1 DEF SameCache, ramVars, nocVars
<1> QED BY <1>2, CoverStays DEF DirectoryInv

-----------------------------------------------------------------------------

LEMMA InitDirectory == Init => \A o \in Procs : DirectoryInv(o)
<1> SUFFICES ASSUME Init, NEW o \in Procs PROVE DirectoryInv(o)
  OBVIOUS
<1>1. /\ dc[o].fsm = "DCACHE_IDLE" /\ ~dm[o].req /\ rq[o].fsm = "REQ_IDLE"
      /\ rs[o].fsm = "RSP_IDLE" /\ ~rs[o].dRetry /\ ~rs[o].iRetry /\ ~rs[o].dOk
      /\ iv[o].fsm = "INV_IDLE" /\ ~iv[o].req
  BY DEF Init, CacheInit
<1>2. /\ tag[o] = [y \in Slots |-> NoBlock] /\ mode = "IDLE" /\ ~sendRsp
      /\ o \in Srcs /\ cmd[o] = NoCell /\ rsp[o] = NoCell
  <2> QED BY RamAssumptions, Ram!ConstantFacts, SameMap DEF Init, NocInit, RamInit, CacheInit
<1>3. ReadInv(o) /\ InvalTakenInv(o) /\ FillingInv(o)
  BY <1>1, <1>2 DEF ReadInv, InvalTakenInv, FillingInv, Filling, Reading
<1>4. CoverInv(o)
  <2> SUFFICES ASSUME NEW b \in Blocks PROVE tag[o][Slot(b)] # b
    BY DEF CoverInv
  <2> QED BY <1>2, AddrTypes, NoBlockAssumption
<1> QED BY <1>3, <1>4 DEF DirectoryInv

(* Every step keeps the invariant of the directory.                        *)
LEMMA NextDirectory ==
  ASSUME PortsOK, RequestsOK, \A o \in Procs : DirectoryInv(o), [Next]_vars
  PROVE  \A o \in Procs : DirectoryInv(o)'
<1>1. CASE RamStep
  BY <1>1, RamDirectory
<1>2. ASSUME NEW p \in Procs, CpuRequest(p) \/ FetchRequest(p)
      PROVE  \A o \in Procs : DirectoryInv(o)'
  <2>1. UNCHANGED <<ramVars, dc, tag, line, dm, wb, ic, rq, rs, iv>>
    BY <1>2 DEF CpuRequest, FetchRequest
  <2> QED BY <2>1, RequestDirectory
<1>3. ASSUME NEW p \in Procs, CacheStep(p) PROVE \A o \in Procs : DirectoryInv(o)'
  <2>1. PICK rspval \in BOOLEAN, invval \in BOOLEAN : CacheCycle(p, rspval, invval)
    BY <1>3 DEF CacheStep
  <2>2. UNCHANGED ramRegs
    BY <1>3 DEF CacheStep
  <2> QED BY <2>1, <2>2, CycleDirectory
<1>4. CASE UNCHANGED vars
  <2>1. UNCHANGED <<ramVars, dc, tag, line, dm, wb, ic, rq, rs, iv>>
    BY <1>4 DEF vars, cacheVars
  <2> QED BY <2>1, RequestDirectory
<1> QED BY <1>1, <1>2, <1>3, <1>4 DEF Next

(* Whatever the number of caches, the latencies of the networks and the    *)
(* requests of the processors: a cache that holds a line has its presence  *)
(* bit in the directory, or an invalidation of that line is on its way.    *)
THEOREM DirectoryIsComplete == Spec => []DirectoryCovers
<1> DEFINE Inv == PortsOK /\ RequestsOK /\ \A o \in Procs : DirectoryInv(o)
<1>1. Init => Inv
  BY InitPorts, InitDirectory
<1>2. Inv /\ [Next]_vars => Inv'
  BY NextPorts, NextDirectory
<1>3. Inv => DirectoryCovers
  <2> SUFFICES ASSUME Inv, NEW p \in Procs, NEW b \in Blocks, HasCopy(p, b)
               PROVE  p \in directory[b] \/ Doomed(p, b)
    BY DEF DirectoryCovers
  <2>1. tag[p][Slot(b)] = b /\ ~Fills(p, b)
    BY DEF HasCopy, Fills
  <2>2. p \in directory[b] \/ Condemned(p, b)
    BY <2>1 DEF DirectoryInv, CoverInv
  <2> QED BY <2>2 DEF Condemned, Doomed, InvalidationTaken
<1> QED BY <1>1, <1>2, <1>3, PTL DEF Spec

-----------------------------------------------------------------------------
(***************************************************************************)
(* The data: a line that is not condemned is what memory holds, but for    *)
(* the stores of its own processor that memory has not done.               *)
(***************************************************************************)
CurInv == mode = "SIZED_READ" => cur.data = mem[cur.addr]

(* The words of a line on their way into the cache. *)
FillInv(p) ==
  \A b \in Blocks :
    Fills(p, b) /\ tag[p][Slot(b)] = b /\ ~Condemned(p, b) =>
      /\ rs[p].fsm = "RSP_DMISS" =>
           /\ \A x \in Offsets : x < rs[p].cpt => rs[p].buf[x] = mem[Base(b) + x]
           /\ rsp[p] # NoCell => rsp[p].data = mem[Base(b) + rs[p].cpt]
      /\ rs[p].dOk \/ dc[p].fsm = "DCACHE_MISSUPDT" =>
           \A x \in Offsets : rs[p].buf[x] = mem[Base(b) + x]

(* The processors store whole words. *)
FullInv(p) ==
  /\ cpu[p] # NoReq => cpu[p].be = Lanes
  /\ dc[p].be = Lanes /\ dm[p].wf = Lanes /\ dm[p].wl = Lanes

(* The stores of the packet of p that have left, and that memory has done. *)
NbSent(p) == IF rq[p].fsm = "REQ_WRITE" THEN rq[p].cpt ELSE dm[p].size
NbDone(p) ==
  IF rs[p].fsm = "RSP_WRITE" THEN NbSent(p) - (IF cmd[p] = NoCell THEN 0 ELSE 1) ELSE 0

(* The store on the network is the last one that left the write buffer. *)
StoreSentInv(p) ==
  cmd[p] # NoCell /\ cmd[p].cmd = "WRITE" =>
    /\ NbSent(p) \in 1 .. Len(wb[p].cells) /\ cmd[p].be = Lanes
    /\ cmd[p].addr = wb[p].cells[NbSent(p)].addr
    /\ cmd[p].data = wb[p].cells[NbSent(p)].data

(* p has stored d at a, and memory has not done it. *)
Unwritten(p, a, d) ==
  \/ dm[p].pending /\ ~dm[p].flush /\ dm[p].addr = a /\ dm[p].data = d
  \/ \E i \in NbDone(p) + 1 .. Len(wb[p].cells) :
       wb[p].cells[i].addr = a /\ wb[p].cells[i].data = d

(* A store conditional of p to a waits for its answer. *)
Conditional(p, a) ==
  /\ dc[p].sc /\ dc[p].addr = a
  /\ \/ dc[p].fsm \in {"DCACHE_UNC_LL_SC_WAIT", "DCACHE_UNC_LL_SC_GO"}
     \/ dc[p].fsm = "DCACHE_RAMINVAL" /\ dc[p].prev = "DCACHE_UNC_LL_SC_WAIT"

(* WUPDT follows a hit, and the acceptance of a store. *)
UpdateInv(p) ==
  dc[p].fsm = "DCACHE_WUPDT" =>
    /\ tag[p][Slot(Block(dc[p].addr))] = Block(dc[p].addr)
    /\ dm[p].pending /\ dm[p].addr = dc[p].addr

(* The word once WUPDT has updated it. *)
Updated(p, a) ==
  IF dc[p].fsm = "DCACHE_WUPDT" /\ dc[p].addr = a THEN dc[p].data
  ELSE line[p][Slot(Block(a))][Offset(a)]

LineInv(p) ==
  \A a \in Addr :
    HasCopy(p, Block(a)) /\ ~Condemned(p, Block(a)) /\ ~Conditional(p, a) =>
      /\ \A d \in Word : Unwritten(p, a, d) => Updated(p, a) = d
      /\ (\A d \in Word : ~Unwritten(p, a, d)) => Updated(p, a) = mem[a]

-----------------------------------------------------------------------------
(* DCACHE_FSM: what a cycle does to the store of the FIFO_INPUT cell. *)

KeepsStores(p) ==
  /\ ~Puts(p)
  /\ dm'[p].addr = dm[p].addr /\ dm'[p].data = dm[p].data /\ dm'[p].size = dm[p].size
  /\ dm'[p].wf = dm[p].wf /\ dm'[p].wl = dm[p].wl
  /\ dm'[p].flush <=> dm[p].flush /\ ~DataDone(p)
  /\ dm'[p].pending <=> dm[p].pending /\ ~DataDone(p)

AddsWord(p) ==
  /\ ~DataDone(p) /\ ~dm[p].flush /\ (Puts(p) <=> dm[p].pending)
  /\ dm'[p].pending /\ ~dm'[p].flush /\ dm'[p].size = dm[p].size
  /\ dm'[p].addr = cpu[p].addr /\ dm'[p].data = cpu[p].data
  /\ dm'[p].wl = cpu[p].be /\ dm'[p].wf \in {dm[p].wf, cpu[p].be}
  /\ dm[p].pending => cpu[p].addr = dm[p].addr + 1

FlushesWord(p) ==
  /\ ~DataDone(p) /\ Puts(p) /\ dm[p].pending /\ ~dm[p].flush
  /\ dm'[p].pending /\ dm'[p].flush
  /\ dm'[p].addr = dm[p].addr /\ dm'[p].data = dm[p].data
  /\ dm'[p].wf = dm[p].wf /\ dm'[p].wl = dm[p].wl

(* A cycle adds a store, or keeps those there are, or sends them off.      *)
LEMMA StoreShape ==
  ASSUME CacheTypeOK, NEW p \in Procs, RequestInv(p), ServiceInv(p), InvalInv(p), FullInv(p),
         DCacheFsm(p)
  PROVE  \/ StoresWord(p) /\ AddsWord(p)
         \/ dc'[p].fsm # "DCACHE_WUPDT" /\ (KeepsStores(p) \/ FlushesWord(p))
<1>1. dc[p] \in DcRegs /\ dm[p] \in DmRegs /\ (cpu[p] # NoReq => cpu[p] \in DataReq)
  BY RegTypes DEF CacheTypeOK
<1>2. /\ ~(dm[p].req \/ dm[p].flush) => ~DataDone(p)
      /\ dc[p].fsm = "DCACHE_IDLE" => ~dm[p].req
      /\ dm[p].flush => dm[p].pending
  BY OkIsDone DEF RequestInv, Waiting, WaitStates
<1>3. ASSUME KeepDm(p), ~Puts(p) PROVE KeepsStores(p)
  <2>1. DmAfter(p, dm[p])
    BY <1>3, SetDmAt DEF KeepDm
  <2> QED BY <1>1, <1>3, <2>1 DEF DmAfter, KeepsStores, DmRegs
<1>4. ASSUME SetDm(p, [dm[p] EXCEPT !.req = TRUE]), ~Puts(p) PROVE KeepsStores(p)
  <2> DEFINE d == [dm[p] EXCEPT !.req = TRUE]
  <2>1. /\ d \in DmRegs /\ d.addr = dm[p].addr /\ d.data = dm[p].data /\ d.size = dm[p].size
        /\ d.wf = dm[p].wf /\ d.wl = dm[p].wl /\ d.flush = dm[p].flush
        /\ d.pending = dm[p].pending
    BY <1>1 DEF DmRegs
  <2>2. SetDm(p, d)
    BY <1>4
  <2> HIDE DEF d
  <2>3. DmAfter(p, d)
    BY <2>2, SetDmAt
  <2> QED BY <1>1, <1>4, <2>1, <2>3 DEF DmAfter, KeepsStores, DmRegs
<1>5. CASE DcBurst(p)
  <2> DEFINE d == [dm[p] EXCEPT !.first = FALSE, !.addr = cpu[p].addr,
                                !.data = cpu[p].data, !.wl = cpu[p].be]
  <2>1. Gathers(p) /\ Continues(p) /\ AcceptStore(p) /\ SetDm(p, d)
        /\ UNCHANGED <<tag, line>>
    BY <1>5 DEF DcBurst
  <2>2. Proceeds(p) /\ dm[p].pending /\ ~dm[p].flush /\ ~DataDone(p)
    BY <1>2, <2>1 DEF Gathers, Proceeds
  <2>3. StoresWord(p)
    BY <2>1, <2>2, LooksUpAt DEF AcceptStore, StoresWord, SameLines
  <2>4. dm'[p] = d
    <3> HIDE DEF d
    <3> QED BY <2>1, <2>2, SetDmAt DEF DmAfter
  <2>5. /\ dm'[p].pending = dm[p].pending /\ dm'[p].flush = dm[p].flush
        /\ dm'[p].size = dm[p].size /\ dm'[p].addr = cpu[p].addr /\ dm'[p].data = cpu[p].data
        /\ dm'[p].wl = cpu[p].be /\ dm'[p].wf = dm[p].wf
    BY <1>1, <2>4 DEF DmRegs
  <2>6. Puts(p) /\ cpu[p].addr = dm[p].addr + 1
    BY <2>1 DEF Puts, Continues, Merges
  <2> QED BY <2>2, <2>3, <2>5, <2>6 DEF AddsWord
<1>6. CASE DcFirstStore(p)
  <2> DEFINE d == [dm[p] EXCEPT !.pending = TRUE, !.first = TRUE, !.addr = cpu[p].addr,
                                !.data = cpu[p].data, !.wf = cpu[p].be, !.wl = cpu[p].be]
  <2>1. Proceeds(p) /\ ~dm[p].pending /\ AcceptStore(p) /\ SetDm(p, d)
        /\ UNCHANGED <<tag, line>>
    BY <1>6 DEF DcFirstStore
  <2>2. ~dm[p].flush /\ ~DataDone(p) /\ ~Puts(p)
    BY <1>2, <2>1 DEF Puts, Gathers, Proceeds
  <2>3. StoresWord(p)
    BY <2>1, LooksUpAt DEF AcceptStore, StoresWord, SameLines
  <2>4. dm'[p] = d
    <3> HIDE DEF d
    <3> QED BY <2>1, <2>2, SetDmAt DEF DmAfter
  <2>5. /\ dm'[p].pending /\ dm'[p].flush = dm[p].flush
        /\ dm'[p].size = dm[p].size /\ dm'[p].addr = cpu[p].addr /\ dm'[p].data = cpu[p].data
        /\ dm'[p].wl = cpu[p].be /\ dm'[p].wf = cpu[p].be
    BY <1>1, <2>4 DEF DmRegs
  <2> QED BY <2>1, <2>2, <2>3, <2>5 DEF AddsWord
<1>7. CASE DcMerge(p)
  BY <1>7 DEF DcMerge, Merges, FullInv
<1>8. CASE DcFlush(p)
  <2> DEFINE n == BurstSize(p)
             d == [dm[p] EXCEPT !.first = FALSE, !.flush = TRUE, !.size = n]
  <2>1. Gathers(p) /\ ~Merges(p) /\ SaveAndGoTo(p, "DCACHE_IDLE") /\ SetDm(p, d)
    BY <1>8 DEF DcFlush
  <2>2. Proceeds(p) /\ dm[p].pending /\ ~dm[p].flush /\ ~DataDone(p) /\ Puts(p)
    BY <1>2, <2>1 DEF Gathers, Proceeds, Puts
  <2>3. dc'[p].fsm = "DCACHE_IDLE"
    BY <2>1, SavedAt
  <2>4. dm'[p] = d
    <3> HIDE DEF d
    <3> QED BY <2>1, <2>2, SetDmAt DEF DmAfter
  <2> HIDE DEF n
  <2>5. /\ dm'[p].pending = dm[p].pending /\ dm'[p].flush
        /\ dm'[p].addr = dm[p].addr /\ dm'[p].data = dm[p].data
        /\ dm'[p].wl = dm[p].wl /\ dm'[p].wf = dm[p].wf
    BY <1>1, <2>4 DEF DmRegs
  <2> QED BY <2>2, <2>3, <2>5 DEF FlushesWord
<1>9. CASE DcStall(p) \/ DcLoadHit(p) \/ DcSync(p) \/ DcXtnInval(p) \/ DcNoRequest(p)
  <2>1. KeepDm(p) /\ ~Puts(p)
    BY <1>9 DEF DcStall, DcLoadHit, DcSync, DcXtnInval, DcNoRequest, CachedLoad, Puts, Gathers,
       Proceeds
  <2>2. dc'[p].fsm # "DCACHE_WUPDT"
    <3>1. CASE DcNoRequest(p)
      BY <3>1 DEF DcNoRequest
    <3>2. CASE ~DcNoRequest(p)
      <4>1. \E s \in {"DCACHE_IDLE", "DCACHE_CPUINVAL"} : SaveAndGoTo(p, s)
        BY <1>9, <3>2 DEF DcStall, DcLoadHit, DcSync, DcXtnInval
      <4> QED BY <4>1, SavedAt
    <3> QED BY <3>1, <3>2
  <2> QED BY <1>3, <2>1, <2>2
<1>10. CASE DcLoadMiss(p) \/ DcUncached(p)
  <2>1. SetDm(p, [dm[p] EXCEPT !.req = TRUE]) /\ ~Puts(p)
    BY <1>10 DEF DcLoadMiss, DcUncached, CachedLoad, Puts, Gathers
  <2>2. dc'[p].fsm # "DCACHE_WUPDT"
    BY <1>10, SavedAt DEF DcLoadMiss, DcUncached
  <2> QED BY <1>4, <2>1, <2>2
<1>11. CASE \/ DcTakeInval(p) \/ DcWriteUpdate(p) \/ DcWait(p) \/ DcMissUpdate(p)
            \/ DcUncachedGo(p) \/ DcCpuInval(p) \/ DcRamInval(p)
  <2>1. KeepDm(p) /\ ~Puts(p)
    BY <1>11 DEF DcTakeInval, TakesInval, DcWriteUpdate, DcWait, WaitStates, DcMissUpdate,
       DcUncachedGo, DcCpuInval, DcRamInval, Puts, Gathers, Proceeds
  <2>2. dc'[p].fsm # "DCACHE_WUPDT"
    <3>1. CASE DcTakeInval(p) \/ DcWait(p)
      <4>1. TakesAway(p) \/ Waits(p) \/ Invalidates(p)
        <5>1. dc[p].fsm \in WaitStates \/ iv[p].req
          BY <3>1 DEF DcTakeInval, TakesInval, DcWait
        <5>2. dc[p].fsm \in WaitStates \cup {"DCACHE_IDLE"}
          BY <3>1 DEF DcTakeInval, TakesInval, DcWait
        <5> QED BY <5>1, <5>2, DcShape
                DEF Idles, StoresWord, Misses, AsksWord, LooksUp, UpdatesWord, FillsLine,
                    DropsLine, WaitStates
      <4> QED BY <4>1 DEF TakesAway, Waits, WaitStates, Invalidates, InvalInv
    <3>2. CASE DcWriteUpdate(p) \/ DcMissUpdate(p) \/ DcUncachedGo(p) \/ DcCpuInval(p)
      BY <3>2, GoToAt DEF DcWriteUpdate, DcMissUpdate, DcUncachedGo, DcCpuInval
    <3>3. CASE DcRamInval(p)
      <4>1. dc[p].fsm = "DCACHE_RAMINVAL"
        BY <3>3 DEF DcRamInval
      <4>2. Invalidates(p)
        BY <4>1, DcShape
        DEF TakesAway, TakesInval, Idles, StoresWord, Misses, AsksWord, LooksUp, UpdatesWord,
            Waits, FillsLine, DropsLine, WaitStates
      <4> QED BY <4>2 DEF Invalidates, InvalInv, WaitStates
    <3> QED BY <1>11, <3>1, <3>2, <3>3
  <2> QED BY <1>3, <2>1, <2>2
<1> QED BY <1>5, <1>6, <1>7, <1>8, <1>9, <1>10, <1>11 DEF DCacheFsm

(* Who may have a store on the network, and in which state. *)
LEMMA WriteFacts ==
  ASSUME PortsOK, NEW p \in Procs
  PROVE  /\ rs[p].fsm = "RSP_WRITE" =>
              /\ rq[p].fsm \in {"REQ_WRITE", "REQ_DWAIT"}
              /\ dm[p].flush /\ dm[p].pending /\ ~dm[p].req /\ ~rs[p].dOk /\ ~rs[p].dRetry
              /\ dm[p].size = Len(wb[p].cells) /\ dm[p].size \in Nat
              /\ rq[p].fsm = "REQ_WRITE" => rq[p].cpt \in Nat /\ rq[p].cpt < dm[p].size
         /\ cmd[p] # NoCell => ~NothingSent(p) /\ rsp[p] = NoCell
         /\ cmd[p] # NoCell => (cmd[p].cmd = "WRITE" <=> rs[p].fsm = "RSP_WRITE")
         /\ cmd[p] # NoCell /\ cmd[p].cmd = "STORE_COND" =>
              /\ rs[p].fsm = "RSP_UNC" /\ dm[p].req /\ dc[p].sc
              /\ rq[p].fsm = "REQ_DWAIT" /\ cmd[p].addr = rq[p].addr
<1>1. /\ CacheTypeOK /\ CacheInv(p) /\ Ram!PacketInv /\ Packets[p] = Packet(p) /\ p \in Srcs
      /\ Ram!Srcs = Srcs /\ NocTypeOK
  BY PortFacts, SameMap DEF PortsOK
<1>2. /\ RequestInv(p) /\ ServiceInv(p) /\ BufferInv(p)
      /\ dm[p] \in DmRegs /\ rq[p].cpt \in Nat /\ dm[p].size \in Nat
      /\ rs[p].fsm \in {"RSP_IDLE", "RSP_IMISS", "RSP_DMISS", "RSP_UNC", "RSP_WRITE"}
  <2>1. rq[p] \in RqRegs /\ dm[p] \in DmRegs /\ rs[p] \in RsRegs
    BY <1>1, RegTypes
  <2>2. rq[p].cpt \in Nat /\ dm[p].size \in Nat
    BY <2>1, SizeFacts DEF RqRegs, DmRegs
  <2> QED BY <1>1, <2>1, <2>2 DEF CacheInv, RsRegs
<1>3. ASSUME rs[p].fsm = "RSP_WRITE"
      PROVE  /\ rq[p].fsm \in {"REQ_WRITE", "REQ_DWAIT"}
             /\ dm[p].flush /\ dm[p].pending /\ ~dm[p].req /\ ~rs[p].dOk /\ ~rs[p].dRetry
             /\ dm[p].size = Len(wb[p].cells) /\ dm[p].size \in Nat
             /\ rq[p].fsm = "REQ_WRITE" => rq[p].cpt \in Nat /\ rq[p].cpt < dm[p].size
  <2>1. rq[p].fsm \in {"REQ_WRITE", "REQ_DWAIT"} \cup DataCellStates
    BY <1>1, <1>2, <1>3, StateFacts DEF ServiceInv, ReqStates, DataCellStates, OneCellStates
  <2>2. rq[p].fsm \notin DataCellStates
    BY <1>2, <1>3 DEF ServiceInv, DataRspState
  <2> QED BY <1>2, <1>3, <2>1, <2>2 DEF ServiceInv, RequestInv, BufferInv, DataRspState
<1>4. ASSUME cmd[p] # NoCell
      PROVE  /\ ~NothingSent(p) /\ rsp[p] = NoCell
             /\ cmd[p].cmd = Packet(p).cmd /\ cmd[p].addr = Packet(p).addr
  <2>1. Ram!CmdMatches(p) /\ cmd[p] \in CmdCell
    BY <1>1, <1>4 DEF Ram!PacketInv, NocTypeOK
  <2>2. cmd[p].cells \in Nat \ {0}
    BY <2>1 DEF CmdCell
  <2>3. Packet(p).toRecv # 0
    BY <1>1, <1>4, <2>1, <2>2 DEF Ram!CmdMatches
  <2>4. ~NothingSent(p)
    BY <2>3 DEF Packet, NoPacket
  <2> QED BY <1>1, <1>4, <2>1, <2>4 DEF Ram!CmdMatches
<1>5. UncachedCmd(p) \in {"LOCKED_READ", "STORE_COND", "READ"}
  BY DEF UncachedCmd
<1>6. ASSUME cmd[p] # NoCell PROVE cmd[p].cmd = "WRITE" <=> rs[p].fsm = "RSP_WRITE"
  <2>1. rq[p].fsm = "REQ_WRITE" => rs[p].fsm = "RSP_WRITE"
    BY <1>1, <1>4, <1>6, BusyFacts
  <2> QED BY <1>4, <1>5, <1>6, <2>1 DEF Packet
<1>7. ASSUME cmd[p] # NoCell, cmd[p].cmd = "STORE_COND"
      PROVE  /\ rs[p].fsm = "RSP_UNC" /\ dm[p].req /\ dc[p].sc
             /\ rq[p].fsm = "REQ_DWAIT" /\ cmd[p].addr = rq[p].addr
  <2>1. rq[p].fsm # "REQ_WRITE" /\ rs[p].fsm = "RSP_UNC" /\ UncachedCmd(p) = "STORE_COND"
    BY <1>1, <1>2, <1>4, <1>5, <1>7, BusyFacts DEF Packet
  <2>2. Packet(p).addr = rq[p].addr
    BY <1>4, <1>7, <2>1 DEF Packet
  <2>3. dm[p].req /\ rq[p].fsm = "REQ_DWAIT"
    BY <1>1, <1>4, <1>7, <2>1, BusyFacts
  <2>4. DataReqState(p) = "REQ_SC"
    BY <2>1 DEF UncachedCmd
  <2>5. dc[p].sc
    <3> SUFFICES ASSUME ~dc[p].sc PROVE DataReqState(p) # "REQ_SC"
      BY <2>4
    <3>1. CASE dc[p].ll
      BY <3>1, Zenon DEF DataReqState
    <3>2. CASE ~dc[p].ll
      BY <3>2, Zenon DEF DataReqState
    <3> QED BY <3>1, <3>2
  <2> QED BY <1>4, <1>7, <2>1, <2>2, <2>3, <2>5
<1> QED BY <1>3, <1>4, <1>6, <1>7

(* The cells of the write buffer. *)
LEMMA CellTypes ==
  ASSUME PortsOK, NEW p \in Procs
  PROVE  /\ Len(wb[p].cells) \in Nat /\ NbDone(p) \in Int /\ dm[p].addr \in Nat
         /\ \A i \in 1 .. Len(wb[p].cells) :
              wb[p].cells[i].addr \in Addr /\ wb[p].cells[i].data \in Word
         /\ dm[p].data \in Word /\ dm[p].addr \in Addr
         /\ dm[p].pending /\ ~dm[p].flush => Len(wb[p].cells) < BufferSize
         /\ ~dm[p].pending => Len(wb[p].cells) = 0
         /\ NbDone(p) >= 0
<1> DEFINE C == [addr : Addr, data : Word]
           s == wb[p].cells
<1>1. CacheTypeOK /\ BufferInv(p) /\ dm[p] \in DmRegs /\ wb[p] \in WbRegs /\ rq[p] \in RqRegs
  BY RegTypes DEF PortsOK, CacheInv
<1>2. s \in Seq(C)
  BY <1>1 DEF WbRegs
<1>3. Len(s) \in Nat /\ \A i \in 1 .. Len(s) : s[i] \in C
  <2> HIDE DEF C, s
  <2> QED BY <1>2
<1>4. \A i \in 1 .. Len(s) : s[i].addr \in Addr /\ s[i].data \in Word
  BY <1>3
<1>5. /\ dm[p].addr \in Addr /\ dm[p].data \in Word /\ dm[p].size \in Nat /\ rq[p].cpt \in Nat
      /\ Addr \subseteq Nat
  BY <1>1, SizeFacts, NbWordsAssumption DEF DmRegs, RqRegs, Addr
<1>6. NbDone(p) \in Int
  BY <1>5 DEF NbDone, NbSent
<1>7. ~dm[p].pending => Len(s) = 0
  BY <1>1 DEF BufferInv, EmptyBuffer
<1>8. dm[p].pending /\ ~dm[p].flush => Len(s) < BufferSize
  BY <1>1 DEF BufferInv
<1>9. NbDone(p) >= 0
  <2> SUFFICES ASSUME rs[p].fsm = "RSP_WRITE", cmd[p] # NoCell PROVE NbSent(p) >= 1
    BY <1>5 DEF NbDone, NbSent
  <2>1. ~NothingSent(p) /\ dm[p].flush /\ ~rs[p].dOk
    BY WriteFacts
  <2>2. rq[p].fsm = "REQ_WRITE" => rq[p].cpt >= 1
    BY <1>5, <2>1 DEF NothingSent
  <2>3. dm[p].size >= 1
    BY <1>1, <1>5, <2>1 DEF BufferInv
  <2> QED BY <2>2, <2>3 DEF NbSent
<1> QED BY <1>3, <1>4, <1>5, <1>6, <1>7, <1>8, <1>9

(* The words of a burst follow each other: an address occurs once. *)
LEMMA OneStore ==
  ASSUME PortsOK, NEW p \in Procs, dm[p].pending,
         NEW i \in 1 .. Len(wb[p].cells)
  PROVE  /\ \A j \in 1 .. Len(wb[p].cells) :
              wb[p].cells[i].addr = wb[p].cells[j].addr => i = j
         /\ ~dm[p].flush => wb[p].cells[i].addr < dm[p].addr
<1>1. ContiguousInv(p)
  BY DEF PortsOK, CacheInv
<1> DEFINE n == Len(wb[p].cells)
           f == IF dm[p].flush THEN 0 ELSE 1
<1>2. \A j \in 1 .. n : wb[p].cells[j].addr = dm[p].addr - n + j - f
  BY <1>1 DEF ContiguousInv
<1>3. n \in Nat /\ f \in {0, 1} /\ dm[p].addr \in Nat /\ (~dm[p].flush => f = 1)
  BY CellTypes
<1> DEFINE d == dm[p].addr
           g(j) == wb[p].cells[j].addr
<1>4. i \in 1 .. n /\ d \in Nat /\ \A j \in 1 .. n : g(j) = d - n + j - f
  BY <1>2, <1>3
<1> HIDE DEF n, f, d, g
<1>5. \A j \in 1 .. n : g(i) = g(j) => i = j
  BY <1>3, <1>4
<1>6. ~dm[p].flush => g(i) < d
  BY <1>3, <1>4
<1> QED BY <1>5, <1>6 DEF n, d, g

(* What a cycle does to the write buffer, and to what memory has done of   *)
(* it: the packet is emptied once memory has done all of its stores.       *)
LEMMA CellsStep ==
  ASSUME PortsOK, NEW p \in Procs, NEW rspval \in BOOLEAN, NEW invval \in BOOLEAN,
         CacheCycle(p, rspval, invval), ReadInv(p)
  PROVE  \/ /\ dm[p].flush /\ ~Puts(p)
            /\ NbDone(p) = Len(wb[p].cells) /\ NbDone(p)' = 0 /\ wb'[p].cells = <<>>
         \/ /\ NbDone(p)' = NbDone(p) /\ (Puts(p) => NbDone(p) = 0)
            /\ wb'[p].cells = IF Puts(p)
                              THEN Append(wb[p].cells, [addr |-> dm[p].addr, data |-> dm[p].data])
                              ELSE wb[p].cells
<1>1. /\ CacheTypeOK /\ CacheInv(p) /\ ResponseOK(p) /\ BufferInv(p) /\ WriteBuffer(p, rspval)
      /\ rspval => rsp[p] # NoCell
      /\ rsp[p] # NoCell => ~rsp[p].error
      /\ wb[p] \in WbRegs /\ wb[p].ptr <= Len(wb[p].cells) /\ Len(wb[p].cells) <= BufferSize
      /\ \/ ReqKeeps(p) \/ ReqStartsData(p) \/ ReqStartsWrite(p) \/ ReqStartsInst(p)
         \/ ReqSendsOneCell(p) \/ ReqSendsStore(p) \/ ReqEnds(p)
      /\ \/ RspKeeps(p, rspval) \/ RspStarts(p)
         \/ RspTakesLineCell(p, rspval) \/ RspTakesOneCell(p, rspval)
  BY CycleShape, CycleEffects, RegTypes DEF ReadInv, CacheCycle
<1>2. /\ rs[p].fsm = "RSP_WRITE" =>
           /\ rq[p].fsm \in {"REQ_WRITE", "REQ_DWAIT"}
           /\ dm[p].flush /\ dm[p].pending /\ ~dm[p].req /\ ~rs[p].dOk /\ ~rs[p].dRetry
           /\ dm[p].size = Len(wb[p].cells) /\ dm[p].size \in Nat
           /\ rq[p].fsm = "REQ_WRITE" => rq[p].cpt \in Nat /\ rq[p].cpt < dm[p].size
      /\ cmd[p] # NoCell => ~NothingSent(p) /\ rsp[p] = NoCell
  BY WriteFacts
<1>3. wb'[p] = IF WriteAnswered(p, rspval)
               THEN IF rsp[p].error THEN InitRead(wb[p]) ELSE EmptyBuffer
               ELSE IF Gets(p) THEN SimpleGet(wb[p])
               ELSE IF Puts(p)
               THEN SimplePut(wb[p], [addr |-> dm[p].addr, data |-> dm[p].data])
               ELSE wb[p]
  BY <1>1, BufferAt
<1>4. CASE WriteAnswered(p, rspval)
  <2>1. dm[p].flush /\ rq[p].fsm = "REQ_DWAIT" /\ ~Puts(p) /\ rs[p].fsm = "RSP_WRITE" /\ rspval
    BY <1>1, <1>4, AnsweredFacts DEF WriteAnswered
  <2>2. wb'[p].cells = <<>>
    BY <1>1, <1>3, <1>4, <2>1 DEF EmptyBuffer
  <2>3. NbDone(p) = Len(wb[p].cells)
    BY <1>1, <1>2, <2>1 DEF NbDone, NbSent
  <2>4. rs'[p].fsm # "RSP_WRITE"
    BY <1>1, <2>1 DEF RspKeeps, RspStarts, BothIdle, RspTakesLineCell, RspTakesOneCell
  <2> QED BY <2>1, <2>2, <2>3, <2>4 DEF NbDone
<1>5. CASE ~WriteAnswered(p, rspval)
  <2>1. Puts(p) => ~Gets(p) /\ NbDone(p) = 0 /\ dm[p].pending /\ ~dm[p].flush
    BY <1>1, <1>2, CacheConsistent DEF Puts, Gathers, NbDone
  <2>2. ASSUME rs[p].fsm = "RSP_WRITE" PROVE NbDone(p)' = NbDone(p)
    <3>1. RspKeeps(p, rspval) /\ rs'[p].fsm = "RSP_WRITE"
      BY <1>1, <1>5, <2>2 DEF WriteAnswered, RspKeeps, RspStarts, BothIdle, RspTakesLineCell,
         RspTakesOneCell
    <3>2. dm'[p].size = dm[p].size
      BY <1>2, <2>2, CycleEffects DEF SameRequest
    <3>3. CASE ReqKeeps(p)
      BY <2>2, <3>1, <3>2, <3>3 DEF ReqKeeps, NbDone, NbSent
    <3>4. CASE ReqSendsStore(p)
      <4>1. /\ cmd[p] = NoCell /\ rq[p].fsm = "REQ_WRITE" /\ cmd'[p] = CommandCell(p)
            /\ rq'[p].cpt = rq[p].cpt + 1
            /\ rq'[p].fsm = IF rq[p].cpt = dm[p].size - 1 THEN "REQ_DWAIT" ELSE "REQ_WRITE"
        BY <3>4, CycleEffects DEF ReqSendsStore, LastCell
      <4>2. cmd'[p] # NoCell
        BY <1>1, <4>1, CommandFacts, NoCellAssumption
      <4>3. NbSent(p) = rq[p].cpt /\ NbSent(p)' = rq[p].cpt + 1
        BY <1>2, <2>2, <3>2, <4>1 DEF NbSent
      <4> QED BY <1>2, <2>2, <3>1, <4>1, <4>2, <4>3 DEF NbDone
    <3> QED BY <1>1, <1>2, <2>2, <3>3, <3>4
            DEF ReqStartsData, ReqStartsWrite, StartsWrite, ReqStartsInst, BothIdle,
                ReqSendsOneCell, OneCellStates, ReqEnds
  <2>3. ASSUME rs[p].fsm # "RSP_WRITE" PROVE NbDone(p)' = NbDone(p)
    <3>1. CASE rs'[p].fsm = "RSP_WRITE"
      <4>1. RspStarts(p)
        BY <1>1, <2>3, <3>1 DEF RspKeeps, RspTakesLineCell, RspTakesOneCell
      <4>2. BothIdle(p) /\ ~dm[p].req /\ dm[p].flush
        BY <3>1, <4>1 DEF RspStarts, DataRspState
      <4>3. ReqStartsWrite(p)
        BY <1>1, <4>2
        DEF ReqKeeps, BothIdle, ReqStartsData, ReqStartsInst, ReqSendsOneCell, OneCellStates,
            ReqSendsStore, ReqEnds
      <4>4. cmd'[p] = NoCell
        BY <1>2, <4>2, <4>3 DEF ReqStartsWrite, NothingSent, BothIdle
      <4> QED BY <2>3, <3>1, <4>3, <4>4 DEF NbDone, NbSent, ReqStartsWrite
    <3> QED BY <2>3, <3>1 DEF NbDone
  <2>4. NbDone(p)' = NbDone(p)
    BY <2>2, <2>3
  <2>5. wb'[p].cells = IF Puts(p)
                       THEN Append(wb[p].cells, [addr |-> dm[p].addr, data |-> dm[p].data])
                       ELSE wb[p].cells
    <3> DEFINE c == [addr |-> dm[p].addr, data |-> dm[p].data]
    <3>1. c \in [addr : Addr, data : Word]
      BY CellTypes
    <3> HIDE DEF c
    <3>2. CASE Puts(p)
      <4>1. Len(wb[p].cells) < BufferSize
        BY <2>1, <3>2, CellTypes
      <4> QED BY <1>1, <1>3, <1>5, <2>1, <3>1, <3>2, <4>1, BufferFacts DEF c
    <3>3. CASE ~Puts(p) /\ Gets(p)
      <4>1. SimpleGet(wb[p]).cells = wb[p].cells
        <5>1. wb[p].ptr < Len(wb[p].cells) \/ wb[p].ptr = Len(wb[p].cells)
          <6>1. wb[p].ptr \in Nat /\ Len(wb[p].cells) \in Nat
            BY <1>1, CellTypes, SizeFacts DEF WbRegs
          <6> QED BY <1>1, <6>1
        <5> QED BY <1>1, <5>1, BufferFacts
      <4> QED BY <1>3, <1>5, <3>3, <4>1
    <3>4. CASE ~Puts(p) /\ ~Gets(p)
      BY <1>3, <1>5, <3>4
    <3> QED BY <3>2, <3>3, <3>4 DEF c
  <2> QED BY <2>1, <2>4, <2>5
<1> QED BY <1>4, <1>5

LEMMA AppendCells ==
  ASSUME NEW C, NEW s \in Seq(C), NEW c \in C
  PROVE  /\ Len(Append(s, c)) = Len(s) + 1 /\ Len(s) \in Nat
         /\ \A i \in 1 .. Len(s) + 1 : Append(s, c)[i] = IF i <= Len(s) THEN s[i] ELSE c
OBVIOUS

(* The stores that memory has not done change when the processor stores,   *)
(* and when memory does one.                                               *)
LEMMA UnwrittenStep ==
  ASSUME PortsOK, NEW p \in Procs, NEW rspval \in BOOLEAN, NEW invval \in BOOLEAN,
         CacheCycle(p, rspval, invval), ReadInv(p), NEW a, NEW d
  PROVE  /\ AddsWord(p) =>
              (Unwritten(p, a, d)' <=>
                 Unwritten(p, a, d) \/ (cpu[p].addr = a /\ cpu[p].data = d))
         /\ KeepsStores(p) \/ FlushesWord(p) => (Unwritten(p, a, d)' <=> Unwritten(p, a, d))
<1> DEFINE s == wb[p].cells
           t == wb'[p].cells
           C == [addr : Addr, data : Word]
           c == [addr |-> dm[p].addr, data |-> dm[p].data]
           n == NbDone(p)
           n2 == NbDone(p)'
           Waits2(x, m) == \E i \in m + 1 .. Len(x) : x[i].addr = a /\ x[i].data = d
           Last == dm[p].pending /\ ~dm[p].flush /\ dm[p].addr = a /\ dm[p].data = d
           Last2 == dm'[p].pending /\ ~dm'[p].flush /\ dm'[p].addr = a /\ dm'[p].data = d
<1>1. /\ Unwritten(p, a, d) <=> Last \/ Waits2(s, n)
      /\ Unwritten(p, a, d)' <=> Last2 \/ Waits2(t, n2)
  BY DEF Unwritten
<1>2. s \in Seq(C) /\ c \in C /\ n \in Int /\ c.addr = dm[p].addr /\ c.data = dm[p].data
  <2>1. wb[p] \in WbRegs
    BY CycleShape, RegTypes
  <2> QED BY <2>1, CellTypes DEF WbRegs
<1>3. \/ dm[p].flush /\ ~Puts(p) /\ n = Len(s) /\ n2 = 0 /\ t = <<>>
      \/ n2 = n /\ (Puts(p) => n = 0) /\ t = IF Puts(p) THEN Append(s, c) ELSE s
  BY CellsStep
<1>4. Puts(p) /\ n2 = n /\ n = 0 /\ t = Append(s, c) =>
        (Waits2(t, n2) <=> Waits2(s, n) \/ (dm[p].addr = a /\ dm[p].data = d))
  <2> SUFFICES ASSUME n2 = n, n = 0, t = Append(s, c)
               PROVE  Waits2(t, 0) <=> Waits2(s, 0) \/ (c.addr = a /\ c.data = d)
    BY <1>2
  <2>1. Len(t) = Len(s) + 1 /\ Len(s) \in Nat
        /\ \A i \in 1 .. Len(s) + 1 : t[i] = IF i <= Len(s) THEN s[i] ELSE c
    <3> HIDE DEF s, t, C, c
    <3> QED BY <1>2, AppendCells
  <2> HIDE DEF s, t, C, c
  <2> QED BY <2>1
<1>5. t = <<>> /\ n = Len(s) => ~Waits2(t, 0) /\ ~Waits2(s, n)
  <2>1. Len(s) + 1 .. Len(s) = {} /\ 0 + 1 .. Len(<<>>) = {}
    <3>1. Len(s) \in Nat
      BY CellTypes
    <3> QED BY <3>1
  <2> QED BY <2>1
<1>6. KeepsStores(p) => (Last2 <=> Last)
  <2>1. DataDone(p) => dm[p].flush \/ ~dm[p].pending
    <3>1. RequestInv(p) /\ ServiceInv(p) /\ CacheTypeOK
      BY CycleShape
    <3> QED BY <3>1, OkIsDone DEF RequestInv
  <2> QED BY <2>1 DEF KeepsStores
<1>7. KeepsStores(p) => ~Puts(p)
  BY DEF KeepsStores
<1>8. AddsWord(p) => ~dm[p].flush /\ (Puts(p) <=> dm[p].pending)
                     /\ (Last2 <=> cpu[p].addr = a /\ cpu[p].data = d)
  BY DEF AddsWord
<1>9. FlushesWord(p) => Puts(p) /\ dm[p].pending /\ ~dm[p].flush /\ ~Last2
  BY DEF FlushesWord
<1> HIDE DEF s, t, C, c, n, n2, Waits2, Last2
<1> QED BY <1>1, <1>3, <1>4, <1>5, <1>6, <1>7, <1>8, <1>9

(* A store that is accepted is the first one at its address. *)
LEMMA FreshStore ==
  ASSUME PortsOK, NEW p \in Procs, AddsWord(p), NEW d
  PROVE  ~Unwritten(p, cpu[p].addr, d)
<1>1. /\ ~dm[p].flush /\ (dm[p].pending => cpu[p].addr = dm[p].addr + 1)
      /\ dm[p].addr \in Nat /\ Len(wb[p].cells) \in Nat /\ NbDone(p) \in Int /\ NbDone(p) >= 0
      /\ ~dm[p].pending => Len(wb[p].cells) = 0
  BY CellTypes DEF AddsWord
<1>2. ASSUME NEW i \in NbDone(p) + 1 .. Len(wb[p].cells), wb[p].cells[i].addr = cpu[p].addr
      PROVE  FALSE
  <2>1. i \in 1 .. Len(wb[p].cells)
    BY <1>1
  <2>2. dm[p].pending
    BY <1>1, <2>1
  <2>3. wb[p].cells[i].addr < dm[p].addr
    BY <1>1, <2>1, <2>2, OneStore
  <2>4. wb[p].cells[i].addr = dm[p].addr + 1
    BY <1>1, <1>2, <2>2
  <2> QED BY <1>1, <2>3, <2>4
<1>3. ~(dm[p].pending /\ dm[p].addr = cpu[p].addr)
  BY <1>1
<1> QED BY <1>2, <1>3 DEF Unwritten

LEMMA CycleStores ==
  ASSUME PortsOK, NEW p \in Procs, NEW rspval \in BOOLEAN, NEW invval \in BOOLEAN,
         CacheCycle(p, rspval, invval), FullInv(p)
  PROVE  \/ StoresWord(p) /\ AddsWord(p)
         \/ dc'[p].fsm # "DCACHE_WUPDT" /\ (KeepsStores(p) \/ FlushesWord(p))
BY CycleShape, StoreShape

(* DCACHE_WUPDT is about the youngest store.                               *)
LEMMA UpdateStep ==
  ASSUME PortsOK, NEW p \in Procs, NEW rspval \in BOOLEAN, NEW invval \in BOOLEAN,
         CacheCycle(p, rspval, invval), FullInv(p)
  PROVE  UpdateInv(p)'
BY CycleStores DEF UpdateInv, StoresWord, LooksUp, Hit, AddsWord, SameLines

(* Stores stay whole words.                                                *)
LEMMA FullStep ==
  ASSUME PortsOK, NEW p \in Procs, NEW rspval \in BOOLEAN, NEW invval \in BOOLEAN,
         CacheCycle(p, rspval, invval), FullInv(p)
  PROVE  FullInv(p)'
<1>1. /\ CacheTypeOK /\ DCacheFsm(p)
      /\ \/ TakesAway(p) \/ Idles(p) \/ StoresWord(p) \/ Misses(p) \/ AsksWord(p)
         \/ UpdatesWord(p) \/ Waits(p) \/ FillsLine(p) \/ DropsLine(p) \/ Invalidates(p)
  BY CycleShape
<1>2. cpu' = cpu \/ AnswerCpu(p)
  BY <1>1
  DEF DCacheFsm, DcTakeInval, DcNoRequest, DcBurst, DcMerge, DcFlush, DcStall, DcFirstStore,
      DcLoadHit, DcLoadMiss, DcUncached, DcSync, DcXtnInval, DcWriteUpdate, DcWait,
      DcMissUpdate, DcUncachedGo, DcCpuInval, DcRamInval, AcceptStore
<1>3. cpu'[p] \in {cpu[p], NoReq}
  BY <1>1, <1>2 DEF AnswerCpu, CacheTypeOK
<1>4. dc'[p].be = Lanes
  <2>1. SameData(p) \/ LooksUp(p)
    BY <1>1 DEF TakesAway, Idles, StoresWord, Misses, AsksWord, UpdatesWord, Waits, FillsLine,
       DropsLine, Invalidates
  <2> QED BY <2>1 DEF SameData, LooksUp, FullInv
<1>5. dm'[p].wf = Lanes /\ dm'[p].wl = Lanes
  BY CycleStores DEF FullInv, AddsWord, KeepsStores, FlushesWord, StoresWord, LooksUp
<1> QED BY <1>3, <1>4, <1>5 DEF FullInv

(* The stores leave the write buffer in the order in which they entered it. *)
LEMMA StoreSentStep ==
  ASSUME PortsOK, NEW p \in Procs, NEW rspval \in BOOLEAN, NEW invval \in BOOLEAN,
         CacheCycle(p, rspval, invval), ReadInv(p), FullInv(p), StoreSentInv(p)
  PROVE  StoreSentInv(p)'
<1> SUFFICES ASSUME cmd'[p] # NoCell, cmd'[p].cmd = "WRITE"
             PROVE  /\ NbSent(p)' \in 1 .. Len(wb'[p].cells) /\ cmd'[p].be = Lanes
                    /\ cmd'[p].addr = wb'[p].cells[NbSent(p)'].addr
                    /\ cmd'[p].data = wb'[p].cells[NbSent(p)'].data
  BY DEF StoreSentInv
<1> DEFINE s == wb[p].cells
<1>1. /\ CacheTypeOK /\ CacheInv(p) /\ BufferInv(p) /\ ServiceInv(p) /\ p \in Srcs
      /\ \/ ReqKeeps(p) \/ ReqStartsData(p) \/ ReqStartsWrite(p) \/ ReqStartsInst(p)
         \/ ReqSendsOneCell(p) \/ ReqSendsStore(p) \/ ReqEnds(p)
  BY CycleShape, CycleEffects
<1>2. /\ rs[p].fsm = "RSP_WRITE" =>
           /\ rq[p].fsm \in {"REQ_WRITE", "REQ_DWAIT"}
           /\ dm[p].flush /\ dm[p].pending /\ ~dm[p].req /\ ~rs[p].dOk /\ ~rs[p].dRetry
           /\ dm[p].size = Len(s) /\ dm[p].size \in Nat
           /\ rq[p].fsm = "REQ_WRITE" => rq[p].cpt \in Nat /\ rq[p].cpt < dm[p].size
      /\ cmd[p] # NoCell => ~NothingSent(p) /\ rsp[p] = NoCell
      /\ cmd[p] # NoCell => (cmd[p].cmd = "WRITE" <=> rs[p].fsm = "RSP_WRITE")
  BY WriteFacts
<1>3. rs[p].fsm = "RSP_WRITE" => dm'[p].size = dm[p].size /\ ~Puts(p)
  BY <1>2, CycleEffects DEF SameRequest, Puts, Gathers
<1>4. \/ NbDone(p) = Len(s)
      \/ NbDone(p)' = NbDone(p) /\ (~Puts(p) => wb'[p].cells = s)
  BY CellsStep
<1>5. CASE ReqSendsStore(p)
  <2>1. /\ cmd[p] = NoCell /\ rq[p].fsm = "REQ_WRITE" /\ cmd'[p] = CommandCell(p)
        /\ rq'[p].cpt = rq[p].cpt + 1
        /\ rq'[p].fsm = IF rq[p].cpt = dm[p].size - 1 THEN "REQ_DWAIT" ELSE "REQ_WRITE"
    BY <1>5, CycleEffects DEF ReqSendsStore, LastCell
  <2>2. rs[p].fsm = "RSP_WRITE"
    BY <1>1, <2>1 DEF ServiceInv, CacheInv, RequestInv, DataRspState
  <2>3. NbDone(p) = rq[p].cpt /\ rq[p].cpt < Len(s) /\ rq[p].cpt \in Nat /\ Len(s) \in Nat
    BY <1>2, <2>1, <2>2 DEF NbDone, NbSent
  <2>4. wb'[p].cells = s
    BY <1>3, <1>4, <2>2, <2>3
  <2>5. NbSent(p)' = rq[p].cpt + 1
    BY <1>2, <1>3, <2>1, <2>2 DEF NbSent
  <2>6. /\ CommandCell(p).addr = rq[p].addr /\ CommandCell(p).data = rq[p].data
        /\ CommandCell(p).be = dm[p].wf
    BY <1>1, <2>1, CommandFacts DEF CommandAddr
  <2>7. /\ wb[p].ptr = rq[p].cpt + 1 /\ rq[p].addr = s[wb[p].ptr].addr
        /\ rq[p].data = s[wb[p].ptr].data
    BY <1>1, <2>1 DEF BufferInv
  <2> HIDE DEF s
  <2> QED BY <2>1, <2>3, <2>4, <2>5, <2>6, <2>7 DEF FullInv
<1>6. ~ReqSendsOneCell(p)
  <2> SUFFICES ASSUME ReqSendsOneCell(p) PROVE CommandCell(p).cmd # "WRITE"
    BY CycleEffects DEF ReqSendsOneCell
  <2> QED BY <1>1, CommandFacts DEF ReqSendsOneCell, OneCellStates
<1>7. CASE ~ReqSendsStore(p)
  <2>1. cmd' = cmd
    BY <1>1, <1>6, <1>7
    DEF ReqKeeps, ReqStartsData, ReqStartsWrite, ReqStartsInst, ReqEnds
  <2>2. rs[p].fsm = "RSP_WRITE"
    BY <1>2, <2>1
  <2>3. ReqKeeps(p)
    BY <1>1, <1>2, <1>6, <1>7, <2>2
    DEF ReqStartsData, ReqStartsWrite, StartsWrite, ReqStartsInst, BothIdle, ReqEnds
  <2>4. NbSent(p)' = NbSent(p)
    BY <1>2, <1>3, <2>2, <2>3 DEF NbSent, ReqKeeps
  <2>5. NbDone(p) = NbSent(p) - 1 /\ NbSent(p) \in 1 .. Len(s)
    BY <2>1, <2>2 DEF NbDone, StoreSentInv
  <2>6. wb'[p].cells = s
    BY <1>2, <1>3, <1>4, <2>2, <2>5
  <2> QED BY <2>1, <2>4, <2>6 DEF StoreSentInv
<1> QED BY <1>5, <1>7

-----------------------------------------------------------------------------
(* The words of a line that is being read. *)

(* Only memory and RSP_FSM touch the line of which the tag is set. *)
LEMMA FillStays ==
  ASSUME PortsOK, NEW p \in Procs, NEW rspval \in BOOLEAN, NEW invval \in BOOLEAN,
         CacheCycle(p, rspval, invval), UNCHANGED ramRegs, InvalTakenInv(p), FillingInv(p),
         ~Misses(p), NEW b \in Blocks, Fills(p, b)', tag'[p][Slot(b)] = b, ~Condemned(p, b)'
  PROVE  /\ Fills(p, b) /\ dc[p].fsm # "DCACHE_MISSUPDT"
         /\ tag[p][Slot(b)] = b /\ ~Condemned(p, b)
         /\ rs[p].fsm \in {"RSP_IDLE", "RSP_DMISS", "RSP_IMISS"}
<1>1. /\ CacheTypeOK /\ RequestInv(p) /\ ServiceInv(p)
      /\ \/ TakesAway(p) \/ Idles(p) \/ StoresWord(p) \/ Misses(p) \/ AsksWord(p)
         \/ UpdatesWord(p) \/ Waits(p) \/ FillsLine(p) \/ DropsLine(p) \/ Invalidates(p)
  BY CycleShape
<1>2. Filling(p)' /\ Block(dc'[p].addr) = b
  BY DEF Fills
<1>3. Filling(p) /\ dc[p].fsm # "DCACHE_MISSUPDT" /\ Block(dc[p].addr) = b
  BY <1>2, FillStep DEF SameData
<1>4. tag[p] \in [Slots -> Blocks \cup {NoBlock}] /\ iv[p] \in IvRegs
  BY <1>1, RegTypes DEF CacheTypeOK
<1>5. Slot(b) \in Slots /\ Slot(iv[p].block) \in Slots
  BY <1>4, AddrTypes DEF IvRegs
<1>6. tag[p][Slot(b)] = b
  <2>1. tag'[p] = tag[p] \/ tag'[p] = [tag[p] EXCEPT ![Slot(iv[p].block)] = NoBlock]
    BY <1>1, <1>3
    DEF TakesAway, Idles, StoresWord, AsksWord, LooksUp, UpdatesWord, Waits,
        FillsLine, DropsLine, Invalidates, SameLines, Filling
  <2> QED BY <1>4, <1>5, <2>1, NoBlockAssumption
<1>7. ~Condemned(p, b)
  BY CondemnedCycle
<1>8. rs[p].fsm \in {"RSP_IDLE", "RSP_DMISS", "RSP_IMISS"}
  <2>1. rq[p].fsm \in DataCellStates \cup {"REQ_IDLE", "REQ_WRITE", "REQ_DWAIT", "REQ_IWAIT", "REQ_IMISS"}
    BY <1>1, StateFacts DEF ReqStates, DataCellStates
  <2>2. dm[p].req /\ ~dm[p].flush /\ DataRspState(p) = "RSP_DMISS"
    BY <1>1, <1>3 DEF RequestInv, Waiting, WaitStates, FillingInv, DataRspState, Filling
  <2> QED BY <1>1, <2>1, <2>2 DEF ServiceInv
<1> QED BY <1>3, <1>6, <1>7, <1>8 DEF Fills

(* A cycle of the cache puts the cell it takes into the buffer at the      *)
(* place that the count says.                                              *)
LEMMA FillDataStep ==
  ASSUME PortsOK, NEW p \in Procs, NEW rspval \in BOOLEAN, NEW invval \in BOOLEAN,
         CacheCycle(p, rspval, invval), UNCHANGED ramRegs,
         ReadInv(p), InvalTakenInv(p), FillingInv(p), FillInv(p)
  PROVE  FillInv(p)'
<1> SUFFICES ASSUME NEW b \in Blocks, Fills(p, b)', tag'[p][Slot(b)] = b, ~Condemned(p, b)'
             PROVE  /\ rs'[p].fsm = "RSP_DMISS" =>
                         /\ \A x \in Offsets : x < rs'[p].cpt => rs'[p].buf[x] = mem'[Base(b) + x]
                         /\ rsp'[p] # NoCell => rsp'[p].data = mem'[Base(b) + rs'[p].cpt]
                    /\ rs'[p].dOk \/ dc'[p].fsm = "DCACHE_MISSUPDT" =>
                         \A x \in Offsets : rs'[p].buf[x] = mem'[Base(b) + x]
  BY DEF FillInv
<1>1. /\ CacheTypeOK /\ RequestInv(p) /\ ServiceInv(p) /\ ResponseOK(p) /\ rs[p] \in RsRegs
      /\ rs[p].dOk <=> DataDone(p)
      /\ \/ RspKeeps(p, rspval) \/ RspStarts(p)
         \/ RspTakesLineCell(p, rspval) \/ RspTakesOneCell(p, rspval)
      /\ rspval => rsp[p] # NoCell
      /\ TakeRsp(p) => rsp'[p] = NoCell
  BY CycleShape, CycleEffects, RegTypes
<1>2. mem' = mem
  BY DEF ramRegs
<1>3. /\ rs[p].cpt \in Nat /\ LineWords \in Nat \ {0} /\ rs[p].buf \in [Offsets -> Word]
      /\ \A x \in Offsets : x \in Nat /\ x <= LineWords - 1
  BY <1>1, SizeFacts DEF RsRegs, Offsets
<1>4. CASE Misses(p)
  <2>1. ~Served(p)'
    BY <1>4, NotServedStep
  <2>2. rs'[p].cpt \in Nat
    <3>1. PortsOK'
      BY CyclePorts
    <3>2. rs' \in [Procs -> RsRegs]
      BY <3>1 DEF PortsOK, CacheTypeOK
    <3> QED BY <3>2, SizeFacts DEF RsRegs
  <2> QED BY <1>3, <2>1, <2>2 DEF Served
<1>5. CASE ~Misses(p)
  <2>1. /\ Fills(p, b) /\ dc[p].fsm # "DCACHE_MISSUPDT"
        /\ rs[p].fsm \in {"RSP_IDLE", "RSP_DMISS", "RSP_IMISS"}
        /\ rs[p].fsm = "RSP_DMISS" =>
             /\ \A x \in Offsets : x < rs[p].cpt => rs[p].buf[x] = mem[Base(b) + x]
             /\ rsp[p] # NoCell => rsp[p].data = mem[Base(b) + rs[p].cpt]
        /\ rs[p].dOk => \A x \in Offsets : rs[p].buf[x] = mem[Base(b) + x]
    BY <1>5, FillStays DEF FillInv
  <2>2. dc'[p].fsm = "DCACHE_MISSUPDT" => rs[p].dOk
    BY FillStep
  <2>3. rs[p].dOk => rs[p].fsm = "RSP_IDLE" /\ rq[p].fsm = "REQ_DWAIT"
    BY <1>1 DEF DataDone, ServiceInv
  <2>4. CASE RspKeeps(p, rspval)
    BY <1>1, <1>2, <2>1, <2>2, <2>4 DEF RspKeeps, FlagsAfter
  <2>5. CASE RspStarts(p)
    <3>1. rsp'[p] = NoCell /\ rs'[p].cpt = 0 /\ ~rs'[p].dOk /\ ~rs[p].dOk
      BY <1>1, <2>3, <2>5 DEF RspStarts, BothIdle, ResponseOK, FlagsAfter
    <3> QED BY <1>3, <2>2, <3>1
  <2>6. CASE RspTakesLineCell(p, rspval)
    <3>1. CASE rs[p].fsm = "RSP_DMISS"
      <4>1. /\ rs'[p].buf = [rs[p].buf EXCEPT ![rs[p].cpt] = rsp[p].data]
            /\ rs'[p].cpt = rs[p].cpt + 1 /\ rsp'[p] = NoCell
            /\ rs'[p].dOk => rs[p].cpt = LineWords - 1
            /\ rsp[p] # NoCell /\ ~rs[p].dOk
        BY <1>1, <2>3, <2>6, <3>1 DEF RspTakesLineCell, FlagsAfter, LastOfLine
      <4>2. ASSUME NEW x \in Offsets, x < rs[p].cpt + 1
            PROVE  rs'[p].buf[x] = mem[Base(b) + x]
        <5>1. CASE x = rs[p].cpt
          BY <1>3, <2>1, <3>1, <4>1, <5>1
        <5>2. CASE x # rs[p].cpt
          <6>1. x < rs[p].cpt
            BY <1>3, <4>2, <5>2
          <6> QED BY <1>3, <2>1, <3>1, <4>1, <5>2, <6>1
        <5> QED BY <5>1, <5>2
      <4>3. rs'[p].dOk => \A x \in Offsets : x < rs[p].cpt + 1
        BY <1>3, <4>1
      <4> QED BY <1>2, <2>2, <4>1, <4>2, <4>3
    <3>2. CASE rs[p].fsm = "RSP_IMISS"
      BY <2>2, <2>3, <2>6, <3>2 DEF RspTakesLineCell, FlagsAfter
    <3> QED BY <2>6, <3>1, <3>2 DEF RspTakesLineCell
  <2>7. ~RspTakesOneCell(p, rspval)
    BY <2>1 DEF RspTakesOneCell
  <2> QED BY <1>1, <2>4, <2>5, <2>6, <2>7
<1> QED BY <1>4, <1>5

-----------------------------------------------------------------------------
(* The lines: a cycle of a cache. *)

(* Where the line of an address comes from, when no store is accepted. *)
LEMMA CopyStays ==
  ASSUME PortsOK, NEW p \in Procs, NEW rspval \in BOOLEAN, NEW invval \in BOOLEAN,
         CacheCycle(p, rspval, invval), FillingInv(p), FullInv(p), UpdateInv(p),
         dc'[p].fsm # "DCACHE_WUPDT",
         NEW a \in Addr, HasCopy(p, Block(a))', ~Conditional(p, a)'
  PROVE  \/ HasCopy(p, Block(a)) /\ ~Conditional(p, a) /\ Updated(p, a)' = Updated(p, a)
         \/ /\ dc[p].fsm = "DCACHE_MISSUPDT" /\ Fills(p, Block(a))
            /\ tag[p][Slot(Block(a))] = Block(a)
            /\ Updated(p, a)' = rs[p].buf[Offset(a)]
<1> DEFINE b == Block(a)
           y == Slot(b)
           x == Offset(a)
           y0 == Slot(Block(dc[p].addr))
           x0 == Offset(dc[p].addr)
<1>1. /\ CacheTypeOK /\ InvalInv(p)
      /\ \/ TakesAway(p) \/ Idles(p) \/ StoresWord(p) \/ Misses(p) \/ AsksWord(p)
         \/ UpdatesWord(p) \/ Waits(p) \/ FillsLine(p) \/ DropsLine(p) \/ Invalidates(p)
  BY CycleShape
<1>2. /\ tag[p] \in [Slots -> Blocks \cup {NoBlock}] /\ line[p] \in [Slots -> [Offsets -> Word]]
      /\ dc[p].addr \in Addr /\ dc[p].data \in Word
  BY <1>1, RegTypes DEF CacheTypeOK, DcRegs
<1>3. /\ b \in Blocks /\ b # NoBlock /\ y \in Slots /\ x \in Offsets
      /\ y0 \in Slots /\ x0 \in Offsets
      /\ Block(dc[p].addr) = b => y0 = y
      /\ Block(dc[p].addr) = b /\ x0 = x => dc[p].addr = a
      /\ dc[p].addr = a => y0 = y /\ x0 = x
  BY <1>2, AddrTypes, AddrSplit, NoBlockAssumption
<1>4. /\ tag'[p][y] = b /\ ~(Filling(p)' /\ Slot(Block(dc'[p].addr)) = y)
      /\ HasCopy(p, b) <=> tag[p][y] = b /\ ~(Filling(p) /\ y0 = y)
  BY DEF HasCopy
<1>5. Updated(p, a)' = line'[p][y][x]
  BY DEF Updated
<1>6. dc[p].fsm # "DCACHE_WUPDT" => Updated(p, a) = line[p][y][x]
  BY DEF Updated
<1>7. /\ Filling(p) <=> \/ dc[p].fsm \in {"DCACHE_MISSWAIT", "DCACHE_MISSUPDT"}
                        \/ dc[p].fsm = "DCACHE_RAMINVAL" /\ dc[p].prev = "DCACHE_MISSWAIT"
      /\ Filling(p)' <=> \/ dc'[p].fsm \in {"DCACHE_MISSWAIT", "DCACHE_MISSUPDT"}
                         \/ dc'[p].fsm = "DCACHE_RAMINVAL" /\ dc'[p].prev = "DCACHE_MISSWAIT"
  BY DEF Filling
<1>8. /\ Conditional(p, a) <=>
           /\ dc[p].sc /\ dc[p].addr = a
           /\ \/ dc[p].fsm \in {"DCACHE_UNC_LL_SC_WAIT", "DCACHE_UNC_LL_SC_GO"}
              \/ dc[p].fsm = "DCACHE_RAMINVAL" /\ dc[p].prev = "DCACHE_UNC_LL_SC_WAIT"
      /\ ~(/\ dc'[p].sc /\ dc'[p].addr = a
           /\ \/ dc'[p].fsm \in {"DCACHE_UNC_LL_SC_WAIT", "DCACHE_UNC_LL_SC_GO"}
              \/ dc'[p].fsm = "DCACHE_RAMINVAL" /\ dc'[p].prev = "DCACHE_UNC_LL_SC_WAIT")
  BY DEF Conditional
<1>9. SameData(p) => Slot(Block(dc'[p].addr)) = y0 /\ dc'[p].addr = dc[p].addr /\ dc'[p].sc = dc[p].sc
  BY DEF SameData
<1> HIDE DEF b, y, x, y0, x0
<1>10. CASE TakesAway(p)
  BY <1>4, <1>5, <1>6, <1>7, <1>8, <1>9, <1>10
  DEF TakesAway, TakesInval, WaitStates, SameLines, b
<1>11. CASE Idles(p) \/ StoresWord(p) \/ AsksWord(p)
  <2>1. dc[p].fsm = "DCACHE_IDLE" /\ tag'[p] = tag[p] /\ line'[p] = line[p]
    BY <1>11 DEF Idles, StoresWord, AsksWord, LooksUp, SameLines
  <2> QED BY <1>4, <1>5, <1>6, <1>7, <1>8, <2>1 DEF b
<1>12. CASE Misses(p)
  <2> DEFINE c == Block(cpu[p].addr)
             z == Slot(c)
  <2>1. /\ dc[p].fsm = "DCACHE_IDLE" /\ tag'[p] = [tag[p] EXCEPT ![z] = c]
        /\ line'[p] = line[p] /\ Filling(p)' /\ Slot(Block(dc'[p].addr)) = z
    BY <1>7, <1>12 DEF Misses, LooksUp
  <2> HIDE DEF c, z
  <2>2. z # y
    BY <1>4, <2>1
  <2>3. tag[p][y] = b
    BY <1>2, <1>3, <1>4, <2>1, <2>2
  <2> QED BY <1>4, <1>5, <1>6, <1>7, <1>8, <2>1, <2>3 DEF b
<1>13. CASE UpdatesWord(p)
  <2>1. /\ dc[p].fsm = "DCACHE_WUPDT" /\ tag'[p] = tag[p] /\ tag[p][y0] = Block(dc[p].addr)
        /\ line'[p] = [line[p] EXCEPT ![y0] = [line[p][y0] EXCEPT ![x0] = dc[p].data]]
    BY <1>2, <1>13, WholeWord DEF UpdatesWord, UpdateInv, FullInv, y0, x0
  <2>2. HasCopy(p, b) /\ ~Conditional(p, a)
    BY <1>4, <1>7, <1>8, <2>1
  <2>3. line'[p][y][x] = IF y0 = y /\ x0 = x THEN dc[p].data ELSE line[p][y][x]
    BY <1>2, <1>3, <2>1
  <2>4. Updated(p, a) = IF dc[p].addr = a THEN dc[p].data ELSE line[p][y][x]
    BY <2>1 DEF Updated, y, b, x
  <2>5. y0 = y /\ x0 = x <=> dc[p].addr = a
    BY <1>3, <1>4, <2>1
  <2> QED BY <1>5, <2>2, <2>3, <2>4, <2>5 DEF b
<1>14. CASE Waits(p)
  BY <1>4, <1>5, <1>6, <1>7, <1>8, <1>9, <1>14 DEF Waits, WaitStates, SameLines, b
<1>15. CASE FillsLine(p)
  <2>1. /\ dc[p].fsm = "DCACHE_MISSUPDT" /\ tag'[p] = tag[p]
        /\ line'[p] = [line[p] EXCEPT ![y0] = rs[p].buf]
    BY <1>15 DEF FillsLine, y0
  <2>2. CASE y0 = y
    <3>1. Block(dc[p].addr) = b
      BY <1>3, <1>4, <1>7, <2>1, <2>2 DEF FillingInv, y0
    <3>2. line'[p][y] = rs[p].buf
      BY <1>2, <1>3, <2>1, <2>2
    <3> QED BY <1>4, <1>5, <1>7, <2>1, <3>1, <3>2 DEF Fills, b, x, y
  <2>3. CASE y0 # y
    <3>1. line'[p][y] = line[p][y]
      BY <1>2, <1>3, <2>1, <2>3
    <3> QED BY <1>4, <1>5, <1>6, <1>8, <2>1, <2>3, <3>1 DEF b
  <2> QED BY <2>2, <2>3
<1>16. CASE DropsLine(p)
  <2>1. /\ dc[p].fsm \in {"DCACHE_UNC_LL_SC_GO", "DCACHE_CPUINVAL"} /\ line'[p] = line[p]
        /\ tag'[p] = [tag[p] EXCEPT ![y0] = NoBlock]
    BY <1>16 DEF DropsLine, y0
  <2>2. y0 # y /\ tag[p][y] = b
    BY <1>2, <1>3, <1>4, <2>1
  <2> QED BY <1>3, <1>4, <1>5, <1>6, <1>7, <1>8, <2>1, <2>2 DEF b
<1>17. CASE Invalidates(p)
  <2>1. tag[p][y] = b
    <3> DEFINE z == Slot(iv[p].block)
    <3>1. tag'[p] = tag[p] \/ tag'[p] = [tag[p] EXCEPT ![z] = NoBlock]
      BY <1>17 DEF Invalidates
    <3> HIDE DEF z
    <3> QED BY <1>2, <1>3, <1>4, <3>1
  <2>2. dc[p].prev \in WaitStates \cup {"DCACHE_IDLE"}
    BY <1>1 DEF InvalInv
  <2> QED BY <1>4, <1>5, <1>6, <1>7, <1>8, <1>9, <1>17, <2>1, <2>2 DEF Invalidates, WaitStates, b
<1> QED BY <1>1, <1>10, <1>11, <1>12, <1>13, <1>14, <1>15, <1>16, <1>17

(* A cycle of the cache keeps its lines true to memory and to its own      *)
(* stores.                                                                 *)
LEMMA LineStep ==
  ASSUME PortsOK, NEW p \in Procs, NEW rspval \in BOOLEAN, NEW invval \in BOOLEAN,
         CacheCycle(p, rspval, invval), UNCHANGED ramRegs, ReadInv(p), InvalTakenInv(p),
         FillingInv(p), FillInv(p), FullInv(p), UpdateInv(p), LineInv(p)
  PROVE  LineInv(p)'
<1> SUFFICES ASSUME NEW a \in Addr,
                    HasCopy(p, Block(a))', ~Condemned(p, Block(a))', ~Conditional(p, a)'
             PROVE  /\ \A d \in Word : Unwritten(p, a, d)' => Updated(p, a)' = d
                    /\ (\A d \in Word : ~Unwritten(p, a, d)') => Updated(p, a)' = mem'[a]
  BY DEF LineInv
<1> DEFINE b == Block(a)
<1>1. /\ CacheTypeOK /\ RequestInv(p) /\ b \in Blocks /\ mem' = mem /\ Offset(a) \in Offsets
      /\ Base(b) + Offset(a) = a
  BY CycleShape, AddrTypes, AddrSplit DEF ramRegs
<1>2. ~Condemned(p, b)
  <2>1. tag'[p][Slot(b)] = b
    BY DEF HasCopy
  <2>2. PICK c \in Blocks : c = b
    BY <1>1
  <2>3. ~Condemned(p, c)'
    BY <2>2 DEF Condemned, RoundAhead, OtherSharers
  <2>4. ~Condemned(p, c)
    BY <2>1, <2>2, <2>3, CondemnedCycle
  <2> QED BY <2>2, <2>4
<1>3. CASE StoresWord(p) /\ AddsWord(p)
  <2>1. /\ dc[p].fsm = "DCACHE_IDLE" /\ tag'[p] = tag[p] /\ line'[p] = line[p]
        /\ dc'[p].addr = cpu[p].addr /\ dc'[p].data = cpu[p].data
        /\ dc'[p].fsm = IF Hit(p, cpu[p].addr) THEN "DCACHE_WUPDT" ELSE "DCACHE_IDLE"
        /\ cpu[p] # NoReq
    BY <1>3 DEF StoresWord, LooksUp, SameLines
  <2>2. cpu[p].data \in Word
    BY <1>1, <2>1, RegTypes DEF DataReq
  <2>3. HasCopy(p, b) /\ ~Conditional(p, a) /\ tag[p][Slot(b)] = b
    BY <2>1 DEF HasCopy, Filling, Conditional
  <2>4. \A d : Unwritten(p, a, d)' <=> Unwritten(p, a, d) \/ (cpu[p].addr = a /\ cpu[p].data = d)
    BY <1>3, UnwrittenStep
  <2>5. CASE cpu[p].addr = a
    <3>1. Updated(p, a)' = cpu[p].data
      BY <2>1, <2>3, <2>5 DEF Updated, Hit
    <3>2. \A d : ~Unwritten(p, a, d)
      BY <1>3, <2>5, FreshStore
    <3> QED BY <2>2, <2>4, <2>5, <3>1, <3>2
  <2>6. CASE cpu[p].addr # a
    <3>1. Updated(p, a)' = Updated(p, a)
      BY <2>1, <2>6 DEF Updated
    <3> QED BY <1>1, <1>2, <2>3, <2>4, <2>6, <3>1 DEF LineInv
  <2> QED BY <2>5, <2>6
<1>4. CASE dc'[p].fsm # "DCACHE_WUPDT" /\ (KeepsStores(p) \/ FlushesWord(p))
  <2>1. \A d : Unwritten(p, a, d)' <=> Unwritten(p, a, d)
    BY <1>4, UnwrittenStep
  <2>2. CASE HasCopy(p, b) /\ ~Conditional(p, a) /\ Updated(p, a)' = Updated(p, a)
    BY <1>1, <1>2, <2>1, <2>2 DEF LineInv
  <2>3. CASE /\ dc[p].fsm = "DCACHE_MISSUPDT" /\ Fills(p, b) /\ tag[p][Slot(b)] = b
             /\ Updated(p, a)' = rs[p].buf[Offset(a)]
    <3>1. \A d : ~Unwritten(p, a, d)
      <4>1. ~dm[p].pending
        BY <1>1, <2>3 DEF RequestInv
      <4>2. NbDone(p) + 1 .. Len(wb[p].cells) = {}
        BY <4>1, CellTypes
      <4> QED BY <4>1, <4>2 DEF Unwritten
    <3>2. rs[p].buf[Offset(a)] = mem[Base(b) + Offset(a)]
      <4> HIDE DEF b
      <4> QED BY <1>1, <1>2, <2>3 DEF FillInv
    <3> QED BY <1>1, <2>1, <2>3, <3>1, <3>2
  <2> QED BY <1>4, <2>2, <2>3, CopyStays
<1> QED BY <1>3, <1>4, CycleStores

-----------------------------------------------------------------------------
(* The data: a cycle of the memory controller. *)

LEMMA CurStep ==
  ASSUME PortsOK, RamFsm, CurInv
  PROVE  CurInv'
BY TargetShape
DEF CurInv, targetVars, ReadsFirst, ReadsNext, ReadsLast, AnswersOne, ServesOther, WritesNext

(* A cycle that does the store of s, and one that does none. *)
Writes(s) ==
  /\ cmd[s] # NoCell /\ cmd[s].cmd \in {"WRITE", "STORE_COND"}
  /\ cmd' = [cmd EXCEPT ![s] = NoCell] /\ rsp' = rsp
  /\ mem' = [mem EXCEPT ![cmd[s].addr] = Merge(mem[cmd[s].addr], cmd[s].data, cmd[s].be)]
  /\ \A b \in Blocks : Block(cmd[s].addr) = b =>
       \A p \in Procs \ {s} : p \in directory[b] => Condemned(p, b)'
  /\ mode # "SIZED_READ" /\ cur'.src = s

KeepsMem ==
  /\ mem' = mem
  /\ \A s \in Srcs : cmd[s] # NoCell /\ cmd[s].cmd = "WRITE" => cmd'[s] = cmd[s]

(* A store starts a round of invalidations if other caches have the block. *)
LEMMA StoreEffect ==
  ASSUME NEW s \in Srcs, cmd[s] # NoCell, cmd[s].cmd \in {"WRITE", "STORE_COND"},
         cmd' = [cmd EXCEPT ![s] = NoCell], rsp' = rsp, mode # "SIZED_READ", cur'.src = s,
         OnWrite(s, cmd[s].addr, cmd[s].data, cmd[s].be), directory' = directory
  PROVE  Writes(s)
<1>1. ASSUME NEW b \in Blocks, Block(cmd[s].addr) = b, NEW p \in Procs \ {s}, p \in directory[b]
      PROVE  Condemned(p, b)'
  <2>1. OtherSharers(s, b) # {}
    BY <1>1 DEF OtherSharers
  <2>2. ramFsm' = "RAM_DATA_INVAL" /\ sav' = [src |-> s, block |-> b]
    BY <1>1, <2>1 DEF OnWrite, Save
  <2> QED BY <1>1, <2>2 DEF Condemned, RoundAhead, OtherSharers
<1>2. mem' = [mem EXCEPT ![cmd[s].addr] = Merge(mem[cmd[s].addr], cmd[s].data, cmd[s].be)]
  BY DEF OnWrite
<1> QED BY <1>1, <1>2 DEF Writes

(* A cycle of the memory controller writes at most the word of the cell    *)
(* that it takes.                                                          *)
LEMMA WriteShape ==
  ASSUME PortsOK, RamFsm
  PROVE  KeepsMem \/ \E s \in Procs : Writes(s)
<1>1. /\ NocTypeOK /\ Ram!PacketInv /\ Ram!Srcs = Srcs /\ cur.src \in Srcs
      /\ cur.addr \in Nat /\ Addr \subseteq Nat
  BY PortFacts, SameMap, NbWordsAssumption DEF Ram!TargetTypeOK, Addr
<1>2. ASSUME NEW s \in Srcs, cmd[s] # NoCell PROVE s \in Procs
  <2>1. cmd[s] \in CmdCell /\ Ram!CmdMatches(s)
    BY <1>1, <1>2 DEF NocTypeOK, Ram!PacketInv
  <2>2. cmd[s].cells \in Nat \ {0}
    BY <2>1 DEF CmdCell
  <2>3. Packets[s].toRecv # 0
    BY <1>2, <2>1, <2>2 DEF Ram!CmdMatches
  <2> QED BY <2>3 DEF Packets, NoPacket
<1>3. CASE RamDirUpd \/ RamDataInval \/ RamDataInvalWait
  BY <1>3 DEF RamDirUpd, RamDataInval, RamDataInvalWait, targetVars, KeepsMem
<1>4. CASE RamIdle
  <2>1. ramFsm = "RAM_IDLE" /\ directory' = directory /\ TargetFsm
    BY <1>4 DEF RamIdle
  <2>2. ASSUME NEW s \in Srcs, AcceptCmd(s) PROVE KeepsMem \/ Writes(s)
    <3>1. mode = "IDLE" /\ cmd[s] # NoCell /\ rsp' = rsp /\ cmd' = [cmd EXCEPT ![s] = NoCell]
      BY <2>2 DEF AcceptCmd, CmdAck, TakeCmd
    <3>2. \A o \in Srcs \ {s} : cmd'[o] = cmd[o]
      BY <1>1, <3>1 DEF NocTypeOK
    <3> DEFINE c == cmd[s]
               first == c.cells = 1
    <3>3. CASE c.cmd = "READ" /\ HandleRead(s, c.cmd, c.addr, first)
      <4> HIDE DEF first
      <4> QED BY <3>2, <3>3 DEF KeepsMem, HandleRead, OnRead
    <3>4. CASE c.cmd = "WRITE" /\ HandleWrite(s, c.addr, c.data, c.be, TRUE)
      <4>1. OnWrite(s, c.addr, c.data, c.be) /\ cur'.src = s
        BY <3>4 DEF HandleWrite, Answer
      <4> QED BY <2>1, <3>1, <3>4, <4>1, StoreEffect DEF Writes
    <3>5. CASE c.cmd = "WRITE" /\ HandleWrite(s, c.addr, c.data, c.be, FALSE)
      <4>1. OnWrite(s, c.addr, c.data, c.be) /\ cur'.src = s
        BY <3>5 DEF HandleWrite, Answer
      <4> QED BY <2>1, <3>1, <3>5, <4>1, StoreEffect DEF Writes
    <3>6. CASE c.cmd = "LOCKED_READ" /\ HandleRead(s, c.cmd, c.addr, c.eop)
      BY <3>2, <3>6 DEF KeepsMem, HandleRead, OnRead
    <3>7. CASE c.cmd = "STORE_COND" /\ HandleStoreCond(s, c.addr, c.data, c.be, c.eop)
      <4>1. CASE IsAtomic(c.addr, s)
        <5>1. OnWrite(s, c.addr, c.data, c.be) /\ cur'.src = s
          BY <3>7, <4>1 DEF HandleStoreCond, Answer
        <5> QED BY <2>1, <3>1, <3>7, <5>1, StoreEffect DEF Writes
      <4>2. CASE ~IsAtomic(c.addr, s)
        BY <3>2, <3>7, <4>2 DEF HandleStoreCond, KeepsMem
      <4> QED BY <4>1, <4>2
    <3> HIDE DEF c, first
    <3> QED BY <2>2, <3>3, <3>4, <3>5, <3>6, <3>7 DEF AcceptCmd, c, first
  <2>3. CASE TargetIdle \/ InoutQuery \/ SizedReadWait \/ SizedWriteWait
    BY <2>3 DEF TargetIdle, InoutQuery, SizedReadWait, SizedWriteWait, targetVars, KeepsMem
  <2>4. CASE SizedReadNext
    <3> DEFINE next == cur.addr + 1
               last == cellsToGo = 2
    <3>1. cmd' = cmd /\ (mem' = mem \/ HandleRead(cur.src, cur.cmd, next, last))
      BY <2>4 DEF SizedReadNext
    <3> HIDE DEF next, last
    <3> QED BY <3>1 DEF HandleRead, OnRead, KeepsMem
  <2>5. CASE SizedWriteCell
    <3> DEFINE s == cur.src
               c == cmd[s]
               next == cur.addr + 1
    <3>1. /\ mode = "SIZED_WRITE" /\ c # NoCell /\ rsp' = rsp
          /\ cmd' = [cmd EXCEPT ![s] = NoCell]
          /\ HandleWrite(s, next, c.data, c.be, c.eop)
      BY <2>5 DEF SizedWriteCell, TakeCmd
    <3>2. c.cmd = "WRITE" /\ c.addr = next
      <4>1. Ram!WritingBurst(s) /\ Ram!CmdMatches(s)
        BY <1>1, <3>1 DEF Ram!PacketInv, Ram!TargetMatches
      <4> QED BY <3>1, <4>1 DEF Ram!WritingBurst, Ram!CmdMatches
    <3>3. OnWrite(s, c.addr, c.data, c.be) /\ cur'.src = s
      BY <3>1, <3>2 DEF HandleWrite, Answer
    <3>4. s \in Srcs
      BY <1>1
    <3>5. PICK o \in Srcs : o = s
      BY <3>4
    <3> HIDE DEF s
    <3>6. Writes(o)
      BY <2>1, <3>1, <3>2, <3>3, <3>5, StoreEffect
    <3> QED BY <1>2, <3>1, <3>5, <3>6
  <2> QED BY <1>2, <2>1, <2>2, <2>3, <2>4, <2>5 DEF TargetFsm, Writes
<1> QED BY <1>3, <1>4 DEF RamFsm

(* The next word of a line that is being read. *)
LEMMA NextWord ==
  ASSUME PortsOK, NEW p \in Procs, ReadInv(p), NEW b \in Blocks,
         Fills(p, b), rs[p].fsm = "RSP_DMISS", Reading(p), rsp[p] = NoCell
  PROVE  cur.addr = Base(b) + rs[p].cpt /\ rs[p].cpt \in Offsets
<1>1. /\ p \in Srcs /\ CacheTypeOK /\ CacheInv(p) /\ Ram!PacketInv
      /\ Packets[p] = Packet(p) /\ Ram!Srcs = Srcs
      /\ cur.addr \in Nat /\ cellsToGo \in Nat /\ LineWords \in Nat \ {0}
      /\ rs[p].cpt \in Nat
  <2>1. CacheTypeOK /\ CacheInv(p)
    BY DEF PortsOK
  <2>2. rs[p].cpt \in Nat
    BY <2>1, RegTypes, SizeFacts DEF RsRegs
  <2> QED BY <2>1, <2>2, PortFacts, SameMap, SizeFacts DEF Ram!TargetTypeOK
<1>2. Ram!ReadingLine(p)
  BY <1>1 DEF Ram!PacketInv, Ram!TargetMatches, Reading
<1>3. ~NothingSent(p) /\ Packet(p).toRecv = cellsToGo /\ cellsToGo > 0
  BY <1>1, <1>2 DEF Ram!ReadingLine, Packet, NoPacket
<1>4. rq[p].fsm = "REQ_DWAIT" /\ dm[p].req /\ rq[p].fsm # "REQ_WRITE"
  BY <1>1, <1>3, BusyFacts DEF CacheInv, ServiceInv, RequestInv, ReadInv, DataRspState
<1>5. Packet(p).addr = Base(Block(rq[p].addr)) /\ rq[p].addr = dc[p].addr
  BY <1>1, <1>3, <1>4, LinePacket DEF MissAddr, ReadInv
<1>6. Packet(p).toRecv = LineWords - rs[p].cpt
  BY <1>3, <1>4 DEF Packet
<1>7. Block(rq[p].addr) = b /\ Base(b) \in Nat
  BY <1>5, AddrTypes DEF Fills
<1>8. cur.addr + cellsToGo = Base(b) + LineWords
  BY <1>5, <1>7 DEF ReadInv, Span
<1>9. cellsToGo = LineWords - rs[p].cpt
  BY <1>3, <1>6
<1> DEFINE u == cur.addr
           v == Base(b)
           n == rs[p].cpt
<1>10. u \in Nat /\ v \in Nat /\ n \in Nat /\ u + cellsToGo = v + LineWords
       /\ cellsToGo = LineWords - n
  BY <1>1, <1>7, <1>8, <1>9
<1>11. u = v + n
  <2> HIDE DEF u, v, n
  <2> QED BY <1>1, <1>10
<1>12. n \in Offsets
  <2> HIDE DEF u, v, n
  <2> QED BY <1>1, <1>3, <1>10 DEF Offsets
<1> QED BY <1>11, <1>12

(* The answer to p is that of an earlier cycle, or the word that was read. *)
LEMMA NextAnswer ==
  ASSUME PortsOK, RamFsm, CurInv, NEW p \in Procs, ReadInv(p),
         rs[p].fsm = "RSP_DMISS", rsp'[p] # NoCell
  PROVE  \/ rsp'[p] = rsp[p]
         \/ rsp[p] = NoCell /\ Reading(p) /\ rsp'[p].data = mem[cur.addr]
<1>1. /\ p \in Srcs /\ rsp \in [Srcs -> RspCell \cup {NoCell}]
  BY PortFacts DEF NocTypeOK
<1>2. rsp' = rsp \/ DeliverRsp
  BY TargetShape
  DEF ReadsFirst, ServesOther, ReadsNext, ReadsLast, AnswersOne, WritesNext, targetVars
<1>3. CASE rsp' = rsp
  BY <1>3
<1>4. CASE DeliverRsp /\ rsp'[p] # rsp[p]
  <2> DEFINE r == [data |-> cur.data, ok |-> cur.ok, error |-> FALSE, eop |-> cur.eop]
  <2>1. PeerAccepted /\ rsp' = [rsp EXCEPT ![cur.src] = r]
    BY <1>4 DEF DeliverRsp
  <2>2. r.data = cur.data
    OBVIOUS
  <2> HIDE DEF r
  <2>3. cur.src = p /\ rsp'[p] = r
    BY <1>1, <1>4, <2>1
  <2>4. sendRsp /\ rsp[p] = NoCell
    BY <2>1, <2>3 DEF PeerAccepted
  <2>5. mode = "SIZED_READ"
    BY <2>3, <2>4 DEF ReadInv
  <2> QED BY <2>2, <2>3, <2>4, <2>5 DEF Reading, CurInv
<1> QED BY <1>2, <1>3, <1>4

(* A store of s to a block that p has, or is receiving, condemns the copy. *)
LEMMA StoreCondemns ==
  ASSUME PortsOK, NEW s \in Procs, Writes(s), NEW p \in Procs \ {s}, CoverInv(p),
         NEW b \in Blocks, Block(cmd[s].addr) = b, tag[p][Slot(b)] = b,
         Fills(p, b) => Served(p), ~Condemned(p, b)
  PROVE  Condemned(p, b)'
<1>1. p \in directory[b]
  BY DEF CoverInv, Writes, Reading
<1> QED BY <1>1 DEF Writes

(* A cache that reads a line has no store at memory.                       *)
LEMMA FillerStoresNot ==
  ASSUME PortsOK, NEW p \in Procs, FillingInv(p), NEW b, Fills(p, b), Writes(p)
  PROVE  FALSE
<1>1. cmd[p] # NoCell /\ cmd[p].cmd \in {"WRITE", "STORE_COND"} /\ RequestInv(p)
  BY DEF Writes, PortsOK, CacheInv
<1>2. (dm[p].pending /\ ~dm[p].req) \/ (dm[p].req /\ dc[p].sc)
  BY <1>1, WriteFacts
<1> QED BY <1>1, <1>2 DEF RequestInv, Waiting, WaitStates, FillingInv, Fills, Filling

(* A store to a line that is being read condemns the reader, or precedes   *)
(* the cells that are to come.                                             *)
LEMMA FillRam ==
  ASSUME PortsOK, RamStep, CurInv, NEW p \in Procs, ReadInv(p), FillingInv(p), CoverInv(p),
         FillInv(p)
  PROVE  FillInv(p)'
<1>1. /\ RamFsm /\ dc' = dc /\ rs' = rs /\ tag' = tag
  BY DEF RamStep, RamCycle, cacheVars
<1> SUFFICES ASSUME NEW b \in Blocks, Fills(p, b)', tag'[p][Slot(b)] = b, ~Condemned(p, b)'
             PROVE  /\ rs'[p].fsm = "RSP_DMISS" =>
                         /\ \A x \in Offsets : x < rs'[p].cpt => rs'[p].buf[x] = mem'[Base(b) + x]
                         /\ rsp'[p] # NoCell => rsp'[p].data = mem'[Base(b) + rs'[p].cpt]
                    /\ rs'[p].dOk \/ dc'[p].fsm = "DCACHE_MISSUPDT" =>
                         \A x \in Offsets : rs'[p].buf[x] = mem'[Base(b) + x]
  BY DEF FillInv
<1>2. Fills(p, b) /\ tag[p][Slot(b)] = b /\ ~Condemned(p, b)
  BY <1>1, CondemnedRam DEF Fills, Filling
<1>3. /\ rs[p].fsm = "RSP_DMISS" =>
           /\ \A x \in Offsets : x < rs[p].cpt => rs[p].buf[x] = mem[Base(b) + x]
           /\ rsp[p] # NoCell => rsp[p].data = mem[Base(b) + rs[p].cpt]
      /\ rs[p].dOk \/ dc[p].fsm = "DCACHE_MISSUPDT" =>
           \A x \in Offsets : rs[p].buf[x] = mem[Base(b) + x]
  BY <1>2 DEF FillInv
<1>4. CASE mem' = mem
  <2>1. rs[p].fsm = "RSP_DMISS" /\ rsp'[p] # NoCell => rsp'[p].data = mem[Base(b) + rs[p].cpt]
    BY <1>1, <1>2, <1>3, NextAnswer, NextWord
  <2> QED BY <1>1, <1>3, <1>4, <2>1
<1>5. ASSUME NEW s \in Procs, Writes(s)
      PROVE  /\ rs[p].fsm = "RSP_DMISS" =>
                  /\ \A x \in Offsets : x < rs[p].cpt => rs[p].buf[x] = mem'[Base(b) + x]
                  /\ rsp'[p] # NoCell => rsp'[p].data = mem'[Base(b) + rs[p].cpt]
             /\ rs[p].dOk \/ dc[p].fsm = "DCACHE_MISSUPDT" =>
                  \A x \in Offsets : rs[p].buf[x] = mem'[Base(b) + x]
  <2>1. /\ CacheTypeOK /\ CacheInv(p) /\ ResponseOK(p) /\ rsp' = rsp
        /\ rs[p].cpt \in Nat /\ b \in Nat /\ LineWords \in Nat
    <3>1. CacheTypeOK /\ CacheInv(p)
      BY DEF PortsOK
    <3>2. rs[p].cpt \in Nat
      BY <3>1, RegTypes, SizeFacts DEF RsRegs
    <3> QED BY <1>5, <3>1, <3>2, PortFacts, SizeFacts, AddrTypes DEF Writes
  <2>2. s # p
    BY <1>2, <1>5, FillerStoresNot
  <2>3. CASE Block(cmd[s].addr) = b
    <3>1. ~Served(p)
      BY <1>2, <1>5, <2>2, <2>3, StoreCondemns
    <3>2. \A x \in Offsets : ~(x < 0)
      BY SizeFacts DEF Offsets
    <3>3. rs[p].fsm = "RSP_DMISS" => rs[p].cpt = 0 /\ rsp[p] = NoCell
      BY <2>1, <3>1 DEF Served
    <3> QED BY <2>1, <3>1, <3>2, <3>3 DEF Served
  <2>4. CASE Block(cmd[s].addr) # b
    <3>1. \A x \in Offsets : mem'[Base(b) + x] = mem[Base(b) + x]
      <4> TAKE x \in Offsets
      <4>1. Block(Base(b) + x) = b
        BY <2>1, LineCells
      <4>2. Base(b) + x # cmd[s].addr
        BY <2>4, <4>1
      <4>3. mem \in [Addr -> Word]
        BY RamTypes, PortFacts
      <4> DEFINE u == Base(b) + x
      <4>4. u # cmd[s].addr
        BY <4>2
      <4> HIDE DEF u
      <4>5. mem'[u] = mem[u]
        BY <1>5, <4>3, <4>4 DEF Writes
      <4> QED BY <4>5 DEF u
    <3>2. rs[p].fsm = "RSP_DMISS" /\ rsp[p] # NoCell => rs[p].cpt \in Offsets
      BY <2>1, SizeFacts DEF ResponseOK, Offsets
    <3> QED BY <1>3, <2>1, <3>1, <3>2
  <2> QED BY <2>3, <2>4
<1> QED BY <1>1, <1>4, <1>5, WriteShape DEF KeepsMem

(* The store that memory does is the oldest one that it had not done. *)
LEMMA DoneStore ==
  ASSUME PortsOK, NEW p \in Procs, Writes(p), StoreSentInv(p), cmd[p].cmd = "WRITE",
         UNCHANGED <<dm, wb, rq, rs>>, NEW a, NEW d
  PROVE  /\ Unwritten(p, a, d) <=>
              Unwritten(p, a, d)' \/ (cmd[p].addr = a /\ cmd[p].data = d)
         /\ cmd[p].addr = a => ~Unwritten(p, a, d)'
         /\ cmd[p].be = Lanes /\ cmd[p].data \in Word
<1> DEFINE s == wb[p].cells
           n == NbSent(p)
           c == cmd[p]
<1>1. /\ c # NoCell /\ cmd' = [cmd EXCEPT ![p] = NoCell]
      /\ p \in Srcs /\ NocTypeOK
  BY PortFacts DEF Writes
<1>2. cmd'[p] = NoCell
  BY <1>1 DEF NocTypeOK
<1>3. /\ rs[p].fsm = "RSP_WRITE" /\ dm[p].flush /\ dm[p].pending
  BY <1>1, WriteFacts
<1>4. n \in 1 .. Len(s) /\ c.be = Lanes /\ c.addr = s[n].addr /\ c.data = s[n].data
  BY <1>1 DEF StoreSentInv
<1>5. Len(s) \in Nat /\ \A i \in 1 .. Len(s) : s[i].data \in Word
  BY CellTypes
<1>6. NbDone(p) = n - 1 /\ NbDone(p)' = n - 0
  BY <1>1, <1>2, <1>3 DEF NbDone, NbSent
<1>7. \A j \in 1 .. Len(s) : s[n].addr = s[j].addr => n = j
  BY <1>3, <1>4, OneStore
<1>8. /\ Unwritten(p, a, d) <=> \E i \in NbDone(p) + 1 .. Len(s) : s[i].addr = a /\ s[i].data = d
      /\ Unwritten(p, a, d)' <=> \E i \in NbDone(p)' + 1 .. Len(s) : s[i].addr = a /\ s[i].data = d
  BY <1>3 DEF Unwritten
<1> HIDE DEF s, n, c
<1>9. NbDone(p) + 1 = n /\ NbDone(p)' + 1 = n + 1
  BY <1>4, <1>6
<1>10. n .. Len(s) = {n} \cup (n + 1 .. Len(s)) /\ n + 1 .. Len(s) \subseteq 1 .. Len(s)
       /\ n \notin n + 1 .. Len(s)
  BY <1>4, <1>5
<1>11. c.addr = a => ~Unwritten(p, a, d)'
  BY <1>4, <1>7, <1>8, <1>9, <1>10
<1>12. Unwritten(p, a, d) <=> Unwritten(p, a, d)' \/ (c.addr = a /\ c.data = d)
  BY <1>4, <1>8, <1>9, <1>10
<1>13. c.data \in Word
  BY <1>4, <1>5
<1> QED BY <1>4, <1>11, <1>12, <1>13 DEF c

(* A store condemns the copies of the others, and is the oldest of its     *)
(* own cache.                                                              *)
LEMMA LineRam ==
  ASSUME PortsOK, RamStep, NEW p \in Procs, ReadInv(p), FillingInv(p), CoverInv(p),
         StoreSentInv(p), LineInv(p)
  PROVE  LineInv(p)'
<1>1. /\ RamFsm /\ UNCHANGED <<dc, tag, line, dm, wb, rq, rs>>
  BY DEF RamStep, RamCycle, cacheVars
<1> SUFFICES ASSUME NEW a \in Addr,
                    HasCopy(p, Block(a))', ~Condemned(p, Block(a))', ~Conditional(p, a)'
             PROVE  /\ \A d \in Word : Unwritten(p, a, d)' => Updated(p, a)' = d
                    /\ (\A d \in Word : ~Unwritten(p, a, d)') => Updated(p, a)' = mem'[a]
  BY DEF LineInv
<1>2. PICK b \in Blocks : b = Block(a)
  BY AddrTypes
<1>3. HasCopy(p, b) /\ ~Conditional(p, a) /\ Updated(p, a)' = Updated(p, a)
  BY <1>1, <1>2 DEF HasCopy, Filling, Conditional, Updated
<1>4. ~Condemned(p, b)' /\ ~Condemned(p, b)
  <2>1. ~Condemned(p, b)'
    BY <1>2 DEF Condemned, RoundAhead, OtherSharers
  <2> QED BY <2>1, CondemnedRam
<1>5. /\ \A d \in Word : Unwritten(p, a, d) => Updated(p, a) = d
      /\ (\A d \in Word : ~Unwritten(p, a, d)) => Updated(p, a) = mem[a]
  BY <1>2, <1>3, <1>4 DEF LineInv
<1>6. p \in Srcs /\ NocTypeOK /\ mem \in [Addr -> Word]
  BY PortFacts, RamTypes
<1>7. ASSUME NbDone(p)' = NbDone(p), mem'[a] = mem[a]
      PROVE  /\ \A d \in Word : Unwritten(p, a, d)' => Updated(p, a)' = d
             /\ (\A d \in Word : ~Unwritten(p, a, d)') => Updated(p, a)' = mem'[a]
  <2>1. \A d \in Word : Unwritten(p, a, d)' <=> Unwritten(p, a, d)
    BY <1>1, <1>7 DEF Unwritten
  <2> QED BY <1>3, <1>5, <1>7, <2>1
<1>8. rs[p].fsm # "RSP_WRITE" \/ cmd'[p] = cmd[p] => NbDone(p)' = NbDone(p)
  BY <1>1 DEF NbDone, NbSent
<1>9. CASE KeepsMem
  <2>1. rs[p].fsm = "RSP_WRITE" => cmd'[p] = cmd[p]
    <3>1. CASE cmd[p] = NoCell
      BY <1>1, <1>6, <3>1, TargetShape
    <3>2. CASE cmd[p] # NoCell
      BY <1>6, <1>9, <3>2, WriteFacts DEF KeepsMem
    <3> QED BY <3>1, <3>2
  <2> QED BY <1>7, <1>8, <1>9, <2>1 DEF KeepsMem
<1>10. ASSUME NEW s \in Procs, Writes(s)
       PROVE  /\ \A d \in Word : Unwritten(p, a, d)' => Updated(p, a)' = d
              /\ (\A d \in Word : ~Unwritten(p, a, d)') => Updated(p, a)' = mem'[a]
  <2>1. /\ mem' = [mem EXCEPT ![cmd[s].addr] = Merge(mem[cmd[s].addr], cmd[s].data, cmd[s].be)]
        /\ cmd' = [cmd EXCEPT ![s] = NoCell] /\ s \in Srcs
    BY <1>10, PortFacts DEF Writes
  <2>2. cmd[s].addr # a => mem'[a] = mem[a]
    BY <1>6, <2>1
  <2>3. CASE s # p
    <3>1. cmd'[p] = cmd[p]
      BY <1>6, <2>1, <2>3 DEF NocTypeOK
    <3>2. Block(cmd[s].addr) # b
      <4>1. tag[p][Slot(b)] = b /\ ~Fills(p, b)
        BY <1>3 DEF HasCopy, Fills
      <4> QED BY <1>4, <1>10, <2>3, <4>1, StoreCondemns
    <3> QED BY <1>2, <1>7, <1>8, <2>2, <3>1, <3>2
  <2>4. CASE s = p /\ cmd[p].cmd = "STORE_COND"
    <3>1. /\ rs[p].fsm = "RSP_UNC" /\ dm[p].req /\ dc[p].sc /\ rq[p].fsm = "REQ_DWAIT"
          /\ cmd[p].addr = rq[p].addr
      BY <1>10, <2>4, WriteFacts DEF Writes
    <3>2. cmd[p].addr = dc[p].addr
      BY <3>1 DEF ReadInv
    <3>3. RequestInv(p)
      BY DEF PortsOK, CacheInv
    <3>4. Conditional(p, dc[p].addr)
      BY <3>1, <3>3 DEF RequestInv, Waiting, WaitStates, FillingInv, Filling, Conditional
    <3>5. cmd[s].addr # a
      BY <1>3, <2>4, <3>2, <3>4
    <3> QED BY <1>7, <1>8, <2>2, <3>1, <3>5
  <2>5. CASE s = p /\ cmd[p].cmd = "WRITE"
    <3>1. /\ \A d : /\ Unwritten(p, a, d) <=>
                         Unwritten(p, a, d)' \/ (cmd[p].addr = a /\ cmd[p].data = d)
                    /\ cmd[p].addr = a => ~Unwritten(p, a, d)'
          /\ cmd[p].be = Lanes /\ cmd[p].data \in Word
      BY <1>1, <1>10, <2>5, DoneStore
    <3>2. CASE cmd[p].addr # a
      BY <1>3, <1>5, <2>2, <2>5, <3>1, <3>2
    <3>3. CASE cmd[p].addr = a
      <4>1. mem'[a] = cmd[p].data
        <5>1. mem'[a] = Merge(mem[a], cmd[p].data, cmd[p].be)
          BY <1>6, <2>1, <2>5, <3>3
        <5> QED BY <3>1, <5>1, WholeWord
      <4>2. Updated(p, a) = cmd[p].data
        BY <1>5, <3>1, <3>3
      <4> QED BY <1>3, <3>1, <3>3, <4>1, <4>2
    <3> QED BY <3>2, <3>3
  <2> QED BY <1>10, <2>3, <2>4, <2>5 DEF Writes
<1> QED BY <1>1, <1>9, <1>10, WriteShape

-----------------------------------------------------------------------------
(* The invariant of the data, through every step of the platform. *)
CopyInv(p) == FillInv(p) /\ FullInv(p) /\ StoreSentInv(p) /\ UpdateInv(p) /\ LineInv(p)

LEMMA CopyKept ==
  ASSUME NEW o \in Procs, SameCache(o), UNCHANGED ramRegs,
         cpu'[o] # NoReq => cpu'[o] = cpu[o] \/ cpu'[o].be = Lanes, CopyInv(o)
  PROVE  CopyInv(o)'
<1>1. UNCHANGED <<ramInvFsm, blockState, invBlock, invTarget, ramFsm, sav, directory, mem>>
  BY DEF ramRegs, ramFsmVars
<1>2. FullInv(o)' /\ UpdateInv(o)'
  BY DEF CopyInv, FullInv, UpdateInv, SameCache
<1>3. NbSent(o)' = NbSent(o) /\ NbDone(o)' = NbDone(o)
  BY DEF NbSent, NbDone, SameCache
<1>4. StoreSentInv(o)'
  BY <1>3 DEF CopyInv, StoreSentInv, SameCache
<1>5. \A b \in Blocks : /\ Condemned(o, b)' <=> Condemned(o, b)
                        /\ Fills(o, b)' <=> Fills(o, b)
                        /\ HasCopy(o, b)' <=> HasCopy(o, b)
  BY <1>1 DEF Condemned, RoundAhead, OtherSharers, Fills, Filling, HasCopy, SameCache
<1>6. FillInv(o)'
  BY <1>1, <1>5 DEF CopyInv, FillInv, SameCache
<1>7. ASSUME NEW a \in Addr
      PROVE  /\ Conditional(o, a)' <=> Conditional(o, a)
             /\ Updated(o, a)' = Updated(o, a)
             /\ \A d : Unwritten(o, a, d)' <=> Unwritten(o, a, d)
  BY <1>3 DEF Conditional, Updated, Unwritten, SameCache
<1>8. LineInv(o)'
  <2> SUFFICES ASSUME NEW a \in Addr, HasCopy(o, Block(a))', ~Condemned(o, Block(a))',
                      ~Conditional(o, a)'
               PROVE  /\ \A d \in Word : Unwritten(o, a, d)' => Updated(o, a)' = d
                      /\ (\A d \in Word : ~Unwritten(o, a, d)') => Updated(o, a)' = mem'[a]
    BY DEF LineInv
  <2>1. PICK b \in Blocks : b = Block(a)
    BY AddrTypes
  <2>2. HasCopy(o, b)' /\ ~Condemned(o, b)'
    BY <2>1 DEF Condemned, RoundAhead, OtherSharers, HasCopy, Filling
  <2>3. HasCopy(o, Block(a)) /\ ~Condemned(o, Block(a))
    BY <1>5, <2>1, <2>2
  <2> QED BY <1>1, <1>7, <2>3 DEF CopyInv, LineInv
<1> QED BY <1>2, <1>4, <1>6, <1>8 DEF CopyInv

(* The steps of the platform: a cycle of a cache,                          *)
LEMMA CycleCopies ==
  ASSUME PortsOK, \A o \in Procs : DirectoryInv(o) /\ CopyInv(o), CurInv,
         NEW p \in Procs, NEW rspval \in BOOLEAN, NEW invval \in BOOLEAN,
         CacheCycle(p, rspval, invval), UNCHANGED ramRegs
  PROVE  CurInv' /\ \A o \in Procs : CopyInv(o)'
<1>1. CurInv'
  BY DEF CurInv, ramRegs
<1>2. CopyInv(p)'
  BY FillDataStep, FullStep, StoreSentStep, UpdateStep, LineStep DEF DirectoryInv, CopyInv
<1>3. ASSUME NEW o \in Procs \ {p} PROVE CopyInv(o)'
  <2>1. SameCache(o) /\ cpu'[o] = cpu[o]
    BY CycleSame, CycleEffects DEF Untouched
  <2> QED BY <2>1, CopyKept
<1> QED BY <1>1, <1>2, <1>3

(* a cycle of the memory controller,                                       *)
LEMMA RamCopies ==
  ASSUME PortsOK, \A o \in Procs : DirectoryInv(o) /\ CopyInv(o), CurInv, RamStep
  PROVE  CurInv' /\ \A o \in Procs : CopyInv(o)'
<1>1. RamFsm /\ UNCHANGED <<cpu, dc, tag, dm, wb, rq, rs>>
  BY DEF RamStep, RamCycle, cacheVars
<1>2. CurInv'
  BY <1>1, CurStep
<1> SUFFICES ASSUME NEW o \in Procs PROVE CopyInv(o)'
  BY <1>2
<1>3. FillInv(o)' /\ LineInv(o)'
  BY FillRam, LineRam DEF DirectoryInv, CopyInv
<1>4. FullInv(o)' /\ UpdateInv(o)'
  BY <1>1 DEF CopyInv, FullInv, UpdateInv
<1>5. cmd'[o] \in {cmd[o], NoCell}
  BY <1>1, TargetShape, PortFacts
<1>6. StoreSentInv(o)'
  BY <1>1, <1>5 DEF CopyInv, StoreSentInv, NbSent
<1> QED BY <1>3, <1>4, <1>6 DEF CopyInv

(* a request put at a port.                                                *)
LEMMA RequestCopies ==
  ASSUME \A o \in Procs : CopyInv(o), CurInv,
         UNCHANGED <<ramVars, dc, tag, line, dm, wb, ic, rq, rs, iv>>,
         \A o \in Procs : cpu'[o] # NoReq => cpu'[o] = cpu[o] \/ cpu'[o].be = Lanes
  PROVE  CurInv' /\ \A o \in Procs : CopyInv(o)'
<1>1. UNCHANGED ramRegs /\ CurInv'
  BY DEF ramVars, ramRegs, CurInv
<1> SUFFICES ASSUME NEW o \in Procs PROVE CopyInv(o)'
  BY <1>1
<1>2. Packet(o)' = Packet(o)
  BY DEF Packet, NothingSent, MissAddr, UncachedCmd, DataReqState
<1>3. SameCache(o)
  BY <1>2 DEF SameCache, ramVars, nocVars
<1> QED BY <1>1, <1>3, CopyKept

(* The processors store whole words. *)
LEMMA WholeRequests ==
  ASSUME PortsOK, NEW p \in Procs, CpuRequest(p)
  PROVE  \A o \in Procs : cpu'[o] # NoReq => cpu'[o] = cpu[o] \/ cpu'[o].be = Lanes
<1>1. PICK t \in types \ {"FETCH"} : \E a \in IF t \in Links THEN Linked ELSE Used :
        cpu' = [cpu EXCEPT ![p] = [type |-> t, addr |-> a, be |-> Lanes,
                  data |-> IF t \in Stores THEN Full(stores + 1) ELSE Zero]]
  BY DEF CpuRequest
<1>2. PICK a \in IF t \in Links THEN Linked ELSE Used :
        cpu' = [cpu EXCEPT ![p] = [type |-> t, addr |-> a, be |-> Lanes,
                  data |-> IF t \in Stores THEN Full(stores + 1) ELSE Zero]]
  BY <1>1
<1> DEFINE d == IF t \in Stores THEN Full(stores + 1) ELSE Zero
           q == [type |-> t, addr |-> a, be |-> Lanes, data |-> d]
<1>3. q.be = Lanes /\ cpu' = [cpu EXCEPT ![p] = q] /\ cpu \in [Procs -> DataReq \cup {NoReq}]
  BY <1>2 DEF PortsOK, CacheTypeOK
<1> HIDE DEF q
<1> QED BY <1>3

LEMMA InitCopies == Init => CurInv /\ \A o \in Procs : CopyInv(o)
<1> SUFFICES ASSUME Init PROVE CurInv /\ \A o \in Procs : CopyInv(o)
  OBVIOUS
<1>1. CurInv
  BY DEF Init, RamInit, CurInv
<1> SUFFICES ASSUME NEW o \in Procs PROVE CopyInv(o)
  BY <1>1
<1>2. /\ dc[o].fsm = "DCACHE_IDLE" /\ dc[o].be = Lanes /\ dm[o].wf = Lanes /\ dm[o].wl = Lanes
      /\ cpu[o] = NoReq
  BY DEF Init, CacheInit
<1>3. tag[o] = [y \in Slots |-> NoBlock] /\ o \in Srcs /\ cmd[o] = NoCell
  BY RamAssumptions, Ram!ConstantFacts, SameMap DEF Init, NocInit, CacheInit
<1>4. FillInv(o) /\ FullInv(o) /\ UpdateInv(o) /\ StoreSentInv(o)
  BY <1>2, <1>3 DEF FillInv, Fills, Filling, FullInv, UpdateInv, StoreSentInv
<1>5. LineInv(o)
  <2> SUFFICES ASSUME NEW a \in Addr PROVE tag[o][Slot(Block(a))] # Block(a)
    BY DEF LineInv, HasCopy
  <2> QED BY <1>3, AddrTypes, NoBlockAssumption
<1> QED BY <1>4, <1>5 DEF CopyInv

(* Every step keeps the invariant of the data.                             *)
LEMMA NextCopies ==
  ASSUME PortsOK, RequestsOK, \A o \in Procs : DirectoryInv(o) /\ CopyInv(o), CurInv,
         [Next]_vars
  PROVE  CurInv' /\ \A o \in Procs : CopyInv(o)'
<1>1. CASE RamStep
  BY <1>1, RamCopies
<1>2. ASSUME NEW p \in Procs, CpuRequest(p) PROVE CurInv' /\ \A o \in Procs : CopyInv(o)'
  <2>1. UNCHANGED <<ramVars, dc, tag, line, dm, wb, ic, rq, rs, iv>>
    BY <1>2 DEF CpuRequest
  <2> QED BY <1>2, <2>1, WholeRequests, RequestCopies
<1>3. ASSUME NEW p \in Procs, FetchRequest(p) PROVE CurInv' /\ \A o \in Procs : CopyInv(o)'
  <2>1. UNCHANGED <<ramVars, dc, tag, line, dm, wb, ic, rq, rs, iv>> /\ cpu' = cpu
    BY <1>3 DEF FetchRequest
  <2> QED BY <2>1, RequestCopies
<1>4. ASSUME NEW p \in Procs, CacheStep(p) PROVE CurInv' /\ \A o \in Procs : CopyInv(o)'
  <2>1. PICK rspval \in BOOLEAN, invval \in BOOLEAN : CacheCycle(p, rspval, invval)
    BY <1>4 DEF CacheStep
  <2>2. UNCHANGED ramRegs
    BY <1>4 DEF CacheStep
  <2> QED BY <2>1, <2>2, CycleCopies
<1>5. CASE UNCHANGED vars
  <2>1. UNCHANGED <<ramVars, dc, tag, line, dm, wb, ic, rq, rs, iv>> /\ cpu' = cpu
    BY <1>5 DEF vars, cacheVars
  <2> QED BY <2>1, RequestCopies
<1> QED BY <1>1, <1>2, <1>3, <1>4, <1>5 DEF Next

(* What CopyInv says of a line that nobody is about to drop. *)
LEMMA StoresExplain ==
  ASSUME PortsOK, NEW p \in Procs, CopyInv(p), NEW a \in Addr,
         HasCopy(p, Block(a)), ~Condemned(p, Block(a)), ~StorePending(p, a)
  PROVE  line[p][Slot(Block(a))][Offset(a)] = mem[a]
<1>1. ~Conditional(p, a)
  BY DEF Conditional, StorePending
<1>2. Updated(p, a) = line[p][Slot(Block(a))][Offset(a)]
  BY DEF Updated, CopyInv, UpdateInv, StorePending
<1>3. ASSUME NEW d \in Word PROVE ~Unwritten(p, a, d)
  <2>1. /\ Len(wb[p].cells) \in Nat /\ NbDone(p) \in Int /\ NbDone(p) >= 0
        /\ ~dm[p].pending => Len(wb[p].cells) = 0
    BY CellTypes
  <2>2. ASSUME NEW i \in NbDone(p) + 1 .. Len(wb[p].cells) PROVE wb[p].cells[i].addr # a
    <3>1. i \in 1 .. Len(wb[p].cells) /\ dm[p].pending
      BY <2>1
    <3>2. DOMAIN wb[p].cells = 1 .. Len(wb[p].cells)
      <4>1. wb[p] \in WbRegs
        BY RegTypes DEF PortsOK
      <4> QED BY <4>1 DEF WbRegs
    <3> QED BY <3>1, <3>2 DEF StorePending
  <2> QED BY <2>2 DEF Unwritten, StorePending
<1> QED BY <1>1, <1>2, <1>3 DEF CopyInv, LineInv

(* Whatever the number of caches, the latencies of the networks and the    *)
(* requests of the processors: a line that differs from memory is about to *)
(* be dropped, or its own processor has a store of that word under way.    *)
THEOREM StaleCopiesDie == Spec => []StaleCopiesAreDoomed
<1> DEFINE Inv == /\ PortsOK /\ RequestsOK /\ CurInv
                  /\ \A o \in Procs : DirectoryInv(o) /\ CopyInv(o)
<1>1. Init => Inv
  BY InitPorts, InitDirectory, InitCopies
<1>2. Inv /\ [Next]_vars => Inv'
  <2> SUFFICES ASSUME Inv, [Next]_vars PROVE Inv'
    OBVIOUS
  <2>1. PortsOK' /\ RequestsOK'
    BY NextPorts
  <2>2. \A o \in Procs : DirectoryInv(o)'
    BY NextDirectory
  <2>3. CurInv' /\ \A o \in Procs : CopyInv(o)'
    BY NextCopies
  <2> QED BY <2>1, <2>2, <2>3
<1>3. Inv => StaleCopiesAreDoomed
  <2> SUFFICES ASSUME Inv, NEW p \in Procs, NEW a \in Addr, HasCopy(p, Block(a)),
                      line[p][Slot(Block(a))][Offset(a)] # mem[a]
               PROVE  Doomed(p, Block(a)) \/ StorePending(p, a)
    BY DEF StaleCopiesAreDoomed
  <2>1. Condemned(p, Block(a)) => Doomed(p, Block(a))
    BY DEF Condemned, Doomed, InvalidationTaken
  <2> QED BY <2>1, StoresExplain
<1> QED BY <1>1, <1>2, <1>3, PTL DEF Spec

-----------------------------------------------------------------------------
(***************************************************************************)
(* What the processors read: every word that is in, or on its way to, the  *)
(* cache of p is one that memory has had since the last access of p to     *)
(* that address.  Nothing is asked here of the invalidations: they bound   *)
(* how old a word may get, not the order in which a processor sees them.   *)
(***************************************************************************)

(* w was in memory at a, not before the value that p has read or written.  *)
Recent(p, a, w) == \E i \in seen[p][a] .. Len(order[a]) : order[a][i] = w

OrderInv ==
  /\ order \in [Addr -> Seq(Word)] /\ seen \in [Procs -> [Addr -> Nat \ {0}]]
  /\ \A a \in Addr : /\ Len(order[a]) > 0 /\ order[a][Len(order[a])] = mem[a]
                     /\ \A p \in Procs : seen[p][a] <= Len(order[a])

(* The processor holds the request that DCACHE_FSM has saved, and the word *)
(* that it waits for is asked as one.                                      *)
AwaitsOne(p) ==
  \/ dc[p].fsm = "DCACHE_UNC_LL_SC_WAIT"
  \/ dc[p].fsm = "DCACHE_RAMINVAL" /\ dc[p].prev = "DCACHE_UNC_LL_SC_WAIT"

HeldInv(p) ==
  /\ Waiting(p) \/ dc[p].fsm \in {"DCACHE_MISSUPDT", "DCACHE_UNC_LL_SC_GO"} =>
       cpu[p] # NoReq /\ cpu[p].addr = dc[p].addr
  /\ AwaitsOne(p) => dc[p].unc \/ dc[p].ll \/ dc[p].sc

(* The words of a line on their way, *)
RecentFillInv(p) ==
  \A b \in Blocks : Fills(p, b) =>
    /\ rs[p].fsm = "RSP_DMISS" =>
         /\ \A x \in Offsets : x < rs[p].cpt => Recent(p, Base(b) + x, rs[p].buf[x])
         /\ rsp[p] # NoCell => Recent(p, Base(b) + rs[p].cpt, rsp[p].data)
    /\ rs[p].dOk \/ dc[p].fsm = "DCACHE_MISSUPDT" =>
         \A x \in Offsets : Recent(p, Base(b) + x, rs[p].buf[x])

(* a single word, *)
AwaitsWord(p) == ~dc[p].sc /\ (AwaitsOne(p) \/ dc[p].fsm = "DCACHE_UNC_LL_SC_GO")

RecentWordInv(p) ==
  AwaitsWord(p) =>
    /\ rs[p].fsm = "RSP_UNC" =>
         /\ rsp[p] # NoCell => Recent(p, dc[p].addr, rsp[p].data)
         /\ sendRsp /\ cur.src = p => Recent(p, dc[p].addr, cur.data)
    /\ rs[p].dOk \/ dc[p].fsm = "DCACHE_UNC_LL_SC_GO" => Recent(p, dc[p].addr, rs[p].unc)

(* and the lines, but for the stores that memory has not done. *)
RecentLineInv(p) ==
  \A a \in Addr :
    HasCopy(p, Block(a)) /\ ~Conditional(p, a) =>
      /\ \A d \in Word : Unwritten(p, a, d) => Updated(p, a) = d
      /\ (\A d \in Word : ~Unwritten(p, a, d)) => Recent(p, a, Updated(p, a))

SeenInv(p) == HeldInv(p) /\ RecentFillInv(p) /\ RecentWordInv(p) /\ RecentLineInv(p)

(* A bounded set of numbers has a greatest one.                            *)
LEMMA GreatestExists ==
  ASSUME NEW n \in Nat, NEW S \in SUBSET (1 .. n), S # {}
  PROVE  \E m \in S : \A j \in S : j <= m
<1> DEFINE T == {n - j : j \in S}
<1>1. \A j \in S : j \in Nat /\ n - j \in Nat /\ n - j \in T
  OBVIOUS
<1>2. T \in SUBSET Nat /\ T # {}
  BY <1>1
<1>3. PICK t \in T : \A u \in T : t <= u
  <2> HIDE DEF T
  <2> QED BY <1>2, RamAssumptions, Ram!LeastExists
<1>4. PICK m \in S : t = n - m
  OBVIOUS
<1>5. ASSUME NEW j \in S PROVE j <= m
  <2>1. n - m <= n - j
    BY <1>1, <1>3, <1>4
  <2> HIDE DEF T
  <2> QED BY <1>1, <2>1
<1> QED BY <1>5

(* A store that memory does is the last word of its address, and the one   *)
(* that its processor has written; the others see what they have seen.     *)
LEMMA OrderStep ==
  ASSUME PortsOK, OrderInv, RamStep
  PROVE  /\ OrderInv'
         /\ \A p \in Procs, a \in Addr :
              /\ seen'[p][a] >= seen[p][a]
              /\ \A w : Recent(p, a, w) /\ (mem'[a] = mem[a] \/ p # cur'.src) => Recent(p, a, w)'
              /\ \A w : w = mem'[a] => Recent(p, a, w)'
<1> DEFINE written == {a \in Addr : mem'[a] # mem[a]}
<1>1. /\ order' = [a \in Addr |-> IF a \in written THEN Append(order[a], mem'[a]) ELSE order[a]]
      /\ seen' = [p \in Procs |-> [a \in Addr |->
                    IF a \in written /\ p = cur'.src THEN Len(order[a]) + 1 ELSE seen[p][a]]]
  BY DEF RamStep, OrderOfStores
<1>2. mem' \in [Addr -> Word]
  <2>1. PortsOK'
    BY RamPorts
  <2> QED BY <2>1 DEF PortsOK, RamInv, Ram!RamTypeOK, Ram!Addr, Addr, Ram!Word, Word
<1>3. ASSUME NEW a \in Addr
      PROVE  /\ order'[a] \in Seq(Word) /\ Len(order'[a]) > 0 /\ order'[a][Len(order'[a])] = mem'[a]
             /\ Len(order'[a]) >= Len(order[a])
             /\ \A i \in 1 .. Len(order[a]) : order'[a][i] = order[a][i]
             /\ \A p \in Procs :
                  /\ seen'[p][a] \in Nat \ {0} /\ seen'[p][a] <= Len(order'[a])
                  /\ seen'[p][a] >= seen[p][a]
                  /\ mem'[a] = mem[a] \/ p # cur'.src => seen'[p][a] = seen[p][a]
  <2>1. /\ order[a] \in Seq(Word) /\ Len(order[a]) \in Nat /\ Len(order[a]) > 0
        /\ order[a][Len(order[a])] = mem[a] /\ mem'[a] \in Word
        /\ \A p \in Procs : seen[p][a] \in Nat \ {0} /\ seen[p][a] <= Len(order[a])
    BY <1>2 DEF OrderInv
  <2>2. CASE a \in written
    <3>1. /\ order'[a] = Append(order[a], mem'[a]) /\ mem'[a] # mem[a]
          /\ \A p \in Procs : seen'[p][a] = IF p = cur'.src THEN Len(order[a]) + 1 ELSE seen[p][a]
      BY <1>1, <2>2
    <3> DEFINE s == order[a]
               c == mem'[a]
               n == Len(s)
               t == Append(s, c)
    <3>2. /\ s \in Seq(Word) /\ c \in Word
          /\ order'[a] = t
      BY <2>1, <3>1
    <3>3. /\ t \in Seq(Word) /\ Len(t) = n + 1 /\ t[n + 1] = c
          /\ \A i \in 1 .. n : t[i] = s[i]
      <4> HIDE DEF s, c
      <4> QED BY <3>2
    <3> HIDE DEF t
    <3> QED BY <2>1, <3>1, <3>2, <3>3
  <2>3. CASE a \notin written
    <3>1. /\ order'[a] = order[a] /\ mem'[a] = mem[a]
          /\ \A p \in Procs : seen'[p][a] = seen[p][a]
      BY <1>1, <2>3
    <3> QED BY <2>1, <3>1
  <2> QED BY <2>2, <2>3
<1>4. OrderInv'
  <2>1. order' \in [Addr -> Seq(Word)] /\ seen' \in [Procs -> [Addr -> Nat \ {0}]]
    <3> HIDE DEF written
    <3>1. DOMAIN order' = Addr /\ order' = [a \in Addr |-> order'[a]]
      BY <1>1
    <3>2. seen' = [p \in Procs |-> [a \in Addr |-> seen'[p][a]]]
      BY <1>1
    <3> QED BY <1>3, <3>1, <3>2
  <2> QED BY <1>3, <2>1 DEF OrderInv
<1>5. ASSUME NEW p \in Procs, NEW a \in Addr
      PROVE  /\ seen'[p][a] >= seen[p][a]
             /\ \A w : Recent(p, a, w) /\ (mem'[a] = mem[a] \/ p # cur'.src) => Recent(p, a, w)'
             /\ \A w : w = mem'[a] => Recent(p, a, w)'
  <2>1. /\ order[a] \in Seq(Word) /\ Len(order[a]) \in Nat /\ seen[p][a] \in Nat \ {0}
        /\ Len(order'[a]) \in Nat
    BY <1>3 DEF OrderInv
  <2> QED BY <1>3, <2>1 DEF Recent
<1> QED BY <1>4, <1>5

(* The processor sees its request go only when DCACHE_FSM has done with it. *)
LEMMA CpuShape ==
  ASSUME CacheTypeOK, NEW p \in Procs, DCacheFsm(p)
  PROVE  \/ cpu'[p] = cpu[p]
         \/ cpu'[p] = NoReq /\ dc'[p].fsm \in {"DCACHE_IDLE", "DCACHE_WUPDT", "DCACHE_CPUINVAL"}
<1>1. ASSUME AnswerCpu(p) PROVE cpu'[p] = NoReq
  BY <1>1 DEF AnswerCpu, CacheTypeOK
<1>2. ASSUME DcBurst(p) \/ DcMerge(p) \/ DcFirstStore(p)
      PROVE  cpu'[p] = NoReq /\ dc'[p].fsm \in {"DCACHE_IDLE", "DCACHE_WUPDT"}
  BY <1>1, <1>2, SavedAt DEF DcBurst, DcMerge, DcFirstStore, AcceptStore
<1>3. ASSUME DcLoadHit(p) \/ DcSync(p) \/ DcXtnInval(p)
      PROVE  cpu'[p] = NoReq /\ dc'[p].fsm \in {"DCACHE_IDLE", "DCACHE_CPUINVAL"}
  BY <1>1, <1>3, SavedAt DEF DcLoadHit, DcSync, DcXtnInval
<1>4. ASSUME DcMissUpdate(p) \/ DcUncachedGo(p) PROVE cpu'[p] = NoReq /\ dc'[p].fsm = "DCACHE_IDLE"
  BY <1>1, <1>4, GoToAt DEF DcMissUpdate, DcUncachedGo
<1> QED BY <1>2, <1>3, <1>4
    DEF DCacheFsm, DcTakeInval, DcNoRequest, DcFlush, DcStall, DcLoadMiss, DcUncached,
        DcWriteUpdate, DcWait, DcCpuInval, DcRamInval

(* The word that is awaited. *)
LEMMA WordStep ==
  ASSUME PortsOK, NEW p \in Procs, NEW rspval \in BOOLEAN, NEW invval \in BOOLEAN,
         CacheCycle(p, rspval, invval)
  PROVE  /\ AwaitsOne(p)' => AsksWord(p) \/ (AwaitsOne(p) /\ SameData(p))
         /\ dc'[p].fsm = "DCACHE_UNC_LL_SC_GO" => AwaitsOne(p) /\ SameData(p) /\ rs[p].dOk
<1>1. /\ \/ TakesAway(p) \/ Idles(p) \/ StoresWord(p) \/ Misses(p) \/ AsksWord(p)
         \/ UpdatesWord(p) \/ Waits(p) \/ FillsLine(p) \/ DropsLine(p) \/ Invalidates(p)
      /\ dc[p].prev \in WaitStates \cup {"DCACHE_IDLE"}
  BY CycleShape DEF InvalInv
<1>2. AwaitsOne(p)' <=> \/ dc'[p].fsm = "DCACHE_UNC_LL_SC_WAIT"
                        \/ dc'[p].fsm = "DCACHE_RAMINVAL" /\ dc'[p].prev = "DCACHE_UNC_LL_SC_WAIT"
  BY DEF AwaitsOne
<1>3. CASE TakesAway(p)
  BY <1>2, <1>3 DEF TakesAway, TakesInval, WaitStates, AwaitsOne
<1>4. CASE Idles(p) \/ StoresWord(p) \/ Misses(p) \/ UpdatesWord(p) \/ FillsLine(p) \/ DropsLine(p)
  BY <1>2, <1>4 DEF Idles, StoresWord, Misses, LooksUp, UpdatesWord, FillsLine, DropsLine
<1>5. CASE AsksWord(p)
  BY <1>2, <1>5 DEF AsksWord, LooksUp
<1>6. CASE Waits(p)
  BY <1>2, <1>6 DEF Waits, WaitStates, AwaitsOne
<1>7. CASE Invalidates(p)
  BY <1>1, <1>2, <1>7 DEF Invalidates, WaitStates, AwaitsOne
<1> QED BY <1>1, <1>3, <1>4, <1>5, <1>6, <1>7

(* The request that DCACHE_FSM has saved is the one the processor holds.   *)
LEMMA HeldStep ==
  ASSUME PortsOK, NEW p \in Procs, NEW rspval \in BOOLEAN, NEW invval \in BOOLEAN,
         CacheCycle(p, rspval, invval), HeldInv(p)
  PROVE  HeldInv(p)'
<1>1. /\ \/ TakesAway(p) \/ Idles(p) \/ StoresWord(p) \/ Misses(p) \/ AsksWord(p)
         \/ UpdatesWord(p) \/ Waits(p) \/ FillsLine(p) \/ DropsLine(p) \/ Invalidates(p)
      /\ dc[p].prev \in WaitStates \cup {"DCACHE_IDLE"}
      /\ \/ cpu'[p] = cpu[p]
         \/ cpu'[p] = NoReq /\ dc'[p].fsm \in {"DCACHE_IDLE", "DCACHE_WUPDT", "DCACHE_CPUINVAL"}
  BY CycleShape, CpuShape DEF InvalInv
<1>2. ASSUME \/ Waiting(p)'
             \/ dc'[p].fsm \in {"DCACHE_MISSUPDT", "DCACHE_UNC_LL_SC_GO"}
      PROVE  cpu'[p] # NoReq /\ cpu'[p].addr = dc'[p].addr
  <2>1. cpu'[p] = cpu[p]
    BY <1>1, <1>2 DEF Waiting, WaitStates
  <2>2. CASE Misses(p) \/ AsksWord(p)
    BY <2>1, <2>2 DEF Misses, AsksWord, LooksUp
  <2>3. ASSUME SameData(p), Waiting(p) PROVE cpu'[p] # NoReq /\ cpu'[p].addr = dc'[p].addr
    BY <2>1, <2>3 DEF HeldInv, SameData
  <2>4. CASE TakesAway(p)
    BY <1>2, <2>3, <2>4 DEF TakesAway, TakesInval, Waiting, WaitStates
  <2>5. CASE Waits(p)
    BY <2>3, <2>5 DEF Waits, Waiting
  <2>6. CASE Invalidates(p)
    BY <1>1, <1>2, <2>3, <2>6 DEF Invalidates, Waiting, WaitStates
  <2>7. CASE Idles(p) \/ StoresWord(p) \/ UpdatesWord(p) \/ FillsLine(p) \/ DropsLine(p)
    BY <1>2, <2>7
    DEF Idles, StoresWord, UpdatesWord, FillsLine, DropsLine, Waiting, WaitStates
  <2> QED BY <1>1, <2>2, <2>4, <2>5, <2>6, <2>7
<1>3. ASSUME AwaitsOne(p)' PROVE dc'[p].unc \/ dc'[p].ll \/ dc'[p].sc
  <2>1. CASE AsksWord(p)
    BY <2>1 DEF AsksWord
  <2>2. CASE ~AsksWord(p)
    <3>1. AwaitsOne(p) /\ SameData(p)
      BY <1>3, <2>2, WordStep
    <3> QED BY <3>1 DEF HeldInv, SameData
  <2> QED BY <2>1, <2>2
<1> QED BY <1>2, <1>3 DEF HeldInv

(* A load is answered from the line, from the buffer of RSP_FSM that goes  *)
(* into the line, or with the word that memory has sent.                   *)
HitAnswered(p) ==
  /\ dc[p].fsm = "DCACHE_IDLE" /\ ~dm[p].pending /\ ~dm'[p].pending /\ Hit(p, LoadedAddr(p))
  /\ LoadedWord(p) = line[p][Slot(Block(LoadedAddr(p)))][Offset(LoadedAddr(p))]
MissAnswered(p) ==
  /\ dc[p].fsm = "DCACHE_MISSUPDT" /\ dc[p].addr = LoadedAddr(p)
  /\ LoadedWord(p) = rs[p].buf[Offset(LoadedAddr(p))]
WordAnswered(p) ==
  /\ dc[p].fsm = "DCACHE_UNC_LL_SC_GO" /\ ~dc[p].sc /\ dc[p].addr = LoadedAddr(p)
  /\ LoadedWord(p) = rs[p].unc
  /\ tag'[p][Slot(Block(LoadedAddr(p)))] = NoBlock

LEMMA LoadShape ==
  ASSUME CacheTypeOK, NEW p \in Procs, HeldInv(p), LoadAnswered(p)
  PROVE  /\ LoadedAddr(p) \in Addr /\ dc'[p].fsm = "DCACHE_IDLE"
         /\ HitAnswered(p) \/ MissAnswered(p) \/ WordAnswered(p)
<1>1. cpu[p] \in DataReq \cup {NoReq} /\ dc[p] \in DcRegs
      /\ tag[p] \in [Slots -> Blocks \cup {NoBlock}]
  BY DEF CacheTypeOK
<1>2. ASSUME cpu[p] # NoReq PROVE LoadedAddr(p) \in Addr
  BY <1>1, <1>2 DEF DataReq, LoadedAddr
<1>3. LoadedWord(p) =
        IF dc[p].fsm = "DCACHE_IDLE"
        THEN line[p][Slot(Block(LoadedAddr(p)))][Offset(LoadedAddr(p))]
        ELSE IF dc[p].fsm = "DCACHE_MISSUPDT" THEN rs[p].buf[Offset(LoadedAddr(p))]
        ELSE rs[p].unc
  BY Zenon DEF LoadedWord
<1>4. CASE DcLoadHit(p)
  <2>1. /\ dc[p].fsm = "DCACHE_IDLE" /\ ~dm[p].pending /\ cpu[p] # NoReq
        /\ Hit(p, LoadedAddr(p)) /\ SaveAndGoTo(p, "DCACHE_IDLE") /\ KeepDm(p)
    BY <1>4 DEF DcLoadHit, CachedLoad, Proceeds, LoadedAddr
  <2>2. dc'[p].fsm = "DCACHE_IDLE"
    BY <2>1, SavedAt
  <2>3. ~dm'[p].pending
    <3>1. DmAfter(p, dm[p]) /\ dm[p] \in DmRegs
      BY <2>1, SetDmAt, RegTypes DEF KeepDm
    <3> QED BY <2>1, <3>1 DEF DmAfter, DmRegs
  <2> QED BY <1>2, <1>3, <2>1, <2>2, <2>3 DEF HitAnswered
<1>5. CASE DcMissUpdate(p)
  <2>1. dc[p].fsm = "DCACHE_MISSUPDT" /\ dc'[p].fsm = "DCACHE_IDLE"
    BY <1>5, GoToAt DEF DcMissUpdate
  <2>2. cpu[p] # NoReq /\ dc[p].addr = LoadedAddr(p)
    BY <2>1 DEF HeldInv, LoadedAddr
  <2> QED BY <1>2, <1>3, <2>1, <2>2 DEF MissAnswered
<1>6. CASE DcUncachedGo(p) /\ ~dc[p].sc
  <2>1. /\ dc[p].fsm = "DCACHE_UNC_LL_SC_GO" /\ dc'[p].fsm = "DCACHE_IDLE" /\ ~dc[p].sc
        /\ tag'[p] = [tag[p] EXCEPT ![Slot(Block(dc[p].addr))] = NoBlock]
    BY <1>6, GoToAt, TagAt DEF DcUncachedGo
  <2>2. cpu[p] # NoReq /\ dc[p].addr = LoadedAddr(p)
    BY <2>1 DEF HeldInv, LoadedAddr
  <2>3. Slot(Block(LoadedAddr(p))) \in Slots
    BY <1>2, <2>2, AddrTypes
  <2> QED BY <1>1, <1>2, <1>3, <2>1, <2>2, <2>3 DEF WordAnswered
<1> QED BY <1>4, <1>5, <1>6 DEF LoadAnswered

(* What p reads, memory has had since the last access of p to the address. *)
LEMMA LoadRecent ==
  ASSUME PortsOK, NEW p \in Procs, SeenInv(p), FillingInv(p), LoadAnswered(p)
  PROVE  LoadedAddr(p) \in Addr /\ Recent(p, LoadedAddr(p), LoadedWord(p))
<1> DEFINE a == LoadedAddr(p)
<1>1. /\ a \in Addr
      /\ HitAnswered(p) \/ MissAnswered(p) \/ WordAnswered(p)
  BY LoadShape DEF PortsOK, SeenInv
<1>2. CASE HitAnswered(p)
  <2>1. /\ HasCopy(p, Block(a)) /\ ~Conditional(p, a) /\ Updated(p, a) = LoadedWord(p)
    BY <1>2 DEF HitAnswered, HasCopy, Hit, Filling, Conditional, Updated
  <2>2. \A d \in Word : ~Unwritten(p, a, d)
    BY <1>2, CellTypes DEF HitAnswered, Unwritten
  <2> QED BY <1>1, <2>1, <2>2 DEF SeenInv, RecentLineInv
<1>3. CASE MissAnswered(p)
  <2>1. Fills(p, Block(a)) /\ Block(a) \in Blocks /\ Offset(a) \in Offsets
        /\ Base(Block(a)) + Offset(a) = a
    BY <1>1, <1>3, AddrTypes, AddrSplit DEF MissAnswered, Fills, Filling
  <2>2. Recent(p, Base(Block(a)) + Offset(a), rs[p].buf[Offset(a)])
    BY <1>3, <2>1 DEF SeenInv, RecentFillInv, MissAnswered
  <2> QED BY <1>1, <1>3, <2>1, <2>2 DEF MissAnswered
<1>4. CASE WordAnswered(p)
  <2>1. AwaitsWord(p)
    BY <1>4 DEF WordAnswered, AwaitsWord
  <2> QED BY <1>1, <1>4, <2>1 DEF SeenInv, RecentWordInv, WordAnswered
<1> QED BY <1>1, <1>2, <1>3, <1>4

(* A load moves what p has seen of its address forward, to the word that p *)
(* has read; nothing else is seen in a cycle of a cache.                   *)
LEMMA LoadSeen ==
  ASSUME OrderInv, NEW p \in Procs, SeenByLoads(p), UNCHANGED <<order, mem>>,
         LoadAnswered(p) => /\ LoadedAddr(p) \in Addr
                            /\ Recent(p, LoadedAddr(p), LoadedWord(p))
  PROVE  /\ OrderInv'
         /\ \A o \in Procs, a \in Addr : seen'[o][a] >= seen[o][a]
         /\ \A o \in Procs \ {p} : seen'[o] = seen[o]
         /\ ~LoadAnswered(p) => seen' = seen
         /\ \A a \in Addr : \A w : Recent(p, a, w) /\ (LoadAnswered(p) => a # LoadedAddr(p)) =>
              Recent(p, a, w)'
         /\ LoadAnswered(p) => \A c \in Addr : \A w : c = LoadedAddr(p) /\ w = LoadedWord(p) =>
                                 Recent(p, c, w)'
<1> DEFINE a == LoadedAddr(p)
           S == Positions(a, LoadedWord(p))
           m == CHOOSE i \in S \cup {0} : \A j \in S : j <= i
<1>1. CASE ~LoadAnswered(p)
  <2>1. seen' = seen /\ order' = order /\ mem' = mem
    BY <1>1 DEF SeenByLoads
  <2> QED BY <1>1, <2>1 DEF OrderInv, Recent
<1>2. CASE LoadAnswered(p)
  <2>1. /\ a \in Addr
        /\ order \in [Addr -> Seq(Word)] /\ seen \in [Procs -> [Addr -> Nat \ {0}]]
        /\ order[a] \in Seq(Word) /\ Len(order[a]) \in Nat /\ seen[p][a] \in Nat \ {0}
    BY <1>2 DEF OrderInv
  <2>2. seen' = [seen EXCEPT ![p][a] = m]
    BY <1>2 DEF SeenByLoads
  <2>3. PICK r \in seen[p][a] .. Len(order[a]) : order[a][r] = LoadedWord(p)
    BY <1>2 DEF Recent
  <2>4. S \in SUBSET (1 .. Len(order[a])) /\ r \in S /\ r \in Nat /\ r >= seen[p][a]
    BY <2>1, <2>3 DEF Positions
  <2>5. m \in S /\ m >= r
    <3> HIDE DEF S, a
    <3>1. S # {}
      BY <2>4
    <3>2. PICK g \in S : \A j \in S : j <= g
      BY <2>1, <2>4, <3>1, GreatestExists
    <3>3. m \in S \cup {0} /\ \A j \in S : j <= m
      BY <3>2
    <3> HIDE DEF m
    <3>4. m >= r /\ m # 0
      BY <2>1, <2>4, <3>3
    <3> QED BY <3>3, <3>4
  <2>6. /\ m \in 1 .. Len(order[a]) /\ m \in Nat \ {0} /\ m >= seen[p][a] /\ m <= Len(order[a])
        /\ order[a][m] = LoadedWord(p)
    <3>1. m \in 1 .. Len(order[a]) /\ order[a][m] = LoadedWord(p)
      <4>1. \A i \in S : i \in 1 .. Len(order[a]) /\ order[a][i] = LoadedWord(p)
        BY DEF Positions
      <4> HIDE DEF S, m, a
      <4> QED BY <2>5, <4>1
    <3> HIDE DEF m, S, a
    <3> QED BY <2>1, <2>4, <2>5, <3>1
  <2> HIDE DEF m, S
  <2>7. /\ seen' \in [Procs -> [Addr -> Nat \ {0}]]
        /\ \A o \in Procs \ {p} : seen'[o] = seen[o]
        /\ seen'[p][a] = m /\ \A c \in Addr \ {a} : seen'[p][c] = seen[p][c]
    <3> HIDE DEF a
    <3> QED BY <2>1, <2>2, <2>6
  <2>8. /\ OrderInv'
        /\ \A o \in Procs, c \in Addr : seen'[o][c] >= seen[o][c]
    <3>1. \A o \in Procs, c \in Addr : /\ seen[o][c] \in Nat
                                       /\ seen'[o][c] = seen[o][c] \/ (o = p /\ c = a)
      BY <2>1, <2>7
    <3>2. ASSUME NEW o \in Procs, NEW c \in Addr
          PROVE  seen'[o][c] >= seen[o][c] /\ seen'[o][c] <= Len(order[c])
      <4>1. seen[o][c] <= Len(order[c]) /\ seen[o][c] \in Nat
        BY <3>1 DEF OrderInv
      <4> HIDE DEF a
      <4> QED BY <2>6, <2>7, <3>1, <4>1
    <3> QED BY <2>7, <3>2 DEF OrderInv
  <2>9. \A c \in Addr \ {a} : \A w : Recent(p, c, w) => Recent(p, c, w)'
    BY <2>7 DEF Recent
  <2>10. \A c \in Addr : \A w : c = a /\ w = LoadedWord(p) => Recent(p, c, w)'
    BY <2>1, <2>6, <2>7 DEF Recent
  <2> QED BY <1>2, <2>7, <2>8, <2>9, <2>10
<1> QED BY <1>1, <1>2

(* The words of a line are in memory. *)
LEMMA LineAddr ==
  ASSUME NEW b \in Blocks, NEW x \in Offsets
  PROVE  Base(b) + x \in Addr
<1>1. /\ Base(b) \in Nat /\ Base(b) + LineWords <= NbWords /\ NbWords \in Nat
      /\ LineWords \in Nat /\ x \in 0 .. LineWords - 1
  BY AddrTypes, SizeFacts, NbWordsAssumption DEF Offsets
<1> DEFINE u == Base(b)
<1>2. u \in Nat /\ u + LineWords <= NbWords
  BY <1>1
<1> HIDE DEF u
<1>3. u + x \in 0 .. NbWords - 1
  BY <1>1, <1>2
<1> QED BY <1>3 DEF u, Addr

(* Recent in the next state, of an address and a word of this one.         *)
RecentNext(p, a, w) == \E i \in seen'[p][a] .. Len(order'[a]) : order'[a][i] = w

KeepsRecent(p) ==
  \A a \in Addr : \A w :
    (LoadAnswered(p) => a # LoadedAddr(p)) /\ Recent(p, a, w) => RecentNext(p, a, w)
ReadsRecent(p) ==
  \A a \in Addr : \A w :
    LoadAnswered(p) /\ a = LoadedAddr(p) /\ w = LoadedWord(p) => RecentNext(p, a, w)

(* A cycle of the cache puts the cell it takes into the buffer at the      *)
(* place that the count says: every word of the buffer is a recent one.    *)
LEMMA RecentFillStep ==
  ASSUME PortsOK, NEW p \in Procs, NEW rspval \in BOOLEAN, NEW invval \in BOOLEAN,
         CacheCycle(p, rspval, invval), ReadInv(p), FillingInv(p), HeldInv(p),
         KeepsRecent(p), RecentFillInv(p)
  PROVE  RecentFillInv(p)'
<1> SUFFICES ASSUME NEW b \in Blocks, Fills(p, b)'
             PROVE  /\ rs'[p].fsm = "RSP_DMISS" =>
                         /\ \A x \in Offsets : x < rs'[p].cpt =>
                              RecentNext(p, Base(b) + x, rs'[p].buf[x])
                         /\ rsp'[p] # NoCell =>
                              RecentNext(p, Base(b) + rs'[p].cpt, rsp'[p].data)
                    /\ rs'[p].dOk \/ dc'[p].fsm = "DCACHE_MISSUPDT" =>
                         \A x \in Offsets : RecentNext(p, Base(b) + x, rs'[p].buf[x])
  BY DEF RecentFillInv, Recent, RecentNext
<1>1. /\ CacheTypeOK /\ RequestInv(p) /\ ServiceInv(p) /\ ResponseOK(p) /\ rs[p] \in RsRegs
      /\ rs[p].dOk <=> DataDone(p)
      /\ \/ RspKeeps(p, rspval) \/ RspStarts(p)
         \/ RspTakesLineCell(p, rspval) \/ RspTakesOneCell(p, rspval)
      /\ rspval => rsp[p] # NoCell
      /\ TakeRsp(p) => rsp'[p] = NoCell
  BY CycleShape, CycleEffects, RegTypes
<1>2. /\ rs[p].cpt \in Nat /\ LineWords \in Nat \ {0} /\ rs[p].buf \in [Offsets -> Word]
      /\ \A x \in Offsets : x \in Nat /\ x <= LineWords - 1
  BY <1>1, SizeFacts DEF RsRegs, Offsets
<1>3. Filling(p)' /\ Block(dc'[p].addr) = b /\ ~LoadAnswered(p)
  <2>1. Filling(p)' /\ Block(dc'[p].addr) = b
    BY DEF Fills
  <2>2. dc'[p].fsm # "DCACHE_IDLE"
    BY <2>1 DEF Filling
  <2> QED BY <1>1, <2>1, <2>2, LoadShape
<1>4. CASE Misses(p)
  <2>1. ~Served(p)'
    BY <1>4, NotServedStep
  <2>2. rs'[p].cpt \in Nat
    <3>1. rs'[p].cpt = rs[p].cpt \/ rs'[p].cpt = 0 \/ rs'[p].cpt = rs[p].cpt + 1
      BY <1>1, Zenon DEF RspKeeps, RspStarts, RspTakesLineCell, RspTakesOneCell
    <3> QED BY <1>2, <3>1
  <2> QED BY <1>2, <2>1, <2>2 DEF Served
<1>5. CASE ~Misses(p)
  <2>1. Fills(p, b) /\ dc[p].fsm # "DCACHE_MISSUPDT"
    BY <1>3, <1>5, FillStep DEF Fills, SameData
  <2>2. /\ rs[p].fsm = "RSP_DMISS" =>
             /\ \A x \in Offsets : x < rs[p].cpt => RecentNext(p, Base(b) + x, rs[p].buf[x])
             /\ rsp[p] # NoCell /\ rs[p].cpt \in Offsets =>
                  RecentNext(p, Base(b) + rs[p].cpt, rsp[p].data)
        /\ rs[p].dOk => \A x \in Offsets : RecentNext(p, Base(b) + x, rs[p].buf[x])
    BY <1>3, <2>1, LineAddr DEF RecentFillInv, KeepsRecent
  <2>3. dc'[p].fsm = "DCACHE_MISSUPDT" => rs[p].dOk
    BY FillStep
  <2>4. rs[p].dOk => rs[p].fsm = "RSP_IDLE" /\ rq[p].fsm = "REQ_DWAIT"
    BY <1>1 DEF DataDone, ServiceInv
  <2>5. rsp[p] # NoCell /\ rs[p].fsm = "RSP_DMISS" => rs[p].cpt \in Offsets
    BY <1>1, <1>2 DEF ResponseOK, Offsets
  <2>6. CASE RspKeeps(p, rspval)
    BY <1>1, <2>2, <2>3, <2>5, <2>6 DEF RspKeeps, FlagsAfter
  <2>7. CASE RspStarts(p)
    <3>1. rsp'[p] = NoCell /\ rs'[p].cpt = 0 /\ ~rs'[p].dOk /\ ~rs[p].dOk
      BY <1>1, <2>4, <2>7 DEF RspStarts, BothIdle, ResponseOK, FlagsAfter
    <3> QED BY <1>2, <2>3, <3>1
  <2>8. CASE RspTakesLineCell(p, rspval) /\ rs[p].fsm = "RSP_DMISS"
    <3>1. /\ rs'[p].buf = [rs[p].buf EXCEPT ![rs[p].cpt] = rsp[p].data]
          /\ rs'[p].cpt = rs[p].cpt + 1 /\ rsp'[p] = NoCell
          /\ rs'[p].dOk => rs[p].cpt = LineWords - 1
          /\ rsp[p] # NoCell /\ ~rs[p].dOk
      BY <1>1, <2>4, <2>8 DEF RspTakesLineCell, FlagsAfter, LastOfLine
    <3>2. ASSUME NEW x \in Offsets, x < rs[p].cpt + 1
          PROVE  RecentNext(p, Base(b) + x, rs'[p].buf[x])
      <4>1. CASE x = rs[p].cpt
        <5>1. rs'[p].buf[x] = rsp[p].data
          BY <1>2, <3>1, <4>1
        <5> QED BY <2>2, <2>5, <2>8, <3>1, <4>1, <5>1
      <4>2. CASE x # rs[p].cpt
        <5>1. x < rs[p].cpt /\ rs'[p].buf[x] = rs[p].buf[x]
          BY <1>2, <3>1, <3>2, <4>2
        <5> QED BY <2>2, <2>8, <5>1
      <4> QED BY <4>1, <4>2
    <3>3. rs'[p].dOk => \A x \in Offsets : x < rs[p].cpt + 1
      BY <1>2, <3>1
    <3> QED BY <2>3, <3>1, <3>2, <3>3
  <2>9. CASE RspTakesLineCell(p, rspval) /\ rs[p].fsm = "RSP_IMISS"
    BY <2>3, <2>4, <2>9 DEF RspTakesLineCell, FlagsAfter
  <2>10. ~RspTakesOneCell(p, rspval)
    <3>1. dm[p].req /\ ~dm[p].flush /\ DataRspState(p) = "RSP_DMISS"
      BY <1>1, <2>1 DEF RequestInv, Waiting, WaitStates, FillingInv, DataRspState, Filling, Fills
    <3>2. rq[p].fsm \in DataCellStates \cup {"REQ_IDLE", "REQ_WRITE", "REQ_DWAIT", "REQ_IWAIT", "REQ_IMISS"}
      BY <1>1, StateFacts DEF ReqStates, DataCellStates
    <3>3. rs[p].fsm \in {"RSP_IDLE", "RSP_DMISS", "RSP_IMISS"}
      BY <1>1, <3>1, <3>2 DEF ServiceInv
    <3> QED BY <3>3 DEF RspTakesOneCell
  <2> QED BY <1>1, <2>6, <2>7, <2>8, <2>9, <2>10 DEF RspTakesLineCell
<1> QED BY <1>4, <1>5

(* Nothing is answered to a cache whose RSP_FSM expects nothing. *)
LEMMA NothingAnswered ==
  ASSUME PortsOK, NEW p \in Procs, rs[p].fsm = "RSP_IDLE"
  PROVE  ~(sendRsp /\ cur.src = p)
<1> SUFFICES ASSUME sendRsp, cur.src = p PROVE FALSE
  OBVIOUS
<1>1. /\ Ram!TargetTypeOK /\ Ram!OutTypeOK /\ Ram!PacketInv /\ p \in Srcs /\ Packets[p] = Packet(p)
      /\ p \in Ram!Srcs
  BY PortFacts, SameMap
<1>2. Packets[p].toRecv = 0
  BY <1>1 DEF Packet, NothingSent, NoPacket
<1>3. Ram!TargetMatches /\ Ram!AtTarget(p)
  BY <1>1 DEF Ram!PacketInv, Ram!AtTarget
<1>4. Packets[p].toRecv > 0
  BY <1>1, <1>3, RamAssumptions, Ram!ServedAwaits
<1> QED BY <1>2, <1>4

(* A word that is awaited is not in the registers yet when it is asked.    *)
LEMMA AskedWord ==
  ASSUME PortsOK, NEW p \in Procs, NEW rspval \in BOOLEAN, NEW invval \in BOOLEAN,
         CacheCycle(p, rspval, invval), AsksWord(p)
  PROVE  rs'[p].fsm # "RSP_UNC" /\ ~rs'[p].dOk
<1>1. /\ RequestInv(p) /\ ServiceInv(p)
      /\ \/ RspKeeps(p, rspval) \/ RspStarts(p)
         \/ RspTakesLineCell(p, rspval) \/ RspTakesOneCell(p, rspval)
  BY CycleShape, CycleEffects
<1>2. rq[p].fsm \in DataCellStates \cup {"REQ_IDLE", "REQ_WRITE", "REQ_DWAIT", "REQ_IWAIT", "REQ_IMISS"}
  BY CycleShape, StateFacts DEF ReqStates, DataCellStates
<1>3. ~dm[p].req /\ ~dm[p].flush
  BY <1>1 DEF AsksWord, LooksUp, RequestInv, Waiting, WaitStates
<1>4. ~rs[p].dOk /\ rs[p].fsm \in {"RSP_IDLE", "RSP_IMISS"}
  BY <1>1, <1>2, <1>3 DEF ServiceInv
<1> QED BY <1>1, <1>3, <1>4 DEF RspKeeps, RspStarts, RspTakesLineCell, RspTakesOneCell, FlagsAfter

(* A cycle of the cache keeps the word that p awaits a recent one.         *)
LEMMA RecentWordStep ==
  ASSUME PortsOK, NEW p \in Procs, NEW rspval \in BOOLEAN, NEW invval \in BOOLEAN,
         CacheCycle(p, rspval, invval), UNCHANGED ramRegs, HeldInv(p),
         KeepsRecent(p), RecentWordInv(p)
  PROVE  RecentWordInv(p)'
<1> SUFFICES ASSUME AwaitsWord(p)'
             PROVE  /\ rs'[p].fsm = "RSP_UNC" =>
                         /\ rsp'[p] # NoCell => RecentNext(p, dc'[p].addr, rsp'[p].data)
                         /\ sendRsp' /\ cur'.src = p => RecentNext(p, dc'[p].addr, cur'.data)
                    /\ rs'[p].dOk \/ dc'[p].fsm = "DCACHE_UNC_LL_SC_GO" =>
                         RecentNext(p, dc'[p].addr, rs'[p].unc)
  BY DEF RecentWordInv, Recent, RecentNext
<1>1. /\ CacheTypeOK /\ RequestInv(p) /\ ServiceInv(p) /\ ResponseOK(p) /\ dc[p] \in DcRegs
      /\ rs[p].dOk <=> DataDone(p)
      /\ \/ RspKeeps(p, rspval) \/ RspStarts(p)
         \/ RspTakesLineCell(p, rspval) \/ RspTakesOneCell(p, rspval)
      /\ rspval => rsp[p] # NoCell
      /\ TakeRsp(p) => rsp'[p] = NoCell
  BY CycleShape, CycleEffects, RegTypes
<1>2. sendRsp' = sendRsp /\ cur' = cur
  BY DEF ramRegs
<1>3. AwaitsOne(p)' \/ dc'[p].fsm = "DCACHE_UNC_LL_SC_GO"
  BY DEF AwaitsWord
<1>4. ~LoadAnswered(p)
  <2>1. dc'[p].fsm # "DCACHE_IDLE"
    BY <1>3 DEF AwaitsOne
  <2> QED BY <1>1, <2>1, LoadShape
<1>5. CASE AsksWord(p)
  BY <1>5, AskedWord DEF AsksWord
<1>6. CASE ~AsksWord(p)
  <2>1. AwaitsOne(p) /\ SameData(p) /\ (dc'[p].fsm = "DCACHE_UNC_LL_SC_GO" => rs[p].dOk)
    BY <1>3, <1>6, WordStep
  <2>2. AwaitsWord(p) /\ dc'[p].addr = dc[p].addr /\ dc[p].addr \in Addr
    BY <1>1, <2>1 DEF AwaitsWord, SameData, DcRegs
  <2>3. /\ rs[p].fsm = "RSP_UNC" =>
             /\ rsp[p] # NoCell => RecentNext(p, dc[p].addr, rsp[p].data)
             /\ sendRsp /\ cur.src = p => RecentNext(p, dc[p].addr, cur.data)
        /\ rs[p].dOk => RecentNext(p, dc[p].addr, rs[p].unc)
    BY <1>4, <2>2 DEF RecentWordInv, KeepsRecent
  <2>4. dm[p].req /\ ~dm[p].flush /\ DataRspState(p) = "RSP_UNC"
    BY <1>1, <2>1 DEF RequestInv, Waiting, WaitStates, AwaitsOne, HeldInv, DataRspState
  <2>5. /\ rs[p].fsm \in {"RSP_IDLE", "RSP_UNC", "RSP_IMISS"}
        /\ rs[p].dOk => rs[p].fsm = "RSP_IDLE" /\ rq[p].fsm = "REQ_DWAIT"
    <3>1. rq[p].fsm \in DataCellStates \cup {"REQ_IDLE", "REQ_WRITE", "REQ_DWAIT", "REQ_IWAIT", "REQ_IMISS"}
      BY <1>1, StateFacts DEF ReqStates, DataCellStates
    <3> QED BY <1>1, <2>4, <3>1 DEF ServiceInv, DataDone
  <2>6. CASE RspKeeps(p, rspval)
    BY <1>2, <2>1, <2>2, <2>3, <2>6 DEF RspKeeps, FlagsAfter
  <2>7. CASE RspStarts(p)
    <3>1. rsp'[p] = NoCell /\ ~rs'[p].dOk /\ ~rs[p].dOk /\ rs[p].fsm = "RSP_IDLE"
      BY <1>1, <2>5, <2>7 DEF RspStarts, BothIdle, ResponseOK, FlagsAfter
    <3> QED BY <1>2, <2>1, <3>1, NothingAnswered
  <2>8. CASE RspTakesOneCell(p, rspval)
    <3>1. /\ rs[p].fsm = "RSP_UNC" /\ rs'[p].fsm = "RSP_IDLE" /\ rs'[p].unc = rsp[p].data
          /\ rsp[p] # NoCell
      BY <1>1, <2>5, <2>8 DEF RspTakesOneCell
    <3>2. ~rs[p].dOk
      BY <2>5, <3>1
    <3> QED BY <2>1, <2>2, <2>3, <3>1, <3>2
  <2>9. CASE RspTakesLineCell(p, rspval)
    <3>1. rs[p].fsm = "RSP_IMISS" /\ rs'[p].fsm # "RSP_UNC" /\ ~rs[p].dOk /\ ~rs'[p].dOk
      BY <2>5, <2>9 DEF RspTakesLineCell, FlagsAfter
    <3> QED BY <2>1, <3>1
  <2> QED BY <1>1, <2>6, <2>7, <2>8, <2>9
<1> QED BY <1>5, <1>6

(* A cycle of the cache keeps the words of its lines recent. *)
LEMMA RecentLineStep ==
  ASSUME PortsOK, NEW p \in Procs, NEW rspval \in BOOLEAN, NEW invval \in BOOLEAN,
         CacheCycle(p, rspval, invval), ReadInv(p), FillingInv(p), FullInv(p), UpdateInv(p),
         HeldInv(p), KeepsRecent(p), ReadsRecent(p), RecentFillInv(p), RecentLineInv(p)
  PROVE  RecentLineInv(p)'
<1> SUFFICES ASSUME NEW a \in Addr, HasCopy(p, Block(a))', ~Conditional(p, a)'
             PROVE  /\ \A d \in Word : Unwritten(p, a, d)' => Updated(p, a)' = d
                    /\ (\A d \in Word : ~Unwritten(p, a, d)') => RecentNext(p, a, Updated(p, a)')
  BY DEF RecentLineInv, Recent, RecentNext
<1> DEFINE b == Block(a)
<1>1. /\ CacheTypeOK /\ RequestInv(p) /\ b \in Blocks /\ b # NoBlock /\ Offset(a) \in Offsets
      /\ Base(b) + Offset(a) = a
  BY CycleShape, AddrTypes, AddrSplit, NoBlockAssumption
<1>2. LoadAnswered(p) =>
        HitAnswered(p) \/ MissAnswered(p) \/ WordAnswered(p)
  BY <1>1, LoadShape
<1>3. CASE StoresWord(p) /\ AddsWord(p)
  <2>1. /\ dc[p].fsm = "DCACHE_IDLE" /\ tag'[p] = tag[p] /\ line'[p] = line[p]
        /\ dc'[p].addr = cpu[p].addr /\ dc'[p].data = cpu[p].data
        /\ dc'[p].fsm = IF Hit(p, cpu[p].addr) THEN "DCACHE_WUPDT" ELSE "DCACHE_IDLE"
        /\ cpu[p] # NoReq
    BY <1>3 DEF StoresWord, LooksUp, SameLines
  <2>2. cpu[p].data \in Word
    BY <1>1, <2>1, RegTypes DEF DataReq
  <2>3. HasCopy(p, b) /\ ~Conditional(p, a) /\ tag[p][Slot(b)] = b
    BY <2>1 DEF HasCopy, Filling, Conditional
  <2>4. \A d : Unwritten(p, a, d)' <=> Unwritten(p, a, d) \/ (cpu[p].addr = a /\ cpu[p].data = d)
    BY <1>3, UnwrittenStep
  <2>5. CASE cpu[p].addr = a
    <3>1. Updated(p, a)' = cpu[p].data
      BY <2>1, <2>3, <2>5 DEF Updated, Hit
    <3>2. \A d : ~Unwritten(p, a, d)
      BY <1>3, <2>5, FreshStore
    <3> QED BY <2>2, <2>4, <2>5, <3>1, <3>2
  <2>6. CASE cpu[p].addr # a
    <3>1. Updated(p, a)' = Updated(p, a)
      BY <2>1, <2>6 DEF Updated
    <3>2. ~LoadAnswered(p)
      BY <1>2, <1>3, <2>1 DEF HitAnswered, MissAnswered, WordAnswered, AddsWord
    <3>3. /\ \A d \in Word : Unwritten(p, a, d) => Updated(p, a) = d
          /\ (\A d \in Word : ~Unwritten(p, a, d)) => RecentNext(p, a, Updated(p, a))
      BY <2>3, <3>2 DEF RecentLineInv, KeepsRecent
    <3> QED BY <2>4, <2>6, <3>1, <3>3
  <2> QED BY <2>5, <2>6
<1>4. CASE dc'[p].fsm # "DCACHE_WUPDT" /\ (KeepsStores(p) \/ FlushesWord(p))
  <2>1. \A d : Unwritten(p, a, d)' <=> Unwritten(p, a, d)
    BY <1>4, UnwrittenStep
  <2>2. CASE HasCopy(p, b) /\ ~Conditional(p, a) /\ Updated(p, a)' = Updated(p, a)
    <3>1. /\ \A d \in Word : Unwritten(p, a, d) => Updated(p, a) = d
          /\ (\A d \in Word : ~Unwritten(p, a, d)) => Recent(p, a, Updated(p, a))
      BY <2>2 DEF RecentLineInv
    <3>2. CASE LoadAnswered(p) /\ a = LoadedAddr(p)
      <4>1. ~MissAnswered(p)
        BY <2>2, <3>2 DEF MissAnswered, HasCopy, Filling
      <4>2. ~WordAnswered(p)
        <5>1. tag'[p][Slot(b)] = b
          BY DEF HasCopy
        <5> QED BY <1>1, <3>2, <5>1 DEF WordAnswered
      <4>3. Updated(p, a) = LoadedWord(p)
        BY <1>2, <3>2, <4>1, <4>2 DEF HitAnswered, Updated
      <4>4. RecentNext(p, a, Updated(p, a))
        BY <3>2, <4>3 DEF ReadsRecent
      <4> QED BY <2>1, <2>2, <3>1, <4>4
    <3>3. CASE LoadAnswered(p) => a # LoadedAddr(p)
      <4>1. (\A d \in Word : ~Unwritten(p, a, d)) => RecentNext(p, a, Updated(p, a))
        BY <3>1, <3>3 DEF KeepsRecent
      <4> QED BY <2>1, <2>2, <3>1, <4>1
    <3> QED BY <3>2, <3>3
  <2>3. CASE /\ dc[p].fsm = "DCACHE_MISSUPDT" /\ Fills(p, b) /\ tag[p][Slot(b)] = b
             /\ Updated(p, a)' = rs[p].buf[Offset(a)]
    <3>1. \A d : ~Unwritten(p, a, d)
      <4>1. ~dm[p].pending
        BY <1>1, <2>3 DEF RequestInv
      <4>2. NbDone(p) + 1 .. Len(wb[p].cells) = {}
        BY <4>1, CellTypes
      <4> QED BY <4>1, <4>2 DEF Unwritten
    <3>2. Recent(p, a, rs[p].buf[Offset(a)])
      <4>1. Recent(p, Base(b) + Offset(a), rs[p].buf[Offset(a)])
        <5> HIDE DEF b
        <5> QED BY <1>1, <2>3 DEF RecentFillInv
      <4> QED BY <1>1, <4>1
    <3>3. LoadAnswered(p) /\ a = LoadedAddr(p) => LoadedWord(p) = rs[p].buf[Offset(a)]
      BY <1>2, <2>3 DEF HitAnswered, MissAnswered, WordAnswered
    <3>4. RecentNext(p, a, rs[p].buf[Offset(a)])
      BY <3>2, <3>3 DEF KeepsRecent, ReadsRecent
    <3> QED BY <2>1, <2>3, <3>1, <3>4
  <2> QED BY <1>4, <2>2, <2>3, CopyStays
<1> QED BY <1>3, <1>4, CycleStores

-----------------------------------------------------------------------------
(* The words that are read, through every step of the platform.  A cache   *)
(* that does nothing, and whose processor at most makes a request, keeps   *)
(* its part of the invariant.                                              *)
LEMMA SeenKept ==
  ASSUME NEW o \in Procs, SameCache(o), UNCHANGED ramRegs,
         cpu'[o] = cpu[o] \/ cpu[o] = NoReq, seen'[o] = seen[o], order' = order, SeenInv(o)
  PROVE  SeenInv(o)'
<1>1. sendRsp' = sendRsp /\ cur' = cur
  BY DEF ramRegs
<1>2. \A a \in Addr : \A w : Recent(o, a, w) => RecentNext(o, a, w)
  BY DEF Recent, RecentNext
<1>3. HeldInv(o)'
  BY DEF SeenInv, HeldInv, Waiting, AwaitsOne, SameCache
<1>4. NbSent(o)' = NbSent(o) /\ NbDone(o)' = NbDone(o)
  BY DEF NbSent, NbDone, SameCache
<1>5. \A b \in Blocks : /\ Fills(o, b)' <=> Fills(o, b)
                        /\ HasCopy(o, b)' <=> HasCopy(o, b)
  BY DEF Fills, Filling, HasCopy, SameCache
<1>6. RecentFillInv(o)'
  BY <1>5 DEF SeenInv, RecentFillInv, Recent, SameCache
<1>7. RecentWordInv(o)'
  BY <1>1 DEF SeenInv, RecentWordInv, AwaitsWord, AwaitsOne, Recent, SameCache
<1>8. ASSUME NEW a \in Addr
      PROVE  /\ Conditional(o, a)' <=> Conditional(o, a)
             /\ Updated(o, a)' = Updated(o, a)
             /\ \A d : Unwritten(o, a, d)' <=> Unwritten(o, a, d)
  BY <1>4 DEF Conditional, Updated, Unwritten, SameCache
<1>9. RecentLineInv(o)'
  <2> SUFFICES ASSUME NEW a \in Addr, HasCopy(o, Block(a))', ~Conditional(o, a)'
               PROVE  /\ \A d \in Word : Unwritten(o, a, d)' => Updated(o, a)' = d
                      /\ (\A d \in Word : ~Unwritten(o, a, d)') =>
                           RecentNext(o, a, Updated(o, a)')
    BY DEF RecentLineInv, Recent, RecentNext
  <2>1. PICK b \in Blocks : b = Block(a)
    BY AddrTypes
  <2>2. HasCopy(o, b)'
    BY <2>1 DEF HasCopy, Filling
  <2>3. HasCopy(o, Block(a))
    BY <1>5, <2>1, <2>2
  <2> QED BY <1>2, <1>8, <2>3 DEF SeenInv, RecentLineInv
<1> QED BY <1>3, <1>6, <1>7, <1>9 DEF SeenInv

(* A cycle of a cache. *)
LEMMA SeenCycle ==
  ASSUME PortsOK, OrderInv, \A o \in Procs : DirectoryInv(o) /\ CopyInv(o) /\ SeenInv(o),
         NEW p \in Procs, CacheStep(p)
  PROVE  /\ OrderInv' /\ \A o \in Procs : SeenInv(o)'
         /\ \A o \in Procs, a \in Addr : seen'[o][a] >= seen[o][a]
<1>1. /\ UNCHANGED ramRegs /\ UNCHANGED <<order, mem>> /\ SeenByLoads(p)
      /\ SeenInv(p) /\ ReadInv(p) /\ FillingInv(p) /\ FullInv(p) /\ UpdateInv(p)
  BY DEF CacheStep, ramRegs, DirectoryInv, CopyInv
<1>2. PICK rspval \in BOOLEAN, invval \in BOOLEAN : CacheCycle(p, rspval, invval)
  BY DEF CacheStep
<1>3. LoadAnswered(p) => /\ LoadedAddr(p) \in Addr
                         /\ Recent(p, LoadedAddr(p), LoadedWord(p))
  BY <1>1, LoadRecent
<1>4. /\ OrderInv'
      /\ \A o \in Procs, a \in Addr : seen'[o][a] >= seen[o][a]
      /\ \A o \in Procs \ {p} : seen'[o] = seen[o]
      /\ KeepsRecent(p) /\ ReadsRecent(p)
  <2>1. /\ OrderInv'
        /\ \A o \in Procs, a \in Addr : seen'[o][a] >= seen[o][a]
        /\ \A o \in Procs \ {p} : seen'[o] = seen[o]
        /\ \A a \in Addr : \A w : Recent(p, a, w) /\ (LoadAnswered(p) => a # LoadedAddr(p)) =>
             Recent(p, a, w)'
        /\ LoadAnswered(p) => \A c \in Addr : \A w : c = LoadedAddr(p) /\ w = LoadedWord(p) =>
                                Recent(p, c, w)'
    BY <1>1, <1>3, LoadSeen
  <2>2. \A a \in Addr : \A w : Recent(p, a, w)' <=> RecentNext(p, a, w)
    BY DEF Recent, RecentNext
  <2>3. KeepsRecent(p) /\ ReadsRecent(p)
    BY <2>1, <2>2 DEF KeepsRecent, ReadsRecent
  <2> QED BY <2>1, <2>3
<1>5. SeenInv(p)'
  BY <1>1, <1>2, <1>4, HeldStep, RecentFillStep, RecentWordStep, RecentLineStep DEF SeenInv
<1>6. ASSUME NEW o \in Procs \ {p} PROVE SeenInv(o)'
  <2>1. SameCache(o) /\ cpu'[o] = cpu[o]
    BY <1>2, CycleSame, CycleEffects DEF Untouched
  <2> QED BY <1>1, <1>4, <2>1, SeenKept
<1> QED BY <1>4, <1>5, <1>6

(* What a cycle of the memory controller does to the recent words of p.    *)
RamKeepsRecent(p) ==
  \A a \in Addr : \A w :
    \/ w = mem'[a]
    \/ Recent(p, a, w) /\ (mem'[a] = mem[a] \/ p # cur'.src)
    => RecentNext(p, a, w)

(* The answer to a cache is a word that memory has.                        *)
LEMMA RecentFillRam ==
  ASSUME PortsOK, RamStep, CurInv, NEW p \in Procs, ReadInv(p), FillingInv(p),
         RamKeepsRecent(p), RecentFillInv(p)
  PROVE  RecentFillInv(p)'
<1>1. /\ RamFsm /\ dc' = dc /\ rs' = rs
  BY DEF RamStep, RamCycle, cacheVars
<1> SUFFICES ASSUME NEW b \in Blocks, Fills(p, b)'
             PROVE  /\ rs'[p].fsm = "RSP_DMISS" =>
                         /\ \A x \in Offsets : x < rs'[p].cpt =>
                              RecentNext(p, Base(b) + x, rs'[p].buf[x])
                         /\ rsp'[p] # NoCell =>
                              RecentNext(p, Base(b) + rs'[p].cpt, rsp'[p].data)
                    /\ rs'[p].dOk \/ dc'[p].fsm = "DCACHE_MISSUPDT" =>
                         \A x \in Offsets : RecentNext(p, Base(b) + x, rs'[p].buf[x])
  BY DEF RecentFillInv, Recent, RecentNext
<1>2. Fills(p, b)
  BY <1>1 DEF Fills, Filling
<1>3. /\ CacheTypeOK /\ CacheInv(p) /\ ResponseOK(p) /\ rs[p].cpt \in Nat
  <2>1. CacheTypeOK /\ CacheInv(p)
    BY DEF PortsOK
  <2> QED BY <2>1, RegTypes, SizeFacts, PortFacts DEF RsRegs
<1>4. rs[p].fsm = "RSP_DMISS" /\ rsp[p] # NoCell => rs[p].cpt \in Offsets
  BY <1>3, SizeFacts DEF ResponseOK, Offsets
<1>5. ASSUME NEW a \in Addr, NEW w, Recent(p, a, w) PROVE RecentNext(p, a, w)
  <2>1. mem' = mem \/ p # cur'.src
    <3>1. CASE KeepsMem
      BY <3>1 DEF KeepsMem
    <3>2. ASSUME NEW s \in Procs, Writes(s) PROVE p # cur'.src
      BY <1>2, <3>2, FillerStoresNot DEF Writes
    <3> QED BY <1>1, <3>1, <3>2, WriteShape
  <2> QED BY <1>5, <2>1 DEF RamKeepsRecent
<1>6. /\ rs[p].fsm = "RSP_DMISS" =>
           /\ \A x \in Offsets : x < rs[p].cpt => RecentNext(p, Base(b) + x, rs[p].buf[x])
           /\ rsp[p] # NoCell => RecentNext(p, Base(b) + rs[p].cpt, rsp[p].data)
      /\ rs[p].dOk \/ dc[p].fsm = "DCACHE_MISSUPDT" =>
           \A x \in Offsets : RecentNext(p, Base(b) + x, rs[p].buf[x])
  BY <1>2, <1>4, <1>5, LineAddr DEF RecentFillInv
<1>7. ASSUME rs[p].fsm = "RSP_DMISS", rsp'[p] # NoCell
      PROVE  RecentNext(p, Base(b) + rs[p].cpt, rsp'[p].data)
  <2>1. CASE rsp'[p] = rsp[p]
    BY <1>6, <1>7, <2>1
  <2>2. CASE rsp'[p] # rsp[p]
    <3>1. rsp[p] = NoCell /\ Reading(p) /\ rsp'[p].data = mem[cur.addr]
      BY <1>1, <1>7, <2>2, NextAnswer
    <3>2. mem' = mem
      BY <1>1, <2>2, WriteShape DEF KeepsMem, Writes
    <3>3. cur.addr = Base(b) + rs[p].cpt /\ rs[p].cpt \in Offsets
      BY <1>2, <1>7, <3>1, NextWord
    <3>4. cur.addr \in Addr
      BY <3>3, LineAddr
    <3> QED BY <3>1, <3>2, <3>3, <3>4 DEF RamKeepsRecent
  <2> QED BY <2>1, <2>2
<1> QED BY <1>1, <1>6, <1>7

(* A cycle of the memory controller keeps the words of the lines recent:   *)
(* a store of the cache itself is the oldest that memory had not done, and *)
(* the last word of its address.                                           *)
LEMMA RecentLineRam ==
  ASSUME PortsOK, RamStep, NEW p \in Procs, ReadInv(p), FillingInv(p), StoreSentInv(p),
         RamKeepsRecent(p), RecentLineInv(p)
  PROVE  RecentLineInv(p)'
<1>1. /\ RamFsm /\ UNCHANGED <<dc, tag, line, dm, wb, rq, rs>>
  BY DEF RamStep, RamCycle, cacheVars
<1> SUFFICES ASSUME NEW a \in Addr, HasCopy(p, Block(a))', ~Conditional(p, a)'
             PROVE  /\ \A d \in Word : Unwritten(p, a, d)' => Updated(p, a)' = d
                    /\ (\A d \in Word : ~Unwritten(p, a, d)') => RecentNext(p, a, Updated(p, a)')
  BY DEF RecentLineInv, Recent, RecentNext
<1>2. PICK b \in Blocks : b = Block(a)
  BY AddrTypes
<1>3. HasCopy(p, b) /\ ~Conditional(p, a) /\ Updated(p, a)' = Updated(p, a)
  BY <1>1, <1>2 DEF HasCopy, Filling, Conditional, Updated
<1>4. /\ \A d \in Word : Unwritten(p, a, d) => Updated(p, a) = d
      /\ (\A d \in Word : ~Unwritten(p, a, d)) => Recent(p, a, Updated(p, a))
  BY <1>2, <1>3 DEF RecentLineInv
<1>5. p \in Srcs /\ NocTypeOK /\ mem \in [Addr -> Word]
  BY PortFacts, RamTypes
<1>6. ASSUME NbDone(p)' = NbDone(p), mem'[a] = mem[a] \/ p # cur'.src
      PROVE  /\ \A d \in Word : Unwritten(p, a, d)' => Updated(p, a)' = d
             /\ (\A d \in Word : ~Unwritten(p, a, d)') => RecentNext(p, a, Updated(p, a)')
  <2>1. \A d \in Word : Unwritten(p, a, d)' <=> Unwritten(p, a, d)
    BY <1>1, <1>6 DEF Unwritten
  <2>2. Recent(p, a, Updated(p, a)) => RecentNext(p, a, Updated(p, a))
    BY <1>6 DEF RamKeepsRecent
  <2> QED BY <1>3, <1>4, <2>1, <2>2
<1>7. rs[p].fsm # "RSP_WRITE" \/ cmd'[p] = cmd[p] => NbDone(p)' = NbDone(p)
  BY <1>1 DEF NbDone, NbSent
<1>8. CASE KeepsMem
  <2>1. rs[p].fsm = "RSP_WRITE" => cmd'[p] = cmd[p]
    <3>1. CASE cmd[p] = NoCell
      BY <1>1, <1>5, <3>1, TargetShape
    <3>2. CASE cmd[p] # NoCell
      BY <1>5, <1>8, <3>2, WriteFacts DEF KeepsMem
    <3> QED BY <3>1, <3>2
  <2> QED BY <1>6, <1>7, <1>8, <2>1 DEF KeepsMem
<1>9. ASSUME NEW s \in Procs, Writes(s)
      PROVE  /\ \A d \in Word : Unwritten(p, a, d)' => Updated(p, a)' = d
             /\ (\A d \in Word : ~Unwritten(p, a, d)') => RecentNext(p, a, Updated(p, a)')
  <2>1. /\ mem' = [mem EXCEPT ![cmd[s].addr] = Merge(mem[cmd[s].addr], cmd[s].data, cmd[s].be)]
        /\ cmd' = [cmd EXCEPT ![s] = NoCell] /\ cur'.src = s /\ s \in Srcs
    BY <1>9, PortFacts DEF Writes
  <2>2. cmd[s].addr # a => mem'[a] = mem[a]
    BY <1>5, <2>1
  <2>3. CASE s # p
    <3>1. cmd'[p] = cmd[p]
      BY <1>5, <2>1, <2>3 DEF NocTypeOK
    <3> QED BY <1>6, <1>7, <2>1, <2>3, <3>1
  <2>4. CASE s = p /\ cmd[p].cmd = "STORE_COND"
    <3>1. /\ rs[p].fsm = "RSP_UNC" /\ dm[p].req /\ dc[p].sc /\ rq[p].fsm = "REQ_DWAIT"
          /\ cmd[p].addr = rq[p].addr
      BY <1>9, <2>4, WriteFacts DEF Writes
    <3>2. cmd[p].addr = dc[p].addr
      BY <3>1 DEF ReadInv
    <3>3. RequestInv(p)
      BY DEF PortsOK, CacheInv
    <3>4. Conditional(p, dc[p].addr)
      BY <3>1, <3>3 DEF RequestInv, Waiting, WaitStates, FillingInv, Filling, Conditional
    <3>5. cmd[s].addr # a
      BY <1>3, <2>4, <3>2, <3>4
    <3> QED BY <1>6, <1>7, <2>2, <3>1, <3>5
  <2>5. CASE s = p /\ cmd[p].cmd = "WRITE"
    <3>1. /\ \A d : /\ Unwritten(p, a, d) <=>
                         Unwritten(p, a, d)' \/ (cmd[p].addr = a /\ cmd[p].data = d)
                    /\ cmd[p].addr = a => ~Unwritten(p, a, d)'
          /\ cmd[p].be = Lanes /\ cmd[p].data \in Word
      BY <1>1, <1>9, <2>5, DoneStore
    <3>2. CASE cmd[p].addr # a
      <4>1. Recent(p, a, Updated(p, a)) => RecentNext(p, a, Updated(p, a))
        BY <2>2, <2>5, <3>2 DEF RamKeepsRecent
      <4> QED BY <1>3, <1>4, <3>1, <3>2, <4>1
    <3>3. CASE cmd[p].addr = a
      <4>1. mem'[a] = cmd[p].data
        <5>1. mem'[a] = Merge(mem[a], cmd[p].data, cmd[p].be)
          BY <1>5, <2>1, <2>5, <3>3
        <5> QED BY <3>1, <5>1, WholeWord
      <4>2. Updated(p, a) = cmd[p].data
        BY <1>4, <3>1, <3>3
      <4>3. RecentNext(p, a, Updated(p, a))
        BY <4>1, <4>2 DEF RamKeepsRecent
      <4> QED BY <1>3, <3>1, <3>3, <4>3
    <3> QED BY <3>2, <3>3
  <2> QED BY <1>9, <2>3, <2>4, <2>5 DEF Writes
<1> QED BY <1>1, <1>8, <1>9, WriteShape

(* What the memory controller knows of a word that p awaits.               *)
LEMMA WordAtTarget ==
  ASSUME PortsOK, NEW p \in Procs, ReadInv(p), ~dc[p].sc, rs[p].fsm = "RSP_UNC"
  PROVE  /\ cmd[p] # NoCell =>
              cmd[p].cmd \in {"READ", "LOCKED_READ"} /\ cmd[p].addr = dc[p].addr
         /\ mode = "SIZED_READ" /\ cur.src = p => cellsToGo = 1
         /\ ~(mode = "SIZED_WRITE" /\ cur.src = p)
<1>1. /\ p \in Srcs /\ CacheTypeOK /\ CacheInv(p) /\ Ram!PacketInv /\ cellsToGo \in Nat
      /\ Packets[p] = Packet(p) /\ Ram!Srcs = Srcs
  <2>1. CacheTypeOK /\ CacheInv(p)
    BY DEF PortsOK
  <2> QED BY <2>1, PortFacts, SameMap DEF Ram!TargetTypeOK
<1>2. ~NothingSent(p) => /\ rq[p].fsm = "REQ_DWAIT" /\ dm[p].req /\ DataRspState(p) = "RSP_UNC"
                         /\ rq[p].addr = dc[p].addr
  BY <1>1, BusyFacts DEF ReadInv
<1>3. ~NothingSent(p) => /\ Packet(p).cmd \in {"READ", "LOCKED_READ"}
                         /\ Packet(p).addr = dc[p].addr /\ Packet(p).toRecv = 1
  <2>1. UncachedCmd(p) \in {"READ", "LOCKED_READ"}
    BY DEF UncachedCmd, DataReqState
  <2> QED BY <1>2, <2>1 DEF Packet
<1>4. NothingSent(p) => Packet(p).toRecv = 0
  BY DEF Packet, NoPacket
<1>5. cmd[p] # NoCell =>
        cmd[p].cmd \in {"READ", "LOCKED_READ"} /\ cmd[p].addr = dc[p].addr
  <2>1. cmd[p] # NoCell => ~NothingSent(p)
    BY WriteFacts
  <2> QED BY <1>1, <1>3, <2>1 DEF Ram!PacketInv, Ram!CmdMatches
<1>6. mode = "SIZED_READ" /\ cur.src = p => cellsToGo = 1
  <2> SUFFICES ASSUME mode = "SIZED_READ", cur.src = p PROVE cellsToGo = 1
    OBVIOUS
  <2>1. Ram!ReadingLine(p)
    BY <1>1 DEF Ram!PacketInv, Ram!TargetMatches
  <2>2. Packet(p).toRecv = cellsToGo \/ Packet(p).toRecv = cellsToGo + 1
    BY <1>1, <2>1 DEF Ram!ReadingLine
  <2>3. cellsToGo > 0
    BY <2>1 DEF Ram!ReadingLine
  <2> QED BY <1>1, <1>3, <1>4, <2>2, <2>3
<1>7. ~(mode = "SIZED_WRITE" /\ cur.src = p)
  <2> SUFFICES ASSUME mode = "SIZED_WRITE", cur.src = p PROVE FALSE
    OBVIOUS
  <2>1. Ram!WritingBurst(p)
    BY <1>1 DEF Ram!PacketInv, Ram!TargetMatches
  <2>2. Packet(p).cmd = "WRITE" /\ Packet(p).toRecv = 1
    BY <1>1, <2>1 DEF Ram!WritingBurst
  <2> QED BY <1>3, <1>4, <2>2
<1> QED BY <1>5, <1>6, <1>7

(* The answer to a single word is the word that memory has when the target *)
(* takes the command; only a store of p could then make it an old one.     *)
LEMMA RecentWordRam ==
  ASSUME PortsOK, RamStep, NEW p \in Procs, ReadInv(p), RamKeepsRecent(p), RecentWordInv(p)
  PROVE  RecentWordInv(p)'
<1>1. /\ RamFsm /\ dc' = dc /\ rs' = rs /\ RequestInv(p) /\ CacheTypeOK
  BY DEF RamStep, RamCycle, cacheVars, PortsOK, CacheInv
<1> SUFFICES ASSUME AwaitsWord(p)'
             PROVE  /\ rs'[p].fsm = "RSP_UNC" =>
                         /\ rsp'[p] # NoCell => RecentNext(p, dc'[p].addr, rsp'[p].data)
                         /\ sendRsp' /\ cur'.src = p => RecentNext(p, dc'[p].addr, cur'.data)
                    /\ rs'[p].dOk \/ dc'[p].fsm = "DCACHE_UNC_LL_SC_GO" =>
                         RecentNext(p, dc'[p].addr, rs'[p].unc)
  BY DEF RecentWordInv, Recent, RecentNext
<1>2. AwaitsWord(p) /\ ~dc[p].sc
  BY <1>1 DEF AwaitsWord, AwaitsOne
<1>3. PICK a \in Addr : a = dc[p].addr
  BY <1>1, RegTypes DEF DcRegs
<1>4. /\ rs[p].fsm = "RSP_UNC" =>
           /\ rsp[p] # NoCell => Recent(p, a, rsp[p].data)
           /\ sendRsp /\ cur.src = p => Recent(p, a, cur.data)
      /\ rs[p].dOk \/ dc[p].fsm = "DCACHE_UNC_LL_SC_GO" => Recent(p, a, rs[p].unc)
  BY <1>2, <1>3 DEF RecentWordInv
<1>5. ASSUME NEW w, Recent(p, a, w) PROVE RecentNext(p, a, w)
  <2>1. ~Writes(p)
    <3> SUFFICES ASSUME Writes(p) PROVE FALSE
      OBVIOUS
    <3>1. cmd[p].cmd = "WRITE" /\ dm[p].pending /\ ~dm[p].req
      BY <1>2, WriteFacts DEF Writes
    <3> QED BY <1>1, <1>2, <3>1 DEF AwaitsWord, AwaitsOne, RequestInv, Waiting, WaitStates
  <2>2. mem' = mem \/ p # cur'.src
    BY <1>1, <2>1, WriteShape DEF KeepsMem, Writes
  <2> QED BY <1>5, <2>2 DEF RamKeepsRecent
<1>6. ASSUME rs[p].fsm = "RSP_UNC", rsp'[p] # NoCell PROVE RecentNext(p, a, rsp'[p].data)
  <2>1. p \in Srcs /\ rsp \in [Srcs -> RspCell \cup {NoCell}]
    BY PortFacts DEF NocTypeOK
  <2>2. rsp' = rsp \/ DeliverRsp
    BY <1>1, TargetShape
    DEF ReadsFirst, ServesOther, ReadsNext, ReadsLast, AnswersOne, WritesNext, targetVars
  <2>3. CASE rsp'[p] = rsp[p]
    BY <1>4, <1>5, <1>6, <2>3
  <2>4. CASE DeliverRsp /\ rsp'[p] # rsp[p]
    <3> DEFINE r == [data |-> cur.data, ok |-> cur.ok, error |-> FALSE, eop |-> cur.eop]
    <3>1. PeerAccepted /\ rsp' = [rsp EXCEPT ![cur.src] = r]
      BY <2>4 DEF DeliverRsp
    <3>2. r.data = cur.data
      OBVIOUS
    <3> HIDE DEF r
    <3>3. cur.src = p /\ rsp'[p] = r /\ sendRsp
      BY <2>1, <2>4, <3>1 DEF PeerAccepted
    <3> QED BY <1>4, <1>5, <1>6, <3>2, <3>3
  <2> QED BY <2>2, <2>3, <2>4
<1>7. ASSUME rs[p].fsm = "RSP_UNC", sendRsp', cur'.src = p PROVE RecentNext(p, a, cur'.data)
  <2>1. CASE cur' = cur /\ sendRsp
    BY <1>4, <1>5, <1>7, <2>1
  <2>2. ASSUME NEW s \in Srcs, ReadsFirst(s) \/ ServesOther(s) PROVE RecentNext(p, a, cur'.data)
    <3>1. s = p /\ cmd[p] # NoCell
      BY <1>7, <2>2 DEF ReadsFirst, ServesOther
    <3>2. cmd[p].cmd \in {"READ", "LOCKED_READ"} /\ cmd[p].addr = a
      BY <1>2, <1>3, <1>7, <3>1, WordAtTarget
    <3>3. cur'.data = mem[a] /\ mem' = mem
      BY <2>2, <3>1, <3>2 DEF ReadsFirst, ServesOther
    <3> QED BY <3>3 DEF RamKeepsRecent
  <2>3. ~ReadsNext /\ ~WritesNext /\ ~ReadsLast
    BY <1>2, <1>7, WordAtTarget DEF ReadsNext, WritesNext, ReadsLast
  <2> QED BY <1>1, <1>7, <2>1, <2>2, <2>3, TargetShape DEF targetVars, AnswersOne
<1> QED BY <1>1, <1>3, <1>4, <1>5, <1>6, <1>7

(* A cycle of the memory controller.                                       *)
LEMMA SeenRam ==
  ASSUME PortsOK, OrderInv, CurInv, RamStep,
         \A o \in Procs : DirectoryInv(o) /\ CopyInv(o) /\ SeenInv(o)
  PROVE  /\ OrderInv' /\ \A o \in Procs : SeenInv(o)'
         /\ \A o \in Procs, a \in Addr : seen'[o][a] >= seen[o][a]
<1>1. /\ OrderInv'
      /\ \A o \in Procs, a \in Addr :
           /\ seen'[o][a] >= seen[o][a]
           /\ \A w : Recent(o, a, w) /\ (mem'[a] = mem[a] \/ o # cur'.src) => Recent(o, a, w)'
           /\ \A w : w = mem'[a] => Recent(o, a, w)'
  BY OrderStep
<1>2. ASSUME NEW o \in Procs PROVE RamKeepsRecent(o)
  <2>1. \A a \in Addr : \A w : Recent(o, a, w)' <=> RecentNext(o, a, w)
    BY DEF Recent, RecentNext
  <2> QED BY <1>1, <2>1 DEF RamKeepsRecent
<1>3. ASSUME NEW o \in Procs PROVE SeenInv(o)'
  <2>1. /\ ReadInv(o) /\ FillingInv(o) /\ StoreSentInv(o) /\ HeldInv(o) /\ RecentFillInv(o)
        /\ RecentWordInv(o) /\ RecentLineInv(o)
    BY DEF DirectoryInv, CopyInv, SeenInv
  <2>2. HeldInv(o)'
    <3>1. cpu' = cpu /\ dc' = dc
      BY DEF RamStep, cacheVars
    <3> QED BY <2>1, <3>1 DEF HeldInv, Waiting, AwaitsOne
  <2>3. RecentFillInv(o)' /\ RecentWordInv(o)' /\ RecentLineInv(o)'
    BY <1>2, <2>1, RecentFillRam, RecentWordRam, RecentLineRam
  <2> QED BY <2>2, <2>3 DEF SeenInv
<1> QED BY <1>1, <1>3

(* A request put at a port.                                                *)
LEMMA SeenRequest ==
  ASSUME OrderInv, \A o \in Procs : SeenInv(o),
         UNCHANGED <<ramVars, dc, tag, line, dm, wb, ic, rq, rs, iv, order, seen>>,
         \A o \in Procs : cpu'[o] = cpu[o] \/ cpu[o] = NoReq
  PROVE  /\ OrderInv' /\ \A o \in Procs : SeenInv(o)'
         /\ \A o \in Procs, a \in Addr : seen'[o][a] >= seen[o][a]
<1>1. UNCHANGED ramRegs /\ OrderInv'
  BY DEF ramVars, ramRegs, OrderInv
<1>2. ASSUME NEW o \in Procs PROVE SeenInv(o)'
  <2>1. Packet(o)' = Packet(o)
    BY DEF Packet, NothingSent, MissAddr, UncachedCmd, DataReqState
  <2>2. SameCache(o)
    BY <2>1 DEF SameCache, ramVars, nocVars
  <2> QED BY <1>1, <2>2, SeenKept
<1>3. \A o \in Procs, a \in Addr : seen[o][a] \in Nat
  BY DEF OrderInv
<1> QED BY <1>1, <1>2, <1>3

LEMMA InitSeen == Init => OrderInv /\ \A o \in Procs : SeenInv(o)
<1> SUFFICES ASSUME Init PROVE OrderInv /\ \A o \in Procs : SeenInv(o)
  OBVIOUS
<1>1. OrderInv
  <2>1. /\ order = [a \in Addr |-> <<Zero>>] /\ seen = [p \in Procs |-> [a \in Addr |-> 1]]
        /\ mem = [a \in Addr |-> Zero] /\ Zero \in Word
    BY WordTypes DEF Init, RamInit
  <2> QED BY <2>1 DEF OrderInv
<1> SUFFICES ASSUME NEW o \in Procs PROVE SeenInv(o)
  BY <1>1
<1>2. dc[o].fsm = "DCACHE_IDLE" /\ tag[o] = [y \in Slots |-> NoBlock]
  BY DEF Init, CacheInit
<1>3. HeldInv(o) /\ RecentFillInv(o) /\ RecentWordInv(o)
  BY <1>2 DEF HeldInv, Waiting, WaitStates, AwaitsOne, RecentFillInv, Fills, Filling,
              RecentWordInv, AwaitsWord
<1>4. RecentLineInv(o)
  <2> SUFFICES ASSUME NEW a \in Addr PROVE tag[o][Slot(Block(a))] # Block(a)
    BY DEF RecentLineInv, HasCopy
  <2> QED BY <1>2, AddrTypes, NoBlockAssumption
<1> QED BY <1>3, <1>4 DEF SeenInv

(* Every step keeps the words recent, and no processor goes back.          *)
LEMMA NextSeen ==
  ASSUME PortsOK, OrderInv, CurInv, [Next]_vars,
         \A o \in Procs : DirectoryInv(o) /\ CopyInv(o) /\ SeenInv(o)
  PROVE  /\ OrderInv' /\ \A o \in Procs : SeenInv(o)'
         /\ \A o \in Procs, a \in Addr : seen'[o][a] >= seen[o][a]
<1> DEFINE Goal == /\ OrderInv' /\ \A o \in Procs : SeenInv(o)'
                   /\ \A o \in Procs, a \in Addr : seen'[o][a] >= seen[o][a]
<1>1. CASE RamStep
  BY <1>1, SeenRam
<1>2. ASSUME NEW p \in Procs, CpuRequest(p) PROVE Goal
  <2>1. UNCHANGED <<ramVars, dc, tag, line, dm, wb, ic, rq, rs, iv, order, seen>>
    BY <1>2 DEF CpuRequest
  <2>2. cpu[p] = NoReq /\ \A o \in Procs \ {p} : cpu'[o] = cpu[o]
    BY <1>2 DEF CpuRequest, PortsOK, CacheTypeOK
  <2> QED BY <2>1, <2>2, SeenRequest
<1>3. ASSUME NEW p \in Procs, FetchRequest(p) PROVE Goal
  <2>1. UNCHANGED <<ramVars, dc, tag, line, dm, wb, ic, rq, rs, iv, order, seen>> /\ cpu' = cpu
    BY <1>3 DEF FetchRequest, history
  <2> QED BY <2>1, SeenRequest
<1>4. ASSUME NEW p \in Procs, CacheStep(p) PROVE Goal
  BY <1>4, SeenCycle
<1>5. CASE UNCHANGED vars
  <2>1. UNCHANGED <<ramVars, dc, tag, line, dm, wb, ic, rq, rs, iv, order, seen>> /\ cpu' = cpu
    BY <1>5 DEF vars, cacheVars, history
  <2> QED BY <2>1, SeenRequest
<1> QED BY <1>1, <1>2, <1>3, <1>4, <1>5 DEF Next

(* Whatever the number of caches, the latencies of the networks and the    *)
(* requests of the processors: the values that a processor reads at an     *)
(* address never go back in the order in which memory had them.            *)
THEOREM ReadsGoForward == Spec => ReadsFollowMemoryOrder
<1> DEFINE Inv == /\ PortsOK /\ RequestsOK /\ CurInv /\ OrderInv
                  /\ \A o \in Procs : DirectoryInv(o) /\ CopyInv(o) /\ SeenInv(o)
           Forward == \A p \in Procs, a \in Addr : seen'[p][a] >= seen[p][a]
<1>1. Init => Inv
  BY InitPorts, InitDirectory, InitCopies, InitSeen
<1>2. Inv /\ [Next]_vars => Inv' /\ Forward
  <2> SUFFICES ASSUME Inv, [Next]_vars PROVE Inv' /\ Forward
    OBVIOUS
  <2>1. PortsOK' /\ RequestsOK'
    BY NextPorts
  <2>2. \A o \in Procs : DirectoryInv(o)'
    BY NextDirectory
  <2>3. CurInv' /\ \A o \in Procs : CopyInv(o)'
    BY NextCopies
  <2>4. OrderInv' /\ Forward /\ \A o \in Procs : SeenInv(o)'
    BY NextSeen
  <2> QED BY <2>1, <2>2, <2>3, <2>4
<1> QED BY <1>1, <1>2, PTL DEF Spec, ReadsFollowMemoryOrder
=============================================================================
