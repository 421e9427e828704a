--------------------------- MODULE CcCacheProofs ---------------------------
(***************************************************************************)
(* One cache closed by the most general memory.  FlightInv counts what is  *)
(* in flight, so that the responses are those that RSP_FSM expects, and    *)
(* the invariant of the cache (VciCcCacheProofs) is inductive.  ViewInv    *)
(* adds what the words are, and shows that the cache behind its port       *)
(* implements AtomicMemory.                                                *)
(***************************************************************************)
EXTENDS CcCacheProps, VciCcCacheProofs

LineRsp == {"RSP_DMISS", "RSP_IMISS"}
Arrived == IF rsp[P] = NoCell THEN 0 ELSE 1
Nothing == cmd[P] = NoCell /\ rsp[P] = NoCell /\ reads.left = 0

(* One packet at a time.  A command that has not left is alone; then the   *)
(* cells that are still to come, and the one that waits in rsp, complete   *)
(* what RSP_FSM has counted.                                               *)
FlightInv ==
  /\ cmd[P] # NoCell =>
       /\ rsp[P] = NoCell /\ reads.left = 0
       /\ IF cmd[P].cmd = "WRITE" THEN rs[P].fsm = "RSP_WRITE"
          ELSE /\ rs[P].fsm \in LineRsp \cup {"RSP_UNC"} /\ rs[P].cpt = 0
               /\ cmd[P].cells = IF rs[P].fsm \in LineRsp THEN LineWords ELSE 1
               /\ cmd[P].addr + cmd[P].cells <= NbWords
  /\ rs[P].fsm = "RSP_IDLE" \/ rq[P].fsm \in OneCellStates => Nothing
  /\ rq[P].fsm = "REQ_WRITE" =>
       rsp[P] = NoCell /\ reads.left = 0 /\ (cmd[P] # NoCell => ~cmd[P].eop)
  /\ rq[P].fsm \in {"REQ_IDLE", "REQ_DWAIT", "REQ_IWAIT"} /\ cmd[P] = NoCell =>
       /\ rs[P].fsm \in LineRsp => rs[P].cpt + Arrived + reads.left = LineWords
       /\ rs[P].fsm = "RSP_UNC" => Arrived + reads.left = 1
       /\ rs[P].fsm = "RSP_WRITE" => Arrived = 1 /\ reads.left = 0
  /\ rq[P].fsm = "REQ_DWAIT" /\ cmd[P] # NoCell => cmd[P].eop
  /\ rsp[P] # NoCell => (rsp[P].eop <=> reads.left = 0)

MemTypeOK ==
  /\ memory \in [Addr -> Word] /\ staged \in [Addr -> Word]
  /\ reads \in [addr : Nat, left : Nat] /\ reads.addr + reads.left <= NbWords

PortInv == NocTypeOK /\ CacheTypeOK /\ CacheInv(P) /\ MemTypeOK /\ FlightInv

-----------------------------------------------------------------------------
(* The one cache of this system.                                           *)
LEMMA OneProc == P \in Procs /\ P \in Srcs /\ \A o \in Procs : o = P
BY OneCacheAssumption, NbSrcsAssumption DEF P, Procs, Srcs

(* What is in flight is a response that the cache expects.                 *)
LEMMA FlightIsExpected ==
  ASSUME PortInv
  PROVE  ResponseOK(P)
<1>1. ServiceInv(P) /\ FlightInv /\ P \in Procs /\ rs[P] \in RsRegs /\ rq[P].fsm \in ReqStates
  BY OneProc, RegTypes DEF PortInv, CacheInv, RqRegs
<1>2. reads.left \in Nat /\ rs[P].cpt \in 0 .. LineWords /\ LineWords \in Nat
  BY <1>1, SizeFacts DEF PortInv, MemTypeOK, RsRegs
<1>3. SUFFICES ASSUME rsp[P] # NoCell
               PROVE  /\ rq[P].fsm \in {"REQ_IDLE", "REQ_DWAIT", "REQ_IWAIT"}
                      /\ rs[P].fsm # "RSP_IDLE"
                      /\ rs[P].fsm \in LineRsp =>
                           rs[P].cpt < LineWords /\ (rsp[P].eop <=> rs[P].cpt = LineWords - 1)
                      /\ rs[P].fsm \in {"RSP_WRITE", "RSP_UNC"} => rsp[P].eop
  BY DEF ResponseOK, LineRsp
<1>4. /\ cmd[P] = NoCell /\ Arrived = 1 /\ rs[P].fsm # "RSP_IDLE"
      /\ rq[P].fsm \in {"REQ_IDLE", "REQ_DWAIT", "REQ_IWAIT"}
      /\ rsp[P].eop <=> reads.left = 0
  BY <1>1, <1>3 DEF FlightInv, Nothing, Arrived, ReqStates
<1>5. rs[P].fsm \in LineRsp => rs[P].cpt + 1 + reads.left = LineWords
  BY <1>1, <1>4 DEF FlightInv
<1>6. rs[P].fsm \in LineRsp =>
        rs[P].cpt < LineWords /\ (reads.left = 0 <=> rs[P].cpt = LineWords - 1)
  BY <1>2, <1>5
<1>7. rs[P].fsm \in {"RSP_WRITE", "RSP_UNC"} => reads.left = 0
  BY <1>1, <1>2, <1>4 DEF FlightInv
<1> QED BY <1>4, <1>6, <1>7

(* A cycle of the cache sends or takes what it should.                     *)
LEMMA FlightCycle ==
  ASSUME PortInv, NEW rspval \in BOOLEAN, NEW invval \in BOOLEAN,
         CacheCycle(P, rspval, invval), reads' = reads
  PROVE  FlightInv'
<1>1. /\ CacheTypeOK /\ NocTypeOK /\ CacheInv(P) /\ ServiceInv(P) /\ FlightInv /\ ResponseOK(P)
      /\ P \in Procs /\ P \in Srcs /\ rq[P].fsm \in ReqStates
      /\ rspval => rsp[P] # NoCell
      /\ ReqFsm(P) /\ RspFsm(P, rspval) /\ DCacheFsm(P)
  BY OneProc, RegTypes, FlightIsExpected DEF PortInv, CacheInv, CacheCycle, RqRegs
<1>2. reads.left \in Nat /\ rs[P].cpt \in Nat /\ LineWords \in Nat \ {0} /\ NbWords \in Nat
  <2>1. rs[P] \in RsRegs
    BY <1>1, RegTypes
  <2> QED BY <2>1, SizeFacts, NbWordsAssumption DEF PortInv, MemTypeOK, RsRegs
<1>3. \/ ReqKeeps(P) \/ ReqStartsData(P) \/ ReqStartsWrite(P) \/ ReqStartsInst(P)
      \/ ReqSendsOneCell(P) \/ ReqSendsStore(P) \/ ReqEnds(P)
  BY <1>1, ReqEffect
<1>4. \/ RspKeeps(P, rspval) \/ RspStarts(P)
      \/ RspTakesLineCell(P, rspval) \/ RspTakesOneCell(P, rspval)
  BY <1>1, RspEffect
<1>5. /\ TakeRsp(P) => rsp'[P] = NoCell
      /\ (cmd' = [cmd EXCEPT ![P] = CommandCell(P)]) => cmd'[P] = CommandCell(P)
  BY <1>1 DEF TakeRsp, NocTypeOK
<1>6. /\ DataRspState(P) \in {"RSP_WRITE", "RSP_UNC", "RSP_DMISS"}
      /\ DataReqState(P) \in DataCellStates
      /\ dm[P].req <=> DataRspState(P) \in {"RSP_UNC", "RSP_DMISS"}
  BY <1>1, StateFacts
<1>7. CASE BothIdle(P)
  <2>1. Nothing /\ RspStarts(P) /\ ReqKeeps(P) = FALSE
    BY <1>1, <1>4, <1>7 DEF FlightInv, BothIdle, RspKeeps, RspTakesLineCell, RspTakesOneCell,
       ReqKeeps
  <2>2. /\ cmd'[P] = NoCell /\ rsp'[P] = NoCell
        /\ \/ rq'[P].fsm \in OneCellStates \cup {"REQ_WRITE"}
           \/ rq'[P].fsm = "REQ_IDLE" /\ rs'[P].fsm = "RSP_IDLE"
    <3>1. cmd' = cmd /\ rsp' = rsp
      BY <1>3, <1>7, <2>1 DEF BothIdle, ReqStartsData, ReqStartsWrite, ReqStartsInst,
         ReqSendsOneCell, ReqSendsStore, ReqEnds, OneCellStates, RspStarts
    <3>2. CASE ReqStartsData(P) \/ ReqStartsWrite(P)
      BY <1>6, <2>1, <3>1, <3>2 DEF ReqStartsData, ReqStartsWrite, DataCellStates, Nothing
    <3>3. CASE ReqStartsInst(P)
      BY <2>1, <3>1, <3>3 DEF ReqStartsInst, RspStarts, OneCellStates, Nothing
    <3> QED BY <1>3, <1>7, <2>1, <3>2, <3>3
            DEF BothIdle, ReqSendsOneCell, ReqSendsStore, ReqEnds, OneCellStates
  <2> QED BY <2>1, <2>2 DEF FlightInv, Nothing, OneCellStates, LineRsp
<1>8. CASE rq[P].fsm \in OneCellStates
  <2>1. /\ Nothing /\ ~rspval
        /\ rs[P].cpt = 0 /\ rs[P].fsm \in LineRsp \cup {"RSP_UNC"}
        /\ rs[P].fsm \in LineRsp <=> rq[P].fsm \in {"REQ_IMISS", "REQ_DMISS"}
    <3>1. Nothing /\ ~rspval
      BY <1>1, <1>8 DEF FlightInv, Nothing
    <3>2. CASE rq[P].fsm = "REQ_IMISS"
      BY <1>1, <3>1, <3>2 DEF ServiceInv, LineRsp
    <3>3. CASE rq[P].fsm \in DataCellStates
      <4>1. /\ dm[P].req /\ rq[P].fsm = DataReqState(P) /\ rs[P].fsm = DataRspState(P)
            /\ rs[P].cpt = 0
        BY <1>1, <3>3 DEF ServiceInv
      <4>2. DataRspState(P) = "RSP_DMISS" <=> DataReqState(P) = "REQ_DMISS"
        <5>1. CASE dc[P].ll \/ dc[P].sc
          BY <4>1, <5>1 DEF DataRspState, DataReqState
        <5>2. CASE ~dc[P].ll /\ ~dc[P].sc
          BY <4>1, <5>2 DEF DataRspState, DataReqState
        <5> QED BY <5>1, <5>2
      <4> QED BY <1>6, <3>1, <3>3, <4>1, <4>2 DEF LineRsp, DataCellStates
    <3> QED BY <1>8, <3>2, <3>3 DEF DataCellStates
  <2>2. ReqSendsOneCell(P)
    BY <1>3, <1>8, <2>1 DEF Nothing, ReqKeeps, BothIdle, ReqStartsData, ReqStartsWrite,
       StartsWrite, ReqStartsInst, ReqSendsStore, ReqEnds, OneCellStates
  <2>3. rsp'[P] = NoCell /\ rs'[P].fsm = rs[P].fsm /\ rs'[P].cpt = 0
    BY <1>4, <1>8, <2>1 DEF RspKeeps, RspStarts, RspTakesLineCell, RspTakesOneCell, BothIdle,
       OneCellStates, Nothing
  <2> DEFINE c == CommandCell(P)
  <2>4. /\ c \in CmdCell /\ c.cmd # "WRITE" /\ c.eop
        /\ c.cells = IF rs[P].fsm \in LineRsp THEN LineWords ELSE 1
        /\ c.addr = CommandAddr(P)
    BY <1>1, <1>8, <2>1, CommandFacts DEF OneCellStates
  <2>5. c.addr + c.cells <= NbWords
    <3>1. ic[P].addr \in Addr /\ rq[P].addr \in Addr
      <4>1. ic[P] \in IcRegs /\ rq[P] \in RqRegs
        BY <1>1, RegTypes
      <4> QED BY <4>1 DEF IcRegs, RqRegs
    <3>2. Base(Block(ic[P].addr)) + LineWords <= NbWords
          /\ Base(Block(rq[P].addr)) + LineWords <= NbWords
      BY <3>1, AddrTypes
    <3>3. rq[P].addr + 1 <= NbWords
      BY <1>2, <3>1 DEF Addr
    <3> HIDE DEF c
    <3> QED BY <2>1, <2>4, <3>2, <3>3 DEF CommandAddr
  <2>6. cmd'[P] = c /\ c # NoCell
    BY <1>5, <2>2, <2>4, NoCellAssumption DEF ReqSendsOneCell
  <2>7. rq'[P].fsm \in {"REQ_DWAIT", "REQ_IWAIT"}
    BY <2>2 DEF ReqSendsOneCell
  <2> HIDE DEF c
  <2> QED BY <2>1, <2>3, <2>4, <2>5, <2>6, <2>7
          DEF FlightInv, Nothing, OneCellStates, LineRsp
<1>9. CASE rq[P].fsm = "REQ_WRITE"
  <2>1. /\ rs[P].fsm = "RSP_WRITE" /\ ~rspval /\ rsp[P] = NoCell /\ reads.left = 0
        /\ cmd[P] # NoCell => ~cmd[P].eop /\ cmd[P].cmd = "WRITE"
    <3>1. dm[P].flush /\ ~dm[P].req /\ rs[P].fsm = DataRspState(P)
      BY <1>1, <1>9 DEF CacheInv, ServiceInv, RequestInv
    <3> QED BY <1>1, <1>9, <3>1 DEF FlightInv, DataRspState, LineRsp
  <2>2. rsp'[P] = NoCell /\ rs'[P].fsm = "RSP_WRITE"
    BY <1>4, <1>9, <2>1 DEF RspKeeps, RspStarts, RspTakesLineCell, RspTakesOneCell, BothIdle
  <2>3. CASE ReqKeeps(P)
    BY <1>9, <2>1, <2>2, <2>3 DEF ReqKeeps, FlightInv, Nothing, OneCellStates, LineRsp
  <2>4. CASE ReqSendsStore(P)
    <3> DEFINE c == CommandCell(P)
    <3>1. c \in CmdCell /\ c.cmd = "WRITE" /\ (c.eop <=> LastCell(P))
      BY <1>1, <1>9, CommandFacts
    <3>2. cmd'[P] = c /\ c # NoCell
      BY <1>5, <2>4, <3>1, NoCellAssumption DEF ReqSendsStore
    <3>3. rq'[P].fsm = IF LastCell(P) THEN "REQ_DWAIT" ELSE "REQ_WRITE"
      BY <2>4 DEF ReqSendsStore
    <3> HIDE DEF c
    <3> QED BY <2>1, <2>2, <3>1, <3>2, <3>3
            DEF FlightInv, Nothing, OneCellStates, LineRsp
  <2> QED BY <1>3, <1>9, <2>3, <2>4 DEF BothIdle, ReqStartsData, ReqStartsWrite,
       StartsWrite, ReqStartsInst, ReqSendsOneCell, ReqEnds, OneCellStates
<1>10. CASE /\ rq[P].fsm \in {"REQ_IDLE", "REQ_DWAIT", "REQ_IWAIT"}
            /\ rq[P].fsm = "REQ_IDLE" => rs[P].fsm # "RSP_IDLE"
  <2>1. /\ cmd' = cmd
        /\ rq'[P].fsm = "REQ_IDLE" \/ rq'[P].fsm = rq[P].fsm
    BY <1>3, <1>10 DEF ReqKeeps, BothIdle, ReqStartsData, ReqStartsWrite, StartsWrite,
       ReqStartsInst, ReqSendsOneCell, ReqSendsStore, ReqEnds, OneCellStates
  <2>2. CASE RspKeeps(P, rspval)
    <3>1. rsp' = rsp /\ rs'[P].fsm = rs[P].fsm /\ rs'[P].cpt = rs[P].cpt
      BY <2>2 DEF RspKeeps
    <3> QED BY <1>1, <1>10, <2>1, <3>1
            DEF FlightInv, Nothing, Arrived, OneCellStates, LineRsp
  <2>3. CASE RspTakesLineCell(P, rspval)
    <3>1. /\ rs[P].fsm \in LineRsp /\ rsp[P] # NoCell /\ rsp'[P] = NoCell
          /\ rs'[P].cpt = rs[P].cpt + 1
          /\ rs'[P].fsm = IF LastOfLine(P) THEN "RSP_IDLE" ELSE rs[P].fsm
      BY <1>1, <1>5, <2>3 DEF RspTakesLineCell, LineRsp
    <3>2. cmd[P] = NoCell /\ rs[P].cpt + 1 + reads.left = LineWords
      BY <1>1, <1>10, <3>1 DEF FlightInv, Arrived
    <3>3. /\ LastOfLine(P) => reads.left = 0
          /\ (rs[P].cpt + 1) + 0 + reads.left = LineWords
      BY <1>2, <3>2 DEF LastOfLine
    <3> QED BY <1>10, <2>1, <3>1, <3>2, <3>3
            DEF FlightInv, Nothing, Arrived, OneCellStates, LineRsp
  <2>4. CASE RspTakesOneCell(P, rspval)
    <3>1. /\ rs[P].fsm \in {"RSP_WRITE", "RSP_UNC"} /\ rsp[P] # NoCell /\ rsp'[P] = NoCell
          /\ rs'[P].fsm = "RSP_IDLE"
      BY <1>1, <1>5, <2>4 DEF RspTakesOneCell
    <3>2. cmd[P] = NoCell /\ reads.left = 0
      BY <1>1, <1>2, <1>10, <3>1 DEF FlightInv, Arrived
    <3> QED BY <1>10, <2>1, <3>1, <3>2
            DEF FlightInv, Nothing, Arrived, OneCellStates, LineRsp
  <2> QED BY <1>4, <1>10, <2>2, <2>3, <2>4 DEF RspStarts, BothIdle
<1> QED BY <1>1, <1>7, <1>8, <1>9, <1>10 DEF ReqStates, BothIdle

-----------------------------------------------------------------------------
LEMMA PortInit == Init => PortInv
<1> SUFFICES ASSUME Init PROVE PortInv
  OBVIOUS
<1>1. NocTypeOK /\ CacheTypeOK /\ CacheInv(P) /\ P \in Srcs /\ P \in Procs
  BY CacheInitTyped, OneProc DEF Init
<1>2. cmd[P] = NoCell /\ rsp[P] = NoCell /\ reads.left = 0 /\ reads.addr = 0
      /\ rq[P].fsm = "REQ_IDLE" /\ rs[P].fsm = "RSP_IDLE"
  BY <1>1 DEF Init, NocInit, CacheInit
<1>3. FlightInv
  BY <1>2 DEF FlightInv, Nothing, LineRsp
<1>4. MemTypeOK
  BY WordTypes, NbWordsAssumption DEF Init, MemTypeOK
<1> QED BY <1>1, <1>3, <1>4 DEF PortInv

(* Every step keeps the invariant.                                         *)
LEMMA PortNext == PortInv /\ [Next]_vars => PortInv'
<1> SUFFICES ASSUME PortInv, [Next]_vars PROVE PortInv'
  OBVIOUS
<1>1. /\ NocTypeOK /\ CacheTypeOK /\ CacheInv(P) /\ MemTypeOK /\ FlightInv /\ ServiceInv(P)
      /\ P \in Procs /\ P \in Srcs /\ \A o \in Procs : o = P
  BY OneProc DEF PortInv, CacheInv
<1>2. /\ reads.left \in Nat /\ reads.addr \in Nat /\ LineWords \in Nat \ {0}
      /\ rs[P].cpt \in Nat /\ rq[P].fsm \in ReqStates /\ NbWords \in Nat
  <2>1. rs[P] \in RsRegs /\ rq[P] \in RqRegs
    BY <1>1, RegTypes
  <2> QED BY <1>1, <2>1, SizeFacts, NbWordsAssumption DEF MemTypeOK, RsRegs, RqRegs
<1>3. ASSUME UNCHANGED <<dc, dm, ic, rq, rs, wb, iv>>,
             iv[P].fsm = "INV_CMD" => invCmd'[P] # NoBlock
      PROVE  CacheInv(P)'
  BY <1>1, <1>3 DEF CacheInv, RequestInv, ServiceInv, BufferInv, ContiguousInv, InvalInv,
     Waiting, DataRspState, DataReqState
<1>4. CASE CpuRequest
  <2>1. cpu' \in [Procs -> DataReq \cup {NoReq}]
    <3>1. PICK t \in types \cap DataTypes, a \in Used : \E be \in ByteEnables(t, a), d \in StoreData(t) :
            cpu' = [cpu EXCEPT ![P] = [type |-> t, addr |-> a, data |-> d, be |-> be]]
      BY <1>4 DEF CpuRequest
    <3>2. PICK be \in ByteEnables(t, a), d \in StoreData(t) :
            cpu' = [cpu EXCEPT ![P] = [type |-> t, addr |-> a, data |-> d, be |-> be]]
      BY <3>1
    <3>3. t \in DataTypes /\ a \in Addr
      BY <3>1, UsedAssumption
    <3>4. be \in (SUBSET Lanes) \ {{}}
      BY <3>2, LanesAssumption DEF ByteEnables
    <3>5. d \in Word
      BY <3>2, WordTypes DEF StoreData, Word
    <3> DEFINE q == [type |-> t, addr |-> a, data |-> d, be |-> be]
    <3>6. q \in DataReq
      BY <3>3, <3>4, <3>5 DEF DataReq
    <3>7. cpu' = [cpu EXCEPT ![P] = q]
      BY <3>2
    <3> HIDE DEF q
    <3> QED BY <1>1, <3>6, <3>7 DEF CacheTypeOK
  <2>2. /\ UNCHANGED <<nocVars, fetch, dc, tag, line, dm, wb, ic, itag, rq, rs, iv, memVars>>
    BY <1>4 DEF CpuRequest
  <2>3. CacheTypeOK'
    BY <1>1, <2>1, <2>2 DEF CacheTypeOK
  <2>4. CacheInv(P)'
    BY <1>1, <1>3, <2>2 DEF CacheInv, InvalInv, nocVars
  <2> QED BY <1>1, <2>2, <2>3, <2>4
          DEF PortInv, NocTypeOK, MemTypeOK, FlightInv, Nothing, Arrived, nocVars, memVars
<1>5. CASE FetchRequest
  <2>1. fetch' \in [Procs -> Addr \cup {NoReq}]
    BY <1>1, <1>5, UsedAssumption DEF FetchRequest, CacheTypeOK
  <2>2. /\ UNCHANGED <<nocVars, cpu, dc, tag, line, dm, wb, ic, itag, rq, rs, iv, memVars>>
    BY <1>5 DEF FetchRequest
  <2>3. CacheTypeOK'
    BY <1>1, <2>1, <2>2 DEF CacheTypeOK
  <2>4. CacheInv(P)'
    BY <1>1, <1>3, <2>2 DEF CacheInv, InvalInv, nocVars
  <2> QED BY <1>1, <2>2, <2>3, <2>4
          DEF PortInv, NocTypeOK, MemTypeOK, FlightInv, Nothing, Arrived, nocVars, memVars
<1>6. CASE CacheStep
  <2>1. PICK rspval \in BOOLEAN, invval \in BOOLEAN : CacheCycle(P, rspval, invval)
    BY <1>6 DEF CacheStep
  <2>2. UNCHANGED memVars
    BY <1>6 DEF CacheStep
  <2>3. FlightInv'
    BY <2>1, <2>2, FlightCycle DEF memVars
  <2>4. CacheTypeOK' /\ CacheInv(P)'
    BY <1>1, <2>1, FlightIsExpected, CycleKeepsCaches
  <2>5. NocTypeOK'
    BY <1>1, <2>1, NocTypes
  <2> QED BY <1>1, <2>2, <2>3, <2>4, <2>5 DEF PortInv, MemTypeOK, memVars
<1>7. CASE MemTakeRead
  <2>1. /\ cmd[P] # NoCell /\ cmd[P].cmd # "WRITE"
        /\ reads' = [addr |-> cmd[P].addr, left |-> cmd[P].cells]
        /\ cmd' = [cmd EXCEPT ![P] = NoCell]
        /\ UNCHANGED <<rsp, invCmd, invRsp, cacheVars, memory, staged>>
    BY <1>7 DEF MemTakeRead
  <2>2. /\ cmd[P].cells \in Nat \ {0} /\ cmd[P].addr \in Nat
    <3>1. cmd[P] \in CmdCell
      BY <1>1, <2>1 DEF NocTypeOK
    <3>2. Addr \subseteq Nat
      BY NbWordsAssumption DEF Addr
    <3> QED BY <3>1, <3>2 DEF CmdCell
  <2>3. /\ rsp[P] = NoCell /\ reads.left = 0
        /\ rs[P].fsm \in LineRsp \cup {"RSP_UNC"} /\ rs[P].cpt = 0
        /\ cmd[P].cells = IF rs[P].fsm \in LineRsp THEN LineWords ELSE 1
        /\ cmd[P].addr + cmd[P].cells <= NbWords
    BY <1>1, <2>1 DEF FlightInv
  <2>4. rq[P].fsm \notin OneCellStates \cup {"REQ_WRITE"}
    <3>1. rq[P].fsm = "REQ_WRITE" => rs[P].fsm = "RSP_WRITE"
      BY <1>1 DEF CacheInv, ServiceInv, RequestInv, DataRspState
    <3> QED BY <1>1, <2>1, <2>3, <3>1 DEF FlightInv, Nothing, LineRsp
  <2>5. NocTypeOK' /\ cmd'[P] = NoCell
    BY <1>1, <2>1 DEF NocTypeOK
  <2>6. MemTypeOK'
    BY <1>1, <2>1, <2>2, <2>3 DEF MemTypeOK
  <2>7. reads'.left = cmd[P].cells
    BY <2>1
  <2>8. FlightInv'
    BY <1>2, <2>1, <2>3, <2>4, <2>5, <2>7 DEF FlightInv, Nothing, Arrived, LineRsp, cacheVars
  <2>9. CacheTypeOK' /\ CacheInv(P)'
    BY <1>1, <1>3, <2>1 DEF CacheTypeOK, cacheVars, CacheInv, InvalInv
  <2> QED BY <2>5, <2>6, <2>8, <2>9 DEF PortInv
<1>8. CASE MemAnswerRead
  <2>1. PICK e \in BOOLEAN : Respond(IF e THEN Zero ELSE memory[reads.addr], e, reads.left = 1)
    BY <1>8 DEF MemAnswerRead, Errors
  <2>2. /\ reads.left > 0 /\ rsp[P] = NoCell
        /\ reads' = [addr |-> reads.addr + 1, left |-> reads.left - 1]
        /\ UNCHANGED <<cmd, invCmd, invRsp, cacheVars, memory, staged>>
    BY <1>8 DEF MemAnswerRead
  <2> DEFINE d == IF e THEN Zero ELSE memory[reads.addr]
             l == reads.left = 1
             c == [data |-> d, ok |-> FALSE, error |-> e, eop |-> l]
  <2>3. rsp' = [rsp EXCEPT ![P] = c]
    BY <2>1 DEF Respond
  <2>4. d \in Word
    <3>1. reads.addr \in Addr
      BY <1>1, <1>2, <2>2 DEF MemTypeOK, Addr
    <3> QED BY <1>1, <3>1, WordTypes DEF MemTypeOK
  <2>5. c \in RspCell /\ c.eop = l
    <3>1. l \in BOOLEAN
      OBVIOUS
    <3> HIDE DEF d, l
    <3> QED BY <2>4, <3>1 DEF RspCell
  <2>6. c # NoCell
    BY <2>5, NoCellAssumption
  <2>7. reads'.left = reads.left - 1 /\ (c.eop <=> reads'.left = 0) /\ reads'.left \in Nat
    <3>1. reads'.left = reads.left - 1
      BY <2>2
    <3>2. c.eop <=> reads.left = 1
      BY <2>5
    <3> HIDE DEF c, d, l
    <3> QED BY <1>2, <2>2, <3>1, <3>2
  <2> HIDE DEF c
  <2>8. NocTypeOK' /\ rsp'[P] = c
    BY <1>1, <2>2, <2>3, <2>5 DEF NocTypeOK
  <2>9. MemTypeOK'
    BY <1>1, <1>2, <2>2 DEF MemTypeOK
  <2>10. /\ cmd[P] = NoCell /\ rs[P].fsm # "RSP_IDLE"
         /\ rq[P].fsm \notin OneCellStates \cup {"REQ_WRITE"} /\ Arrived = 0
         /\ rq[P].fsm \in {"REQ_IDLE", "REQ_DWAIT", "REQ_IWAIT"}
    BY <1>1, <1>2, <2>2 DEF FlightInv, Nothing, ReqStates, Arrived
  <2>11. /\ rs[P].fsm \in LineRsp => rs[P].cpt + 1 + reads'.left = LineWords
         /\ rs[P].fsm = "RSP_UNC" => 1 + reads'.left = 1
         /\ rs[P].fsm # "RSP_WRITE"
    <3>1. /\ rs[P].fsm \in LineRsp => rs[P].cpt + 0 + reads.left = LineWords
          /\ rs[P].fsm = "RSP_UNC" => 0 + reads.left = 1
          /\ rs[P].fsm # "RSP_WRITE"
      BY <1>1, <2>2, <2>10 DEF FlightInv
    <3> QED BY <1>2, <2>7, <3>1
  <2>12. FlightInv'
    BY <2>2, <2>6, <2>7, <2>8, <2>10, <2>11 DEF FlightInv, Nothing, Arrived, cacheVars
  <2>13. CacheTypeOK' /\ CacheInv(P)'
    BY <1>1, <1>3, <2>2 DEF CacheTypeOK, cacheVars, CacheInv, InvalInv
  <2> QED BY <2>8, <2>9, <2>12, <2>13 DEF PortInv
<1>9. CASE MemTakeWrite
  <2> DEFINE c    == cmd[P]
             next == [staged EXCEPT ![c.addr] = Merge(staged[c.addr], c.data, c.be)]
  <2>1. /\ cmd[P] # NoCell /\ cmd[P].cmd = "WRITE" /\ cmd' = [cmd EXCEPT ![P] = NoCell]
        /\ UNCHANGED <<invCmd, invRsp, cacheVars, reads>>
    BY <1>9 DEF MemTakeWrite
  <2>2. \/ ~c.eop /\ staged' = next /\ rsp' = rsp /\ memory' = memory
        \/ /\ c.eop
           /\ \E e \in BOOLEAN : Respond(Zero, e, TRUE) /\ memory' = IF e THEN memory ELSE next
           /\ staged' = memory'
    BY <1>9 DEF MemTakeWrite, Errors
  <2>3. next \in [Addr -> Word]
    <3>1. c \in CmdCell
      BY <1>1, <2>1 DEF NocTypeOK
    <3>2. c.addr \in Addr /\ c.data \in Word
      BY <3>1 DEF CmdCell
    <3> QED BY <1>1, <3>2, WordTypes DEF MemTypeOK
  <2> HIDE DEF next
  <2>4. MemTypeOK'
    BY <1>1, <2>1, <2>2, <2>3 DEF MemTypeOK
  <2>5. rsp[P] = NoCell /\ reads.left = 0 /\ rs[P].fsm = "RSP_WRITE"
    BY <1>1, <2>1 DEF FlightInv
  <2>6. IF c.eop THEN rq[P].fsm = "REQ_DWAIT" ELSE rq[P].fsm = "REQ_WRITE"
    BY <1>1, <1>2, <2>1, <2>5 DEF FlightInv, Nothing, ServiceInv, ReqStates
  <2>7. cmd'[P] = NoCell
    BY <1>1, <2>1 DEF NocTypeOK
  <2>8. CacheTypeOK' /\ CacheInv(P)'
    BY <1>1, <1>3, <2>1 DEF CacheTypeOK, cacheVars, CacheInv, InvalInv
  <2>9. CASE ~c.eop
    <3>1. rsp' = rsp
      BY <2>2, <2>9
    <3>2. NocTypeOK'
      BY <1>1, <2>1, <3>1 DEF NocTypeOK
    <3>3. FlightInv'
      BY <2>1, <2>5, <2>6, <2>7, <2>9, <3>1 DEF FlightInv, Nothing, cacheVars, OneCellStates
    <3> QED BY <2>4, <2>8, <3>2, <3>3 DEF PortInv
  <2>10. CASE c.eop
    <3>1. PICK e \in BOOLEAN : Respond(Zero, e, TRUE)
      BY <2>2, <2>10
    <3> DEFINE a == [data |-> Zero, ok |-> FALSE, error |-> e, eop |-> TRUE]
    <3>2. a \in RspCell /\ a.eop
      BY WordTypes DEF RspCell
    <3>3. rsp' = [rsp EXCEPT ![P] = a]
      BY <3>1 DEF Respond
    <3>4. a # NoCell
      BY <3>2, NoCellAssumption
    <3> HIDE DEF a
    <3>5. NocTypeOK' /\ rsp'[P] = a
      BY <1>1, <2>1, <3>2, <3>3 DEF NocTypeOK
    <3>6. FlightInv'
      BY <2>1, <2>5, <2>6, <2>7, <2>10, <3>2, <3>4, <3>5
         DEF FlightInv, Nothing, Arrived, cacheVars, OneCellStates, LineRsp
    <3> QED BY <2>4, <2>8, <3>5, <3>6 DEF PortInv
  <2> QED BY <2>9, <2>10
<1>10. CASE MemInval
  <2>1. PICK b \in {Block(a) : a \in Used} : invCmd' = [invCmd EXCEPT ![P] = b]
    BY <1>10 DEF MemInval
  <2>2. UNCHANGED <<cmd, rsp, invRsp, cacheVars, memVars>>
    BY <1>10 DEF MemInval
  <2>3. b \in Blocks /\ b # NoBlock
    BY <2>1, UsedAssumption, NoBlockAssumption DEF Blocks
  <2>4. NocTypeOK' /\ invCmd'[P] # NoBlock
    BY <1>1, <2>1, <2>2, <2>3 DEF NocTypeOK
  <2>5. CacheTypeOK' /\ CacheInv(P)'
    BY <1>1, <1>3, <2>2, <2>4 DEF CacheTypeOK, cacheVars
  <2> QED BY <1>1, <2>2, <2>4, <2>5
          DEF PortInv, MemTypeOK, FlightInv, Nothing, Arrived, cacheVars, memVars
<1>11. CASE MemTakeAck
  <2>1. UNCHANGED <<cmd, rsp, invCmd, cacheVars, memVars>> /\ invRsp' = [invRsp EXCEPT ![P] = FALSE]
    BY <1>11 DEF MemTakeAck
  <2>2. NocTypeOK'
    BY <1>1, <2>1 DEF NocTypeOK
  <2>3. CacheTypeOK' /\ CacheInv(P)'
    BY <1>1, <1>3, <2>1 DEF CacheTypeOK, cacheVars, CacheInv, InvalInv
  <2> QED BY <1>1, <2>1, <2>2, <2>3
          DEF PortInv, MemTypeOK, FlightInv, Nothing, Arrived, cacheVars, memVars
<1>12. CASE UNCHANGED vars
  <2>1. UNCHANGED <<nocVars, cacheVars, memVars>>
    BY <1>12 DEF vars
  <2>2. CacheTypeOK' /\ CacheInv(P)'
    BY <1>1, <1>3, <2>1 DEF CacheTypeOK, cacheVars, CacheInv, InvalInv, nocVars
  <2> QED BY <1>1, <2>1, <2>2
          DEF PortInv, NocTypeOK, MemTypeOK, FlightInv, Nothing, Arrived, cacheVars, memVars, nocVars
<1> QED BY <1>4, <1>5, <1>6, <1>7, <1>8, <1>9, <1>10, <1>11, <1>12 DEF Next

(* The registers of the cache, the cells in flight and the packet under    *)
(* way stay in their types and consistent with each other, whatever the    *)
(* memory refuses and invalidates.                                         *)
THEOREM PortIsConsistent == Spec => []PortInv
BY PortInit, PortNext, PTL DEF Spec

(* A refused packet is sent again from its first cell: the write buffer    *)
(* agrees with BURST_SIZE and REQ_CPT at every cell of every packet.       *)
THEOREM PacketsAreReplayed == Spec => []BufferMatchesPacket
<1>1. PortInv => BufferMatchesPacket
  BY OneProc, CacheConsistent DEF PortInv, BufferMatchesPacket
<1> QED BY <1>1, PortIsConsistent, PTL
-----------------------------------------------------------------------------
(***************************************************************************)
(* The cache behind the port implements the atomic memory.  Latest(a) is   *)
(* what the stores have left at a; the invariant says where that word is:  *)
(* ViewInv ties the FIFO_INPUT cell, the write buffer and the packet on    *)
(* the network to memory, and memory to what loads bring back.             *)
(***************************************************************************)

(* Loads and extensions name whole words; SC is not among the requests.    *)
AskInv ==
  /\ types \in Workloads
  /\ cpu[P] # NoReq =>
       /\ cpu[P].type # "DATA_SC"
       /\ cpu[P].be = Lanes \/ (cpu[P].type = "DATA_WRITE" /\ cpu[P].addr \in PartialAt)

Loading == Waiting(P) \/ dc[P].fsm \in {"DCACHE_MISSUPDT", "DCACHE_UNC_LL_SC_GO"}

(* The request that DCACHE_FSM saved is the one the processor still holds. *)
LoadInv ==
  Loading =>
    /\ cpu[P] # NoReq /\ cpu[P].type \in {"DATA_READ", "DATA_LL"}
    /\ dc[P].addr = cpu[P].addr /\ ~dc[P].sc
    /\ Filling(P) <=> ~dc[P].unc /\ ~dc[P].ll

(* A word stored in part is alone in its packet.                           *)
StoreInv ==
  dm[P].pending =>
    /\ dm[P].wf = dm[P].wl
    /\ ~dm[P].flush => (dm[P].first <=> Len(wb[P].cells) = 0)
    /\ dm[P].wf # Lanes => Len(wb[P].cells) <= IF dm[P].flush THEN 1 ELSE 0
    /\ dm[P].flush /\ ~rs[P].dOk => wb[P].cells[Len(wb[P].cells)].data = dm[P].data

(* The write packet: the cell on the network is the last one sent, staged  *)
(* has the cells that memory took, and an acknowledged packet is in memory.*)
Writing == cmd[P] # NoCell /\ cmd[P].cmd = "WRITE"
Sent    == IF rq[P].fsm = "REQ_WRITE" \/ Writing THEN rq[P].cpt ELSE 0
Taken   == IF Writing THEN Sent - 1 ELSE Sent
Holds(a, d, be) == memory[a] = Merge(memory[a], d, be)

PacketInv ==
  /\ Writing =>
       /\ Sent \in 1 .. Len(wb[P].cells)
       /\ cmd[P].addr = wb[P].cells[Sent].addr /\ cmd[P].data = wb[P].cells[Sent].data
       /\ cmd[P].be = dm[P].wf /\ (cmd[P].eop <=> Sent = Len(wb[P].cells))
  /\ Taken \in 0 .. Len(wb[P].cells)
  /\ \A a \in Addr :
       /\ (\A i \in 1 .. Taken : wb[P].cells[i].addr # a) => staged[a] = memory[a]
       /\ \A i \in 1 .. Taken : wb[P].cells[i].addr = a =>
            staged[a] = Merge(memory[a], wb[P].cells[i].data, dm[P].wf)
  /\ rs[P].fsm = "RSP_WRITE" /\ rsp[P] # NoCell /\ ~rsp[P].error =>
       \A i \in 1 .. Len(wb[P].cells) :
         Holds(wb[P].cells[i].addr, wb[P].cells[i].data, dm[P].wf)
  /\ dm[P].flush /\ rs[P].dOk => Holds(dm[P].addr, dm[P].data, dm[P].wl)

(* What loads bring back from memory.                                      *)
LineBase == Base(Block(dc[P].addr))
HasLine  == \A x \in Offsets : rs[P].buf[x] = memory[LineBase + x]
AnswerInv ==
  /\ rs[P].fsm = "RSP_DMISS" =>
       /\ cmd[P] # NoCell => cmd[P].addr = LineBase
       /\ reads.left > 0 => reads.addr = LineBase + rs[P].cpt + Arrived
       /\ rsp[P] # NoCell /\ ~rsp[P].error => rsp[P].data = memory[LineBase + rs[P].cpt]
       /\ ~rs[P].dRetry => \A x \in Offsets : x < rs[P].cpt => rs[P].buf[x] = memory[LineBase + x]
  /\ rs[P].fsm = "RSP_UNC" =>
       /\ cmd[P] # NoCell => cmd[P].addr = dc[P].addr
       /\ reads.left > 0 => reads.addr = dc[P].addr
       /\ rsp[P] # NoCell /\ ~rsp[P].error => rsp[P].data = memory[dc[P].addr]
  /\ dm[P].req /\ rs[P].dOk => IF Filling(P) THEN HasLine ELSE rs[P].unc = memory[dc[P].addr]
  /\ dc[P].fsm = "DCACHE_MISSUPDT" => HasLine
  /\ dc[P].fsm = "DCACHE_UNC_LL_SC_GO" => rs[P].unc = memory[dc[P].addr]

(* The lines: a store that hit is in Latest at once and in the line a      *)
(* cycle later.                                                            *)
LineInv ==
  /\ LinesWait(P)
  /\ \A a \in Addr : HasCopy(P, Block(a)) => CopyAfter(P, a) = Latest(a)

ViewInv == PortInv /\ AskInv /\ LoadInv /\ StoreInv /\ PacketInv /\ AnswerInv /\ LineInv

-----------------------------------------------------------------------------
(* Latest, as a function of the registers that it looks at.                *)
LEMMA LatestVisible ==
  ASSUME NEW a
  PROVE  /\ Latest(a) = Visible(memory, dm[P], wb[P].cells, a)
         /\ Latest(a)' = Visible(memory', dm'[P], wb'[P].cells, a)
BY DEF Latest, InBuffer, Visible, Where, AnyOf

(* The registers that the stores go through.                               *)
LEMMA StoreRegs ==
  ASSUME PortInv
  PROVE  /\ P \in Procs /\ dm[P] \in DmRegs /\ dm[P].data \in Word /\ dm[P].addr \in Addr
         /\ wb[P].cells \in Seq([addr : Addr, data : Word])
         /\ Len(wb[P].cells) \in Nat /\ DOMAIN wb[P].cells = 1 .. Len(wb[P].cells)
         /\ \A i \in 1 .. Len(wb[P].cells) :
              wb[P].cells[i].addr \in Addr /\ wb[P].cells[i].data \in Word
         /\ \A a \in Addr : memory[a] \in Word /\ staged[a] \in Word
         /\ Addr \subseteq Nat
<1>1. P \in Procs /\ DataRegsOK
  BY OneProc, DataPart DEF PortInv
<1>2. Addr \subseteq Nat
  BY NbWordsAssumption DEF Addr
<1>3. \A a \in Addr : memory[a] \in Word /\ staged[a] \in Word
  BY DEF PortInv, MemTypeOK
<1> QED BY <1>1, <1>2, <1>3, AnyCellTypes

(* The addresses in the write buffer are all different, and below that of  *)
(* the FIFO_INPUT cell until this cell is the last of the buffer.          *)
LEMMA CellFacts ==
  ASSUME PortInv
  PROVE  /\ \A i, j \in 1 .. Len(wb[P].cells) : wb[P].cells[i].addr = wb[P].cells[j].addr => i = j
         /\ ~dm[P].pending => wb[P].cells = <<>> /\ ~dm[P].flush
         /\ dm[P].pending /\ ~dm[P].flush =>
              \A i \in 1 .. Len(wb[P].cells) : wb[P].cells[i].addr # dm[P].addr
         /\ dm[P].flush /\ ~rs[P].dOk =>
              /\ Len(wb[P].cells) > 0 /\ wb[P].cells[Len(wb[P].cells)].addr = dm[P].addr
              /\ dm[P].size = Len(wb[P].cells)
         /\ dm[P].flush => dm[P].pending
         /\ dm[P].flush /\ rs[P].dOk => wb[P].cells = <<>>
<1> DEFINE n == Len(wb[P].cells)
           t == dm[P].addr
           A(j) == wb[P].cells[j].addr
           s == IF dm[P].flush THEN 0 ELSE 1
<1>1. n \in Nat /\ t \in Nat /\ s \in {0, 1}
  BY StoreRegs
<1>2. BufferInv(P) /\ ContiguousInv(P) /\ RequestInv(P)
  BY DEF PortInv, CacheInv
<1>3. dm[P].pending => \A j \in 1 .. n : A(j) = t - n + j - s
  BY <1>2 DEF ContiguousInv
<1>4. ~dm[P].pending => n = 0 /\ wb[P].cells = <<>>
  BY <1>2 DEF BufferInv, EmptyBuffer
<1>5. dm[P].flush /\ ~rs[P].dOk => n > 0 /\ dm[P].size = n
  <2>1. ASSUME dm[P].flush, ~rs[P].dOk PROVE dm[P].size = n /\ dm[P].size > 0
    BY <1>2, <2>1 DEF BufferInv
  <2> QED BY <2>1
<1>6. dm[P].flush => dm[P].pending
  BY <1>2 DEF RequestInv
<1>7. dm[P].flush /\ rs[P].dOk => wb[P].cells = <<>>
  BY <1>2 DEF BufferInv, EmptyBuffer
<1> HIDE DEF n, t, A
<1>8. \A i, j \in 1 .. n : A(i) = A(j) => i = j
  <2>1. CASE dm[P].pending
    <3> TAKE i \in 1 .. n, j \in 1 .. n
    <3>1. A(i) = t - n + i - s /\ A(j) = t - n + j - s
      BY <1>3, <2>1
    <3> HIDE DEF s
    <3> QED BY <1>1, <3>1
  <2>2. CASE ~dm[P].pending
    BY <1>4, <2>2
  <2> QED BY <2>1, <2>2
<1>9. dm[P].pending /\ ~dm[P].flush => \A i \in 1 .. n : A(i) # t
  <2> SUFFICES ASSUME dm[P].pending, ~dm[P].flush, NEW i \in 1 .. n PROVE A(i) # t
    OBVIOUS
  <2>1. A(i) = t - n + i - 1
    BY <1>3
  <2> QED BY <1>1, <2>1
<1>10. dm[P].flush /\ ~rs[P].dOk => A(n) = t
  <2> SUFFICES ASSUME dm[P].flush, ~rs[P].dOk PROVE A(n) = t
    OBVIOUS
  <2>1. n \in 1 .. n /\ A(n) = t - n + n - 0
    BY <1>1, <1>3, <1>5, <1>6
  <2> QED BY <1>1, <2>1
<1> USE DEF n, t, A
<1> QED BY <1>4, <1>5, <1>6, <1>7, <1>8, <1>9, <1>10

-----------------------------------------------------------------------------
(* One cycle: what its machines do, and what the cycle does to the cells.  *)
LEMMA CycleFacts ==
  ASSUME PortInv, NEW rspval \in BOOLEAN, NEW invval \in BOOLEAN, CacheCycle(P, rspval, invval)
  PROVE  /\ CacheTypeOK /\ NocTypeOK /\ CacheInv(P) /\ ResponseOK(P) /\ P \in Procs /\ P \in Srcs
         /\ RequestInv(P) /\ ServiceInv(P) /\ BufferInv(P) /\ InvalInv(P) /\ FlightInv
         /\ rspval => rsp[P] # NoCell
         /\ DCacheFsm(P) /\ ReqFsm(P) /\ RspFsm(P, rspval) /\ WriteBuffer(P, rspval)
         /\ rs[P].dOk <=> DataDone(P)
         /\ DataDone(P) => rs[P].fsm = "RSP_IDLE" /\ rq[P].fsm = "REQ_DWAIT"
<1>1. /\ CacheTypeOK /\ NocTypeOK /\ CacheInv(P) /\ ResponseOK(P) /\ P \in Procs /\ P \in Srcs
      /\ RequestInv(P) /\ ServiceInv(P) /\ BufferInv(P) /\ InvalInv(P) /\ FlightInv
  BY OneProc, FlightIsExpected DEF PortInv, CacheInv
<1>2. /\ rspval => rsp[P] # NoCell
      /\ DCacheFsm(P) /\ ReqFsm(P) /\ RspFsm(P, rspval) /\ WriteBuffer(P, rspval)
  BY DEF CacheCycle
<1>3. rs[P].dOk <=> DataDone(P)
  BY <1>1, OkIsDone
<1>4. DataDone(P) => rs[P].fsm = "RSP_IDLE" /\ rq[P].fsm = "REQ_DWAIT"
  BY <1>1 DEF ServiceInv, DataDone
<1> QED BY <1>1, <1>2, <1>3, <1>4

LEMMA CellsAt ==
  ASSUME PortInv, NEW rspval \in BOOLEAN, NEW invval \in BOOLEAN, CacheCycle(P, rspval, invval)
  PROVE  /\ wb'[P].cells = IF WriteAnswered(P, rspval)
                           THEN IF rsp[P].error THEN wb[P].cells ELSE <<>>
                           ELSE IF Puts(P)
                           THEN Append(wb[P].cells, [addr |-> dm[P].addr, data |-> dm[P].data])
                           ELSE wb[P].cells
         /\ WriteAnswered(P, rspval) => dm[P].flush /\ ~rs[P].dOk /\ ~Puts(P)
<1> DEFINE c == [addr |-> dm[P].addr, data |-> dm[P].data]
<1>1. /\ CacheTypeOK /\ CacheInv(P) /\ ResponseOK(P) /\ P \in Procs /\ BufferInv(P)
      /\ WriteBuffer(P, rspval)
      /\ rspval => rsp[P] # NoCell
  BY CycleFacts
<1>2. /\ wb[P] \in WbRegs /\ wb[P].ptr <= Len(wb[P].cells) /\ Len(wb[P].cells) <= BufferSize
      /\ c \in [addr : Addr, data : Word]
  BY <1>1, RegTypes, StoreRegs
<1>3. WriteAnswered(P, rspval) => dm[P].flush /\ ~rs[P].dOk /\ ~Puts(P) /\ ~Gets(P)
  BY <1>1, AnsweredFacts
<1>4. Puts(P) => ~Gets(P) /\ Len(wb[P].cells) < BufferSize
  BY <1>1, CacheConsistent DEF Puts, Gathers, BufferInv
<1>5. wb'[P] = IF WriteAnswered(P, rspval)
               THEN IF rsp[P].error THEN InitRead(wb[P]) ELSE EmptyBuffer
               ELSE IF Gets(P) THEN SimpleGet(wb[P])
               ELSE IF Puts(P) THEN SimplePut(wb[P], c) ELSE wb[P]
  BY <1>1, BufferAt
<1> DEFINE b == wb[P]
<1>6. /\ InitRead(b).cells = b.cells /\ EmptyBuffer.cells = <<>>
      /\ SimpleGet(b).cells = b.cells
      /\ Len(b.cells) < BufferSize => SimplePut(b, c).cells = Append(b.cells, c)
  <2>1. Len(b.cells) \in Nat /\ b.ptr \in Nat
    <3>1. b.ptr \in 0 .. BufferSize
      BY <1>2 DEF WbRegs
    <3> QED BY <3>1, StoreRegs, SizeFacts
  <2>2. b.ptr < Len(b.cells) \/ b.ptr = Len(b.cells)
    BY <1>2, <2>1
  <2> HIDE DEF b, c
  <2> QED BY <1>2, <2>2, BufferFacts DEF b
<1> HIDE DEF b, c
<1> USE DEF b
<1>7. wb'[P].cells = IF WriteAnswered(P, rspval)
                     THEN IF rsp[P].error THEN wb[P].cells ELSE <<>>
                     ELSE IF Puts(P) THEN Append(wb[P].cells, c) ELSE wb[P].cells
  BY <1>3, <1>4, <1>5, <1>6
<1> QED BY <1>3, <1>7 DEF c

(* RSP_OK goes up with the last cell of an answer that was not refused.    *)
LEMMA OkAt ==
  ASSUME PortInv, NEW rspval \in BOOLEAN, NEW invval \in BOOLEAN, CacheCycle(P, rspval, invval),
         rs'[P].dOk
  PROVE  /\ ~DataDone(P) /\ ~rs[P].dOk /\ rsp[P] # NoCell /\ ~rsp[P].error /\ rspval
         /\ rs[P].fsm = DataRspState(P)
         /\ \/ dm[P].flush /\ WriteAnswered(P, rspval)
            \/ dm[P].req /\ rs[P].fsm = "RSP_UNC" /\ RspTakesOneCell(P, rspval)
            \/ /\ dm[P].req /\ rs[P].fsm = "RSP_DMISS" /\ RspTakesLineCell(P, rspval)
               /\ LastOfLine(P) /\ ~rs[P].dRetry
<1>1. /\ CacheTypeOK /\ P \in Procs /\ RequestInv(P) /\ ServiceInv(P) /\ ResponseOK(P)
      /\ rs[P].dOk <=> DataDone(P)
      /\ rspval => rsp[P] # NoCell
      /\ RspFsm(P, rspval) /\ CacheInv(P)
  BY CycleFacts
<1>2. \/ RspKeeps(P, rspval) \/ RspStarts(P)
      \/ RspTakesLineCell(P, rspval) \/ RspTakesOneCell(P, rspval)
  BY <1>1, RspEffect
<1>3. ~(rs[P].dOk /\ ~DataDone(P))
  BY <1>1
<1>4. ~RspKeeps(P, rspval) /\ ~RspStarts(P)
  BY <1>3 DEF RspKeeps, RspStarts, FlagsAfter
<1>5. CASE RspTakesLineCell(P, rspval)
  <2>1. /\ rs[P].fsm = "RSP_DMISS" /\ LastOfLine(P) /\ ~rs[P].dRetry /\ ~rsp[P].error /\ rspval
    BY <1>3, <1>5 DEF RspTakesLineCell, FlagsAfter
  <2>2. dm[P].req /\ rs[P].fsm = DataRspState(P) /\ rq[P].fsm \in {"REQ_IDLE", "REQ_DWAIT", "REQ_IWAIT"}
    BY <1>1, <2>1, StateFacts DEF ServiceInv, ResponseOK
  <2>3. ~DataDone(P)
    BY <1>1, <2>1 DEF DataDone, ServiceInv
  <2> QED BY <1>1, <1>5, <2>1, <2>2, <2>3
<1>6. CASE RspTakesOneCell(P, rspval)
  <2>1. /\ rs[P].fsm \in {"RSP_WRITE", "RSP_UNC"} /\ ~rsp[P].error /\ rspval
    BY <1>3, <1>6 DEF RspTakesOneCell, FlagsAfter
  <2>2. rq[P].fsm = "REQ_DWAIT" /\ rs[P].fsm = DataRspState(P)
    BY <1>1, <2>1 DEF ServiceInv, ResponseOK
  <2>3. ~DataDone(P)
    BY <1>1, <2>1, <2>2 DEF DataDone, ServiceInv
  <2>4. rs[P].fsm = "RSP_UNC" => dm[P].req
    BY <2>2 DEF DataRspState
  <2>5. rs[P].fsm = "RSP_WRITE" => dm[P].flush /\ WriteAnswered(P, rspval)
    BY <1>1, <2>1, AnsweredFacts DEF WriteAnswered
  <2> QED BY <1>1, <1>6, <2>1, <2>2, <2>3, <2>4, <2>5
<1> QED BY <1>2, <1>4, <1>5, <1>6

-----------------------------------------------------------------------------
(* What a cycle does to the words that the stores have left.               *)
LEMMA CellsHold ==
  ASSUME PortInv, StoreInv, PacketInv, NEW rspval \in BOOLEAN, NEW invval \in BOOLEAN,
         CacheCycle(P, rspval, invval)
  PROVE  CellsKnown(P) /\ CellsNext(P) /\ Performed(P, memory)
<1> DEFINE q == wb[P].cells
<1>1. /\ rs[P].dOk <=> DataDone(P)
      /\ rspval => rsp[P] # NoCell
  BY CycleFacts
<1>2. CellsKnown(P)
  BY <1>1, CellFacts DEF CellsKnown
<1>3. CellsNext(P)
  <2>1. /\ wb'[P].cells = IF WriteAnswered(P, rspval) THEN IF rsp[P].error THEN q ELSE <<>>
                          ELSE IF Puts(P)
                          THEN Append(q, [addr |-> dm[P].addr, data |-> dm[P].data]) ELSE q
        /\ WriteAnswered(P, rspval) => dm[P].flush /\ ~rs[P].dOk /\ ~Puts(P)
    BY CellsAt
  <2> QED BY <1>1, <2>1 DEF CellsNext, WriteAnswered
<1>4. Performed(P, memory)
  <2>1. dm[P].flush => dm[P].pending
    BY CellFacts
  <2> QED BY <1>1, <2>1 DEF Performed, PacketInv, StoreInv, Holds
<1> QED BY <1>2, <1>3, <1>4

LEMMA LatestKept ==
  ASSUME PortInv, StoreInv, PacketInv, NEW rspval \in BOOLEAN, NEW invval \in BOOLEAN,
         CacheCycle(P, rspval, invval), memory' = memory, ~TakesStore(P), NEW a \in Addr
  PROVE  Latest(a)' = Latest(a)
<1>1. /\ DataRegsOK /\ P \in Procs /\ RequestInv(P) /\ DoneInv(P) /\ PrevInv(P) /\ DCacheFsm(P)
  BY CycleFacts, DataPart, DonePart DEF InvalInv, PrevInv
<1>2. CellsKnown(P) /\ CellsNext(P) /\ Performed(P, memory)
  BY CellsHold
<1> QED BY <1>1, <1>2, AnyWordsKept, LatestVisible

(* A store reaches Latest in the cycle that accepts it.                    *)
LEMMA LatestStored ==
  ASSUME PortInv, StoreInv, PacketInv, AskInv, PartialAt \subseteq PageStarts,
         NEW rspval \in BOOLEAN, NEW invval \in BOOLEAN,
         CacheCycle(P, rspval, invval), memory' = memory, TakesStore(P), NEW a \in Addr
  PROVE  Latest(a)' = IF a = cpu[P].addr THEN Merge(Latest(a), cpu[P].data, cpu[P].be)
                      ELSE Latest(a)
<1>1. /\ DataRegsOK /\ P \in Procs /\ RequestInv(P) /\ DoneInv(P) /\ memory[a] \in Word
  BY CycleFacts, DataPart, DonePart, StoreRegs
<1>2. CellsKnown(P) /\ CellsNext(P)
  BY CellsHold
<1>3. cpu[P].be = Lanes \/ cpu[P].addr \in PageStarts
  <2>1. cpu[P] # NoReq
    BY DEF TakesStore, DcFirstStore, DcMerge, DcBurst, Gathers, Proceeds
  <2> QED BY <2>1 DEF AskInv
<1> QED BY <1>1, <1>2, <1>3, AnyWordStored, LatestVisible

-----------------------------------------------------------------------------
(* The invariants of one cycle, one lemma each: the request,               *)
LEMMA LoadStep ==
  ASSUME PortInv, AskInv, LoadInv, NEW rspval \in BOOLEAN, NEW invval \in BOOLEAN,
         CacheCycle(P, rspval, invval), types' = types
  PROVE  LoadInv' /\ AskInv'
<1> DEFINE Quiet == dc'[P].fsm \in {"DCACHE_IDLE", "DCACHE_WUPDT", "DCACHE_CPUINVAL"}
<1>1. CacheTypeOK /\ P \in Procs /\ DCacheFsm(P) /\ InvalInv(P) /\ dc[P] \in DcRegs
  BY CycleFacts, RegTypes
<1>2. /\ \/ TakesAway(P) \/ Idles(P) \/ StoresWord(P) \/ Misses(P) \/ AsksWord(P)
         \/ UpdatesWord(P) \/ Waits(P) \/ FillsLine(P) \/ DropsLine(P) \/ Invalidates(P)
  BY <1>1, DcShape
<1>3. cpu' = cpu \/ AnswerCpu(P)
  BY <1>1 DEF DCacheFsm, DcTakeInval, DcNoRequest, DcBurst, DcMerge, DcFlush, DcStall,
     DcFirstStore, AcceptStore, DcLoadHit, DcLoadMiss, DcUncached, DcSync, DcXtnInval,
     DcWriteUpdate, DcWait, DcMissUpdate, DcUncachedGo, DcCpuInval, DcRamInval
<1>4. AskInv'
  <2>1. cpu'[P] = cpu[P] \/ cpu'[P] = NoReq
    BY <1>1, <1>3 DEF AnswerCpu, CacheTypeOK
  <2> QED BY <2>1 DEF AskInv
<1>5. Quiet => LoadInv'
  BY DEF LoadInv, Loading, Waiting, WaitStates
<1>6. CASE DcTakeInval(P)
  <2>1. TakesAway(P) /\ cpu' = cpu
    BY <1>2, <1>6 DEF DcTakeInval, TakesAway, Idles, StoresWord, Misses, AsksWord, LooksUp,
       UpdatesWord, Waits, FillsLine, DropsLine, Invalidates, TakesInval, WaitStates
  <2> QED BY <1>4, <2>1 DEF LoadInv, Loading, Waiting, WaitStates, TakesAway, TakesInval, SameData, Filling
<1>7. CASE DcWait(P)
  <2>1. Waits(P) /\ cpu' = cpu
    BY <1>2, <1>7 DEF DcWait, TakesAway, Idles, StoresWord, Misses, AsksWord, LooksUp,
       UpdatesWord, Waits, FillsLine, DropsLine, Invalidates, WaitStates
  <2> QED BY <1>4, <2>1 DEF LoadInv, Loading, Waiting, WaitStates, Waits, SameData, Filling
<1>8. CASE DcRamInval(P)
  <2>1. Invalidates(P) /\ cpu' = cpu
    BY <1>2, <1>8 DEF DcRamInval, TakesAway, Idles, StoresWord, Misses, AsksWord, LooksUp,
       UpdatesWord, Waits, FillsLine, DropsLine, Invalidates, TakesInval, WaitStates
  <2>2. dc[P].prev \in WaitStates \cup {"DCACHE_IDLE"}
    BY <1>1 DEF InvalInv
  <2> QED BY <1>4, <2>1, <2>2 DEF LoadInv, Loading, Waiting, WaitStates, Invalidates, SameData, Filling
<1>9. CASE DcLoadMiss(P)
  <2>1. Proceeds(P) /\ cpu' = cpu /\ cpu[P].type = "DATA_READ" /\ cpu[P].addr \in Cached
        /\ SaveAndGoTo(P, "DCACHE_MISSWAIT")
    BY <1>9 DEF DcLoadMiss, CachedLoad
  <2>2. /\ LooksUp(P) /\ dc'[P].fsm = "DCACHE_MISSWAIT"
        /\ ~dc'[P].unc /\ ~dc'[P].ll /\ ~dc'[P].sc
    BY <1>1, <2>1, LooksUpAt
  <2> QED BY <1>4, <2>1, <2>2 DEF LoadInv, LooksUp, Filling
<1>10. CASE DcUncached(P)
  <2>1. /\ Proceeds(P) /\ cpu' = cpu /\ ~dm[P].pending
        /\ SaveAndGoTo(P, "DCACHE_UNC_LL_SC_WAIT")
        /\ \/ cpu[P].type = "DATA_READ" /\ cpu[P].addr \notin Cached
           \/ cpu[P].type = "DATA_LL"
    BY <1>10 DEF DcUncached, AskInv, Proceeds
  <2>2. /\ LooksUp(P) /\ dc'[P].fsm = "DCACHE_UNC_LL_SC_WAIT"
        /\ dc'[P].unc = (cpu[P].addr \notin Cached)
        /\ dc'[P].ll = (cpu[P].type = "DATA_LL" /\ ~dm[P].pending)
        /\ dc'[P].sc = (cpu[P].type = "DATA_SC" /\ ~dm[P].pending)
    BY <1>1, <2>1, LooksUpAt
  <2> QED BY <1>4, <2>1, <2>2 DEF LoadInv, LooksUp, Filling
<1>11. CASE \/ DcBurst(P) \/ DcMerge(P) \/ DcFirstStore(P) \/ DcFlush(P) \/ DcStall(P)
            \/ DcLoadHit(P) \/ DcSync(P) \/ DcXtnInval(P)
  <2>1. PICK s \in {"DCACHE_IDLE", "DCACHE_WUPDT", "DCACHE_CPUINVAL"} : SaveAndGoTo(P, s)
    BY <1>11 DEF DcBurst, DcMerge, DcFirstStore, AcceptStore, DcFlush, DcStall, DcLoadHit,
       DcSync, DcXtnInval
  <2>2. Quiet
    BY <1>1, <2>1, SavedAt
  <2> QED BY <1>4, <1>5, <2>2
<1>12. CASE DcNoRequest(P) \/ DcWriteUpdate(P) \/ DcMissUpdate(P) \/ DcUncachedGo(P) \/ DcCpuInval(P)
  <2>1. Quiet
    BY <1>1, <1>12, GoToAt DEF DcNoRequest, DcWriteUpdate, DcMissUpdate, DcUncachedGo, DcCpuInval
  <2> QED BY <1>4, <1>5, <2>1
<1> QED BY <1>1, <1>4, <1>6, <1>7, <1>8, <1>9, <1>10, <1>11, <1>12 DEF DCacheFsm

(* the FIFO_INPUT cell,                                                    *)
LEMMA StoreStep ==
  ASSUME PortInv, AskInv, StoreInv, PartialAt \subseteq PageStarts,
         NEW rspval \in BOOLEAN, NEW invval \in BOOLEAN, CacheCycle(P, rspval, invval)
  PROVE  StoreInv'
<1> DEFINE d  == dm[P]
           d2 == dm'[P]
           q  == wb[P].cells
           q2 == wb'[P].cells
           n  == Len(q)
           r  == cpu[P]
           c  == [addr |-> d.addr, data |-> d.data]
<1>1. /\ CacheTypeOK /\ P \in Procs /\ RequestInv(P) /\ ServiceInv(P) /\ InvalInv(P)
      /\ DCacheFsm(P)
      /\ rs[P].dOk <=> DataDone(P)
  BY CycleFacts
<1>2. \/ KeepsRequest(P) \/ StartsRequest(P) \/ StartsStores(P)
      \/ MergesStore(P) \/ AddsStore(P) \/ FlushesStores(P)
  BY <1>1, DcEffect
<1>3. /\ d \in DmRegs /\ n \in Nat /\ q \in Seq([addr : Addr, data : Word]) /\ c.data = d.data
  BY StoreRegs
<1>4. q2 = IF WriteAnswered(P, rspval) THEN IF rsp[P].error THEN q ELSE <<>>
           ELSE IF Puts(P) THEN Append(q, c) ELSE q
  BY CellsAt
<1>5. WriteAnswered(P, rspval) => d.flush /\ ~rs[P].dOk /\ ~Puts(P)
  BY CellsAt
<1>6. /\ ~d.pending => q = <<>> /\ ~d.flush
  BY CellFacts
<1>7. WriteAnswered(P, rspval) /\ ~rsp[P].error => rs'[P].dOk
  <2>1. \/ RspKeeps(P, rspval) \/ RspStarts(P)
        \/ RspTakesLineCell(P, rspval) \/ RspTakesOneCell(P, rspval)
    BY CycleFacts, RspEffect
  <2> QED BY <2>1 DEF WriteAnswered, RspKeeps, RspStarts, RspTakesLineCell, RspTakesOneCell,
              FlagsAfter, BothIdle
<1>8. /\ Len(Append(q, c)) = n + 1 /\ Append(q, c)[n + 1] = c
      /\ Len(<<>>) = 0
  <2> DEFINE S == [addr : Addr, data : Word]
  <2>1. q \in Seq(S)
    BY <1>3
  <2> HIDE DEF S, c, q
  <2> QED BY <2>1 DEF n
<1>9. CASE KeepsRequest(P)
  <2>1. /\ ~Puts(P)
        /\ d2 = IF DataDone(P) THEN [d EXCEPT !.req = FALSE, !.flush = FALSE, !.pending = FALSE]
                ELSE d
    BY <1>9 DEF KeepsRequest, DmAfter
  <2>2. CASE DataDone(P)
    <3>1. ~d2.pending
      <4> HIDE DEF d, d2
      <4> QED BY <1>3, <2>1, <2>2 DEF DmRegs
    <3> QED BY <3>1 DEF StoreInv
  <2>3. CASE ~DataDone(P) /\ q2 = q
    <3>1. ~rs[P].dOk
      BY <1>1, <2>3
    <3> QED BY <2>1, <2>3, <3>1 DEF StoreInv
  <2>4. CASE ~DataDone(P) /\ q2 # q
    <3>1. WriteAnswered(P, rspval) /\ q2 = <<>> /\ rs'[P].dOk /\ d.flush
      BY <1>4, <1>5, <1>7, <2>1, <2>4
    <3> QED BY <1>8, <2>1, <2>4, <3>1 DEF StoreInv
  <2> QED BY <2>2, <2>3, <2>4
<1>10. CASE StartsRequest(P)
  <2>1. ~d.pending /\ d2 = [d EXCEPT !.req = TRUE]
    BY <1>10 DEF StartsRequest
  <2>2. ~d2.pending
    <3> HIDE DEF d, d2
    <3> QED BY <1>3, <2>1 DEF DmRegs
  <2> QED BY <2>2 DEF StoreInv
<1>11. CASE StartsStores(P)
  <2>1. /\ ~d.pending /\ ~Puts(P)
        /\ d2 = [d EXCEPT !.pending = TRUE, !.first = TRUE, !.addr = r.addr,
                          !.data = r.data, !.wf = r.be, !.wl = r.be]
    BY <1>11 DEF StartsStores
  <2>2. q2 = <<>> /\ ~d.flush
    BY <1>4, <1>5, <1>6, <2>1
  <2>3. d2.pending /\ d2.wf = d2.wl /\ d2.first /\ ~d2.flush
    <3> HIDE DEF d, d2, r
    <3> QED BY <1>3, <2>1, <2>2 DEF DmRegs
  <2> QED BY <1>8, <2>2, <2>3 DEF StoreInv
<1>12. CASE MergesStore(P)
  <2> DEFINE e == Merge(d.data, r.data, r.be)
             l == d.wl \cup r.be
             f == IF d.first THEN d.wf \cup r.be ELSE d.wf
  <2>1. /\ d.pending /\ ~d.flush /\ ~Puts(P) /\ d2 = [d EXCEPT !.data = e, !.wl = l, !.wf = f]
        /\ d.wl # Lanes
    BY <1>12 DEF MergesStore, Merges
  <2>2. d.first /\ n = 0 /\ d.wf = d.wl
    <3>1. d.wf = d.wl /\ (d.wf # Lanes => n <= 0) /\ (d.first <=> n = 0)
      BY <2>1 DEF StoreInv
    <3> HIDE DEF n, d
    <3> QED BY <1>3, <2>1, <3>1
  <2>3. f = l /\ q2 = q
    BY <1>4, <1>5, <2>1, <2>2
  <2>4. d2.pending /\ ~d2.flush /\ d2.first /\ d2.wf = d2.wl
    <3> HIDE DEF d, d2, e, l, f
    <3> QED BY <1>3, <2>1, <2>2, <2>3 DEF DmRegs
  <2> QED BY <2>2, <2>3, <2>4 DEF StoreInv
<1>13. CASE AddsStore(P)
  <2>1. /\ d.pending /\ ~d.flush /\ Puts(P) /\ d.wl = Lanes
        /\ r.addr \notin PageStarts
        /\ d2 = [d EXCEPT !.first = FALSE, !.addr = r.addr, !.data = r.data, !.wl = r.be]
    BY <1>13 DEF AddsStore, Continues
  <2>2. r.be = Lanes
    BY <2>1 DEF AskInv, Puts, Gathers, Proceeds
  <2>3. d.wf = Lanes
    BY <2>1 DEF StoreInv
  <2>4. q2 = Append(q, c)
    BY <1>4, <1>5, <2>1
  <2>5. d2.pending /\ ~d2.flush /\ ~d2.first /\ d2.wf = Lanes /\ d2.wl = Lanes
    <3> HIDE DEF d, d2, r
    <3> QED BY <1>3, <2>1, <2>2, <2>3 DEF DmRegs
  <2>6. Len(q2) # 0
    <3> HIDE DEF q, q2, n, c
    <3> QED BY <1>3, <1>8, <2>4
  <2> QED BY <2>5, <2>6 DEF StoreInv
<1>14. CASE FlushesStores(P)
  <2>1. /\ d.pending /\ ~d.flush /\ Puts(P)
        /\ d2 = [d EXCEPT !.first = FALSE, !.flush = TRUE, !.size = BurstSize(P)]
    BY <1>14 DEF FlushesStores
  <2>2. q2 = Append(q, c)
    BY <1>4, <1>5, <2>1
  <2>3. d2.pending /\ d2.flush /\ d2.wf = d.wf /\ d2.wl = d.wl /\ d2.data = d.data
    <3> HIDE DEF d, d2
    <3> QED BY <1>3, <2>1 DEF DmRegs
  <2>4. d.wf = d.wl /\ (d.wf # Lanes => n <= 0)
    BY <2>1 DEF StoreInv
  <2>5. Len(q2) = n + 1 /\ q2[Len(q2)] = c /\ (n <= 0 => Len(q2) <= 1)
    <3> HIDE DEF q, q2, n, c
    <3> QED BY <1>3, <1>8, <2>2
  <2> QED BY <1>3, <2>3, <2>4, <2>5 DEF StoreInv
<1> QED BY <1>2, <1>9, <1>10, <1>11, <1>12, <1>13, <1>14

(* the write packet: only REQ_WRITE moves it on,                           *)
InPacket == rq[P].fsm = "REQ_WRITE" \/ Writing

LEMMA PacketFacts ==
  ASSUME PortInv
  PROVE  /\ InPacket => /\ dm[P].flush /\ ~dm[P].req /\ ~rs[P].dOk /\ ~rs[P].dRetry
                        /\ rs[P].fsm = "RSP_WRITE"
                        /\ rsp[P] = NoCell /\ reads.left = 0 /\ ~DataDone(P)
                        /\ rq[P].fsm \in {"REQ_WRITE", "REQ_DWAIT"}
         /\ ~InPacket => Sent = 0 /\ Taken = 0
         /\ rq[P].cpt \in Nat
<1>1. ServiceInv(P) /\ RequestInv(P) /\ FlightInv /\ CacheTypeOK /\ P \in Procs
  BY OneProc DEF PortInv, CacheInv
<1>2. rq[P].cpt \in Nat
  <2>1. rq[P] \in RqRegs
    BY <1>1, RegTypes
  <2> QED BY <2>1, SizeFacts DEF RqRegs
<1>3. ASSUME rq[P].fsm = "REQ_WRITE"
      PROVE  /\ dm[P].flush /\ ~dm[P].req /\ ~rs[P].dOk /\ ~rs[P].dRetry
             /\ rs[P].fsm = "RSP_WRITE" /\ rsp[P] = NoCell /\ reads.left = 0 /\ ~DataDone(P)
  BY <1>1, <1>3 DEF ServiceInv, RequestInv, DataRspState, DataDone, FlightInv
<1>4. ASSUME Writing
      PROVE  /\ dm[P].flush /\ ~dm[P].req /\ ~rs[P].dOk /\ ~rs[P].dRetry
             /\ rs[P].fsm = "RSP_WRITE" /\ rsp[P] = NoCell /\ reads.left = 0 /\ ~DataDone(P)
             /\ rq[P].fsm \in {"REQ_WRITE", "REQ_DWAIT"}
  <2>1. rs[P].fsm = "RSP_WRITE" /\ rsp[P] = NoCell /\ reads.left = 0 /\ cmd[P] # NoCell
    BY <1>1, <1>4 DEF Writing, FlightInv
  <2>2. rq[P].fsm \in {"REQ_WRITE", "REQ_DWAIT"}
    BY <1>1, <2>1, StateFacts DEF ServiceInv, ReqStates, FlightInv, Nothing
  <2>3. CASE rq[P].fsm = "REQ_WRITE"
    BY <1>3, <2>1, <2>2, <2>3
  <2>4. CASE rq[P].fsm = "REQ_DWAIT"
    <3>1. ~rs[P].dOk /\ ~rs[P].dRetry /\ ~dm[P].req /\ dm[P].flush
      BY <1>1, <2>1, <2>4 DEF ServiceInv, DataRspState
    <3> QED BY <2>1, <2>2, <3>1 DEF DataDone
  <2> QED BY <2>2, <2>3, <2>4
<1>5. ~InPacket => Sent = 0 /\ Taken = 0
  BY DEF InPacket, Sent, Taken
<1> QED BY <1>2, <1>3, <1>4, <1>5 DEF InPacket

LEMMA PacketStep ==
  ASSUME PortInv, StoreInv, PacketInv, NEW rspval \in BOOLEAN, NEW invval \in BOOLEAN,
         CacheCycle(P, rspval, invval), memory' = memory, staged' = staged
  PROVE  PacketInv'
<1> DEFINE q  == wb[P].cells
           q2 == wb'[P].cells
           n  == Len(q)
<1>1. /\ CacheTypeOK /\ NocTypeOK /\ CacheInv(P) /\ P \in Procs /\ P \in Srcs
      /\ RequestInv(P) /\ ServiceInv(P) /\ BufferInv(P) /\ InvalInv(P) /\ FlightInv
      /\ ResponseOK(P) /\ DCacheFsm(P) /\ ReqFsm(P) /\ RspFsm(P, rspval)
      /\ rspval => rsp[P] # NoCell
      /\ DataDone(P) => rs[P].fsm = "RSP_IDLE" /\ rq[P].fsm = "REQ_DWAIT"
  BY CycleFacts
<1>2. \/ ReqKeeps(P) \/ ReqStartsData(P) \/ ReqStartsWrite(P) \/ ReqStartsInst(P)
      \/ ReqSendsOneCell(P) \/ ReqSendsStore(P) \/ ReqEnds(P)
  BY <1>1, ReqEffect
<1>3. \/ RspKeeps(P, rspval) \/ RspStarts(P)
      \/ RspTakesLineCell(P, rspval) \/ RspTakesOneCell(P, rspval)
  BY <1>1, RspEffect
<1>4. q2 = IF WriteAnswered(P, rspval) THEN IF rsp[P].error THEN q ELSE <<>>
           ELSE IF Puts(P) THEN Append(q, [addr |-> dm[P].addr, data |-> dm[P].data]) ELSE q
  BY CellsAt
<1>5. /\ dm[P].flush => ~Puts(P)
      /\ dm[P].flush /\ ~DataDone(P) => dm'[P] = dm[P]
  <2>1. dm[P].flush /\ ~DataDone(P) => dm'[P] = dm[P]
    BY <1>1, RequestHeld DEF SameRequest
  <2> QED BY <2>1 DEF Puts, Gathers
<1>6. n \in Nat /\ rq[P].cpt \in Nat
  BY StoreRegs, PacketFacts
<1>7. CASE InPacket
  <2>1. /\ dm[P].flush /\ ~dm[P].req /\ ~rs[P].dOk /\ ~rs[P].dRetry
        /\ rs[P].fsm = "RSP_WRITE" /\ rsp[P] = NoCell /\ ~DataDone(P)
        /\ rq[P].fsm \in {"REQ_WRITE", "REQ_DWAIT"}
    BY <1>7, PacketFacts
  <2>2. q2 = q /\ dm'[P] = dm[P] /\ ~rspval
    BY <1>1, <1>4, <1>5, <2>1 DEF WriteAnswered
  <2>3. RspKeeps(P, rspval) /\ rsp' = rsp
    BY <1>3, <2>1, <2>2 DEF RspKeeps, RspStarts, BothIdle, RspTakesLineCell, RspTakesOneCell
  <2>4. ~rs'[P].dOk
    BY <2>1, <2>3 DEF RspKeeps, FlagsAfter
  <2>5. CASE ReqKeeps(P)
    <3>1. rq'[P] = rq[P] /\ cmd' = cmd
      BY <2>5 DEF ReqKeeps
    <3>2. Sent' = Sent /\ Taken' = Taken /\ Writing' = Writing
      BY <3>1 DEF Sent, Taken, Writing
    <3> QED BY <2>1, <2>2, <2>3, <2>4, <3>1, <3>2 DEF PacketInv, Holds
  <2>6. CASE ReqSendsStore(P)
    <3> DEFINE c == CommandCell(P)
    <3>1. /\ rq[P].fsm = "REQ_WRITE" /\ cmd[P] = NoCell
          /\ cmd' = [cmd EXCEPT ![P] = c] /\ rq'[P].cpt = rq[P].cpt + 1
      BY <2>6 DEF ReqSendsStore
    <3>2. /\ c \in CmdCell /\ c.cmd = "WRITE" /\ c.addr = rq[P].addr /\ c.data = rq[P].data
          /\ c.be = dm[P].wf
          /\ c.eop <=> LastCell(P)
      BY <1>1, <3>1, CommandFacts DEF CommandAddr
    <3>3. cmd'[P] = c /\ c # NoCell
      BY <1>1, <3>1, <3>2, NoCellAssumption DEF NocTypeOK
    <3>4. Writing' /\ Sent' = rq[P].cpt + 1 /\ Taken' = rq[P].cpt /\ Taken = rq[P].cpt
      <4>1. Writing' /\ ~Writing
        BY <3>1, <3>2, <3>3 DEF Writing
      <4>2. Sent' = rq[P].cpt + 1 /\ Sent = rq[P].cpt
        BY <3>1, <4>1 DEF Sent
      <4> QED BY <1>6, <4>1, <4>2 DEF Taken
    <3>5. /\ wb[P].ptr = rq[P].cpt + 1 /\ rq[P].cpt < dm[P].size /\ dm[P].size = n
          /\ rq[P].addr = q[rq[P].cpt + 1].addr /\ rq[P].data = q[rq[P].cpt + 1].data
      BY <1>1, <2>1, <3>1, CellFacts DEF BufferInv
    <3>6. rq[P].cpt + 1 \in 1 .. n /\ (LastCell(P) <=> rq[P].cpt + 1 = n)
      <4> HIDE DEF n
      <4> QED BY <1>6, <3>5 DEF LastCell
    <3> HIDE DEF c
    <3>7. /\ Writing' =>
               /\ Sent' \in 1 .. Len(wb'[P].cells)
               /\ cmd'[P].addr = wb'[P].cells[Sent'].addr /\ cmd'[P].data = wb'[P].cells[Sent'].data
               /\ cmd'[P].be = dm'[P].wf /\ (cmd'[P].eop <=> Sent' = Len(wb'[P].cells))
      BY <2>2, <3>2, <3>3, <3>4, <3>5, <3>6
    <3> QED BY <2>1, <2>2, <2>3, <2>4, <3>4, <3>7 DEF PacketInv, Holds
  <2> QED BY <1>2, <1>7, <2>1, <2>5, <2>6
          DEF ReqStartsData, BothIdle, ReqStartsWrite, StartsWrite, ReqStartsInst,
              ReqSendsOneCell, OneCellStates, ReqEnds
<1>8. CASE ~InPacket
  <2>1. Taken = 0 /\ Sent = 0 /\ ~Writing /\ rq[P].fsm # "REQ_WRITE"
    BY <1>8, PacketFacts DEF InPacket
  <2>2. \A a \in Addr : staged[a] = memory[a]
    BY <2>1 DEF PacketInv
  <2>3. ~Writing' /\ (rq'[P].fsm = "REQ_WRITE" => rq'[P].cpt = 0)
    <3>1. CASE ReqSendsOneCell(P)
      <4> DEFINE c == CommandCell(P)
      <4>1. rq[P].fsm \in OneCellStates /\ cmd' = [cmd EXCEPT ![P] = c]
            /\ rq'[P].fsm # "REQ_WRITE"
        BY <3>1 DEF ReqSendsOneCell
      <4>2. c.cmd # "WRITE"
        BY <1>1, <4>1, CommandFacts DEF OneCellStates
      <4> HIDE DEF c
      <4>3. cmd'[P] = c
        BY <1>1, <4>1 DEF NocTypeOK
      <4> QED BY <4>1, <4>2, <4>3 DEF Writing
    <3>2. CASE ReqStartsData(P)
      BY <1>1, <2>1, <3>2, StateFacts DEF ReqStartsData, DataCellStates, OneCellStates, Writing
    <3>3. CASE ReqStartsWrite(P) \/ ReqStartsInst(P) \/ ReqKeeps(P) \/ ReqEnds(P)
      BY <2>1, <3>3 DEF ReqStartsWrite, ReqStartsInst, ReqKeeps, ReqEnds, Writing
    <3> QED BY <1>2, <2>1, <3>1, <3>2, <3>3 DEF ReqSendsStore
  <2>4. Taken' = 0
    BY <2>3 DEF Taken, Sent
  <2>5. ASSUME rs'[P].fsm = "RSP_WRITE", rsp'[P] # NoCell, ~rsp'[P].error
        PROVE  \A i \in 1 .. Len(q2) : Holds(q2[i].addr, q2[i].data, dm'[P].wf)
    <3>1. RspKeeps(P, rspval)
      <4>1. TakeRsp(P) => rsp'[P] = NoCell
        BY <1>1 DEF TakeRsp, NocTypeOK
      <4>2. RspStarts(P) => rsp'[P] = NoCell
        BY <1>1 DEF RspStarts, BothIdle, FlightInv, Nothing
      <4> QED BY <1>3, <2>5, <4>1, <4>2 DEF RspTakesLineCell, RspTakesOneCell
    <3>2. /\ rs[P].fsm = "RSP_WRITE" /\ rsp[P] # NoCell /\ ~rsp[P].error /\ ~rspval
      BY <2>5, <3>1 DEF RspKeeps
    <3>3. dm[P].flush /\ ~DataDone(P)
      BY <1>1, <3>2 DEF ResponseOK, ServiceInv, DataRspState
    <3>4. q2 = q /\ dm'[P] = dm[P]
      BY <1>4, <1>5, <3>2, <3>3 DEF WriteAnswered
    <3> QED BY <3>2, <3>4 DEF PacketInv, Holds
  <2>6. ASSUME dm'[P].flush, rs'[P].dOk
        PROVE  Holds(dm'[P].addr, dm'[P].data, dm'[P].wl)
    <3>1. /\ ~DataDone(P) /\ ~rs[P].dOk /\ rsp[P] # NoCell /\ ~rsp[P].error
          /\ dm[P].req \/ (dm[P].flush /\ WriteAnswered(P, rspval))
      BY <2>6, OkAt
    <3>2. ~dm[P].req
      BY <1>1, <2>6, <3>1, RequestHeld DEF SameRequest, RequestInv
    <3>3. dm[P].flush /\ dm'[P] = dm[P] /\ dm[P].pending /\ rs[P].fsm = "RSP_WRITE"
      BY <1>5, <3>1, <3>2, CellFacts DEF WriteAnswered
    <3>4. n \in 1 .. n /\ q[n].addr = dm[P].addr /\ q[n].data = dm[P].data /\ dm[P].wf = dm[P].wl
      BY <1>6, <3>1, <3>3, CellFacts DEF StoreInv
    <3>5. Holds(q[n].addr, q[n].data, dm[P].wf)
      BY <3>1, <3>3, <3>4 DEF PacketInv
    <3> QED BY <3>3, <3>4, <3>5 DEF Holds
  <2>7. Len(q2) \in Nat
    <3> DEFINE S == [addr : Addr, data : Word]
               c == [addr |-> dm[P].addr, data |-> dm[P].data]
    <3>1. q \in Seq(S) /\ c \in S
      BY StoreRegs
    <3> HIDE DEF S, c
    <3>2. Len(q) \in Nat /\ Len(Append(q, c)) \in Nat /\ Len(<<>>) \in Nat
      BY <3>1
    <3> QED BY <1>4, <3>2 DEF c
  <2>8. 0 \in 0 .. Len(q2)
    <3> HIDE DEF q2
    <3> QED BY <2>7
  <2> QED BY <2>2, <2>3, <2>4, <2>5, <2>6, <2>8 DEF PacketInv, Holds
<1> QED BY <1>7, <1>8

(* what loads bring back,                                                  *)
LEMMA AnswerStep ==
  ASSUME PortInv, LoadInv, LoadInv', AnswerInv, NEW rspval \in BOOLEAN, NEW invval \in BOOLEAN,
         CacheCycle(P, rspval, invval), memory' = memory, reads' = reads
  PROVE  AnswerInv'
<1>1. /\ CacheTypeOK /\ NocTypeOK /\ CacheInv(P) /\ P \in Procs /\ P \in Srcs
      /\ RequestInv(P) /\ ServiceInv(P) /\ BufferInv(P) /\ InvalInv(P) /\ FlightInv
      /\ ResponseOK(P) /\ DCacheFsm(P) /\ ReqFsm(P) /\ RspFsm(P, rspval)
      /\ rspval => rsp[P] # NoCell
      /\ rs[P].dOk <=> DataDone(P)
      /\ DataDone(P) => rs[P].fsm = "RSP_IDLE" /\ rq[P].fsm = "REQ_DWAIT"
  BY CycleFacts
<1>2. \/ ReqKeeps(P) \/ ReqStartsData(P) \/ ReqStartsWrite(P) \/ ReqStartsInst(P)
      \/ ReqSendsOneCell(P) \/ ReqSendsStore(P) \/ ReqEnds(P)
  BY <1>1, ReqEffect
<1>3. \/ RspKeeps(P, rspval) \/ RspStarts(P)
      \/ RspTakesLineCell(P, rspval) \/ RspTakesOneCell(P, rspval)
  BY <1>1, RspEffect
<1>4. /\ rs[P].cpt \in Nat /\ rs[P].buf \in [Offsets -> Word] /\ LineWords \in Nat \ {0}
      /\ reads.left \in Nat
  <2>1. rs[P] \in RsRegs
    BY <1>1, RegTypes
  <2> QED BY <2>1, SizeFacts DEF RsRegs, PortInv, MemTypeOK
<1>5. dm[P].req /\ ~DataDone(P) => SameRequest(P)
  BY <1>1, RequestHeld
<1>6. rs[P].fsm \in {"RSP_DMISS", "RSP_UNC"} =>
        /\ dm[P].req /\ ~DataDone(P) /\ DataRspState(P) = rs[P].fsm /\ ~rs[P].dOk
        /\ dc'[P].addr = dc[P].addr /\ LineBase' = LineBase
  <2>1. rs[P].fsm \in {"RSP_DMISS", "RSP_UNC"} =>
          dm[P].req /\ DataRspState(P) = rs[P].fsm /\ ~DataDone(P)
    BY <1>1, StateFacts DEF ServiceInv, ReqStates, OneCellStates, DataCellStates, DataRspState
  <2>2. rs[P].fsm \in {"RSP_DMISS", "RSP_UNC"} => dc'[P].addr = dc[P].addr
    BY <1>5, <2>1 DEF SameRequest
  <2> QED BY <1>1, <2>1, <2>2 DEF LineBase
<1>7. /\ TakeRsp(P) => rsp'[P] = NoCell
      /\ BothIdle(P) => cmd'[P] = NoCell /\ rsp[P] = NoCell /\ reads.left = 0
  <2>1. TakeRsp(P) => rsp'[P] = NoCell
    BY <1>1 DEF TakeRsp, NocTypeOK
  <2>2. BothIdle(P) => Nothing
    BY <1>1 DEF BothIdle, FlightInv
  <2>3. BothIdle(P) => cmd' = cmd
    BY <1>2 DEF BothIdle, ReqKeeps, ReqStartsData, ReqStartsWrite, ReqStartsInst,
       ReqSendsOneCell, OneCellStates, ReqSendsStore, ReqEnds
  <2> QED BY <2>1, <2>2, <2>3 DEF Nothing
(* The command of a load.                                                  *)
<1>8. ASSUME rs[P].fsm \in {"RSP_DMISS", "RSP_UNC"}
      PROVE  cmd'[P] = NoCell \/ cmd'[P] = cmd[P]
             \/ cmd'[P].addr = IF rs[P].fsm = "RSP_DMISS" THEN LineBase ELSE dc[P].addr
  <2>1. CASE ReqSendsOneCell(P)
    <3> DEFINE c == CommandCell(P)
    <3>1. /\ rq[P].fsm \in OneCellStates /\ cmd' = [cmd EXCEPT ![P] = c]
      BY <2>1 DEF ReqSendsOneCell
    <3>2. rq[P].fsm # "REQ_IMISS" /\ rq[P].fsm \in DataCellStates
      BY <1>1, <1>8, <3>1 DEF ServiceInv, DataCellStates
    <3>3. rq[P].fsm = DataReqState(P) /\ rq[P].addr = dc[P].addr
      BY <1>1, <3>2 DEF ServiceInv
    <3>4. c.addr = CommandAddr(P)
      BY <1>1, <3>1, CommandFacts
    <3>5. rq[P].fsm = "REQ_DMISS" <=> rs[P].fsm = "RSP_DMISS"
      <4>1. CASE dc[P].ll \/ dc[P].sc
        BY <1>6, <1>8, <3>3, <4>1 DEF DataRspState, DataReqState
      <4>2. CASE ~dc[P].ll /\ ~dc[P].sc
        BY <1>6, <1>8, <3>3, <4>2 DEF DataRspState, DataReqState
      <4> QED BY <4>1, <4>2
    <3> HIDE DEF c
    <3>6. cmd'[P] = c
      BY <1>1, <3>1 DEF NocTypeOK
    <3> QED BY <1>8, <3>2, <3>3, <3>4, <3>5, <3>6 DEF CommandAddr, LineBase
  <2>2. CASE ReqSendsStore(P)
    BY <1>1, <1>8, <2>2 DEF ReqSendsStore, ServiceInv, DataRspState, RequestInv
  <2> QED BY <1>2, <2>1, <2>2
          DEF ReqKeeps, ReqStartsData, ReqStartsWrite, ReqStartsInst, ReqEnds
<1>9. ASSUME rs'[P].fsm = "RSP_DMISS"
      PROVE  /\ cmd'[P] # NoCell => cmd'[P].addr = LineBase'
             /\ reads'.left > 0 => reads'.addr = LineBase' + rs'[P].cpt + Arrived'
             /\ rsp'[P] # NoCell /\ ~rsp'[P].error =>
                  rsp'[P].data = memory'[LineBase' + rs'[P].cpt]
             /\ ~rs'[P].dRetry =>
                  \A x \in Offsets : x < rs'[P].cpt => rs'[P].buf[x] = memory'[LineBase' + x]
  <2>1. CASE RspStarts(P)
    <3>1. rs'[P].cpt = 0 /\ rsp' = rsp /\ BothIdle(P)
      BY <2>1 DEF RspStarts
    <3>2. \A x \in Offsets : ~(x < 0)
      BY <1>4 DEF Offsets
    <3> QED BY <1>4, <1>7, <3>1, <3>2
  <2>2. CASE RspKeeps(P, rspval)
    <3>1. /\ rs[P].fsm = "RSP_DMISS" /\ rsp' = rsp /\ rs'[P].cpt = rs[P].cpt
          /\ rs'[P].buf = rs[P].buf
          /\ rs'[P].dRetry <=> rs[P].dRetry
      BY <1>9, <2>2 DEF RspKeeps, FlagsAfter
    <3>2. LineBase' = LineBase /\ Arrived' = Arrived
      BY <1>6, <3>1 DEF Arrived
    <3>3. cmd'[P] # NoCell => cmd'[P].addr = LineBase
      BY <1>8, <3>1 DEF AnswerInv
    <3> QED BY <3>1, <3>2, <3>3 DEF AnswerInv
  <2>3. CASE RspTakesLineCell(P, rspval)
    <3>1. /\ rs[P].fsm = "RSP_DMISS" /\ rspval /\ rsp'[P] = NoCell /\ rsp[P] # NoCell
          /\ rs'[P].cpt = rs[P].cpt + 1
          /\ rs'[P].buf = [rs[P].buf EXCEPT ![rs[P].cpt] = rsp[P].data]
          /\ rs'[P].dRetry <=> rs[P].dRetry \/ rsp[P].error
      BY <1>1, <1>7, <1>9, <2>3 DEF RspTakesLineCell, FlagsAfter
    <3>2. LineBase' = LineBase /\ Arrived' = 0 /\ Arrived = 1
      BY <1>6, <3>1 DEF Arrived
    <3>3. cmd'[P] = NoCell
      <4>1. cmd[P] = NoCell /\ rq[P].fsm \in {"REQ_IDLE", "REQ_DWAIT", "REQ_IWAIT"}
        BY <1>1, <3>1 DEF ResponseOK, FlightInv
      <4> QED BY <1>2, <4>1 DEF ReqKeeps, ReqStartsData, ReqStartsWrite, ReqStartsInst,
              ReqSendsOneCell, OneCellStates, ReqSendsStore, ReqEnds
    <3>4. reads.left > 0 => reads.addr = LineBase' + rs'[P].cpt + Arrived'
      <4>1. reads.left > 0 => reads.addr = LineBase + rs[P].cpt + 1
        BY <3>1, <3>2 DEF AnswerInv
      <4>2. LineBase + rs[P].cpt + 1 = LineBase + (rs[P].cpt + 1) + 0
        <5>1. LineBase \in Int
          <6>1. dc[P] \in DcRegs
            BY <1>1, RegTypes
          <6>2. dc[P].addr \in Addr
            BY <6>1 DEF DcRegs
          <6> QED BY <6>2, AddrTypes DEF LineBase, Addr
        <5> HIDE DEF LineBase
        <5> QED BY <1>4, <5>1
      <4> QED BY <3>1, <3>2, <4>1, <4>2
    <3>5. ASSUME ~rs'[P].dRetry, NEW x \in Offsets, x < rs'[P].cpt
          PROVE  rs'[P].buf[x] = memory[LineBase + x]
      <4>1. ~rs[P].dRetry /\ ~rsp[P].error /\ x \in Int
        BY <1>4, <3>1, <3>5 DEF Offsets
      <4>2. CASE x = rs[P].cpt
        BY <1>4, <3>1, <4>1, <4>2 DEF AnswerInv
      <4>3. CASE x # rs[P].cpt
        <5>1. x < rs[P].cpt
          BY <1>4, <3>1, <3>5, <4>1, <4>3
        <5> QED BY <1>4, <3>1, <4>1, <4>3, <5>1 DEF AnswerInv
      <4> QED BY <4>2, <4>3
    <3> QED BY <3>1, <3>2, <3>3, <3>4, <3>5
  <2> QED BY <1>3, <1>9, <2>1, <2>2, <2>3 DEF RspTakesOneCell
<1>10. ASSUME rs'[P].fsm = "RSP_UNC"
       PROVE  /\ cmd'[P] # NoCell => cmd'[P].addr = dc'[P].addr
              /\ reads'.left > 0 => reads'.addr = dc'[P].addr
              /\ rsp'[P] # NoCell /\ ~rsp'[P].error => rsp'[P].data = memory'[dc'[P].addr]
  <2>1. CASE RspStarts(P)
    BY <1>4, <1>7, <2>1 DEF RspStarts
  <2>2. CASE RspKeeps(P, rspval)
    <3>1. rs[P].fsm = "RSP_UNC" /\ rsp' = rsp
      BY <1>10, <2>2 DEF RspKeeps
    <3>2. cmd'[P] # NoCell => cmd'[P].addr = dc[P].addr
      BY <1>8, <3>1 DEF AnswerInv
    <3> QED BY <1>6, <3>1, <3>2 DEF AnswerInv
  <2> QED BY <1>3, <1>10, <2>1, <2>2 DEF RspTakesOneCell, RspTakesLineCell
(* RSP_OK.                                                                 *)
<1>11. ASSUME dm'[P].req, rs'[P].dOk
       PROVE  IF Filling(P)' THEN HasLine' ELSE rs'[P].unc = memory'[dc'[P].addr]
  <2>1. /\ ~DataDone(P) /\ ~rs[P].dOk /\ rsp[P] # NoCell /\ ~rsp[P].error
        /\ rs[P].fsm = DataRspState(P)
        /\ \/ dm[P].flush /\ WriteAnswered(P, rspval)
           \/ dm[P].req /\ rs[P].fsm = "RSP_UNC" /\ RspTakesOneCell(P, rspval)
           \/ /\ dm[P].req /\ rs[P].fsm = "RSP_DMISS" /\ RspTakesLineCell(P, rspval)
              /\ LastOfLine(P) /\ ~rs[P].dRetry
    BY <1>11, OkAt
  <2>2. dm[P].req /\ SameRequest(P)
    BY <1>1, <1>11, <2>1, RequestHeld DEF SameRequest, RequestInv
  <2>3. (dc'[P].unc \/ dc'[P].ll \/ dc'[P].sc) <=> rs[P].fsm = "RSP_UNC"
    BY <2>1, <2>2 DEF DataRspState, SameRequest
  <2>4. Filling(P)' <=> rs[P].fsm # "RSP_UNC"
    <3>1. RequestInv(P)'
      BY <1>1, RequestStep DEF CacheCycle
    <3>2. Loading'
      BY <1>11, <3>1 DEF RequestInv, Loading
    <3> QED BY <2>3, <3>2 DEF LoadInv
  <2>5. CASE rs[P].fsm = "RSP_UNC"
    <3>1. rs'[P].unc = rsp[P].data
      BY <2>1, <2>2, <2>5 DEF RspTakesOneCell, RequestInv, WriteAnswered
    <3> QED BY <1>6, <2>1, <2>4, <2>5, <3>1 DEF AnswerInv
  <2>6. CASE rs[P].fsm # "RSP_UNC"
    <3>1. /\ rs[P].fsm = "RSP_DMISS" /\ RspTakesLineCell(P, rspval)
          /\ LastOfLine(P) /\ ~rs[P].dRetry
      BY <1>1, <2>1, <2>2, <2>6 DEF RequestInv
    <3>2. rs'[P].buf = [rs[P].buf EXCEPT ![rs[P].cpt] = rsp[P].data]
      BY <3>1 DEF RspTakesLineCell
    <3>3. rsp[P].data = memory[LineBase + rs[P].cpt]
      BY <2>1, <3>1 DEF AnswerInv
    <3>4. ASSUME NEW x \in Offsets
          PROVE  rs'[P].buf[x] = memory[LineBase + x]
      <4>1. x = rs[P].cpt \/ x < rs[P].cpt
        BY <1>4, <3>1 DEF Offsets, LastOfLine
      <4>2. CASE x = rs[P].cpt
        BY <1>4, <3>2, <3>3, <4>2
      <4>3. CASE x < rs[P].cpt
        <5>1. x # rs[P].cpt
          BY <1>4, <4>3
        <5> QED BY <1>4, <3>1, <3>2, <4>3, <5>1 DEF AnswerInv
      <4> QED BY <4>1, <4>2, <4>3
    <3> QED BY <1>6, <2>4, <2>6, <3>1, <3>4 DEF HasLine
  <2> QED BY <2>5, <2>6
(* The state that answers the processor.                                   *)
<1>12. ASSUME dc'[P].fsm \in {"DCACHE_MISSUPDT", "DCACHE_UNC_LL_SC_GO"}
       PROVE  IF dc'[P].fsm = "DCACHE_MISSUPDT" THEN HasLine'
              ELSE rs'[P].unc = memory'[dc'[P].addr]
  <2>1. \/ TakesAway(P) \/ Idles(P) \/ StoresWord(P) \/ Misses(P) \/ AsksWord(P)
        \/ UpdatesWord(P) \/ Waits(P) \/ FillsLine(P) \/ DropsLine(P) \/ Invalidates(P)
    BY <1>1, DcShape
  <2>2. /\ rs[P].dOk /\ Waiting(P) /\ SameData(P)
        /\ dc'[P].fsm = "DCACHE_MISSUPDT" <=> Filling(P)
    <3>1. CASE Waits(P)
      BY <1>12, <3>1 DEF Waits, WaitStates, Waiting, Filling
    <3>2. CASE Invalidates(P)
      BY <1>1, <1>12, <3>2 DEF Invalidates, WaitStates, Waiting, Filling, InvalInv
    <3> QED BY <1>12, <2>1, <3>1, <3>2
            DEF TakesAway, Idles, StoresWord, Misses, AsksWord, UpdatesWord, FillsLine, DropsLine
  <2>3. IF Filling(P) THEN HasLine ELSE rs[P].unc = memory[dc[P].addr]
    BY <1>1, <2>2 DEF AnswerInv, RequestInv
  <2>4. rs'[P].buf = rs[P].buf /\ rs'[P].unc = rs[P].unc
    BY <1>1, <1>3, <2>2 DEF RspKeeps, RspStarts, BothIdle, RspTakesLineCell, RspTakesOneCell
  <2> QED BY <1>12, <2>2, <2>3, <2>4 DEF HasLine, LineBase, SameData
<1> HIDE DEF LineBase, HasLine
<1> QED BY <1>9, <1>10, <1>11, <1>12 DEF AnswerInv

(* the lines.                                                              *)
LEMMA LineStep ==
  ASSUME PortInv, AskInv, StoreInv, PacketInv, AnswerInv, LineInv,
         PartialAt \subseteq PageStarts, NEW rspval \in BOOLEAN, NEW invval \in BOOLEAN,
         CacheCycle(P, rspval, invval), memory' = memory
  PROVE  LineInv'
<1> DEFINE lat  == [a \in Addr |-> Latest(a)]
           lat2 == [a \in Addr |-> Latest(a)']
<1>1. /\ DataRegsOK /\ P \in Procs /\ RequestInv(P) /\ PrevInv(P) /\ DCacheFsm(P)
  BY CycleFacts, DataPart DEF InvalInv, PrevInv
<1>2. /\ LinesWait(P)
      /\ \A a \in Addr : HasCopy(P, Block(a)) => CopyAfter(P, a) = lat[a]
  BY DEF LineInv
<1>3. ASSUME dc[P].fsm = "DCACHE_MISSUPDT", NEW a \in Addr, Block(a) = Block(dc[P].addr)
      PROVE  rs[P].buf[Offset(a)] = lat[a]
  <2>1. LineBase + Offset(a) = a /\ Offset(a) \in Offsets
    BY <1>3, AddrSplit, AddrTypes DEF LineBase
  <2>2. rs[P].buf[Offset(a)] = memory[a]
    BY <1>3, <2>1 DEF AnswerInv, HasLine
  <2>3. ~dm[P].pending
    BY <1>1, <1>3 DEF RequestInv
  <2>4. InBuffer(a) = {}
    BY <2>3, CellFacts DEF InBuffer
  <2> QED BY <2>2, <2>3, <2>4 DEF Latest
<1>4. ASSUME NEW a \in Addr
      PROVE  lat2[a] = IF TakesStore(P) /\ a = cpu[P].addr
                       THEN Merge(lat[a], cpu[P].data, cpu[P].be) ELSE lat[a]
  BY LatestKept, LatestStored
<1> HIDE DEF lat, lat2
<1>5. LinesWait(P)' /\ \A a \in Addr : HasCopy(P, Block(a))' => CopyAfter(P, a)' = lat2[a]
  BY <1>1, <1>2, <1>3, <1>4, AnyLineStep
<1> QED BY <1>5 DEF LineInv, lat2

-----------------------------------------------------------------------------
LEMMA ViewInit == Init => ViewInv
<1> SUFFICES ASSUME Init PROVE ViewInv
  OBVIOUS
<1>1. PortInv /\ P \in Procs /\ P \in Srcs
  BY PortInit, OneProc
<1>2. /\ cpu[P] = NoReq /\ dc[P].fsm = "DCACHE_IDLE" /\ dc[P].addr = 0
      /\ ~dm[P].pending /\ ~dm[P].flush /\ ~dm[P].req
      /\ rq[P].fsm = "REQ_IDLE" /\ rs[P].fsm = "RSP_IDLE" /\ ~rs[P].dOk
      /\ cmd[P] = NoCell /\ types \in Workloads /\ staged = memory
      /\ \A y \in Slots : tag[P][y] = NoBlock
  BY <1>1 DEF Init, CacheInit, NocInit
<1>3. AskInv /\ LoadInv /\ StoreInv
  BY <1>2 DEF AskInv, LoadInv, StoreInv, Loading, Waiting, WaitStates
<1>4. PacketInv
  <2>1. ~Writing /\ Sent = 0 /\ Taken = 0
    BY <1>2 DEF Writing, Sent, Taken
  <2> QED BY <1>1, <1>2, <2>1, StoreRegs DEF PacketInv
<1>5. AnswerInv
  BY <1>2 DEF AnswerInv
<1>6. LineInv
  <2>1. \A a \in Addr : ~HasCopy(P, Block(a))
    <3> TAKE a \in Addr
    <3>1. Slot(Block(a)) \in Slots /\ Block(a) # NoBlock
      BY AddrTypes, NoBlockAssumption
    <3> QED BY <1>2, <3>1 DEF HasCopy
  <2> QED BY <1>2, <2>1 DEF LineInv, LinesWait, Filling
<1> QED BY <1>1, <1>3, <1>4, <1>5, <1>6 DEF ViewInv

(* What neither cache nor memory does leaves the invariant alone.          *)
LEMMA ViewFrame ==
  ASSUME ViewInv,
         UNCHANGED <<types, cpu, dc, tag, line, dm, wb, rq, rs, cmd, rsp, memory, staged, reads>>
  PROVE  /\ AskInv' /\ LoadInv' /\ StoreInv' /\ PacketInv' /\ AnswerInv' /\ LineInv'
         /\ \A a \in Addr : Latest(a)' = Latest(a)
<1>1. \A a \in Addr : Latest(a)' = Latest(a)
  BY DEF Latest, InBuffer
<1>2. AskInv' /\ LoadInv' /\ StoreInv'
  BY DEF ViewInv, AskInv, LoadInv, StoreInv, Loading, Waiting, Filling
<1>3. PacketInv'
  BY DEF ViewInv, PacketInv, Writing, Sent, Taken, Holds
<1>4. AnswerInv'
  BY DEF ViewInv, AnswerInv, LineBase, HasLine, Arrived, Filling
<1>5. LineInv'
  BY <1>1 DEF ViewInv, LineInv, HasCopy, LinesWait, CopyAfter, CopyIn, Filling
<1> QED BY <1>1, <1>2, <1>3, <1>4, <1>5

(* The processor asks.                                                     *)
LEMMA AskStep ==
  ASSUME ViewInv, CpuRequest
  PROVE  /\ AskInv' /\ LoadInv' /\ StoreInv' /\ PacketInv' /\ AnswerInv' /\ LineInv'
         /\ \A a \in Addr : Latest(a)' = Latest(a)
         /\ cpu'[P] # NoReq
<1>1. /\ CacheTypeOK /\ P \in Procs /\ types \in Workloads
      /\ UNCHANGED <<types, dc, tag, line, dm, wb, rq, rs, cmd, rsp, memory, staged, reads>>
      /\ cpu[P] = NoReq
  BY OneProc DEF ViewInv, PortInv, AskInv, CpuRequest, nocVars, memVars
<1>2. PICK t \in types \cap DataTypes, a \in Used : \E be \in ByteEnables(t, a), d \in StoreData(t) :
        cpu' = [cpu EXCEPT ![P] = [type |-> t, addr |-> a, data |-> d, be |-> be]]
  BY DEF CpuRequest
<1>3. PICK be \in ByteEnables(t, a), d \in StoreData(t) :
        cpu' = [cpu EXCEPT ![P] = [type |-> t, addr |-> a, data |-> d, be |-> be]]
  BY <1>2
<1> DEFINE r == [type |-> t, addr |-> a, data |-> d, be |-> be]
<1>4. cpu'[P] = r
  BY <1>1, <1>3 DEF CacheTypeOK
<1>5. t # "DATA_SC"
  BY <1>1, <1>2, WorkloadsAssumption DEF DataTypes
<1>6. be = Lanes \/ (t = "DATA_WRITE" /\ a \in PartialAt)
  BY <1>3 DEF ByteEnables
<1>7. r # NoReq
  <2>1. be \in (SUBSET Lanes) \ {{}} /\ d \in Word /\ t \in DataTypes /\ a \in Addr
    <3>1. be \in (SUBSET Lanes) \ {{}}
      BY <1>3, LanesAssumption DEF ByteEnables
    <3>2. d \in Word
      BY <1>3, WordTypes DEF StoreData, Word
    <3> QED BY <1>2, <3>1, <3>2, UsedAssumption
  <2>2. r \in DataReq
    BY <2>1 DEF DataReq
  <2> HIDE DEF r
  <2> QED BY <2>2, NoReqAssumption
<1>8. AskInv'
  BY <1>1, <1>4, <1>5, <1>6 DEF AskInv
<1>9. ~Loading
  BY <1>1 DEF ViewInv, LoadInv
<1>10. LoadInv'
  BY <1>1, <1>9 DEF LoadInv, Loading, Waiting
<1>11. \A x \in Addr : Latest(x)' = Latest(x)
  BY <1>1 DEF Latest, InBuffer
<1>12. StoreInv'
  BY <1>1 DEF ViewInv, StoreInv
<1>13. PacketInv'
  BY <1>1 DEF ViewInv, PacketInv, Writing, Sent, Taken, Holds
<1>14. AnswerInv'
  BY <1>1 DEF ViewInv, AnswerInv, LineBase, HasLine, Arrived, Filling
<1>15. LineInv'
  BY <1>1, <1>11 DEF ViewInv, LineInv, HasCopy, LinesWait, CopyAfter, CopyIn, Filling
<1> HIDE DEF r
<1> QED BY <1>4, <1>7, <1>8, <1>10, <1>11, <1>12, <1>13, <1>14, <1>15

(* Memory takes a cell of the write packet; with the last one it performs  *)
(* the packet, or refuses it, and no word that the stores left changes.    *)
LEMMA WriteStep ==
  ASSUME ViewInv, MemTakeWrite
  PROVE  /\ AskInv' /\ LoadInv' /\ StoreInv' /\ PacketInv' /\ AnswerInv' /\ LineInv'
         /\ \A a \in Addr : Latest(a)' = Latest(a)
<1> DEFINE c    == cmd[P]
           q    == wb[P].cells
           n    == Len(q)
           d    == dm[P]
           next == [staged EXCEPT ![c.addr] = Merge(staged[c.addr], c.data, c.be)]
<1>1. /\ PortInv /\ CacheTypeOK /\ NocTypeOK /\ CacheInv(P) /\ ServiceInv(P) /\ RequestInv(P)
      /\ FlightInv /\ MemTypeOK /\ P \in Procs /\ P \in Srcs
  BY OneProc DEF ViewInv, PortInv, CacheInv
<1>2. /\ Writing /\ cmd' = [cmd EXCEPT ![P] = NoCell]
      /\ UNCHANGED <<types, cpu, dc, tag, line, dm, wb, rq, rs, reads>>
  BY DEF MemTakeWrite, Writing, cacheVars
<1>3. \/ ~c.eop /\ staged' = next /\ rsp' = rsp /\ memory' = memory
      \/ /\ c.eop
         /\ \E e \in BOOLEAN : Respond(Zero, e, TRUE) /\ memory' = IF e THEN memory ELSE next
         /\ staged' = memory'
  BY DEF MemTakeWrite, Errors
<1>4. /\ d.flush /\ ~d.req /\ ~rs[P].dOk /\ rs[P].fsm = "RSP_WRITE" /\ rsp[P] = NoCell
      /\ rq[P].fsm \in {"REQ_WRITE", "REQ_DWAIT"} /\ rq[P].cpt \in Nat
  BY <1>1, <1>2, PacketFacts DEF InPacket
<1>5. /\ c.eop => rq[P].fsm = "REQ_DWAIT"
      /\ ~c.eop => rq[P].fsm = "REQ_WRITE"
  BY <1>1, <1>2, <1>4 DEF FlightInv, Writing
<1>6. cmd'[P] = NoCell /\ ~Writing'
  BY <1>1, <1>2 DEF NocTypeOK, Writing
<1>7. /\ Sent \in 1 .. n /\ Sent = rq[P].cpt /\ Taken = Sent - 1
      /\ c.addr = q[Sent].addr /\ c.data = q[Sent].data /\ c.be = d.wf
      /\ c.eop <=> Sent = n
  BY <1>2 DEF ViewInv, PacketInv, Sent, Taken
<1>8. /\ n \in Nat /\ staged \in [Addr -> Word]
      /\ \A i \in 1 .. n : q[i].addr \in Addr /\ q[i].data \in Word
      /\ \A a \in Addr : memory[a] \in Word /\ staged[a] \in Word
      /\ \A i, j \in 1 .. n : q[i].addr = q[j].addr => i = j
      /\ q[n].addr = d.addr /\ d.pending /\ n > 0
  BY <1>1, <1>4, StoreRegs, CellFacts DEF MemTypeOK
<1>9. q[n].data = d.data /\ d.wf = d.wl
  BY <1>4, <1>8 DEF ViewInv, StoreInv
<1>10. ASSUME NEW a \in Addr
       PROVE  /\ (\A i \in 1 .. Taken : q[i].addr # a) => staged[a] = memory[a]
              /\ \A i \in 1 .. Taken : q[i].addr = a => staged[a] = Merge(memory[a], q[i].data, d.wf)
  BY DEF ViewInv, PacketInv
<1> HIDE DEF n, q, d
<1>11. ASSUME NEW a \in Addr
       PROVE  /\ (\A i \in 1 .. Sent : q[i].addr # a) => next[a] = memory[a]
              /\ \A i \in 1 .. Sent : q[i].addr = a => next[a] = Merge(memory[a], q[i].data, d.wf)
  <2>1. \A i \in 1 .. Sent : i \in 1 .. Taken \/ i = Sent
    BY <1>7, <1>8
  <2>2. \A i \in 1 .. Taken : i \in 1 .. Sent /\ i \in 1 .. n /\ i # Sent
    BY <1>7, <1>8
  <2>3. Sent \in 1 .. n /\ Sent \in 1 .. Sent
    BY <1>7, <1>8
  <2>4. CASE a = c.addr
    <3>1. \A i \in 1 .. Taken : q[i].addr # a
      BY <1>7, <1>8, <2>2, <2>3, <2>4
    <3>2. next[a] = Merge(memory[a], q[Sent].data, d.wf)
      BY <1>7, <1>8, <1>10, <2>4, <3>1
    <3>3. \A i \in 1 .. Sent : q[i].addr = a => i = Sent
      BY <2>1, <3>1
    <3> HIDE DEF next
    <3> QED BY <1>7, <2>3, <2>4, <3>2, <3>3
  <2>5. CASE a # c.addr
    <3>1. next[a] = staged[a]
      BY <1>8, <2>5
    <3>2. \A i \in 1 .. Sent : q[i].addr = a => i \in 1 .. Taken
      BY <1>7, <2>1, <2>5
    <3> HIDE DEF next
    <3> QED BY <1>10, <2>2, <3>1, <3>2
  <2> QED BY <2>4, <2>5
<1> HIDE DEF next, c
(* The staged words, and the packet that is acknowledged.                  *)
<1>12. ASSUME ~c.eop PROVE PacketInv' /\ \A a \in Addr : Latest(a)' = Latest(a)
  <2>1. staged' = next /\ rsp' = rsp /\ memory' = memory /\ rq[P].fsm = "REQ_WRITE"
    BY <1>3, <1>5, <1>12
  <2>2. Sent' = Sent /\ Taken' = Sent
    BY <1>2, <1>6, <1>7, <2>1 DEF Sent, Taken
  <2>3. PacketInv'
    <3>1. Taken' \in 0 .. n /\ rsp'[P] = NoCell /\ ~rs'[P].dOk
      BY <1>2, <1>4, <1>7, <1>8, <2>1, <2>2
    <3>2. ASSUME NEW a \in Addr
          PROVE  /\ (\A i \in 1 .. Taken' : wb'[P].cells[i].addr # a) => staged'[a] = memory'[a]
                 /\ \A i \in 1 .. Taken' : wb'[P].cells[i].addr = a =>
                      staged'[a] = Merge(memory'[a], wb'[P].cells[i].data, dm'[P].wf)
      BY <1>2, <1>11, <2>1, <2>2 DEF q, d
    <3> QED BY <1>2, <1>6, <3>1, <3>2 DEF PacketInv, n, q
  <2>4. \A a \in Addr : Latest(a)' = Latest(a)
    BY <1>2, <2>1 DEF Latest, InBuffer
  <2> QED BY <2>3, <2>4
<1>13. ASSUME c.eop PROVE PacketInv' /\ \A a \in Addr : Latest(a)' = Latest(a)
  <2>1. PICK e \in BOOLEAN : Respond(Zero, e, TRUE) /\ memory' = IF e THEN memory ELSE next
    BY <1>3, <1>13
  <2>2. staged' = memory' /\ rq[P].fsm = "REQ_DWAIT" /\ Sent = n
    BY <1>3, <1>5, <1>7, <1>13
  <2>3. Sent' = 0 /\ Taken' = 0
    BY <1>2, <1>6, <2>2 DEF Sent, Taken
  <2>4. rsp'[P].error = e
    BY <1>1, <2>1 DEF Respond, NocTypeOK
  <2>5. ASSUME ~e, NEW i \in 1 .. n
        PROVE  Holds(q[i].addr, q[i].data, d.wf)'
    <3> DEFINE a == q[i].addr
               x == q[i].data
    <3>1. memory'[a] = Merge(memory[a], x, d.wf)
      BY <1>8, <1>11, <2>1, <2>2, <2>5
    <3>2. memory[a] \in Word /\ x \in Word
      BY <1>8
    <3> HIDE DEF a, x
    <3>3. Merge(memory'[a], x, d.wf) = memory'[a]
      BY <3>1, <3>2, MergeFacts
    <3> QED BY <1>2, <3>3 DEF Holds, a, x, q, d
  <2>6. PacketInv'
    <3>1. ~rs'[P].dOk /\ 0 \in 0 .. n /\ 1 .. 0 = {}
      BY <1>2, <1>4, <1>8
    <3>2. wb' = wb /\ dm' = dm
      BY <1>2
    <3>3. ~rsp'[P].error => \A i \in 1 .. Len(wb'[P].cells) :
            Holds(wb[P].cells[i].addr, wb[P].cells[i].data, dm[P].wf)'
      BY <2>4, <2>5, <3>2 DEF n, q, d
    <3> QED BY <1>6, <2>2, <2>3, <3>1, <3>2, <3>3 DEF PacketInv, n, q, Holds
  <2>7. ASSUME NEW a \in Addr PROVE Latest(a)' = Latest(a)
    <3>1. Latest(a) = Visible(memory, d, q, a) /\ Latest(a)' = Visible(memory', d, q, a)
      BY <1>2, LatestVisible DEF d, q
    <3>2. CASE e
      BY <2>1, <3>1, <3>2
    <3>3. CASE ~e /\ InInput(d, a)
      <4>1. memory'[a] = Merge(memory[a], d.data, d.wl)
        <5>1. n \in 1 .. n /\ q[n].addr = a
          BY <1>8, <3>3 DEF InInput
        <5> QED BY <1>9, <1>11, <2>1, <2>2, <3>3, <5>1
      <4>2. Merge(memory'[a], d.data, d.wl) = memory'[a]
        <5>1. memory[a] \in Word /\ d.data \in Word
          BY <1>1, <1>8, StoreRegs DEF d
        <5> QED BY <4>1, <5>1, MergeFacts
      <4>3. /\ Visible(memory, d, q, a) = Merge(memory[a], d.data, d.wl)
            /\ Visible(memory', d, q, a) = Merge(memory'[a], d.data, d.wl)
        BY <3>3, VisibleFacts
      <4> QED BY <3>1, <4>1, <4>2, <4>3
    <3>4. CASE ~e /\ ~InInput(d, a) /\ Where(q, a) # {}
      <4> HIDE DEF q, d
      <4> QED BY <3>1, <3>4, VisibleFacts
    <3>5. CASE ~e /\ ~InInput(d, a) /\ Where(q, a) = {}
      <4>1. \A i \in 1 .. n : q[i].addr # a
        <5>1. DOMAIN q = 1 .. n
          BY <1>1, StoreRegs DEF q, n
        <5> QED BY <3>5, <5>1 DEF Where
      <4>2. memory'[a] = memory[a]
        BY <1>11, <2>1, <2>2, <3>5, <4>1
      <4>3. Visible(memory, d, q, a) = memory[a] /\ Visible(memory', d, q, a) = memory'[a]
        BY <3>5, VisibleFacts
      <4> QED BY <3>1, <4>2, <4>3
    <3> QED BY <3>2, <3>3, <3>4, <3>5
  <2> QED BY <2>6, <2>7
<1>14. PacketInv' /\ \A a \in Addr : Latest(a)' = Latest(a)
  BY <1>12, <1>13
<1>15. AskInv' /\ LoadInv' /\ StoreInv'
  BY <1>2 DEF ViewInv, AskInv, LoadInv, StoreInv, Loading, Waiting, Filling
<1>16. AnswerInv'
  <2>1. dc[P].fsm \notin {"DCACHE_MISSUPDT", "DCACHE_UNC_LL_SC_GO"}
    BY <1>1, <1>8 DEF RequestInv, d
  <2> QED BY <1>2, <1>4, <2>1 DEF AnswerInv, d
<1>17. LineInv'
  BY <1>2, <1>14 DEF ViewInv, LineInv, HasCopy, LinesWait, CopyAfter, CopyIn, Filling
<1> QED BY <1>14, <1>15, <1>16, <1>17

(* Memory takes a read, and answers it word by word.                       *)
LEMMA ReadStep ==
  ASSUME ViewInv, MemTakeRead \/ MemAnswerRead
  PROVE  /\ AskInv' /\ LoadInv' /\ StoreInv' /\ PacketInv' /\ AnswerInv' /\ LineInv'
         /\ \A a \in Addr : Latest(a)' = Latest(a)
<1>1. /\ PortInv /\ CacheTypeOK /\ NocTypeOK /\ ServiceInv(P) /\ FlightInv /\ MemTypeOK
      /\ P \in Procs /\ P \in Srcs
  BY OneProc DEF ViewInv, PortInv, CacheInv
<1>2. UNCHANGED <<types, cpu, dc, tag, line, dm, wb, rq, rs, memory, staged>>
  BY DEF MemTakeRead, MemAnswerRead, cacheVars
<1>3. /\ rs[P].cpt \in Nat /\ LineBase \in Nat /\ dc[P].addr \in Nat /\ rq[P].fsm \in ReqStates
      /\ reads.left \in Nat /\ reads.addr \in Nat
  <2>1. rs[P] \in RsRegs /\ dc[P] \in DcRegs /\ rq[P] \in RqRegs
    BY <1>1, RegTypes
  <2>2. dc[P].addr \in Addr
    BY <2>1 DEF DcRegs
  <2>3. LineBase \in Nat /\ dc[P].addr \in Nat
    BY <2>2, AddrTypes, NbWordsAssumption DEF LineBase, Addr
  <2> QED BY <1>1, <2>1, <2>3, SizeFacts DEF RsRegs, RqRegs, MemTypeOK
<1>4. \A a \in Addr : Latest(a)' = Latest(a)
  BY <1>2 DEF Latest, InBuffer
<1>5. AskInv' /\ LoadInv' /\ StoreInv'
  BY <1>2 DEF ViewInv, AskInv, LoadInv, StoreInv, Loading, Waiting, Filling
<1>6. LineInv'
  BY <1>2, <1>4 DEF ViewInv, LineInv, HasCopy, LinesWait, CopyAfter, CopyIn, Filling
<1>7. HasLine' <=> HasLine
  BY <1>2 DEF HasLine, LineBase
<1>8. Filling(P)' <=> Filling(P)
  BY <1>2 DEF Filling
<1>9. ASSUME rs[P].fsm # "RSP_WRITE", Writing' = FALSE, Writing = FALSE
      PROVE  PacketInv'
  <2>1. Sent' = Sent /\ Taken' = Taken
    BY <1>2, <1>9 DEF Sent, Taken
  <2> QED BY <1>2, <1>9, <2>1 DEF ViewInv, PacketInv, Holds
<1>10. CASE MemTakeRead
  <2>1. /\ cmd[P] # NoCell /\ cmd[P].cmd # "WRITE"
        /\ reads' = [addr |-> cmd[P].addr, left |-> cmd[P].cells]
        /\ cmd' = [cmd EXCEPT ![P] = NoCell] /\ rsp' = rsp
    BY <1>10 DEF MemTakeRead
  <2>2. rsp[P] = NoCell /\ rs[P].cpt = 0 /\ rs[P].fsm # "RSP_WRITE" /\ cmd'[P] = NoCell
    BY <1>1, <2>1 DEF FlightInv, NocTypeOK, LineRsp
  <2>3. PacketInv'
    BY <1>9, <2>1, <2>2 DEF Writing
  <2>4. ASSUME rs[P].fsm = "RSP_DMISS"
        PROVE  cmd[P].addr = LineBase + 0 + 0
    BY <1>3, <2>1, <2>4 DEF ViewInv, AnswerInv
  <2>5. rs[P].fsm = "RSP_UNC" => cmd[P].addr = dc[P].addr
    BY <2>1 DEF ViewInv, AnswerInv
  <2>6. Arrived' = 0 /\ LineBase' = LineBase /\ reads'.addr = cmd[P].addr
    BY <1>2, <2>1, <2>2 DEF Arrived, LineBase
  <2> HIDE DEF LineBase, HasLine, Arrived
  <2>7. AnswerInv'
    BY <1>2, <1>7, <1>8, <2>1, <2>2, <2>4, <2>5, <2>6 DEF ViewInv, AnswerInv
  <2> QED BY <1>4, <1>5, <1>6, <2>3, <2>7
<1>11. CASE MemAnswerRead
  <2>1. PICK e \in BOOLEAN : Respond(IF e THEN Zero ELSE memory[reads.addr], e, reads.left = 1)
    BY <1>11 DEF MemAnswerRead, Errors
  <2>2. /\ reads.left > 0 /\ rsp[P] = NoCell /\ cmd' = cmd
        /\ reads' = [addr |-> reads.addr + 1, left |-> reads.left - 1]
    BY <1>11 DEF MemAnswerRead
  <2>3. /\ rsp'[P].error = e
        /\ ~e => rsp'[P].data = memory[reads.addr]
    BY <1>1, <2>1 DEF Respond, NocTypeOK
  <2>4. /\ cmd[P] = NoCell /\ Arrived = 0 /\ rs[P].fsm # "RSP_IDLE"
        /\ rq[P].fsm \in {"REQ_IDLE", "REQ_DWAIT", "REQ_IWAIT"}
    BY <1>1, <1>3, <2>2 DEF FlightInv, Nothing, ReqStates, Arrived
  <2>5. rs[P].fsm # "RSP_WRITE" /\ (rs[P].fsm = "RSP_UNC" => 0 + reads.left = 1)
    BY <1>1, <2>2, <2>4 DEF FlightInv
  <2>6. PacketInv'
    BY <1>9, <2>2, <2>4, <2>5 DEF Writing
  <2>7. /\ rs[P].fsm = "RSP_DMISS" => reads.addr = LineBase + rs[P].cpt + 0
        /\ rs[P].fsm = "RSP_UNC" => reads.addr = dc[P].addr
    BY <2>2, <2>4 DEF ViewInv, AnswerInv
  <2>8. Arrived' \in {0, 1} /\ LineBase' = LineBase /\ (rsp'[P] # NoCell => Arrived' = 1)
    BY <1>2 DEF Arrived, LineBase
  <2>9. rsp'[P] # NoCell
    <3> DEFINE x == [data |-> IF e THEN Zero ELSE memory[reads.addr], ok |-> FALSE, error |-> e,
                     eop |-> reads.left = 1]
    <3>1. reads.addr \in Addr
      BY <1>1, <1>3, <2>2, NbWordsAssumption DEF MemTypeOK, Addr
    <3>2. (IF e THEN Zero ELSE memory[reads.addr]) \in Word
      BY <1>1, <3>1, WordTypes DEF MemTypeOK
    <3>3. x \in RspCell
      BY <3>2 DEF RspCell
    <3>4. rsp'[P] = x
      BY <1>1, <2>1 DEF Respond, NocTypeOK
    <3> HIDE DEF x
    <3> QED BY <3>3, <3>4, NoCellAssumption
  <2>10. /\ rs[P].fsm = "RSP_DMISS" =>
              /\ reads.addr = LineBase + rs[P].cpt
              /\ reads'.addr = LineBase + rs[P].cpt + 1
         /\ rs[P].fsm = "RSP_UNC" => ~(reads'.left > 0)
    <3> HIDE DEF LineBase
    <3>1. reads'.addr = reads.addr + 1 /\ reads'.left = reads.left - 1
      BY <2>2
    <3> QED BY <1>3, <2>5, <2>7, <3>1
  <2> HIDE DEF LineBase, HasLine, Arrived
  <2>11. AnswerInv'
    BY <1>2, <1>7, <1>8, <2>2, <2>3, <2>4, <2>5, <2>7, <2>8, <2>9, <2>10 DEF ViewInv, AnswerInv
  <2> QED BY <1>4, <1>5, <1>6, <2>6, <2>11
<1> QED BY <1>10, <1>11

(* Every step keeps the invariant.  The words the stores left change in    *)
(* the steps of the cache only.                                            *)
LEMMA ViewNext ==
  ASSUME ViewInv, PartialAt \subseteq PageStarts, [Next]_vars
  PROVE  /\ ViewInv'
         /\ ~CacheStep => \A a \in Addr : Latest(a)' = Latest(a)
<1>1. PortInv'
  BY PortNext DEF ViewInv
<1>2. CASE CacheStep
  <2>1. PICK rspval \in BOOLEAN, invval \in BOOLEAN : CacheCycle(P, rspval, invval)
    BY <1>2 DEF CacheStep
  <2>2. types' = types /\ memory' = memory /\ staged' = staged /\ reads' = reads
    BY <1>2 DEF CacheStep, memVars
  <2>3. LoadInv' /\ AskInv'
    BY <2>1, <2>2, LoadStep DEF ViewInv
  <2>4. StoreInv'
    BY <2>1, <2>2, StoreStep DEF ViewInv
  <2>5. PacketInv'
    BY <2>1, <2>2, PacketStep DEF ViewInv
  <2>6. AnswerInv'
    BY <2>1, <2>2, <2>3, AnswerStep DEF ViewInv
  <2>7. LineInv'
    BY <2>1, <2>2, LineStep DEF ViewInv
  <2> QED BY <1>1, <1>2, <2>3, <2>4, <2>5, <2>6, <2>7 DEF ViewInv
<1>3. CASE CpuRequest
  BY <1>1, <1>3, AskStep DEF ViewInv
<1>4. CASE MemTakeRead \/ MemAnswerRead
  BY <1>1, <1>4, ReadStep DEF ViewInv
<1>5. CASE MemTakeWrite
  BY <1>1, <1>5, WriteStep DEF ViewInv
<1>6. CASE FetchRequest \/ MemInval \/ MemTakeAck \/ UNCHANGED vars
  <2>1. UNCHANGED <<types, cpu, dc, tag, line, dm, wb, rq, rs, cmd, rsp, memory, staged, reads>>
    BY <1>6 DEF FetchRequest, MemInval, MemTakeAck, vars, nocVars, cacheVars, memVars
  <2>2. /\ AskInv' /\ LoadInv' /\ StoreInv' /\ PacketInv' /\ AnswerInv' /\ LineInv'
        /\ \A a \in Addr : Latest(a)' = Latest(a)
    BY <2>1, ViewFrame
  <2> QED BY <1>1, <2>2 DEF ViewInv
<1> QED BY <1>2, <1>3, <1>4, <1>5, <1>6 DEF Next

-----------------------------------------------------------------------------
(* What the processor sees of a cycle: a store, an answer to a load, an    *)
(* extension, or nothing.                                                  *)
LEMMA LoadFacts ==
  ASSUME ViewInv, CacheStep,
         DcLoadHit(P) \/ DcMissUpdate(P) \/ DcUncachedGo(P)
  PROVE  /\ cpu[P] # NoReq /\ cpu[P].type \in {"DATA_READ", "DATA_LL"}
         /\ cpu'[P] = NoReq /\ got' = Latest(cpu[P].addr) /\ ~TakesStore(P)
<1> DEFINE r == cpu[P]
           a == cpu[P].addr
<1>1. /\ PortInv /\ CacheTypeOK /\ P \in Procs /\ RequestInv(P) /\ cpu[P] \in DataReq \cup {NoReq}
      /\ cpu \in [Procs -> DataReq \cup {NoReq}]
  BY OneProc, RegTypes DEF ViewInv, PortInv, CacheInv, CacheTypeOK
<1>2. AnswerCpu(P)
  BY DEF DcLoadHit, DcMissUpdate, DcUncachedGo
<1>3. cpu'[P] = NoReq
  BY <1>1, <1>2 DEF AnswerCpu
<1>4. got' = CASE DcLoadHit(P)    -> line[P][Slot(Block(a))][Offset(a)]
               [] DcMissUpdate(P) -> rs[P].buf[Offset(a)]
               [] DcUncachedGo(P) -> rs[P].unc
               [] OTHER           -> got
  BY DEF CacheStep
<1>5. /\ DcLoadHit(P) => dc[P].fsm = "DCACHE_IDLE"
      /\ DcMissUpdate(P) => dc[P].fsm = "DCACHE_MISSUPDT"
      /\ DcUncachedGo(P) => dc[P].fsm = "DCACHE_UNC_LL_SC_GO"
      /\ TakesStore(P) => dc[P].fsm = "DCACHE_IDLE" /\ cpu[P].type = "DATA_WRITE"
  BY DEF DcLoadHit, CachedLoad, Proceeds, DcMissUpdate, DcUncachedGo, TakesStore,
     DcFirstStore, DcMerge, DcBurst, Gathers, Merges, Continues
<1>6. ASSUME ~dm[P].pending PROVE Latest(a) = memory[a]
  <2>1. wb[P].cells = <<>>
    BY <1>1, <1>6, CellFacts
  <2>2. InBuffer(a) = {}
    BY <2>1 DEF InBuffer
  <2> QED BY <1>6, <2>2 DEF Latest
<1>7. CASE DcLoadHit(P)
  <2>1. /\ dc[P].fsm = "DCACHE_IDLE" /\ r # NoReq /\ r.type = "DATA_READ" /\ Hit(P, a)
    BY <1>7 DEF DcLoadHit, CachedLoad, Proceeds
  <2>2. ~DcMissUpdate(P) /\ ~DcUncachedGo(P)
    BY <1>5, <2>1
  <2>3. got' = line[P][Slot(Block(a))][Offset(a)]
    BY <1>4, <1>7, <2>2, Zenon
  <2>4. a \in Addr
    BY <1>1, <2>1 DEF DataReq
  <2>5. HasCopy(P, Block(a)) /\ CopyAfter(P, a) = CopyIn(P, a)
    BY <2>1 DEF HasCopy, Filling, Hit, CopyAfter
  <2>6. CopyIn(P, a) = Latest(a)
    BY <2>4, <2>5 DEF ViewInv, LineInv
  <2> QED BY <1>3, <1>5, <2>1, <2>3, <2>6 DEF CopyIn
<1>8. CASE DcMissUpdate(P)
  <2>1. /\ dc[P].fsm = "DCACHE_MISSUPDT" /\ ~DcLoadHit(P) /\ ~DcUncachedGo(P)
    BY <1>5, <1>8
  <2>2. got' = rs[P].buf[Offset(a)]
    BY <1>4, <1>8, <2>1, Zenon
  <2>3. r # NoReq /\ r.type \in {"DATA_READ", "DATA_LL"} /\ dc[P].addr = a
    BY <2>1 DEF ViewInv, LoadInv, Loading
  <2>4. a \in Addr
    BY <1>1, <2>3 DEF DataReq
  <2>5. Offset(a) \in Offsets /\ LineBase + Offset(a) = a
    BY <2>3, <2>4, AddrTypes, AddrSplit DEF LineBase
  <2>6. rs[P].buf[Offset(a)] = memory[a]
    BY <2>1, <2>5 DEF ViewInv, AnswerInv, HasLine
  <2>7. ~dm[P].pending
    BY <1>1, <2>1 DEF RequestInv
  <2> QED BY <1>3, <1>5, <1>6, <2>1, <2>2, <2>3, <2>6, <2>7
<1>9. CASE DcUncachedGo(P)
  <2>1. /\ dc[P].fsm = "DCACHE_UNC_LL_SC_GO" /\ ~DcLoadHit(P) /\ ~DcMissUpdate(P)
    BY <1>5, <1>9
  <2>2. got' = rs[P].unc
    BY <1>4, <1>9, <2>1, Zenon
  <2>3. r # NoReq /\ r.type \in {"DATA_READ", "DATA_LL"} /\ dc[P].addr = a
    BY <2>1 DEF ViewInv, LoadInv, Loading
  <2>4. rs[P].unc = memory[a]
    BY <2>1, <2>3 DEF ViewInv, AnswerInv
  <2>5. ~dm[P].pending
    BY <1>1, <2>1 DEF RequestInv
  <2> QED BY <1>3, <1>5, <1>6, <2>1, <2>2, <2>3, <2>4, <2>5
<1> QED BY <1>7, <1>8, <1>9

LEMMA OtherFacts ==
  ASSUME ViewInv, CacheStep,
         ~(DcLoadHit(P) \/ DcMissUpdate(P) \/ DcUncachedGo(P))
  PROVE  /\ got' = got
         /\ \/ /\ TakesStore(P) /\ cpu'[P] = NoReq
               /\ cpu[P] # NoReq /\ cpu[P].type = "DATA_WRITE" /\ cpu[P].addr \in Addr
            \/ /\ ~TakesStore(P) /\ cpu'[P] = NoReq
               /\ cpu[P] # NoReq /\ cpu[P].type \in {"XTN_SYNC", "XTN_DCACHE_INVAL"}
            \/ ~TakesStore(P) /\ cpu'[P] = cpu[P]
<1>1. /\ P \in Procs /\ cpu[P] \in DataReq \cup {NoReq} /\ cpu \in [Procs -> DataReq \cup {NoReq}]
      /\ DCacheFsm(P)
  BY OneProc, RegTypes DEF ViewInv, PortInv, CacheTypeOK, CacheStep, CacheCycle
<1>2. got' = got
  <2>1. got' = CASE DcLoadHit(P)    -> line[P][Slot(Block(cpu[P].addr))][Offset(cpu[P].addr)]
                 [] DcMissUpdate(P) -> rs[P].buf[Offset(cpu[P].addr)]
                 [] DcUncachedGo(P) -> rs[P].unc
                 [] OTHER           -> got
    BY DEF CacheStep
  <2>2. ~DcLoadHit(P) /\ ~DcMissUpdate(P) /\ ~DcUncachedGo(P)
    OBVIOUS
  <2> QED BY <2>1, <2>2, Zenon
<1>3. AnswerCpu(P) => cpu'[P] = NoReq
  BY <1>1 DEF AnswerCpu
<1>4. CASE TakesStore(P)
  <2>1. AnswerCpu(P) /\ cpu[P] # NoReq /\ cpu[P].type = "DATA_WRITE"
    BY <1>4 DEF TakesStore, DcFirstStore, DcMerge, DcBurst, AcceptStore, Gathers, Proceeds,
       Merges, Continues
  <2>2. cpu[P].addr \in Addr
    BY <1>1, <2>1 DEF DataReq
  <2> QED BY <1>2, <1>3, <1>4, <2>1, <2>2
<1>5. CASE ~TakesStore(P)
  <2>1. CASE DcSync(P) \/ DcXtnInval(P)
    <3>1. AnswerCpu(P) /\ cpu[P] # NoReq /\ cpu[P].type \in {"XTN_SYNC", "XTN_DCACHE_INVAL"}
      BY <2>1 DEF DcSync, DcXtnInval, Proceeds
    <3> QED BY <1>2, <1>3, <1>5, <3>1
  <2>2. CASE ~(DcSync(P) \/ DcXtnInval(P))
    <3>1. cpu' = cpu
      BY <1>1, <1>5, <2>2 DEF TakesStore, DCacheFsm, DcTakeInval, DcNoRequest, DcFlush, DcStall,
         DcLoadMiss, DcUncached, DcWriteUpdate, DcWait, DcCpuInval, DcRamInval
    <3> QED BY <1>2, <1>5, <3>1
  <2> QED BY <2>1, <2>2
<1> QED BY <1>4, <1>5

LEMMA PortStep ==
  ASSUME ViewInv, PartialAt \subseteq PageStarts, [Next]_vars
  PROVE  [Port!AmNext]_(Port!amVars)
<1> DEFINE m == [a \in Addr |-> Latest(a)]
<1>1. ASSUME \A a \in Addr : Latest(a)' = Latest(a) PROVE m' = m
  BY <1>1
<1> SUFFICES Port!AmNext \/ UNCHANGED <<m, cpu[P], got>>
  BY DEF Port!amVars
<1> USE DEF Port!AmNext
<1>2. CASE CacheStep
  <2>1. PICK rspval \in BOOLEAN, invval \in BOOLEAN : CacheCycle(P, rspval, invval)
    BY <1>2 DEF CacheStep
  <2>2. memory' = memory /\ P \in Procs /\ cpu[P] \in DataReq \cup {NoReq}
    BY <1>2, OneProc, RegTypes DEF CacheStep, memVars, ViewInv, PortInv
  <2>3. ~TakesStore(P) => m' = m
    BY <1>1, <2>1, <2>2, LatestKept DEF ViewInv
  <2>4. CASE DcLoadHit(P) \/ DcMissUpdate(P) \/ DcUncachedGo(P)
    <3>1. /\ cpu[P] # NoReq /\ cpu[P].type \in {"DATA_READ", "DATA_LL"}
          /\ cpu'[P] = NoReq /\ got' = Latest(cpu[P].addr) /\ ~TakesStore(P)
      BY <1>2, <2>4, LoadFacts
    <3>2. cpu[P].addr \in Addr
      BY <2>2, <3>1 DEF DataReq
    <3>3. got' = m[cpu[P].addr]
      BY <3>1, <3>2
    <3> HIDE DEF m
    <3>4. m' = m
      BY <2>3, <3>1
    <3> USE DEF m
    <3>5. Port!Load
      BY <3>1, <3>3, <3>4 DEF Port!Load, Port!Loads
    <3> QED BY <3>5
  <2>5. CASE ~(DcLoadHit(P) \/ DcMissUpdate(P) \/ DcUncachedGo(P))
    <3>1. /\ got' = got
          /\ \/ /\ TakesStore(P) /\ cpu'[P] = NoReq
                /\ cpu[P] # NoReq /\ cpu[P].type = "DATA_WRITE" /\ cpu[P].addr \in Addr
             \/ /\ ~TakesStore(P) /\ cpu'[P] = NoReq
                /\ cpu[P] # NoReq /\ cpu[P].type \in {"XTN_SYNC", "XTN_DCACHE_INVAL"}
             \/ ~TakesStore(P) /\ cpu'[P] = cpu[P]
      BY <1>2, <2>5, OtherFacts
    <3>2. CASE TakesStore(P)
      <4>1. \A a \in Addr : Latest(a)' = IF a = cpu[P].addr
                                         THEN Merge(Latest(a), cpu[P].data, cpu[P].be)
                                         ELSE Latest(a)
        BY <2>1, <2>2, <3>2, LatestStored DEF ViewInv
      <4>2. m' = [m EXCEPT ![cpu[P].addr] = Merge(m[cpu[P].addr], cpu[P].data, cpu[P].be)]
        BY <3>1, <3>2, <4>1
      <4>3. Port!Store
        BY <3>1, <3>2, <4>2 DEF Port!Store, Port!Merge, Merge
      <4> QED BY <4>3
    <3>3. CASE ~TakesStore(P) /\ cpu'[P] = cpu[P]
      BY <2>3, <3>1, <3>3
    <3>4. CASE ~TakesStore(P) /\ cpu'[P] # cpu[P]
      <4>1. Port!Extension
        BY <2>3, <3>1, <3>4 DEF Port!Extension
      <4> QED BY <4>1
    <3> QED BY <3>2, <3>3, <3>4
  <2> QED BY <2>4, <2>5
<1>3. CASE ~CacheStep
  <2>1. m' = m
    BY <1>1, <1>3, ViewNext
  <2>2. CASE CpuRequest
    <3>1. cpu[P] = NoReq /\ cpu'[P] # NoReq /\ got' = got
      BY <2>2, AskStep DEF CpuRequest
    <3>2. Port!Issue
      BY <2>1, <3>1 DEF Port!Issue
    <3> QED BY <3>2
  <2>3. CASE ~CpuRequest
    <3>1. cpu' = cpu /\ got' = got
      BY <1>3, <2>3 DEF Next, FetchRequest, MemTakeRead, MemAnswerRead, MemTakeWrite, MemInval,
         MemTakeAck, vars, cacheVars
    <3> QED BY <2>1, <3>1
  <2> QED BY <2>2, <2>3
<1> QED BY <1>2, <1>3

LEMMA PortStart == Init => Port!AmInit
<1> SUFFICES ASSUME Init PROVE Port!AmInit
  OBVIOUS
<1>1. P \in Procs
  BY OneProc
<1>2. cpu[P] = NoReq /\ ~dm[P].pending /\ wb[P].cells = <<>> /\ got = Zero
      /\ \A a \in Addr : memory[a] = Zero
  BY <1>1 DEF Init, CacheInit
<1>3. \A a \in Addr : Latest(a) = Zero
  <2>1. \A a : InBuffer(a) = {}
    BY <1>2 DEF InBuffer
  <2> QED BY <1>2, <2>1 DEF Latest
<1>4. [a \in Addr |-> Latest(a)] \in [Addr -> Word]
  BY <1>3, WordTypes
<1> QED BY <1>2, <1>4 DEF Port!AmInit, Port!Addr, Addr, Port!Word, Word, Port!Zero, Zero

(* Behind its port the processor sees a plain memory, whatever the memory  *)
(* refuses and invalidates, when the words that are stored in part are     *)
(* among those that a burst does not run into.                             *)
THEOREM PortRefinesMemory ==
  ASSUME PartialAt \subseteq PageStarts
  PROVE  Spec => PortIsAtomicMemory
<1>1. Init => ViewInv /\ Port!AmInit
  BY ViewInit, PortStart
<1>2. ViewInv /\ [Next]_vars => ViewInv' /\ [Port!AmNext]_(Port!amVars)
  BY ViewNext, PortStep
<1> QED BY <1>1, <1>2, PTL DEF Spec, PortIsAtomicMemory, Port!AmSpec
=============================================================================
