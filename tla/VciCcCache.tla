----------------------------- MODULE VciCcCache -----------------------------
(***************************************************************************)
(* The coherent cache VciCcCache: five state machines (ICACHE, DCACHE,     *)
(* REQ, RSP, INV), one write buffer, and a processor (an ISS of the SoCLib *)
(* library, external) that holds a request until it is answered.           *)
(*                                                                         *)
(* CacheCycle(p, rspval, invval) is one rising edge of the clock of cache  *)
(* p: every state machine reads the registers as they were before the edge *)
(* and their conjunction writes them.  rspval and invval say whether the   *)
(* cell in flight, if any, has reached the cache.  A register written by   *)
(* two machines is written by the one that the code evaluates last.        *)
(*                                                                         *)
(* The registers are grouped by the machine that owns them.  The state     *)
(* after reset is that at the end of the *_INIT states: all tags invalid.  *)
(***************************************************************************)
EXTENDS VciNoc, Sequences

CONSTANTS
  NbLines,     \* s_dcache_lines, s_icache_lines
  Cached,      \* m_cacheability_table: the cacheable addresses
  PageStarts,  \* the addresses a write burst does not run into
  NoReq        \* the processor has no request

ASSUME NbLinesAssumption    == NbLines \in Nat \ {0}
ASSUME CachedAssumption     == Cached \subseteq Addr
ASSUME PageStartsAssumption == PageStarts \subseteq Addr

VARIABLES
  cpu,    \* cpu[p]: the data request of the processor
  fetch,  \* fetch[p]: the address of its instruction request
  dc,     \* DCACHE_FSM: state, state before RAMINVAL, saved request
  tag,    \* s_DCACHE_TAG
  line,   \* s_DCACHE_DATA
  dm,     \* data requests to memory: REQ, PENDING_WRITE, FLUSH_WB_REQ,
          \*   FIRST_CELL, the *_FIFO_INPUT cell, WF/WL_BE_SAVE, BURST_SIZE
  wb,     \* the write buffer
  ic,     \* ICACHE_FSM: state, ICACHE_MISS_ADDR_SAVE, ICACHE_MISS_REQ
  itag,   \* s_ICACHE_TAG; what instructions say is not modelled
  rq,     \* VCI_REQ_FSM: state, cell to send, REQ_CPT
  rs,     \* VCI_RSP_FSM: state, RSP_CPT, buffers, *RSP_OK, *RETRY_REQ
  iv      \* VCI_INV_FSM: state, RAM_INV_ADDR, DCACHE_RAM_INVAL_REQ

cacheVars == <<cpu, fetch, dc, tag, line, dm, wb, ic, itag, rq, rs, iv>>

DataTypes == {"DATA_READ", "DATA_WRITE", "DATA_LL", "DATA_SC",
              "XTN_SYNC", "XTN_DCACHE_INVAL"}
DataReq   == [type : DataTypes, addr : Addr, data : Word, be : (SUBSET Lanes) \ {{}}]

ASSUME NoReqAssumption == NoReq \notin DataReq /\ NoReq \notin Addr

Slots   == 0 .. NbLines - 1
Offsets == 0 .. LineWords - 1
Slot(b)   == b % NbLines
Offset(a) == a % LineWords

CacheInit ==
  /\ cpu   = [p \in Procs |-> NoReq]
  /\ fetch = [p \in Procs |-> NoReq]
  /\ dc = [p \in Procs |-> [fsm |-> "DCACHE_IDLE", prev |-> "DCACHE_IDLE", addr |-> 0,
                            data |-> Zero, be |-> Lanes, unc |-> FALSE,
                            ll |-> FALSE, sc |-> FALSE]]
  /\ tag  = [p \in Procs |-> [y \in Slots |-> NoBlock]]
  /\ line = [p \in Procs |-> [y \in Slots |-> [x \in Offsets |-> Zero]]]
  /\ dm = [p \in Procs |-> [req |-> FALSE, pending |-> FALSE, flush |-> FALSE,
                            first |-> FALSE, addr |-> 0, data |-> Zero,
                            wf |-> Lanes, wl |-> Lanes, size |-> 0]]
  /\ wb = [p \in Procs |-> [cells |-> <<>>, ptr |-> 0]]
  /\ ic = [p \in Procs |-> [fsm |-> "ICACHE_IDLE", addr |-> 0, req |-> FALSE]]
  /\ itag = [p \in Procs |-> [y \in Slots |-> NoBlock]]
  /\ rq = [p \in Procs |-> [fsm |-> "REQ_IDLE", addr |-> 0, data |-> Zero, cpt |-> 0]]
  /\ rs = [p \in Procs |-> [fsm |-> "RSP_IDLE", cpt |-> 0,
                            buf |-> [x \in Offsets |-> Zero], unc |-> Zero, cond |-> FALSE,
                            dOk |-> FALSE, iOk |-> FALSE, dRetry |-> FALSE, iRetry |-> FALSE]]
  /\ iv = [p \in Procs |-> [fsm |-> "INV_IDLE", block |-> Block(0), req |-> FALSE]]

-----------------------------------------------------------------------------
(* GenericBuffer: a queue whose reads only move a pointer, so that the     *)
(* cells are still there when the packet must be sent again.               *)

BufferSize     == LineWords
EmptyBuffer    == [cells |-> <<>>, ptr |-> 0]
FilledStatus(b) == Len(b.cells) - b.ptr
Rok(b)         == FilledStatus(b) # 0
Wok(b)         == Len(b.cells) # BufferSize
ReadCell(b)    == b.cells[b.ptr + 1]
SimplePut(b, c) == IF Wok(b) THEN [b EXCEPT !.cells = Append(@, c)] ELSE b
SimpleGet(b)   == IF Rok(b) THEN [b EXCEPT !.ptr = @ + 1] ELSE b

(* Mutant: the pointer stays where the refused packet left it. *)
KeepRead(b) == b

InitRead(b) == [b EXCEPT !.ptr = 0]

-----------------------------------------------------------------------------
(* What the machines see of each other.                                    *)

Hit(p, a)  == tag[p][Slot(Block(a))] = Block(a)
IHit(p, a) == itag[p][Slot(Block(a))] = Block(a)

(* REQ_FSM sees the end of the request it waits for. *)
DataDone(p) == rq[p].fsm = "REQ_DWAIT" /\ rs[p].dOk
InstDone(p) == rq[p].fsm = "REQ_IWAIT" /\ rs[p].iOk

(* DCACHE_FSM looks at the request of the processor. *)
Proceeds(p) == dc[p].fsm = "DCACHE_IDLE" /\ ~iv[p].req /\ cpu[p] # NoReq

(* A store is waiting in the FIFO_INPUT cell for the next data request.    *)
Gathers(p) == Proceeds(p) /\ dm[p].pending /\ ~dm[p].flush

(* The next request is a store to the next word, in the same page, and the *)
(* write buffer can take one more cell.                                    *)
Continues(p) ==
  /\ dm[p].wl = Lanes
  /\ cpu[p].type = "DATA_WRITE" /\ cpu[p].addr = dm[p].addr + 1
  /\ 0 \in cpu[p].be
  /\ FilledStatus(wb[p]) # BufferSize - 1
  /\ cpu[p].addr \notin PageStarts

(* The next request is a store to the following bytes of the same word.    *)
Merges(p) ==
  /\ dm[p].wl # Lanes
  /\ cpu[p].type = "DATA_WRITE" /\ cpu[p].addr = dm[p].addr
  /\ \E l \in cpu[p].be :
       /\ \A k \in cpu[p].be : l <= k
       /\ l - 1 \in dm[p].wl /\ \A k \in dm[p].wl : k < l

(* The FIFO_INPUT cell enters the write buffer. *)
Puts(p) == Gathers(p) /\ ~Merges(p)

(* REQ_FSM takes a cell of the write buffer. *)
StartsWrite(p) ==
  rq[p].fsm = "REQ_IDLE" /\ rs[p].fsm = "RSP_IDLE" /\ ~dm[p].req /\ dm[p].flush
LastCell(p) == rq[p].cpt = dm[p].size - 1
Gets(p) ==
  \/ StartsWrite(p)
  \/ rq[p].fsm = "REQ_WRITE" /\ cmd[p] = NoCell /\ ~LastCell(p)

(* RSP_FSM takes the response to a write. *)
WriteAnswered(p, rspval) == rs[p].fsm = "RSP_WRITE" /\ rspval

WriteBuffer(p, rspval) ==
  wb' = [wb EXCEPT ![p] =
    IF WriteAnswered(p, rspval)
    THEN IF rsp[p].error THEN InitRead(@) ELSE EmptyBuffer
    ELSE IF Gets(p) THEN SimpleGet(@)
    ELSE IF Puts(p) THEN SimplePut(@, [addr |-> dm[p].addr, data |-> dm[p].data])
    ELSE @]

-----------------------------------------------------------------------------
(* DCACHE_FSM. *)

(* REQ_FSM, evaluated later, resets what DCACHE_FSM set. *)
SetDm(p, d) ==
  dm' = [dm EXCEPT ![p] = IF DataDone(p)
                          THEN [d EXCEPT !.req = FALSE, !.flush = FALSE, !.pending = FALSE]
                          ELSE d]

KeepDm(p)  == SetDm(p, dm[p])
AnswerCpu(p) == cpu' = [cpu EXCEPT ![p] = NoReq]
GoTo(p, s) == dc' = [dc EXCEPT ![p].fsm = s]
SetTag(p, b, t) == tag' = [tag EXCEPT ![p][Slot(b)] = t]

SaveAndGoTo(p, s) ==
  dc' = [dc EXCEPT ![p] = [fsm |-> s, prev |-> @.prev, addr |-> cpu[p].addr,
                           data |-> cpu[p].data, be |-> cpu[p].be,
                           unc |-> cpu[p].addr \notin Cached,
                           ll |-> cpu[p].type = "DATA_LL" /\ ~dm[p].pending,
                           sc |-> cpu[p].type = "DATA_SC" /\ ~dm[p].pending]]

(* Mutant: the line is not updated. *)
AcceptStoreOnly(p) == AnswerCpu(p) /\ SaveAndGoTo(p, "DCACHE_IDLE")

(* A store is acknowledged at once, and updates the line on a hit. *)
AcceptStore(p) ==
  /\ AnswerCpu(p)
  /\ SaveAndGoTo(p, IF Hit(p, cpu[p].addr) THEN "DCACHE_WUPDT" ELSE "DCACHE_IDLE")

(* An invalidation is taken in IDLE, before the processor's request, and   *)
(* in the two states that wait for memory.                                 *)
WaitStates == {"DCACHE_MISSWAIT", "DCACHE_UNC_LL_SC_WAIT"}
TakesInval(p) ==
  iv[p].req /\ \/ dc[p].fsm = "DCACHE_IDLE"
               \/ dc[p].fsm \in WaitStates /\ ~rs[p].dOk

DcTakeInval(p) ==
  /\ TakesInval(p)
  /\ dc' = [dc EXCEPT ![p].fsm = "DCACHE_RAMINVAL", ![p].prev = dc[p].fsm]
  /\ KeepDm(p) /\ UNCHANGED <<cpu, tag, line>>

DcNoRequest(p) ==
  /\ dc[p].fsm = "DCACHE_IDLE" /\ ~iv[p].req /\ cpu[p] = NoReq
  /\ KeepDm(p) /\ UNCHANGED <<cpu, dc, tag, line>>

DcBurst(p) ==
  /\ Gathers(p) /\ Continues(p)
  /\ AcceptStore(p)
  /\ SetDm(p, [dm[p] EXCEPT !.first = FALSE, !.addr = cpu[p].addr,
                            !.data = cpu[p].data, !.wl = cpu[p].be])
  /\ UNCHANGED <<tag, line>>

DcMerge(p) ==
  /\ Gathers(p) /\ Merges(p)
  /\ AcceptStore(p)
  /\ SetDm(p, [dm[p] EXCEPT !.data = Merge(@, cpu[p].data, cpu[p].be),
                            !.wl = @ \cup cpu[p].be,
                            !.wf = IF dm[p].first THEN @ \cup cpu[p].be ELSE @])
  /\ UNCHANGED <<tag, line>>

(* Mutant: the cell that enters the buffer in this cycle is forgotten. *)
BurstSizeBefore(p) == FilledStatus(wb[p])

BurstSize(p) == FilledStatus(wb[p]) + 1

DcFlush(p) ==
  /\ Gathers(p) /\ ~Continues(p) /\ ~Merges(p)
  /\ SaveAndGoTo(p, "DCACHE_IDLE")
  /\ SetDm(p, [dm[p] EXCEPT !.first = FALSE, !.flush = TRUE,
                            !.size = BurstSize(p)])
  /\ UNCHANGED <<cpu, tag, line>>

(* The request waits for the end of the flush. *)
DcStall(p) ==
  /\ Proceeds(p) /\ dm[p].pending /\ dm[p].flush
  /\ SaveAndGoTo(p, "DCACHE_IDLE")
  /\ KeepDm(p) /\ UNCHANGED <<cpu, tag, line>>

DcFirstStore(p) ==
  /\ Proceeds(p) /\ ~dm[p].pending /\ cpu[p].type = "DATA_WRITE"
  /\ AcceptStore(p)
  /\ SetDm(p, [dm[p] EXCEPT !.pending = TRUE, !.first = TRUE, !.addr = cpu[p].addr,
                            !.data = cpu[p].data, !.wf = cpu[p].be, !.wl = cpu[p].be])
  /\ UNCHANGED <<tag, line>>

(* Mutant: a load does not wait for the stores before it. *)
CachedLoadEarly(p) ==
  /\ Proceeds(p) /\ cpu[p].type = "DATA_READ" /\ cpu[p].addr \in Cached

CachedLoad(p) ==
  /\ Proceeds(p) /\ ~dm[p].pending
  /\ cpu[p].type = "DATA_READ" /\ cpu[p].addr \in Cached

DcLoadHit(p) ==
  /\ CachedLoad(p) /\ Hit(p, cpu[p].addr)
  /\ AnswerCpu(p) /\ SaveAndGoTo(p, "DCACHE_IDLE")
  /\ KeepDm(p) /\ UNCHANGED <<tag, line>>

(* The tag is set now, so that an invalidation that overtakes the response *)
(* finds it.                                                               *)
DcLoadMiss(p) ==
  /\ CachedLoad(p) /\ ~Hit(p, cpu[p].addr)
  /\ SaveAndGoTo(p, "DCACHE_MISSWAIT")
  /\ SetTag(p, Block(cpu[p].addr), Block(cpu[p].addr))
  /\ SetDm(p, [dm[p] EXCEPT !.req = TRUE])
  /\ UNCHANGED <<cpu, line>>

DcUncached(p) ==
  /\ Proceeds(p) /\ ~dm[p].pending
  /\ \/ cpu[p].type = "DATA_READ" /\ cpu[p].addr \notin Cached
     \/ cpu[p].type \in {"DATA_LL", "DATA_SC"}
  /\ SaveAndGoTo(p, "DCACHE_UNC_LL_SC_WAIT")
  /\ SetDm(p, [dm[p] EXCEPT !.req = TRUE])
  /\ UNCHANGED <<cpu, tag, line>>

DcSync(p) ==
  /\ Proceeds(p) /\ ~dm[p].pending /\ cpu[p].type = "XTN_SYNC"
  /\ AnswerCpu(p) /\ SaveAndGoTo(p, "DCACHE_IDLE")
  /\ KeepDm(p) /\ UNCHANGED <<tag, line>>

DcXtnInval(p) ==
  /\ Proceeds(p) /\ ~dm[p].pending /\ cpu[p].type = "XTN_DCACHE_INVAL"
  /\ AnswerCpu(p)
  /\ SaveAndGoTo(p, IF Hit(p, cpu[p].addr) THEN "DCACHE_CPUINVAL" ELSE "DCACHE_IDLE")
  /\ KeepDm(p) /\ UNCHANGED <<tag, line>>

DcWriteUpdate(p) ==
  /\ dc[p].fsm = "DCACHE_WUPDT"
  /\ line' = [line EXCEPT ![p][Slot(Block(dc[p].addr))][Offset(dc[p].addr)] =
                Merge(@, dc[p].data, dc[p].be)]
  /\ GoTo(p, "DCACHE_IDLE")
  /\ KeepDm(p) /\ UNCHANGED <<cpu, tag>>

DcWait(p) ==
  /\ dc[p].fsm \in WaitStates /\ ~TakesInval(p)
  /\ IF ~rs[p].dOk THEN UNCHANGED dc
     ELSE IF dc[p].fsm = "DCACHE_MISSWAIT" THEN GoTo(p, "DCACHE_MISSUPDT")
     ELSE GoTo(p, "DCACHE_UNC_LL_SC_GO")
  /\ KeepDm(p) /\ UNCHANGED <<cpu, tag, line>>

(* Mutant: the tag is set with the data. *)
DcMissUpdateTag(p) ==
  /\ dc[p].fsm = "DCACHE_MISSUPDT"
  /\ line' = [line EXCEPT ![p][Slot(Block(dc[p].addr))] = rs[p].buf]
  /\ SetTag(p, Block(dc[p].addr), Block(dc[p].addr))
  /\ AnswerCpu(p) /\ GoTo(p, "DCACHE_IDLE")
  /\ KeepDm(p)

DcMissUpdate(p) ==
  /\ dc[p].fsm = "DCACHE_MISSUPDT"
  /\ line' = [line EXCEPT ![p][Slot(Block(dc[p].addr))] = rs[p].buf]
  /\ AnswerCpu(p) /\ GoTo(p, "DCACHE_IDLE")
  /\ KeepDm(p) /\ UNCHANGED tag

(* The answer of memory reaches the processor; the line is dropped. *)
DcUncachedGo(p) ==
  /\ dc[p].fsm = "DCACHE_UNC_LL_SC_GO"
  /\ SetTag(p, Block(dc[p].addr), NoBlock)
  /\ AnswerCpu(p) /\ GoTo(p, "DCACHE_IDLE")
  /\ KeepDm(p) /\ UNCHANGED line

DcCpuInval(p) ==
  /\ dc[p].fsm = "DCACHE_CPUINVAL"
  /\ SetTag(p, Block(dc[p].addr), NoBlock)
  /\ GoTo(p, "DCACHE_IDLE")
  /\ KeepDm(p) /\ UNCHANGED <<cpu, line>>

(* Mutant: a RSP_OK that comes in RAMINVAL is lost. *)
AfterInvalPrev(p) == dc[p].prev

(* RSP_OK lasts one cycle: a waiting state must not be resumed without it. *)
AfterInval(p) ==
  IF ~rs[p].dOk THEN dc[p].prev
  ELSE CASE dc[p].prev = "DCACHE_MISSWAIT" -> "DCACHE_MISSUPDT"
         [] dc[p].prev = "DCACHE_UNC_LL_SC_WAIT" -> "DCACHE_UNC_LL_SC_GO"
         [] OTHER -> "DCACHE_RAMINVAL"

DcRamInval(p) ==
  /\ dc[p].fsm = "DCACHE_RAMINVAL"
  /\ IF tag[p][Slot(iv[p].block)] = iv[p].block
     THEN SetTag(p, iv[p].block, NoBlock)
     ELSE UNCHANGED tag
  /\ GoTo(p, AfterInval(p))
  /\ KeepDm(p) /\ UNCHANGED <<cpu, line>>

DCacheFsm(p) ==
  \/ DcTakeInval(p) \/ DcNoRequest(p)
  \/ DcBurst(p) \/ DcMerge(p) \/ DcFlush(p) \/ DcStall(p) \/ DcFirstStore(p)
  \/ DcLoadHit(p) \/ DcLoadMiss(p) \/ DcUncached(p) \/ DcSync(p) \/ DcXtnInval(p)
  \/ DcWriteUpdate(p) \/ DcWait(p) \/ DcMissUpdate(p) \/ DcUncachedGo(p)
  \/ DcCpuInval(p) \/ DcRamInval(p)

-----------------------------------------------------------------------------
(* ICACHE_FSM.  Nothing invalidates an instruction line. *)

SetIc(p, c) == ic' = [ic EXCEPT ![p] = [c EXCEPT !.req = c.req /\ ~InstDone(p)]]

IcIdle(p) ==
  /\ ic[p].fsm = "ICACHE_IDLE" /\ fetch[p] = NoReq
  /\ SetIc(p, ic[p]) /\ UNCHANGED <<fetch, itag>>

IcHit(p) ==
  /\ ic[p].fsm = "ICACHE_IDLE" /\ fetch[p] # NoReq /\ IHit(p, fetch[p])
  /\ fetch' = [fetch EXCEPT ![p] = NoReq]
  /\ SetIc(p, ic[p]) /\ UNCHANGED itag

IcMiss(p) ==
  /\ ic[p].fsm = "ICACHE_IDLE" /\ fetch[p] # NoReq /\ ~IHit(p, fetch[p])
  /\ SetIc(p, [fsm |-> "ICACHE_WAIT", addr |-> fetch[p], req |-> TRUE])
  /\ UNCHANGED <<fetch, itag>>

IcWait(p) ==
  /\ ic[p].fsm = "ICACHE_WAIT"
  /\ SetIc(p, [ic[p] EXCEPT !.fsm = IF rs[p].iOk THEN "ICACHE_UPDT" ELSE @])
  /\ UNCHANGED <<fetch, itag>>

IcUpdate(p) ==
  /\ ic[p].fsm = "ICACHE_UPDT"
  /\ itag' = [itag EXCEPT ![p][Slot(Block(ic[p].addr))] = Block(ic[p].addr)]
  /\ SetIc(p, [ic[p] EXCEPT !.fsm = "ICACHE_IDLE"])
  /\ UNCHANGED fetch

ICacheFsm(p) == IcIdle(p) \/ IcHit(p) \/ IcMiss(p) \/ IcWait(p) \/ IcUpdate(p)

-----------------------------------------------------------------------------
(* VCI_REQ_FSM, and the command cell it drives.                            *)

ReqIdle(p) ==
  /\ rq[p].fsm = "REQ_IDLE"
  /\ rq' = [rq EXCEPT ![p] =
       IF rs[p].fsm # "RSP_IDLE" THEN @
       ELSE IF dm[p].req
       THEN [fsm |-> CASE dc[p].ll -> "REQ_LL" [] dc[p].sc -> "REQ_SC"
                       [] OTHER -> IF dc[p].unc THEN "REQ_UNC" ELSE "REQ_DMISS",
             addr |-> dc[p].addr, data |-> IF dc[p].sc THEN dc[p].data ELSE @.data,
             cpt |-> 0]
       ELSE IF dm[p].flush
       THEN [fsm |-> "REQ_WRITE", addr |-> ReadCell(wb[p]).addr,
             data |-> ReadCell(wb[p]).data, cpt |-> 0]
       ELSE [@ EXCEPT !.fsm = IF ic[p].req THEN "REQ_IMISS" ELSE "REQ_IDLE",
                        !.cpt = 0]]
  /\ UNCHANGED cmd

CommandCell(p) ==
  LET f == rq[p].fsm
      Read(c, a, n) == [cmd |-> c, addr |-> a, data |-> Zero, be |-> Lanes,
                        cells |-> n, eop |-> TRUE]
  IN CASE f = "REQ_IMISS" -> Read("READ", Base(Block(ic[p].addr)), LineWords)
       [] f = "REQ_DMISS" -> Read("READ", Base(Block(rq[p].addr)), LineWords)
       [] f = "REQ_UNC"   -> [Read("READ", rq[p].addr, 1) EXCEPT !.be = dc[p].be]
       [] f = "REQ_LL"    -> Read("LOCKED_READ", rq[p].addr, 1)
       [] f = "REQ_SC"    -> [cmd |-> "STORE_COND", addr |-> rq[p].addr,
                              data |-> rq[p].data, be |-> dc[p].be,
                              cells |-> 1, eop |-> TRUE]
       [] f = "REQ_WRITE" -> [cmd |-> "WRITE", addr |-> rq[p].addr,
                              data |-> rq[p].data, be |-> dm[p].wf,
                              cells |-> dm[p].size, eop |-> ~Rok(wb[p])]

OneCellStates == {"REQ_IMISS", "REQ_DMISS", "REQ_UNC", "REQ_LL", "REQ_SC"}

(* cmdack: the place of the initiator on the request network is free. *)
ReqBlocked(p) ==
  /\ rq[p].fsm \in OneCellStates \cup {"REQ_WRITE"} /\ cmd[p] # NoCell
  /\ UNCHANGED <<rq, cmd>>

ReqOneCell(p) ==
  /\ rq[p].fsm \in OneCellStates /\ cmd[p] = NoCell
  /\ cmd' = [cmd EXCEPT ![p] = CommandCell(p)]
  /\ rq' = [rq EXCEPT ![p].fsm = IF @ = "REQ_IMISS" THEN "REQ_IWAIT" ELSE "REQ_DWAIT"]

ReqWrite(p) ==
  /\ rq[p].fsm = "REQ_WRITE" /\ cmd[p] = NoCell
  /\ cmd' = [cmd EXCEPT ![p] = CommandCell(p)]
  /\ rq' = [rq EXCEPT ![p] =
       IF LastCell(p)
       THEN [@ EXCEPT !.fsm = "REQ_DWAIT", !.cpt = rq[p].cpt + 1]
       ELSE [@ EXCEPT !.cpt = rq[p].cpt + 1, !.addr = ReadCell(wb[p]).addr,
                      !.data = ReadCell(wb[p]).data]]

(* Mutant: the retry of an instruction miss is forgotten. *)
ReqWaitNoRetry(p) ==
  /\ rq[p].fsm \in {"REQ_DWAIT", "REQ_IWAIT"}
  /\ LET over == IF rq[p].fsm = "REQ_DWAIT" THEN rs[p].dOk \/ rs[p].dRetry ELSE rs[p].iOk
     IN rq' = IF over THEN [rq EXCEPT ![p].fsm = "REQ_IDLE"] ELSE rq
  /\ UNCHANGED cmd

ReqWait(p) ==
  /\ rq[p].fsm \in {"REQ_DWAIT", "REQ_IWAIT"}
  /\ LET over == IF rq[p].fsm = "REQ_DWAIT" THEN rs[p].dOk \/ rs[p].dRetry
                                            ELSE rs[p].iOk \/ rs[p].iRetry
     IN rq' = IF over THEN [rq EXCEPT ![p].fsm = "REQ_IDLE"] ELSE rq
  /\ UNCHANGED cmd

ReqFsm(p) ==
  ReqIdle(p) \/ ReqBlocked(p) \/ ReqOneCell(p) \/ ReqWrite(p) \/ ReqWait(p)

-----------------------------------------------------------------------------
(* VCI_RSP_FSM. *)

(* The registers after REQ_FSM, evaluated before, cleared the RSP_OK. *)
RsNow(p) == [rs[p] EXCEPT !.dOk = @ /\ ~DataDone(p), !.iOk = @ /\ ~InstDone(p)]
SetRs(p, r) == rs' = [rs EXCEPT ![p] = r]

(* Mutant: RSP_CPT is not reset. *)
NewPacketNoCpt(r) == [r EXCEPT !.dRetry = FALSE, !.iRetry = FALSE]

NewPacket(r) == [r EXCEPT !.dRetry = FALSE, !.iRetry = FALSE, !.cpt = 0]

RspIdle(p) ==
  /\ rs[p].fsm = "RSP_IDLE"
  /\ SetRs(p, IF rq[p].fsm # "REQ_IDLE" THEN RsNow(p)
              ELSE [NewPacket(RsNow(p)) EXCEPT
                     !.fsm = IF dm[p].req
                             THEN IF dc[p].unc \/ dc[p].ll \/ dc[p].sc
                                  THEN "RSP_UNC" ELSE "RSP_DMISS"
                             ELSE IF dm[p].flush THEN "RSP_WRITE"
                             ELSE IF ic[p].req THEN "RSP_IMISS" ELSE @])
  /\ UNCHANGED rsp

RspWait(p, rspval) ==
  /\ rs[p].fsm # "RSP_IDLE" /\ ~rspval
  /\ SetRs(p, RsNow(p)) /\ UNCHANGED rsp

TakeRsp(p) == rsp' = [rsp EXCEPT ![p] = NoCell]

RspInst(p, rspval) ==
  /\ rs[p].fsm = "RSP_IMISS" /\ rspval
  /\ LET last == rs[p].cpt = LineWords - 1
     IN SetRs(p, [RsNow(p) EXCEPT
          !.cpt = @ + 1,
          !.fsm = IF last THEN "RSP_IDLE" ELSE @,
          !.iOk = @ \/ (last /\ ~rsp[p].error /\ ~rs[p].iRetry),
          !.iRetry = @ \/ rsp[p].error])
  /\ TakeRsp(p)

RspData(p, rspval) ==
  /\ rs[p].fsm = "RSP_DMISS" /\ rspval
  /\ LET last == rs[p].cpt = LineWords - 1
     IN SetRs(p, [RsNow(p) EXCEPT
          !.cpt = @ + 1,
          !.buf[rs[p].cpt] = rsp[p].data,
          !.fsm = IF last THEN "RSP_IDLE" ELSE @,
          !.dOk = @ \/ (last /\ ~rsp[p].error /\ ~rs[p].dRetry),
          !.dRetry = @ \/ rsp[p].error])
  /\ TakeRsp(p)

RspOneCell(p, rspval) ==
  /\ rs[p].fsm \in {"RSP_WRITE", "RSP_UNC"} /\ rspval
  /\ SetRs(p, [RsNow(p) EXCEPT
       !.unc  = IF rs[p].fsm = "RSP_UNC" THEN rsp[p].data ELSE @,
       !.cond = IF rs[p].fsm = "RSP_UNC" THEN rsp[p].ok ELSE @,
       !.fsm = "RSP_IDLE",
       !.dOk = @ \/ ~rsp[p].error,
       !.dRetry = @ \/ rsp[p].error])
  /\ TakeRsp(p)

RspFsm(p, rspval) ==
  \/ RspIdle(p) \/ RspWait(p, rspval)
  \/ RspInst(p, rspval) \/ RspData(p, rspval) \/ RspOneCell(p, rspval)

-----------------------------------------------------------------------------
(* VCI_INV_FSM.  The flag goes up one cycle before the address is saved,   *)
(* and INV_RSP is reached only after DCACHE_FSM took the flag down.        *)

SetIv(p, i) == iv' = [iv EXCEPT ![p] = i]
IvNow(p)    == [iv[p] EXCEPT !.req = @ /\ ~TakesInval(p)]

IvIdle(p, invval) ==
  /\ iv[p].fsm = "INV_IDLE"
  /\ SetIv(p, IF invval THEN [IvNow(p) EXCEPT !.req = TRUE, !.fsm = "INV_CMD"]
                        ELSE IvNow(p))
  /\ UNCHANGED <<invCmd, invRsp>>

IvCommand(p) ==
  /\ iv[p].fsm = "INV_CMD"
  /\ SetIv(p, [IvNow(p) EXCEPT !.block = invCmd[p], !.fsm = "INV_WAIT"])
  /\ invCmd' = [invCmd EXCEPT ![p] = NoBlock]
  /\ UNCHANGED invRsp

IvWait(p) ==
  /\ iv[p].fsm = "INV_WAIT"
  /\ SetIv(p, [IvNow(p) EXCEPT !.fsm = IF iv[p].req THEN @ ELSE "INV_RSP"])
  /\ UNCHANGED <<invCmd, invRsp>>

IvAnswer(p) ==
  /\ iv[p].fsm = "INV_RSP"
  /\ SetIv(p, [IvNow(p) EXCEPT !.fsm = IF invRsp[p] THEN @ ELSE "INV_IDLE"])
  /\ invRsp' = [invRsp EXCEPT ![p] = TRUE]
  /\ UNCHANGED invCmd

InvalFsm(p, invval) == IvIdle(p, invval) \/ IvCommand(p) \/ IvWait(p) \/ IvAnswer(p)

-----------------------------------------------------------------------------
CacheCycle(p, rspval, invval) ==
  /\ rspval => rsp[p] # NoCell
  /\ invval => invCmd[p] # NoBlock
  /\ ICacheFsm(p)
  /\ DCacheFsm(p)
  /\ ReqFsm(p)
  /\ WriteBuffer(p, rspval)
  /\ RspFsm(p, rspval)
  /\ InvalFsm(p, invval)

-----------------------------------------------------------------------------
(* What the cache holds.                                                   *)

(* The tag is set from the miss on, the data are there after MISSUPDT. *)
Filling(p) ==
  \/ dc[p].fsm \in {"DCACHE_MISSWAIT", "DCACHE_MISSUPDT"}
  \/ dc[p].fsm = "DCACHE_RAMINVAL" /\ dc[p].prev = "DCACHE_MISSWAIT"

HasCopy(p, b) ==
  tag[p][Slot(b)] = b /\ ~(Filling(p) /\ Slot(Block(dc[p].addr)) = Slot(b))

-----------------------------------------------------------------------------
ReqStates == OneCellStates \cup {"REQ_IDLE", "REQ_WRITE", "REQ_DWAIT", "REQ_IWAIT"}
DcStates  == WaitStates \cup {"DCACHE_IDLE", "DCACHE_WUPDT", "DCACHE_MISSUPDT",
                              "DCACHE_UNC_LL_SC_GO", "DCACHE_CPUINVAL", "DCACHE_RAMINVAL"}

DcRegs == [fsm : DcStates, prev : DcStates, addr : Addr, data : Word,
           be : SUBSET Lanes, unc : BOOLEAN, ll : BOOLEAN, sc : BOOLEAN]
DmRegs == [req : BOOLEAN, pending : BOOLEAN, flush : BOOLEAN, first : BOOLEAN,
           addr : Addr, data : Word, wf : SUBSET Lanes, wl : SUBSET Lanes,
           size : 0 .. BufferSize]
WbRegs == [cells : Seq([addr : Addr, data : Word]), ptr : 0 .. BufferSize]
IcRegs == [fsm : {"ICACHE_IDLE", "ICACHE_WAIT", "ICACHE_UPDT"}, addr : Addr, req : BOOLEAN]
RqRegs == [fsm : ReqStates, addr : Addr, data : Word, cpt : 0 .. BufferSize]
RsRegs == [fsm : {"RSP_IDLE", "RSP_IMISS", "RSP_DMISS", "RSP_WRITE", "RSP_UNC"},
           cpt : 0 .. LineWords, buf : [Offsets -> Word], unc : Word, cond : BOOLEAN,
           dOk : BOOLEAN, iOk : BOOLEAN, dRetry : BOOLEAN, iRetry : BOOLEAN]
IvRegs == [fsm : {"INV_IDLE", "INV_CMD", "INV_WAIT", "INV_RSP"},
           block : Blocks, req : BOOLEAN]

(* The types of the caches' registers. *)
CacheTypeOK ==
  /\ cpu \in [Procs -> DataReq \cup {NoReq}]
  /\ fetch \in [Procs -> Addr \cup {NoReq}]
  /\ dc \in [Procs -> DcRegs]
  /\ tag \in [Procs -> [Slots -> Blocks \cup {NoBlock}]]
  /\ line \in [Procs -> [Slots -> [Offsets -> Word]]]
  /\ dm \in [Procs -> DmRegs]
  /\ wb \in [Procs -> WbRegs]
  /\ \A p \in Procs : wb[p].ptr <= Len(wb[p].cells) /\ Len(wb[p].cells) <= BufferSize
  /\ ic \in [Procs -> IcRegs]
  /\ itag \in [Procs -> [Slots -> Blocks \cup {NoBlock}]]
  /\ rq \in [Procs -> RqRegs]
  /\ rs \in [Procs -> RsRegs]
  /\ iv \in [Procs -> IvRegs]
=============================================================================
