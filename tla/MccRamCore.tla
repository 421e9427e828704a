----------------------------- MODULE MccRamCore -----------------------------
(***************************************************************************)
(* The memory controller MccRamCore of the migration platform, with the    *)
(* target state machine VciTargetFsmNlockTlb, as the repository builds it: *)
(* mcc_ram_core.h defines NOCTRL, so that the commands of the migration    *)
(* controller are not compiled in, no frame is ever poisoned, a page stays *)
(* where it was at reset, and of RAM_FSM only RAM_IDLE and the states of   *)
(* the directory are reached.                                              *)
(*                                                                         *)
(* It differs from CcRamCore in three ways: only the last cell of a write  *)
(* packet starts an invalidation round; initiators that are not coherent   *)
(* start none; and a miss in a TLB is answered, and recorded, here.        *)
(* r_IN_TRANSACTION and m_last_write_nack are read by the code that is     *)
(* left out only.                                                          *)
(***************************************************************************)
EXTENDS CcRamCore, MccPages

VARIABLE ptDirectory  \* s_PT_DIRECTORY: the caches that were given a translation

mccRamRegs == <<ramRegs, ptDirectory>>

MccRamInit ==
  /\ RamInit
  /\ ptDirectory = [v \in Pages |-> {}]

-----------------------------------------------------------------------------
(* INV_FSM: an invalidation says that it is about data (r_INV_ADDR_OFFSET). *)

MccInvReq ==
  /\ ramInvFsm = "RAM_INV_REQ"
  /\ IF invCmd[invTarget] = NoBlock
     THEN /\ invCmd' = [invCmd EXCEPT ![invTarget] = [tlb |-> FALSE, what |-> invBlock]]
          /\ ramInvFsm' = "RAM_INV_RSP"
     ELSE UNCHANGED <<invCmd, ramInvFsm>>
  /\ UNCHANGED <<blockState, invBlock, invTarget, invRsp>>

MccInvFsm == InvIdleKick \/ InvIdle \/ MccInvReq \/ InvRspWait \/ InvRspTake

-----------------------------------------------------------------------------
MccOnWrite(s, a, d, be, eop) ==
  /\ mem' = [mem EXCEPT ![a] = Merge(@, d, be)]
  /\ IF s \in Procs /\ OtherSharers(s, Block(a)) # {} /\ eop
     THEN ramFsm' = "RAM_DATA_INVAL" /\ Save(s, a)
     ELSE UNCHANGED <<ramFsm, sav>>

(* Mutant: the cache is not recorded. *)
ForgetTlbMiss(s, a) == UNCHANGED ptDirectory

(* s_PAGE_TABLE is the identity as long as no page moves. *)
OnTlbMiss(s, a) == ptDirectory' = [ptDirectory EXCEPT ![Page(a)] = @ \cup {s}]

(* handle_one(). *)
MccHandleWrite(s, a, d, be, eop) ==
  /\ link' = AccessDone(a)
  /\ MccOnWrite(s, a, d, be, eop)
  /\ Answer(s, "WRITE", a, eop, Zero, FALSE)
  /\ UNCHANGED ptDirectory

MccHandleStoreCond(s, a, d, be, eop) ==
  /\ IF IsAtomic(a, s)
     THEN link' = AccessDone(a) /\ MccOnWrite(s, a, d, be, eop)
     ELSE UNCHANGED <<link, mem, ramFsm, sav>>
  /\ Answer(s, "STORE_COND", a, eop, Zero, IsAtomic(a, s))
  /\ UNCHANGED ptDirectory

MccHandleRead(s, c, a, eop) == HandleRead(s, c, a, eop) /\ UNCHANGED ptDirectory

HandleTlbMiss(s, a, eop) ==
  /\ OnTlbMiss(s, a)
  /\ Answer(s, "READ_TLB_MISS", a, eop, FrameWord(Page(a)), FALSE)
  /\ UNCHANGED <<link, mem, ramFsm, sav>>

(* MODE_IDLE with iAccepted(): a packet of one cell, of several, or LL/SC. *)
MccAcceptCmd(s) ==
  /\ CmdAck /\ cmd[s] # NoCell
  /\ TakeCmd(s)
  /\ LET c == cmd[s]
     IN \/ /\ c.cmd \in {"READ", "READ_TLB_MISS"}
           /\ mode' = "SIZED_READ" /\ sendRsp' = TRUE /\ cellsToGo' = c.cells
           /\ \/ c.cmd = "READ" /\ MccHandleRead(s, c.cmd, c.addr, c.cells = 1)
              \/ c.cmd = "READ_TLB_MISS" /\ HandleTlbMiss(s, c.addr, c.cells = 1)
        \/ /\ c.cmd = "WRITE"
           /\ mode' = IF c.eop THEN "INOUT_QUERY" ELSE "SIZED_WRITE"
           /\ sendRsp' = (sendRsp \/ c.eop)
           /\ cellsToGo' = IF c.eop THEN cellsToGo ELSE c.cells
           /\ MccHandleWrite(s, c.addr, c.data, c.be, c.eop)
        \/ /\ c.cmd \in {"LOCKED_READ", "STORE_COND"}
           /\ mode' = "INOUT_QUERY" /\ sendRsp' = TRUE /\ cellsToGo' = 1
           /\ \/ c.cmd = "LOCKED_READ" /\ MccHandleRead(s, c.cmd, c.addr, c.eop)
              \/ c.cmd = "STORE_COND" /\ MccHandleStoreCond(s, c.addr, c.data, c.be, c.eop)
  /\ UNCHANGED rsp

MccSizedWriteCell ==
  /\ mode = "SIZED_WRITE" /\ cmd[cur.src] # NoCell
  /\ TakeCmd(cur.src)
  /\ cellsToGo' = cellsToGo - 1
  /\ LET c == cmd[cur.src]
     IN /\ MccHandleWrite(cur.src, cur.addr + 1, c.data, c.be, c.eop)
        /\ mode' = IF c.eop THEN "IDLE" ELSE mode
        /\ sendRsp' = c.eop
  /\ UNCHANGED rsp

(* The modes that answer are those of VciTargetFsmNlock. *)
Answering == TargetIdle \/ InoutQuery \/ SizedReadWait \/ SizedReadNext

MccTargetFsm ==
  \/ \E s \in Srcs : MccAcceptCmd(s)
  \/ MccSizedWriteCell
  \/ (Answering \/ SizedWriteWait) /\ UNCHANGED ptDirectory

-----------------------------------------------------------------------------
MccRamIdle == ramFsm = "RAM_IDLE" /\ MccTargetFsm /\ UNCHANGED directory

(* RAM_DIRUPD, RAM_DATA_INVAL and RAM_DATA_INVAL_WAIT, as in CcRamCore.    *)
DirectoryStates == RamDirUpd \/ RamDataInval \/ RamDataInvalWait

MccRamFsm == MccRamIdle \/ (DirectoryStates /\ UNCHANGED ptDirectory)

MccRamCycle == MccInvFsm /\ MccRamFsm
=============================================================================
