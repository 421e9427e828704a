------------------------------ MODULE CcRamCore ------------------------------
(***************************************************************************)
(* The coherent memory controller CcRamCore of vci_cc_ram, with the VCI    *)
(* target state machine VciTargetFsmNlock, the linked-access buffer and    *)
(* the presence directory it owns.                                         *)
(*                                                                         *)
(* RamCycle is one rising edge of the clock: INV_FSM and RAM_FSM both step *)
(* and both read the registers as they were before the edge (sc_signal),   *)
(* so they are conjuncts of one action.  The target state machine runs     *)
(* inside RAM_IDLE only.  Its members (m_mode, m_send_rsp, ...) are plain  *)
(* C++ members: AfterPeer is the value m_send_rsp has once the first lines *)
(* of transition() ran.                                                    *)
(*                                                                         *)
(* A word is written to, or read from, the S-RAM by the cycle that drives  *)
(* its ports: nobody else drives them before the S-RAM answers.            *)
(***************************************************************************)
EXTENDS VciNoc

VARIABLES
  ramFsm,      \* r_RAM_FSM
  ramInvFsm,   \* r_INV_FSM
  blockState,  \* r_INV_BLOCKSTATE: caches still to be told
  invBlock,    \* r_INV_BLOCKADDRESS
  invTarget,   \* the cache behind r_INV_TARGETADDRESS
  directory,   \* s_DIRECTORY: presence bits of each block
  sav,         \* r_SAV_SCRID and the block of r_SAV_ADDRESS
  mem,         \* the S-RAM
  link,        \* m_atomic: the reserved address of each initiator
  mode,        \* m_mode of the target state machine
  cur,         \* m_current_cmd
  cellsToGo,   \* m_cells_to_go
  sendRsp      \* m_send_rsp

invFsmVars == <<ramInvFsm, blockState, invBlock, invTarget, invCmd, invRsp>>
ramFsmVars == <<ramFsm, sav, directory>>
targetVars == <<mem, link, mode, cur, cellsToGo, sendRsp, cmd, rsp>>
ramRegs    == <<ramInvFsm, blockState, invBlock, invTarget, ramFsmVars,
                mem, link, mode, cur, cellsToGo, sendRsp>>
ramVars    == <<ramRegs, nocVars>>

RamStates    == {"RAM_IDLE", "RAM_DIRUPD", "RAM_DATA_INVAL", "RAM_DATA_INVAL_WAIT"}
RamInvStates == {"RAM_INV_IDLE", "RAM_INV_REQ", "RAM_INV_RSP"}
Modes        == {"IDLE", "INOUT_QUERY", "SIZED_READ", "SIZED_WRITE"}
NoLink       == -1

RamInit ==
  /\ ramFsm = "RAM_IDLE"
  /\ ramInvFsm = "RAM_INV_IDLE"
  /\ blockState = {}
  /\ invBlock = Block(0)
  /\ invTarget = 0
  /\ directory = [b \in Blocks |-> {}]
  /\ sav = [src |-> 0, block |-> Block(0)]
  /\ mem = [a \in Addr |-> Zero]
  /\ link = [s \in Srcs |-> NoLink]
  /\ mode = "IDLE"
  /\ cur = [src |-> 0, cmd |-> "READ", addr |-> 0, eop |-> FALSE,
            data |-> Zero, ok |-> FALSE]
  /\ cellsToGo = 0
  /\ sendRsp = FALSE

-----------------------------------------------------------------------------
(* SOCLIB_DIRECTORY: an entry is the set of the caches present.  node_id   *)
(* is -1 for an initiator outside Procs, which no entry ever holds, so     *)
(* that OtherSharers also stands for the !Is_empty() test of that case.    *)

(* Mutant: Is_Other looks at the first slice only. *)
LowerSharers(s, b) == {p \in directory[b] : p < s}

OtherSharers(s, b) == directory[b] \ {s}

(* Get_next_id: the lowest presence bit that is set. *)
NextId(entry) == CHOOSE p \in entry : \A q \in entry : p <= q

(* LinkedAccessBuffer_mcc. *)

(* Mutant: a store leaves the reservations of the others. *)
AccessKept(a) == link

AccessDone(a)      == [s \in Srcs |-> IF link[s] = a THEN NoLink ELSE link[s]]
DoLoadLinked(a, s) == [link EXCEPT ![s] = a]
IsAtomic(a, s)     == link[s] = a

-----------------------------------------------------------------------------
(* INV_FSM: one invalidation at a time, to each cache of blockState.       *)

SendNextInval ==
  /\ invTarget' = NextId(blockState)
  /\ blockState' = blockState \ {NextId(blockState)}
  /\ ramInvFsm' = "RAM_INV_REQ"

InvIdleKick ==
  /\ ramInvFsm = "RAM_INV_IDLE" /\ ramFsm = "RAM_DATA_INVAL_WAIT"
  /\ SendNextInval
  /\ UNCHANGED <<invBlock, invCmd, invRsp>>

(* Idle; in RAM_DATA_INVAL it is RAM_FSM that loads the block state.       *)
InvIdle ==
  /\ ramInvFsm = "RAM_INV_IDLE" /\ ramFsm # "RAM_DATA_INVAL_WAIT"
  /\ IF ramFsm = "RAM_DATA_INVAL"
     THEN /\ blockState' = OtherSharers(sav.src, sav.block)
          /\ invBlock' = sav.block
     ELSE UNCHANGED <<blockState, invBlock>>
  /\ UNCHANGED <<ramInvFsm, invTarget, invCmd, invRsp>>

InvReq ==
  /\ ramInvFsm = "RAM_INV_REQ"
  /\ IF invCmd[invTarget] = NoBlock
     THEN /\ invCmd' = [invCmd EXCEPT ![invTarget] = invBlock]
          /\ ramInvFsm' = "RAM_INV_RSP"
     ELSE UNCHANGED <<invCmd, ramInvFsm>>
  /\ UNCHANGED <<blockState, invBlock, invTarget, invRsp>>

InvRspWait ==
  /\ ramInvFsm = "RAM_INV_RSP"
  /\ UNCHANGED invFsmVars

InvRspTake ==
  /\ ramInvFsm = "RAM_INV_RSP" /\ invRsp[invTarget]
  /\ invRsp' = [invRsp EXCEPT ![invTarget] = FALSE]
  /\ IF blockState # {}
     THEN SendNextInval
     ELSE /\ ramInvFsm' = "RAM_INV_IDLE"
          /\ UNCHANGED <<blockState, invTarget>>
  /\ UNCHANGED <<invBlock, invCmd>>

InvFsm == InvIdleKick \/ InvIdle \/ InvReq \/ InvRspWait \/ InvRspTake

-----------------------------------------------------------------------------
(* on_read and on_write: what a command does to the memory controller.     *)

Save(s, a) == sav' = [src |-> s, block |-> Block(a)]

OnWrite(s, a, d, be) ==
  /\ mem' = [mem EXCEPT ![a] = Merge(@, d, be)]
  /\ IF OtherSharers(s, Block(a)) # {}
     THEN ramFsm' = "RAM_DATA_INVAL" /\ Save(s, a)
     ELSE UNCHANGED <<ramFsm, sav>>

(* Mutant: the test of node_id is missing. *)
OnReadAnySource(s, a, eop) ==
  /\ UNCHANGED mem
  /\ IF s \notin directory[Block(a)] /\ eop
     THEN ramFsm' = "RAM_DIRUPD" /\ Save(s, a)
     ELSE UNCHANGED <<ramFsm, sav>>

OnRead(s, a, eop) ==
  /\ UNCHANGED mem
  /\ IF s \in Procs /\ s \notin directory[Block(a)] /\ eop
     THEN ramFsm' = "RAM_DIRUPD" /\ Save(s, a)
     ELSE UNCHANGED <<ramFsm, sav>>

Answer(s, c, a, eop, d, ok) ==
  cur' = [src |-> s, cmd |-> c, addr |-> a, eop |-> eop, data |-> d, ok |-> ok]

(* handle_one(), by command. *)
HandleWrite(s, a, d, be, eop) ==
  /\ link' = AccessDone(a)
  /\ OnWrite(s, a, d, be)
  /\ Answer(s, "WRITE", a, eop, Zero, FALSE)

HandleStoreCond(s, a, d, be, eop) ==
  IF IsAtomic(a, s)
  THEN /\ link' = AccessDone(a)
       /\ OnWrite(s, a, d, be)
       /\ Answer(s, "STORE_COND", a, eop, Zero, TRUE)
  ELSE /\ UNCHANGED <<link, mem, ramFsm, sav>>
       /\ Answer(s, "STORE_COND", a, eop, Zero, FALSE)

HandleRead(s, c, a, eop) ==
  /\ OnRead(s, a, eop)
  /\ link' = IF c = "LOCKED_READ" THEN DoLoadLinked(a, s) ELSE link
  /\ Answer(s, c, a, eop, mem[a], FALSE)

-----------------------------------------------------------------------------
(* The target state machine.  A response leaves when its place is free.    *)

PeerAccepted == sendRsp /\ rsp[cur.src] = NoCell

(* Mutant: m_send_rsp survives the acceptance of the response. *)
StillSends == sendRsp

AfterPeer == sendRsp /\ ~PeerAccepted

DeliverRsp ==
  rsp' = IF PeerAccepted
         THEN [rsp EXCEPT ![cur.src] = [data |-> cur.data, ok |-> cur.ok,
                                        error |-> FALSE, eop |-> cur.eop]]
         ELSE rsp

TakeCmd(s) == cmd' = [cmd EXCEPT ![s] = NoCell]

(* Mutant: a command is accepted while a response is to be sent. *)
CmdAckAlways == mode = "IDLE"

CmdAck == mode = "IDLE" /\ ~sendRsp

(* MODE_IDLE with iAccepted(). *)
AcceptCmd(s) ==
  /\ CmdAck /\ cmd[s] # NoCell
  /\ TakeCmd(s)
  /\ LET c == cmd[s]
     IN \/ /\ c.cmd = "READ"
           /\ mode' = "SIZED_READ" /\ sendRsp' = TRUE /\ cellsToGo' = c.cells
           /\ HandleRead(s, c.cmd, c.addr, c.cells = 1)
        \/ /\ c.cmd = "WRITE" /\ c.eop
           /\ mode' = "INOUT_QUERY" /\ sendRsp' = TRUE /\ UNCHANGED cellsToGo
           /\ HandleWrite(s, c.addr, c.data, c.be, TRUE)
        \/ /\ c.cmd = "WRITE" /\ ~c.eop
           /\ mode' = "SIZED_WRITE" /\ cellsToGo' = c.cells /\ UNCHANGED sendRsp
           /\ HandleWrite(s, c.addr, c.data, c.be, FALSE)
        \/ /\ c.cmd \in {"LOCKED_READ", "STORE_COND"}
           /\ mode' = "INOUT_QUERY" /\ sendRsp' = TRUE /\ cellsToGo' = 1
           /\ \/ c.cmd = "LOCKED_READ" /\ HandleRead(s, c.cmd, c.addr, c.eop)
              \/ c.cmd = "STORE_COND" /\ HandleStoreCond(s, c.addr, c.data, c.be, c.eop)
  /\ UNCHANGED rsp

(* MODE_IDLE without a command, or still answering a write burst.          *)
TargetIdle ==
  /\ mode = "IDLE"
  /\ DeliverRsp /\ sendRsp' = AfterPeer
  /\ UNCHANGED <<mem, link, mode, cur, cellsToGo, cmd, ramFsm, sav>>

InoutQuery ==
  /\ mode = "INOUT_QUERY"
  /\ DeliverRsp /\ sendRsp' = AfterPeer
  /\ mode' = IF AfterPeer THEN mode ELSE "IDLE"
  /\ UNCHANGED <<mem, link, cur, cellsToGo, cmd, ramFsm, sav>>

SizedReadWait ==
  /\ mode = "SIZED_READ" /\ AfterPeer
  /\ UNCHANGED <<targetVars, ramFsm, sav>>

SizedReadNext ==
  /\ mode = "SIZED_READ" /\ ~AfterPeer
  /\ DeliverRsp
  /\ cellsToGo' = cellsToGo - 1
  /\ IF cellsToGo # 1
     THEN /\ HandleRead(cur.src, cur.cmd, cur.addr + 1, cellsToGo = 2)
          /\ sendRsp' = TRUE /\ UNCHANGED mode
     ELSE /\ mode' = "IDLE" /\ sendRsp' = FALSE
          /\ cur' = [cur EXCEPT !.addr = @ + 1, !.eop = FALSE]
          /\ UNCHANGED <<mem, link, ramFsm, sav>>
  /\ UNCHANGED cmd

SizedWriteWait ==
  /\ mode = "SIZED_WRITE"
  /\ UNCHANGED <<targetVars, ramFsm, sav>>

(* The interconnect does not interleave packets: the next cell comes from  *)
(* the initiator that sent the first one.                                  *)
SizedWriteCell ==
  /\ mode = "SIZED_WRITE" /\ cmd[cur.src] # NoCell
  /\ TakeCmd(cur.src)
  /\ cellsToGo' = cellsToGo - 1
  /\ LET c == cmd[cur.src]
     IN /\ HandleWrite(cur.src, cur.addr + 1, c.data, c.be, c.eop)
        /\ mode' = IF c.eop THEN "IDLE" ELSE mode
        /\ sendRsp' = c.eop
  /\ UNCHANGED rsp

TargetFsm ==
  \/ \E s \in Srcs : AcceptCmd(s)
  \/ TargetIdle \/ InoutQuery
  \/ SizedReadWait \/ SizedReadNext
  \/ SizedWriteWait \/ SizedWriteCell

-----------------------------------------------------------------------------
(* RAM_FSM. *)

RamIdle ==
  /\ ramFsm = "RAM_IDLE"
  /\ TargetFsm
  /\ UNCHANGED directory

RamDirUpd ==
  /\ ramFsm = "RAM_DIRUPD"
  /\ directory' = [directory EXCEPT ![sav.block] = @ \cup {sav.src}]
  /\ ramFsm' = "RAM_IDLE"
  /\ UNCHANGED <<sav, targetVars>>

(* Mutant: RAM_FSM does not wait for INV_FSM. *)
RamDataInvalAtOnce ==
  /\ ramFsm = "RAM_DATA_INVAL"
  /\ ramFsm' = "RAM_DATA_INVAL_WAIT"
  /\ directory' = [directory EXCEPT ![sav.block] = @ \cap {sav.src}]
  /\ UNCHANGED <<sav, targetVars>>

(* What the write of s leaves of an entry: Reset_all, then Set_p if s was  *)
(* present.  Mutant: without the Set_p.                                    *)
NothingLeft(entry, s) == {}

Left(entry, s) == entry \cap {s}

(* The block state is loaded by InvIdle, in the same cycle. *)
RamDataInval ==
  /\ ramFsm = "RAM_DATA_INVAL"
  /\ IF ramInvFsm = "RAM_INV_IDLE"
     THEN /\ directory' = [directory EXCEPT ![sav.block] = Left(@, sav.src)]
          /\ ramFsm' = "RAM_DATA_INVAL_WAIT"
     ELSE UNCHANGED <<directory, ramFsm>>
  /\ UNCHANGED <<sav, targetVars>>

RamDataInvalWait ==
  /\ ramFsm = "RAM_DATA_INVAL_WAIT"
  /\ ramFsm' = IF ramInvFsm = "RAM_INV_IDLE" THEN "RAM_IDLE" ELSE ramFsm
  /\ UNCHANGED <<sav, directory, targetVars>>

RamFsm == RamIdle \/ RamDirUpd \/ RamDataInval \/ RamDataInvalWait

RamCycle == InvFsm /\ RamFsm
=============================================================================
