----------------------------- MODULE CcRamProps -----------------------------
(* What the memory controller must guarantee to any initiators. *)
EXTENDS CcRamSystem, FiniteSets

(* The types of the controller's registers. *)
RamTypeOK ==
  /\ NocTypeOK
  /\ ramFsm \in RamStates
  /\ ramInvFsm \in RamInvStates
  /\ blockState \subseteq Procs
  /\ invBlock \in Blocks
  /\ invTarget \in Procs
  /\ directory \in [Blocks -> SUBSET Procs]
  /\ sav \in [src : Srcs, block : Blocks]
  /\ mem \in [Addr -> Word]
  /\ link \in [Srcs -> Addr \cup {NoLink}]
  /\ mode \in Modes
  /\ cur \in [src : Srcs, cmd : Cmds, addr : Nat, eop : BOOLEAN,
              data : Word, ok : BOOLEAN]
  /\ cellsToGo \in Nat
  /\ sendRsp \in BOOLEAN

-----------------------------------------------------------------------------
(* The assert()s of cc_ram_core_transition.cpp and of the target state     *)
(* machine never fire: an invalidation round is started only on a non      *)
(* empty block state, although RAM_DATA_INVAL may have waited many cycles  *)
(* since on_write looked at the directory; a burst is contiguous and ends  *)
(* where plen says.                                                        *)
AssertionsHold ==
  /\ ramFsm = "RAM_DATA_INVAL" => OtherSharers(sav.src, sav.block) # {}
  /\ ramFsm = "RAM_DATA_INVAL_WAIT" /\ ramInvFsm = "RAM_INV_IDLE" => blockState # {}
  /\ mode = "SIZED_WRITE" /\ ramFsm = "RAM_IDLE" /\ cmd[cur.src] # NoCell =>
       /\ cmd[cur.src].cmd = "WRITE"
       /\ cmd[cur.src].addr = cur.addr + 1
       /\ cmd[cur.src].eop <=> cellsToGo = 2

(* An invalidation of b is on its way to p, or about to be.                *)
InvPending(p, b) ==
  \/ invBlock = b /\ p \in blockState
  \/ invBlock = b /\ ramInvFsm = "RAM_INV_REQ" /\ invTarget = p
  \/ invCmd[p] = b

(* The directory never loses a copy: a cache that may hold a block has its *)
(* presence bit set, or is about to be told to drop the block.  A write    *)
(* clears the bits before its invalidations are sent, and a cache may read *)
(* the block again while they are.                                         *)
HoldersKnown ==
  \A b \in Blocks : \A p \in holders[b] : p \in directory[b] \/ InvPending(p, b)

(* A response cell is in flight only to an initiator that awaits it, and   *)
(* ends the packet exactly when the initiator expects its last cell.       *)
ResponsesExpected ==
  \A s \in Srcs : rsp[s] # NoCell =>
    /\ out[s].toSend = 0 /\ out[s].toRecv > 0
    /\ rsp[s].eop <=> out[s].toRecv = 1

(* LL/SC makes increments atomic: the word counts every store conditional  *)
(* that answered STORE_COND_ATOMIC, also those whose answer is on its way. *)
IncrementsCounted ==
  mem[Counter][0] = succ + Cardinality({s \in Srcs : rsp[s] # NoCell /\ rsp[s].ok})
                   + (IF sendRsp /\ cur.ok THEN 1 ELSE 0)

(* Every request gets its whole response, whatever the other initiators do *)
(* and however late the caches acknowledge: on_write may park the target   *)
(* state machine in RAM_DATA_INVAL in the middle of a packet.              *)
RequestsAnswered ==
  \A s \in Srcs : (out[s].toRecv > 0) ~> (out[s].toRecv = 0)

-----------------------------------------------------------------------------
(* "Go and Wait for acknowledge of invalidations in order to guarantee     *)
(* coherency" (RAM_DATA_INVAL): a store is answered only when no other     *)
(* cache has an invalidation of the block outstanding.                     *)
WriteAckAfterInvalidations ==
  \A s \in Srcs : rsp[s] # NoCell /\ out[s].cmd \in {"WRITE", "STORE_COND"} =>
    \A p \in Procs \ {s} : ~InvPending(p, Block(out[s].addr))

-----------------------------------------------------------------------------
(* The inductive invariant: what ties the packets of the initiators to the *)
(* state of the target state machine, and INV_FSM to RAM_FSM.              *)

OutTypeOK ==
  /\ out \in [Srcs -> [cmd : Cmds, addr : Addr, toSend : Nat, toRecv : Nat]]
  /\ holders \in [Blocks -> SUBSET Procs]
  /\ reg \in [Srcs -> Word]
  /\ succ \in Nat

(* The target state machine has accepted cells of s and owes it an answer. *)
AtTarget(s) == cur.src = s /\ (mode # "IDLE" \/ sendRsp)

(* A packet stays in the segment; only write packets have several cells. *)
PacketFits(s) ==
  /\ out[s].addr + out[s].toSend < NbWords
  /\ out[s].toSend > 0 => /\ out[s].cmd = "WRITE" /\ out[s].toRecv = 1
                          /\ cmd[s] = NoCell => AtTarget(s) /\ mode = "SIZED_WRITE"

CmdMatches(s) ==
  cmd[s] # NoCell =>
    /\ rsp[s] = NoCell
    /\ cmd[s].cmd = out[s].cmd /\ cmd[s].addr = out[s].addr
    /\ cmd[s].eop <=> out[s].toSend = 0
    /\ IF out[s].cmd = "READ"
       THEN out[s].toRecv = cmd[s].cells /\ out[s].addr + cmd[s].cells <= NbWords
       ELSE out[s].toRecv = 1
    /\ IF AtTarget(s) THEN mode = "SIZED_WRITE"
       ELSE out[s].cmd = "WRITE" => cmd[s].cells = out[s].toSend + 1

RspMatches(s) ==
  rsp[s] # NoCell =>
    /\ out[s].toSend = 0 /\ out[s].toRecv > 0
    /\ rsp[s].eop <=> out[s].toRecv = 1
    /\ AtTarget(s) => mode = "SIZED_READ"

(* The last cell of an answer is to be sent. *)
Answering(s) ==
  /\ cmd[s] = NoCell /\ rsp[s] = NoCell
  /\ out[s].toSend = 0 /\ out[s].toRecv = 1
  /\ sendRsp /\ cur.eop

ReadingLine(s) ==
  /\ cmd[s] = NoCell
  /\ sendRsp /\ cur.cmd = "READ"
  /\ cellsToGo > 0 /\ (cur.eop <=> cellsToGo = 1)
  /\ cur.addr + cellsToGo <= NbWords
  /\ out[s].toSend = 0
  /\ out[s].toRecv = cellsToGo + (IF rsp[s] = NoCell THEN 0 ELSE 1)

WritingBurst(s) ==
  /\ rsp[s] = NoCell
  /\ ~sendRsp
  /\ out[s].cmd = "WRITE" /\ out[s].toRecv = 1
  /\ IF cmd[s] = NoCell
     THEN /\ out[s].toSend > 0
          /\ cur.addr = out[s].addr /\ cellsToGo = out[s].toSend + 1
     ELSE cur.addr + 1 = out[s].addr /\ cellsToGo = out[s].toSend + 2

TargetMatches ==
  /\ mode = "INOUT_QUERY" \/ (mode = "IDLE" /\ sendRsp) => Answering(cur.src)
  /\ mode = "SIZED_READ" => ReadingLine(cur.src)
  /\ mode = "SIZED_WRITE" => WritingBurst(cur.src)

PacketInv ==
  /\ \A s \in Srcs : PacketFits(s) /\ CmdMatches(s) /\ RspMatches(s)
  /\ TargetMatches

RoundInv ==
  /\ ramInvFsm = "RAM_INV_IDLE" =>
       (ramFsm = "RAM_DATA_INVAL_WAIT" <=> blockState # {})
  /\ ramFsm = "RAM_DATA_INVAL_WAIT" => ramInvFsm = "RAM_INV_IDLE"
  /\ ramFsm = "RAM_DATA_INVAL" => OtherSharers(sav.src, sav.block) # {}
  /\ ramFsm = "RAM_DIRUPD" => sav.src \in Procs

(* The presence bit of a reader is set before the last cell leaves. *)
ReaderInv ==
  mode = "SIZED_READ" /\ cur.eop /\ cur.src \in Procs =>
    \/ ramFsm = "RAM_DIRUPD" /\ sav.src = cur.src /\ sav.block = Block(cur.addr)
    \/ ramFsm = "RAM_IDLE" /\ cur.src \in directory[Block(cur.addr)]

Inductive ==
  RamTypeOK /\ OutTypeOK /\ PacketInv /\ RoundInv /\ ReaderInv /\ HoldersKnown
=============================================================================
