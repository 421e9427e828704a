------------------------------ MODULE Module6 ------------------------------
(***************************************************************************)
(* Module_6 of the migration memory node: the protocol that exchanges two  *)
(* pages over a unidirectional ring.  Each node has four state machines    *)
(* (location, control, update, transfer) that share one input and one      *)
(* output fifo; the node that holds the token (ring_locked) is the master  *)
(* of the next exchange.                                                   *)
(*                                                                         *)
(* The component is synchronous: compute() runs once per cycle in every    *)
(* node.  Machines and Registers give the state of node n after a cycle,   *)
(* from its registers s and its input ports i.  A state machine is an      *)
(* operator (n, s, i, w) -> w: s holds what the registers show during the  *)
(* cycle (sc_signal reads), w collects the writes, the last writer wins.   *)
(***************************************************************************)
EXTENDS Naturals, Sequences

CONSTANTS
  NbMem,         \* nodes of the ring (m_nb_memory_nodes)
  NbProcs,       \* processors (m_nb_processor_nodes)
  NbFrames,      \* page frames of a node
  PageWords,     \* PAGE_SIZE >> 2
  LineWords,     \* m_memory_line_size
  RingFifoSize,  \* M6_RING_FIFO_SIZE
  UpdtFifoSize,  \* m_m6_fifo_pending_updt_size
  MaxCost,       \* M6_MAX_LOC_COST
  SatThreshold   \* SAT_THRESHOLD

ASSUME RingAssumption ==
  /\ NbMem \in Nat \ {0, 1} /\ NbProcs \in Nat \ {0} /\ NbFrames \in Nat \ {0}
  /\ LineWords \in Nat \ {0, 1} /\ PageWords \in Nat \ {0}
  /\ PageWords % LineWords = 0
  /\ RingFifoSize \in Nat \ {0} /\ UpdtFifoSize \in Nat \ {0}

VARIABLE m6     \* registers and fifos of each node

Node == 0 .. NbMem - 1
Frame == 0 .. NbMem * NbFrames - 1
PageLines == PageWords \div LineWords
Succ(n) == (n + 1) % NbMem
Pred(n) == (n + NbMem - 1) % NbMem

\* address_to_id: the node of an address; the address of a frame of node n.
AddressToId(a) == a \div NbFrames
FrameAddress(n, index) == n * NbFrames + index

Commands == {"NOP", "LOCK", "LOCATE", "COST", "SELECT", "FINISH",
             "UPDATE", "UPDATE_ACK", "TRANSFER"}
Flit(cmd, id, srcid, data) == [cmd |-> cmd, id |-> id, srcid |-> srcid, data |-> data]
Nop == Flit("NOP", 0, 0, 0)

CtrlStates == {"c_idle", "c_lock_ring", "c_notify_m_control", "c_elect", "c_poison",
  "c_poison_wait", "c_wait_page_addr_home", "c_notify_selected", "c_update_tlb",
  "c_update_wiam", "c_unpoison", "c_unpoison_ok", "c_abort", "c_finish"}
TrStates == {"t_idle", "t_transfer", "t_transfer_dir"}
UpdtStates == {"u_idle", "u_send_updt_home", "u_receive_update_tlb", "u_tlb_inv_ok",
  "u_send_updt_ack_home"}
LocStates == {"l_idle", "l_req_loc", "l_compute_location", "l_compute_pressure",
  "l_send_cost_value", "l_wait_loc_cost"}

ResetM6(n) ==
  [ctrl_fsm |-> "c_idle", tr_fsm |-> "t_idle", updt_fsm |-> "u_idle", loc_fsm |-> "l_idle",
   ring_locked |-> n = 0, in_transaction |-> FALSE, master |-> FALSE, mig_c |-> FALSE,
   cycle_two |-> FALSE, get_location |-> FALSE, update_home |-> FALSE,
   begin_transfer |-> FALSE, rcv_finish |-> FALSE,
   page_selected |-> 0, page_wis |-> 0, page_addr |-> 0, page_addr_home |-> 0,
   req_cpt |-> 0, rsp_cpt |-> 0, req_end |-> FALSE, rsp_end |-> FALSE,
   transfer_ok |-> FALSE, buf_read |-> [k \in 0 .. LineWords - 1 |-> 0],
   buf_write |-> [k \in 0 .. LineWords - 1 |-> 0],
   node_count |-> 0, location_cost |-> 0, location_found |-> FALSE,
   found_is_other |-> FALSE, pressure_is_lower |-> FALSE, found_id |-> 0,
   save_req_id |-> 0,
   updt_cycle_two |-> FALSE, update_tlb |-> FALSE, update_wiam |-> FALSE,
   inv_tlb_ok |-> FALSE, wiam_ok |-> FALSE, update_ok |-> FALSE, local_update |-> FALSE,
   local_addr |-> 0, new_addr |-> 0, wiam_addr |-> 0, save_src_id |-> 0,
   in_fifo |-> <<>>, out_fifo |-> <<>>, pending_lock |-> <<>>, pending_updt |-> <<>>]

-----------------------------------------------------------------------------
(* Dispatch of the flit at the front of the input fifo.                    *)
Front(s) == IF s.in_fifo = <<>> THEN Nop ELSE Head(s.in_fifo)
Cmd(s) == Front(s).cmd
Mine(n, s) == Front(s).id = n

IsCtrl(n, s) ==
  \/ Cmd(s) = "LOCK" /\ Mine(n, s)
  \/ Cmd(s) = "SELECT" /\ (s.master \/ Mine(n, s))
  \/ Cmd(s) = "FINISH" /\ s.master
IsLoc(n, s) == Cmd(s) = "LOCATE" \/ (Cmd(s) = "COST" /\ Mine(n, s))
IsTransfer(n, s) == Cmd(s) = "TRANSFER" /\ Mine(n, s)
IsUpdate(n, s) == Cmd(s) \in {"UPDATE", "UPDATE_ACK"} /\ Mine(n, s)
\* A request for the lock is kept even by a node that does not have it.
EnqueuesLock(n, s) == Cmd(s) = "LOCK" /\ ~Mine(n, s) /\ Front(s).data = 0
Forwards(n, s) ==
  /\ Cmd(s) # "NOP"
  /\ ~(IsCtrl(n, s) \/ IsLoc(n, s) \/ IsTransfer(n, s) \/ IsUpdate(n, s) \/ EnqueuesLock(n, s))

OutWok(s) == Len(s.out_fifo) < RingFifoSize
MaySend(n, s, w) == OutWok(s) /\ ~Forwards(n, s) /\ w.out = Nop
Send(w, flit) == [w EXCEPT !.out = flit]

-----------------------------------------------------------------------------
(* compute_location: the broadcast of the page's counters and the choice   *)
(* of the cheapest node.                                                   *)
LocIdle(n, s, i, w) ==
  IF IsLoc(n, s) THEN [w EXCEPT !.loc_fsm = "l_compute_pressure", !.location_cost = 0]
  ELSE IF s.get_location THEN [w EXCEPT !.loc_fsm = "l_req_loc"]
  ELSE w

\* One LOCATE per processor, after one that carries the pressure.
LocRequest(n, s, i, w) ==
  IF ~(MaySend(n, s, w) /\ i.fifo # <<>>) THEN w
  ELSE LET sent == [Send(w, Flit("LOCATE", n, n, Head(i.fifo))) EXCEPT !.fifo_get = TRUE]
       IN  IF s.node_count = NbProcs
           THEN [sent EXCEPT !.get_location = FALSE, !.node_count = 0, !.loc_fsm = "l_idle"]
           ELSE [sent EXCEPT !.node_count = @ + 1]

TakesLocate(n, s, w) == IsLoc(n, s) /\ MaySend(n, s, w)
TakeAndPass(n, s, w) ==
  LET taken == [w EXCEPT !.get = TRUE]
  IN  IF Mine(n, s) THEN taken ELSE Send(taken, Front(s))

LocPressure(n, s, i, w) ==
  IF ~TakesLocate(n, s, w) THEN w
  ELSE [TakeAndPass(n, s, w) EXCEPT
          !.pressure_is_lower = Front(s).data + i.pressure < SatThreshold,
          !.loc_fsm = "l_compute_location"]

CostWith(s, i) ==
  IF s.pressure_is_lower
  THEN s.location_cost + i.table_cost[s.node_count] * 2 ^ Front(s).data
  ELSE MaxCost

LocCompute(n, s, i, w) ==
  IF ~TakesLocate(n, s, w) THEN w
  ELSE LET taken == [TakeAndPass(n, s, w) EXCEPT !.location_cost = CostWith(s, i)]
           done  == [taken EXCEPT !.node_count = 0, !.save_req_id = Front(s).id]
       IN  IF s.node_count # NbProcs - 1
           THEN [taken EXCEPT !.node_count = @ + 1]
           ELSE IF ~Mine(n, s)
           THEN [done EXCEPT !.loc_fsm = "l_send_cost_value"]
           ELSE [done EXCEPT !.loc_fsm = "l_wait_loc_cost", !.found_is_other = FALSE,
                             !.location_cost = IF s.mig_c THEN MaxCost ELSE @]

LocSendCost(n, s, i, w) ==
  IF MaySend(n, s, w)
  THEN [Send(w, Flit("COST", s.save_req_id, n, s.location_cost)) EXCEPT !.loc_fsm = "l_idle"]
  ELSE w

\* Mutant: one cost is not waited for.
LocWaitCostShort(n, s, i, w) ==
  IF s.node_count = NbMem - 2
  THEN [w EXCEPT !.loc_fsm = "l_idle", !.location_found = TRUE, !.node_count = 0]
  ELSE IF ~IsLoc(n, s) THEN w
  ELSE [w EXCEPT !.get = TRUE, !.node_count = @ + 1, !.location_cost = Front(s).data,
                 !.found_id = Front(s).srcid, !.found_is_other = TRUE]

LocWaitCost(n, s, i, w) ==
  IF s.node_count = NbMem - 1
  THEN [w EXCEPT !.loc_fsm = "l_idle", !.location_found = TRUE, !.node_count = 0]
  ELSE IF ~IsLoc(n, s) THEN w
  ELSE LET taken == [w EXCEPT !.get = TRUE, !.node_count = @ + 1]
       IN  IF Front(s).data < s.location_cost
           THEN [taken EXCEPT !.location_cost = Front(s).data,
                              !.found_id = Front(s).srcid, !.found_is_other = TRUE]
           ELSE taken

ComputeLocation(n, s, i, w) ==
  CASE s.loc_fsm = "l_idle"             -> LocIdle(n, s, i, w)
    [] s.loc_fsm = "l_req_loc"          -> LocRequest(n, s, i, w)
    [] s.loc_fsm = "l_compute_pressure" -> LocPressure(n, s, i, w)
    [] s.loc_fsm = "l_compute_location" -> LocCompute(n, s, i, w)
    [] s.loc_fsm = "l_send_cost_value"  -> LocSendCost(n, s, i, w)
    [] s.loc_fsm = "l_wait_loc_cost"    -> LocWaitCost(n, s, i, w)

-----------------------------------------------------------------------------
(* compute_control: the lock, the handshake with Module_10 and the order   *)
(* of the steps of an exchange.                                            *)
Goto(w, state) == [w EXCEPT !.ctrl_fsm = state]
BecomesMaster(w) ==
  [Goto(w, "c_notify_m_control") EXCEPT
     !.master = TRUE, !.get_location = TRUE, !.in_transaction = TRUE]

CtrlContention(n, s, i, w) ==
  LET asked == [w EXCEPT !.mig_c = i.cmd = "CMD_IS_CONTENTION"]
  IN  IF s.ring_locked THEN BecomesMaster(asked) ELSE Goto(asked, "c_lock_ring")

\* SELECT comes in two flits: the page the sender gives up, then its frame.
CtrlSelect(n, s, w) ==
  IF ~s.cycle_two
  THEN [w EXCEPT !.cycle_two = TRUE, !.page_wis = Front(s).data]
  ELSE LET second == [w EXCEPT !.cycle_two = FALSE, !.page_selected = Front(s).data]
       IN  IF s.master
           THEN [second EXCEPT !.update_home = TRUE, !.begin_transfer = TRUE]
           ELSE [Goto(second, "c_elect") EXCEPT
                   !.found_id = Front(s).srcid, !.in_transaction = TRUE]

\* Mutant: a request that comes back without the token is not sent again.
CtrlLockGivesUp(n, s, w) ==
  IF Front(s).data = 1 THEN [BecomesMaster(w) EXCEPT !.ring_locked = TRUE]
  ELSE w

\* The node's own request came back: with the token, or to be sent again.
CtrlLock(n, s, w) ==
  IF Front(s).data = 1 THEN [BecomesMaster(w) EXCEPT !.ring_locked = TRUE]
  ELSE Goto(w, "c_lock_ring")

CtrlTakes(n, s, w) ==
  LET taken == [w EXCEPT !.get = TRUE]
  IN  CASE Cmd(s) = "SELECT" -> CtrlSelect(n, s, taken)
        [] Cmd(s) = "LOCK"   -> CtrlLock(n, s, taken)
        [] Cmd(s) = "FINISH" -> [taken EXCEPT !.rcv_finish = TRUE]

\* Mutant: the frame is unpoisoned before the transfer is over.
CtrlIdleEarly(n, s, i, w) ==
  CASE i.req -> CtrlContention(n, s, i, w)
    [] ~i.req /\ IsCtrl(n, s) -> CtrlTakes(n, s, w)
    [] OTHER ->
         IF s.wiam_ok /\ s.update_ok THEN Goto(w, "c_unpoison")
         ELSE IF s.update_tlb THEN Goto(w, "c_update_tlb")
         ELSE IF s.update_wiam THEN Goto(w, "c_update_wiam")
         ELSE IF s.location_found
         THEN [Goto(w, IF s.found_is_other THEN "c_poison" ELSE "c_abort") EXCEPT
                 !.location_found = FALSE]
         ELSE w

CtrlIdle(n, s, i, w) ==
  CASE i.req -> CtrlContention(n, s, i, w)
    [] ~i.req /\ IsCtrl(n, s) -> CtrlTakes(n, s, w)
    [] OTHER ->
         IF s.wiam_ok /\ s.update_ok /\ s.transfer_ok THEN Goto(w, "c_unpoison")
         ELSE IF s.update_tlb THEN Goto(w, "c_update_tlb")
         ELSE IF s.update_wiam THEN Goto(w, "c_update_wiam")
         ELSE IF s.location_found
         THEN [Goto(w, IF s.found_is_other THEN "c_poison" ELSE "c_abort") EXCEPT
                 !.location_found = FALSE]
         ELSE w

CtrlLockRing(n, s, i, w) ==
  IF MaySend(n, s, w) THEN Goto(Send(w, Flit("LOCK", n, n, 0)), "c_idle") ELSE w

\* A command of one word is over when Module_10 acknowledges it ...
CtrlOneWord(i, w, next) == IF i.ack THEN Goto(w, next) ELSE w
\* ... and one of two words after two acknowledgements.
CtrlTwoWords(s, i, w) ==
  IF ~i.ack THEN w
  ELSE IF s.cycle_two THEN [Goto(w, "c_idle") EXCEPT !.cycle_two = FALSE]
  ELSE [w EXCEPT !.cycle_two = TRUE]

CtrlAbort(i, w) ==
  IF i.ack
  THEN [Goto(w, "c_idle") EXCEPT !.master = FALSE, !.in_transaction = FALSE]
  ELSE w

\* c_elect shows its command for one cycle, acknowledged or not.
CtrlElect(i, w) == Goto(w, "c_poison")

CtrlPoisonWait(i, w) ==
  IF i.req THEN [Goto(w, "c_wait_page_addr_home") EXCEPT !.page_addr = i.data] ELSE w
CtrlWaitHome(i, w) ==
  IF i.req THEN [Goto(w, "c_notify_selected") EXCEPT !.page_addr_home = i.data] ELSE w

\* The elected node addresses its SELECT to itself: the master takes it.
CtrlNotifySelected(n, s, i, w) ==
  IF ~MaySend(n, s, w) THEN w
  ELSE LET to == IF s.master THEN s.found_id ELSE n
       IN  IF s.cycle_two
           THEN [Goto(Send(w, Flit("SELECT", to, n, FrameAddress(n, s.page_addr))), "c_idle")
                   EXCEPT !.cycle_two = FALSE]
           ELSE [Send(w, Flit("SELECT", to, n, s.page_addr_home)) EXCEPT
                   !.cycle_two = TRUE,
                   !.update_home = @ \/ ~s.master, !.begin_transfer = @ \/ ~s.master]

CtrlUnpoisonOk(i, w) == IF i.req THEN Goto(w, "c_finish") ELSE w

\* Mutant: the update of who-am-I is not forgotten.
EndsWithWiam(w) ==
  [Goto(w, "c_idle") EXCEPT !.in_transaction = FALSE, !.transfer_ok = FALSE,
                            !.update_ok = FALSE]

EndsTransaction(w) ==
  [Goto(w, "c_idle") EXCEPT !.in_transaction = FALSE, !.transfer_ok = FALSE,
                            !.update_ok = FALSE, !.wiam_ok = FALSE]

\* Mutant: a FINISH that came before this state is not seen.
CtrlFinishOnce(n, s, i, w) ==
  CASE s.master /\ IsCtrl(n, s) ->
         [EndsTransaction(w) EXCEPT !.get = TRUE, !.master = FALSE]
    [] ~s.master /\ MaySend(n, s, w) ->
         EndsTransaction(Send(w, Flit("FINISH", s.found_id, n, 0)))
    [] OTHER -> w

\* Mutant: the master ends without waiting for the elected node.
CtrlFinishAlone(n, s, i, w) ==
  IF s.master THEN [EndsTransaction(w) EXCEPT !.master = FALSE]
  ELSE IF MaySend(n, s, w)
  THEN EndsTransaction(Send(w, Flit("FINISH", s.found_id, n, 0)))
  ELSE w

CtrlFinish(n, s, i, w) ==
  CASE s.master /\ IsCtrl(n, s) ->
         [EndsTransaction(w) EXCEPT !.get = TRUE, !.master = FALSE]
    [] s.master /\ ~IsCtrl(n, s) /\ s.rcv_finish ->
         [EndsTransaction(w) EXCEPT !.rcv_finish = FALSE, !.master = FALSE]
    [] ~s.master /\ MaySend(n, s, w) ->
         EndsTransaction(Send(w, Flit("FINISH", s.found_id, n, 0)))
    [] OTHER -> w

ComputeControl(n, s, i, w) ==
  CASE s.ctrl_fsm = "c_idle"                -> CtrlIdle(n, s, i, w)
    [] s.ctrl_fsm = "c_lock_ring"           -> CtrlLockRing(n, s, i, w)
    [] s.ctrl_fsm = "c_notify_m_control"    -> CtrlOneWord(i, w, "c_idle")
    [] s.ctrl_fsm = "c_elect"               -> CtrlElect(i, w)
    [] s.ctrl_fsm = "c_poison"              -> CtrlOneWord(i, w, "c_poison_wait")
    [] s.ctrl_fsm = "c_poison_wait"         -> CtrlPoisonWait(i, w)
    [] s.ctrl_fsm = "c_wait_page_addr_home" -> CtrlWaitHome(i, w)
    [] s.ctrl_fsm = "c_notify_selected"     -> CtrlNotifySelected(n, s, i, w)
    [] s.ctrl_fsm = "c_update_tlb"  -> CtrlTwoWords(s, i, [w EXCEPT !.update_tlb = FALSE])
    [] s.ctrl_fsm = "c_update_wiam" -> CtrlTwoWords(s, i, [w EXCEPT !.update_wiam = FALSE])
    [] s.ctrl_fsm = "c_unpoison"            -> CtrlOneWord(i, w, "c_unpoison_ok")
    [] s.ctrl_fsm = "c_unpoison_ok"         -> CtrlUnpoisonOk(i, w)
    [] s.ctrl_fsm = "c_abort"               -> CtrlAbort(i, w)
    [] s.ctrl_fsm = "c_finish"              -> CtrlFinish(n, s, i, w)

-----------------------------------------------------------------------------
(* compute_update: tells the home of the page where it went and, as a home,*)
(* has the page table and the TLBs updated.                                *)
UpdtIdle(n, s, i, w) ==
  IF s.pending_updt # <<>>
  THEN IF Head(s.pending_updt).cmd = "UPDATE"
       THEN [w EXCEPT !.updt_fsm = "u_receive_update_tlb"]
       ELSE [w EXCEPT !.update_ok = TRUE, !.updt_get = TRUE]
  ELSE IF s.update_home
  THEN [w EXCEPT !.updt_fsm = "u_send_updt_home", !.update_home = FALSE]
  ELSE w

UpdtReceive(n, s, i, w) ==
  IF s.pending_updt = <<>> THEN w
  ELSE IF s.updt_cycle_two
  THEN [w EXCEPT !.new_addr = Head(s.pending_updt).data, !.updt_get = TRUE,
                 !.updt_cycle_two = FALSE, !.updt_fsm = "u_tlb_inv_ok",
                 !.update_tlb = TRUE, !.save_src_id = Head(s.pending_updt).srcid]
  ELSE [w EXCEPT !.local_addr = Head(s.pending_updt).data, !.updt_get = TRUE,
                 !.updt_cycle_two = TRUE]

\* update_wiam is raised again in every cycle spent here.
UpdtSendHome(n, s, i, w) ==
  LET asked == [w EXCEPT !.update_wiam = TRUE, !.wiam_addr = s.page_wis]
      home  == AddressToId(s.page_addr_home)
  IN  IF home = n
      THEN [asked EXCEPT !.local_update = TRUE, !.update_tlb = TRUE,
              !.updt_fsm = "u_tlb_inv_ok", !.local_addr = s.page_addr_home,
              !.new_addr = s.page_selected]
      ELSE IF ~MaySend(n, s, w) THEN asked
      ELSE IF s.updt_cycle_two
      THEN [Send(asked, Flit("UPDATE", home, n, s.page_selected)) EXCEPT
              !.updt_fsm = "u_idle", !.updt_cycle_two = FALSE]
      ELSE [Send(asked, Flit("UPDATE", home, n, s.page_addr_home)) EXCEPT
              !.updt_cycle_two = TRUE]

\* Mutant: the TLBs are not waited for.
UpdtTlbNoWait(n, s, i, w) ==
  IF s.local_update
  THEN [w EXCEPT !.local_update = FALSE, !.update_ok = TRUE, !.updt_fsm = "u_idle"]
  ELSE [w EXCEPT !.updt_fsm = "u_send_updt_ack_home"]

UpdtTlbInvOk(n, s, i, w) ==
  IF ~s.inv_tlb_ok THEN w
  ELSE LET seen == [w EXCEPT !.inv_tlb_ok = FALSE]
       IN  IF s.local_update
           THEN [seen EXCEPT !.local_update = FALSE, !.update_ok = TRUE,
                             !.updt_fsm = "u_idle"]
           ELSE [seen EXCEPT !.updt_fsm = "u_send_updt_ack_home"]

UpdtSendAck(n, s, i, w) ==
  IF MaySend(n, s, w)
  THEN [Send(w, Flit("UPDATE_ACK", s.save_src_id, n, 0)) EXCEPT !.updt_fsm = "u_idle"]
  ELSE w

ComputeUpdate(n, s, i, w) ==
  CASE s.updt_fsm = "u_idle"               -> UpdtIdle(n, s, i, w)
    [] s.updt_fsm = "u_receive_update_tlb" -> UpdtReceive(n, s, i, w)
    [] s.updt_fsm = "u_send_updt_home"     -> UpdtSendHome(n, s, i, w)
    [] s.updt_fsm = "u_tlb_inv_ok"         -> UpdtTlbInvOk(n, s, i, w)
    [] s.updt_fsm = "u_send_updt_ack_home" -> UpdtSendAck(n, s, i, w)

-----------------------------------------------------------------------------
(* compute_transfer: the words of the page, then its directory entries,    *)
(* are exchanged with the other node.  A line (an entry) is overwritten    *)
(* only when the old one has been read.                                    *)
LineOf(cpt) == cpt \div LineWords
WordIn(cpt) == cpt % LineWords

\* Mutant: a line is overwritten before the old one has been read.
TransferInEarly(n, s, i, w) ==
  LET buffer == [s.buf_write EXCEPT ![WordIn(s.rsp_cpt)] = Front(s).data]
      taken  == [w EXCEPT !.get = TRUE, !.buf_write = buffer, !.rsp_cpt = @ + 1]
  IN  CASE ~IsTransfer(n, s) \/ s.rsp_end -> w
        [] IsTransfer(n, s) /\ ~s.rsp_end /\ WordIn(s.rsp_cpt) # LineWords - 1 -> taken
        [] OTHER -> [taken EXCEPT !.rsp_end = s.rsp_cpt = PageWords - 1,
                       !.seg_write = <<LineOf(s.rsp_cpt), buffer>>]

TransferIn(n, s, i, w) ==
  LET buffer == [s.buf_write EXCEPT ![WordIn(s.rsp_cpt)] = Front(s).data]
      taken  == [w EXCEPT !.get = TRUE, !.buf_write = buffer, !.rsp_cpt = @ + 1]
  IN  CASE ~IsTransfer(n, s) \/ s.rsp_end -> w
        [] IsTransfer(n, s) /\ ~s.rsp_end /\ WordIn(s.rsp_cpt) # LineWords - 1 -> taken
        [] OTHER ->
             IF i.sram /\ LineOf(s.rsp_cpt) # LineOf(s.req_cpt)
             THEN [taken EXCEPT !.rsp_end = s.rsp_cpt = PageWords - 1,
                     !.seg_write = <<LineOf(s.rsp_cpt), buffer>>]
             ELSE w

TransferOut(n, s, i, w) ==
  LET first == WordIn(s.req_cpt) = 0
      line  == IF first THEN i.seg[LineOf(s.req_cpt)] ELSE s.buf_read
  IN  IF s.req_end \/ ~MaySend(n, s, w) \/ (first /\ ~(i.sram /\ w.seg_write = <<>>)) THEN w
      ELSE [Send(w, Flit("TRANSFER", s.found_id, n, line[WordIn(s.req_cpt)])) EXCEPT
              !.buf_read = line, !.req_cpt = @ + 1,
              !.req_end = s.req_cpt = PageWords - 1]

DirIn(n, s, i, w) ==
  IF IsTransfer(n, s) /\ ~s.rsp_end /\ i.sram /\ s.rsp_cpt # s.req_cpt
  THEN [w EXCEPT !.get = TRUE, !.dir_write = <<s.rsp_cpt, Front(s).data>>,
                 !.rsp_cpt = @ + 1, !.rsp_end = s.rsp_cpt = PageLines - 1]
  ELSE w

DirOut(n, s, i, w) ==
  IF ~s.req_end /\ MaySend(n, s, w) /\ i.sram /\ w.dir_write = <<>>
  THEN [Send(w, Flit("TRANSFER", s.found_id, n, i.dir[s.req_cpt])) EXCEPT
          !.req_cpt = @ + 1, !.req_end = s.req_cpt = PageLines - 1]
  ELSE w

\* Mutant: the counter of the words received is not reset.
PartOverKeep(w, next) ==
  IF w.rsp_end /\ w.req_end
  THEN [w EXCEPT !.tr_fsm = next, !.req_cpt = 0, !.req_end = FALSE, !.rsp_end = FALSE,
                 !.transfer_ok = @ \/ next = "t_idle"]
  ELSE w

\* Both directions over: the next part, or the end of the transfer.
PartOver(w, next) ==
  IF w.rsp_end /\ w.req_end
  THEN [w EXCEPT !.tr_fsm = next, !.req_cpt = 0, !.rsp_cpt = 0,
                 !.req_end = FALSE, !.rsp_end = FALSE,
                 !.transfer_ok = @ \/ next = "t_idle"]
  ELSE w

ComputeTransfer(n, s, i, w) ==
  CASE s.tr_fsm = "t_idle" ->
         IF s.begin_transfer
         THEN [w EXCEPT !.tr_fsm = "t_transfer", !.begin_transfer = FALSE] ELSE w
    [] s.tr_fsm = "t_transfer" ->
         PartOver(TransferOut(n, s, i, TransferIn(n, s, i, w)), "t_transfer_dir")
    [] s.tr_fsm = "t_transfer_dir" ->
         PartOver(DirOut(n, s, i, DirIn(n, s, i, w)), "t_idle")

-----------------------------------------------------------------------------
(* compute: the four machines, then the release of the lock to the first   *)
(* waiting node, the forwarding, and the fifos.                            *)
\* Mutant: the node that gives the token away keeps it.
ReleaseLockKeep(n, s, i, w) ==
  IF /\ MaySend(n, s, w) /\ s.pending_lock # <<>> /\ ~s.in_transaction
     /\ ~i.req /\ ~IsCtrl(n, s)
  THEN [Send(w, Flit("LOCK", Head(s.pending_lock), n, IF s.ring_locked THEN 1 ELSE 0))
          EXCEPT !.pending_lock = Tail(@)]
  ELSE w

ReleaseLock(n, s, i, w) ==
  IF /\ MaySend(n, s, w) /\ s.pending_lock # <<>> /\ ~s.in_transaction
     /\ ~i.req /\ ~IsCtrl(n, s)
  THEN [Send(w, Flit("LOCK", Head(s.pending_lock), n, IF s.ring_locked THEN 1 ELSE 0))
          EXCEPT !.ring_locked = FALSE, !.pending_lock = Tail(@)]
  ELSE w

EnqueueLock(n, s, w) ==
  IF EnqueuesLock(n, s)
  THEN [w EXCEPT !.get = TRUE, !.pending_lock = Append(@, Front(s).id)]
  ELSE w

EnqueueUpdt(n, s, w) ==
  IF IsUpdate(n, s)
  THEN [w EXCEPT !.get = TRUE, !.pending_updt = Append(@, Front(s))]
  ELSE w

Forward(n, s, w) ==
  IF Forwards(n, s) /\ OutWok(s) /\ w.out = Nop
  THEN [Send(w, Front(s)) EXCEPT !.get = TRUE]
  ELSE w

Popped(fifo, pop) == IF pop THEN Tail(fifo) ELSE fifo
Pushed(fifo, flit) == IF flit = Nop THEN fifo ELSE Append(fifo, flit)

\* The writes a cycle may make besides those to the registers.
NoWrites == [out |-> Nop, get |-> FALSE, fifo_get |-> FALSE, updt_get |-> FALSE,
             seg_write |-> <<>>, dir_write |-> <<>>]
Machines(n, s, i) ==
  LET w0 == [f \in DOMAIN s \cup DOMAIN NoWrites |->
               IF f \in DOMAIN s THEN s[f] ELSE NoWrites[f]]
      w1 == ComputeLocation(n, s, i, w0)
      w2 == ComputeControl(n, s, i, w1)
      w3 == ComputeUpdate(n, s, i, w2)
      w4 == ComputeTransfer(n, s, i, w3)
      w5 == EnqueueUpdt(n, s, [w4 EXCEPT !.pending_updt = Popped(@, w4.updt_get)])
      w6 == EnqueueLock(n, s, ReleaseLock(n, s, i, w5))
  IN  Forward(n, s, w6)

\* The output FSM pops what the next node accepts, the input FSM pushes
\* what the previous node shows (ring.ack is in_fifo_wok).
InWok(s) == Len(s.in_fifo) < RingFifoSize
RingOut(s) == IF s.out_fifo = <<>> THEN Nop ELSE Head(s.out_fifo)
Registers(n, s, i, w) ==
  [f \in DOMAIN s |->
     CASE f = "in_fifo"  -> Pushed(Popped(s.in_fifo, w.get),
                                   IF InWok(s) THEN i.ring ELSE Nop)
       [] f = "out_fifo" -> Popped(Pushed(s.out_fifo, w.out), s.out_fifo # <<>> /\ i.ring_ack)
       [] OTHER -> w[f]]

-----------------------------------------------------------------------------
(* gen_outputs: the ports to Module_10.                                    *)
Req6(s) == s.ctrl_fsm \in {"c_elect", "c_poison", "c_notify_m_control", "c_unpoison",
                           "c_abort", "c_update_tlb", "c_update_wiam"}
Cmd6(s) ==
  CASE s.ctrl_fsm = "c_elect"            -> "CMD_ELECT"
    [] s.ctrl_fsm = "c_poison"           -> "CMD_POISON"
    [] s.ctrl_fsm = "c_notify_m_control" -> "CMD_BEGIN_TRANSACTION"
    [] s.ctrl_fsm = "c_unpoison"         -> "CMD_UNPOISON"
    [] s.ctrl_fsm = "c_abort"            -> "CMD_ABORT"
    [] s.ctrl_fsm = "c_update_tlb"       -> "CMD_UPDT_INV"
    [] s.ctrl_fsm = "c_update_wiam"      -> "CMD_UPDT_WIAM"
    [] OTHER                             -> "CMD_NOP"
Data6(s) ==
  CASE s.ctrl_fsm = "c_update_tlb"  -> IF s.cycle_two THEN s.new_addr ELSE s.local_addr
    [] s.ctrl_fsm = "c_update_wiam" -> IF s.cycle_two THEN s.wiam_addr ELSE s.local_addr
    [] OTHER -> 0
Ack6(s) == s.ctrl_fsm \in {"c_idle", "c_unpoison_ok"}

\* set_tlb_inv_ok and set_wiam_ok, called by the memory.
SetTlbInvOk(s) == [s EXCEPT !.inv_tlb_ok = TRUE]
SetWiamOk(s) == [s EXCEPT !.wiam_ok = TRUE]
=============================================================================
