-------------------------- MODULE MigrationProps --------------------------
(***************************************************************************)
(* What the migration of pages promises: see also PageExchange.            *)
(***************************************************************************)
EXTENDS MigrationRing

\* Every register has its type and the fifos their size.
RingTypeOK ==
  /\ \A n \in Node :
       /\ m6[n].ctrl_fsm \in CtrlStates /\ m6[n].tr_fsm \in TrStates
       /\ m6[n].updt_fsm \in UpdtStates /\ m6[n].loc_fsm \in LocStates
       /\ m6[n].node_count \in 0 .. NbMem + NbProcs /\ m6[n].found_id \in Node
       /\ m6[n].req_cpt \in 0 .. PageWords /\ m6[n].rsp_cpt \in 0 .. PageWords
       /\ m6[n].page_addr_home \in Frame /\ m6[n].page_selected \in Frame
       /\ Len(m6[n].in_fifo) <= RingFifoSize /\ Len(m6[n].out_fifo) <= RingFifoSize
       /\ m10[n].fsm \in M10States /\ m10[n].index_cpt \in 0 .. NbProcs - 1
       /\ m10[n].max_p \in (0 .. NbFrames - 1) \cup {NoPage}
       /\ Len(m10[n].fifo) <= 1 /\ ram[n] \in RamStates
  /\ virt \in [Frame -> Frame] /\ wiam \in [Frame -> Frame]
  /\ poisoned \subseteq Frame /\ inval \subseteq Frame

-----------------------------------------------------------------------------
(* The lock.                                                               *)
IsToken(f) == f.cmd = "LOCK" /\ f.data = 1
TokensIn(fifo) == {j \in 1 .. Len(fifo) : IsToken(fifo[j])}

\* Where a token is, in the registers s of the nodes: in a node, or in a flit
\* of one of its fifos.
HeldTokens(s) == {<<"node", n, 0>> : n \in {k \in Node : s[k].ring_locked}}
InTokens(s) == UNION {{<<"in", n, j>> : j \in TokensIn(s[n].in_fifo)} : n \in Node}
OutTokens(s) == UNION {{<<"out", n, j>> : j \in TokensIn(s[n].out_fifo)} : n \in Node}
Tokens(s) == HeldTokens(s) \cup InTokens(s) \cup OutTokens(s)

\* There is one token: in a node, or in the LOCK that brings it to the node
\* it was given to; only its owner is the master of a transaction.
OneToken ==
  /\ \E place \in Tokens(m6) : Tokens(m6) = {place}
  /\ \A n \in Node : m6[n].master => m6[n].ring_locked /\ m6[n].in_transaction

\* The request of a node that waits for the lock: in its own Module_6, on
\* the ring, or kept by another node.
Requests(n) ==
  {k \in Node : \/ n \in {m6[k].pending_lock[j] : j \in 1 .. Len(m6[k].pending_lock)}
                \/ \E j \in 1 .. Len(m6[k].in_fifo) :
                     m6[k].in_fifo[j].cmd = "LOCK" /\ m6[k].in_fifo[j].id = n
                \/ \E j \in 1 .. Len(m6[k].out_fifo) :
                     m6[k].out_fifo[j].cmd = "LOCK" /\ m6[k].out_fifo[j].id = n}
Waiting(n) == m10[n].master_contention /\ ~m6[n].master

\* A contention that Module_10 has handed over is never forgotten: its
\* request for the lock exists once, in Module_6 or somewhere on the ring.
RequestNotLost ==
  \A n \in Node : Waiting(n) =>
    IF m6[n].ctrl_fsm = "c_lock_ring" THEN Requests(n) = {}
    ELSE \/ \E k \in Node : Requests(n) = {k}
         \/ m10[n].fsm \in {"unpoison_ok", "abort", "finish"}

\* A node in a transaction that is not the master was elected by one that
\* is, and each of the two knows the other.
Paired ==
  \A n \in Node : m6[n].in_transaction /\ ~m6[n].master =>
    LET k == m6[n].found_id
    IN  k # n /\ m6[k].master /\ m6[k].found_id = n /\ m6[k].found_is_other

-----------------------------------------------------------------------------
(* The pages.                                                              *)
Holds(f, p) ==
  /\ wiam[f] = p
  /\ \A l \in 0 .. PageLines - 1 :
       /\ dir[f][l] = Word(p, l, 0)
       /\ \A k \in 0 .. LineWords - 1 : mem[f][l][k] = Word(p, l, k)

\* Where a TLB may still send a processor for page p, the frame is poisoned
\* or holds page p: words, directory entries and who-am-I.
TranslationsSafe == \A p \in Frame : \A f \in tlb[p] : f \in poisoned \/ Holds(f, p)

\* Between two transactions nothing is left behind: no poisoned frame, the
\* page tables and the frames agree, no flag waits to be taken for one of
\* the next transaction.
CleanAtRest ==
  (\A n \in Node : ~m6[n].in_transaction) =>
    /\ poisoned = {} /\ \A p \in Frame : Holds(virt[p], p) /\ tlb[p] = {virt[p]}
    /\ \A n \in Node :
         /\ ~m6[n].wiam_ok /\ ~m6[n].update_ok /\ ~m6[n].transfer_ok /\ ~m6[n].inv_tlb_ok
         /\ ~m6[n].update_tlb /\ ~m6[n].update_wiam /\ ~m6[n].update_home
         /\ ~m6[n].begin_transfer /\ ~m6[n].rcv_finish /\ ~m6[n].cycle_two
         /\ ~m10[n].slave

\* Words, directory entries and who-am-I change in poisoned frames only.
MovesPoisoned ==
  [][\A f \in Frame :
       <<mem[f], dir[f], wiam[f]>>' # <<mem[f], dir[f], wiam[f]>> => f \in poisoned]_memVars

Exchange == INSTANCE PageExchange WITH
  Frames <- Frame, NoOne <- NbMem * NbFrames,
  holds <- [f \in Frame |-> CASE f \in poisoned -> NbMem * NbFrames
                              [] f \notin poisoned /\ Holds(f, wiam[f]) -> wiam[f]
                              [] OTHER -> NbMem * NbFrames + 1]

\* The ring implements the exchange of pages; a frame that is accessible
\* with a part of two pages shows a value that the exchange never gives.
ImplementsExchange == Exchange!ExchangeSpec

-----------------------------------------------------------------------------
(* The assertions of Module_6 and Module_10.                               *)
CtrlAsserts(n, s, c) ==
  /\ s.ctrl_fsm = "c_idle" =>
       /\ Req10(c) => Cmd10(c) \in {"CMD_IS_CONTENTION", "CMD_PE_MIG"}
       /\ Req10(c) /\ s.ring_locked => ~s.in_transaction
       /\ IsCtrl(n, s) /\ Cmd(s) = "SELECT" /\ s.cycle_two /\ s.master =>
            s.found_id = Front(s).srcid
       /\ s.wiam_ok /\ s.update_ok /\ s.transfer_ok => s.in_transaction
  /\ s.ctrl_fsm = "c_poison_wait" /\ Req10(c) => Cmd10(c) = "CMD_IS_POISONNED"
  /\ s.ctrl_fsm = "c_wait_page_addr_home" /\ Req10(c) => Cmd10(c) = "CMD_PAGE_ADDR_HOME"
  /\ s.ctrl_fsm = "c_unpoison_ok" /\ Req10(c) => Cmd10(c) = "CMD_UNPOISON_OK"
  /\ s.ctrl_fsm = "c_finish" =>
       IF s.master THEN IsCtrl(n, s) => Cmd(s) = "FINISH" /\ ~s.rcv_finish
       ELSE ~s.rcv_finish
LocAsserts(n, s) ==
  /\ Cmd(s) = "LOCATE" /\ ~s.master => ~s.in_transaction
  /\ IsLoc(n, s) =>
       CASE s.loc_fsm = "l_idle" -> Cmd(s) = "LOCATE" /\ s.node_count = 0
         [] s.loc_fsm \in {"l_compute_pressure", "l_compute_location"} -> Cmd(s) = "LOCATE"
         [] s.loc_fsm = "l_wait_loc_cost" -> Cmd(s) = "COST" /\ s.node_count < NbMem - 1
         [] OTHER -> TRUE
FifoAsserts(n, s) ==
  /\ Cmd(s) = "LOCK" /\ ~Mine(n, s) /\ Front(s).data = 1 => ~s.ring_locked
  /\ EnqueuesLock(n, s) => Len(s.pending_lock) < NbMem
  /\ Len(s.pending_updt) <= UpdtFifoSize
  /\ n \notin {s.pending_lock[j] : j \in 1 .. Len(s.pending_lock)}
ControlAsserts(n, s, c) ==
  /\ c.fsm = "updt_inv" => Cmd6(s) = "CMD_UPDT_INV"
  /\ c.fsm = "updt_wiam" => Cmd6(s) = "CMD_UPDT_WIAM"
  /\ c.fsm = "raise_contention" /\ Req6(s) => ~Ack6(s)
  /\ c.fsm = "abort" => ~c.slave /\ c.master_contention
  /\ c.fsm = "unpoison_ok" => Ack6(s) /\ (c.slave \/ c.master_contention)
  /\ c.fsm = "idle" /\ ~Req6(s) => cpu[n] # (IF c.m9_locked THEN "LOCK" ELSE "UNLOCK")
  /\ c.fsm \in {"poison", "unpoison"} => ram[n] = "idle"

\* No assertion of Module_6 and Module_10 fails: a flit reaches a machine
\* that expects it, a command its answer, and no fifo is full when a flit
\* must be put aside.
RingAssertionsHold ==
  \A n \in Node :
    /\ CtrlAsserts(n, m6[n], m10[n]) /\ LocAsserts(n, m6[n]) /\ FifoAsserts(n, m6[n])
    /\ ControlAsserts(n, m6[n], m10[n])

\* The elected node migrates a page it has elected: its Module_10 knows
\* that it is a slave when it poisons the page.
ElectionAcknowledged ==
  \A n \in Node : m10[n].fsm = "poison" /\ ~m6[n].master => m10[n].slave
=============================================================================
