-------------------------- MODULE MigrationProofs --------------------------
(***************************************************************************)
(* Proofs about the ring of the migration: whatever the size of the ring,  *)
(* there is one token.                                                     *)
(***************************************************************************)
EXTENDS MigrationProps, SequenceTheorems, TLAPS

(***************************************************************************)
(* One node: a cycle of the state machines.                                *)
(***************************************************************************)

\* The registers of a node, and the writes of a cycle.
Regs == DOMAIN ResetM6(0)
Whole(w) == DOMAIN w = Regs \cup DOMAIN NoWrites

LEMMA RegNames ==
  /\ {"ctrl_fsm", "tr_fsm", "updt_fsm", "loc_fsm", "ring_locked", "in_transaction", "master",
      "in_fifo", "out_fifo"} \subseteq Regs
  /\ DOMAIN NoWrites = {"out", "get", "fifo_get", "updt_get", "seg_write", "dir_write"}
  /\ Regs \cap DOMAIN NoWrites = {}
  /\ \A n \in Node : DOMAIN ResetM6(n) = Regs
  BY DEF Regs, ResetM6, NoWrites

\* The machines are in one of their states.
StatesOK(w) ==
  /\ w.ctrl_fsm \in CtrlStates /\ w.tr_fsm \in TrStates
  /\ w.updt_fsm \in UpdtStates /\ w.loc_fsm \in LocStates

\* A machine that does not handle the lock: it neither sends nor takes a
\* token, and the node stays what it is in the transaction.
SendsQuietly(n, s, w, v) == v.out = w.out \/ (~Forwards(n, s) /\ ~IsToken(v.out))
TakesQuietly(s, w, v) ==
  v.get = w.get \/ (v.get = TRUE /\ Cmd(s) # "NOP" /\ ~IsToken(Front(s)))
Quiet(n, s, w, v) ==
  /\ DOMAIN v = DOMAIN w /\ (StatesOK(w) => StatesOK(v))
  /\ SendsQuietly(n, s, w, v) /\ TakesQuietly(s, w, v)
  /\ v.ring_locked = w.ring_locked /\ v.master = w.master
  /\ v.in_transaction = w.in_transaction

LEMMA QuietTwice ==
  ASSUME NEW n, NEW s, NEW w, NEW v, NEW u, Quiet(n, s, w, v), Quiet(n, s, v, u)
  PROVE  Quiet(n, s, w, u)
  BY DEF Quiet, SendsQuietly, TakesQuietly

LEMMA LocQuiet ==
  ASSUME NEW n, NEW s, NEW i, NEW w, Whole(w), s.loc_fsm \in LocStates
  PROVE  Quiet(n, s, w, ComputeLocation(n, s, i, w))
<1> USE RegNames DEF Whole, Quiet, SendsQuietly, TakesQuietly, StatesOK, LocStates, Send,
        MaySend, IsToken, Flit
<1>1. CASE s.loc_fsm = "l_idle"
  <2>1. ComputeLocation(n, s, i, w) = LocIdle(n, s, i, w)
    BY <1>1, Zenon DEF ComputeLocation
  <2> QED BY <2>1 DEF LocIdle
<1>2. CASE s.loc_fsm = "l_req_loc"
  <2>1. ComputeLocation(n, s, i, w) = LocRequest(n, s, i, w)
    BY <1>2, Zenon DEF ComputeLocation
  <2> QED BY <2>1 DEF LocRequest
<1>3. CASE s.loc_fsm = "l_compute_pressure"
  <2>1. ComputeLocation(n, s, i, w) = LocPressure(n, s, i, w)
    BY <1>3, Zenon DEF ComputeLocation
  <2> QED BY <2>1 DEF LocPressure, TakesLocate, TakeAndPass, IsLoc, Cmd
<1>4. CASE s.loc_fsm = "l_compute_location"
  <2>1. ComputeLocation(n, s, i, w) = LocCompute(n, s, i, w)
    BY <1>4, Zenon DEF ComputeLocation
  <2> DEFINE taken == [TakeAndPass(n, s, w) EXCEPT !.location_cost = CostWith(s, i)]
             done == [taken EXCEPT !.node_count = 0, !.save_req_id = Front(s).id]
  <2>2. ASSUME TakesLocate(n, s, w) PROVE Quiet(n, s, w, taken)
    BY <2>2 DEF TakesLocate, TakeAndPass, IsLoc, Cmd
  <2>3. Quiet(n, s, taken, done)
    OBVIOUS
  <2> DEFINE more == [taken EXCEPT !.node_count = @ + 1]
             sends == [done EXCEPT !.loc_fsm = "l_send_cost_value"]
             waits == [done EXCEPT
               !.loc_fsm = "l_wait_loc_cost", !.found_is_other = FALSE,
               !.location_cost = IF s.mig_c THEN MaxCost ELSE @]
  <2>4. /\ Quiet(n, s, w, w) /\ Quiet(n, s, taken, more)
        /\ Quiet(n, s, done, sends) /\ Quiet(n, s, done, waits)
    <3> HIDE DEF done
    <3>1. Quiet(n, s, done, sends) /\ Quiet(n, s, done, waits)
      <4>1. "loc_fsm" \in DOMAIN done
        BY <2>3 DEF taken, TakeAndPass, done
      <4> QED BY <4>1
    <3> HIDE DEF taken
    <3> QED BY <3>1
  <2>5. \/ ComputeLocation(n, s, i, w) = w
        \/ /\ TakesLocate(n, s, w)
           /\ ComputeLocation(n, s, i, w) \in {more, sends, waits}
    BY <2>1, Zenon DEF LocCompute
  <2> HIDE DEF taken, done, more, sends, waits, Quiet
  <2> QED BY <2>2, <2>3, <2>4, <2>5, QuietTwice
<1>5. CASE s.loc_fsm = "l_send_cost_value"
  <2>1. ComputeLocation(n, s, i, w) = LocSendCost(n, s, i, w)
    BY <1>5, Zenon DEF ComputeLocation
  <2> QED BY <2>1 DEF LocSendCost
<1>6. CASE s.loc_fsm = "l_wait_loc_cost"
  <2>1. ComputeLocation(n, s, i, w) = LocWaitCost(n, s, i, w)
    BY <1>6, Zenon DEF ComputeLocation
  <2> QED BY <2>1 DEF LocWaitCost, IsLoc, Cmd
<1> QED BY <1>1, <1>2, <1>3, <1>4, <1>5, <1>6

\* The control machine: it may take the token, and become the master with it.
TakesToken(n, s, v) ==
  IsToken(Front(s)) /\ Mine(n, s) /\ v.get = TRUE /\ v.ring_locked = TRUE
Controls(n, s, i, w, v) ==
  /\ DOMAIN v = DOMAIN w /\ (StatesOK(w) => StatesOK(v)) /\ SendsQuietly(n, s, w, v)
  /\ v.master \in BOOLEAN
  /\ TakesToken(n, s, v) \/ (TakesQuietly(s, w, v) /\ v.ring_locked = w.ring_locked)
  /\ v.master = TRUE =>
       /\ v.ring_locked = TRUE /\ v.in_transaction = TRUE
       /\ s.master = TRUE \/ i.req \/ IsCtrl(n, s)

\* What the machines find in the registers.
Fresh(s, w) ==
  w.ring_locked = s.ring_locked /\ w.master = s.master /\ w.in_transaction = s.in_transaction
MasterOK(s) ==
  /\ s.master \in BOOLEAN /\ s.ring_locked \in BOOLEAN
  /\ s.master = TRUE =>
       s.ring_locked = TRUE /\ s.in_transaction = TRUE /\ ~IsToken(Front(s))

LEMMA IdleControls ==
  ASSUME NEW n, NEW s, NEW i, NEW w, Whole(w), Fresh(s, w), MasterOK(s),
         s.ctrl_fsm = "c_idle"
  PROVE  Controls(n, s, i, w, ComputeControl(n, s, i, w))
<1> DEFINE v == ComputeControl(n, s, i, w)
<1> USE RegNames DEF Whole, Fresh, MasterOK, StatesOK, CtrlStates, IsToken, Goto,
        SendsQuietly, TakesQuietly, TakesToken, Controls
<1>1. v = CtrlIdle(n, s, i, w)
  BY Zenon DEF ComputeControl
<1>2. CASE i.req
  <2>1. v = CtrlContention(n, s, i, w)
    BY <1>1, <1>2, Zenon DEF CtrlIdle
  <2> DEFINE asked == [w EXCEPT !.mig_c = i.cmd = "CMD_IS_CONTENTION"]
  <2>2. CASE s.ring_locked
    <3>1. v = BecomesMaster(asked)
      BY <2>1, <2>2 DEF CtrlContention
    <3> QED BY <1>2, <2>2, <3>1 DEF BecomesMaster
  <2>3. CASE ~s.ring_locked
    <3>1. v = Goto(asked, "c_lock_ring")
      BY <2>1, <2>3 DEF CtrlContention
    <3> QED BY <1>2, <2>3, <3>1
  <2> QED BY <2>2, <2>3
<1>3. CASE ~i.req /\ IsCtrl(n, s)
  <2>1. v = CtrlTakes(n, s, w)
    BY <1>1, <1>3, Zenon DEF CtrlIdle
  <2> DEFINE taken == [w EXCEPT !.get = TRUE]
  <2>2. CASE Cmd(s) = "SELECT"
    <3>1. v = CtrlSelect(n, s, taken)
      BY <2>1, <2>2, Zenon DEF CtrlTakes
    <3> QED BY <2>2, <3>1 DEF CtrlSelect, Cmd
  <2>3. CASE Cmd(s) = "LOCK"
    <3>1. v = CtrlLock(n, s, taken)
      BY <2>1, <2>3, Zenon DEF CtrlTakes
    <3>2. Mine(n, s)
      BY <1>3, <2>3 DEF IsCtrl
    <3>3. CASE Front(s).data = 1
      <4>1. v = [BecomesMaster(taken) EXCEPT !.ring_locked = TRUE]
        BY <3>1, <3>3, Zenon DEF CtrlLock
      <4>2. TakesToken(n, s, v)
        BY <2>3, <3>2, <3>3, <4>1 DEF BecomesMaster, Cmd
      <4> QED BY <1>3, <4>1, <4>2 DEF BecomesMaster
    <3>4. CASE Front(s).data # 1
      <4>1. v = Goto(taken, "c_lock_ring")
        BY <3>1, <3>4, Zenon DEF CtrlLock
      <4> QED BY <1>3, <2>3, <3>4, <4>1 DEF Cmd
    <3> QED BY <3>3, <3>4
  <2>4. CASE Cmd(s) = "FINISH"
    <3>1. v = [taken EXCEPT !.rcv_finish = TRUE]
      BY <2>1, <2>4, Zenon DEF CtrlTakes
    <3> QED BY <2>4, <3>1 DEF Cmd
  <2> QED BY <1>3, <2>2, <2>3, <2>4 DEF IsCtrl
<1>4. CASE ~i.req /\ ~IsCtrl(n, s)
  <2>1. \/ v = w
        \/ \E state \in {"c_unpoison", "c_update_tlb", "c_update_wiam"} : v = Goto(w, state)
        \/ \E state \in {"c_poison", "c_abort"} :
             v = [Goto(w, state) EXCEPT !.location_found = FALSE]
    <3>1. CASE s.wiam_ok /\ s.update_ok /\ s.transfer_ok
      BY <1>1, <1>4, <3>1, Zenon DEF CtrlIdle
    <3>2. CASE ~(s.wiam_ok /\ s.update_ok /\ s.transfer_ok)
      BY <1>1, <1>4, <3>2, Zenon DEF CtrlIdle
    <3> QED BY <3>1, <3>2
  <2> QED BY <2>1
<1> QED BY <1>2, <1>3, <1>4

LEMMA CtrlControls ==
  ASSUME NEW n, NEW s, NEW i, NEW w, Whole(w), Fresh(s, w), MasterOK(s),
         s.ctrl_fsm \in CtrlStates
  PROVE  Controls(n, s, i, w, ComputeControl(n, s, i, w))
<1> DEFINE v == ComputeControl(n, s, i, w)
<1> USE RegNames DEF Whole, Fresh, MasterOK, StatesOK, CtrlStates, IsToken, Goto, Flit,
        Send, MaySend, SendsQuietly, TakesQuietly, TakesToken, Controls
<1>1. CASE s.ctrl_fsm = "c_idle"
  BY <1>1, IdleControls, Zenon
<1>2. CASE s.ctrl_fsm = "c_lock_ring"
  <2>1. v = CtrlLockRing(n, s, i, w)
    BY <1>2, Zenon DEF ComputeControl
  <2> QED BY <2>1 DEF CtrlLockRing
<1>3. CASE s.ctrl_fsm \in {"c_notify_m_control", "c_poison", "c_unpoison"}
  <2>1. \E next \in CtrlStates : v = CtrlOneWord(i, w, next)
    BY <1>3, Zenon DEF ComputeControl
  <2> QED BY <2>1 DEF CtrlOneWord
<1>4. CASE s.ctrl_fsm = "c_elect"
  <2>1. v = CtrlElect(i, w)
    BY <1>4, Zenon DEF ComputeControl
  <2> QED BY <2>1 DEF CtrlElect
<1>5. CASE s.ctrl_fsm = "c_poison_wait"
  <2>1. v = CtrlPoisonWait(i, w)
    BY <1>5, Zenon DEF ComputeControl
  <2> QED BY <2>1 DEF CtrlPoisonWait
<1>6. CASE s.ctrl_fsm = "c_wait_page_addr_home"
  <2>1. v = CtrlWaitHome(i, w)
    BY <1>6, Zenon DEF ComputeControl
  <2> QED BY <2>1 DEF CtrlWaitHome
<1>7. CASE s.ctrl_fsm = "c_notify_selected"
  <2>1. v = CtrlNotifySelected(n, s, i, w)
    BY <1>7, Zenon DEF ComputeControl
  <2> QED BY <2>1 DEF CtrlNotifySelected
<1>8. CASE s.ctrl_fsm = "c_update_tlb"
  <2>1. v = CtrlTwoWords(s, i, [w EXCEPT !.update_tlb = FALSE])
    BY <1>8, Zenon DEF ComputeControl
  <2> QED BY <2>1 DEF CtrlTwoWords
<1>9. CASE s.ctrl_fsm = "c_update_wiam"
  <2>1. v = CtrlTwoWords(s, i, [w EXCEPT !.update_wiam = FALSE])
    BY <1>9, Zenon DEF ComputeControl
  <2> QED BY <2>1 DEF CtrlTwoWords
<1>10. CASE s.ctrl_fsm = "c_unpoison_ok"
  <2>1. v = CtrlUnpoisonOk(i, w)
    BY <1>10, Zenon DEF ComputeControl
  <2> QED BY <2>1 DEF CtrlUnpoisonOk
<1>11. CASE s.ctrl_fsm = "c_abort"
  <2>1. v = CtrlAbort(i, w)
    BY <1>11, Zenon DEF ComputeControl
  <2>2. CASE i.ack
    BY <2>1, <2>2 DEF CtrlAbort
  <2>3. CASE ~i.ack
    BY <2>1, <2>3 DEF CtrlAbort
  <2> QED BY <2>2, <2>3
<1>12. CASE s.ctrl_fsm = "c_finish"
  <2>1. v = CtrlFinish(n, s, i, w)
    BY <1>12, Zenon DEF ComputeControl
  <2>2. CASE s.master /\ IsCtrl(n, s)
    <3>1. v = [EndsTransaction(w) EXCEPT !.get = TRUE, !.master = FALSE]
      BY <2>1, <2>2, Zenon DEF CtrlFinish
    <3> QED BY <2>2, <3>1 DEF EndsTransaction, IsCtrl, Cmd
  <2>3. CASE s.master /\ ~IsCtrl(n, s) /\ s.rcv_finish
    <3>1. v = [EndsTransaction(w) EXCEPT !.rcv_finish = FALSE, !.master = FALSE]
      BY <2>1, <2>3, Zenon DEF CtrlFinish
    <3> QED BY <2>3, <3>1 DEF EndsTransaction
  <2>4. CASE ~s.master /\ MaySend(n, s, w)
    <3>1. v = EndsTransaction(Send(w, Flit("FINISH", s.found_id, n, 0)))
      BY <2>1, <2>4, Zenon DEF CtrlFinish
    <3> QED BY <2>4, <3>1 DEF EndsTransaction
  <2>5. CASE /\ ~(s.master /\ IsCtrl(n, s)) /\ ~(s.master /\ ~IsCtrl(n, s) /\ s.rcv_finish)
             /\ ~(~s.master /\ MaySend(n, s, w))
    <3>1. v = w
      BY <2>1, <2>5, Zenon DEF CtrlFinish
    <3> QED BY <3>1
  <2> QED BY <2>2, <2>3, <2>4, <2>5
<1> QED
  BY <1>1, <1>2, <1>3, <1>4, <1>5, <1>6, <1>7, <1>8, <1>9, <1>10, <1>11, <1>12

LEMMA UpdateQuiet ==
  ASSUME NEW n, NEW s, NEW i, NEW w, Whole(w), s.updt_fsm \in UpdtStates
  PROVE  Quiet(n, s, w, ComputeUpdate(n, s, i, w))
<1> DEFINE v == ComputeUpdate(n, s, i, w)
<1> USE RegNames DEF Whole, Quiet, SendsQuietly, TakesQuietly, StatesOK, UpdtStates, Send,
        MaySend, IsToken, Flit
<1>1. CASE s.updt_fsm = "u_idle"
  <2>1. v = UpdtIdle(n, s, i, w)
    BY <1>1, Zenon DEF ComputeUpdate
  <2> QED BY <2>1 DEF UpdtIdle
<1>2. CASE s.updt_fsm = "u_receive_update_tlb"
  <2>1. v = UpdtReceive(n, s, i, w)
    BY <1>2, Zenon DEF ComputeUpdate
  <2> QED BY <2>1 DEF UpdtReceive
<1>3. CASE s.updt_fsm = "u_send_updt_home"
  <2>1. v = UpdtSendHome(n, s, i, w)
    BY <1>3, Zenon DEF ComputeUpdate
  <2> QED BY <2>1 DEF UpdtSendHome
<1>4. CASE s.updt_fsm = "u_tlb_inv_ok"
  <2>1. v = UpdtTlbInvOk(n, s, i, w)
    BY <1>4, Zenon DEF ComputeUpdate
  <2> QED BY <2>1 DEF UpdtTlbInvOk
<1>5. CASE s.updt_fsm = "u_send_updt_ack_home"
  <2>1. v = UpdtSendAck(n, s, i, w)
    BY <1>5, Zenon DEF ComputeUpdate
  <2> QED BY <2>1 DEF UpdtSendAck
<1> QED BY <1>1, <1>2, <1>3, <1>4, <1>5

LEMMA TransferInQuiet ==
  ASSUME NEW n, NEW s, NEW i, NEW w, Whole(w)
  PROVE  Quiet(n, s, w, TransferIn(n, s, i, w))
<1> DEFINE v == TransferIn(n, s, i, w)
           buffer == [s.buf_write EXCEPT ![WordIn(s.rsp_cpt)] = Front(s).data]
           taken == [w EXCEPT !.get = TRUE, !.buf_write = buffer, !.rsp_cpt = @ + 1]
           written == [taken EXCEPT !.rsp_end = s.rsp_cpt = PageWords - 1,
                         !.seg_write = <<LineOf(s.rsp_cpt), buffer>>]
<1>1. v = w \/ (IsTransfer(n, s) /\ v \in {taken, written})
  <2>1. CASE ~IsTransfer(n, s) \/ s.rsp_end
    BY <2>1, Zenon DEF TransferIn
  <2>2. CASE IsTransfer(n, s) /\ ~s.rsp_end /\ WordIn(s.rsp_cpt) # LineWords - 1
    BY <2>2, Zenon DEF TransferIn
  <2>3. CASE IsTransfer(n, s) /\ ~s.rsp_end /\ WordIn(s.rsp_cpt) = LineWords - 1
    BY <2>3, Zenon DEF TransferIn
  <2> QED BY <2>1, <2>2, <2>3
<1> HIDE DEF buffer
<1> QED BY <1>1, RegNames
        DEF Whole, Quiet, SendsQuietly, TakesQuietly, StatesOK, IsToken, IsTransfer, Cmd

LEMMA TransferQuiet ==
  ASSUME NEW n, NEW s, NEW i, NEW w, Whole(w), s.tr_fsm \in TrStates
  PROVE  Quiet(n, s, w, ComputeTransfer(n, s, i, w))
<1> DEFINE v == ComputeTransfer(n, s, i, w)
<1> USE RegNames DEF Whole
<1>1. ASSUME NEW u, Whole(u)
      PROVE  /\ Quiet(n, s, u, TransferOut(n, s, i, u))
             /\ Quiet(n, s, u, DirIn(n, s, i, u)) /\ Quiet(n, s, u, DirOut(n, s, i, u))
             /\ \A next \in TrStates : Quiet(n, s, u, PartOver(u, next))
  <2> USE DEF Quiet, SendsQuietly, TakesQuietly, StatesOK, TrStates, Send, MaySend,
              IsToken, Flit
  <2>1. Quiet(n, s, u, TransferOut(n, s, i, u))
    BY <1>1 DEF TransferOut
  <2>2. Quiet(n, s, u, DirIn(n, s, i, u))
    BY <1>1 DEF DirIn, IsTransfer, Cmd
  <2>3. Quiet(n, s, u, DirOut(n, s, i, u))
    BY <1>1 DEF DirOut
  <2>4. \A next \in TrStates : Quiet(n, s, u, PartOver(u, next))
    BY <1>1 DEF PartOver
  <2> QED BY <2>1, <2>2, <2>3, <2>4
<1>2. \A u : Quiet(n, s, w, u) => Whole(u)
  BY DEF Quiet
<1>3. CASE s.tr_fsm = "t_idle"
  <2>1. v = IF s.begin_transfer
            THEN [w EXCEPT !.tr_fsm = "t_transfer", !.begin_transfer = FALSE] ELSE w
    BY <1>3, Zenon DEF ComputeTransfer
  <2> QED BY <2>1 DEF Quiet, SendsQuietly, TakesQuietly, StatesOK, TrStates
<1>4. CASE s.tr_fsm = "t_transfer"
  <2> DEFINE a == TransferIn(n, s, i, w)
             b == TransferOut(n, s, i, a)
  <2>1. v = PartOver(b, "t_transfer_dir")
    BY <1>4, Zenon DEF ComputeTransfer
  <2>2. Quiet(n, s, w, a)
    BY TransferInQuiet
  <2>3. Quiet(n, s, w, b)
    BY <1>1, <1>2, <2>2, QuietTwice
  <2> HIDE DEF a, b
  <2> QED BY <1>1, <1>2, <2>1, <2>3, QuietTwice DEF TrStates
<1>5. CASE s.tr_fsm = "t_transfer_dir"
  <2> DEFINE a == DirIn(n, s, i, w)
             b == DirOut(n, s, i, a)
  <2>1. v = PartOver(b, "t_idle")
    BY <1>5, Zenon DEF ComputeTransfer
  <2>2. Quiet(n, s, w, a)
    BY <1>1
  <2>3. Quiet(n, s, w, b)
    BY <1>1, <1>2, <2>2, QuietTwice
  <2> HIDE DEF a, b
  <2> QED BY <1>1, <1>2, <2>1, <2>3, QuietTwice DEF TrStates
<1> QED BY <1>3, <1>4, <1>5 DEF TrStates

\* What a cycle does to the lock of a node: the node keeps what it has, or
\* takes the token that is at the front of its input fifo, or passes it on.
TokenStep(n, s, w) ==
  /\ w.get = TRUE => s.in_fifo # <<>>
  /\ IF IsToken(Front(s)) /\ w.get = TRUE
     THEN \/ w.ring_locked = TRUE /\ ~IsToken(w.out)
          \/ w.ring_locked = s.ring_locked /\ IsToken(w.out)
     ELSE \/ w.ring_locked = s.ring_locked /\ ~IsToken(w.out)
          \/ s.ring_locked = TRUE /\ w.ring_locked = FALSE /\ IsToken(w.out)
  /\ w.get \in BOOLEAN /\ w.ring_locked \in BOOLEAN /\ w.master \in BOOLEAN
  /\ w.master = TRUE => w.ring_locked = TRUE /\ w.in_transaction = TRUE

LEMMA MachinesToken ==
  ASSUME NEW n, NEW s, NEW i, DOMAIN s = Regs, StatesOK(s), MasterOK(s)
  PROVE  /\ Whole(Machines(n, s, i)) /\ StatesOK(Machines(n, s, i))
         /\ TokenStep(n, s, Machines(n, s, i))
<1> DEFINE w0 == [f \in DOMAIN s \cup DOMAIN NoWrites |->
                    IF f \in DOMAIN s THEN s[f] ELSE NoWrites[f]]
           w1 == ComputeLocation(n, s, i, w0)
           w2 == ComputeControl(n, s, i, w1)
           w3 == ComputeUpdate(n, s, i, w2)
           w4 == ComputeTransfer(n, s, i, w3)
           w == [w4 EXCEPT !.pending_updt = Popped(@, w4.updt_get)]
           w5 == EnqueueUpdt(n, s, w)
           w6 == ReleaseLock(n, s, i, w5)
           w7 == EnqueueLock(n, s, w6)
           w8 == Forward(n, s, w7)
<1>1. Machines(n, s, i) = w8
  BY DEF Machines
<1>2. /\ Whole(w0) /\ StatesOK(w0) /\ Fresh(s, w0) /\ w0.get = FALSE /\ w0.out = Nop
  BY RegNames DEF Whole, StatesOK, Fresh, NoWrites
<1> HIDE DEF w0
<1>3. Quiet(n, s, w0, w1) /\ Whole(w1) /\ Fresh(s, w1)
  BY <1>2, LocQuiet DEF StatesOK, Quiet, Whole, Fresh
<1> HIDE DEF w1
<1>4. Controls(n, s, i, w1, w2) /\ Whole(w2)
  <2>1. Controls(n, s, i, w1, w2)
    BY <1>3, CtrlControls DEF StatesOK
  <2> QED BY <1>3, <2>1 DEF Controls, Whole
<1> HIDE DEF w2
<1>5. Quiet(n, s, w2, w3) /\ Whole(w3)
  BY <1>4, UpdateQuiet DEF StatesOK, Quiet, Whole
<1> HIDE DEF w3
<1>6. Quiet(n, s, w3, w4) /\ Whole(w4)
  BY <1>5, TransferQuiet DEF StatesOK, Quiet, Whole
<1> HIDE DEF w4
<1>7. Quiet(n, s, w4, w) /\ Quiet(n, s, w, w5) /\ Whole(w5)
  BY <1>6, RegNames DEF Quiet, Whole, StatesOK, SendsQuietly, TakesQuietly, EnqueueUpdt,
     IsUpdate, IsToken, Cmd
<1> HIDE DEF w, w5
<1>8. Quiet(n, s, w2, w5)
  BY <1>5, <1>6, <1>7, QuietTwice
<1>9. /\ w2.get \in BOOLEAN /\ (w2.get = TRUE => Cmd(s) # "NOP")
      /\ w2.out = Nop \/ (~Forwards(n, s) /\ ~IsToken(w2.out))
      /\ TakesToken(n, s, w2) \/ (/\ w2.get = FALSE \/ ~IsToken(Front(s))
                                 /\ w2.ring_locked = s.ring_locked)
  BY <1>2, <1>3, <1>4 DEF Quiet, Controls, SendsQuietly, TakesQuietly, TakesToken, Fresh,
     IsToken, Cmd
<1>10. /\ w5.get \in BOOLEAN /\ (w5.get = TRUE => Cmd(s) # "NOP")
       /\ w5.out = Nop \/ (~Forwards(n, s) /\ ~IsToken(w5.out))
       /\ TakesToken(n, s, w5) \/ (/\ w5.get = FALSE \/ ~IsToken(Front(s))
                                  /\ w5.ring_locked = s.ring_locked)
       /\ w5.master \in BOOLEAN
       /\ w5.master = TRUE => /\ w5.ring_locked = TRUE /\ w5.in_transaction = TRUE
                              /\ s.master = TRUE \/ i.req \/ IsCtrl(n, s)
       /\ StatesOK(w5)
  BY <1>2, <1>3, <1>4, <1>8, <1>9
     DEF Quiet, Controls, SendsQuietly, TakesQuietly, TakesToken, IsToken, Cmd
<1> DEFINE released == [Send(w5, Flit("LOCK", Head(s.pending_lock), n,
                                IF s.ring_locked THEN 1 ELSE 0))
                          EXCEPT !.ring_locked = FALSE, !.pending_lock = Tail(@)]
<1>11. \/ w6 = w5
       \/ /\ MaySend(n, s, w5) /\ ~s.in_transaction /\ ~i.req /\ ~IsCtrl(n, s)
          /\ w6 = released
  BY DEF ReleaseLock
<1>12. /\ s.ring_locked = TRUE => IsToken(released.out)
       /\ s.ring_locked = FALSE => ~IsToken(released.out)
       /\ released.ring_locked = FALSE /\ released.get = w5.get
       /\ released.master = w5.master /\ released.in_transaction = w5.in_transaction
       /\ Whole(released) /\ StatesOK(released)
  BY <1>7, <1>10, RegNames DEF Whole, Send, Flit, StatesOK, IsToken
<1> HIDE DEF released, w6
<1>13. Whole(w6) /\ StatesOK(w6)
  BY <1>7, <1>10, <1>11, <1>12
<1> HIDE DEF w7
<1>14. Quiet(n, s, w6, w7) /\ Whole(w7) /\ w7.out = w6.out
  <2>1. CASE EnqueuesLock(n, s)
    <3>1. Cmd(s) = "LOCK" /\ ~IsToken(Front(s))
      BY <2>1 DEF EnqueuesLock, IsToken
    <3>2. w7 = [w6 EXCEPT !.get = TRUE, !.pending_lock = Append(@, Front(s).id)]
      BY <2>1 DEF EnqueueLock, w7
    <3> QED BY <1>13, <3>1, <3>2, RegNames
            DEF Quiet, Whole, StatesOK, SendsQuietly, TakesQuietly
  <2>2. CASE ~EnqueuesLock(n, s)
    BY <1>13, <2>2 DEF EnqueueLock, w7, Quiet, SendsQuietly, TakesQuietly
  <2> QED BY <2>1, <2>2
<1>15. \/ w8 = w7
       \/ /\ Forwards(n, s) /\ w7.out = Nop
          /\ w8 = [Send(w7, Front(s)) EXCEPT !.get = TRUE]
  BY DEF Forward
<1>16. Whole(w8) /\ StatesOK(w8)
  BY <1>13, <1>14, <1>15, RegNames DEF Whole, Quiet, StatesOK, Send
<1>17. /\ IsToken(Front(s)) /\ Mine(n, s) => IsCtrl(n, s) /\ ~Forwards(n, s)
       /\ IsToken(Front(s)) /\ ~Mine(n, s) => Forwards(n, s)
       /\ Cmd(s) # "NOP" => s.in_fifo # <<>>
       /\ Forwards(n, s) => Cmd(s) # "NOP"
       /\ ~IsToken(Nop)
  BY DEF IsToken, IsCtrl, IsLoc, IsTransfer, IsUpdate, EnqueuesLock, Forwards, Cmd, Front,
     Nop, Flit
<1>18. /\ w8.ring_locked = w6.ring_locked /\ w8.master = w6.master
       /\ w8.in_transaction = w6.in_transaction
  <2>1. Forwards(n, s) => w8 = [Send(w7, Front(s)) EXCEPT !.get = TRUE] \/ w8 = w7
    BY <1>15
  <2> QED BY <1>14, <1>15, RegNames DEF Quiet, Send, Whole
<1>19. /\ w8.out = w7.out \/ (/\ Forwards(n, s) /\ w8.out = Front(s) /\ w8.get = TRUE
                                /\ w7.out = Nop)
       /\ w8.get = w7.get \/ (w8.get = TRUE /\ Forwards(n, s))
       /\ w8.out = w7.out => w8.get = w7.get \/ ~IsToken(Front(s))
  BY <1>14, <1>15, <1>17, RegNames DEF Send, Whole
<1>20. w8.get \in BOOLEAN /\ (w8.get = TRUE => Cmd(s) # "NOP")
  BY <1>10, <1>11, <1>12, <1>14, <1>17, <1>19 DEF Quiet, TakesQuietly
<1>21. /\ w8.master \in BOOLEAN
       /\ w8.master = TRUE => w8.ring_locked = TRUE /\ w8.in_transaction = TRUE
  BY <1>10, <1>11, <1>12, <1>18 DEF MasterOK
<1> HIDE DEF w8
<1>22. IF IsToken(Front(s)) /\ w8.get = TRUE
       THEN \/ w8.ring_locked = TRUE /\ ~IsToken(w8.out)
            \/ w8.ring_locked = s.ring_locked /\ IsToken(w8.out)
       ELSE \/ w8.ring_locked = s.ring_locked /\ ~IsToken(w8.out)
            \/ s.ring_locked = TRUE /\ w8.ring_locked = FALSE /\ IsToken(w8.out)
  <2>1. CASE IsToken(Front(s)) /\ Mine(n, s)
    <3>1. w6 = w5 /\ ~IsToken(w8.out) /\ (w8.get = w7.get) /\ w7.get = w5.get
      BY <1>10, <1>11, <1>14, <1>17, <1>19, <2>1 DEF Quiet, SendsQuietly, TakesQuietly
    <3> QED BY <1>10, <1>18, <2>1, <3>1 DEF TakesToken
  <2>2. CASE IsToken(Front(s)) /\ ~Mine(n, s)
    <3>1. w6 = w5 /\ w7.out = Nop /\ w7.get = w5.get
      BY <1>10, <1>11, <1>14, <1>17, <2>2
         DEF Quiet, SendsQuietly, TakesQuietly, MaySend
    <3> QED BY <1>10, <1>17, <1>18, <1>19, <2>2, <3>1 DEF TakesToken
  <2>3. CASE ~IsToken(Front(s))
    <3>1. ~IsToken(w5.out) /\ w5.ring_locked = s.ring_locked
      BY <1>10, <1>17, <2>3 DEF TakesToken
    <3>2. \/ ~IsToken(w6.out) /\ w6.ring_locked = s.ring_locked
          \/ s.ring_locked = TRUE /\ w6.ring_locked = FALSE /\ IsToken(w6.out)
      <4>1. CASE w6 = w5
        BY <3>1, <4>1
      <4>2. CASE w6 = released /\ s.ring_locked = TRUE
        BY <1>12, <4>2
      <4>3. CASE w6 = released /\ s.ring_locked = FALSE
        BY <1>12, <4>3
      <4> QED BY <1>11, <4>1, <4>2, <4>3 DEF MasterOK
    <3>3. w8.out = w6.out \/ (~IsToken(w8.out) /\ ~IsToken(w6.out))
      BY <1>14, <1>17, <1>19, <2>3
    <3> QED BY <1>18, <2>3, <3>2, <3>3
  <2> QED BY <2>1, <2>2, <2>3
<1>23. w8.ring_locked \in BOOLEAN
  BY <1>22 DEF MasterOK
<1> QED BY <1>1, <1>16, <1>17, <1>20, <1>21, <1>22, <1>23 DEF TokenStep

(***************************************************************************)
(* The fifos: where the token is after a flit is taken or sent.            *)
(***************************************************************************)

IsFifo(q) == q \in Seq({q[j] : j \in 1 .. Len(q)})

LEMMA FifoOf ==
  ASSUME NEW S, NEW q \in Seq(S) PROVE IsFifo(q)
<1>1. Len(q) \in Nat /\ q = [j \in 1 .. Len(q) |-> q[j]]
  BY LenProperties
<1>2. q \in [1 .. Len(q) -> {q[j] : j \in 1 .. Len(q)}]
  BY <1>1
<1> QED BY <1>1, <1>2, SeqDef DEF IsFifo

LEMMA PushedFifo ==
  ASSUME NEW q, IsFifo(q), NEW f
  PROVE  /\ IsFifo(Pushed(q, f)) /\ Len(q) \in Nat
         /\ \A j : j \in TokensIn(Pushed(q, f)) <=>
                     j \in TokensIn(q) \/ (IsToken(f) /\ j = Len(q) + 1)
<1> DEFINE S == {q[j] : j \in 1 .. Len(q)} \cup {f}
<1>1. q \in Seq(S) /\ f \in S /\ Len(q) \in Nat
  <2>1. q \in Seq({q[j] : j \in 1 .. Len(q)}) /\ Len(q) \in Nat
    BY LenProperties DEF IsFifo
  <2> QED BY <2>1, SeqMonotonic
<1>2. ~IsToken(Nop)
  BY DEF IsToken, Nop, Flit
<1> HIDE DEF S
<1>3. CASE f = Nop
  BY <1>1, <1>2, <1>3 DEF Pushed
<1>4. CASE f # Nop
  <2>1. Pushed(q, f) = Append(q, f)
    BY <1>4 DEF Pushed
  <2>2. /\ Append(q, f) \in Seq(S) /\ Len(Append(q, f)) = Len(q) + 1
        /\ \A j \in 1 .. Len(q) : Append(q, f)[j] = q[j]
        /\ Append(q, f)[Len(q) + 1] = f
    BY <1>1, AppendProperties
  <2>3. IsFifo(Pushed(q, f))
    BY <2>1, <2>2, FifoOf
  <2>4. ASSUME NEW j
        PROVE  j \in TokensIn(Pushed(q, f)) <=>
                 j \in TokensIn(q) \/ (IsToken(f) /\ j = Len(q) + 1)
    <3>1. CASE j \in 1 .. Len(q)
      BY <1>1, <2>1, <2>2, <3>1 DEF TokensIn
    <3>2. CASE j = Len(q) + 1
      BY <1>1, <2>1, <2>2, <3>2 DEF TokensIn
    <3>3. CASE j \notin 1 .. Len(q) + 1
      BY <1>1, <2>1, <2>2, <3>3 DEF TokensIn
    <3> QED BY <1>1, <3>1, <3>2, <3>3
  <2> QED BY <1>1, <2>3, <2>4
<1> QED BY <1>3, <1>4

LEMMA PushedNotEmpty ==
  ASSUME NEW q, IsFifo(q), q # <<>>, NEW f PROVE Pushed(q, f) # <<>>
<1> DEFINE S == {q[j] : j \in 1 .. Len(q)} \cup {f}
<1>1. q \in Seq(S) /\ f \in S
  <2>1. q \in Seq({q[j] : j \in 1 .. Len(q)})
    BY DEF IsFifo
  <2> QED BY <2>1, SeqMonotonic
<1> HIDE DEF S
<1>2. Append(q, f) # <<>>
  BY <1>1, AppendProperties
<1> QED BY <1>2 DEF Pushed

LEMMA PoppedFifo ==
  ASSUME NEW q, IsFifo(q), NEW pop \in BOOLEAN, pop = TRUE => q # <<>>
  PROVE  /\ IsFifo(Popped(q, pop)) /\ Len(q) \in Nat
         /\ TokensIn(q) \subseteq 1 .. Len(q)
         /\ \A j : j \in TokensIn(Popped(q, pop)) <=>
                     IF pop = TRUE THEN j \in Nat \ {0} /\ j + 1 \in TokensIn(q)
                     ELSE j \in TokensIn(q)
<1> DEFINE S == {q[j] : j \in 1 .. Len(q)}
<1>1. q \in Seq(S) /\ Len(q) \in Nat /\ TokensIn(q) \subseteq 1 .. Len(q)
  BY LenProperties DEF IsFifo, TokensIn
<1> HIDE DEF S
<1>2. CASE pop = FALSE
  BY <1>1, <1>2 DEF Popped
<1>3. CASE pop = TRUE
  <2>1. Popped(q, pop) = Tail(q)
    BY <1>3 DEF Popped
  <2>2. /\ Tail(q) \in Seq(S) /\ Len(Tail(q)) = Len(q) - 1 /\ Len(q) >= 1
        /\ \A j \in 1 .. Len(Tail(q)) : Tail(q)[j] = q[j + 1]
    BY <1>1, <1>3, HeadTailProperties, EmptySeq
  <2>3. IsFifo(Popped(q, pop))
    BY <2>1, <2>2, FifoOf
  <2>4. ASSUME NEW j
        PROVE  j \in TokensIn(Tail(q)) <=> j \in Nat \ {0} /\ j + 1 \in TokensIn(q)
    <3>1. CASE j \in 1 .. Len(q) - 1
      BY <1>1, <2>2, <3>1 DEF TokensIn
    <3>2. CASE j \notin 1 .. Len(q) - 1
      BY <1>1, <2>2, <3>2 DEF TokensIn
    <3> QED BY <3>1, <3>2
  <2> QED BY <1>1, <1>3, <2>1, <2>3, <2>4
<1> QED BY <1>2, <1>3

LEMMA FrontToken ==
  ASSUME NEW q, IsFifo(q)
  PROVE  IsToken(IF q = <<>> THEN Nop ELSE Head(q)) <=> 1 \in TokensIn(q)
<1>1. q \in Seq({q[j] : j \in 1 .. Len(q)}) /\ Len(q) \in Nat
  BY LenProperties DEF IsFifo
<1>2. CASE q = <<>>
  BY <1>2 DEF IsToken, TokensIn, Nop, Flit
<1>3. CASE q # <<>>
  <2>1. Len(q) >= 1 /\ Head(q) = q[1]
    BY <1>1, <1>3, HeadTailProperties, EmptySeq
  <2> QED BY <1>1, <1>3, <2>1 DEF TokensIn
<1> QED BY <1>2, <1>3

(***************************************************************************)
(* The ring: the places of the token, one node after the other.            *)
(***************************************************************************)
LEMMA PlacesOf ==
  ASSUME NEW reg
  PROVE  /\ \A n \in Node : <<"node", n, 0>> \in Tokens(reg) <=> reg[n].ring_locked
         /\ \A n \in Node : \A j :
              /\ <<"in", n, j>> \in Tokens(reg) <=> j \in TokensIn(reg[n].in_fifo)
              /\ <<"out", n, j>> \in Tokens(reg) <=> j \in TokensIn(reg[n].out_fifo)
         /\ \A x \in Tokens(reg) : \E n \in Node : \E j :
              x \in {<<"node", n, 0>>, <<"in", n, j>>, <<"out", n, j>>}
<1>1. ASSUME NEW x
      PROVE  x \in Tokens(reg) <=>
               \/ \E n \in Node : x = <<"node", n, 0>> /\ reg[n].ring_locked
               \/ \E n \in Node : \E j \in TokensIn(reg[n].in_fifo) : x = <<"in", n, j>>
               \/ \E n \in Node : \E j \in TokensIn(reg[n].out_fifo) : x = <<"out", n, j>>
  <2>1. x \in HeldTokens(reg) <=> \E n \in Node : x = <<"node", n, 0>> /\ reg[n].ring_locked
    BY DEF HeldTokens
  <2>2. x \in InTokens(reg) <=>
          \E n \in Node : \E j \in TokensIn(reg[n].in_fifo) : x = <<"in", n, j>>
    BY DEF InTokens
  <2>3. x \in OutTokens(reg) <=>
          \E n \in Node : \E j \in TokensIn(reg[n].out_fifo) : x = <<"out", n, j>>
    BY DEF OutTokens
  <2> QED BY <2>1, <2>2, <2>3 DEF Tokens
<1>2. \A a, b, c, d, e, f : <<a, b, c>> = <<d, e, f>> => a = d /\ b = e /\ c = f
  OBVIOUS
<1>4. \A n \in Node : <<"node", n, 0>> \in Tokens(reg) <=> reg[n].ring_locked
  BY <1>1, <1>2
<1>5. \A n \in Node : \A j :
         <<"in", n, j>> \in Tokens(reg) <=> j \in TokensIn(reg[n].in_fifo)
  BY <1>1, <1>2
<1>6. \A n \in Node : \A j :
         <<"out", n, j>> \in Tokens(reg) <=> j \in TokensIn(reg[n].out_fifo)
  BY <1>1, <1>2
<1>3. \A x \in Tokens(reg) : \E n \in Node : \E j :
         x \in {<<"node", n, 0>>, <<"in", n, j>>, <<"out", n, j>>}
  BY <1>1, Zenon
<1> QED BY <1>3, <1>4, <1>5, <1>6

\* The token is in node m, or in flit k of one of its fifos.
InNode(s, m) ==
  \A n \in Node : /\ s[n].ring_locked <=> n = m
                  /\ TokensIn(s[n].in_fifo) = {} /\ TokensIn(s[n].out_fifo) = {}
InInput(s, m, k) ==
  \A n \in Node : /\ ~s[n].ring_locked /\ TokensIn(s[n].out_fifo) = {}
                  /\ TokensIn(s[n].in_fifo) = IF n = m THEN {k} ELSE {}
InOutput(s, m, k) ==
  \A n \in Node : /\ ~s[n].ring_locked /\ TokensIn(s[n].in_fifo) = {}
                  /\ TokensIn(s[n].out_fifo) = IF n = m THEN {k} ELSE {}

LEMMA OnePlace ==
  ASSUME NEW reg, NEW m \in Node, NEW k
  PROVE  /\ Tokens(reg) = {<<"node", m, 0>>} <=> InNode(reg, m)
         /\ Tokens(reg) = {<<"in", m, k>>} <=> InInput(reg, m, k)
         /\ Tokens(reg) = {<<"out", m, k>>} <=> InOutput(reg, m, k)
<1>1. \A n, j, a, b :
        /\ <<"node", n, j>> = <<"node", a, b>> <=> n = a /\ j = b
        /\ <<"in", n, j>> = <<"in", a, b>> <=> n = a /\ j = b
        /\ <<"out", n, j>> = <<"out", a, b>> <=> n = a /\ j = b
        /\ <<"node", n, j>> # <<"in", a, b>> /\ <<"node", n, j>> # <<"out", a, b>>
        /\ <<"in", n, j>> # <<"node", a, b>> /\ <<"in", n, j>> # <<"out", a, b>>
        /\ <<"out", n, j>> # <<"node", a, b>> /\ <<"out", n, j>> # <<"in", a, b>>
  OBVIOUS
<1>2. \A n \in Node : /\ <<"node", n, 0>> \in Tokens(reg) <=> reg[n].ring_locked
                      /\ \A j : <<"in", n, j>> \in Tokens(reg) <=> j \in TokensIn(reg[n].in_fifo)
                      /\ \A j : <<"out", n, j>> \in Tokens(reg) <=> j \in TokensIn(reg[n].out_fifo)
  BY PlacesOf
<1>3. m \in Node
  OBVIOUS
<1>4. \A x \in Tokens(reg) : \E n \in Node : \E j :
         x = <<"node", n, 0>> \/ x = <<"in", n, j>> \/ x = <<"out", n, j>>
  BY PlacesOf
<1>5. Tokens(reg) = {<<"node", m, 0>>} <=> InNode(reg, m)
  <2>1. ASSUME Tokens(reg) = {<<"node", m, 0>>} PROVE InNode(reg, m)
    <3>1. \A x : x \in Tokens(reg) <=> x = <<"node", m, 0>>
      BY <2>1
    <3>2. ASSUME NEW n \in Node, NEW j
          PROVE  /\ reg[n].ring_locked <=> n = m
                 /\ j \in TokensIn(reg[n].in_fifo) <=> FALSE
                 /\ j \in TokensIn(reg[n].out_fifo) <=> FALSE
      <4>1. /\ <<"node", n, 0>> \in Tokens(reg) <=> <<"node", n, 0>> = <<"node", m, 0>>
            /\ <<"in", n, j>> \in Tokens(reg) <=> <<"in", n, j>> = <<"node", m, 0>>
            /\ <<"out", n, j>> \in Tokens(reg) <=> <<"out", n, j>> = <<"node", m, 0>>
        BY <3>1, Zenon
      <4>2. /\ <<"node", n, 0>> \in Tokens(reg) <=> reg[n].ring_locked
            /\ <<"in", n, j>> \in Tokens(reg) <=> j \in TokensIn(reg[n].in_fifo)
            /\ <<"out", n, j>> \in Tokens(reg) <=> j \in TokensIn(reg[n].out_fifo)
        BY <1>2
      <4>3. /\ <<"node", n, 0>> = <<"node", m, 0>> <=> n = m
            /\ <<"in", n, j>> = <<"node", m, 0>> <=> FALSE
            /\ <<"out", n, j>> = <<"node", m, 0>> <=> FALSE
        BY <1>1
      <4> QED BY <4>1, <4>2, <4>3
    <3> QED BY <3>2 DEF InNode, InInput, InOutput
  <2>2. ASSUME InNode(reg, m) PROVE Tokens(reg) = {<<"node", m, 0>>}
    <3>1. ASSUME NEW x \in Tokens(reg) PROVE x = <<"node", m, 0>>
      BY <1>2, <1>4, <2>2 DEF InNode
    <3>2. <<"node", m, 0>> \in Tokens(reg)
      BY <1>2, <1>3, <2>2 DEF InNode, InInput, InOutput
    <3> QED BY <3>1, <3>2
  <2> QED BY <2>1, <2>2
<1>6. Tokens(reg) = {<<"in", m, k>>} <=> InInput(reg, m, k)
  <2>1. ASSUME Tokens(reg) = {<<"in", m, k>>} PROVE InInput(reg, m, k)
    <3>1. \A x : x \in Tokens(reg) <=> x = <<"in", m, k>>
      BY <2>1
    <3>2. ASSUME NEW n \in Node, NEW j
          PROVE  /\ reg[n].ring_locked <=> FALSE
                 /\ j \in TokensIn(reg[n].in_fifo) <=> n = m /\ j = k
                 /\ j \in TokensIn(reg[n].out_fifo) <=> FALSE
      <4>1. /\ <<"node", n, 0>> \in Tokens(reg) <=> <<"node", n, 0>> = <<"in", m, k>>
            /\ <<"in", n, j>> \in Tokens(reg) <=> <<"in", n, j>> = <<"in", m, k>>
            /\ <<"out", n, j>> \in Tokens(reg) <=> <<"out", n, j>> = <<"in", m, k>>
        BY <3>1, Zenon
      <4>2. /\ <<"node", n, 0>> \in Tokens(reg) <=> reg[n].ring_locked
            /\ <<"in", n, j>> \in Tokens(reg) <=> j \in TokensIn(reg[n].in_fifo)
            /\ <<"out", n, j>> \in Tokens(reg) <=> j \in TokensIn(reg[n].out_fifo)
        BY <1>2
      <4>3. /\ <<"node", n, 0>> = <<"in", m, k>> <=> FALSE
            /\ <<"in", n, j>> = <<"in", m, k>> <=> n = m /\ j = k
            /\ <<"out", n, j>> = <<"in", m, k>> <=> FALSE
        BY <1>1
      <4> QED BY <4>1, <4>2, <4>3
    <3> QED BY <3>2 DEF InNode, InInput, InOutput
  <2>2. ASSUME InInput(reg, m, k) PROVE Tokens(reg) = {<<"in", m, k>>}
    <3>1. ASSUME NEW x \in Tokens(reg) PROVE x = <<"in", m, k>>
      <4>1. PICK n \in Node : \E j :
              x = <<"node", n, 0>> \/ x = <<"in", n, j>> \/ x = <<"out", n, j>>
        BY <1>4
      <4>2. PICK j : x = <<"node", n, 0>> \/ x = <<"in", n, j>> \/ x = <<"out", n, j>>
        BY <4>1
      <4>3. n = m /\ j = k /\ x = <<"in", n, j>>
        BY <1>2, <2>2, <3>1, <4>2 DEF InInput, InOutput
      <4> QED BY <4>3
    <3>2. <<"in", m, k>> \in Tokens(reg)
      BY <1>2, <1>3, <2>2 DEF InNode, InInput, InOutput
    <3> QED BY <3>1, <3>2
  <2> QED BY <2>1, <2>2
<1>7. Tokens(reg) = {<<"out", m, k>>} <=> InOutput(reg, m, k)
  <2>1. ASSUME Tokens(reg) = {<<"out", m, k>>} PROVE InOutput(reg, m, k)
    <3>1. \A x : x \in Tokens(reg) <=> x = <<"out", m, k>>
      BY <2>1
    <3>2. ASSUME NEW n \in Node, NEW j
          PROVE  /\ reg[n].ring_locked <=> FALSE
                 /\ j \in TokensIn(reg[n].in_fifo) <=> FALSE
                 /\ j \in TokensIn(reg[n].out_fifo) <=> n = m /\ j = k
      <4>1. /\ <<"node", n, 0>> \in Tokens(reg) <=> <<"node", n, 0>> = <<"out", m, k>>
            /\ <<"in", n, j>> \in Tokens(reg) <=> <<"in", n, j>> = <<"out", m, k>>
            /\ <<"out", n, j>> \in Tokens(reg) <=> <<"out", n, j>> = <<"out", m, k>>
        BY <3>1, Zenon
      <4>2. /\ <<"node", n, 0>> \in Tokens(reg) <=> reg[n].ring_locked
            /\ <<"in", n, j>> \in Tokens(reg) <=> j \in TokensIn(reg[n].in_fifo)
            /\ <<"out", n, j>> \in Tokens(reg) <=> j \in TokensIn(reg[n].out_fifo)
        BY <1>2
      <4>3. /\ <<"node", n, 0>> = <<"out", m, k>> <=> FALSE
            /\ <<"in", n, j>> = <<"out", m, k>> <=> FALSE
            /\ <<"out", n, j>> = <<"out", m, k>> <=> n = m /\ j = k
        BY <1>1
      <4> QED BY <4>1, <4>2, <4>3
    <3> QED BY <3>2 DEF InNode, InInput, InOutput
  <2>2. ASSUME InOutput(reg, m, k) PROVE Tokens(reg) = {<<"out", m, k>>}
    <3>1. ASSUME NEW x \in Tokens(reg) PROVE x = <<"out", m, k>>
      <4>1. PICK n \in Node : \E j :
              x = <<"node", n, 0>> \/ x = <<"in", n, j>> \/ x = <<"out", n, j>>
        BY <1>4
      <4>2. PICK j : x = <<"node", n, 0>> \/ x = <<"in", n, j>> \/ x = <<"out", n, j>>
        BY <4>1
      <4>3. n = m /\ j = k /\ x = <<"out", n, j>>
        BY <1>2, <2>2, <3>1, <4>2 DEF InInput, InOutput
      <4> QED BY <4>3
    <3>2. <<"out", m, k>> \in Tokens(reg)
      BY <1>2, <1>3, <2>2 DEF InNode, InInput, InOutput
    <3> QED BY <3>1, <3>2
  <2> QED BY <2>1, <2>2
<1> QED BY <1>5, <1>6, <1>7

\* The neighbours of a node.
LEMMA Neighbours ==
  \A n \in Node : /\ Succ(n) \in Node /\ Pred(n) \in Node
                  /\ \A m \in Node : Pred(n) = m <=> n = Succ(m)
<1>1. NbMem \in Nat /\ NbMem >= 2
  BY RingAssumption
<1>2. ASSUME NEW N \in Nat, N >= 2, NEW x \in 0 .. N - 1
      PROVE  /\ (x + 1) % N = IF x = N - 1 THEN 0 ELSE x + 1
             /\ (x + N - 1) % N = IF x = 0 THEN N - 1 ELSE x - 1
  <2>1. \A y \in 0 .. N - 1 : y % N = y /\ (y + N) % N = y
    BY <1>2
  <2>2. x + N - 1 = (x - 1) + N
    BY <1>2
  <2> QED BY <1>2, <2>1, <2>2
<1>3. \A n \in Node : /\ Succ(n) = (IF n = NbMem - 1 THEN 0 ELSE n + 1)
                      /\ Pred(n) = (IF n = 0 THEN NbMem - 1 ELSE n - 1)
  BY <1>1, <1>2 DEF Node, Succ, Pred
<1> QED BY <1>1, <1>3 DEF Node

NodeInv(s) ==
  /\ DOMAIN s = Regs /\ StatesOK(s) /\ IsFifo(s.in_fifo) /\ IsFifo(s.out_fifo)
  /\ s.ring_locked \in BOOLEAN /\ s.master \in BOOLEAN
  /\ s.master = TRUE => s.ring_locked = TRUE /\ s.in_transaction = TRUE

\* What a node pushes into its input fifo and pops from its output fifo.
Received(s, i) == IF InWok(s) THEN i.ring ELSE Nop
Accepted(s, i) == s.out_fifo # <<>> /\ i.ring_ack

\* The registers r that the writes w of a cycle leave.
LatchedFrom(s, i, w, r) ==
  /\ r.ring_locked = w.ring_locked
  /\ r.in_fifo = Pushed(Popped(s.in_fifo, w.get), Received(s, i))
  /\ r.out_fifo = Popped(Pushed(s.out_fifo, w.out), Accepted(s, i))

LEMMA NodeStep ==
  ASSUME NEW n, NEW s, NEW i, NEW w, NEW r,
         NodeInv(s), s.master = TRUE => ~IsToken(Front(s)),
         w = Machines(n, s, i), r = Registers(n, s, i, w)
  PROVE  NodeInv(r) /\ TokenStep(n, s, w) /\ LatchedFrom(s, i, w, r)
<1>1. Whole(w) /\ StatesOK(w) /\ TokenStep(n, s, w)
  BY MachinesToken DEF NodeInv, MasterOK
<1>2. /\ DOMAIN r = Regs
      /\ r.in_fifo = Pushed(Popped(s.in_fifo, w.get), Received(s, i))
      /\ r.out_fifo = Popped(Pushed(s.out_fifo, w.out), Accepted(s, i))
      /\ \A f \in Regs \ {"in_fifo", "out_fifo"} : r[f] = w[f]
  BY RegNames, Zenon DEF NodeInv, Registers, Received, Accepted
<1>3. StatesOK(r) /\ r.ring_locked = w.ring_locked /\ r.master = w.master
      /\ r.in_transaction = w.in_transaction
  BY <1>1, <1>2, RegNames DEF StatesOK
<1>4. IsFifo(r.in_fifo)
  <2>1. w.get \in BOOLEAN /\ (w.get = TRUE => s.in_fifo # <<>>) /\ IsFifo(s.in_fifo)
    BY <1>1 DEF NodeInv, TokenStep
  <2>2. IsFifo(Popped(s.in_fifo, w.get))
    BY <2>1, PoppedFifo
  <2> QED BY <1>2, <2>2, PushedFifo
<1>5. IsFifo(r.out_fifo)
  <2>1. IsFifo(Pushed(s.out_fifo, w.out)) /\ Accepted(s, i) \in BOOLEAN
    BY PushedFifo DEF NodeInv, Accepted
  <2>2. Accepted(s, i) = TRUE => Pushed(s.out_fifo, w.out) # <<>>
    BY PushedNotEmpty DEF Accepted, NodeInv
  <2> DEFINE q == Pushed(s.out_fifo, w.out)
             pop == Accepted(s, i)
  <2>3. IsFifo(q) /\ pop \in BOOLEAN /\ (pop = TRUE => q # <<>>) /\ r.out_fifo = Popped(q, pop)
    BY <1>2, <2>1, <2>2
  <2> HIDE DEF q, pop
  <2>4. IsFifo(Popped(q, pop))
    BY <2>3, PoppedFifo
  <2> QED BY <2>3, <2>4
<1> QED BY <1>1, <1>2, <1>3, <1>4, <1>5 DEF NodeInv, TokenStep, LatchedFrom

\* The tokens of a fifo q after a cycle that may pop its front and push f.
Shifts(q, pop, f, r) ==
  /\ TokensIn(q) = {} /\ ~IsToken(f) => TokensIn(r) = {}
  /\ TokensIn(q) = {} /\ IsToken(f) => \E j : TokensIn(r) = {j}
  /\ \A k : TokensIn(q) = {k} /\ ~IsToken(f) =>
       IF pop = TRUE /\ k = 1 THEN TokensIn(r) = {} ELSE \E j : TokensIn(r) = {j}

LEMMA InFifoTokens ==
  ASSUME NEW q, IsFifo(q), NEW get \in BOOLEAN, get = TRUE => q # <<>>, NEW f,
         NEW r, r = Pushed(Popped(q, get), f)
  PROVE  Shifts(q, get, f, r)
<1> DEFINE p == Popped(q, get)
<1>1. /\ IsFifo(p) /\ Len(q) \in Nat /\ TokensIn(q) \subseteq 1 .. Len(q)
      /\ \A j : j \in TokensIn(p) <=> IF get = TRUE THEN j \in Nat \ {0} /\ j + 1 \in TokensIn(q)
                                      ELSE j \in TokensIn(q)
  BY PoppedFifo
<1> HIDE DEF p
<1>2. \A j : j \in TokensIn(r) <=> j \in TokensIn(p) \/ (IsToken(f) /\ j = Len(p) + 1)
  BY <1>1, PushedFifo DEF p
<1>3. TokensIn(q) = {} => TokensIn(p) = {}
  BY <1>1
<1>4. ~IsToken(f) => TokensIn(r) = TokensIn(p)
  BY <1>2
<1>5. TokensIn(q) = {} /\ IsToken(f) => TokensIn(r) = {Len(p) + 1}
  BY <1>2, <1>3
<1>6. ASSUME NEW k, TokensIn(q) = {k}
      PROVE  TokensIn(p) = IF get = TRUE THEN IF k = 1 THEN {} ELSE {k - 1} ELSE {k}
  BY <1>1, <1>6
<1>7. \A k : TokensIn(q) = {k} /\ ~IsToken(f) =>
              IF get = TRUE /\ k = 1 THEN TokensIn(r) = {} ELSE \E j : TokensIn(r) = {j}
  BY <1>4, <1>6
<1> QED BY <1>3, <1>4, <1>5, <1>7 DEF Shifts

LEMMA OutFifoTokens ==
  ASSUME NEW q, IsFifo(q), NEW f, NEW pop \in BOOLEAN, pop = TRUE => q # <<>>,
         NEW r, r = Popped(Pushed(q, f), pop)
  PROVE  Shifts(q, pop, f, r)
<1> DEFINE p == Pushed(q, f)
<1>1. /\ IsFifo(p) /\ Len(q) \in Nat
      /\ \A j : j \in TokensIn(p) <=> j \in TokensIn(q) \/ (IsToken(f) /\ j = Len(q) + 1)
  BY PushedFifo
<1>2. pop = TRUE => p # <<>> /\ Len(q) > 0
  BY <1>1, PushedNotEmpty, EmptySeq, LenProperties DEF IsFifo
<1> HIDE DEF p
<1>3. \A j : j \in TokensIn(r) <=> IF pop = TRUE THEN j \in Nat \ {0} /\ j + 1 \in TokensIn(p)
                                   ELSE j \in TokensIn(p)
  BY <1>1, <1>2, PoppedFifo DEF p
<1>4. TokensIn(q) \subseteq 1 .. Len(q)
  BY DEF TokensIn
<1>5. TokensIn(q) = {} /\ ~IsToken(f) => TokensIn(r) = {}
  BY <1>1, <1>3
<1>6. TokensIn(q) = {} /\ IsToken(f) =>
        TokensIn(r) = IF pop = TRUE THEN {Len(q)} ELSE {Len(q) + 1}
  BY <1>1, <1>2, <1>3
<1>7. ASSUME NEW k, TokensIn(q) = {k}, ~IsToken(f)
      PROVE  TokensIn(r) = IF pop = TRUE THEN IF k = 1 THEN {} ELSE {k - 1} ELSE {k}
  BY <1>1, <1>3, <1>4, <1>7
<1>8. \A k : TokensIn(q) = {k} /\ ~IsToken(f) =>
              IF pop = TRUE /\ k = 1 THEN TokensIn(r) = {} ELSE \E j : TokensIn(r) = {j}
  BY <1>7
<1> QED BY <1>5, <1>6, <1>8 DEF Shifts

\* The inductive invariant: what the machines rely on, and the place of the
\* token in the whole ring.
LockInv ==
  /\ DOMAIN m6 = Node /\ \A n \in Node : NodeInv(m6[n])
  /\ \E place \in Tokens(m6) : Tokens(m6) = {place}

LEMMA TokenUnique ==
  ASSUME LockInv
  PROVE  \E m \in Node : InNode(m6, m) \/ \E k : InInput(m6, m, k) \/ InOutput(m6, m, k)
<1>1. PICK x \in Tokens(m6) : Tokens(m6) = {x}
  BY DEF LockInv
<1>2. PICK m \in Node : \E k : x \in {<<"node", m, 0>>, <<"in", m, k>>, <<"out", m, k>>}
  BY PlacesOf
<1>3. PICK k : x \in {<<"node", m, 0>>, <<"in", m, k>>, <<"out", m, k>>}
  BY <1>2
<1>4. \/ Tokens(m6) = {<<"node", m, 0>>} \/ Tokens(m6) = {<<"in", m, k>>}
      \/ Tokens(m6) = {<<"out", m, k>>}
  BY <1>1, <1>3
<1> QED BY <1>4, OnePlace

\* The token has one place again.
LEMMA StillOne ==
  ASSUME \A n \in Node : NodeInv(m6'[n]), DOMAIN m6' = Node, NEW m \in Node,
         InNode(m6', m) \/ \E k : InInput(m6', m, k) \/ InOutput(m6', m, k)
  PROVE  LockInv'
<1>1. PICK k : InNode(m6', m) \/ InInput(m6', m, k) \/ InOutput(m6', m, k)
  OBVIOUS
<1>2. \/ Tokens(m6') = {<<"node", m, 0>>} \/ Tokens(m6') = {<<"in", m, k>>}
      \/ Tokens(m6') = {<<"out", m, k>>}
  BY <1>1, OnePlace
<1>3. \E place \in Tokens(m6') : Tokens(m6') = {place}
  BY <1>2
<1> QED BY <1>3 DEF LockInv

LEMMA TickKeepsToken ==
  ASSUME LockInv, NEW page, NEW counter, Tick(page, counter) PROVE LockInv'
<1> DEFINE w(n) == Machines(n, m6[n], Ports6(n))
           f(n) == Received(m6[n], Ports6(n))
           pop(n) == Accepted(m6[n], Ports6(n))
<1>1. m6' = [n \in Node |-> Registers(n, m6[n], Ports6(n), w(n))]
  BY DEF Tick
<1>2. DOMAIN m6' = Node /\ \A n \in Node : m6'[n] = Registers(n, m6[n], Ports6(n), w(n))
  BY <1>1
<1>3. \A n \in Node : NodeInv(m6[n]) /\ IsFifo(m6[n].in_fifo) /\ IsFifo(m6[n].out_fifo)
                      /\ m6[n].ring_locked \in BOOLEAN
  BY DEF LockInv, NodeInv
<1>4. \A n \in Node : IsToken(Front(m6[n])) <=> 1 \in TokensIn(m6[n].in_fifo)
  BY <1>3, FrontToken DEF Front
<1>5. ASSUME NEW n \in Node PROVE m6[n].master = TRUE => ~IsToken(Front(m6[n]))
  <2>1. m6[n].master = TRUE => m6[n].ring_locked = TRUE
    BY <1>3 DEF NodeInv
  <2> QED BY <1>4, <2>1, TokenUnique DEF InNode, InInput, InOutput
<1>6. ASSUME NEW n \in Node
      PROVE  /\ NodeInv(m6'[n]) /\ TokenStep(n, m6[n], w(n))
             /\ m6'[n].ring_locked = w(n).ring_locked
             /\ m6'[n].in_fifo = Pushed(Popped(m6[n].in_fifo, w(n).get), f(n))
             /\ m6'[n].out_fifo = Popped(Pushed(m6[n].out_fifo, w(n).out), pop(n))
  <2> DEFINE i == Ports6(n)
             w0 == w(n)
             s == m6[n]
             r == m6'[n]
  <2>1. w0 = Machines(n, s, i) /\ r = Registers(n, s, i, w0)
    BY <1>2
  <2>2. NodeInv(s) /\ (s.master = TRUE => ~IsToken(Front(s)))
    BY <1>3, <1>5
  <2> HIDE DEF i, s, r, w0, w
  <2>3. NodeInv(r) /\ TokenStep(n, s, w0) /\ LatchedFrom(s, i, w0, r)
    BY <2>1, <2>2, NodeStep
  <2> QED BY <2>3 DEF LatchedFrom, i, s, r, w0
<1>7. \A n \in Node : Succ(n) \in Node /\ Pred(n) \in Node
                      /\ \A o \in Node : Pred(n) = o <=> n = Succ(o)
  BY Neighbours
<1>8. ASSUME NEW n \in Node
      PROVE  IsToken(f(n)) <=> InWok(m6[n]) /\ 1 \in TokensIn(m6[Pred(n)].out_fifo)
  <2>1. Ports6(n).ring = RingOut(m6[Pred(n)])
    BY DEF Ports6
  <2>2. IsToken(RingOut(m6[Pred(n)])) <=> 1 \in TokensIn(m6[Pred(n)].out_fifo)
    BY <1>3, <1>7, FrontToken DEF RingOut
  <2>3. ~IsToken(Nop)
    BY DEF IsToken, Nop, Flit
  <2> QED BY <2>1, <2>2, <2>3 DEF Received
<1>9. ASSUME NEW n \in Node
      PROVE  /\ pop(n) \in BOOLEAN /\ (pop(n) = TRUE => m6[n].out_fifo # <<>>)
             /\ 1 \in TokensIn(m6[n].out_fifo) => (pop(n) = TRUE <=> InWok(m6[Succ(n)]))
  <2>1. Ports6(n).ring_ack = InWok(m6[Succ(n)])
    BY DEF Ports6
  <2>2. 1 \in TokensIn(m6[n].out_fifo) => m6[n].out_fifo # <<>>
    <3>1. \A j \in TokensIn(m6[n].out_fifo) : j <= Len(m6[n].out_fifo)
      BY DEF TokensIn
    <3> QED BY <3>1, EmptySeq
  <2> QED BY <2>1, <2>2 DEF Accepted, InWok
<1>10. ASSUME NEW n \in Node
       PROVE  Shifts(m6[n].in_fifo, w(n).get, f(n), m6'[n].in_fifo)
  <2> DEFINE get == w(n).get
             q == m6[n].in_fifo
             r == m6'[n].in_fifo
             new == f(n)
  <2>1. /\ IsFifo(q) /\ get \in BOOLEAN /\ (get = TRUE => q # <<>>)
        /\ r = Pushed(Popped(q, get), new)
    BY <1>3, <1>6 DEF TokenStep
  <2> HIDE DEF get, q, r, new
  <2>2. Shifts(q, get, new, r)
    BY <2>1, InFifoTokens
  <2> QED BY <2>2 DEF get, q, r, new
<1>11. ASSUME NEW n \in Node
       PROVE  Shifts(m6[n].out_fifo, pop(n), w(n).out, m6'[n].out_fifo)
  <2> DEFINE pops == pop(n)
             q == m6[n].out_fifo
             r == m6'[n].out_fifo
             new == w(n).out
  <2>1. /\ IsFifo(q) /\ pops \in BOOLEAN /\ (pops = TRUE => q # <<>>)
        /\ r = Popped(Pushed(q, new), pops)
    BY <1>3, <1>6, <1>9
  <2> HIDE DEF pops, q, r, new
  <2>2. Shifts(q, pops, new, r)
    BY <2>1, OutFifoTokens
  <2> QED BY <2>2 DEF pops, q, r, new
<1>12. ASSUME NEW n \in Node
       PROVE  IF 1 \in TokensIn(m6[n].in_fifo) /\ w(n).get = TRUE
              THEN \/ m6'[n].ring_locked = TRUE /\ ~IsToken(w(n).out)
                   \/ m6'[n].ring_locked = m6[n].ring_locked /\ IsToken(w(n).out)
              ELSE \/ m6'[n].ring_locked = m6[n].ring_locked /\ ~IsToken(w(n).out)
                   \/ m6[n].ring_locked = TRUE /\ m6'[n].ring_locked = FALSE /\ IsToken(w(n).out)
  BY <1>4, <1>6 DEF TokenStep
<1>13. \A n \in Node : NodeInv(m6'[n]) /\ m6'[n].ring_locked \in BOOLEAN
  BY <1>6 DEF NodeInv
<1> HIDE DEF w, f, pop
<1>14. PICK m \in Node : InNode(m6, m) \/ \E k : InInput(m6, m, k) \/ InOutput(m6, m, k)
  BY TokenUnique
<1>15. ASSUME InNode(m6, m)
       PROVE  InNode(m6', m) \/ \E j : InOutput(m6', m, j)
  <2>1. \A n \in Node : /\ ~IsToken(f(n)) /\ TokensIn(m6'[n].in_fifo) = {}
                        /\ n # m => m6'[n].ring_locked = FALSE /\ ~IsToken(w(n).out)
    BY <1>3, <1>7, <1>8, <1>10, <1>12, <1>15 DEF InNode, Shifts
  <2>2. \A n \in Node \ {m} : TokensIn(m6'[n].out_fifo) = {}
    BY <1>11, <1>15, <2>1 DEF InNode, Shifts
  <2>3. CASE m6'[m].ring_locked = TRUE
    <3>1. ~IsToken(w(m).out)
      BY <1>12, <1>15, <2>3 DEF InNode
    <3>2. TokensIn(m6'[m].out_fifo) = {}
      BY <1>11, <1>15, <3>1 DEF InNode, Shifts
    <3> QED BY <2>1, <2>2, <2>3, <3>2 DEF InNode
  <2>4. CASE m6'[m].ring_locked = FALSE
    <3>1. IsToken(w(m).out)
      BY <1>3, <1>12, <1>15, <2>4 DEF InNode
    <3>2. PICK j : TokensIn(m6'[m].out_fifo) = {j}
      BY <1>11, <1>15, <3>1 DEF InNode, Shifts
    <3> QED BY <2>1, <2>2, <2>4, <3>2 DEF InOutput
  <2> QED BY <1>13, <2>3, <2>4
<1>16. ASSUME NEW k, InInput(m6, m, k)
       PROVE  InNode(m6', m) \/ \E j : InInput(m6', m, j) \/ InOutput(m6', m, j)
  <2>1. \A n \in Node : ~IsToken(f(n)) /\ m6[n].ring_locked = FALSE
    BY <1>3, <1>7, <1>8, <1>16 DEF InInput
  <2>2. \A n \in Node \ {m} : /\ TokensIn(m6'[n].in_fifo) = {} /\ m6'[n].ring_locked = FALSE
                              /\ ~IsToken(w(n).out) /\ TokensIn(m6'[n].out_fifo) = {}
    BY <1>10, <1>11, <1>12, <1>16, <2>1 DEF InInput, Shifts
  <2>3. TokensIn(m6[m].in_fifo) = {k} /\ TokensIn(m6[m].out_fifo) = {}
    BY <1>16 DEF InInput
  <2>4. CASE k = 1 /\ w(m).get = TRUE
    <3>1. TokensIn(m6'[m].in_fifo) = {}
      BY <1>10, <2>1, <2>3, <2>4 DEF Shifts
    <3>2. CASE m6'[m].ring_locked = TRUE /\ ~IsToken(w(m).out)
      BY <1>11, <2>2, <2>3, <3>1, <3>2 DEF InNode, Shifts
    <3>3. CASE m6'[m].ring_locked = FALSE /\ IsToken(w(m).out)
      <4>1. PICK j : TokensIn(m6'[m].out_fifo) = {j}
        BY <1>11, <2>3, <3>3 DEF Shifts
      <4> QED BY <2>2, <3>1, <3>3, <4>1 DEF InOutput
    <3> QED BY <1>12, <2>1, <2>3, <2>4, <3>2, <3>3
  <2>5. CASE ~(k = 1 /\ w(m).get = TRUE)
    <3>1. m6'[m].ring_locked = FALSE /\ ~IsToken(w(m).out)
      BY <1>12, <2>1, <2>3, <2>5
    <3>2. PICK j : TokensIn(m6'[m].in_fifo) = {j}
      BY <1>10, <2>1, <2>3, <2>5 DEF Shifts
    <3>3. TokensIn(m6'[m].out_fifo) = {}
      BY <1>11, <2>3, <3>1 DEF Shifts
    <3> QED BY <2>2, <3>1, <3>2, <3>3 DEF InInput
  <2> QED BY <2>4, <2>5
<1>17. ASSUME NEW k, InOutput(m6, m, k)
       PROVE  \E o \in Node : \E j : InInput(m6', o, j) \/ InOutput(m6', o, j)
  <2>1. \A n \in Node : /\ TokensIn(m6[n].in_fifo) = {} /\ m6[n].ring_locked = FALSE
                        /\ m6'[n].ring_locked = FALSE /\ ~IsToken(w(n).out)
    BY <1>3, <1>12, <1>17 DEF InOutput
  <2>2. \A n \in Node \ {m} : TokensIn(m6'[n].out_fifo) = {}
    BY <1>11, <1>17, <2>1 DEF InOutput, Shifts
  <2>3. TokensIn(m6[m].out_fifo) = {k}
    BY <1>17 DEF InOutput
  <2>4. \A n \in Node : IsToken(f(n)) <=> n = Succ(m) /\ k = 1 /\ InWok(m6[Succ(m)])
    BY <1>7, <1>8, <1>17, <2>3 DEF InOutput
  <2>5. CASE k = 1 /\ InWok(m6[Succ(m)])
    <3>1. TokensIn(m6'[m].out_fifo) = {}
      BY <1>9, <1>11, <2>1, <2>3, <2>5 DEF Shifts
    <3>2. PICK j : TokensIn(m6'[Succ(m)].in_fifo) = {j}
      BY <1>7, <1>10, <2>1, <2>4, <2>5 DEF Shifts
    <3>3. \A n \in Node \ {Succ(m)} : TokensIn(m6'[n].in_fifo) = {}
      BY <1>10, <2>1, <2>4 DEF Shifts
    <3>4. InInput(m6', Succ(m), j)
      BY <2>1, <2>2, <3>1, <3>2, <3>3 DEF InInput
    <3> QED BY <1>7, <3>4
  <2>6. CASE ~(k = 1 /\ InWok(m6[Succ(m)]))
    <3>1. \A n \in Node : TokensIn(m6'[n].in_fifo) = {}
      BY <1>10, <2>1, <2>4, <2>6 DEF Shifts
    <3>2. ~(pop(m) = TRUE /\ k = 1)
      BY <1>9, <2>3, <2>6
    <3>3. PICK j : TokensIn(m6'[m].out_fifo) = {j}
      BY <1>11, <2>1, <2>3, <3>2 DEF Shifts
    <3> QED BY <2>1, <2>2, <3>1, <3>3 DEF InOutput
  <2> QED BY <2>5, <2>6
<1> QED BY <1>2, <1>13, <1>14, <1>15, <1>16, <1>17, StillOne

LEMMA LockInvKept ==
  ASSUME LockInv, [Next]_ringVars PROVE LockInv'
<1>1. ASSUME NEW page, NEW counter, Tick(page, counter) PROVE LockInv'
  BY <1>1, TickKeepsToken
<1>2. ASSUME UNCHANGED m6 PROVE LockInv'
  BY <1>2 DEF LockInv
<1>3. ASSUME NEW n \in Node, NEW s, m6' = [m6 EXCEPT ![n] = s],
             s = SetTlbInvOk(m6[n]) \/ s = SetWiamOk(m6[n])
      PROVE  LockInv'
  <2>1. /\ DOMAIN s = DOMAIN m6[n] /\ s.ctrl_fsm = m6[n].ctrl_fsm /\ s.tr_fsm = m6[n].tr_fsm
        /\ s.updt_fsm = m6[n].updt_fsm /\ s.loc_fsm = m6[n].loc_fsm
        /\ s.in_fifo = m6[n].in_fifo /\ s.out_fifo = m6[n].out_fifo
        /\ s.ring_locked = m6[n].ring_locked /\ s.master = m6[n].master
        /\ s.in_transaction = m6[n].in_transaction
    BY <1>3, RegNames DEF LockInv, NodeInv, SetTlbInvOk, SetWiamOk
  <2>2. NodeInv(s)
    BY <2>1 DEF LockInv, NodeInv, StatesOK
  <2>3. DOMAIN m6' = Node /\ \A k \in Node : m6'[k] = IF k = n THEN s ELSE m6[k]
    BY <1>3 DEF LockInv
  <2>4. \A k \in Node : NodeInv(m6'[k])
    BY <2>2, <2>3 DEF LockInv
  <2>5. \A k \in Node : /\ m6'[k].ring_locked = m6[k].ring_locked
                        /\ m6'[k].in_fifo = m6[k].in_fifo /\ m6'[k].out_fifo = m6[k].out_fifo
    BY <2>1, <2>3
  <2>6. PICK m \in Node : InNode(m6, m) \/ \E k : InInput(m6, m, k) \/ InOutput(m6, m, k)
    BY TokenUnique
  <2>7. InNode(m6', m) \/ \E k : InInput(m6', m, k) \/ InOutput(m6', m, k)
    BY <2>5, <2>6 DEF InNode, InInput, InOutput
  <2> QED BY <2>3, <2>4, <2>7, StillOne
<1> QED
  BY <1>1, <1>2, <1>3 DEF Next, MemoryStep, Poisoned, Unpoisoned, PageTableUpdated,
     TlbsInvalidated, WhoAmIUpdated, ContentionSignalled, CountersTaken, CountersGiven, ringVars

LEMMA LockInvInit == Init => LockInv
<1> SUFFICES ASSUME Init PROVE LockInv
  OBVIOUS
<1>1. DOMAIN m6 = Node /\ \A n \in Node : m6[n] = ResetM6(n)
  BY DEF Init
<1>2. \A n \in Node : NodeInv(ResetM6(n))
  <2>1. IsFifo(<<>>)
    BY EmptySeq DEF IsFifo
  <2> QED BY <2>1, RegNames DEF NodeInv, StatesOK, ResetM6, CtrlStates,
               TrStates, UpdtStates, LocStates
<1>3. 0 \in Node
  BY RingAssumption DEF Node
<1>4. InNode(m6, 0)
  <2>1. TokensIn(<<>>) = {}
    BY EmptySeq DEF TokensIn
  <2>2. \A n \in Node : /\ m6[n].ring_locked <=> n = 0
                        /\ m6[n].in_fifo = <<>> /\ m6[n].out_fifo = <<>>
    <3>1. \A n \in Node : /\ ResetM6(n).ring_locked = (n = 0)
                          /\ ResetM6(n).in_fifo = <<>> /\ ResetM6(n).out_fifo = <<>>
      BY DEF ResetM6
    <3> QED BY <1>1, <3>1
  <2> QED BY <2>1, <2>2 DEF InNode
<1>5. Tokens(m6) = {<<"node", 0, 0>>}
  BY <1>3, <1>4, OnePlace
<1> QED BY <1>1, <1>2, <1>5 DEF LockInv

(* There is one token on the ring, in a node or in a flit of a fifo, for    *)
(* any number of nodes and any size of the fifos, and only the node that    *)
(* has it is the master of a transaction.                                   *)
THEOREM TokenIsUnique == Spec => []OneToken
<1>1. LockInv => OneToken
  BY DEF LockInv, NodeInv, OneToken
<1>2. Init => LockInv
  BY LockInvInit
<1>3. LockInv /\ [Next]_ringVars => LockInv'
  BY LockInvKept
<1> QED BY <1>1, <1>2, <1>3, PTL DEF Spec
=============================================================================
