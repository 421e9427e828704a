------------------------------ MODULE Module10 ------------------------------
(***************************************************************************)
(* Module_10 of the migration memory node: the control of a migration      *)
(* inside the node.  It raises the contention seen by the counters to      *)
(* Module_6, feeds it with the counters of the page, and turns its         *)
(* commands into requests to the memory (poison, unpoison, updates).       *)
(*                                                                         *)
(* Synchronous like Module6: ComputeM10(c, i) is the state after a cycle   *)
(* of the module whose registers are c, with the input ports i.            *)
(***************************************************************************)
EXTENDS Naturals, Sequences

CONSTANTS
  NbProc,        \* m_NBPROC: counters of a page
  TimeToWait     \* TIME_TO_WAIT, in cycles

ASSUME ControlAssumption == NbProc \in Nat \ {0} /\ TimeToWait \in Nat

VARIABLE m10     \* registers and output fifo of each node

M10States == {"idle", "raise_contention", "counter_lock", "counter_unlock", "elect",
  "access_value", "access_counters", "poison", "poison_ok", "send_home_addr", "unpoison",
  "unpoison_ok", "finish", "abort", "updt_inv", "updt_table", "updt_wiam", "updt_wiam_ok"}

\* r_max_p starts as a value that is no page (0xDEADBEFF).
CONSTANT NoPage

ResetM10 ==
  [fsm |-> "idle", master_contention |-> FALSE, m9_locked |-> FALSE, max_p |-> NoPage,
   virt_max_p |-> 0, mig_c |-> FALSE, index_cpt |-> 0, slave |-> FALSE,
   waiting_time |-> FALSE, wait_cycles |-> TimeToWait,
   page_local |-> 0, page_new |-> 0, page_wiam |-> 0, fifo |-> <<>>]

-----------------------------------------------------------------------------
At(c, state) == [c EXCEPT !.fsm = state]

Raises(c, i) ==
  /\ i.contention \/ i.threshold
  /\ ~c.master_contention /\ ~c.slave /\ ~c.m9_locked /\ ~c.waiting_time

\* No command of Module_6: answers of the memory first, then the processor
\* that reads the counters, then a contention of this node.
IdleAlone(c, i) ==
  CASE i.poison_ack -> [At(c, "poison_ok") EXCEPT !.virt_max_p = i.virt_poison_page]
    [] ~i.poison_ack /\ i.unpoison_ok -> At(c, "unpoison_ok")
    [] OTHER ->
         CASE i.m7_cmd = "LOCK"   -> IF i.m9_busy THEN c ELSE At(c, "counter_lock")
           [] i.m7_cmd = "UNLOCK" -> At(c, "counter_unlock")
           [] i.m7_cmd = "NOP"    ->
                IF Raises(c, i)
                THEN [At(c, "raise_contention") EXCEPT !.mig_c = ~i.threshold]
                ELSE c

IdleCommand(c, i) ==
  CASE i.m6_cmd = "CMD_POISON"            -> At(c, "poison")
    [] i.m6_cmd = "CMD_ABORT"             -> At(c, "abort")
    [] i.m6_cmd = "CMD_UNPOISON"          -> At(c, "unpoison")
    [] i.m6_cmd = "CMD_ELECT"             -> [At(c, "elect") EXCEPT !.slave = TRUE]
    [] i.m6_cmd = "CMD_BEGIN_TRANSACTION" -> At(c, "access_value")
    [] i.m6_cmd = "CMD_UPDT_INV"  -> [At(c, "updt_inv") EXCEPT !.page_local = i.m6_data]
    [] i.m6_cmd = "CMD_UPDT_WIAM" -> [At(c, "updt_wiam") EXCEPT !.page_local = i.m6_data]

\* An election wins over the contention of this node, which is raised again
\* later; an update of the page table makes the module try again.
RaiseContention(c, i) ==
  LET answered == IF ~i.m6_req THEN c
        ELSE CASE i.m6_cmd = "CMD_ELECT" -> [At(c, "elect") EXCEPT !.slave = TRUE]
               [] i.m6_cmd = "CMD_BEGIN_TRANSACTION" ->
                    [At(c, "access_value") EXCEPT !.master_contention = TRUE]
               [] OTHER -> At(c, "idle")
  IN  IF i.m6_ack THEN [At(answered, "idle") EXCEPT !.master_contention = TRUE]
      ELSE answered

\* The page's global counter, then one counter per processor, go to the
\* fifo of Module_6 (of M6_M10_INTER_FIFO_SIZE = 1 value).
Wok(c, i) == ~i.m9_busy /\ c.fifo = <<>>
AccessValue(c, i) ==
  LET read == [c EXCEPT !.max_p = i.max_page]
  IN  IF Wok(c, i) THEN [At(read, "access_counters") EXCEPT !.fifo = <<i.global>>] ELSE read
AccessCounters(c, i) ==
  IF ~Wok(c, i) THEN c
  ELSE LET put == [c EXCEPT !.fifo = <<i.counter[c.index_cpt]>>]
       IN  IF c.index_cpt = NbProc - 1 THEN [At(put, "idle") EXCEPT !.index_cpt = 0]
           ELSE [put EXCEPT !.index_cpt = @ + 1]

Abort(c, i) ==
  IF i.m9_busy THEN c ELSE [At(c, "idle") EXCEPT !.master_contention = FALSE]

UnpoisonOk(c) ==
  IF c.slave THEN [At(c, "finish") EXCEPT !.waiting_time = TRUE, !.slave = FALSE]
  ELSE [At(c, "finish") EXCEPT !.waiting_time = TRUE, !.master_contention = FALSE]

\* After a migration no contention is raised for a while.
Waits(c) ==
  CASE ~c.waiting_time -> c
    [] c.waiting_time /\ c.wait_cycles > 0 -> [c EXCEPT !.wait_cycles = @ - 1]
    [] OTHER -> [c EXCEPT !.wait_cycles = TimeToWait, !.waiting_time = FALSE]

FsmM10(c, i) ==
  CASE c.fsm = "idle" -> IF i.m6_req THEN IdleCommand(c, i) ELSE IdleAlone(c, i)
    [] c.fsm = "raise_contention" -> RaiseContention(c, i)
    [] c.fsm = "updt_inv"         -> [At(c, "updt_table") EXCEPT !.page_new = i.m6_data]
    [] c.fsm = "updt_wiam"        -> [At(c, "updt_wiam_ok") EXCEPT !.page_wiam = i.m6_data]
    [] c.fsm = "updt_table"       -> IF i.updt_tlb_ack THEN At(c, "idle") ELSE c
    [] c.fsm = "updt_wiam_ok"     -> IF i.updt_wiam_ack THEN At(c, "idle") ELSE c
    [] c.fsm = "counter_lock"     -> [At(c, "idle") EXCEPT !.m9_locked = TRUE]
    [] c.fsm = "counter_unlock"   -> [At(c, "idle") EXCEPT !.m9_locked = FALSE]
    [] c.fsm = "elect"            -> [At(c, "idle") EXCEPT !.max_p = i.evict_page]
    [] c.fsm = "access_value"     -> AccessValue(c, i)
    [] c.fsm = "access_counters"  -> AccessCounters(c, i)
    [] c.fsm = "poison_ok"        -> At(c, "send_home_addr")
    [] c.fsm = "abort"            -> Abort(c, i)
    [] c.fsm = "unpoison_ok"      -> UnpoisonOk(c)
    [] c.fsm \in {"unpoison", "poison", "finish", "send_home_addr"} -> At(c, "idle")

\* Module_6 pops the fifo it shares with Module_10 in the same cycle.
ComputeM10(c, i) ==
  LET next == FsmM10(Waits(c), i)
  IN  IF i.fifo_get THEN [next EXCEPT !.fifo = <<>>] ELSE next

-----------------------------------------------------------------------------
(* gen_outputs.                                                            *)
Req10(c) == c.fsm \in {"raise_contention", "poison_ok", "unpoison_ok", "send_home_addr"}
Cmd10(c) ==
  CASE c.fsm = "raise_contention" -> IF c.mig_c THEN "CMD_IS_CONTENTION" ELSE "CMD_PE_MIG"
    [] c.fsm = "poison_ok"        -> "CMD_IS_POISONNED"
    [] c.fsm = "unpoison_ok"      -> "CMD_UNPOISON_OK"
    [] c.fsm = "send_home_addr"   -> "CMD_PAGE_ADDR_HOME"
    [] OTHER                      -> "CMD_NOP"
Data10(c) == CASE c.fsm = "poison_ok"      -> c.max_p
               [] c.fsm = "send_home_addr" -> c.virt_max_p
               [] OTHER -> 0
Ack10(c) == c.fsm \in {"idle", "updt_wiam", "updt_inv"}
RspM7(c) == c.fsm \in {"counter_lock", "counter_unlock"}
PoisonReq(c) == c.fsm = "poison"
UnpoisonReq(c) == c.fsm = "unpoison"
UpdtTlbReq(c) == c.fsm = "updt_table"
UpdtWiamReq(c) == c.fsm = "updt_wiam_ok"
=============================================================================
