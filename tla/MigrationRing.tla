--------------------------- MODULE MigrationRing ---------------------------
(***************************************************************************)
(* The migration of pages: NbMem nodes on the micro ring, each with its    *)
(* Module_6 and Module_10 and a memory.  The nodes share a clock: Tick is  *)
(* one cycle of all of them.  What the clock does not decide comes between *)
(* two cycles: the counters signal a contention, a processor takes the     *)
(* counters, the memory ends a request of Module_10.                       *)
(*                                                                         *)
(* The memory (external here: the controller of a node with the interface  *)
(* VciMccRam_interface) is modelled from its use by Module_6 and Module_10.*)
(* Frame f first holds page f; page p is at home in the node of frame p.   *)
(***************************************************************************)
EXTENDS Module6, Module10, FiniteSets

CONSTANTS
  MaxRaised,     \* bound on the contentions signalled and the counters taken in a run
  Exceeders,     \* nodes whose counters signal a threshold, the others a contention
  Pressures,     \* what module_8 measures
  NearCost, FarCost,  \* m_table_cost: from a processor to its own node, to another
  Counters,      \* values of a rounded counter
  CountersUsed   \* when a processor may take the counters: "never", "at rest", "always"

ASSUME SystemAssumption ==
  /\ NbProc = NbProcs /\ MaxRaised \in Nat
  /\ CountersUsed \in {"never", "at rest", "always"}
  /\ Exceeders \subseteq Node /\ Pressures \subseteq Nat
  /\ NearCost \in Nat /\ FarCost \in Nat /\ Counters \subseteq Nat

VARIABLES
  signal,    \* what the counters of each node signal: "none", "contention", "threshold"
  raised,    \* contentions signalled and counters taken so far
  pressure,  \* pressure of each node
  cpu,       \* request of module_7 to each Module_10: "NOP", "LOCK", "UNLOCK"
  ram,       \* the request of Module_10 that each memory serves
  inval,     \* pages whose home invalidates their translation in the TLBs
  mem,       \* mem[f][l][k]: word k of line l of frame f
  dir,       \* dir[f][l]: directory entry of line l of frame f
  wiam,      \* wiam[f]: the page a frame holds, by its home address (who am I)
  virt,      \* virt[p]: the frame where the home of page p says it is
  tlb,       \* tlb[p]: the frames where a TLB may still say it is
  poisoned   \* frames the caches may not access

ringVars == <<m6, m10, signal, raised, pressure, cpu, ram, inval, mem, dir, wiam, virt,
              tlb, poisoned>>
memVars == <<mem, dir, wiam, virt, tlb, poisoned>>

Word(p, l, k) == p * PageWords + l * LineWords + k
RamStates == {"idle", "poison", "poison_ok", "unpoison", "unpoison_ok", "tlb_ack",
              "wiam_ack"}

Init ==
  /\ m6 = [n \in Node |-> ResetM6(n)]
  /\ m10 = [n \in Node |-> ResetM10]
  /\ signal = [n \in Node |-> "none"] /\ raised = 0
  /\ \E p \in Pressures : pressure = [n \in Node |-> p]
  /\ cpu = [n \in Node |-> "NOP"]
  /\ ram = [n \in Node |-> "idle"] /\ inval = {}
  /\ mem = [f \in Frame |-> [l \in 0 .. PageLines - 1 |->
                              [k \in 0 .. LineWords - 1 |-> Word(f, l, k)]]]
  /\ dir = [f \in Frame |-> [l \in 0 .. PageLines - 1 |-> Word(f, l, 0)]]
  /\ wiam = [f \in Frame |-> f] /\ virt = [p \in Frame |-> p]
  /\ tlb = [p \in Frame |-> {p}] /\ poisoned = {}

-----------------------------------------------------------------------------
(* The wires.                                                              *)
TableCost(n) == [p \in 0 .. NbProcs - 1 |-> IF p % NbMem = n THEN NearCost ELSE FarCost]
Page(n) == FrameAddress(n, m10[n].max_p)
Transferred(n) == FrameAddress(n, m6[n].page_addr)

Ports6(n) ==
  LET c == m10[n]
  IN  [req |-> Req10(c), cmd |-> Cmd10(c), data |-> Data10(c), ack |-> Ack10(c),
       fifo |-> c.fifo, pressure |-> pressure[n], table_cost |-> TableCost(n),
       ring |-> RingOut(m6[Pred(n)]), ring_ack |-> InWok(m6[Succ(n)]),
       sram |-> ram[n] = "idle",
       seg |-> mem[Transferred(n)], dir |-> dir[Transferred(n)]]

Ports10(n, page, counter, get) ==
  LET s == m6[n]
  IN  [m6_req |-> Req6(s), m6_cmd |-> Cmd6(s), m6_data |-> Data6(s), m6_ack |-> Ack6(s),
       contention |-> signal[n] = "contention", threshold |-> signal[n] = "threshold",
       m7_cmd |-> cpu[n], m9_busy |-> FALSE,
       poison_ack |-> ram[n] = "poison_ok", unpoison_ok |-> ram[n] = "unpoison_ok",
       virt_poison_page |-> IF ram[n] = "poison_ok" THEN wiam[Page(n)] ELSE 0,
       updt_tlb_ack |-> ram[n] = "tlb_ack", updt_wiam_ack |-> ram[n] = "wiam_ack",
       max_page |-> page, evict_page |-> page, global |-> counter,
       counter |-> [p \in 0 .. NbProcs - 1 |-> counter], fifo_get |-> get]

\* The page is chosen when Module_10 asks the counters for one, the values
\* of the counters when it reads them.
Pages == IF \E n \in Node : m10[n].fsm \in {"elect", "access_value"}
         THEN 0 .. NbFrames - 1 ELSE {0}
CounterValues == IF \E n \in Node : m10[n].fsm \in {"access_value", "access_counters"}
                 THEN Counters ELSE {0}

\* A request of one cycle is kept by the memory, an answer is held until
\* Module_10 takes it.
RamAfter(n, next) ==
  CASE PoisonReq(m10[n]) -> "poison"
    [] UnpoisonReq(m10[n]) -> "unpoison"
    [] \/ ram[n] = "poison_ok" /\ next.fsm = "poison_ok"
       \/ ram[n] = "unpoison_ok" /\ next.fsm = "unpoison_ok"
       \/ ram[n] \in {"tlb_ack", "wiam_ack"} -> "idle"
    [] OTHER -> ram[n]

Tick(page, counter) ==
  LET w    == [n \in Node |-> Machines(n, m6[n], Ports6(n))]
      next == [n \in Node |-> ComputeM10(m10[n], Ports10(n, page, counter, w[n].fifo_get))]
  IN  /\ m6' = [n \in Node |-> Registers(n, m6[n], Ports6(n), w[n])]
      /\ m10' = next
      /\ ram' = [n \in Node |-> RamAfter(n, next[n])]
      /\ signal' = [n \in Node |->
           IF next[n].fsm = "raise_contention" THEN "none" ELSE signal[n]]
      /\ cpu' = [n \in Node |-> IF RspM7(m10[n]) THEN "NOP" ELSE cpu[n]]
      /\ mem' = [f \in Frame |-> [l \in 0 .. PageLines - 1 |->
           LET n == AddressToId(f)
           IN  IF Transferred(n) = f /\ w[n].seg_write # <<>> /\ w[n].seg_write[1] = l
               THEN w[n].seg_write[2] ELSE mem[f][l]]]
      /\ dir' = [f \in Frame |-> [l \in 0 .. PageLines - 1 |->
           LET n == AddressToId(f)
           IN  IF Transferred(n) = f /\ w[n].dir_write # <<>> /\ w[n].dir_write[1] = l
               THEN w[n].dir_write[2] ELSE dir[f][l]]]
      /\ UNCHANGED <<raised, pressure, inval, wiam, virt, tlb, poisoned>>

-----------------------------------------------------------------------------
(* Between two cycles.                                                     *)
ContentionSignalled(n) ==
  /\ raised < MaxRaised /\ signal[n] = "none"
  /\ signal' = [signal EXCEPT ![n] = IF n \in Exceeders THEN "threshold" ELSE "contention"]
  /\ raised' = raised + 1
  /\ UNCHANGED <<m6, m10, pressure, cpu, ram, inval, memVars>>

\* A processor takes the counters, reads them, and gives them back.
ProcessorSpeaks ==
  \/ CountersUsed = "always"
  \/ CountersUsed = "at rest" /\ \A k \in Node : ~m6[k].in_transaction

CountersTaken(n) ==
  /\ ProcessorSpeaks /\ cpu[n] = "NOP" /\ ~m10[n].m9_locked /\ raised < MaxRaised
  /\ cpu' = [cpu EXCEPT ![n] = "LOCK"] /\ raised' = raised + 1
  /\ UNCHANGED <<m6, m10, signal, pressure, ram, inval, memVars>>

CountersGiven(n) ==
  /\ ProcessorSpeaks /\ cpu[n] = "NOP" /\ m10[n].m9_locked /\ ~RspM7(m10[n])
  /\ cpu' = [cpu EXCEPT ![n] = "UNLOCK"]
  /\ UNCHANGED <<m6, m10, signal, raised, pressure, ram, inval, memVars>>

Poisoned(n) ==
  /\ ram[n] = "poison"
  /\ ram' = [ram EXCEPT ![n] = "poison_ok"]
  /\ poisoned' = poisoned \cup {Page(n)}
  /\ UNCHANGED <<m6, m10, signal, raised, pressure, cpu, inval, mem, dir, wiam, virt, tlb>>

Unpoisoned(n) ==
  /\ ram[n] = "unpoison"
  /\ ram' = [ram EXCEPT ![n] = "unpoison_ok"]
  /\ poisoned' = poisoned \ {Page(n)}
  /\ UNCHANGED <<m6, m10, signal, raised, pressure, cpu, inval, mem, dir, wiam, virt, tlb>>

\* The home updates the entry of a page, then invalidates it in the TLBs;
\* one invalidation is in progress at a time.
HomeOf(n) == {p \in Frame : AddressToId(p) = n}
PageTableUpdated(n) ==
  /\ UpdtTlbReq(m10[n]) /\ ram[n] = "idle" /\ inval \cap HomeOf(n) = {}
  /\ LET p == m10[n].page_local
         f == m10[n].page_new
     IN  /\ virt' = [virt EXCEPT ![p] = f]
         /\ tlb' = [tlb EXCEPT ![p] = @ \cup {f}]
         /\ inval' = inval \cup {p}
  /\ ram' = [ram EXCEPT ![n] = "tlb_ack"]
  /\ UNCHANGED <<m6, m10, signal, raised, pressure, cpu, mem, dir, wiam, poisoned>>

TlbsInvalidated(n) ==
  /\ inval \cap HomeOf(n) # {}
  /\ inval' = inval \ HomeOf(n)
  /\ tlb' = [p \in Frame |-> IF p \in inval \cap HomeOf(n) THEN {virt[p]} ELSE tlb[p]]
  /\ m6' = [m6 EXCEPT ![n] = SetTlbInvOk(@)]
  /\ UNCHANGED <<m10, signal, raised, pressure, cpu, ram, mem, dir, wiam, virt, poisoned>>

WhoAmIUpdated(n) ==
  /\ UpdtWiamReq(m10[n]) /\ ram[n] = "idle"
  /\ wiam' = [wiam EXCEPT ![Page(n)] = m10[n].page_wiam]
  /\ m6' = [m6 EXCEPT ![n] = SetWiamOk(@)]
  /\ ram' = [ram EXCEPT ![n] = "wiam_ack"]
  /\ UNCHANGED <<m10, signal, raised, pressure, cpu, inval, mem, dir, virt, tlb, poisoned>>

MemoryStep(n) ==
  Poisoned(n) \/ Unpoisoned(n) \/ PageTableUpdated(n) \/ TlbsInvalidated(n) \/ WhoAmIUpdated(n)

Next ==
  \/ \E page \in Pages, counter \in CounterValues : Tick(page, counter)
  \/ \E n \in Node : ContentionSignalled(n) \/ CountersTaken(n) \/ CountersGiven(n) \/ MemoryStep(n)

Spec == Init /\ [][Next]_ringVars
=============================================================================
