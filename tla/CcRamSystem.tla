----------------------------- MODULE CcRamSystem -----------------------------
(***************************************************************************)
(* CcRamCore closed by the most general initiators that respect the VCI    *)
(* packet rules: each sends one packet and takes its response before the   *)
(* next; a coherent one also acknowledges invalidations at any time.       *)
(***************************************************************************)
EXTENDS CcRamCore

CONSTANTS
  Workloads, \* each a set of "LINE", "WORD", "LL", "SC", "WRITE": what initiators send
  Stored,    \* values that a WRITE stores
  Starts,    \* words that are read alone, and where write packets start
  MaxBurst,  \* longest write packet
  MaxCount   \* bound on the increments made with LL/SC

ASSUME WorkloadsAssumption ==
  Workloads \subseteq SUBSET {"LINE", "WORD", "LL", "SC", "WRITE"}
ASSUME StoredAssumption == Stored \subseteq Val /\ Starts \subseteq Addr
ASSUME MaxBurstAssumption == MaxBurst \in Nat \ {0}
ASSUME MaxCountAssumption == MaxCount \in Nat /\ 0 .. MaxCount \subseteq Val

VARIABLES
  ops,      \* the workload of this behaviour
  out,      \* out[s]: the request of s: cells to send, cells to receive
  holders,  \* history: the caches that may hold a copy of a block
  reg,      \* reg[s]: the word s read with its last LL
  succ      \* history: successful store conditionals taken by initiators

envVars == <<ops, out, holders, reg, succ>>
vars    == <<ramVars, envVars>>

Idle == [cmd |-> "READ", addr |-> 0, toSend |-> 0, toRecv |-> 0]

Init ==
  /\ NocInit /\ RamInit
  /\ ops \in Workloads
  /\ out = [s \in Srcs |-> Idle]
  /\ holders = [b \in Blocks |-> {}]
  /\ reg = [s \in Srcs |-> Zero]
  /\ succ = 0

-----------------------------------------------------------------------------
(* The word that LL/SC sequences increment. *)
Counter == 0

Cell(c, a, d, be, n, eop) ==
  [cmd |-> c, addr |-> a, data |-> d, be |-> be, cells |-> n, eop |-> eop]

StoredWord == {d \in Word : \A l \in Lanes : d[l] \in Stored}

(* s starts a packet of n cells, and awaits m of response. *)
Send(s, c, a, d, be, n, m) ==
  /\ out[s].toSend = 0 /\ out[s].toRecv = 0 /\ cmd[s] = NoCell
  /\ cmd' = [cmd EXCEPT ![s] = Cell(c, a, d, be, IF c = "WRITE" THEN n ELSE m, n = 1)]
  /\ out' = [out EXCEPT ![s] = [cmd |-> c, addr |-> a, toSend |-> n - 1, toRecv |-> m]]

EnvSend(s) ==
  /\ \/ /\ "LINE" \in ops
        /\ \E b \in Blocks : Send(s, "READ", Base(b), Zero, Lanes, 1, LineWords)
     \/ "WORD" \in ops /\ \E a \in Starts : Send(s, "READ", a, Zero, Lanes, 1, 1)
     \/ "LL" \in ops /\ Send(s, "LOCKED_READ", Counter, Zero, Lanes, 1, 1)
     \/ /\ "SC" \in ops /\ reg[s][0] < MaxCount
        /\ Send(s, "STORE_COND", Counter, [l \in Lanes |-> reg[s][0] + 1], Lanes, 1, 1)
     \/ /\ "WRITE" \in ops
        /\ \E a \in Starts, n \in 1 .. MaxBurst, d \in StoredWord, be \in SUBSET Lanes :
             a + n <= NbWords /\ be # {} /\ Send(s, "WRITE", a, d, be, n, 1)
  /\ UNCHANGED <<rsp, invCmd, invRsp, ramRegs, holders, reg, succ, ops>>

EnvSendNext(s) ==
  /\ out[s].toSend > 0 /\ cmd[s] = NoCell
  /\ \E d \in StoredWord, be \in (SUBSET Lanes) \ {{}} :
       cmd' = [cmd EXCEPT ![s] = Cell("WRITE", out[s].addr + 1, d, be, 1, out[s].toSend = 1)]
  /\ out' = [out EXCEPT ![s].addr = @ + 1, ![s].toSend = @ - 1]
  /\ UNCHANGED <<rsp, invCmd, invRsp, ramRegs, holders, reg, succ, ops>>

EnvTakeRsp(s) ==
  /\ rsp[s] # NoCell
  /\ rsp' = [rsp EXCEPT ![s] = NoCell]
  /\ out' = [out EXCEPT ![s] = IF out[s].toRecv = 1 THEN Idle
                                   ELSE [out[s] EXCEPT !.toRecv = @ - 1]]
  /\ reg' = IF out[s].cmd = "LOCKED_READ" THEN [reg EXCEPT ![s] = rsp[s].data] ELSE reg
  /\ succ' = IF rsp[s].ok THEN succ + 1 ELSE succ
  /\ UNCHANGED <<cmd, invCmd, invRsp, ramRegs, holders, ops>>

(* The cache has dropped its copy when it acknowledges. *)
CacheAck(p) ==
  /\ invCmd[p] # NoBlock
  /\ invCmd' = [invCmd EXCEPT ![p] = NoBlock]
  /\ invRsp' = [invRsp EXCEPT ![p] = TRUE]
  /\ holders' = [holders EXCEPT ![invCmd[p]] = @ \ {p}]
  /\ UNCHANGED <<cmd, rsp, ramRegs, out, reg, succ, ops>>

(* The initiator of a read may hold the block once the last cell left.     *)
LastReadCellLeaves ==
  /\ ramFsm = "RAM_IDLE" /\ PeerAccepted /\ mode = "SIZED_READ"
  /\ cur.eop /\ cur.src \in Procs

RamStep ==
  /\ RamCycle
  /\ holders' = IF LastReadCellLeaves
                THEN [holders EXCEPT ![Block(cur.addr)] = @ \cup {cur.src}]
                ELSE holders
  /\ UNCHANGED <<out, reg, succ, ops>>

Next ==
  \/ RamStep
  \/ \E s \in Srcs : EnvSend(s) \/ EnvSendNext(s) \/ EnvTakeRsp(s)
  \/ \E p \in Procs : CacheAck(p)

(* The clock ticks; the NoC arbiters are round-robin, so that a cell that  *)
(* waits is taken by some cycle; initiators take responses (RSP_FSM is     *)
(* always ready) and acknowledge invalidations.                            *)
Fairness ==
  /\ WF_vars(RamStep)
  /\ WF_vars(RamStep /\ InvRspTake)
  /\ WF_vars(RamStep /\ SizedWriteCell)
  /\ \A s \in Srcs : SF_vars(RamStep /\ AcceptCmd(s))
  /\ \A s \in Srcs : WF_vars(EnvSendNext(s)) /\ WF_vars(EnvTakeRsp(s))
  /\ \A p \in Procs : WF_vars(CacheAck(p))

Spec     == Init /\ [][Next]_vars
FairSpec == Spec /\ Fairness
=============================================================================
