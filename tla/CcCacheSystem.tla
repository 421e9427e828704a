---------------------------- MODULE CcCacheSystem ----------------------------
(***************************************************************************)
(* One VciCcCache closed by the most general memory: it may answer with an *)
(* error (NACK) any packet, or any cell of a read, and may ask at any time *)
(* to invalidate a block.  It performs a write packet as a whole, when it  *)
(* acknowledges it.                                                        *)
(***************************************************************************)
EXTENDS VciCcCache

CONSTANTS
  Workloads,  \* each the data requests that the processor makes and, of
              \*   "FETCH", "BYTES", "NACK" and "INVAL", what else may happen
  Used,       \* the addresses of its data
  Fetched,    \* the addresses of its instructions
  PartialAt,  \* the addresses at which it stores part of a word
  MaxNacks    \* bound on the number of NACKs

ASSUME OneCacheAssumption  == NbProcs = 1
ASSUME WorkloadsAssumption ==
  Workloads \subseteq SUBSET ((DataTypes \ {"DATA_SC"}) \cup {"FETCH", "BYTES", "NACK", "INVAL"})
ASSUME UsedAssumption      == Used \subseteq Addr /\ Fetched \subseteq Addr
ASSUME PartialAtAssumption == PartialAt \subseteq Addr
ASSUME MaxNacksAssumption  == MaxNacks \in Nat

VARIABLES
  types,   \* the workload of this behaviour
  got,     \* the word that answered the last load
  memory,  \* the words of the memory
  staged,  \* memory, with the cells of the write packet under way
  reads,   \* the read packet under way: next address, cells to answer
  nacks    \* the NACKs so far

memVars == <<memory, staged, reads, nacks>>
vars    == <<types, nocVars, cacheVars, got, memVars>>

P == 0

Init ==
  /\ NocInit /\ CacheInit
  /\ types \in Workloads
  /\ got = Zero
  /\ memory = [a \in Addr |-> Zero]
  /\ staged = memory
  /\ reads = [addr |-> 0, left |-> 0]
  /\ nacks = 0

-----------------------------------------------------------------------------
ByteEnables(t, a) == IF "BYTES" \in types /\ t = "DATA_WRITE" /\ a \in PartialAt
                     THEN (SUBSET Lanes) \ {{}} ELSE {Lanes}
StoreData(t)      == IF t = "DATA_WRITE" THEN {[l \in Lanes |-> v] : v \in Val} ELSE {Zero}

CpuRequest ==
  /\ cpu[P] = NoReq
  /\ \E t \in types \cap DataTypes, a \in Used : \E be \in ByteEnables(t, a), d \in StoreData(t) :
       cpu' = [cpu EXCEPT ![P] = [type |-> t, addr |-> a, data |-> d, be |-> be]]
  /\ UNCHANGED <<types, nocVars, fetch, dc, tag, line, dm, wb, ic, itag, rq, rs, iv, got, memVars>>

FetchRequest ==
  /\ "FETCH" \in types /\ fetch[P] = NoReq
  /\ \E a \in Fetched : fetch' = [fetch EXCEPT ![P] = a]
  /\ UNCHANGED <<types, nocVars, cpu, dc, tag, line, dm, wb, ic, itag, rq, rs, iv, got, memVars>>

CacheStep ==
  /\ \E rspval, invval \in BOOLEAN : CacheCycle(P, rspval, invval)
  /\ got' = CASE DcLoadHit(P)    -> line[P][Slot(Block(cpu[P].addr))][Offset(cpu[P].addr)]
              [] DcMissUpdate(P) -> rs[P].buf[Offset(cpu[P].addr)]
              [] DcUncachedGo(P) -> rs[P].unc
              [] OTHER           -> got
  /\ UNCHANGED <<types, memVars>>

-----------------------------------------------------------------------------
Respond(d, error, eop) ==
  rsp' = [rsp EXCEPT ![P] = [data |-> d, ok |-> FALSE, error |-> error, eop |-> eop]]

Errors == IF "NACK" \in types /\ nacks < MaxNacks THEN BOOLEAN ELSE {FALSE}

MemTakeRead ==
  /\ cmd[P] # NoCell /\ cmd[P].cmd # "WRITE"
  /\ reads' = [addr |-> cmd[P].addr, left |-> cmd[P].cells]
  /\ cmd' = [cmd EXCEPT ![P] = NoCell]
  /\ UNCHANGED <<types, rsp, invCmd, invRsp, cacheVars, got, memory, staged, nacks>>

MemAnswerRead ==
  /\ reads.left > 0 /\ rsp[P] = NoCell
  /\ reads' = [addr |-> reads.addr + 1, left |-> reads.left - 1]
  /\ \E e \in Errors :
       /\ Respond(IF e THEN Zero ELSE memory[reads.addr], e, reads.left = 1)
       /\ nacks' = IF e THEN nacks + 1 ELSE nacks
  /\ UNCHANGED <<types, cmd, invCmd, invRsp, cacheVars, got, memory, staged>>

MemTakeWrite ==
  /\ cmd[P] # NoCell /\ cmd[P].cmd = "WRITE"
  /\ cmd' = [cmd EXCEPT ![P] = NoCell]
  /\ LET c    == cmd[P]
         next == [staged EXCEPT ![c.addr] = Merge(@, c.data, c.be)]
     IN \/ /\ ~c.eop
           /\ staged' = next /\ UNCHANGED <<types, rsp, memory, nacks>>
        \/ /\ c.eop
           /\ \E e \in Errors :
                /\ Respond(Zero, e, TRUE)
                /\ nacks' = IF e THEN nacks + 1 ELSE nacks
                /\ memory' = IF e THEN memory ELSE next
           /\ staged' = memory'
  /\ UNCHANGED <<types, invCmd, invRsp, cacheVars, got, reads>>

MemInval ==
  /\ "INVAL" \in types /\ invCmd[P] = NoBlock
  /\ \E b \in {Block(a) : a \in Used} : invCmd' = [invCmd EXCEPT ![P] = b]
  /\ UNCHANGED <<types, cmd, rsp, invRsp, cacheVars, got, memVars>>

MemTakeAck ==
  /\ invRsp[P]
  /\ invRsp' = [invRsp EXCEPT ![P] = FALSE]
  /\ UNCHANGED <<types, cmd, rsp, invCmd, cacheVars, got, memVars>>

Next ==
  \/ CpuRequest \/ FetchRequest \/ CacheStep
  \/ MemTakeRead \/ MemAnswerRead \/ MemTakeWrite \/ MemInval \/ MemTakeAck

Spec == Init /\ [][Next]_vars
=============================================================================
