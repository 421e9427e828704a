----------------------------- MODULE CcPlatform -----------------------------
(***************************************************************************)
(* The coherent platform: NbProcs caches VciCcCache, each with its         *)
(* processor, and one memory controller CcRamCore.  The components share   *)
(* nothing but the two networks, whose latencies are arbitrary, so that    *)
(* their clock cycles interleave.                                          *)
(***************************************************************************)
EXTENDS CcRamCore, VciCcCache, FiniteSets

CONSTANTS
  Workloads, \* each the data requests, and "FETCH", that processors make
  Used,      \* the addresses of their loads and stores ...
  Linked,    \* ... of LL and SC
  Fetchers,  \* the processors that fetch instructions ...
  Fetched,   \* ... and their addresses; the others hit their ICACHE
  MaxStores  \* bound on the stores of all processors: the n-th stores n

ASSUME WorkloadsAssumption == Workloads \subseteq SUBSET (DataTypes \cup {"FETCH"})
ASSUME UsedAssumption      == Used \subseteq Addr /\ Linked \subseteq Addr
ASSUME FetchedAssumption   == Fetched \subseteq Addr /\ Fetchers \subseteq Procs
ASSUME MaxStoresAssumption == MaxStores \in Nat /\ 0 .. MaxStores \subseteq Val

VARIABLES
  types,    \* the workload of this behaviour
  stores,   \* history: the stores the processors have issued
  order,    \* history: order[a], the values of a in memory order
  seen      \* history: seen[p][a], the latest value of a that p read or wrote

history == <<stores, order, seen>>
vars    == <<types, ramVars, cacheVars, history>>

Init ==
  /\ NocInit /\ RamInit /\ CacheInit
  /\ types \in Workloads /\ stores = 0
  /\ order = [a \in Addr |-> <<Zero>>]
  /\ seen = [p \in Procs |-> [a \in Addr |-> 1]]

-----------------------------------------------------------------------------
(* The processor (ISS): one data request and one instruction request, each *)
(* held until it is answered.  LL and SC address whole words.              *)

Stores == {"DATA_WRITE", "DATA_SC"}
Links  == {"DATA_LL", "DATA_SC"}
Full(n) == [l \in Lanes |-> n]

CpuRequest(p) ==
  /\ cpu[p] = NoReq
  /\ \E t \in types \ {"FETCH"} : \E a \in IF t \in Links THEN Linked ELSE Used :
       /\ t \in Stores => stores < MaxStores
       /\ cpu' = [cpu EXCEPT ![p] = [type |-> t, addr |-> a, be |-> Lanes,
                    data |-> IF t \in Stores THEN Full(stores + 1) ELSE Zero]]
       /\ stores' = IF t \in Stores THEN stores + 1 ELSE stores
  /\ UNCHANGED <<ramVars, fetch, dc, tag, line, dm, wb, ic, itag, rq, rs, iv, types, order, seen>>

FetchRequest(p) ==
  /\ "FETCH" \in types /\ p \in Fetchers /\ fetch[p] = NoReq
  /\ \E a \in Fetched : fetch' = [fetch EXCEPT ![p] = a]
  /\ UNCHANGED <<ramVars, cpu, dc, tag, line, dm, wb, ic, itag, rq, rs, iv, types, history>>

-----------------------------------------------------------------------------
(* What p reads when its load is answered in this cycle. *)

LoadAnswered(p) ==
  \/ DcLoadHit(p)
  \/ DcMissUpdate(p)
  \/ DcUncachedGo(p) /\ ~dc[p].sc
LoadedAddr(p) == cpu[p].addr
LoadedWord(p) ==
  CASE dc[p].fsm = "DCACHE_IDLE"    -> line[p][Slot(Block(LoadedAddr(p)))][Offset(LoadedAddr(p))]
    [] dc[p].fsm = "DCACHE_MISSUPDT" -> rs[p].buf[Offset(LoadedAddr(p))]
    [] OTHER                         -> rs[p].unc

Positions(a, w) == {i \in 1 .. Len(order[a]) : order[a][i] = w}

(* The histories of a cycle of the cache of p, and of the memory. *)
SeenByLoads(p) ==
  seen' = IF LoadAnswered(p)
          THEN [seen EXCEPT ![p][LoadedAddr(p)] =
                  CHOOSE i \in Positions(LoadedAddr(p), LoadedWord(p)) \cup {0} :
                    \A j \in Positions(LoadedAddr(p), LoadedWord(p)) : j <= i]
          ELSE seen

OrderOfStores ==
  LET written == {a \in Addr : mem'[a] # mem[a]}
  IN /\ order' = [a \in Addr |-> IF a \in written THEN Append(order[a], mem'[a])
                                                  ELSE order[a]]
     /\ seen' = [p \in Procs |-> [a \in Addr |->
                   IF a \in written /\ p = cur'.src THEN Len(order[a]) + 1
                                                    ELSE seen[p][a]]]

CacheStep(p) ==
  /\ \E rspval, invval \in BOOLEAN : CacheCycle(p, rspval, invval)
  /\ SeenByLoads(p)
  /\ UNCHANGED <<ramRegs, types, stores, order>>

RamStep ==
  /\ RamCycle
  /\ OrderOfStores
  /\ UNCHANGED <<cacheVars, types, stores>>

Next ==
  \/ RamStep
  \/ \E p \in Procs : CpuRequest(p) \/ FetchRequest(p) \/ CacheStep(p)

Spec == Init /\ [][Next]_vars

(* Every clock ticks; a cell on a network reaches its component; the       *)
(* arbiter of the request network starves nobody.                          *)
Fairness ==
  /\ WF_vars(RamStep)
  /\ WF_vars(RamStep /\ InvRspTake)
  /\ WF_vars(RamStep /\ SizedWriteCell)
  /\ \A p \in Procs :
       /\ SF_vars(RamStep /\ AcceptCmd(p))
       /\ WF_vars(CacheStep(p))
       /\ WF_vars(CacheStep(p) /\ rsp[p] # NoCell /\ rsp'[p] = NoCell)
       /\ WF_vars(CacheStep(p) /\ iv[p].fsm = "INV_IDLE" /\ iv'[p].fsm = "INV_CMD")

FairSpec == Spec /\ Fairness
=============================================================================
