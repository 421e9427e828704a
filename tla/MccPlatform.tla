---------------------------- MODULE MccPlatform ----------------------------
(***************************************************************************)
(* The migration platform as the repository builds it: NbProcs caches      *)
(* VciMccCache with their TLBs and one memory controller MccRamCore.  The  *)
(* processors, the networks and the histories are those of CcPlatform.     *)
(***************************************************************************)
EXTENDS CcPlatform, VciMccCache, MccRamCore

mccVars == <<vars, tlbVars, ptDirectory>>

MccInit ==
  /\ NocInit /\ MccRamInit /\ MccCacheInit
  /\ types \in Workloads /\ stores = 0
  /\ order = [a \in Addr |-> <<Zero>>]
  /\ seen = [p \in Procs |-> [a \in Addr |-> 1]]

MccCpu(p) ==
  /\ CpuRequest(p) \/ FetchRequest(p)
  /\ UNCHANGED <<tlbVars, ptDirectory>>

MccCacheStep(p) ==
  /\ \E rspval, invval \in BOOLEAN : MccCacheCycle(p, rspval, invval)
  /\ SeenByLoads(p)
  /\ UNCHANGED <<mccRamRegs, types, stores, order>>

MccRamStep ==
  /\ MccRamCycle
  /\ OrderOfStores
  /\ UNCHANGED <<cacheVars, tlbVars, types, stores>>

MccNext == MccRamStep \/ \E p \in Procs : MccCpu(p) \/ MccCacheStep(p)

MccSpec == MccInit /\ [][MccNext]_mccVars
=============================================================================
