---------------------------- MODULE CcCacheProps ----------------------------
(* What one cache guarantees to its processor. *)
EXTENDS CcCacheSystem

(* The word that the processor's stores have left at a: the one waiting in *)
(* the FIFO_INPUT cell, else the one in the write buffer, else memory's.   *)
InBuffer(a) == {i \in DOMAIN wb[P].cells : wb[P].cells[i].addr = a}
Latest(a) ==
  IF dm[P].pending /\ dm[P].addr = a THEN Merge(memory[a], dm[P].data, dm[P].wl)
  ELSE IF InBuffer(a) # {} THEN wb[P].cells[CHOOSE i \in InBuffer(a) : TRUE].data
  ELSE memory[a]

Port == INSTANCE AtomicMemory WITH
          contents <- [a \in Addr |-> Latest(a)], request <- cpu[P], value <- got

(* Behind its port the processor sees a plain memory: write buffer, merged *)
(* and burst stores, NACKed packets that are sent again, lines filled and  *)
(* dropped under its feet never lose, repeat, reorder or uncover a store.  *)
PortIsAtomicMemory == Port!AmSpec

(* A write packet that was refused is sent again from its first cell: no   *)
(* cell is lost or repeated, BURST_SIZE agrees with the buffer all along.  *)
BufferMatchesPacket ==
  /\ rq[P].fsm = "REQ_WRITE" =>
       /\ dm[P].size = FilledStatus(wb[P]) + rq[P].cpt + 1
       /\ LastCell(P) <=> ~Rok(wb[P])
       /\ rq[P].addr = wb[P].cells[wb[P].ptr].addr
  /\ StartsWrite(P) => Rok(wb[P])
  /\ Puts(P) => Wok(wb[P]) /\ ~Gets(P)
  /\ Proceeds(P) /\ ~dm[P].pending => wb[P] = EmptyBuffer
  /\ ~(rs[P].dOk /\ rs[P].dRetry) /\ ~(rs[P].iOk /\ rs[P].iRetry)

-----------------------------------------------------------------------------
(* "a burst paquet MUST have (vci standard) contiguous byte-enable over    *)
(* cells : ex 001 1111 1111 1110" (DCACHE_IDLE): the last cell carries the *)
(* byte enable of the last store, r_DCACHE_WL_BE_SAVE.                     *)
LastCellByteEnable ==
  cmd[P] # NoCell /\ cmd[P].cmd = "WRITE" /\ cmd[P].eop => cmd[P].be = dm[P].wl
=============================================================================
