--------------------------- MODULE MigrationLive ---------------------------
(***************************************************************************)
(* The ring under fairness.  clock makes the cycles visible: it changes    *)
(* with every Tick and with nothing else, so that the fairness of the      *)
(* clock is said of clock alone.                                           *)
(***************************************************************************)
EXTENDS MigrationProps

VARIABLE clock

liveVars == <<ringVars, clock>>

LiveInit == Init /\ clock = FALSE

Cycle == \E page \in Pages, counter \in CounterValues : Tick(page, counter)
BetweenCycles ==
  \E n \in Node :
    ContentionSignalled(n) \/ CountersTaken(n) \/ CountersGiven(n) \/ MemoryStep(n)
ClockedNext == (Cycle /\ clock' = ~clock) \/ (BetweenCycles /\ UNCHANGED clock)

\* The clock never stops and every memory ends what it is asked to do.
FairSpec ==
  /\ LiveInit /\ [][ClockedNext]_liveVars
  /\ WF_clock(clock' = ~clock)
  /\ \A n \in Node : WF_ringVars(MemoryStep(n))

\* A contention taken by Module_10 ends in a migration or an abort, and
\* every node leaves the transaction it takes part in: the lock reaches
\* every node that asks for it, and no two nodes wait for each other.
MigrationsEnd ==
  \A n \in Node :
    /\ (m10[n].master_contention \/ m10[n].fsm = "raise_contention")
         ~> (~m10[n].master_contention /\ m10[n].fsm # "raise_contention")
    /\ m6[n].in_transaction ~> ~m6[n].in_transaction
=============================================================================
