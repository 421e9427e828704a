---------------------------- MODULE MccCacheSystem ----------------------------
(***************************************************************************)
(* One VciMccCache closed by memories that exchange the pages of two       *)
(* frames while it runs, as the ring of MigrationRing has them do: poison  *)
(* the two frames; then, in any order, exchange what they hold, and at the *)
(* home of each page enter the new frame and invalidate the translations   *)
(* that it gave; accept requests again to a frame once the page that left  *)
(* it cannot be looked for there.  Requests to a poisoned frame are        *)
(* refused, as may be a number of others.                                  *)
(***************************************************************************)
EXTENDS VciMccCache, FiniteSets

CONSTANTS
  Workloads,  \* each the data requests that the processor makes and, of
              \*   "FETCH", "NACK", "INVAL" and "AGAIN", what else may happen
  Stored,     \* the values that it stores
  Fetched,    \* the addresses of its instructions
  MaxNacks,   \* bound on the NACKs other than to poisoned frames
  MaxMoves    \* bound on the exchanges, with "AGAIN"; else there is one

ASSUME OneCacheAssumption  == NbProcs = 1
ASSUME WorkloadsAssumption ==
  Workloads \subseteq SUBSET ((DataTypes \ {"DATA_SC", "XTN_DCACHE_INVAL"})
                              \cup {"FETCH", "NACK", "INVAL", "AGAIN"})
ASSUME FetchedAssumption   == Fetched \subseteq Addr /\ Stored \subseteq Val
ASSUME BoundsAssumption    == MaxNacks \in Nat /\ MaxMoves \in Nat

VARIABLES
  types,     \* the workload of this behaviour
  got,       \* the word that answered the last load
  memory,    \* the words of the frames
  packet,    \* the packet under way: next address, cells to answer, words written
  nacks,     \* the NACKs so far
  holds,     \* holds[f]: the page in frame f (who-am-I)
  home,      \* home[v]: where the page table says that v is
  listed,    \* the pages whose translation the home has given to the cache
  poisoned,  \* the frames that refuse requests
  move,      \* the exchange: frames, pages to enter, exchanged
  unsent,    \* the TLB invalidations to send ...
  awaited,   \* ... and the acknowledgements to come
  moves      \* the exchanges so far

moveVars == <<holds, home, listed, poisoned, move, unsent, awaited, moves>>
memVars  == <<memory, packet, nacks>>
vars     == <<types, nocVars, cacheVars, tlbVars, got, memVars, moveVars>>

P == 0
NoMove == [frames |-> {}, todo |-> {}, done |-> FALSE]
NoPacket == [addr |-> 0, left |-> 0, written |-> <<>>]

Init ==
  /\ NocInit /\ MccCacheInit
  /\ types \in Workloads
  /\ got = Zero
  /\ memory = [a \in Addr |-> FrameWord(Page(a))]  \* each page says which it is
  /\ packet = NoPacket /\ nacks = 0
  /\ holds = [f \in Pages |-> f] /\ home = holds
  /\ listed = {} /\ poisoned = {} /\ move = NoMove
  /\ unsent = {} /\ awaited = {} /\ moves = 0

-----------------------------------------------------------------------------
CpuRequest ==
  /\ cpu[P] = NoReq
  /\ \E t \in types \cap DataTypes, a \in Addr :
       \E d \in IF t = "DATA_WRITE" THEN {[l \in Lanes |-> v] : v \in Stored} ELSE {Zero} :
         cpu' = [cpu EXCEPT ![P] = [type |-> t, addr |-> a, data |-> d, be |-> Lanes]]
  /\ UNCHANGED <<types, nocVars, fetch, dc, tag, line, dm, wb, ic, itag, rq, rs, iv,
                 tlbVars, got, memVars, moveVars>>

FetchRequest ==
  /\ "FETCH" \in types /\ fetch[P] = NoReq
  /\ \E a \in Fetched : fetch' = [fetch EXCEPT ![P] = a]
  /\ UNCHANGED <<types, nocVars, cpu, dc, tag, line, dm, wb, ic, itag, rq, rs, iv,
                 tlbVars, got, memVars, moveVars>>

CacheStep ==
  /\ UNCHANGED <<types, memVars, moveVars>>
  /\ \E rspval, invval \in BOOLEAN : MccCacheCycle(P, rspval, invval)
  /\ got' = CASE DcLoadHit(P)    -> line[P][Slot(Block(cpu[P].addr))][Offset(cpu[P].addr)]
              [] DcMissUpdate(P) -> rs[P].buf[Offset(cpu[P].addr)]
              [] DcUncachedGo(P) -> rs[P].unc
              [] OTHER           -> got

-----------------------------------------------------------------------------
(* Requests.  A packet is refused as a whole or not at all: a frame is not *)
(* poisoned while a packet is in progress.                                 *)

Quiet == packet = NoPacket
Errors(f) == IF f \in poisoned THEN {TRUE}
             ELSE IF "NACK" \in types /\ nacks < MaxNacks THEN BOOLEAN ELSE {FALSE}

Respond(f, d, e, eop) ==
  /\ rsp' = [rsp EXCEPT ![P] = [data |-> IF e THEN Zero ELSE d, ok |-> FALSE,
                                error |-> e, eop |-> eop]]
  /\ nacks' = IF e /\ f \notin poisoned THEN nacks + 1 ELSE nacks

TakeCommand(cmds) ==
  /\ cmd[P] # NoCell /\ cmd[P].cmd \in cmds
  /\ cmd' = [cmd EXCEPT ![P] = NoCell]

MemTakeRead ==
  /\ TakeCommand({"READ", "LOCKED_READ"})
  /\ packet' = [packet EXCEPT !.addr = cmd[P].addr, !.left = cmd[P].cells]
  /\ UNCHANGED <<types, rsp, invCmd, invRsp, cacheVars, tlbVars, got, memory, nacks, moveVars>>

MemAnswerRead ==
  /\ packet.left > 0 /\ rsp[P] = NoCell
  /\ packet' = IF packet.left = 1 THEN NoPacket
               ELSE [packet EXCEPT !.addr = @ + 1, !.left = @ - 1]
  /\ \E e \in Errors(Page(packet.addr)) :
       Respond(Page(packet.addr), memory[packet.addr], e, packet.left = 1)
  /\ UNCHANGED <<types, cmd, invCmd, invRsp, cacheVars, tlbVars, got, memory, moveVars>>

MemTakeWrite ==
  /\ TakeCommand({"WRITE"})
  /\ LET c == cmd[P]
         written == Append(packet.written, [addr |-> c.addr, data |-> c.data, be |-> c.be])
     IN \/ /\ ~c.eop
           /\ packet' = [packet EXCEPT !.written = written]
           /\ UNCHANGED <<rsp, memory, nacks>>
        \/ /\ c.eop
           /\ packet' = NoPacket
           /\ \E e \in Errors(Page(c.addr)) :
                /\ Respond(Page(c.addr), Zero, e, TRUE)
                /\ memory' = [a \in Addr |->
                     LET hits == {i \in DOMAIN written : written[i].addr = a}
                     IN IF e \/ hits = {} THEN memory[a]
                        ELSE LET w == written[CHOOSE i \in hits : TRUE]
                             IN Merge(memory[a], w.data, w.be)]
  /\ UNCHANGED <<types, invCmd, invRsp, cacheVars, tlbVars, got, moveVars>>

(* The home lists the cache, and answers with the frame of the page.       *)
MemTlbMiss ==
  /\ rsp[P] = NoCell /\ TakeCommand({"READ_TLB_MISS"})
  /\ LET v == Page(cmd[P].addr)
     IN \E e \in Errors(NoPage) :
          /\ Respond(NoPage, FrameWord(home[v]), e, TRUE)
          /\ listed' = IF e THEN listed ELSE listed \cup {v}
  /\ UNCHANGED <<types, invCmd, invRsp, cacheVars, tlbVars, got, memory, packet,
                 holds, home, poisoned, move, unsent, awaited, moves>>

MemTlbAck ==
  /\ rsp[P] = NoCell /\ TakeCommand({"TLB_INV_ACK"})
  /\ \E e \in Errors(NoPage) :
       /\ Respond(NoPage, Zero, e, TRUE)
       /\ awaited' = IF e THEN awaited ELSE awaited \ {Page(cmd[P].addr)}
  /\ UNCHANGED <<types, invCmd, invRsp, cacheVars, tlbVars, got, memory, packet,
                 holds, home, listed, poisoned, move, unsent, moves>>

SendInval(tlbInv, b) ==
  /\ invCmd[P] = NoBlock
  /\ invCmd' = [invCmd EXCEPT ![P] = [tlb |-> tlbInv, what |-> b]]
  /\ UNCHANGED <<types, cmd, rsp, invRsp, cacheVars, tlbVars, got, memVars,
                 holds, home, listed, poisoned, move, awaited, moves>>

MemInval ==
  "INVAL" \in types /\ (\E b \in Blocks : SendInval(FALSE, b)) /\ UNCHANGED unsent

MemTakeAck ==
  /\ invRsp[P]
  /\ invRsp' = [invRsp EXCEPT ![P] = FALSE]
  /\ UNCHANGED <<types, cmd, rsp, invCmd, cacheVars, tlbVars, got, memVars, moveVars>>

-----------------------------------------------------------------------------
(* The exchange. *)

OnlyMoves == UNCHANGED <<types, nocVars, cacheVars, tlbVars, got, packet, nacks>>

MoveBegin ==
  /\ move = NoMove /\ moves < IF "AGAIN" \in types THEN MaxMoves ELSE 1
  /\ \E f, g \in Migrable : f < g /\ move' = [frames |-> {f, g}, todo |-> {holds[f], holds[g]},
                                              done |-> FALSE]
  /\ moves' = moves + 1
  /\ OnlyMoves /\ UNCHANGED <<memory, holds, home, listed, poisoned, unsent, awaited>>

Poison ==
  /\ Quiet /\ ~move.done
  /\ \E f \in move.frames \ poisoned : poisoned' = poisoned \cup {f}
  /\ OnlyMoves /\ UNCHANGED <<memory, holds, home, listed, move, unsent, awaited, moves>>

Partner(f) == CHOOSE g \in move.frames : g # f
BothPoisoned == move # NoMove /\ (move.done \/ move.frames \subseteq poisoned)

Exchange ==
  /\ BothPoisoned /\ ~move.done
  /\ holds' = [f \in Pages |-> IF f \in move.frames THEN holds[Partner(f)] ELSE holds[f]]
  /\ memory' = [a \in Addr |->
       IF Page(a) \in move.frames
       THEN memory[PageBase(Partner(Page(a))) + (a % PageWords)] ELSE memory[a]]
  /\ move' = [move EXCEPT !.done = TRUE]
  /\ OnlyMoves /\ UNCHANGED <<home, listed, poisoned, unsent, awaited, moves>>

UpdatePageTable ==
  /\ BothPoisoned
  /\ \E v \in move.todo :
       /\ home' = [home EXCEPT ![v] = Partner(home[v])]
       /\ listed' = listed \ {v}
       /\ unsent' = unsent \cup ({v} \cap listed)
       /\ awaited' = awaited \cup ({v} \cap listed)
       /\ move' = [move EXCEPT !.todo = @ \ {v}]
  /\ OnlyMoves /\ UNCHANGED <<memory, holds, poisoned, moves>>

SendTlbInval == \E v \in unsent : SendInval(TRUE, v) /\ unsent' = unsent \ {v}

(* The page that left the frame is the one that its partner holds. *)
Unpoison ==
  /\ move.done
  /\ \E f \in poisoned :
       /\ holds[Partner(f)] \notin move.todo \cup awaited
       /\ poisoned' = poisoned \ {f}
       /\ move' = IF poisoned = {f} THEN NoMove ELSE move
  /\ OnlyMoves /\ UNCHANGED <<memory, holds, home, listed, unsent, awaited, moves>>

Next ==
  \/ CpuRequest \/ FetchRequest \/ CacheStep
  \/ MemTakeRead \/ MemAnswerRead \/ MemTakeWrite \/ MemTlbMiss \/ MemTlbAck
  \/ MemInval \/ MemTakeAck
  \/ MoveBegin \/ Poison \/ Exchange \/ UpdatePageTable \/ SendTlbInval \/ Unpoison

Spec == Init /\ [][Next]_vars

(* The clock ticks, cells arrive, memories serve, an exchange that began   *)
(* goes on.  Neither exchanges nor invalidations of lines need begin, and  *)
(* nothing bounds the latter.                                              *)
RspArrives == rsp[P] # NoCell /\ rsp' = [rsp EXCEPT ![P] = NoCell]
InvArrives == invCmd[P] # NoBlock /\ iv[P].fsm = "INV_IDLE" /\ CacheStep /\ iv'[P].fsm # "INV_IDLE"
Fairness ==
  /\ WF_vars(CacheStep) /\ WF_rsp(RspArrives) /\ WF_vars(InvArrives)
  /\ WF_vars(MemTakeRead \/ MemAnswerRead \/ MemTakeWrite \/ MemTlbMiss \/ MemTlbAck)
  /\ WF_vars(MemTakeAck) /\ SF_vars(Poison) /\ SF_vars(SendTlbInval)
  /\ WF_vars(Exchange \/ UpdatePageTable \/ Unpoison)

FairSpec == Spec /\ Fairness
=============================================================================
