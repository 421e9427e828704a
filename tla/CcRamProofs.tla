---------------------------- MODULE CcRamProofs ----------------------------
(***************************************************************************)
(* Proofs about the memory controller for any number of initiators, of     *)
(* caches and of words, any length of the lines and of the bursts.         *)
(*                                                                         *)
(* A clock cycle is the conjunction of one step of INV_FSM and one step of *)
(* RAM_FSM.  The lemmas say what each of the two does to its own registers *)
(* and to the conjuncts of the inductive invariant (CcRamProps!Inductive)  *)
(* that mention them; a theorem then combines them.                        *)
(***************************************************************************)
EXTENDS CcRamProps, FiniteSetTheorems, WellFoundedInduction, TLAPS

-----------------------------------------------------------------------------
(* The address map and the directory. *)

(* The elements of the sets that the initial state uses. *)
LEMMA ConstantFacts ==
  /\ Procs \subseteq Srcs /\ 0 \in Procs /\ 0 \in Srcs
  /\ 0 \in Addr /\ Block(0) \in Blocks
  /\ Zero \in Word
  /\ Procs \subseteq Nat /\ Addr \subseteq Nat
  /\ \A a \in Addr : Block(a) \in Blocks
BY NbProcsAssumption, NbSrcsAssumption, NbWordsAssumption, ValAssumption
   DEF Procs, Srcs, Addr, Blocks, Zero, Word

(* A store under any byte enable leaves a word. *)
LEMMA MergeIsWord ==
  ASSUME NEW old \in Word, NEW d \in Word, NEW be
  PROVE  Merge(old, d, be) \in Word
BY DEF Merge, Word

LEMMA LeastExists ==
  ASSUME NEW S \in SUBSET Nat, S # {}
  PROVE  \E p \in S : \A q \in S : p <= q
<1> DEFINE R == OpToRel(<, Nat)
<1>1. IsWellFoundedOn(R, Nat)
  BY NatLessThanWellFounded
<1>2. \E x \in S : \A y \in S : ~(<<y, x>> \in R)
  <2> HIDE DEF R
  <2> QED BY <1>1, WFMin
<1>3. \A x, y \in S : <<y, x>> \in R <=> y < x
  BY DEF OpToRel
<1>4. \A x, y \in S : ~(y < x) => x <= y
  OBVIOUS
<1> HIDE DEF R
<1> QED BY <1>2, <1>3, <1>4

(* Get_next_id (soclib_directory.cpp) returns a bit that is set: Reset_p   *)
(* that follows it makes the invalidation round progress.                  *)
LEMMA NextIdIsPresent ==
  ASSUME NEW S \in SUBSET Procs, S # {}
  PROVE  NextId(S) \in S
<1>1. S \subseteq Nat
  BY ConstantFacts
<1> QED BY <1>1, LeastExists DEF NextId

-----------------------------------------------------------------------------
(* Types.  The registers of INV_FSM, and those of RAM_FSM and the target.  *)

InvTypeOK ==
  /\ ramInvFsm \in RamInvStates
  /\ blockState \subseteq Procs
  /\ invBlock \in Blocks
  /\ invTarget \in Procs
  /\ invCmd \in [Procs -> Blocks \cup {NoBlock}]
  /\ invRsp \in [Procs -> BOOLEAN]

TargetTypeOK ==
  /\ cmd \in [Srcs -> CmdCell \cup {NoCell}]
  /\ rsp \in [Srcs -> RspCell \cup {NoCell}]
  /\ ramFsm \in RamStates
  /\ directory \in [Blocks -> SUBSET Procs]
  /\ sav \in [src : Srcs, block : Blocks]
  /\ mem \in [Addr -> Word]
  /\ link \in [Srcs -> Addr \cup {NoLink}]
  /\ mode \in Modes
  /\ cur \in [src : Srcs, cmd : Cmds, addr : Nat, eop : BOOLEAN,
              data : Word, ok : BOOLEAN]
  /\ cellsToGo \in Nat
  /\ sendRsp \in BOOLEAN

LEMMA TypeSplit == RamTypeOK <=> InvTypeOK /\ TargetTypeOK
BY DEF RamTypeOK, NocTypeOK, InvTypeOK, TargetTypeOK

LEMMA InitTypes == Init => RamTypeOK /\ OutTypeOK
<1> SUFFICES ASSUME Init PROVE RamTypeOK /\ OutTypeOK
  OBVIOUS
<1> USE ConstantFacts DEF Init, NocInit, RamInit
<1>1. NocTypeOK
  BY DEF NocTypeOK
<1>2. InvTypeOK
  BY DEF InvTypeOK, RamInvStates
<1>3. cur \in [src : Srcs, cmd : Cmds, addr : Nat, eop : BOOLEAN, data : Word, ok : BOOLEAN]
  BY DEF Cmds
<1>4. TargetTypeOK
  BY <1>1, <1>3 DEF NocTypeOK, TargetTypeOK, RamStates, Modes
<1>5. OutTypeOK
  BY DEF OutTypeOK, Idle, Cmds
<1> QED BY <1>2, <1>4, <1>5, TypeSplit

(* INV_FSM keeps its registers typed, and takes only caches that are in    *)
(* the block state.                                                        *)
LEMMA SendNextType ==
  ASSUME blockState \subseteq Procs, blockState # {}, SendNextInval
  PROVE  /\ ramInvFsm' \in RamInvStates
         /\ blockState' \subseteq Procs
         /\ invTarget' \in Procs
BY NextIdIsPresent DEF SendNextInval, RamInvStates

LEMMA InvFsmType ==
  ASSUME InvTypeOK, TargetTypeOK, RoundInv, InvFsm
  PROVE  InvTypeOK'
<1> USE DEF InvTypeOK
<1>1. CASE InvIdleKick
  <2>1. blockState # {}
    BY <1>1 DEF InvIdleKick, RoundInv
  <2> QED BY <1>1, <2>1, SendNextType DEF InvIdleKick
<1>2. CASE InvIdle
  <2>1. sav.block \in Blocks /\ OtherSharers(sav.src, sav.block) \subseteq Procs
    BY DEF TargetTypeOK, OtherSharers
  <2> QED BY <1>2, <2>1 DEF InvIdle
<1>3. CASE InvReq
  BY <1>3 DEF InvReq, RamInvStates
<1>4. CASE InvRspWait
  BY <1>4 DEF InvRspWait, invFsmVars
<1>5. CASE InvRspTake
  <2>1. invRsp' \in [Procs -> BOOLEAN]
    BY <1>5 DEF InvRspTake
  <2>2. CASE blockState # {}
    BY <1>5, <2>1, <2>2, SendNextType DEF InvRspTake
  <2>3. CASE blockState = {}
    BY <1>5, <2>1, <2>3 DEF InvRspTake, RamInvStates
  <2> QED BY <2>2, <2>3
<1> QED BY <1>1, <1>2, <1>3, <1>4, <1>5 DEF InvFsm

-----------------------------------------------------------------------------
(* handle_one(), on_read() and on_write(). *)

(* The registers that handle_one() writes. *)
HandledTypeOK ==
  /\ mem \in [Addr -> Word]
  /\ link \in [Srcs -> Addr \cup {NoLink}]
  /\ ramFsm \in RamStates
  /\ sav \in [src : Srcs, block : Blocks]
  /\ cur \in [src : Srcs, cmd : Cmds, addr : Nat, eop : BOOLEAN,
              data : Word, ok : BOOLEAN]

LEMMA OnWriteType ==
  ASSUME TargetTypeOK, NEW s \in Srcs, NEW a \in Addr, NEW d \in Word, NEW be,
         OnWrite(s, a, d, be)
  PROVE  /\ mem' \in [Addr -> Word]
         /\ ramFsm' \in RamStates
         /\ sav' \in [src : Srcs, block : Blocks]
<1>1. Merge(mem[a], d, be) \in Word
  BY MergeIsWord DEF TargetTypeOK
<1>2. Block(a) \in Blocks
  BY ConstantFacts
<1> QED BY <1>1, <1>2 DEF OnWrite, TargetTypeOK, RamStates, Save

LEMMA OnReadType ==
  ASSUME TargetTypeOK, NEW s \in Srcs, NEW a \in Addr, NEW eop,
         OnRead(s, a, eop)
  PROVE  /\ mem' = mem
         /\ ramFsm' \in RamStates
         /\ sav' \in [src : Srcs, block : Blocks]
<1>1. Block(a) \in Blocks
  BY ConstantFacts
<1> QED BY <1>1 DEF OnRead, TargetTypeOK, RamStates, Save

LEMMA AccessDoneType ==
  ASSUME TargetTypeOK, NEW a \in Addr
  PROVE  AccessDone(a) \in [Srcs -> Addr \cup {NoLink}]
BY DEF AccessDone, TargetTypeOK

LEMMA HandleWriteType ==
  ASSUME TargetTypeOK, NEW s \in Srcs, NEW a \in Addr, NEW d \in Word, NEW be,
         NEW eop \in BOOLEAN, HandleWrite(s, a, d, be, eop)
  PROVE  HandledTypeOK'
<1>1. cur' \in [src : Srcs, cmd : Cmds, addr : Nat, eop : BOOLEAN, data : Word, ok : BOOLEAN]
  BY ConstantFacts DEF HandleWrite, Answer, Cmds
<1> QED BY <1>1, OnWriteType, AccessDoneType DEF HandleWrite, HandledTypeOK

LEMMA HandleReadType ==
  ASSUME TargetTypeOK, NEW s \in Srcs, NEW a \in Addr, NEW eop \in BOOLEAN,
         NEW c \in Cmds, HandleRead(s, c, a, eop)
  PROVE  HandledTypeOK'
<1>1. mem[a] \in Word
  BY DEF TargetTypeOK
<1>2. cur' \in [src : Srcs, cmd : Cmds, addr : Nat, eop : BOOLEAN, data : Word, ok : BOOLEAN]
  BY <1>1, ConstantFacts DEF HandleRead, Answer
<1>3. link' \in [Srcs -> Addr \cup {NoLink}]
  BY DEF HandleRead, DoLoadLinked, TargetTypeOK
<1>4. OnRead(s, a, eop)
  BY DEF HandleRead
<1>5. mem' \in [Addr -> Word]
  BY <1>4, OnReadType DEF TargetTypeOK
<1> QED BY <1>2, <1>3, <1>4, <1>5, OnReadType DEF HandledTypeOK

LEMMA HandleStoreCondType ==
  ASSUME TargetTypeOK, NEW s \in Srcs, NEW a \in Addr, NEW d \in Word, NEW be,
         NEW eop \in BOOLEAN, HandleStoreCond(s, a, d, be, eop)
  PROVE  HandledTypeOK'
<1>1. cur' \in [src : Srcs, cmd : Cmds, addr : Nat, eop : BOOLEAN, data : Word, ok : BOOLEAN]
  <2>1. PICK ok \in BOOLEAN : Answer(s, "STORE_COND", a, eop, Zero, ok)
    BY DEF HandleStoreCond
  <2> QED BY <2>1, ConstantFacts DEF Answer, Cmds
<1>2. CASE IsAtomic(a, s)
  BY <1>1, <1>2, OnWriteType, AccessDoneType DEF HandleStoreCond, HandledTypeOK
<1>3. CASE ~IsAtomic(a, s)
  BY <1>1, <1>3 DEF HandleStoreCond, HandledTypeOK, TargetTypeOK
<1> QED BY <1>2, <1>3

(* What handle_one() may make of RAM_FSM: a read updates the directory     *)
(* only for a cache, a write starts a round only if another cache has its  *)
(* presence bit set.                                                       *)
Handled(s, a) ==
  \/ ramFsm' = ramFsm /\ sav' = sav
  \/ ramFsm' = "RAM_DIRUPD" /\ s \in Procs /\ sav' = [src |-> s, block |-> Block(a)]
  \/ ramFsm' = "RAM_DATA_INVAL" /\ OtherSharers(s, Block(a)) # {}
     /\ sav' = [src |-> s, block |-> Block(a)]

LEMMA HandleEffect ==
  ASSUME NEW s, NEW a, NEW c, NEW d, NEW be, NEW eop,
         \/ HandleWrite(s, a, d, be, eop)
         \/ HandleStoreCond(s, a, d, be, eop)
         \/ HandleRead(s, c, a, eop)
  PROVE  Handled(s, a)
BY DEF HandleWrite, HandleStoreCond, HandleRead, OnWrite, OnRead, Save, Handled

-----------------------------------------------------------------------------
(* The target state machine. *)

LEMMA DeliverRspType ==
  ASSUME TargetTypeOK, DeliverRsp
  PROVE  rsp' \in [Srcs -> RspCell \cup {NoCell}]
<1>1. [data |-> cur.data, ok |-> cur.ok, error |-> FALSE, eop |-> cur.eop] \in RspCell
  BY DEF TargetTypeOK, RspCell
<1> QED BY <1>1 DEF DeliverRsp, TargetTypeOK

LEMMA TakeCmdType ==
  ASSUME TargetTypeOK, NEW s \in Srcs, TakeCmd(s)
  PROVE  cmd' \in [Srcs -> CmdCell \cup {NoCell}]
BY DEF TakeCmd, TargetTypeOK

LEMMA CmdCellType ==
  ASSUME TargetTypeOK, NEW s \in Srcs, cmd[s] # NoCell
  PROVE  /\ cmd[s] \in CmdCell
         /\ cmd[s].cmd \in Cmds /\ cmd[s].addr \in Addr
         /\ cmd[s].data \in Word /\ cmd[s].cells \in Nat \ {0}
         /\ cmd[s].eop \in BOOLEAN
BY DEF TargetTypeOK, CmdCell

LEMMA AcceptCmdType ==
  ASSUME TargetTypeOK, NEW s \in Srcs, AcceptCmd(s), UNCHANGED directory
  PROVE  TargetTypeOK'
<1> DEFINE c == cmd[s]
<1>1. c \in CmdCell /\ c.cmd \in Cmds /\ c.addr \in Addr /\ c.data \in Word
      /\ c.cells \in Nat \ {0} /\ c.eop \in BOOLEAN
  BY CmdCellType DEF AcceptCmd
<1>2. cmd' \in [Srcs -> CmdCell \cup {NoCell}] /\ rsp' = rsp
  BY TakeCmdType DEF AcceptCmd
<1>3. \/ HandleRead(s, c.cmd, c.addr, c.cells = 1)
      \/ HandleRead(s, c.cmd, c.addr, c.eop)
      \/ HandleWrite(s, c.addr, c.data, c.be, TRUE)
      \/ HandleWrite(s, c.addr, c.data, c.be, FALSE)
      \/ HandleStoreCond(s, c.addr, c.data, c.be, c.eop)
  BY DEF AcceptCmd
<1>4. HandledTypeOK'
  <2> HIDE DEF c
  <2> QED BY <1>1, <1>3, HandleReadType, HandleWriteType, HandleStoreCondType
<1>5. mode' \in Modes
  BY DEF AcceptCmd, Modes
<1>6. cellsToGo' \in Nat
  <2>1. cellsToGo' \in {c.cells, cellsToGo, 1}
    BY DEF AcceptCmd
  <2> QED BY <1>1, <2>1 DEF TargetTypeOK
<1>7. sendRsp' \in BOOLEAN
  BY DEF AcceptCmd, TargetTypeOK
<1> QED BY <1>2, <1>4, <1>5, <1>6, <1>7 DEF TargetTypeOK, HandledTypeOK

LEMMA SizedReadNextType ==
  ASSUME TargetTypeOK, TargetMatches, SizedReadNext, UNCHANGED directory
  PROVE  TargetTypeOK'
<1>1. rsp' \in [Srcs -> RspCell \cup {NoCell}] /\ cmd' = cmd
  BY DeliverRspType DEF SizedReadNext
<1>2. cellsToGo > 0 /\ cur.addr + cellsToGo <= NbWords
  BY DEF SizedReadNext, TargetMatches, ReadingLine
<1>3. mode' \in Modes /\ cellsToGo' \in Nat /\ sendRsp' \in BOOLEAN
  <2>1. cellsToGo' \in Nat
    BY <1>2 DEF SizedReadNext, TargetTypeOK
  <2>2. mode' \in Modes /\ sendRsp' \in BOOLEAN
    BY DEF SizedReadNext, TargetTypeOK, Modes
  <2> QED BY <2>1, <2>2
<1>4. CASE cellsToGo # 1
  <2>1. cur.addr + 1 \in Addr
    BY <1>2, <1>4, NbWordsAssumption DEF TargetTypeOK, Addr
  <2>2. HandleRead(cur.src, cur.cmd, cur.addr + 1, cellsToGo = 2)
    BY <1>4 DEF SizedReadNext
  <2>3. cur.src \in Srcs /\ cur.cmd \in Cmds
    BY DEF TargetTypeOK
  <2>4. HandledTypeOK'
    BY <2>1, <2>2, <2>3, HandleReadType
  <2> QED BY <1>1, <1>3, <2>4 DEF TargetTypeOK, HandledTypeOK
<1>5. CASE cellsToGo = 1
  <2> DEFINE next == cur.addr + 1
  <2>1. cur' = [cur EXCEPT !.addr = next, !.eop = FALSE]
    BY <1>5 DEF SizedReadNext
  <2>2. cur' \in [src : Srcs, cmd : Cmds, addr : Nat, eop : BOOLEAN, data : Word, ok : BOOLEAN]
    <3>1. next \in Nat
      BY DEF TargetTypeOK
    <3> HIDE DEF next
    <3> QED BY <2>1, <3>1 DEF TargetTypeOK
  <2>3. UNCHANGED <<mem, link, ramFsm, sav>>
    BY <1>5 DEF SizedReadNext
  <2> QED BY <1>1, <1>3, <2>2, <2>3 DEF TargetTypeOK
<1> QED BY <1>4, <1>5

LEMMA SizedWriteCellType ==
  ASSUME TargetTypeOK, OutTypeOK, PacketInv, SizedWriteCell, UNCHANGED directory
  PROVE  TargetTypeOK'
<1> DEFINE s == cur.src
           c == cmd[s]
<1>1. s \in Srcs
  BY DEF TargetTypeOK
<1>2. c \in CmdCell /\ c.data \in Word /\ c.eop \in BOOLEAN
  BY <1>1, CmdCellType DEF SizedWriteCell
<1>3. cur.addr + 1 \in Addr /\ cellsToGo > 1
  BY <1>1 DEF PacketInv, TargetMatches, WritingBurst, SizedWriteCell, OutTypeOK
<1>4. HandleWrite(s, cur.addr + 1, c.data, c.be, c.eop)
  BY DEF SizedWriteCell
<1>5. HandledTypeOK'
  <2> HIDE DEF c, s
  <2> QED BY <1>1, <1>2, <1>3, <1>4, HandleWriteType
<1>6. cmd' \in [Srcs -> CmdCell \cup {NoCell}] /\ rsp' = rsp
  BY <1>1, TakeCmdType DEF SizedWriteCell
<1>7. mode' \in Modes /\ cellsToGo' \in Nat /\ sendRsp' \in BOOLEAN
  BY <1>2, <1>3 DEF SizedWriteCell, TargetTypeOK, Modes
<1> QED BY <1>5, <1>6, <1>7 DEF TargetTypeOK, HandledTypeOK

LEMMA RamFsmType ==
  ASSUME TargetTypeOK, OutTypeOK, PacketInv, RoundInv, RamFsm
  PROVE  TargetTypeOK'
<1>1. CASE RamIdle
  <2>1. CASE \E s \in Srcs : AcceptCmd(s)
    BY <1>1, <2>1, AcceptCmdType DEF RamIdle
  <2>2. CASE TargetIdle \/ InoutQuery
    <3>1. DeliverRsp /\ AfterPeer \in BOOLEAN
      BY <2>2 DEF TargetIdle, InoutQuery, AfterPeer, TargetTypeOK
    <3> QED BY <1>1, <2>2, <3>1, DeliverRspType
            DEF RamIdle, TargetIdle, InoutQuery, TargetTypeOK, Modes
  <2>3. CASE SizedReadWait \/ SizedWriteWait
    BY <1>1, <2>3 DEF RamIdle, SizedReadWait, SizedWriteWait, targetVars, TargetTypeOK
  <2>4. CASE SizedReadNext
    BY <1>1, <2>4, SizedReadNextType DEF RamIdle, PacketInv
  <2>5. CASE SizedWriteCell
    BY <1>1, <2>5, SizedWriteCellType DEF RamIdle
  <2> QED BY <1>1, <2>1, <2>2, <2>3, <2>4, <2>5 DEF RamIdle, TargetFsm
<1>2. CASE RamDirUpd
  BY <1>2 DEF RamDirUpd, RoundInv, TargetTypeOK, targetVars, RamStates
<1>3. CASE RamDataInval
  BY <1>3 DEF RamDataInval, Left, TargetTypeOK, targetVars, RamStates
<1>4. CASE RamDataInvalWait
  BY <1>4 DEF RamDataInvalWait, TargetTypeOK, targetVars, RamStates
<1> QED BY <1>1, <1>2, <1>3, <1>4 DEF RamFsm

-----------------------------------------------------------------------------
(* Invalidation rounds: RAM_FSM hands a non empty set of caches to an idle *)
(* INV_FSM, stays one cycle in RAM_DATA_INVAL_WAIT, and a new round cannot *)
(* start before the last acknowledgement of the one before.                *)

LEMMA TargetEffect ==
  ASSUME TargetTypeOK, TargetFsm
  PROVE  \E s \in Srcs, a \in Nat : Handled(s, a)
<1>1. cur.src \in Srcs /\ cur.addr + 1 \in Nat
  BY DEF TargetTypeOK
<1>2. CASE \E s \in Srcs : AcceptCmd(s)
  <2>1. PICK s \in Srcs : AcceptCmd(s)
    BY <1>2
  <2> DEFINE c == cmd[s]
  <2>2. c.addr \in Nat
    BY <2>1, CmdCellType, ConstantFacts DEF AcceptCmd
  <2>3. \/ HandleRead(s, c.cmd, c.addr, c.cells = 1)
        \/ HandleRead(s, c.cmd, c.addr, c.eop)
        \/ HandleWrite(s, c.addr, c.data, c.be, TRUE)
        \/ HandleWrite(s, c.addr, c.data, c.be, FALSE)
        \/ HandleStoreCond(s, c.addr, c.data, c.be, c.eop)
    BY <2>1 DEF AcceptCmd
  <2>4. Handled(s, c.addr)
    <3> HIDE DEF c
    <3> QED BY <2>3, HandleEffect
  <2> QED BY <2>2, <2>4
<1>3. CASE TargetIdle \/ InoutQuery \/ SizedReadWait \/ SizedWriteWait
  <2>1. UNCHANGED <<ramFsm, sav>>
    BY <1>3 DEF TargetIdle, InoutQuery, SizedReadWait, SizedWriteWait
  <2> QED BY <1>1, <2>1 DEF Handled
<1>4. CASE SizedReadNext
  <2>1. Handled(cur.src, cur.addr + 1)
    BY <1>4, HandleEffect DEF SizedReadNext, Handled
  <2> QED BY <1>1, <2>1
<1>5. CASE SizedWriteCell
  <2>1. Handled(cur.src, cur.addr + 1)
    BY <1>5, HandleEffect DEF SizedWriteCell
  <2> QED BY <1>1, <2>1
<1> QED BY <1>2, <1>3, <1>4, <1>5 DEF TargetFsm

(* Out of a round that is starting, INV_FSM is idle only with nobody left  *)
(* to be told.                                                             *)
LEMMA InvFsmOutcome ==
  ASSUME RoundInv, InvFsm,
         ramFsm = "RAM_DATA_INVAL" => ramInvFsm # "RAM_INV_IDLE"
  PROVE  ramInvFsm' = "RAM_INV_IDLE" => blockState' = {}
<1>1. CASE InvIdleKick
  BY <1>1 DEF InvIdleKick, SendNextInval
<1>2. CASE InvIdle
  BY <1>2 DEF InvIdle, RoundInv
<1>3. CASE InvReq
  BY <1>3 DEF InvReq
<1>4. CASE InvRspWait
  BY <1>4 DEF InvRspWait, invFsmVars
<1>5. CASE InvRspTake
  BY <1>5 DEF InvRspTake, SendNextInval
<1> QED BY <1>1, <1>2, <1>3, <1>4, <1>5 DEF InvFsm

LEMMA RoundStep ==
  ASSUME TargetTypeOK, RoundInv, RamCycle
  PROVE  RoundInv'
<1>1. CASE RamIdle
  <2>1. ramInvFsm' = "RAM_INV_IDLE" => blockState' = {}
    BY <1>1, InvFsmOutcome DEF RamCycle, RamIdle
  <2>2. PICK s \in Srcs, a \in Nat : Handled(s, a)
    BY <1>1, TargetEffect DEF RamIdle
  <2> QED BY <1>1, <2>1, <2>2 DEF RamIdle, Handled, RoundInv, OtherSharers
<1>2. CASE RamDirUpd
  <2>1. ramInvFsm' = "RAM_INV_IDLE" => blockState' = {}
    BY <1>2, InvFsmOutcome DEF RamCycle, RamDirUpd
  <2> QED BY <1>2, <2>1 DEF RamDirUpd, RoundInv
<1>3. CASE RamDataInval /\ ramInvFsm = "RAM_INV_IDLE"
  <2>1. InvIdle
    BY <1>3 DEF RamCycle, InvFsm, RamDataInval, InvIdleKick, InvReq, InvRspWait, InvRspTake
  <2>2. blockState' = OtherSharers(sav.src, sav.block) /\ ramInvFsm' = ramInvFsm
    BY <1>3, <2>1 DEF InvIdle, RamDataInval
  <2> QED BY <1>3, <2>2 DEF RamDataInval, RoundInv
<1>4. CASE RamDataInval /\ ramInvFsm # "RAM_INV_IDLE"
  <2>1. ramInvFsm' = "RAM_INV_IDLE" => blockState' = {}
    BY <1>4, InvFsmOutcome DEF RamCycle
  <2>2. UNCHANGED <<directory, ramFsm, sav>>
    BY <1>4 DEF RamDataInval
  <2> QED BY <1>4, <2>1, <2>2 DEF RamDataInval, RoundInv, OtherSharers
<1>5. CASE RamDataInvalWait
  <2>1. ramInvFsm' = "RAM_INV_IDLE" => blockState' = {}
    BY <1>5, InvFsmOutcome DEF RamCycle, RamDataInvalWait
  <2> QED BY <1>5, <2>1 DEF RamDataInvalWait, RoundInv
<1> QED BY <1>1, <1>2, <1>3, <1>4, <1>5 DEF RamCycle, RamFsm

-----------------------------------------------------------------------------
(* Packets.  What holds of an initiator that a step does not concern. *)

PacketOK(s) == PacketFits(s) /\ CmdMatches(s) /\ RspMatches(s)

LEMMA OtherPacket ==
  ASSUME NEW r \in Srcs, PacketOK(r),
         cmd'[r] = cmd[r], rsp'[r] = rsp[r], out'[r] = out[r],
         AtTarget(r)' <=> AtTarget(r),
         AtTarget(r) => mode' = mode
  PROVE  PacketOK(r)'
BY DEF PacketOK, PacketFits, CmdMatches, RspMatches

(* What handle_one() leaves in m_current_cmd. *)
LEMMA HandleCurrent ==
  ASSUME NEW s, NEW a, NEW c, NEW d, NEW be, NEW eop,
         \/ HandleWrite(s, a, d, be, eop) /\ c = "WRITE"
         \/ HandleStoreCond(s, a, d, be, eop) /\ c = "STORE_COND"
         \/ HandleRead(s, c, a, eop)
  PROVE  cur'.src = s /\ cur'.cmd = c /\ cur'.addr = a /\ cur'.eop = eop
BY DEF HandleWrite, HandleStoreCond, HandleRead, Answer

(* An initiator that the target serves awaits an answer. *)
LEMMA ServedAwaits ==
  ASSUME TargetTypeOK, OutTypeOK, TargetMatches, NEW s \in Srcs, AtTarget(s)
  PROVE  out[s].toRecv > 0
<1>1. cur.src = s /\ cellsToGo \in Nat /\ mode \in Modes
  BY DEF TargetTypeOK, AtTarget
<1>2. CASE mode = "SIZED_READ"
  BY <1>1, <1>2 DEF TargetMatches, ReadingLine
<1>3. CASE mode = "SIZED_WRITE"
  BY <1>1, <1>3 DEF TargetMatches, WritingBurst
<1>4. CASE mode \in {"IDLE", "INOUT_QUERY"}
  BY <1>1, <1>4 DEF TargetMatches, Answering, AtTarget
<1> QED BY <1>1, <1>2, <1>3, <1>4 DEF Modes

LEMMA AcceptCmdPackets ==
  ASSUME TargetTypeOK, OutTypeOK, PacketInv, NEW s \in Srcs, AcceptCmd(s), UNCHANGED out
  PROVE  PacketInv'
<1> DEFINE c == cmd[s]
<1>1. /\ mode = "IDLE" /\ ~sendRsp /\ c # NoCell /\ rsp' = rsp
      /\ cmd' = [cmd EXCEPT ![s] = NoCell]
  BY DEF AcceptCmd, CmdAck, TakeCmd
<1>2. cmd'[s] = NoCell /\ \A r \in Srcs \ {s} : cmd'[r] = cmd[r]
  BY <1>1 DEF TargetTypeOK
<1>3. c.cmd \in Cmds /\ c.addr \in Addr /\ c.cells \in Nat \ {0} /\ c.eop \in BOOLEAN
  BY <1>1, CmdCellType
<1>4. PacketOK(s)
  BY DEF PacketInv, PacketOK
<1>5. /\ rsp[s] = NoCell /\ c.cmd = out[s].cmd /\ c.addr = out[s].addr
      /\ c.eop <=> out[s].toSend = 0
      /\ c.cmd = "READ" => out[s].toRecv = c.cells /\ c.addr + c.cells <= NbWords
      /\ c.cmd # "READ" => out[s].toRecv = 1
      /\ c.cmd = "WRITE" => c.cells = out[s].toSend + 1
      /\ c.cmd # "WRITE" => out[s].toSend = 0
  BY <1>1, <1>4 DEF PacketOK, CmdMatches, PacketFits, AtTarget, OutTypeOK
<1>6. mode' # "IDLE" /\ cur'.src = s
  BY DEF AcceptCmd, HandleRead, HandleWrite, HandleStoreCond, Answer
<1>7. \A r \in Srcs \ {s} : PacketOK(r)'
  BY <1>1, <1>2, <1>6, OtherPacket DEF PacketInv, PacketOK, AtTarget
<1>8. CASE c.cmd = "READ"
  <2>1. /\ mode' = "SIZED_READ" /\ sendRsp' /\ cellsToGo' = c.cells
        /\ HandleRead(s, c.cmd, c.addr, c.cells = 1)
    BY <1>8 DEF AcceptCmd
  <2>4. cur'.cmd = "READ" /\ cur'.addr = c.addr /\ (cur'.eop <=> c.cells = 1)
    <3> DEFINE last == c.cells = 1
    <3>1. cur'.cmd = c.cmd /\ cur'.addr = c.addr /\ cur'.eop = last
      <4> HIDE DEF c
      <4> QED BY <2>1, HandleCurrent
    <3> HIDE DEF c
    <3> QED BY <1>8, <3>1, Zenon
  <2>5. out[s].toSend = 0 /\ rsp'[s] = NoCell /\ out[s].toRecv = c.cells
        /\ c.addr + c.cells <= NbWords
    BY <1>1, <1>5, <1>8
  <2>2. ReadingLine(s)'
    <3> HIDE DEF c
    <3> QED BY <1>2, <1>3, <2>1, <2>4, <2>5 DEF ReadingLine
  <2>3. PacketOK(s)'
    BY <1>1, <1>2, <1>4, <1>5, <1>8 DEF PacketOK, PacketFits, CmdMatches, RspMatches
  <2> QED BY <1>6, <1>7, <2>1, <2>2, <2>3 DEF PacketInv, PacketOK, TargetMatches
<1>9. CASE c.cmd = "WRITE" /\ ~c.eop
  <2>1. /\ mode' = "SIZED_WRITE" /\ ~sendRsp' /\ cellsToGo' = c.cells
        /\ cur'.addr = c.addr
    BY <1>1, <1>9 DEF AcceptCmd, HandleWrite, Answer
  <2>2. WritingBurst(s)'
    BY <1>1, <1>2, <1>3, <1>5, <1>9, <2>1 DEF WritingBurst, OutTypeOK
  <2>3. PacketOK(s)'
    BY <1>1, <1>2, <1>4, <1>5, <1>6, <1>9, <2>1
       DEF PacketOK, PacketFits, CmdMatches, RspMatches, AtTarget
  <2> QED BY <1>6, <1>7, <2>1, <2>2, <2>3 DEF PacketInv, PacketOK, TargetMatches
<1>10. CASE c.cmd \in {"LOCKED_READ", "STORE_COND"} \/ (c.cmd = "WRITE" /\ c.eop)
  <2>1. c.eop /\ out[s].toSend = 0 /\ out[s].toRecv = 1
    BY <1>5, <1>10
  <2>2. mode' = "INOUT_QUERY" /\ sendRsp' /\ cur'.eop
    <3>1. /\ mode' = "INOUT_QUERY" /\ sendRsp'
          /\ \/ HandleRead(s, c.cmd, c.addr, c.eop)
             \/ HandleWrite(s, c.addr, c.data, c.be, TRUE) /\ c.cmd = "WRITE"
             \/ HandleStoreCond(s, c.addr, c.data, c.be, c.eop) /\ c.cmd = "STORE_COND"
      BY <1>10 DEF AcceptCmd
    <3>2. cur'.eop \in {c.eop, TRUE}
      <4> HIDE DEF c
      <4> QED BY <3>1, HandleCurrent
    <3> QED BY <2>1, <3>1, <3>2
  <2>3. Answering(s)'
    BY <1>1, <1>2, <1>5, <2>1, <2>2 DEF Answering
  <2>4. PacketOK(s)'
    BY <1>1, <1>2, <1>4, <1>5, <2>1 DEF PacketOK, PacketFits, CmdMatches, RspMatches
  <2> QED BY <1>6, <1>7, <2>2, <2>3, <2>4 DEF PacketInv, PacketOK, TargetMatches
<1> QED BY <1>3, <1>8, <1>9, <1>10 DEF Cmds

(* The response that leaves. *)
LEMMA DeliverRspEffect ==
  ASSUME TargetTypeOK, DeliverRsp, PeerAccepted
  PROVE  /\ rsp'[cur.src] # NoCell
         /\ rsp'[cur.src].eop = cur.eop
         /\ \A r \in Srcs \ {cur.src} : rsp'[r] = rsp[r]
<1> DEFINE cell == [data |-> cur.data, ok |-> cur.ok, error |-> FALSE, eop |-> cur.eop]
<1>1. cell \in RspCell /\ cur.src \in Srcs
  BY DEF TargetTypeOK, RspCell
<1>2. rsp' = [rsp EXCEPT ![cur.src] = cell]
  BY DEF DeliverRsp
<1>3. rsp'[cur.src] = cell /\ \A r \in Srcs \ {cur.src} : rsp'[r] = rsp[r]
  BY <1>1, <1>2 DEF TargetTypeOK
<1>4. cell # NoCell /\ cell.eop = cur.eop
  BY <1>1, NoCellAssumption
<1> QED BY <1>3, <1>4

LEMMA LastRspPackets ==
  ASSUME TargetTypeOK, OutTypeOK, PacketInv, TargetIdle \/ InoutQuery, UNCHANGED out
  PROVE  PacketInv'
<1>0. PICK s \in Srcs : s = cur.src
  BY DEF TargetTypeOK
<1> USE <1>0
<1>1. s \in Srcs /\ cur' = cur /\ cmd' = cmd /\ out' = out /\ DeliverRsp /\ sendRsp' = AfterPeer
  BY DEF TargetIdle, InoutQuery, TargetTypeOK
<1>2. CASE sendRsp
  <2>1. Answering(s)
    BY <1>2 DEF PacketInv, TargetMatches, TargetIdle, InoutQuery
  <2>2. PeerAccepted /\ ~sendRsp' /\ mode' = "IDLE"
    BY <1>1, <2>1 DEF PeerAccepted, AfterPeer, Answering, TargetIdle, InoutQuery
  <2>3. /\ rsp'[s] # NoCell /\ rsp'[s].eop = cur.eop
        /\ \A r \in Srcs \ {s} : rsp'[r] = rsp[r]
    BY <1>1, <2>2, DeliverRspEffect
  <2>4. \A r \in Srcs \ {s} : PacketOK(r)'
    BY <1>1, <2>2, <2>3, OtherPacket DEF PacketInv, PacketOK, AtTarget
  <2>5. PacketOK(s)'
    <3>1. PacketFits(s)
      BY <1>1 DEF PacketInv
    <3> QED BY <1>1, <2>1, <2>2, <2>3, <3>1
            DEF PacketOK, PacketFits, CmdMatches, RspMatches, Answering, AtTarget
  <2> QED BY <2>2, <2>4, <2>5 DEF PacketInv, PacketOK, TargetMatches
<1>3. CASE ~sendRsp
  <2>1. mode = "IDLE"
    BY <1>3 DEF PacketInv, TargetMatches, TargetIdle, InoutQuery, Answering
  <2>2. rsp' = rsp /\ ~sendRsp' /\ mode' = "IDLE"
    BY <1>1, <1>3, <2>1 DEF DeliverRsp, PeerAccepted, AfterPeer, TargetIdle, InoutQuery
  <2>3. \A r \in Srcs : PacketOK(r)'
    BY <1>1, <1>3, <2>1, <2>2, OtherPacket DEF PacketInv, PacketOK, AtTarget
  <2> QED BY <2>2, <2>3 DEF PacketInv, PacketOK, TargetMatches
<1> QED BY <1>2, <1>3

LEMMA SizedReadNextPackets ==
  ASSUME TargetTypeOK, OutTypeOK, PacketInv, SizedReadNext, UNCHANGED out
  PROVE  PacketInv'
<1>0. PICK s \in Srcs : s = cur.src
  BY DEF TargetTypeOK
<1> USE <1>0
<1>1. s \in Srcs /\ cmd' = cmd /\ out' = out /\ DeliverRsp /\ mode = "SIZED_READ"
      /\ cellsToGo \in Nat /\ cellsToGo' = cellsToGo - 1
  BY DEF SizedReadNext, TargetTypeOK
<1>2. ReadingLine(s) /\ PacketOK(s)
  BY <1>1 DEF PacketInv, PacketOK, TargetMatches
<1>3. PeerAccepted /\ rsp[s] = NoCell
  BY <1>2 DEF SizedReadNext, AfterPeer, PeerAccepted, ReadingLine
<1>4. /\ rsp'[s] # NoCell /\ rsp'[s].eop = cur.eop
      /\ \A r \in Srcs \ {s} : rsp'[r] = rsp[r]
  BY <1>1, <1>3, DeliverRspEffect
<1>5. out[s].toRecv = cellsToGo /\ out[s].toSend = 0 /\ cmd[s] = NoCell
      /\ (cur.eop <=> cellsToGo = 1) /\ cellsToGo > 0 /\ cur.addr + cellsToGo <= NbWords
      /\ cur.cmd = "READ"
  BY <1>1, <1>2, <1>3 DEF ReadingLine
<1>6. rsp'[s].eop <=> cellsToGo = 1
  BY <1>4, <1>5
<1>7. cur'.src = s
  BY HandleCurrent DEF SizedReadNext, TargetTypeOK
<1>8. PacketFits(s)' /\ CmdMatches(s)'
  BY <1>1, <1>2, <1>5 DEF PacketOK, PacketFits, CmdMatches
<1>9. CASE cellsToGo # 1
  <2>1. /\ mode' = "SIZED_READ" /\ sendRsp'
        /\ HandleRead(s, cur.cmd, cur.addr + 1, cellsToGo = 2)
    BY <1>1, <1>9 DEF SizedReadNext
  <2>2. cur'.cmd = cur.cmd /\ cur'.addr = cur.addr + 1 /\ (cur'.eop <=> cellsToGo = 2)
    <3> DEFINE last == cellsToGo = 2
               next == cur.addr + 1
    <3>1. cur'.cmd = cur.cmd /\ cur'.addr = next /\ cur'.eop = last
      <4> HIDE DEF last, next
      <4> QED BY <2>1, HandleCurrent DEF last, next
    <3> QED BY <3>1, Zenon
  <2>3. ReadingLine(s)'
    <3>1. cur.addr \in Nat
      BY DEF TargetTypeOK
    <3> QED BY <1>1, <1>4, <1>5, <1>9, <2>1, <2>2, <3>1 DEF ReadingLine
  <2>4. RspMatches(s)'
    BY <1>1, <1>5, <1>6, <2>1 DEF RspMatches
  <2>5. \A r \in Srcs \ {s} : PacketOK(r)'
    BY <1>1, <1>4, <1>7, OtherPacket DEF PacketInv, PacketOK, AtTarget
  <2> QED BY <1>7, <1>8, <2>1, <2>3, <2>4, <2>5 DEF PacketInv, PacketOK, TargetMatches
<1>10. CASE cellsToGo = 1
  <2>1. mode' = "IDLE" /\ ~sendRsp'
    BY <1>10 DEF SizedReadNext
  <2>2. RspMatches(s)'
    BY <1>1, <1>5, <1>6, <1>10, <2>1 DEF RspMatches, AtTarget
  <2>3. \A r \in Srcs \ {s} : PacketOK(r)'
    BY <1>1, <1>4, <2>1, OtherPacket DEF PacketInv, PacketOK, AtTarget
  <2> QED BY <1>8, <2>1, <2>2, <2>3 DEF PacketInv, PacketOK, TargetMatches
<1> QED BY <1>9, <1>10

LEMMA SizedWriteCellPackets ==
  ASSUME TargetTypeOK, OutTypeOK, PacketInv, SizedWriteCell, UNCHANGED out
  PROVE  PacketInv'
<1>0. PICK s \in Srcs : s = cur.src
  BY DEF TargetTypeOK
<1> DEFINE c == cmd[s]
<1> USE <1>0
<1>1. /\ s \in Srcs /\ rsp' = rsp /\ out' = out /\ mode = "SIZED_WRITE" /\ c # NoCell
      /\ cmd' = [cmd EXCEPT ![s] = NoCell]
      /\ cellsToGo' = cellsToGo - 1 /\ cur.addr \in Nat /\ cellsToGo \in Nat
  BY DEF SizedWriteCell, TakeCmd, TargetTypeOK
<1>2. cmd'[s] = NoCell /\ \A r \in Srcs \ {s} : cmd'[r] = cmd[r]
  BY <1>1 DEF TargetTypeOK
<1>3. WritingBurst(s) /\ PacketOK(s)
  BY <1>1 DEF PacketInv, PacketOK, TargetMatches
<1>4. /\ rsp[s] = NoCell /\ ~sendRsp
      /\ out[s].cmd = "WRITE" /\ out[s].toRecv = 1 /\ out[s].toSend \in Nat
      /\ cur.addr + 1 = out[s].addr /\ cellsToGo = out[s].toSend + 2
      /\ c.eop <=> out[s].toSend = 0
  BY <1>1, <1>3 DEF WritingBurst, PacketOK, CmdMatches, OutTypeOK
<1>5. /\ cur'.src = s /\ cur'.addr = cur.addr + 1 /\ cur'.eop = c.eop
      /\ mode' = (IF c.eop THEN "IDLE" ELSE mode) /\ sendRsp' = c.eop
  <2>1. HandleWrite(s, cur.addr + 1, c.data, c.be, c.eop)
    BY DEF SizedWriteCell
  <2>2. cur'.src = s /\ cur'.addr = cur.addr + 1 /\ cur'.eop = c.eop
    BY <2>1 DEF HandleWrite, Answer
  <2> QED BY <2>2 DEF SizedWriteCell
<1>6. \A r \in Srcs \ {s} : PacketOK(r)'
  BY <1>1, <1>2, <1>5, OtherPacket DEF PacketInv, PacketOK, AtTarget
<1>7. CASE c.eop
  <2>1. Answering(s)' /\ mode' = "IDLE"
    BY <1>1, <1>2, <1>4, <1>5, <1>7 DEF Answering
  <2>2. PacketOK(s)'
    BY <1>1, <1>2, <1>3, <1>4, <1>7 DEF PacketOK, PacketFits, CmdMatches, RspMatches
  <2> QED BY <1>5, <1>6, <2>1, <2>2 DEF PacketInv, PacketOK, TargetMatches
<1>8. CASE ~c.eop
  <2>1. WritingBurst(s)' /\ mode' = "SIZED_WRITE" /\ ~sendRsp'
    BY <1>1, <1>2, <1>4, <1>5, <1>8 DEF WritingBurst
  <2>2. PacketOK(s)'
    BY <1>1, <1>2, <1>3, <1>4, <1>5, <2>1
       DEF PacketOK, PacketFits, CmdMatches, RspMatches, AtTarget
  <2> QED BY <1>5, <1>6, <2>1, <2>2 DEF PacketInv, PacketOK, TargetMatches
<1> QED BY <1>7, <1>8

LEMMA SamePackets ==
  ASSUME PacketInv, UNCHANGED <<targetVars, out>>
  PROVE  PacketInv'
<1> QED BY DEF PacketInv, PacketFits, CmdMatches, RspMatches, AtTarget, TargetMatches,
               Answering, ReadingLine, WritingBurst, targetVars

LEMMA RamFsmPackets ==
  ASSUME TargetTypeOK, OutTypeOK, PacketInv, RamFsm, UNCHANGED out
  PROVE  PacketInv'
<1>1. CASE RamIdle
  <2>1. CASE SizedReadWait \/ SizedWriteWait
    BY <2>1, SamePackets DEF SizedReadWait, SizedWriteWait
  <2> QED BY <1>1, <2>1, AcceptCmdPackets, LastRspPackets, SizedReadNextPackets,
             SizedWriteCellPackets DEF RamIdle, TargetFsm
<1>2. CASE RamDirUpd \/ RamDataInval \/ RamDataInvalWait
  BY <1>2, SamePackets DEF RamDirUpd, RamDataInval, RamDataInvalWait
<1> QED BY <1>1, <1>2 DEF RamFsm

-----------------------------------------------------------------------------
(* The directory and the holders of copies. *)

LEMMA ReadEffect ==
  ASSUME ramFsm = "RAM_IDLE", directory' = directory,
         NEW s, NEW c, NEW a, NEW eop, HandleRead(s, c, a, eop), eop, s \in Procs
  PROVE  \/ ramFsm' = "RAM_DIRUPD" /\ sav'.src = s /\ sav'.block = Block(a)
         \/ ramFsm' = "RAM_IDLE" /\ s \in directory'[Block(a)]
BY DEF HandleRead, OnRead, Save

LEMMA ReaderStep ==
  ASSUME TargetTypeOK, OutTypeOK, PacketInv, ReaderInv, RamFsm
  PROVE  ReaderInv'
<1> SUFFICES ASSUME mode' = "SIZED_READ", cur'.eop, cur'.src \in Procs
             PROVE  \/ /\ ramFsm' = "RAM_DIRUPD"
                       /\ sav'.src = cur'.src /\ sav'.block = Block(cur'.addr)
                    \/ ramFsm' = "RAM_IDLE" /\ cur'.src \in directory'[Block(cur'.addr)]
  BY DEF ReaderInv, Block
<1>1. CASE RamIdle
  <2>1. ramFsm = "RAM_IDLE" /\ directory' = directory /\ TargetFsm
    BY <1>1 DEF RamIdle
  <2>2. CASE \E s \in Srcs : AcceptCmd(s)
    <3>1. PICK s \in Srcs : AcceptCmd(s)
      BY <2>2
    <3> DEFINE c    == cmd[s]
               last == c.cells = 1
    <3>2. HandleRead(s, c.cmd, c.addr, last)
      BY <3>1 DEF AcceptCmd
    <3>3. cur'.src = s /\ cur'.addr = c.addr /\ cur'.eop = last
      <4> HIDE DEF c, last
      <4> QED BY <3>2, HandleCurrent
    <3> HIDE DEF c, last
    <3> QED BY <2>1, <3>2, <3>3, ReadEffect
  <2>3. CASE TargetIdle \/ InoutQuery
    BY <2>3 DEF TargetIdle, InoutQuery
  <2>4. CASE SizedReadWait
    BY <2>1, <2>4 DEF SizedReadWait, ReaderInv, targetVars
  <2>5. CASE SizedReadNext
    <3>1. cellsToGo # 1
      BY <2>5 DEF SizedReadNext
    <3> DEFINE next == cur.addr + 1
               last == cellsToGo = 2
    <3>2. HandleRead(cur.src, cur.cmd, next, last)
      BY <2>5, <3>1 DEF SizedReadNext
    <3>3. cur'.src = cur.src /\ cur'.addr = next /\ cur'.eop = last
      <4> HIDE DEF next, last
      <4> QED BY <3>2, HandleCurrent
    <3> HIDE DEF next, last
    <3> QED BY <2>1, <3>2, <3>3, ReadEffect
  <2>6. CASE SizedWriteWait \/ SizedWriteCell
    BY <2>6 DEF SizedWriteWait, SizedWriteCell, targetVars
  <2> QED BY <2>1, <2>2, <2>3, <2>4, <2>5, <2>6 DEF TargetFsm
<1>2. CASE RamDirUpd
  <2>1. mode' = mode /\ cur' = cur /\ ramFsm = "RAM_DIRUPD" /\ ramFsm' = "RAM_IDLE"
        /\ directory' = [directory EXCEPT ![sav.block] = @ \cup {sav.src}]
    BY <1>2 DEF RamDirUpd, targetVars
  <2>2. sav.src = cur.src /\ sav.block = Block(cur.addr) /\ sav.block \in Blocks
    BY <2>1 DEF ReaderInv, TargetTypeOK
  <2>3. sav.src \in directory'[sav.block]
    BY <2>1, <2>2 DEF TargetTypeOK
  <2> QED BY <2>1, <2>2, <2>3
<1>3. CASE RamDataInval \/ RamDataInvalWait
  <2>1. /\ mode' = mode /\ cur' = cur
        /\ ramFsm \in {"RAM_DATA_INVAL", "RAM_DATA_INVAL_WAIT"}
    BY <1>3 DEF RamDataInval, RamDataInvalWait, targetVars
  <2> QED BY <2>1 DEF ReaderInv
<1> QED BY <1>1, <1>2, <1>3 DEF RamFsm

(* An invalidation that is pending stays so until the cache acknowledges.  *)
LEMMA PendingStays ==
  ASSUME InvTypeOK, RoundInv, InvFsm, NEW p \in Procs, NEW b \in Blocks, InvPending(p, b)
  PROVE  InvPending(p, b)'
<1> USE DEF InvTypeOK, InvPending
<1>1. CASE InvIdleKick
  BY <1>1 DEF InvIdleKick, SendNextInval
<1>2. CASE InvIdle
  BY <1>2 DEF InvIdle, RoundInv
<1>3. CASE InvReq
  BY <1>3, NoBlockAssumption DEF InvReq
<1>4. CASE InvRspWait
  BY <1>4 DEF InvRspWait, invFsmVars
<1>5. CASE InvRspTake
  BY <1>5 DEF InvRspTake, SendNextInval
<1> QED BY <1>1, <1>2, <1>3, <1>4, <1>5 DEF InvFsm

(* A presence bit is cleared only with an invalidation for the cache.      *)
LEMMA BitClearedIsPending ==
  ASSUME TargetTypeOK, InvTypeOK, RoundInv, RamCycle,
         NEW p \in Procs, NEW b \in Blocks, p \in directory[b]
  PROVE  p \in directory'[b] \/ InvPending(p, b)'
<1>1. CASE RamIdle \/ RamDataInvalWait
  BY <1>1 DEF RamIdle, RamDataInvalWait
<1>2. CASE RamDirUpd
  BY <1>2 DEF RamDirUpd, TargetTypeOK
<1>3. CASE RamDataInval /\ ramInvFsm = "RAM_INV_IDLE"
  <2>1. InvIdle
    BY <1>3 DEF RamCycle, InvFsm, RamDataInval, InvIdleKick, InvReq, InvRspWait, InvRspTake
  <2>2. blockState' = OtherSharers(sav.src, sav.block) /\ invBlock' = sav.block
    BY <1>3, <2>1 DEF InvIdle, RamDataInval
  <2>3. directory' = [directory EXCEPT ![sav.block] = @ \cap {sav.src}]
    BY <1>3 DEF RamDataInval, Left
  <2> QED BY <2>2, <2>3 DEF OtherSharers, InvPending, TargetTypeOK
<1>4. CASE RamDataInval /\ ramInvFsm # "RAM_INV_IDLE"
  BY <1>4 DEF RamDataInval
<1> QED BY <1>1, <1>2, <1>3, <1>4 DEF RamCycle, RamFsm

LEMMA RamStepHolders ==
  ASSUME TargetTypeOK, InvTypeOK, OutTypeOK, PacketInv, RoundInv, ReaderInv, HoldersKnown,
         RamStep
  PROVE  HoldersKnown' /\ holders' \in [Blocks -> SUBSET Procs]
<1>1. RamCycle /\ InvFsm
  BY DEF RamStep, RamCycle
<1>2. \A p \in Procs, b \in Blocks : p \in holders[b] => p \in directory'[b] \/ InvPending(p, b)'
  BY <1>1, PendingStays, BitClearedIsPending DEF HoldersKnown
<1>3. CASE LastReadCellLeaves
  <2>1. cur.src \in directory[Block(cur.addr)] /\ directory' = directory
    BY <1>1, <1>3 DEF LastReadCellLeaves, ReaderInv, RamCycle, RamFsm, RamIdle,
                      RamDirUpd, RamDataInval, RamDataInvalWait
  <2>2. Block(cur.addr) \in Blocks /\ cur.src \in Procs
    <3>1. cur.addr \in Addr
      BY <1>3, NbWordsAssumption
         DEF LastReadCellLeaves, PacketInv, TargetMatches, ReadingLine, TargetTypeOK, Addr
    <3> QED BY <1>3, <3>1, ConstantFacts DEF LastReadCellLeaves
  <2>3. holders' = [holders EXCEPT ![Block(cur.addr)] = @ \cup {cur.src}]
    BY <1>3 DEF RamStep
  <2> DEFINE here == Block(cur.addr)
  <2> HIDE DEF here
  <2>4. holders' = [holders EXCEPT ![here] = @ \cup {cur.src}] /\ here \in Blocks
    BY <2>2, <2>3 DEF here
  <2>5. cur.src \in directory'[here]
    BY <2>1 DEF here
  <2> QED BY <1>2, <2>2, <2>4, <2>5 DEF HoldersKnown, OutTypeOK
<1>4. CASE ~LastReadCellLeaves
  <2>1. holders' = holders
    BY <1>4 DEF RamStep
  <2> QED BY <1>2, <2>1 DEF HoldersKnown, OutTypeOK
<1> QED BY <1>3, <1>4

(* One cycle of the memory controller preserves the inductive invariant.   *)
LEMMA RamStepInductive ==
  ASSUME Inductive, RamStep
  PROVE  Inductive'
<1>1. /\ InvTypeOK /\ TargetTypeOK /\ OutTypeOK /\ PacketInv /\ RoundInv
      /\ ReaderInv /\ HoldersKnown
  BY TypeSplit DEF Inductive
<1>2. RamCycle /\ InvFsm /\ RamFsm /\ UNCHANGED <<out, reg, succ>>
  BY DEF RamStep, RamCycle
<1>3. InvTypeOK' /\ TargetTypeOK'
  BY <1>1, <1>2, InvFsmType, RamFsmType
<1>4. RamTypeOK'
  BY <1>3, TypeSplit DEF RamTypeOK, NocTypeOK, InvTypeOK, TargetTypeOK
<1>5. PacketInv' /\ RoundInv' /\ ReaderInv'
  BY <1>1, <1>2, RamFsmPackets, RoundStep, ReaderStep
<1>6. HoldersKnown' /\ holders' \in [Blocks -> SUBSET Procs]
  BY <1>1, RamStepHolders
<1>7. OutTypeOK'
  BY <1>1, <1>2, <1>6 DEF OutTypeOK
<1> QED BY <1>4, <1>5, <1>6, <1>7 DEF Inductive

-----------------------------------------------------------------------------
(* The initiators.  Their steps change no register of the controller. *)

LEMMA EnvStep ==
  ASSUME Inductive, UNCHANGED <<ramRegs, invCmd, invRsp, holders>>,
         cmd' \in [Srcs -> CmdCell \cup {NoCell}],
         rsp' \in [Srcs -> RspCell \cup {NoCell}],
         OutTypeOK', PacketInv'
  PROVE  Inductive'
<1>1. RamTypeOK'
  BY DEF Inductive, RamTypeOK, NocTypeOK, ramRegs, ramFsmVars
<1>2. RoundInv' /\ ReaderInv'
  BY DEF Inductive, RoundInv, ReaderInv, OtherSharers, ramRegs, ramFsmVars
<1>3. HoldersKnown'
  BY DEF Inductive, HoldersKnown, InvPending, ramRegs, ramFsmVars
<1> QED BY <1>1, <1>2, <1>3 DEF Inductive

(* The packets after a step of s alone. *)
LEMMA OnePacket ==
  ASSUME TargetTypeOK, PacketInv, UNCHANGED <<mode, cur, cellsToGo, sendRsp>>, NEW s \in Srcs,
         \A r \in Srcs \ {s} : cmd'[r] = cmd[r] /\ rsp'[r] = rsp[r] /\ out'[r] = out[r],
         PacketOK(s)', AtTarget(s) => TargetMatches'
  PROVE  PacketInv'
<1>1. \A r \in Srcs : AtTarget(r)' <=> AtTarget(r)
  BY DEF AtTarget
<1>2. \A r \in Srcs \ {s} : PacketOK(r)'
  BY <1>1, OtherPacket DEF PacketInv, PacketOK
<1>3. TargetMatches'
  <2>1. CASE AtTarget(s)
    BY <2>1
  <2>2. CASE ~AtTarget(s) /\ cur.src = s
    <3>1. mode = "IDLE" /\ ~sendRsp
      BY <2>2 DEF AtTarget
    <3> QED BY <3>1 DEF TargetMatches
  <2>3. CASE cur.src # s
    <3>1. PICK r \in Srcs \ {s} : r = cur.src
      BY <2>3 DEF TargetTypeOK
    <3> QED BY <3>1 DEF PacketInv, TargetMatches, Answering, ReadingLine, WritingBurst
  <2> QED BY <2>1, <2>2, <2>3
<1> QED BY <1>2, <1>3 DEF PacketInv, PacketOK

(* What the steps of an initiator do to the packets: nothing, when its     *)
(* links and its packet stay; or a packet starts, goes on, or receives a   *)
(* cell of its response.                                                   *)
LEMMA QuietPackets ==
  ASSUME TargetTypeOK, PacketInv, UNCHANGED <<mode, cur, cellsToGo, sendRsp>>,
         \A r \in Srcs : cmd'[r] = cmd[r] /\ rsp'[r] = rsp[r] /\ out'[r] = out[r]
  PROVE  PacketInv'
<1>1. cur.src \in Srcs
  BY DEF TargetTypeOK
<1>2. TargetMatches'
  BY <1>1 DEF PacketInv, TargetMatches, Answering, ReadingLine, WritingBurst
<1>3. \A s \in Srcs : PacketFits(s)' /\ CmdMatches(s)' /\ RspMatches(s)'
  BY DEF PacketInv, PacketFits, CmdMatches, RspMatches, AtTarget
<1> QED BY <1>2, <1>3 DEF PacketInv

LEMMA FirstCellPackets ==
  ASSUME TargetTypeOK, OutTypeOK, PacketInv, UNCHANGED <<mode, cur, cellsToGo, sendRsp>>,
         NEW s \in Srcs,
         \A r \in Srcs \ {s} : cmd'[r] = cmd[r] /\ rsp'[r] = rsp[r] /\ out'[r] = out[r],
         out[s].toRecv = 0, rsp'[s] = rsp[s], cmd'[s] # NoCell,
         cmd'[s].cmd = out'[s].cmd, cmd'[s].addr = out'[s].addr,
         cmd'[s].eop <=> out'[s].toSend = 0,
         IF out'[s].cmd = "READ"
         THEN out'[s].toRecv = cmd'[s].cells /\ out'[s].addr + cmd'[s].cells <= NbWords
         ELSE out'[s].toRecv = 1,
         out'[s].cmd = "WRITE" => cmd'[s].cells = out'[s].toSend + 1,
         out'[s].toSend > 0 => out'[s].cmd = "WRITE",
         out'[s].addr + out'[s].toSend < NbWords
  PROVE  PacketInv'
<1>1. ~AtTarget(s) /\ ~AtTarget(s)'
  BY ServedAwaits DEF PacketInv, AtTarget
<1>2. rsp'[s] = NoCell
  BY DEF PacketInv, RspMatches
<1>3. PacketFits(s)' /\ RspMatches(s)'
  BY <1>2 DEF PacketFits, RspMatches
<1>4. CmdMatches(s)'
  BY <1>1, <1>2 DEF CmdMatches
<1> QED BY <1>1, <1>3, <1>4, OnePacket DEF PacketOK

LEMMA NextCellPackets ==
  ASSUME TargetTypeOK, OutTypeOK, PacketInv, UNCHANGED <<mode, cur, cellsToGo, sendRsp>>,
         NEW s \in Srcs,
         \A r \in Srcs \ {s} : cmd'[r] = cmd[r] /\ rsp'[r] = rsp[r] /\ out'[r] = out[r],
         out[s].toSend > 0, cmd[s] = NoCell, rsp'[s] = rsp[s],
         cmd'[s] # NoCell, cmd'[s].cmd = "WRITE", cmd'[s].addr = out[s].addr + 1,
         cmd'[s].eop <=> out'[s].toSend = 0,
         out'[s].cmd = "WRITE", out'[s].toRecv = 1,
         out'[s].addr = out[s].addr + 1, out'[s].toSend = out[s].toSend - 1
  PROVE  PacketInv'
<1>1. /\ out[s].addr \in Addr /\ out[s].toSend \in Nat
      /\ out[s].addr + out[s].toSend < NbWords
      /\ AtTarget(s) /\ mode = "SIZED_WRITE"
  BY DEF PacketInv, PacketFits, OutTypeOK
<1>2. WritingBurst(s) /\ cur.src = s
  BY <1>1 DEF AtTarget, PacketInv, TargetMatches
<1>3. /\ rsp'[s] = NoCell /\ cur' = cur /\ cellsToGo' = cellsToGo
      /\ mode' = "SIZED_WRITE" /\ ~sendRsp' /\ AtTarget(s)'
      /\ cur.addr = out[s].addr /\ cellsToGo = out[s].toSend + 1
  BY <1>1, <1>2 DEF WritingBurst, AtTarget
<1>4. PacketFits(s)' /\ CmdMatches(s)' /\ RspMatches(s)'
  <2>1. PacketFits(s)'
    BY <1>1, NbWordsAssumption DEF PacketFits, Addr
  <2>2. CmdMatches(s)'
    BY <1>3 DEF CmdMatches
  <2>3. RspMatches(s)'
    BY <1>3 DEF RspMatches
  <2> QED BY <2>1, <2>2, <2>3
<1>5. TargetMatches'
  <2>1. WritingBurst(s)'
    BY <1>1, <1>3 DEF WritingBurst, Addr
  <2> QED BY <1>2, <1>3, <2>1 DEF TargetMatches
<1> QED BY <1>4, <1>5, OnePacket DEF PacketOK

LEMMA TakeRspPackets ==
  ASSUME TargetTypeOK, OutTypeOK, PacketInv, UNCHANGED <<mode, cur, cellsToGo, sendRsp>>,
         NEW s \in Srcs,
         \A r \in Srcs \ {s} : cmd'[r] = cmd[r] /\ rsp'[r] = rsp[r] /\ out'[r] = out[r],
         rsp[s] # NoCell, rsp'[s] = NoCell, cmd'[s] = cmd[s],
         out'[s].toSend = 0, out'[s].addr \in Addr,
         out[s].toRecv # 1 => out'[s].toRecv = out[s].toRecv - 1
  PROVE  PacketInv'
<1>1. cmd'[s] = NoCell
  BY DEF PacketInv, CmdMatches
<1>2. PacketOK(s)'
  BY <1>1, NbWordsAssumption DEF PacketOK, PacketFits, CmdMatches, RspMatches, Addr
<1>3. ASSUME AtTarget(s)
      PROVE  TargetMatches'
  <2>1. mode = "SIZED_READ" /\ cur.src = s /\ ReadingLine(s)
    BY <1>3 DEF AtTarget, PacketInv, TargetMatches, RspMatches
  <2>2. out[s].toRecv = cellsToGo + 1 /\ cellsToGo > 0 /\ cellsToGo \in Nat
    BY <2>1 DEF ReadingLine, TargetTypeOK
  <2>3. out'[s].toRecv = cellsToGo
    BY <2>2
  <2>4. ReadingLine(s)'
    BY <1>1, <2>1, <2>2, <2>3 DEF ReadingLine
  <2> QED BY <2>1, <2>4 DEF TargetMatches
<1> QED BY <1>2, <1>3, OnePacket

(* A packet of n cells that awaits m cells of response. *)
LEMMA SendStep ==
  ASSUME Inductive, NEW s \in Srcs, NEW c \in Cmds, NEW a \in Addr, NEW d \in Word,
         NEW be \in SUBSET Lanes, NEW n \in Nat \ {0}, NEW m \in Nat \ {0},
         a + n <= NbWords,
         c = "READ" => a + m <= NbWords,
         c # "READ" => m = 1,
         c # "WRITE" => n = 1,
         Send(s, c, a, d, be, n, m),
         UNCHANGED <<rsp, invCmd, invRsp, ramRegs, holders, reg, succ>>
  PROVE  Inductive'
<1> DEFINE cells == IF c = "WRITE" THEN n ELSE m
<1>1. TargetTypeOK /\ OutTypeOK /\ PacketInv /\ cells \in Nat \ {0}
  BY TypeSplit DEF Inductive
<1>2. /\ out[s].toSend = 0 /\ out[s].toRecv = 0 /\ cmd[s] = NoCell
      /\ cmd' = [cmd EXCEPT ![s] = Cell(c, a, d, be, cells, n = 1)]
      /\ out' = [out EXCEPT ![s] = [cmd |-> c, addr |-> a, toSend |-> n - 1, toRecv |-> m]]
  BY DEF Send
<1>3. Cell(c, a, d, be, cells, n = 1) \in CmdCell
  <2>1. a \in Addr /\ (n = 1) \in BOOLEAN
    OBVIOUS
  <2> HIDE DEF cells
  <2> QED BY <1>1, <2>1 DEF Cell, CmdCell
<1>4. cmd' \in [Srcs -> CmdCell \cup {NoCell}]
  <2> DEFINE cell == Cell(c, a, d, be, cells, n = 1)
  <2>1. cmd' = [cmd EXCEPT ![s] = cell] /\ cell \in CmdCell
    BY <1>2, <1>3
  <2> HIDE DEF cell
  <2> QED BY <1>1, <2>1 DEF TargetTypeOK
<1>5. OutTypeOK'
  BY <1>1, <1>2 DEF OutTypeOK
<1>8. \A r \in Srcs \ {s} : cmd'[r] = cmd[r] /\ rsp'[r] = rsp[r] /\ out'[r] = out[r]
  BY <1>1, <1>2 DEF TargetTypeOK, OutTypeOK
<1>9. /\ cmd'[s].cmd = c /\ cmd'[s].addr = a /\ cmd'[s].cells = cells
      /\ cmd'[s].eop = (n = 1) /\ cmd'[s] # NoCell
  <2> DEFINE cell == Cell(c, a, d, be, cells, n = 1)
  <2>1. cmd'[s] = cell
    BY <1>1, <1>2 DEF TargetTypeOK
  <2>2. cell \in CmdCell /\ cell # NoCell
    BY <1>3, NoCellAssumption
  <2>3. cell.cmd = c /\ cell.addr = a /\ cell.cells = cells /\ cell.eop = (n = 1)
    BY DEF Cell
  <2> QED BY <2>1, <2>2, <2>3
<1>10. /\ out'[s].cmd = c /\ out'[s].addr = a
       /\ out'[s].toSend = n - 1 /\ out'[s].toRecv = m
  BY <1>1, <1>2 DEF OutTypeOK
<1>11. cmd'[s].eop <=> out'[s].toSend = 0
  <2>1. n = 1 <=> n - 1 = 0
    OBVIOUS
  <2> QED BY <1>9, <1>10, <2>1, Zenon
<1>12. /\ out'[s].addr + out'[s].toSend < NbWords
       /\ out'[s].toSend > 0 => out'[s].cmd = "WRITE"
       /\ out'[s].cmd = "WRITE" => cmd'[s].cells = out'[s].toSend + 1
  BY <1>9, <1>10, NbWordsAssumption DEF Addr
<1>13. PacketInv'
  <2> HIDE DEF cells
  <2>1. IF out'[s].cmd = "READ"
        THEN out'[s].toRecv = cmd'[s].cells /\ out'[s].addr + cmd'[s].cells <= NbWords
        ELSE out'[s].toRecv = 1
    BY <1>9, <1>10 DEF cells
  <2> QED BY <1>1, <1>2, <1>8, <1>9, <1>10, <1>11, <1>12, <2>1, FirstCellPackets DEF ramRegs
<1> QED BY <1>1, <1>4, <1>5, <1>13, EnvStep DEF TargetTypeOK

LEMMA EnvSendInductive ==
  ASSUME Inductive, NEW s \in Srcs, EnvSend(s)
  PROVE  Inductive'
<1> DEFINE rest == UNCHANGED <<rsp, invCmd, invRsp, ramRegs, holders, reg, succ>>
<1>1. rest
  BY DEF EnvSend
<1>2. /\ "READ" \in Cmds /\ "WRITE" \in Cmds
      /\ "LOCKED_READ" \in Cmds /\ "STORE_COND" \in Cmds
      /\ 1 \in Nat \ {0} /\ Lanes \in SUBSET Lanes /\ Counter \in Addr /\ Zero \in Word
      /\ \A a \in Addr : a + 1 <= NbWords
  BY ConstantFacts, NbWordsAssumption DEF Cmds, Counter, Addr
<1>3. CASE \E b \in Blocks : Send(s, "READ", Base(b), Zero, Lanes, 1, LineWords)
  <2>1. PICK b \in Blocks : Send(s, "READ", Base(b), Zero, Lanes, 1, LineWords)
    BY <1>3
  <2>2. Base(b) \in Addr /\ Base(b) + LineWords <= NbWords /\ LineWords \in Nat \ {0}
    BY LinesAssumption, LineWordsAssumption
  <2> QED BY <1>1, <1>2, <2>1, <2>2, SendStep
<1>4. CASE \E a \in Starts : Send(s, "READ", a, Zero, Lanes, 1, 1)
  BY <1>1, <1>2, <1>4, SendStep, StoredAssumption
<1>5. CASE Send(s, "LOCKED_READ", Counter, Zero, Lanes, 1, 1)
  BY <1>1, <1>2, <1>5, SendStep
<1>6. CASE /\ reg[s][0] < MaxCount
           /\ Send(s, "STORE_COND", Counter, [l \in Lanes |-> reg[s][0] + 1], Lanes, 1, 1)
  <2> DEFINE d == [l \in Lanes |-> reg[s][0] + 1]
  <2>1. reg[s] \in Word
    BY DEF Inductive, OutTypeOK
  <2>2. reg[s][0] \in Nat /\ reg[s][0] < MaxCount
    BY <1>6, <2>1, LanesAssumption, ValAssumption DEF Word
  <2>5. reg[s][0] + 1 \in Val
    BY <2>2, MaxCountAssumption
  <2>3. d \in Word
    BY <2>5 DEF Word
  <2>4. Send(s, "STORE_COND", Counter, d, Lanes, 1, 1)
    BY <1>6
  <2> HIDE DEF d
  <2> QED BY <1>1, <1>2, <2>3, <2>4, SendStep
<1>7. CASE \E a \in Starts, n \in 1 .. MaxBurst, d \in StoredWord, be \in SUBSET Lanes :
             a + n <= NbWords /\ be # {} /\ Send(s, "WRITE", a, d, be, n, 1)
  <2>1. PICK a \in Starts, n \in 1 .. MaxBurst, d \in StoredWord, be \in SUBSET Lanes :
             a + n <= NbWords /\ be # {} /\ Send(s, "WRITE", a, d, be, n, 1)
    BY <1>7
  <2>2. n \in Nat \ {0} /\ a \in Addr /\ d \in Word
    BY MaxBurstAssumption, StoredAssumption DEF StoredWord
  <2> QED BY <1>1, <1>2, <2>1, <2>2, SendStep
<1> QED BY <1>3, <1>4, <1>5, <1>6, <1>7 DEF EnvSend

LEMMA EnvSendNextInductive ==
  ASSUME Inductive, NEW s \in Srcs, EnvSendNext(s)
  PROVE  Inductive'
<1>1. TargetTypeOK /\ OutTypeOK /\ PacketInv /\ PacketOK(s)
  BY TypeSplit DEF Inductive, PacketInv, PacketOK
<1>2. PICK d \in StoredWord, be \in (SUBSET Lanes) \ {{}} :
        cmd' = [cmd EXCEPT ![s] = Cell("WRITE", out[s].addr + 1, d, be, 1, out[s].toSend = 1)]
  BY DEF EnvSendNext
<1> DEFINE last == out[s].toSend = 1
           cell == Cell("WRITE", out[s].addr + 1, d, be, 1, last)
<1>3. /\ out[s].toSend > 0 /\ cmd[s] = NoCell
      /\ out' = [out EXCEPT ![s].addr = @ + 1, ![s].toSend = @ - 1]
      /\ UNCHANGED <<rsp, invCmd, invRsp, ramRegs, holders, reg, succ>>
  BY DEF EnvSendNext
<1>4. /\ out[s].addr \in Addr /\ out[s].toSend \in Nat
      /\ out[s].addr + out[s].toSend < NbWords
      /\ out[s].cmd = "WRITE" /\ out[s].toRecv = 1
      /\ AtTarget(s) /\ mode = "SIZED_WRITE"
  BY <1>1, <1>3 DEF PacketOK, PacketFits, OutTypeOK
<1>5. out[s].addr + 1 \in Addr /\ out[s].toSend - 1 \in Nat
  BY <1>3, <1>4, NbWordsAssumption DEF Addr
<1>6. cell \in CmdCell /\ cell # NoCell
  <2>1. cell \in CmdCell
    <3>1. last \in BOOLEAN /\ "WRITE" \in Cmds /\ 1 \in Nat \ {0} /\ d \in Word
      BY DEF Cmds, StoredWord
    <3> HIDE DEF last
    <3> QED BY <1>5, <3>1 DEF Cell, CmdCell
  <2> QED BY <2>1, NoCellAssumption
<1>7. cmd' \in [Srcs -> CmdCell \cup {NoCell}] /\ cmd'[s] = cell
  <2>1. cmd' = [cmd EXCEPT ![s] = cell]
    BY <1>2
  <2> HIDE DEF cell
  <2> QED BY <1>1, <1>6, <2>1 DEF TargetTypeOK
<1>8. /\ out'[s].cmd = "WRITE" /\ out'[s].toRecv = 1
      /\ out'[s].addr = out[s].addr + 1 /\ out'[s].toSend = out[s].toSend - 1
  BY <1>1, <1>3, <1>4 DEF OutTypeOK
<1>9. OutTypeOK'
  BY <1>1, <1>3, <1>4, <1>5 DEF OutTypeOK
<1>10. \A r \in Srcs \ {s} : cmd'[r] = cmd[r] /\ rsp'[r] = rsp[r] /\ out'[r] = out[r]
  BY <1>1, <1>2, <1>3 DEF TargetTypeOK, OutTypeOK
<1>13. /\ cmd'[s] # NoCell /\ cmd'[s].cmd = "WRITE" /\ cmd'[s].addr = out[s].addr + 1
       /\ cmd'[s].eop = last
  <2>1. cell.cmd = "WRITE" /\ cell.addr = out[s].addr + 1 /\ cell.eop = last
    BY DEF Cell
  <2> HIDE DEF cell
  <2> QED BY <1>6, <1>7, <2>1
<1>14. cmd'[s].eop <=> out'[s].toSend = 0
  <2>1. last <=> out[s].toSend - 1 = 0
    BY <1>4
  <2> HIDE DEF last
  <2> QED BY <1>8, <1>13, <2>1, Zenon
<1>17. PacketInv'
  <2> HIDE DEF cell, last
  <2> QED BY <1>1, <1>3, <1>8, <1>10, <1>13, <1>14, NextCellPackets DEF ramRegs
<1> QED BY <1>1, <1>3, <1>7, <1>9, <1>17, EnvStep DEF TargetTypeOK

LEMMA EnvTakeRspInductive ==
  ASSUME Inductive, NEW s \in Srcs, EnvTakeRsp(s)
  PROVE  Inductive'
<1>1. TargetTypeOK /\ OutTypeOK /\ PacketInv /\ PacketOK(s)
  BY TypeSplit DEF Inductive, PacketInv, PacketOK
<1> DEFINE next == IF out[s].toRecv = 1 THEN Idle ELSE [out[s] EXCEPT !.toRecv = @ - 1]
<1>2. /\ rsp[s] # NoCell /\ rsp' = [rsp EXCEPT ![s] = NoCell]
      /\ out' = [out EXCEPT ![s] = next]
      /\ UNCHANGED <<cmd, invCmd, invRsp, ramRegs, holders>>
  BY DEF EnvTakeRsp
<1>3. rsp[s] \in RspCell /\ cmd[s] = NoCell
  BY <1>1, <1>2 DEF TargetTypeOK, PacketOK, CmdMatches
<1>4. /\ out[s].toSend = 0 /\ out[s].toRecv \in Nat \ {0}
      /\ out[s].addr \in Addr /\ out[s].cmd \in Cmds
      /\ AtTarget(s) => mode = "SIZED_READ"
  BY <1>1, <1>2 DEF PacketOK, RspMatches, OutTypeOK
<1>5. /\ rsp' \in [Srcs -> RspCell \cup {NoCell}] /\ rsp'[s] = NoCell /\ cmd'[s] = NoCell
      /\ \A r \in Srcs \ {s} : cmd'[r] = cmd[r] /\ rsp'[r] = rsp[r] /\ out'[r] = out[r]
  BY <1>1, <1>2, <1>3 DEF TargetTypeOK, OutTypeOK
<1>6. Idle \in [cmd : Cmds, addr : Addr, toSend : Nat, toRecv : Nat]
  BY ConstantFacts DEF Idle, Cmds
<1>7. /\ next \in [cmd : Cmds, addr : Addr, toSend : Nat, toRecv : Nat]
      /\ next.toSend = 0
      /\ out[s].toRecv # 1 => next.toRecv = out[s].toRecv - 1
  <2>1. out[s] \in [cmd : Cmds, addr : Addr, toSend : Nat, toRecv : Nat]
    BY <1>1 DEF OutTypeOK
  <2>2. CASE out[s].toRecv = 1
    BY <1>6, <2>2 DEF Idle
  <2>3. CASE out[s].toRecv # 1
    <3>1. out[s].toRecv - 1 \in Nat
      BY <1>4
    <3> QED BY <1>4, <2>1, <2>3, <3>1
  <2> QED BY <2>2, <2>3
<1>8. out'[s] = next
  <2> HIDE DEF next
  <2> QED BY <1>1, <1>2 DEF OutTypeOK
<1>9. OutTypeOK'
  <2>1. out' \in [Srcs -> [cmd : Cmds, addr : Addr, toSend : Nat, toRecv : Nat]]
    <3> HIDE DEF next
    <3> QED BY <1>1, <1>2, <1>7 DEF OutTypeOK
  <2>2. reg' \in [Srcs -> Word] /\ succ' \in Nat
    BY <1>1, <1>3 DEF EnvTakeRsp, OutTypeOK, RspCell
  <2> QED BY <1>1, <1>2, <2>1, <2>2 DEF OutTypeOK
<1>10. out'[s].toSend = 0 /\ out'[s].addr \in Addr
  <2> HIDE DEF next
  <2> QED BY <1>7, <1>8
<1>11. out[s].toRecv # 1 => out'[s].toRecv = out[s].toRecv - 1
  <2> HIDE DEF next
  <2> QED BY <1>7, <1>8
<1>13. PacketInv'
  BY <1>1, <1>2, <1>3, <1>5, <1>10, <1>11, TakeRspPackets DEF ramRegs
<1> QED BY <1>1, <1>2, <1>5, <1>9, <1>13, EnvStep DEF TargetTypeOK

LEMMA CacheAckInductive ==
  ASSUME Inductive, NEW p \in Procs, CacheAck(p)
  PROVE  Inductive'
<1>1. InvTypeOK /\ TargetTypeOK /\ OutTypeOK /\ HoldersKnown
  BY TypeSplit DEF Inductive
<1>2. PICK b \in Blocks : b = invCmd[p]
  BY <1>1 DEF CacheAck, InvTypeOK
<1>3. /\ invCmd' = [invCmd EXCEPT ![p] = NoBlock]
      /\ invRsp' = [invRsp EXCEPT ![p] = TRUE]
      /\ holders' = [holders EXCEPT ![b] = @ \ {p}]
      /\ UNCHANGED <<cmd, rsp, ramRegs, out, reg, succ>>
  BY <1>2 DEF CacheAck
<1>4. RamTypeOK'
  <2>1. InvTypeOK'
    BY <1>1, <1>3 DEF InvTypeOK, ramRegs
  <2>2. TargetTypeOK'
    BY <1>1, <1>3 DEF TargetTypeOK, ramRegs, ramFsmVars
  <2> QED BY <2>1, <2>2 DEF RamTypeOK, NocTypeOK, InvTypeOK, TargetTypeOK
<1>5. OutTypeOK'
  BY <1>1, <1>3 DEF OutTypeOK
<1>6. PacketInv' /\ RoundInv' /\ ReaderInv'
  <2>1. UNCHANGED targetVars
    BY <1>3 DEF ramRegs, targetVars
  <2>2. PacketInv'
    BY <1>3, <2>1, SamePackets DEF Inductive
  <2> QED BY <1>3, <2>2 DEF Inductive, RoundInv, ReaderInv, OtherSharers, ramRegs, ramFsmVars
<1>7. HoldersKnown'
  <2>1. SUFFICES ASSUME NEW x \in Blocks, NEW q \in holders'[x], q \notin directory'[x]
                 PROVE  InvPending(q, x)'
    BY DEF HoldersKnown
  <2>2. q \in holders[x] /\ (x = b => q # p) /\ q \in Procs
    BY <1>1, <1>3, <2>1 DEF OutTypeOK
  <2>3. InvPending(q, x)
    BY <1>1, <1>3, <2>1, <2>2 DEF HoldersKnown, ramRegs, ramFsmVars
  <2>4. invCmd[q] = x => invCmd'[q] = x
    BY <1>1, <1>2, <1>3, <2>2 DEF InvTypeOK
  <2> QED BY <1>3, <2>3, <2>4 DEF InvPending, ramRegs
<1> QED BY <1>4, <1>5, <1>6, <1>7 DEF Inductive

-----------------------------------------------------------------------------
(* The theorems. *)

LEMMA InitInductive == Init => Inductive
<1> SUFFICES ASSUME Init PROVE Inductive
  OBVIOUS
<1>1. RamTypeOK /\ OutTypeOK
  BY InitTypes
<1>2. /\ cmd = [s \in Srcs |-> NoCell] /\ rsp = [s \in Srcs |-> NoCell]
      /\ out = [s \in Srcs |-> Idle] /\ holders = [b \in Blocks |-> {}]
      /\ mode = "IDLE" /\ ~sendRsp
      /\ ramFsm = "RAM_IDLE" /\ ramInvFsm = "RAM_INV_IDLE" /\ blockState = {}
  BY DEF Init, NocInit, RamInit
<1>3. PacketInv
  <2>1. \A s \in Srcs : PacketFits(s) /\ CmdMatches(s) /\ RspMatches(s)
    BY <1>2, NbWordsAssumption DEF PacketFits, CmdMatches, RspMatches, Idle
  <2> QED BY <1>2, <2>1 DEF PacketInv, TargetMatches
<1>4. RoundInv /\ ReaderInv /\ HoldersKnown
  BY <1>2 DEF RoundInv, ReaderInv, HoldersKnown
<1> QED BY <1>1, <1>3, <1>4 DEF Inductive

LEMMA NextInductive ==
  ASSUME Inductive, [Next]_vars
  PROVE  Inductive'
<1>1. CASE RamStep
  BY <1>1, RamStepInductive
<1>2. CASE \E s \in Srcs : EnvSend(s) \/ EnvSendNext(s) \/ EnvTakeRsp(s)
  BY <1>2, EnvSendInductive, EnvSendNextInductive, EnvTakeRspInductive
<1>3. CASE \E p \in Procs : CacheAck(p)
  BY <1>3, CacheAckInductive
<1>4. CASE UNCHANGED vars
  <2>1. UNCHANGED <<ramRegs, cmd, rsp, invCmd, invRsp, out, holders, reg, succ>>
    BY <1>4 DEF vars, ramVars, envVars, nocVars
  <2>2. OutTypeOK'
    BY <2>1 DEF Inductive, OutTypeOK
  <2>3. PacketInv'
    BY <2>1, SamePackets DEF Inductive, ramRegs, targetVars
  <2>4. /\ cmd' \in [Srcs -> CmdCell \cup {NoCell}]
        /\ rsp' \in [Srcs -> RspCell \cup {NoCell}]
    BY <2>1 DEF Inductive, RamTypeOK, NocTypeOK
  <2> QED BY <2>1, <2>2, <2>3, <2>4, EnvStep
<1> QED BY <1>1, <1>2, <1>3, <1>4 DEF Next

(* The invariant that ties RAM_FSM, INV_FSM, the target state machine, the *)
(* directory and the packets in flight together holds of every execution,  *)
(* for any number of caches, initiators, words and cells of a burst.       *)
THEOREM InductiveInvariant == Spec => []Inductive
<1> QED BY InitInductive, NextInductive, PTL DEF Spec

(* Every register of the controller keeps its range: the invalidation      *)
(* target is a cache of the mapping table, the directory has a bit for it, *)
(* and no address leaves the segment.                                      *)
THEOREM RamTypeCorrect == Spec => []RamTypeOK
<1>1. Inductive => RamTypeOK
  BY DEF Inductive
<1> QED BY <1>1, InductiveInvariant, PTL

(* No response cell goes to an initiator that does not await it, and the   *)
(* end of packet comes with the last cell the initiator expects.           *)
THEOREM ResponsesAreExpected == Spec => []ResponsesExpected
<1>1. Inductive => ResponsesExpected
  BY DEF Inductive, PacketInv, RspMatches, ResponsesExpected
<1> QED BY <1>1, InductiveInvariant, PTL

(* The assert()s of RAM_FSM (the block state is not empty) and of the      *)
(* target state machine (a burst is contiguous, plen says where it ends)   *)
(* never fire.                                                             *)
THEOREM AssertionsNeverFire == Spec => []AssertionsHold
<1>1. ASSUME Inductive PROVE AssertionsHold
  <2>1. /\ ramFsm = "RAM_DATA_INVAL" => OtherSharers(sav.src, sav.block) # {}
        /\ ramFsm = "RAM_DATA_INVAL_WAIT" /\ ramInvFsm = "RAM_INV_IDLE" => blockState # {}
    BY <1>1 DEF Inductive, RoundInv
  <2>2. ASSUME mode = "SIZED_WRITE", cmd[cur.src] # NoCell
        PROVE  /\ cmd[cur.src].cmd = "WRITE"
               /\ cmd[cur.src].addr = cur.addr + 1
               /\ cmd[cur.src].eop <=> cellsToGo = 2
    <3>1. PICK s \in Srcs : s = cur.src
      BY <1>1 DEF Inductive, RamTypeOK
    <3>2. /\ out[s].cmd = "WRITE" /\ cur.addr + 1 = out[s].addr
          /\ cellsToGo = out[s].toSend + 2 /\ out[s].toSend \in Nat
      BY <1>1, <2>2, <3>1 DEF Inductive, PacketInv, TargetMatches, WritingBurst, OutTypeOK
    <3>3. /\ cmd[s].cmd = out[s].cmd /\ cmd[s].addr = out[s].addr
          /\ cmd[s].eop <=> out[s].toSend = 0
      BY <1>1, <2>2, <3>1 DEF Inductive, PacketInv, CmdMatches
    <3> QED BY <3>1, <3>2, <3>3
  <2> QED BY <2>1, <2>2 DEF AssertionsHold
<1> QED BY <1>1, InductiveInvariant, PTL

(* The directory never loses a copy of a block, for any number of caches   *)
(* and any latency of the invalidation network.                            *)
THEOREM DirectoryKnowsHolders == Spec => []HoldersKnown
<1>1. Inductive => HoldersKnown
  BY DEF Inductive
<1> QED BY <1>1, InductiveInvariant, PTL

-----------------------------------------------------------------------------
(***************************************************************************)
(* LL/SC makes increments atomic, for any number of initiators: a proof    *)
(* that the word they increment counts the store conditionals that         *)
(* answered STORE_COND_ATOMIC.                                             *)
(*                                                                         *)
(* A reservation (m_atomic) is worth something only if the word that the   *)
(* initiator has read is still the one of memory.  Where that word is      *)
(* depends on how far the answer to the LL has come: in m_current_cmd, on  *)
(* the network, or in the register of the processor.                       *)
(***************************************************************************)

(* Only LL/SC sequences write. *)
NoWrites ==
  /\ "WRITE" \notin ops
  /\ \A s \in Srcs : out[s].cmd # "WRITE"

(* The target serves the command that the initiator sent. *)
ServedCmd == mode # "IDLE" \/ sendRsp => cur.cmd = out[cur.src].cmd

(* A store conditional under way carries the increment of what was read.   *)
Increment(s) == [l \in Lanes |-> reg[s][0] + 1]
ScMatches ==
  \A s \in Srcs : cmd[s] # NoCell /\ cmd[s].cmd = "STORE_COND" =>
    cmd[s].addr = Counter /\ cmd[s].be = Lanes /\ cmd[s].data = Increment(s)

(* The word that s last read with LL, or is about to receive. *)
LlAtTarget(s)  == cur.src = s /\ sendRsp /\ cur.cmd = "LOCKED_READ"
LlInFlight(s)  == rsp[s] # NoCell /\ out[s].cmd = "LOCKED_READ"
LinkedWord(s) ==
  IF LlAtTarget(s) THEN cur.data
  ELSE IF LlInFlight(s) THEN rsp[s].data
  ELSE reg[s]

LinksFresh == \A s \in Srcs : link[s] = Counter => LinkedWord(s) = mem[Counter]

CountInv == NoWrites /\ ServedCmd /\ ScMatches /\ LinksFresh /\ IncrementsCounted

-----------------------------------------------------------------------------
(* Counting the answers on the network. *)

OkRsp == {s \in Srcs : rsp[s] # NoCell /\ rsp[s].ok}
OkToSend == IF sendRsp /\ cur.ok THEN 1 ELSE 0

LEMMA OkRspFinite ==
  ASSUME NEW T \in SUBSET Srcs
  PROVE  IsFiniteSet(T) /\ Cardinality(T) \in Nat
<1>1. IsFiniteSet(Srcs)
  BY FS_Interval, NbSrcsAssumption DEF Srcs
<1>2. IsFiniteSet(T)
  BY <1>1, FS_Subset
<1> QED BY <1>2, FS_CardinalityType

(* An answer that leaves is counted once more on the network, and once     *)
(* less at the target.                                                     *)
LEMMA DeliverCount ==
  ASSUME TargetTypeOK, DeliverRsp
  PROVE  Cardinality(OkRsp') = Cardinality(OkRsp)
                               + (IF PeerAccepted /\ cur.ok THEN 1 ELSE 0)
<1> DEFINE cell == [data |-> cur.data, ok |-> cur.ok, error |-> FALSE, eop |-> cur.eop]
           T == OkRsp
<1>1. T \in SUBSET Srcs /\ IsFiniteSet(T) /\ Cardinality(T) \in Nat
  BY OkRspFinite DEF OkRsp
<1>2. CASE PeerAccepted
  <2>0. cell \in RspCell /\ cur.src \in Srcs
    BY DEF TargetTypeOK, RspCell
  <2>1. cell # NoCell /\ cell.ok = cur.ok /\ cur.src \in Srcs
    BY <2>0, NoCellAssumption
  <2>2. rsp' = [rsp EXCEPT ![cur.src] = cell]
    BY <1>2 DEF DeliverRsp
  <2>3. rsp'[cur.src] = cell /\ \A r \in Srcs \ {cur.src} : rsp'[r] = rsp[r]
    BY <2>1, <2>2 DEF TargetTypeOK
  <2>4. cur.src \notin T
    BY <1>2 DEF PeerAccepted, OkRsp
  <2>5. OkRsp' = IF cur.ok THEN T \cup {cur.src} ELSE T
    <3> HIDE DEF cell
    <3> QED BY <2>1, <2>3, <2>4 DEF OkRsp
  <2>6. Cardinality(T \cup {cur.src}) = Cardinality(T) + 1
    BY <1>1, <2>4, FS_AddElement
  <2> HIDE DEF T
  <2>7. CASE cur.ok
    BY <1>2, <2>5, <2>6, <2>7 DEF T
  <2>8. CASE ~cur.ok
    BY <1>1, <1>2, <2>5, <2>8 DEF T
  <2> QED BY <2>7, <2>8
<1>3. CASE ~PeerAccepted
  <2>1. OkRsp' = OkRsp
    BY <1>3 DEF DeliverRsp, OkRsp
  <2> QED BY <1>1, <1>3, <2>1
<1> QED BY <1>2, <1>3

(* IncrementsCounted, in the terms of this module. *)
LEMMA CountedAs ==
  IncrementsCounted <=> mem[Counter][0] = succ + Cardinality(OkRsp) + OkToSend
BY DEF IncrementsCounted, OkRsp, OkToSend

(* Nothing that the count depends on has changed. *)
LEMMA SameCount ==
  ASSUME CountInv, UNCHANGED <<targetVars, ops, out, reg, succ>>
  PROVE  CountInv'
<1>1. IncrementsCounted'
  BY DEF CountInv, IncrementsCounted, targetVars
<1> QED BY <1>1 DEF CountInv, NoWrites, ServedCmd, ScMatches, Increment, LinksFresh, LinkedWord,
                    LlAtTarget, LlInFlight, targetVars

-----------------------------------------------------------------------------
(* What the controller does. *)

LEMMA WriteModes ==
  ASSUME Inductive, NoWrites
  PROVE  /\ mode # "SIZED_WRITE"
         /\ \A s \in Srcs : cmd[s] # NoCell => cmd[s].cmd # "WRITE"
         /\ \A s \in Srcs : AtTarget(s) /\ rsp[s] # NoCell => mode = "SIZED_READ" /\ cur.cmd = "READ"
<1>1. cur.src \in Srcs
  BY DEF Inductive, RamTypeOK
<1>2. mode # "SIZED_WRITE"
  BY <1>1 DEF Inductive, PacketInv, TargetMatches, WritingBurst, NoWrites
<1>3. \A s \in Srcs : cmd[s] # NoCell => cmd[s].cmd # "WRITE"
  BY DEF Inductive, PacketInv, CmdMatches, NoWrites
<1>4. \A s \in Srcs : AtTarget(s) /\ rsp[s] # NoCell => mode = "SIZED_READ" /\ cur.cmd = "READ"
  BY DEF Inductive, PacketInv, RspMatches, TargetMatches, ReadingLine, AtTarget
<1> QED BY <1>2, <1>3, <1>4

(* The answer leaves: the word of the LL goes with it. *)
LEMMA DeliverLinks ==
  ASSUME Inductive, CountInv, DeliverRsp, UNCHANGED <<mem, out, reg>>,
         PeerAccepted => ~sendRsp' \/ cur'.cmd = "READ",
         ~PeerAccepted => cur' = cur /\ sendRsp' = sendRsp,
         NEW r \in Srcs, link'[r] = Counter, link[r] = Counter
  PROVE  LinkedWord(r)' = mem'[Counter]
<1>1. LinkedWord(r) = mem[Counter]
  BY DEF CountInv, LinksFresh
<1>2. TargetTypeOK
  BY TypeSplit DEF Inductive
<1> DEFINE cell == [data |-> cur.data, ok |-> cur.ok, error |-> FALSE, eop |-> cur.eop]
<1>3. cell \in RspCell /\ cur.src \in Srcs
  BY <1>2 DEF TargetTypeOK, RspCell
<1>4. cell # NoCell /\ cell.data = cur.data
  BY <1>3, NoCellAssumption
<1>5. CASE ~PeerAccepted
  <2>1. rsp' = rsp
    BY <1>5 DEF DeliverRsp
  <2> QED BY <1>1, <1>5, <2>1 DEF LinkedWord, LlAtTarget, LlInFlight
<1>6. CASE PeerAccepted
  <2>1. rsp'[cur.src] = cell /\ \A x \in Srcs \ {cur.src} : rsp'[x] = rsp[x]
    BY <1>2, <1>3, <1>6 DEF DeliverRsp, TargetTypeOK
  <2>2. rsp[cur.src] = NoCell /\ sendRsp
    BY <1>6 DEF PeerAccepted
  <2>3. cur.cmd = out[cur.src].cmd
    BY <2>2 DEF CountInv, ServedCmd
  <2>4. ~LlAtTarget(r)'
    BY <1>6 DEF LlAtTarget
  <2> HIDE DEF cell
  <2>5. CASE r = cur.src
    BY <1>1, <1>4, <2>1, <2>2, <2>3, <2>4, <2>5 DEF LinkedWord, LlAtTarget, LlInFlight
  <2>6. CASE r # cur.src
    BY <1>1, <2>1, <2>4, <2>6 DEF LinkedWord, LlAtTarget, LlInFlight
  <2> QED BY <2>5, <2>6
<1> QED BY <1>5, <1>6

(* A command is accepted: a linked load reads the word it reserves, and a  *)
(* store conditional that is reserved finds the word that was read.        *)
LEMMA AcceptCounts ==
  ASSUME Inductive, CountInv, NEW s \in Srcs, AcceptCmd(s), UNCHANGED <<ops, out, reg, succ>>
  PROVE  CountInv'
<1> DEFINE c == cmd[s]
<1>1. /\ TargetTypeOK /\ c # NoCell /\ mode = "IDLE" /\ ~sendRsp /\ rsp' = rsp
      /\ cmd' = [cmd EXCEPT ![s] = NoCell] /\ rsp[s] = NoCell
  BY TypeSplit DEF Inductive, PacketInv, CmdMatches, AcceptCmd, CmdAck, TakeCmd
<1>2. c.cmd = out[s].cmd /\ c.cmd \in {"READ", "LOCKED_READ", "STORE_COND"}
  BY <1>1, CmdCellType, WriteModes DEF Inductive, PacketInv, CmdMatches, CountInv, Cmds
<1>3. /\ mode' # "IDLE" /\ sendRsp'
      /\ \/ c.cmd \in {"READ", "LOCKED_READ"} /\ \E eop : HandleRead(s, c.cmd, c.addr, eop)
         \/ c.cmd = "STORE_COND" /\ HandleStoreCond(s, c.addr, c.data, c.be, c.eop)
  BY <1>2 DEF AcceptCmd
<1>4. cur'.src = s /\ cur'.cmd = c.cmd
  <2> HIDE DEF c
  <2> QED BY <1>3, HandleCurrent
<1>5. NoWrites' /\ ServedCmd' /\ ScMatches'
  BY <1>1, <1>2, <1>4 DEF CountInv, NoWrites, ServedCmd, ScMatches, Increment, TargetTypeOK
<1>6. OkRsp' = OkRsp /\ OkToSend = 0
  BY <1>1 DEF OkRsp, OkToSend
<1>7. ASSUME NEW r \in Srcs, ~LlAtTarget(r)'
      PROVE  LinkedWord(r)' = LinkedWord(r)
  BY <1>1, <1>7 DEF LinkedWord, LlAtTarget, LlInFlight
<1>8. \A r \in Srcs : LlAtTarget(r)' <=> (r = s /\ c.cmd = "LOCKED_READ")
  BY <1>3, <1>4 DEF LlAtTarget
<1>9. CASE c.cmd \in {"READ", "LOCKED_READ"}
  <2>1. PICK eop : HandleRead(s, c.cmd, c.addr, eop)
    BY <1>3, <1>9
  <2>2. /\ mem' = mem /\ cur'.data = mem[c.addr] /\ cur'.ok = FALSE
        /\ link' = IF c.cmd = "LOCKED_READ" THEN [link EXCEPT ![s] = c.addr] ELSE link
    BY <2>1 DEF HandleRead, OnRead, Answer, DoLoadLinked
  <2>3. IncrementsCounted'
    <3>1. OkToSend' = 0
      BY <2>2 DEF OkToSend
    <3> QED BY <1>6, <2>2, <3>1 DEF CountInv, IncrementsCounted, OkRsp, OkToSend
  <2>4. ASSUME NEW r \in Srcs, link'[r] = Counter
        PROVE  LinkedWord(r)' = mem'[Counter]
    <3>1. CASE r = s /\ c.cmd = "LOCKED_READ"
      <4>1. c.addr = Counter
        BY <1>1, <2>2, <2>4, <3>1 DEF TargetTypeOK
      <4> QED BY <1>8, <2>2, <3>1, <4>1 DEF LinkedWord
    <3>2. CASE ~(r = s /\ c.cmd = "LOCKED_READ")
      <4>1. link[r] = Counter
        BY <1>1, <2>2, <2>4, <3>2 DEF TargetTypeOK
      <4> QED BY <1>7, <1>8, <2>2, <3>2, <4>1 DEF CountInv, LinksFresh
    <3> QED BY <3>1, <3>2
  <2> QED BY <1>5, <2>3, <2>4 DEF CountInv, LinksFresh
<1>10. CASE c.cmd = "STORE_COND"
  <2>1. /\ HandleStoreCond(s, Counter, Increment(s), Lanes, c.eop)
        /\ c.addr = Counter
    BY <1>1, <1>3, <1>10 DEF CountInv, ScMatches
  <2>2. CASE ~IsAtomic(Counter, s)
    <3>1. mem' = mem /\ link' = link /\ cur'.ok = FALSE
      BY <2>1, <2>2 DEF HandleStoreCond, Answer
    <3>2. IncrementsCounted'
      <4>1. OkToSend' = 0
        BY <3>1 DEF OkToSend
      <4> QED BY <1>6, <3>1, <4>1 DEF CountInv, IncrementsCounted, OkRsp, OkToSend
    <3>3. LinksFresh'
      BY <1>7, <1>8, <1>10, <3>1 DEF CountInv, LinksFresh
    <3> QED BY <1>5, <3>2, <3>3 DEF CountInv
  <2>3. CASE IsAtomic(Counter, s)
    <3>1. /\ mem' = [mem EXCEPT ![Counter] = Merge(@, Increment(s), Lanes)]
          /\ link' = AccessDone(Counter) /\ cur'.ok = TRUE
      BY <2>1, <2>3 DEF HandleStoreCond, OnWrite, Answer
    <3>2. \A r \in Srcs : link'[r] # Counter
      BY <3>1 DEF AccessDone, Counter, NoLink
    <3>3. mem[Counter] = reg[s]
      <4>1. LinkedWord(s) = reg[s]
        BY <1>1 DEF LinkedWord, LlAtTarget, LlInFlight
      <4> QED BY <2>3, <4>1 DEF IsAtomic, CountInv, LinksFresh
    <3>4. mem'[Counter][0] = mem[Counter][0] + 1
      <4>1. mem'[Counter] = Merge(mem[Counter], Increment(s), Lanes)
        BY <1>1, <3>1, ConstantFacts DEF TargetTypeOK, Counter
      <4> QED BY <3>3, <4>1, LanesAssumption DEF Merge, Increment
    <3>5. IncrementsCounted'
      <4>1. OkToSend' = 1
        BY <1>3, <3>1 DEF OkToSend
      <4>2. Cardinality(OkRsp) \in Nat /\ succ \in Nat
        BY OkRspFinite DEF OkRsp, Inductive, OutTypeOK
      <4>3. mem[Counter][0] = succ + Cardinality(OkRsp)
        BY <1>6, <4>2, CountedAs DEF CountInv
      <4>4. mem'[Counter][0] = succ' + Cardinality(OkRsp') + OkToSend'
        BY <1>6, <3>4, <4>1, <4>2, <4>3
      <4> QED BY <4>4 DEF IncrementsCounted, OkRsp, OkToSend
    <3> QED BY <1>5, <3>2, <3>5 DEF CountInv, LinksFresh
  <2> QED BY <2>2, <2>3
<1> QED BY <1>2, <1>9, <1>10

(* The answer that leaves is counted on the network instead of at the      *)
(* target; nothing else is counted.                                        *)
LEMMA DeliverKeepsCount ==
  ASSUME Inductive, CountInv, DeliverRsp, UNCHANGED <<mem, succ>>,
         OkToSend' = IF PeerAccepted THEN 0 ELSE OkToSend
  PROVE  IncrementsCounted'
<1>1. Cardinality(OkRsp') = Cardinality(OkRsp) + (IF PeerAccepted /\ cur.ok THEN 1 ELSE 0)
  BY TypeSplit, DeliverCount DEF Inductive
<1>2. Cardinality(OkRsp) \in Nat /\ succ \in Nat
  BY OkRspFinite DEF OkRsp, Inductive, OutTypeOK
<1>3. mem[Counter][0] = succ + Cardinality(OkRsp) + OkToSend
  BY CountedAs DEF CountInv
<1>4. PeerAccepted => OkToSend = IF cur.ok THEN 1 ELSE 0
  BY DEF PeerAccepted, OkToSend
<1>5. mem'[Counter][0] = succ' + Cardinality(OkRsp') + OkToSend'
  <2>1. CASE PeerAccepted
    BY <1>1, <1>2, <1>3, <1>4, <2>1
  <2>2. CASE ~PeerAccepted
    BY <1>1, <1>2, <1>3, <2>2 DEF OkToSend
  <2> QED BY <2>1, <2>2
<1> QED BY <1>5 DEF IncrementsCounted, OkRsp, OkToSend

(* The last cell of a read, or of no read, leaves: no counter moves.      *)
LEMMA LastRspCounts ==
  ASSUME Inductive, CountInv, TargetIdle \/ InoutQuery, UNCHANGED <<ops, out, reg, succ>>
  PROVE  CountInv'
<1>1. /\ DeliverRsp /\ sendRsp' = AfterPeer
      /\ UNCHANGED <<mem, link, cur, cmd>> /\ (mode' = mode \/ mode' = "IDLE")
  BY DEF TargetIdle, InoutQuery
<1>2. PeerAccepted => ~sendRsp'
  BY <1>1 DEF AfterPeer
<1>3. ~PeerAccepted => sendRsp' = sendRsp
  BY <1>1, TypeSplit DEF AfterPeer, Inductive, TargetTypeOK
<1>4. NoWrites' /\ ServedCmd' /\ ScMatches'
  BY <1>1, <1>2, <1>3 DEF CountInv, NoWrites, ServedCmd, ScMatches, Increment, PeerAccepted
<1>5. LinksFresh'
  BY <1>1, <1>2, <1>3, DeliverLinks DEF LinksFresh
<1>6. OkToSend' = IF PeerAccepted THEN 0 ELSE OkToSend
  BY <1>1, <1>2, <1>3 DEF OkToSend
<1> QED BY <1>1, <1>4, <1>5, <1>6, DeliverKeepsCount DEF CountInv

LEMMA SizedReadCounts ==
  ASSUME Inductive, CountInv, SizedReadNext, UNCHANGED <<ops, out, reg, succ>>
  PROVE  CountInv'
<1>1. /\ DeliverRsp /\ mode = "SIZED_READ" /\ cmd' = cmd /\ TargetTypeOK
  BY TypeSplit DEF SizedReadNext, Inductive
<1>2. sendRsp /\ cur.cmd = "READ" /\ cur.src \in Srcs
  BY <1>1 DEF Inductive, PacketInv, TargetMatches, ReadingLine, TargetTypeOK
<1>3. PeerAccepted
  BY <1>2 DEF SizedReadNext, AfterPeer
<1>4. /\ mem' = mem /\ link' = link /\ cur'.src = cur.src /\ cur'.cmd = "READ"
      /\ sendRsp' => ~cur'.ok
  <2>1. CASE cellsToGo # 1
    <3>1. PICK a, eop : HandleRead(cur.src, cur.cmd, a, eop)
      BY <2>1 DEF SizedReadNext
    <3> QED BY <1>2, <3>1 DEF HandleRead, OnRead, Answer
  <2>2. CASE cellsToGo = 1
    <3>1. UNCHANGED <<mem, link>> /\ ~sendRsp'
      BY <2>2 DEF SizedReadNext
    <3>2. cur'.src = cur.src /\ cur'.cmd = cur.cmd
      BY <1>1, <2>2 DEF SizedReadNext, TargetTypeOK
    <3> QED BY <1>2, <3>1, <3>2
  <2> QED BY <2>1, <2>2
<1>5. NoWrites' /\ ServedCmd' /\ ScMatches'
  BY <1>1, <1>2, <1>4 DEF CountInv, NoWrites, ServedCmd, ScMatches, Increment
<1>6. LinksFresh'
  BY <1>1, <1>3, <1>4, DeliverLinks DEF LinksFresh
<1>7. OkToSend' = 0
  BY <1>4 DEF OkToSend
<1> QED BY <1>1, <1>3, <1>4, <1>5, <1>6, <1>7, DeliverKeepsCount DEF CountInv

(* A cycle of the memory controller.                                      *)
LEMMA RamStepCounts ==
  ASSUME Inductive, CountInv, RamStep
  PROVE  CountInv'
<1>1. RamFsm /\ UNCHANGED <<ops, out, reg, succ>>
  BY DEF RamStep, RamCycle
<1>2. CASE RamIdle
  <2>1. CASE SizedReadWait \/ SizedWriteWait
    BY <1>1, <2>1, SameCount DEF SizedReadWait, SizedWriteWait
  <2>2. ~SizedWriteCell
    BY WriteModes DEF SizedWriteCell, CountInv
  <2> QED BY <1>1, <1>2, <2>1, <2>2, AcceptCounts, LastRspCounts, SizedReadCounts
          DEF RamIdle, TargetFsm
<1>3. CASE RamDirUpd \/ RamDataInval \/ RamDataInvalWait
  BY <1>1, <1>3, SameCount DEF RamDirUpd, RamDataInval, RamDataInvalWait
<1> QED BY <1>1, <1>2, <1>3 DEF RamFsm

-----------------------------------------------------------------------------
(* What the initiators do. *)

LEMMA SendCounts ==
  ASSUME Inductive, CountInv, NEW s \in Srcs, EnvSend(s)
  PROVE  CountInv'
<1>1. /\ UNCHANGED <<rsp, ramRegs, reg, succ, ops>> /\ TargetTypeOK /\ OutTypeOK
  BY TypeSplit DEF EnvSend, Inductive
<1>2. PICK c \in {"READ", "LOCKED_READ", "STORE_COND"}, a \in Addr,
           d \in {Zero, Increment(s)}, n \in {1, LineWords} :
        /\ Send(s, c, a, d, Lanes, 1, n)
        /\ c = "STORE_COND" => a = Counter /\ d = Increment(s)
  <2>1. "WRITE" \notin ops
    BY DEF CountInv, NoWrites
  <2>2. Counter \in Addr /\ Starts \subseteq Addr /\ \A b \in Blocks : Base(b) \in Addr
    BY ConstantFacts, StoredAssumption, LinesAssumption DEF Counter
  <2>3. \/ \E b \in Blocks : Send(s, "READ", Base(b), Zero, Lanes, 1, LineWords)
        \/ \E a \in Starts : Send(s, "READ", a, Zero, Lanes, 1, 1)
        \/ Send(s, "LOCKED_READ", Counter, Zero, Lanes, 1, 1)
        \/ Send(s, "STORE_COND", Counter, Increment(s), Lanes, 1, 1)
    BY <2>1 DEF EnvSend, Increment
  <2> QED BY <2>2, <2>3
<1> DEFINE cell == Cell(c, a, d, Lanes, IF c = "WRITE" THEN 1 ELSE n, 1 = 1)
<1>3. /\ out[s].toSend = 0 /\ out[s].toRecv = 0
      /\ cmd' = [cmd EXCEPT ![s] = cell]
      /\ out' = [out EXCEPT ![s] = [cmd |-> c, addr |-> a, toSend |-> 1 - 1, toRecv |-> n]]
  BY <1>2 DEF Send
<1>4. cmd'[s] = cell /\ \A r \in Srcs \ {s} : cmd'[r] = cmd[r] /\ out'[r] = out[r]
  BY <1>1, <1>3 DEF TargetTypeOK, OutTypeOK
<1>5. rsp[s] = NoCell /\ ~AtTarget(s) /\ out'[s].cmd = c
  BY <1>1, <1>3, ServedAwaits DEF Inductive, PacketInv, RspMatches, OutTypeOK
<1>6. cell.cmd = c /\ cell.addr = a /\ cell.be = Lanes /\ cell.data = d
  BY DEF Cell
<1>7. UNCHANGED <<mem, link, mode, cur, sendRsp>>
  BY <1>1 DEF ramRegs
<1>8. NoWrites' /\ ServedCmd'
  BY <1>1, <1>4, <1>5, <1>7 DEF CountInv, NoWrites, ServedCmd, AtTarget, TargetTypeOK
<1>9. ScMatches'
  <2> HIDE DEF cell
  <2> QED BY <1>1, <1>2, <1>4, <1>6 DEF CountInv, ScMatches, Increment
<1>10. LinksFresh'
  <2>1. \A r \in Srcs : LinkedWord(r)' = LinkedWord(r)
    BY <1>1, <1>4, <1>5, <1>7 DEF LinkedWord, LlAtTarget, LlInFlight, AtTarget
  <2> QED BY <1>7, <2>1 DEF CountInv, LinksFresh
<1>11. IncrementsCounted'
  BY <1>1, <1>7 DEF CountInv, IncrementsCounted
<1> QED BY <1>8, <1>9, <1>10, <1>11 DEF CountInv

(* An initiator learns that its store conditional succeeded: the success  *)
(* moves from the response to its count.                                  *)
LEMMA TakeRspCounts ==
  ASSUME Inductive, CountInv, NEW s \in Srcs, EnvTakeRsp(s)
  PROVE  CountInv'
<1>1. /\ TargetTypeOK /\ OutTypeOK /\ rsp[s] # NoCell
      /\ UNCHANGED <<cmd, ramRegs, ops>>
      /\ rsp' = [rsp EXCEPT ![s] = NoCell]
      /\ succ' = IF rsp[s].ok THEN succ + 1 ELSE succ
  BY TypeSplit DEF EnvTakeRsp, Inductive
<1>2. UNCHANGED <<mem, link, mode, cur, sendRsp>>
  BY <1>1 DEF ramRegs
<1>3. cmd[s] = NoCell
  BY <1>1 DEF Inductive, PacketInv, CmdMatches
<1>4. /\ rsp'[s] = NoCell
      /\ \A r \in Srcs \ {s} : rsp'[r] = rsp[r] /\ out'[r] = out[r] /\ reg'[r] = reg[r]
  BY <1>1 DEF EnvTakeRsp, TargetTypeOK, OutTypeOK
<1>5. AtTarget(s) => mode = "SIZED_READ" /\ cur.cmd = "READ" /\ out'[s].cmd = out[s].cmd
  <2>1. SUFFICES ASSUME AtTarget(s)
                 PROVE  mode = "SIZED_READ" /\ cur.cmd = "READ" /\ out'[s].cmd = out[s].cmd
    OBVIOUS
  <2>2. mode = "SIZED_READ" /\ cur.cmd = "READ"
    BY <1>1, <2>1, WriteModes DEF CountInv
  <2>3. out[s].toRecv # 1
    BY <1>1, <2>1, <2>2
       DEF Inductive, PacketInv, TargetMatches, ReadingLine, AtTarget, TargetTypeOK
  <2>4. out' = [out EXCEPT ![s] = [out[s] EXCEPT !.toRecv = @ - 1]]
    BY <2>3 DEF EnvTakeRsp
  <2>5. out[s] \in [cmd : Cmds, addr : Addr, toSend : Nat, toRecv : Nat]
    BY <1>1 DEF OutTypeOK
  <2> QED BY <1>1, <2>2, <2>4, <2>5 DEF OutTypeOK
<1>6. out'[s].cmd # "WRITE"
  <2> DEFINE rest == [out[s] EXCEPT !.toRecv = @ - 1]
  <2>1. out'[s] = Idle \/ out'[s] = rest
    BY <1>1 DEF EnvTakeRsp, OutTypeOK
  <2>2. rest.cmd = out[s].cmd
    BY <1>1 DEF OutTypeOK
  <2> HIDE DEF rest
  <2> QED BY <2>1, <2>2 DEF CountInv, NoWrites, Idle
<1>7. NoWrites' /\ ServedCmd' /\ ScMatches'
  <2>1. NoWrites'
    BY <1>1, <1>4, <1>6 DEF CountInv, NoWrites
  <2>2. ServedCmd'
    BY <1>1, <1>2, <1>4, <1>5 DEF CountInv, ServedCmd, AtTarget, TargetTypeOK
  <2>3. ScMatches'
    BY <1>1, <1>3, <1>4 DEF CountInv, ScMatches, Increment
  <2> QED BY <2>1, <2>2, <2>3
<1>8. LinksFresh'
  <2>1. ASSUME NEW r \in Srcs \ {s}
        PROVE  LinkedWord(r)' = LinkedWord(r)
    BY <1>2, <1>4 DEF LinkedWord, LlAtTarget, LlInFlight
  <2>2. LinkedWord(s)' = LinkedWord(s)
    <3>1. ~LlAtTarget(s) /\ ~LlAtTarget(s)' /\ ~LlInFlight(s)'
      BY <1>2, <1>4, <1>5 DEF LlAtTarget, LlInFlight, AtTarget
    <3>2. reg'[s] = IF out[s].cmd = "LOCKED_READ" THEN rsp[s].data ELSE reg[s]
      BY <1>1 DEF EnvTakeRsp, OutTypeOK
    <3> QED BY <1>1, <3>1, <3>2 DEF LinkedWord, LlInFlight
  <2>3. ASSUME NEW r \in Srcs
        PROVE  LinkedWord(r)' = LinkedWord(r)
    BY <2>1, <2>2
  <2> QED BY <1>2, <2>3 DEF CountInv, LinksFresh
<1>9. IncrementsCounted'
  <2> DEFINE T == OkRsp
  <2>1. T \in SUBSET Srcs /\ IsFiniteSet(T) /\ Cardinality(T) \in Nat /\ succ \in Nat
    BY <1>1, OkRspFinite DEF OkRsp, OutTypeOK
  <2>2. OkRsp' = T \ {s} /\ (s \in T <=> rsp[s].ok)
    BY <1>1, <1>4 DEF OkRsp
  <2>3. Cardinality(T \ {s}) = IF s \in T THEN Cardinality(T) - 1 ELSE Cardinality(T)
    BY <2>1, FS_RemoveElement
  <2>4. mem[Counter][0] = succ + Cardinality(T) + OkToSend /\ OkToSend \in Nat
    BY CountedAs DEF CountInv, OkToSend
  <2> HIDE DEF T
  <2>5. succ' + Cardinality(OkRsp') = succ + Cardinality(T)
    BY <1>1, <2>1, <2>2, <2>3
  <2>6. OkToSend' = OkToSend
    BY <1>2 DEF OkToSend
  <2>7. mem'[Counter][0] = succ' + Cardinality(OkRsp') + OkToSend'
    BY <1>2, <2>4, <2>5, <2>6
  <2> QED BY <2>7 DEF IncrementsCounted, OkRsp, OkToSend
<1> QED BY <1>7, <1>8, <1>9 DEF CountInv

-----------------------------------------------------------------------------
LEMMA InitCounts ==
  ASSUME Init, "WRITE" \notin ops
  PROVE  CountInv
<1>1. /\ cmd = [s \in Srcs |-> NoCell] /\ rsp = [s \in Srcs |-> NoCell]
      /\ out = [s \in Srcs |-> Idle] /\ link = [s \in Srcs |-> NoLink]
      /\ mode = "IDLE" /\ sendRsp = FALSE /\ mem = [a \in Addr |-> Zero] /\ succ = 0
  BY DEF Init, NocInit, RamInit
<1>2. NoWrites /\ ServedCmd /\ ScMatches
  BY <1>1 DEF NoWrites, ServedCmd, ScMatches, Idle
<1>3. LinksFresh
  BY <1>1 DEF LinksFresh, NoLink, Counter
<1>4. IncrementsCounted
  <2>1. {s \in Srcs : rsp[s] # NoCell /\ rsp[s].ok} = {}
    BY <1>1
  <2>2. mem[Counter][0] = 0
    BY <1>1, ConstantFacts, LanesAssumption DEF Counter, Zero
  <2> QED BY <1>1, <2>1, <2>2, FS_EmptySet DEF IncrementsCounted
<1> QED BY <1>2, <1>3, <1>4 DEF CountInv

(* Every step keeps the count.                                            *)
LEMMA NextCounts ==
  ASSUME Inductive, CountInv, [Next]_vars
  PROVE  CountInv'
<1>1. CASE RamStep
  BY <1>1, RamStepCounts
<1>2. ASSUME NEW s \in Srcs, EnvSend(s) \/ EnvSendNext(s) \/ EnvTakeRsp(s)
      PROVE  CountInv'
  <2>1. ~EnvSendNext(s)
    BY DEF EnvSendNext, Inductive, PacketInv, PacketFits, CountInv, NoWrites
  <2> QED BY <1>2, <2>1, SendCounts, TakeRspCounts
<1>3. ASSUME NEW p \in Procs, CacheAck(p)
      PROVE  CountInv'
  <2>1. UNCHANGED <<targetVars, ops, out, reg, succ>>
    BY <1>3 DEF CacheAck, targetVars, ramRegs
  <2> QED BY <2>1, SameCount
<1>4. CASE UNCHANGED vars
  <2>1. UNCHANGED <<targetVars, ops, out, reg, succ>>
    BY <1>4 DEF vars, ramVars, nocVars, envVars, targetVars, ramRegs
  <2> QED BY <2>1, SameCount
<1> QED BY <1>1, <1>2, <1>3, <1>4 DEF Next

(* LL/SC makes increments atomic: as long as initiators write with store   *)
(* conditionals alone, the word they increment is the number of those that *)
(* answered STORE_COND_ATOMIC, for any number of initiators.               *)
THEOREM IncrementsAreCounted == Spec /\ "WRITE" \notin ops => []IncrementsCounted
<1>1. Init /\ "WRITE" \notin ops => Inductive /\ CountInv
  BY InitInductive, InitCounts
<1>2. Inductive /\ CountInv /\ [Next]_vars => (Inductive /\ CountInv)'
  BY NextInductive, NextCounts
<1>3. CountInv => IncrementsCounted
  BY DEF CountInv
<1> QED BY <1>1, <1>2, <1>3, PTL DEF Spec
=============================================================================
