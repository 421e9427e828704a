------------------------------- MODULE VciNoc -------------------------------
(***************************************************************************)
(* What the components of a platform share: the address map, the words     *)
(* that travel, and the two interconnects.                                 *)
(*                                                                         *)
(* The request network carries VCI command cells to the memory and         *)
(* response cells back; the invalidation network (`mt_inv' in the          *)
(* constructors) carries invalidation commands from the memory to the      *)
(* caches and their acknowledgements back.  Each link is one place deep:   *)
(* a cell that is in the place is in flight, and the receiver may take it  *)
(* at any later cycle of its own, so every latency and every relative      *)
(* order of the four kinds of messages is covered.                         *)
(***************************************************************************)
EXTENDS Integers

CONSTANTS
  NbProcs,    \* m_NB_PROCS: the number of coherent initiators (caches)
  NbSrcs,     \* VCI initiators; those from NbProcs on are not coherent
  NbWords,    \* words of the memory segment
  LineWords,  \* words of a cache line (a directory block)
  Lanes,      \* byte lanes of a word
  Val,        \* contents of one lane
  NoCell,     \* an empty place on the request network
  NoBlock     \* an empty place on the invalidation network, an invalid tag

ASSUME NbProcsAssumption   == NbProcs \in Nat \ {0}
ASSUME NbSrcsAssumption    == NbSrcs \in Nat /\ NbProcs <= NbSrcs
ASSUME NbWordsAssumption   == NbWords \in Nat \ {0}
ASSUME LineWordsAssumption == LineWords \in Nat \ {0}
ASSUME LanesAssumption     == Lanes \subseteq Nat /\ 0 \in Lanes
ASSUME ValAssumption       == 0 \in Val /\ Val \subseteq Nat

Procs == 0 .. NbProcs - 1
Srcs  == 0 .. NbSrcs - 1
Addr  == 0 .. NbWords - 1

(* A word, and the block (cache line) an address belongs to. *)
Word     == [Lanes -> Val]
Zero     == [l \in Lanes |-> 0]
Block(a) == a \div LineWords
Base(b)  == b * LineWords
Blocks   == {Block(a) : a \in Addr}

(* A segment is made of whole lines. *)
ASSUME LinesAssumption ==
  \A b \in Blocks : Base(b) \in Addr /\ Base(b) + LineWords <= NbWords

(* A store of d into old under the byte enable be. *)
Merge(old, d, be) == [l \in Lanes |-> IF l \in be THEN d[l] ELSE old[l]]

Cmds == {"READ", "LOCKED_READ", "STORE_COND", "WRITE"}

(* `cells' is what plen says: the cells of a write packet, or of the       *)
(* response to a read.                                                     *)
CmdCell == [cmd : Cmds, addr : Addr, data : Word, be : SUBSET Lanes,
            cells : Nat \ {0}, eop : BOOLEAN]

(* `ok' is the STORE_COND_ATOMIC answer to a store conditional.            *)
RspCell == [data : Word, ok : BOOLEAN, error : BOOLEAN, eop : BOOLEAN]

ASSUME NoCellAssumption  == NoCell \notin CmdCell /\ NoCell \notin RspCell
ASSUME NoBlockAssumption == NoBlock \notin Blocks

VARIABLES
  cmd,     \* cmd[s]: the command cell of initiator s in flight
  rsp,     \* rsp[s]: the response cell to initiator s in flight
  invCmd,  \* invCmd[p]: the invalidation in flight to cache p
  invRsp   \* invRsp[p]: an acknowledgement of cache p is in flight

nocVars == <<cmd, rsp, invCmd, invRsp>>

NocTypeOK ==
  /\ cmd \in [Srcs -> CmdCell \cup {NoCell}]
  /\ rsp \in [Srcs -> RspCell \cup {NoCell}]
  /\ invCmd \in [Procs -> Blocks \cup {NoBlock}]
  /\ invRsp \in [Procs -> BOOLEAN]

NocInit ==
  /\ cmd = [s \in Srcs |-> NoCell]
  /\ rsp = [s \in Srcs |-> NoCell]
  /\ invCmd = [p \in Procs |-> NoBlock]
  /\ invRsp = [p \in Procs |-> FALSE]
=============================================================================
