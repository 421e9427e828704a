---------------------------- MODULE AtomicMemory ----------------------------
(***************************************************************************)
(* What a processor expects behind its data port, whatever is there: a     *)
(* memory that performs one request at a time, when it answers it.         *)
(***************************************************************************)
EXTENDS VciNoc

CONSTANT NoReq

VARIABLES
  contents,  \* contents[a]: the word at a
  request,   \* the request of the processor
  value      \* the word that answered its last load

amVars == <<contents, request, value>>

Loads == {"DATA_READ", "DATA_LL"}

AmInit ==
  /\ contents \in [Addr -> Word]
  /\ request = NoReq
  /\ value = Zero

Issue ==
  /\ request = NoReq /\ request' # NoReq
  /\ UNCHANGED <<contents, value>>

Load ==
  /\ request # NoReq /\ request.type \in Loads
  /\ value' = contents[request.addr]
  /\ request' = NoReq /\ UNCHANGED contents

Store ==
  /\ request # NoReq /\ request.type = "DATA_WRITE"
  /\ contents' = [contents EXCEPT ![request.addr] = Merge(@, request.data, request.be)]
  /\ request' = NoReq /\ UNCHANGED value

(* XTN_SYNC and XTN_DCACHE_INVAL do not change what the processor sees. *)
Extension ==
  /\ request # NoReq /\ request.type \in {"XTN_SYNC", "XTN_DCACHE_INVAL"}
  /\ request' = NoReq /\ UNCHANGED <<contents, value>>

AmNext == Issue \/ Load \/ Store \/ Extension
AmSpec == AmInit /\ [][AmNext]_amVars
=============================================================================
