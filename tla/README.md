# A formal model of the DMoC coherent-memory components

This directory keeps TLA+ specifications of the SoCLib components of this
repository: the directory-based coherent cache (`vci_cc_cache`) and memory
controller (`vci_cc_ram`), the cache and memory of the migration platform
(`vci_mcc_cache`, `vci_mcc_ram`), and the protocol by which memories exchange
pages over a ring (`module_6`, `module_10`). TLC checks them on small platforms;
TLAPS proves, for every number of caches and every size of memory, the memory
controller, its presence bits, LL/SC, the packets and assertions of the caches, the
coherence of caches and controller together, that the migration cache never uses a
frame for a page that has left it, and that each of the two caches is, behind the port of
its processor, a plain memory.

1. [The system](#1-the-system) (inventory)
2. [Modules](#2-modules)
3. [Runs](#3-runs)
4. [Proofs](#4-proofs)
5. [Disagreements between code and comments](#5-disagreements-between-code-and-comments)
6. [Not modelled, and the plan](#6-not-modelled-and-the-plan)

## 1. The system

The repository holds cycle-accurate SystemC components of a multiprocessor with
shared memory. `k` processors (instruction-set simulators of the SoCLib library)
each sit behind a cache; caches and memories exchange VCI packets over a request
network; memories send invalidations to caches over a second network (`mt_inv`
in the constructors), or over the same one. A second family of components
(`mcc`) adds virtual memory and the *migration* of pages: when the counters of a
memory see contention on a page, the memories agree over a ring on a pair of
frames and exchange what they hold.

| component | state | operations | talks to |
|---|---|---|---|
| `vci_cc_cache` | DCACHE, ICACHE, REQ, RSP, INV state machines; tags and lines; FIFO-input cell and write buffer; retry flags | one `transition()` per clock edge | processor (call), memory (VCI), invalidation port |
| `generic_buffer` | cells, read and write pointers | `simple_put`, `simple_get`, `init`, `init_read` | owned by the cache |
| `vci_cc_ram` core | RAM_FSM, INV_FSM, directory, saved request, block state of the invalidation round | `transition()`, `on_read`, `on_write` | target state machine (callbacks), S-RAM, invalidation port |
| `vci_target_fsm_nlock` | mode, current command, cells to go, pending response | `transition()`, `handle_one()` | request network; calls `on_read`/`on_write` |
| `linked_access_buffer_mcc` | a reserved address per initiator | `doLoadLinked`, `accessDone`, `isAtomic`, `clearPage` | owned by the target state machine |
| `directory` | presence bits, in slices of 32 | `Set_p`, `Reset_p`, `Reset_all`, `Is_Other`, `Get_next_id`... | owned by the memory |
| `cc_id_table` | initiator id to coherent id to target id | `translate_to_id`, `translate_to_target` | read by the memory |
| `generic_sram` | words | read, write under byte enable, `reload` | memory core |
| `vci_mcc_cache`, `tlb_32` | as `vci_cc_cache`, and a TLB, two buffers of TLB invalidations, an acknowledgement to send again | the same, and TLB misses, invalidations and acknowledgements | migration memory |
| `vci_mcc_ram`, `vci_target_fsm_nlock_tlb`, `phys_page_table` | as `vci_cc_ram`, and poisoned pages, page table, directory of TLBs | `on_tlb_miss`, `on_tlb_ack`; refuse (NACK) or answer; page copy, TLB invalidation | modules 5 to 10 |
| `module_5`, `7`, `8`, `9` | access counters, contention, page to move | count, elect, raise a contention | memory, `module_10` |
| `module_10` | the migration of this node: master or slave, page, fifo of counters | one `compute()` per cycle | `module_6`, counters, memory |
| `module_6`, `micro_ring` | four state machines (location, control, update, transfer), token, pending locks and updates, two ring fifos | one `compute()` per cycle | `module_10`, memory, the two neighbours on the ring |
| `vci_dspinplus_*` | flit state machines, FIFOs | VCI to DSPIN and back | networks |

What is hard here:

* **Everything is concurrent.** All state machines of a component move on the
  same clock edge and read the registers as they were before it; two of them may
  write the same register, and the one evaluated last wins. Components are
  linked by networks of unknown latency.
* **One-cycle signals.** `r_DRSP_OK` lives for one cycle and may arrive while
  DCACHE_FSM is away in DCACHE_RAMINVAL; `r_DCACHE_RAM_INVAL_REQ` goes up one
  cycle before the address it is about; `CMD_ELECT` is driven for one cycle.
* **Races between a line and its invalidation.** A store clears the presence bits
  before its invalidations leave; a cache may fetch the line again meanwhile; an
  invalidation may overtake the line. The same holds of a translation and the
  invalidation of the TLB.
* **Blocking.** RAM_FSM stops serving while an earlier invalidation round ends, in
  the middle of a packet if need be. A request to a poisoned frame is refused
  until the exchange is over, and the exchange waits for the cache that made it.
* **Refusals.** A response cell with an error makes the cache send the packet
  again, out of a buffer that has been read, and perhaps to another frame.
* **Agreement on the ring.** Several nodes want the token at a time; requests
  are put aside, passed on and retried; the two nodes of an exchange act in
  three state machines each, joined by one-bit flags.

`PROJECT.json` lists these hazards one by one, with the line where each bites and
the properties that would show it going wrong.

What makes each modelled component correct:

* *memory controller*: the directory never loses a copy; assertions never fire;
  responses match requests; every request is answered; LL/SC is atomic;
* *cache*: its processor port is a plain memory, whatever the write buffer,
  refusals and invalidations do; every request is answered;
* *platform*: a copy that differs from memory is about to be dropped; the loads
  of a processor never go back in the memory order of a word;
* *migration cache*: the same while pages move; no accessible frame is addressed
  for a page it does not hold; a stale translation is about to be dropped;
* *ring*: one token, no request lost, a migration that starts ends; frames hold
  whole pages, each page in one frame, and the homes know where.

## 2. Modules

```
VciNoc                      words, addresses, the two networks
 +- CcRamCore               vci_cc_ram core + target fsm + LL/SC buffer + directory
 |   +- CcRamSystem         closed by the most general VCI initiators
 |   |   +- CcRamProps      its properties and the inductive invariant
 |   |       +- CcRamProofs the theorems; LL/SC counts its increments
 |   +- MccRamCore          vci_mcc_ram core + target fsm (tlb), as built
 +- VciCcCache              vci_cc_cache + generic_buffer
 |   +- VciCcCacheProofs    lemmas about one cycle of a cache, whatever it is connected to
 |   +- CcCacheSystem       one cache closed by the most general memory
 |   |   +- CcCacheProps    its properties; refinement of AtomicMemory
 |   |       +- CcCacheProofs    (with VciCcCacheProofs) its packets
 |   +- VciMccCache         vci_mcc_cache + tlb_32
 |       +- MccCacheSystem  one cache while the pages of two frames are exchanged
 |           +- MccCacheProps
 |               +- MccCacheProofs (with VciCcCacheProofs) translations and tokens
 |                   +- MccPortProofs  the port is a plain memory while pages move
 +- MccPages                pages and frames (used by VciMccCache, MccRamCore)
 +- AtomicMemory            what a processor expects behind its port
 CcRamCore + VciCcCache
     +- CcPlatform          caches + memory controller
         +- CcPlatformProps
             +- CcPlatformProofs     (with VciCcCacheProofs, CcRamProofs) ports and
                                     assertions; the directory is complete, stale copies
                                     are doomed, reads follow memory order
 CcPlatform + VciMccCache + MccRamCore
     +- MccPlatform         migration caches + their memory controller
         +- MccPlatformProps

Directory                   presence bits in slices, as the memory uses them
 +- PresenceSet             two sets of caches: what the slices implement
 +- DirectoryProofs         that they do, for every number of caches

Module6 + Module10
 +- MigrationRing           NbMem nodes on the ring, their memories and counters
     +- MigrationProps      properties; refinement of PageExchange
         +- MigrationLive   the ring under fairness
         +- MigrationProofs there is one token, for every size of the ring
 +- PageExchange            pages leave and enter frames
```

**A step is a clock edge.** `RamCycle` and `CacheCycle(p, ..)` are one rising edge
of one component: a conjunction, one conjunct for each of its state machines,
each a disjunction of its states. Registers are `sc_signal`s, so that every
conjunct reads unprimed variables. Members that are plain C++ (`m_mode`,
`m_send_rsp`, the block state) are read where the code reads them, after the
assignments before it in the same call: `AfterPeer` is `m_send_rsp` after the
first lines of `VciTargetFsmNlock::transition`; `RsNow` and `SetDm` are the
registers that REQ_FSM resets in the same cycle. The clocks of caches and memories
interleave: they share nothing but the networks, and since a cell may
stay on a link for any number of steps, every relative timing of two components
is the interleaving of some delays. On the ring there is no network to hide
behind: all nodes share one clock, and `Tick` is one cycle of all of them.

**Networks** are one place per initiator and direction. A cache has one packet in
progress (REQ_FSM waits in REQ_DWAIT/REQ_IWAIT for the response), the memory one
invalidation, so that a deeper link would never hold more than the cells of one
packet. The place is free when the receiver has taken the cell, which is
`cmdack`/`rspack` of the VCI handshake.

**Workloads.** `Workloads` (in every system of caches) is a set of sets of request
types; a behaviour has one of them from beginning to end (`types`). Interleaving
all types at once only multiplies the states; the pairs that interact share a
workload.

**State of `CcRamCore`**: `ramFsm`, `ramInvFsm` are `r_RAM_FSM`, `r_INV_FSM`;
`blockState`, `invBlock`, `invTarget` the `r_INV_*` registers; `directory[b]` the
set of presence bits of a block; `sav` the `r_SAV_*` registers; `mem` the S-RAM;
`link` the linked-access buffer; `mode`, `cur`, `cellsToGo`, `sendRsp` the members
of the target state machine. `node_id = -1` (an initiator that does not take part
in coherence) is an initiator outside `Procs`: no directory entry holds it, so
`OtherSharers(s, b)` is both `Is_Other(node_id)` and `!Is_empty()`.
`MODE_WAIT` is unreachable (`DEADLOCK_NACK_POLICY` is not defined, `is_busy()`
returns false) and so are the two `FLUSH_CMD` modes (they need a read packet of
several cells, which no initiator here sends). `r_IN_TRANSACTION` is written and
never read in this controller, and is left out.

**State of `VciCcCache`**: one record per group of registers, named in the module.
`dm` holds the registers of the write path (REQ, PENDING_WRITE, FLUSH_WB_REQ,
FIRST_CELL, the FIFO_INPUT cell, the two byte enables, the burst size), `wb` the
two generic buffers as one queue of cells with a read pointer, `rs` the RSP_FSM
with its buffers and the one-cycle OK flags. Abstractions:

* `r_DCACHE_WUPDT_DATA_SAVE` is not kept: DCACHE_WUPDT is the cycle after the
  hit, no one writes the line in between, so the word it merges into is the
  word of the line.
* The extension request XTN_DCACHE_INVAL looks the line up at the address of the
  extension register itself; the model lets that address be any, which covers it.
* What instructions say is not modelled, only their tags and misses.
* The processor holds a request until it is answered, as the ISS does; it may
  send any request in any order. LL and SC address whole words (asserted by
  `genMoore`).
* `PageStarts` stands for `dcache_address & (PAGE_SIZE-1) == 0`.

**State of `Directory`**: `nbP` is NB_P, chosen by Init and fixed from then on;
`entry` is the `SOCLIB_DIRECTORY` of one block, `round` is `r_INV_BLOCKSTATE`, both
functions from slice numbers to the set of the bits that are 1. `kick` is the cycle
in which RAM_FSM is in RAM_DATA_INVAL_WAIT and INV_FSM still idle, `target` the cache
being told. on_write and RAM_DATA_INVAL are one action (`DirStoreShared`): nobody
writes the entry between them, and `CcRamCore`, which keeps them apart, proves so.
`CcRamCore` works on plain sets; `Directory` implementing `PresenceSet` is why it
may.

**State of `VciMccCache`**: that of `VciCcCache` and four functions. `tlb` is `m_TLB`
(tag and frame of each entry), `va` the virtual and physical addresses that REQ_FSM
keeps, `ti` the two TLB invalidation buffers, `ta` the acknowledgement to send
(again). ICACHE_FSM and DCACHE_FSM are those of `VciCcCache`: the two sources differ
there only in names, traces and XTN_DCACHE_INVAL. A frame has the number of the page
it holds at reset.

**State of `MccRamCore`**: `mcc_ram_core.h:31` and `vci_mcc_ram.h:31` define
`NOCTRL`. In that build no command of the migration control is compiled, nothing is
ever poisoned, the page table stays the identity, and RAM_FSM reaches RAM_IDLE and
the states of the directory only. That build is what `MccRamCore` models, with
`ptDirectory` (`s_PT_DIRECTORY`) as its only new variable. The build without NOCTRL
does not exist at this commit: `mcc_ram_core_moore.cpp:115` does not compile
(`msldfj`), `mcc_ram_core_transition.cpp:241` asserts false in the first TLB
invalidation. What the migration control would ask of the memory is known from its
users, and the two systems that need it model it as their environment:
`MccCacheSystem` as seen by a cache, `MigrationRing` as seen by `module_6` and
`module_10`.

**State of `Module6` and `Module10`**: `m6[n]` and `m10[n]` are records with the
registers of a node, under the names of the source without `r_ctrl_`, `r_updt_` and
so on. The modules are written as functions from the registers and input ports
to the registers after the cycle: `s` is what the `sc_signal`s show, `w` collects
the writes in the order in which `compute()` calls the four state machines, so that
the last writer wins and a fifo port taken by one is not free for the next. Flits
are records; addresses are frame numbers; a page is `PageLines` lines of
`LineWords` words, each word with a value of its own, so that a word that is lost
or lands in the wrong place shows.

**State of `MigrationRing`**: `signal` and `cpu` are the counters and the processor
at the ports of `module_10`; `ram`, `inval`, `mem`, `dir`, `wiam`, `virt`, `poisoned`
the memory of each node; `tlb[p]` the frames where a TLB may still look for page `p`.
The counters are not modelled: a contention, the page to move, the values of the
counters and the pressure are any value of a small set at the time they are read.
**State of `MccCacheSystem`**: `holds`, `home`, `poisoned`, `move` are the same from
the cache's side: frames are poisoned one by one, then contents, page tables and
translations change in any order, and a frame is accessible again when no
translation leads to the page that left it. That is what `TranslationsSafe` and
`MovesPoisoned` say of the ring, so the two halves meet in these properties.

**Abstract specifications.** `AtomicMemory` performs one request at a time, in the
step that answers it. `CcCacheProps!Port` maps the cache to it: the contents of a
word are the FIFO-input cell if it is pending there, else its cell of the write
buffer, else memory; `MccCacheProps!Port` does the same through the frame that
holds the page. `PresenceSet` is the directory entry and the block state as two
sets; `Directory!SetOfCaches` maps the slices to the caches whose bit is set, and
the target of INV_FSM still counts as to be told until it acknowledges.
`PageExchange` knows frames and pages only: a frame loses its page when it is
poisoned and gets one that no accessible frame holds. `MigrationProps!Exchange`
computes the page of a frame from its words, its directory entries and its
who-am-I, and gives a frame with parts of two pages a value that `PageExchange`
never gives.

**History variables.** `holders` (`CcRamSystem`) records which caches may hold a
block: from the cycle the last cell of a read leaves until they acknowledge an
invalidation. `succ` counts successful store conditionals. `order[a]` and
`seen[p][a]` (`CcPlatform`) are the values of a word in memory order and the
latest one each processor has read or written there; stores write different
numbers, so that a value names its position. `fresh` (`Directory`) are the caches
that read the block after its last store. No guard reads them.

**Mutants.** A definition preceded by a comment `Mutant:` is not part of the model.
It is the definition that follows it with a plausible bug, and `PROJECT.json`
("mutants") says which property notices when it takes its place.

## 3. Runs

Times are with two workers. Deadlock is checked in every run.

| run | question | bounds | result |
|---|---|---|---|
| `cc_ram` | does the directory know all copies, does LL/SC count, do packets survive a round in their middle, is every request answered? | 1 cache and 1 initiator that is not coherent, 2 lines of 2 words, bursts of 2 cells that cross the line, 2 increments | 285K states, 2.5 min |
| `cc_ram_ack` | is a store answered after its invalidations? (comment in the code) | 2 caches, 1 word | **violated**, see 5 |
| `cache` | do refused packets replay correctly, and does the port implement `AtomicMemory` for all requests? | 1 cache, line of 2 words, 2 lanes, 1 NACK, any number of invalidations, 5 workloads | 3.7M states, 2 min |
| `cache_be` | is the byte enable of the last cell that of the last store? (comment in the code) | line of 2 words, 2 lanes | **violated**, see 5 |
| `platform_burst` | coherence with write bursts | 2 caches, 1 line of 2 words, 2 stores | 1.7M states, 1.5 min |
| `platform_live` | coherence of LL, SC, fetches and bypassing requests; is every request answered on the whole platform? | 2 caches, 1 word, 1 store, one fetcher, 4 workloads | 49K states, 2 min |
| `directory` | do the slices act as sets of caches, and do rounds end? | 1, 30, 31, 32, 62, 63 or 64 caches, of which up to 6 access the block | 6K states |
| `ring` | lock, pairing, exchange of two pages, assertions; does every migration end? | 3 nodes, 1 frame each of 1 line of 2 words, 2 contentions signalled (or counters taken) | 132K states, 1.5 min |
| `ring_elect` | does an elected node migrate the page it elected? (comment in the code) | as `ring`, processors take the counters at any time | **violated**, see 5 |
| `mcc_cache` | is the port a plain memory while pages move; do requests and exchanges end? | 1 cache, TLB of 2 entries, 2 pages of 1 word, 2 exchanges, 1 NACK other than those of poisoned frames | 464K states, 3 min |
| `mcc_platform` | coherence with one round per write packet; does the home know the TLBs? | 2 caches, TLB of 1 entry, 1 page of 1 line of 2 words, 2 stores | 1.8M states, 2 min |
| `mcc_burst` | the same when a burst crosses a line of the page | 2 caches, 1 page of 2 lines | **violated**, see 5 |

Why the bounds are enough for what each run asks:

* *Two caches.* The controller treats the source of a store and the others
  differently and sends invalidations one after the other; with two caches every
  cache is source and target in turn. A round over several targets is covered for
  every number of caches by the proofs. In `cc_ram` the second initiator is one that
  is not coherent: it competes for the target state machine, stores and breaks
  reservations, and its stores invalidate the cache.
* *One slot per cache* makes every access to another line an eviction; *lines of
  two words* make multi-cell responses and bursts; *two lanes* make partial stores,
  merges and refused merges.
* *`MaxStores`* bounds stores, not loads or misses: a stale value needs one store,
  two stores to a line give a burst and its order.
* *`MaxNacks`, `MaxCount`* bound refusals and increments. One refusal reaches each
  place of a packet; two increments reach all interleavings of two LL/SC sequences.
* *30 to 32 and 62 to 64 caches* are where a slice is added and where the highest
  presence bits come next to M and E; the ids are the lowest and those next to the
  same boundaries.
* *`PartialAt`* names the words that may be stored in part. In `cache` it is
  the first word of the line: with the second one as well the burst of
  `cache_be` would also break the refinement, for the reason given in 5.
* *Three nodes and two events* (`MaxRaised`): the master, the partner that it
  chooses and a third node that forwards, competes for the token or is the home of
  a page; the second event comes at any time of the first exchange. One event
  alone makes no two nodes want the lock. The pressure is 0, or 4 (the
  threshold): the latter makes all costs equal to the maximum and the master
  abort. `RingFifoSize = 3` is the value of the code; `UpdtFifoSize = 4` is more
  than the updates that two nodes send. `TimeToWait` is 1 instead of 1024 cycles:
  a longer time delays the next contention, which here may be delayed anyway.
  `CountersUsed = "at rest"` keeps processors from taking the counters during an
  exchange, which is the subject of `ring_elect`.
* *Two exchanges* (`MaxMoves`) of the same two frames bring every page back to
  where it was, while an invalidation of the first one may still be on its way.
* *One page of one line* in `mcc_platform`: there a burst cannot cross a line, and
  `mcc_burst` shows what happens when it can.

**Properties.** `HoldersKnown`, `DirectoryCovers`: a copy is in the directory or
doomed. `StaleCopiesAreDoomed`: a copy that differs from memory, other than by
its own processor's pending stores, is doomed, where "doomed" follows the
invalidation from the saved request through INV_FSM and the network to
DCACHE_FSM. `MccStaleCopiesAreDoomed`: the same, where the last cell of a write
packet may be still to come. `ReadsFollowMemoryOrder`, `MccReadsFollowMemoryOrder`:
per word and processor, loads never go back. `IncrementsCounted`: the shared word
equals the successful store conditionals, also those whose answer is on its way (it
is about programs that write the word by LL/SC only, so `WRITE` and LL/SC are in
different workloads). `AssertionsHold`, `CacheAssertionsHold`, `MccAssertionsHold`,
`RingAssertionsHold`: the `assert()`s of the code. `ResponsesExpected`,
`BufferMatchesPacket`: packets agree with their senders. `PortIsAtomicMemory`,
`MccPortIsAtomicMemory`: the refinements of `AtomicMemory`. `DirectoryInv`,
`TargetsExist`, `ActsAsSet`, `RoundsEnd`: no bit outside the caches, a target for
each step of a round, the refinement of `PresenceSet`, and rounds end.
`RightFrame`: a frame that accepts requests is never addressed for another page
(`check_virtual_access()` of the memory, which its build leaves out).
`StaleTranslationsAreDoomed`, `TranslationsRecorded`: a translation that is not that
of the home has its invalidation coming, and the home knows whom to tell. `OneToken`,
`RequestNotLost`, `Paired`: the lock. `MovesPoisoned`, `TranslationsSafe`,
`ImplementsExchange`, `CleanAtRest`: contents change in poisoned frames only, no
TLB leads to a frame with another page, the exchange is one, and nothing is left
behind for the next. `RequestsAnswered`, `RequestsCompleted`, `ProcessorsAnswered`,
`ExchangesEnd`, `MigrationsEnd`: liveness.

**Fairness.** Weak fairness of a component's step is its clock. Weak fairness of
taking a response, an acknowledgement, an invalidation or the next cell of a packet
says that a network delivers what it carries; in `Directory`, weak fairness of
`InvRound` says that INV_FSM is clocked and each cache acknowledges. Strong fairness
of `AcceptCmd(s)` says that the arbiter of the request network is round-robin: the
memory leaves MODE_IDLE again and again, and the command of an initiator is chosen
eventually. In `MigrationLive` the clock of the ring goes on and a memory ends
the request it has accepted; nothing else is assumed of the four state machines or
the fifos. In `MccCacheSystem` an exchange that has begun goes on: weakly for steps
that stay enabled, strongly for poisoning (which waits for a moment without a
packet) and for sending an invalidation (which waits for a free link that other
invalidations use). Processors need not issue requests, memories need not send
invalidations, contentions need not be signalled. The last store of a burst stays in
the cache until another request comes (the flush on an idle cycle is disabled by
`#if 0`); no property claims otherwise, and "answered" means answered to the
processor.

## 4. Proofs

`CcRamProofs` proves, for every number of caches and initiators, segment, line
size, word and burst length that the assumptions of `VciNoc` and `CcRamSystem`
allow:

| theorem | says |
|---|---|
| `InductiveInvariant` | `Spec => []Inductive` |
| `RamTypeCorrect` | `Spec => []RamTypeOK` |
| `ResponsesAreExpected` | `Spec => []ResponsesExpected` |
| `AssertionsNeverFire` | `Spec => []AssertionsHold` |
| `DirectoryKnowsHolders` | `Spec => []HoldersKnown` |

The assumptions are those on constants: positive sizes, at least as many
initiators as caches, a segment of whole lines, model values that are no cell and
no block. TLC evaluates them in every run. `MccCacheProofs` also uses those of
`MccPages` and `VciMccCache`: a segment is made of whole pages (the memory divides
`m_segment.size()` by `PAGE_SIZE`, `mcc_ram_core.cpp:126`), a line lies in one page
(`mcc_globals.h:42` has pages of 512 bytes, `vci_mcc_cache.cpp:176` lines of a power of
two of at most 16 words), and again what is no cell and no invalidation.

None of the properties is inductive by itself. `Inductive` adds:

* `PacketInv`: what each initiator still has to send and to receive (`out`) agrees
  with the cells on its links and with the mode, address and cell count of the
  target state machine. At most one initiator is "at the target"; in MODE_SIZED_READ
  the response in flight is followed by `cellsToGo` more, in MODE_SIZED_WRITE the
  next cell has the next address. `ResponsesExpected` and the part of
  `AssertionsHold` about bursts follow, for caches and non-coherent initiators alike.
* `RoundInv`: INV_FSM is idle with a non-empty block state exactly in
  RAM_DATA_INVAL_WAIT; the request saved by RAM_DATA_INVAL still has other
  sharers. The last fact is not obvious, since RAM_DATA_INVAL may wait for an
  earlier round: it holds because only RAM_FSM writes the directory.
* `ReaderInv`: when the last cell of a line is waiting to leave, the presence bit
  of the reader is set, or RAM_DIRUPD is about to set it *and the target state
  machine is stopped*. Without it `HoldersKnown` would break in the step in which
  the last cell leaves.
* `HoldersKnown` itself: when a round clears the bits, `InvIdle` puts the same
  caches into the block state in the same cycle; from there the invalidation
  moves to `invTarget`, to the link, and is gone only when the cache has dropped
  its copy.

The proof has one lemma per action and, below it, one step per conjunct that the
action disturbs. `RamStep` is split by RAM_FSM and by INV_FSM separately, which is
why the invariants are stated about few variables each.

`DirectoryProofs` proves, for any set of numbers of caches (positive naturals):

| theorem | says |
|---|---|
| `DirectoryInvariant` | `DirSpec => []DirectoryInv` |
| `TargetsAlwaysExist` | `DirSpec => []TargetsExist` |
| `DirectoryActsAsSet` | `DirSpec => ActsAsSet`, the refinement of `PresenceSet` |

One lemma per operation says what it does to `Held`, the set of caches whose bit is
set. They rest on the numbering of bits (`x = 32 * (x \div 32) + x % 32`) and on
`RoomForAll`: no cache has one of the two masked bits of the last slice, which is
what makes `Is_Other` exact (`OtherHolds`) and fails with one slice too few.

### Increments

`CcRamProofs` also proves, for any number of initiators,

| theorem | says |
|---|---|
| `IncrementsAreCounted` | `Spec /\ "WRITE" \notin ops => []IncrementsCounted` |

The hypothesis chooses the programs the property is about: those that write the
shared word by LL/SC only. A plain store of any other value to the counter makes the
count meaningless, not the controller wrong. `CountInv` follows the word from memory to
the processor and back: `LinksFresh` says that an initiator whose reservation stands
has read, is being sent or is about to be sent the value that memory holds, and
`ScMatches` that the store conditional on the network carries the successor of it.
Answers on their way are counted as the cardinality of the set of links that hold
one (`OkRsp`); one lemma per way of changing that set says by how much it moves.

### The caches

`VciCcCacheProofs` is about one clock cycle of a cache, whatever is at the other end of
its links. `CacheInv(p)` ties the five state machines together:

* `RequestInv`: a data request is up exactly while DCACHE_FSM waits (also while it has
  gone to DCACHE_RAMINVAL and will come back), and never together with a pending store;
* `ServiceInv`: REQ_FSM and RSP_FSM serve the same request, and the one-cycle flags
  `r_DRSP_OK`, `r_IRSP_OK`, `r_RETRY_*_REQ` are up only in the cycle in which REQ_FSM
  ends it;
* `BufferInv`: the read pointer of the write buffer at each point of a packet, through
  refusal (rewound), acceptance (emptied) and sending (one ahead of the cell count);
* `ContiguousInv`: the stores of a burst have consecutive addresses, and the
  FIFO_INPUT cell holds the last;
* `InvalInv`: the invalidation that INV_FSM is about to save is still on the link.

| theorem | says |
|---|---|
| `CycleKeepsCaches` | a `CacheCycle` preserves `CacheTypeOK` and `CacheInv` of every cache, if what has arrived is an answer that RSP_FSM expects (`ResponseOK`) |

`DcEffect`, `ReqEffect`, `RspEffect` and `IcEffect` reduce each state machine to what it
does to the registers the others read (six cases for DCACHE_FSM, seven for REQ_FSM...);
the invariant is proved from these effects and not from the code of the machines.
`ResponseOK` is an assumption on the network there, and is discharged twice.

DCACHE_FSM, the lines and the write buffer are the same code in both caches. What a cycle
of theirs does to words is stated once, for registers of which only the types are known
(`DataRegsOK`): the shapes of the cycles of DCACHE_FSM (`AnyDcShape`), when a cycle
keeps the words that the stores have left and when it stores one (`AnyWordsKept`,
`AnyWordStored`), and what it leaves in the lines (`AnyLineStep`). `CcCacheProofs` and
`MccPortProofs` cite them.


| theorem | says |
|---|---|
| `PortIsConsistent` (`CcCacheProofs`) | `Spec => []PortInv`: with the memory of `CcCacheSystem`, which refuses what it likes; `FlightInv` counts the cells that are still to come |
| `PacketsAreReplayed` | `Spec => []BufferMatchesPacket`: the write buffer and the packet agree, refusals included |
| `PortRefinesMemory` | `PartialAt \subseteq PageStarts` implies `Spec => PortIsAtomicMemory`: the refinement of `AtomicMemory` |
| `PortsAreConsistent` (`CcPlatformProofs`) | `Spec => [](PortsOK /\ RequestsOK)`: with the controller of `CcRamCore` |
| `CachesTyped` | `Spec => []CacheTypeOK` |
| `CacheAssertionsNeverFire` | `Spec => []CacheAssertionsHold`: no `assert()` of the cache fires on the platform |

`PortRefinesMemory` says that the processor cannot tell the cache, its write buffer, the
refused and repeated packets and the invalidations from a memory that does one request
at a time. The refinement maps `contents[a]` to `Latest(a)`: the FIFO_INPUT cell if it
holds `a`, else the cell of the write buffer with address `a`, else memory. A store
acts on `Latest` in the cycle that accepts it and nothing else may change it, so the proof
is about three places where it could: a packet that becomes memory, a packet that is
acknowledged and forgotten, and a line. `ViewInv` adds to `PortInv`:

* `LoadInv`: while DCACHE_FSM waits, or is in RAMINVAL to come back, the processor still
  holds the request that was saved;
* `StoreInv`: a word that was stored in part is alone in its packet, so that the byte
  enables of the first and of the last cell agree;
* `PacketInv`: the cell on the network is the last one sent, `staged` is memory with the
  cells taken so far, and from the acknowledgement until REQ_FSM ends the packet every
  one of its cells is in memory already (`Holds`): dropping the buffer, and later the
  FIFO_INPUT cell, uncovers the same words;
* `AnswerInv`: the cells of a line that have arrived, that are on the network and that
  memory has still to read are those of the line asked for, and memory has not changed
  since (the cache stores nothing while it loads);
* `LineInv`: a line holds `Latest`, up to the store that DCACHE_WUPDT is about to write.

The hypothesis says that a word that may be stored in part does not continue a burst.
It is where the code is wrong and not where the proof is weak: with a second such word in
the line TLC refutes the refinement, by the packet of section 5 whose last cell goes out
with the byte enable of the first. `cache` satisfies it, with a word stored in part.
TLC checked each part of `ViewInv` with the constants of `cache` (3.7 million states),
and with uncached words and LL, before it was proved.

On the platform the proof composes two others. `Packet(p)` computes from the registers of
a cache which packet it has in progress and how many cells are left to send and to
receive. `Ram` is `CcRamProofs` with that function in the place of the variable `out` of
`CcRamSystem`, so that the lemmas about the controller are used here unchanged: the step
of a cache is shown to do to `cmd`, `rsp` and `Packets` what an initiator of
`CcRamSystem` may do (`CyclePackets`), the controller then answers as `PacketInv` says,
and this is the `ResponseOK` that `CycleKeepsCaches` asks for.

### Coherence

The second half of `CcPlatformProofs` proves, for the platform with any number of caches and any memory:

| theorem | says |
|---|---|
| `DirectoryIsComplete` | `Spec => []DirectoryCovers` |
| `StaleCopiesDie` | `Spec => []StaleCopiesAreDoomed` |
| `ReadsGoForward` | `Spec => ReadsFollowMemoryOrder` |

`DirectoryInv(p)` proves the first:

* `Condemned(p, b)` extends "doomed" to every place an invalidation passes: waiting
  in the controller, on the link, in INV_FSM, in DCACHE_RAMINVAL. `InvalTakenInv` says
  that it is not lost between INV_FSM and the tag;
* `CoverInv`: a tag that is set is in the directory or condemned, except while its
  line is being read: then DCACHE_FSM has set the tag, and the bit comes with the last
  cell. `Served` is when the first word may have arrived: before that, an invalidation
  that removes the tag and one that does not are equally harmless;
* `ReadInv`, `FillingInv`: the answer that is arriving is the answer to this miss, and
  is never an error (this controller does not refuse).

`CopyInv(p)` proves the second. `FillInv` says that the words which have arrived are still
those of memory, or the line is condemned; `CurInv` the same of the word that the target
state machine is about to send. A store is followed by counting: `NbSent` of the cells
of the packet have left the buffer, memory has done `NbDone` of them, and `Unwritten` is
what remains, the FIFO_INPUT cell included. `LineInv` then says of every word of a copy
that is not condemned: it equals each unwritten store of its processor to it, and if
there is none it equals memory. `UpdateInv` covers the cycle between the acceptance of
a store and DCACHE_WUPDT; `Conditional` excludes the word of a store conditional under
way, which memory has perhaps done and the cache drops when the answer comes.
`LineInv` rests on `FullInv`, the processors of `CcPlatform` storing whole words: with
narrower stores the packet may write lanes that were not stored (section 5).

`SeenInv(p)` proves the third. `order[a]` is what memory has had at `a` and `seen[p][a]`
how far `p` has got in it; a word is `Recent` for `p` when it stands in `order[a]` at
`seen[p][a]` or later. Every word that is in, or on its way to, the cache of `p` is
recent: the words of a line that arrive (`RecentFillInv`), the single word of an uncached
load or an LL, from the moment the target state machine has read it (`RecentWordInv`),
and the words of the lines but for the stores that memory has not done
(`RecentLineInv`). A word can stop being recent in two ways: memory does a store of `p`
itself, or `p` reads a later value. The first is excluded by the write buffer (no
read while stores are pending, and `DoneStore`: the store done is the oldest), the second
because an uncached load, an LL or an SC removes the tag of its address before it asks.
Nothing in `SeenInv` mentions the directory or the invalidations: they make a copy
short-lived (`StaleCopiesDie`), whereas the order in which one processor sees the values of one
word is due to the cache alone.

### The migration cache

`MccCacheProofs` proves, for one cache with a TLB and lines of any size, any number of
pages, exchanges and refusals, and any order in which the memories poison frames, move
contents, change the page table and send invalidations (`MccCacheSystem`):

| theorem | says |
|---|---|
| `MccConsistent` | `Spec => []MccInv`: the inductive invariant |
| `MccTypesHold` | `Spec => []MccTypeOK` |
| `FramesAreRight` | `Spec => []RightFrame` |
| `StaleTranslationsDie` | `Spec => []StaleTranslationsAreDoomed` |
| `MccAssertionsNeverFail` | `Spec => []MccAssertionsHold` |

ICACHE_FSM, DCACHE_FSM and the write buffer are those of `VciCcCache`, and their
effects are the lemmas of `VciCcCacheProofs`. REQ_FSM, RSP_FSM and INV_FSM are not: they
translate, miss in the TLB, and invalidate it. `MccInv` has seven parts:

* `MccCacheInv`, `MccFlightInv` are `CacheInv` and `FlightInv` for these machines. Two
  facts are new. While a request for data is under way the TLB still translates it
  (`TranslatesData`): REQ_TLB_INVAL, which resets entries, is a state of REQ_FSM itself,
  so that no entry goes while a packet is sent. And all stores of a packet are in one
  page (`OnePageInv`), so that one translation is that of every cell.
* `TlbInv`: an entry of the TLB, and the answer to a TLB miss, is `TranslationOK`: it
  gives the frame that the home gives, and then the home has the cache in its list or
  an invalidation is due; or it gives the other frame of the exchange, and an
  invalidation is due. A page has one entry, so that the invalidation, which resets the
  first entry it finds, resets all there are.
* `CommandInv`: what a command names is still in the TLB.
* `TokenInv`: each page whose acknowledgement is awaited has *one token*, which is
  in the hands of the home (`unsent`), on the network, in one of the two buffers of
  INV_FSM, or an acknowledgement that is being sent or is to be sent again (`AckDue`).
  The pages awaited are those of the exchange, of which there are two: this is why a
  third invalidation never finds both buffers full, which the code asserts
  (`vci_mcc_cache_transition.cpp:995`).
* `MoveInv`: contents and page table are inverse functions of each other, but for the
  pages that only one of the two has moved yet (`Undecided`). A frame of the exchange
  that accepts requests is untouched, or no page that left it is awaited any more.

`RightFrame` follows from the last four: the translation that a command used is in the
TLB; if it is not what the home gives, its invalidation is due and its page awaited; then the
frame is poisoned and refuses the command. Each of the parts is there because the others
are not inductive without it: a cache that answers a miss while the exchange begins has a
translation that no list has, and only the token says that the invalidation comes later.
TLC checked `MccInv` with the constants of `mcc_cache` (464K states) before it was proved.

`MccPortProofs` proves the refinement, under the same constants:

| theorem | says |
|---|---|
| `MccPortRefinesMemory` | `Spec => MccPortIsAtomicMemory` |

It maps `contents[a]` to `Latest(a)`, as `PortRefinesMemory` does, but memory is here
what the processor sees of it: `Contents[a]` is the word at the place of `a` in the frame
that holds the page of `a`. Its `ViewInv` is `MccInv` and the five parts above, with two
addresses for each word: the cells of the write buffer and the lines have the
processor's, commands and packets have that of a frame, and `Reaches(x, a)` says that
the TLB gives `x` for `a`. `PacketInv`, `AnswerInv` and `LineInv` are stated with
`Reaches` and `Contents`. The argument has three steps that `CcCacheProofs` has not:

* `Exchange` changes neither (`ExchangeContents`): each word goes where its page goes.
  It may come in the middle of any request: a line half read, a packet that is refused
  and sent again to another frame.
* A memory that does not refuse has the word (`ReachedWord`): by `TlbInv` and
  `LooksInRightFrame` a frame that is not poisoned holds the page that the TLB looks for
  there, also if the command was sent before the exchange and taken after it. A line is
  read word by word, and each word that was not refused was the current one when it was
  read; as the cache stores nothing while it loads it still is, wherever the page is now.
  If one word of the line is refused, the whole line is read again.
* The cells of a packet, which arrive one by one, are for one frame (`WrittenPlaces`), since
  they are for one page (`OnePageInv`) that has one entry in the TLB (`TlbInv`), which stays
  until the packet is answered (`TlbStill`). So the memory performs or refuses them
  together, and the buffer that is emptied by the acknowledgement, or sent again after
  a refusal, uncovers or keeps the same words (`WriteStep`).

`MccCacheSystem` stores whole words, so that no hypothesis about byte enables is needed.
TLC checked the parts that `ViewInv` adds to `MccInv` too: with the constants of
`mcc_cache` (464K states), and with two pages of two words, lines of two words and no fetches
(6.5 million states), where a line is read and a packet is written word by word.

### The ring

`MigrationProofs` proves, for any number of nodes and processors, any size of the fifos
and any behaviour of `module_10` and of the memories:

| theorem | says |
|---|---|
| `TokenIsUnique` | `Spec => []OneToken` |

A cycle of a node runs its four machines one after the other on the same set of
writes, so the proof goes machine by machine: location, update and transfer are `Quiet`
(they neither take nor send a token, and leave the lock alone), the control machine
`Controls` (it may take the token, then it is the master), and `TokenStep` is what
remains of the whole `compute()`: the lock is kept, the token at the front of the input
fifo is taken or forwarded, or the lock is given away in a flit. Two details carry
it: while a flit is to be forwarded no machine may send (`MaySend`), and the lock is not
released in a cycle in which the control machine may become the master (a request or a
flit for it). `Shifts` says how the flits of a fifo move, and `LockInv`
(every place of `Tokens` is one place) follows a token from the node into its output
fifo, across the link (the neighbour shows its full fifo, and the sender keeps
the flit: `InWok`), through the input fifo and into a node. `MasterOK` needs the uniqueness in
turn: a master in `c_finish` takes whatever flit is addressed to it, and would drop a token.

### Model-checked only

Liveness (`RequestsAnswered`, `ProcessorsAnswered`, `RequestsCompleted`, `RoundsEnd`,
`ExchangesEnd`, `MigrationsEnd`): it rests on fairness and ENABLED, which the prover does
not handle. TLC only so far, see the plan: `MccStaleCopiesAreDoomed`,
`TranslationsRecorded` and `MccReadsFollowMemoryOrder` of the migration platform; and of
the ring `RingTypeOK`, `RequestNotLost`, `Paired`,
`TranslationsSafe`, `CleanAtRest`, `RingAssertionsHold`, `MovesPoisoned` and the refinement
of `PageExchange`. Facts about data built
by recursion (a reference definition over all sequences) would need induction
theorems whose operator parameters the installed provers cannot instantiate; no module
of the project declares a RECURSIVE operator.

## 5. Disagreements between code and comments

* **Stores are acknowledged before their invalidations** (`cc_ram_ack`).
  `cc_ram_core_transition.cpp:179` says "Go and Wait for acknowledge of
  invalidations in order to guarantee coherency", but RAM_DATA_INVAL_WAIT is left
  when `r_INV_FSM` reads RAM_INV_IDLE (line 187), and in its first cycle it
  still does: INV_FSM starts the round in that very cycle. RAM_FSM is back in
  RAM_IDLE one cycle later and the store is answered. The platform runs show what
  this does not break: coherence per word (`ReadsFollowMemoryOrder`) holds, stale
  copies are still doomed, and the next store to a shared block waits for the
  round. Ordering between *different* words seen by different processors is not
  claimed by any property, and is what the wait was for.
* **A burst carries the byte enable of its first cell** (`cache_be`).
  `vci_cc_cache_moore.cpp:127` drives `be` with `r_DCACHE_WF_BE_SAVE` for all cells;
  `vci_cc_cache_transition.cpp:268` requires "contiguous byte-enable over cells :
  ex 001 1111 1111 1110" and `vci_cc_cache.h:191` keeps the byte enable of the
  last cell, which is never sent. A last store narrower than a word writes the
  other lanes as well.
* **An election is not acknowledged** (`ring_elect`). In c_elect
  (`module_6.cpp:579`) the test of the acknowledgement ("ack from M10", line 581)
  guards the trace only, and the state lasts one cycle. If Module_10 is in
  counter_lock or counter_unlock in that cycle, because a processor takes or gives
  back the counters, CMD_ELECT is lost: the node poisons and exchanges the page of
  an earlier election (or, before any, the reset value that is no page) with
  `r_slave` false, and at the end fails the assertion of unpoison_ok or drops a
  contention of its own. Without that coincidence (`ring`) the election is sound.
* **A burst that crosses a line leaves stale copies** (`mcc_burst`).
  `mcc_ram_core_utils.cpp:141` looks at the directory for the last cell of a packet
  and for the block of that cell ("Send invalidation only if it is the last cell of
  the paquet in order to avoid deadlocks"), while the cache ends a burst at a page
  boundary or after as many cells as a line has words
  (`vci_mcc_cache_transition.cpp:264`, `vci_mcc_cache.cpp:103`), which need not be
  the words of one line. Copies of the first line are never invalidated and stay
  stale for ever. `vci_cc_ram` does not have this problem: it starts a round for
  any cell (`cc_ram_core_utils.cpp:96`), at the price of blocking in a packet.

## 6. Not modelled, and the plan

Not modelled:

* debugger views (`*_cdb.cpp`), `*_deprecated.cpp` files, declarations of ports and
  signals, loading of binaries, statistics, simulator metadata (`.sd`): no behaviour;
* the M and E bits of a directory entry: no code sets them;
* the control side of `vci_mcc_ram` (the code under `#ifndef NOCTRL`): not compiled,
  and it does not compile. Its contract is the environment of `MccCacheSystem` and
  `MigrationRing`. That the caches' invalidations and the ring's exchange go
  together is therefore shown on both sides of that contract, not by one run;
* the counters of modules 5, 7, 8 and 9: what they choose is arbitrary in
  `MigrationRing`, so that no property depends on how they count;
* the exchange of directory entries of more than one slice: `t_transfer_dir`
  (`module_6.cpp:290`) sends slice 0 only, so that with 30 caches or more the
  holders in the other slices are lost; an entry is one value in the model;
* the DSPIN wrappers: their behaviour towards caches and memories is that of a link
  that delays cells, which the models have; the flits are not modelled;
* reset as an action: the platforms raise reset once, before the first request.

Plan:

1. Proofs: for the platform of the migration caches what `CcPlatformProofs` proves of
   `CcPlatform`, and `TranslationsRecorded`. The lemmas about a cycle of the cache are in
   `MccCacheProofs`, but stated for the single cache of `MccCacheSystem`.
2. Proofs about the ring: with `OneToken`, that the lock reaches a node that is in no
   transaction, then `Paired`.
3. `MccCacheSystem` and `MigrationRing` in one system with small pages, once the
   control side of the memory compiles.
4. The counters of module 9 at their limits (sum of the counters of a page, overflow).
5. The DSPIN wrappers: VCI packets to flits and back, implementing a FIFO link.
