----------------------------- MODULE MccPortProofs -----------------------------
(***************************************************************************)
(* The migration cache behind the port of its processor implements the     *)
(* atomic memory, as in CcCacheProofs, while pages change frames under it: *)
(* ViewInv says where the word is that the stores have left at an address. *)
(* Here processor, lines and write buffer name virtual addresses, commands *)
(* and packets physical ones.  What the processor sees of the frames is    *)
(* Contents; no exchange changes it.                                       *)
(***************************************************************************)
EXTENDS MccCacheProofs

Place(a)   == PageBase(FrameThatHolds(Page(a))) + (a % PageWords)
Content(a) == memory[Place(a)]
Contents   == [a \in Addr |-> Content(a)]

(* The TLB t gives x for a. *)
ReachesBy(t, x, a) ==
  /\ x % PageWords = a % PageWords
  /\ IF Page(a) \in Migrable
     THEN \E i \in Entries : t[i].tag = Page(a) /\ t[i].frame = Page(x)
     ELSE Page(x) = Page(a)
Reaches(x, a) == ReachesBy(tlb[P], x, a)

(* Requests name whole words; SC is not among them.                        *)
AskInv ==
  /\ types \in Workloads
  /\ cpu[P] # NoReq =>
       cpu[P].type \notin {"DATA_SC", "XTN_DCACHE_INVAL"} /\ cpu[P].be = Lanes

Loading == Waiting(P) \/ dc[P].fsm \in {"DCACHE_MISSUPDT", "DCACHE_UNC_LL_SC_GO"}

(* The request that DCACHE_FSM saved is the one the processor still holds. *)
LoadInv ==
  Loading =>
    /\ cpu[P] # NoReq /\ cpu[P].type \in {"DATA_READ", "DATA_LL"}
    /\ dc[P].addr = cpu[P].addr /\ ~dc[P].sc
    /\ Filling(P) <=> ~dc[P].unc /\ ~dc[P].ll

(* The FIFO_INPUT cell has a whole word, and is the last of its packet.    *)
StoreInv ==
  /\ dc[P].fsm = "DCACHE_WUPDT" => dc[P].be = Lanes
  /\ dm[P].pending =>
       /\ dm[P].wf = Lanes /\ dm[P].wl = Lanes
       /\ dm[P].flush /\ ~rs[P].dOk => wb[P].cells[Len(wb[P].cells)].data = dm[P].data

(* The write packet: the cell on the network is the last one sent, the     *)
(* memory has those before, and an acknowledged packet is in memory.       *)
Writing == cmd[P] # NoCell /\ cmd[P].cmd = "WRITE"
Sent    == IF rq[P].fsm = "REQ_WRITE" \/ Writing THEN rq[P].cpt ELSE 0
Taken   == IF Writing THEN Sent - 1 ELSE Sent
Carries(c, k) ==
  Reaches(c.addr, wb[P].cells[k].addr) /\ c.data = wb[P].cells[k].data /\ c.be = Lanes

PacketInv ==
  /\ Writing =>
       /\ Sent \in 1 .. Len(wb[P].cells) /\ Carries(cmd[P], Sent)
       /\ cmd[P].eop <=> Sent = Len(wb[P].cells)
  /\ Taken \in 0 .. Len(wb[P].cells) /\ Len(packet.written) = Taken
  /\ \A k \in 1 .. Taken : Carries(packet.written[k], k)
  /\ rs[P].fsm = "RSP_WRITE" /\ rsp[P] # NoCell /\ ~rsp[P].error =>
       \A k \in 1 .. Len(wb[P].cells) : Contents[wb[P].cells[k].addr] = wb[P].cells[k].data
  /\ dm[P].flush /\ rs[P].dOk => Contents[dm[P].addr] = dm[P].data

(* What loads bring back from memory.                                      *)
LineBase == Base(Block(dc[P].addr))
HasLine  == \A x \in Offsets : rs[P].buf[x] = Contents[LineBase + x]
AnswerInv ==
  /\ rs[P].fsm = "RSP_DMISS" =>
       /\ cmd[P] # NoCell => Reaches(cmd[P].addr, LineBase)
       /\ packet.left > 0 => Reaches(packet.addr, LineBase + rs[P].cpt + MccArrived)
       /\ rsp[P] # NoCell /\ ~rsp[P].error => rsp[P].data = Contents[LineBase + rs[P].cpt]
       /\ ~rs[P].dRetry => \A x \in Offsets : x < rs[P].cpt => rs[P].buf[x] = Contents[LineBase + x]
  /\ rs[P].fsm = "RSP_UNC" =>
       /\ cmd[P] # NoCell => Reaches(cmd[P].addr, dc[P].addr)
       /\ packet.left > 0 => Reaches(packet.addr, dc[P].addr)
       /\ rsp[P] # NoCell /\ ~rsp[P].error => rsp[P].data = Contents[dc[P].addr]
  /\ dm[P].req /\ rs[P].dOk => IF Filling(P) THEN HasLine ELSE rs[P].unc = Contents[dc[P].addr]
  /\ dc[P].fsm = "DCACHE_MISSUPDT" => HasLine
  /\ dc[P].fsm = "DCACHE_UNC_LL_SC_GO" => rs[P].unc = Contents[dc[P].addr]

(* The lines: a store that hit is in Latest at once and in the line a      *)
(* cycle later.                                                            *)
LineInv ==
  /\ LinesWait(P)
  /\ \A a \in Addr : HasCopy(P, Block(a)) => CopyAfter(P, a) = Latest(a)

ViewInv == MccInv /\ AskInv /\ LoadInv /\ StoreInv /\ PacketInv /\ AnswerInv /\ LineInv

-----------------------------------------------------------------------------
(* Pages, frames and lines.                                                *)
(* A word is known by its page and its place there.                        *)
LEMMA WordInPage ==
  /\ \A a \in Addr : a = PageBase(Page(a)) + (a % PageWords)
  /\ \A f \in Pages : \A k \in 0 .. PageWords - 1 : (PageBase(f) + k) % PageWords = k
  /\ \A x, y \in Addr : Page(x) = Page(y) /\ x % PageWords = y % PageWords => x = y
<1>1. PageWords \in Nat \ {0}
  BY PageWordsAssumption
<1>2. \A a \in Addr : a = PageBase(Page(a)) + (a % PageWords)
  <2>1. \A W \in Nat \ {0} : \A c \in Nat : c = (c \div W) * W + (c % W)
    OBVIOUS
  <2> QED BY <1>1, <2>1, PageFacts DEF PageBase, Page
<1>3. ASSUME NEW f \in Pages, NEW k \in 0 .. PageWords - 1
      PROVE  (PageBase(f) + k) % PageWords = k
  <2> DEFINE x == PageBase(f) + k
  <2>1. x \in Addr /\ Page(x) = f /\ f \in Nat /\ PageBase(f) \in Nat
    BY <1>1, PageFacts DEF PageBase
  <2>2. x = PageBase(f) + (x % PageWords) /\ x % PageWords \in 0 .. PageWords - 1
    BY <1>2, <2>1, PageFacts
  <2> DEFINE r == x % PageWords
  <2> HIDE DEF r
  <2>3. PageBase(f) + k = PageBase(f) + r /\ r \in Nat /\ k \in Nat
    BY <1>1, <2>2 DEF r
  <2>4. r = k
    BY <2>1, <2>3
  <2> QED BY <2>4 DEF r
<1> QED BY <1>2, <1>3

(* The contents of the frames are the pages, each once.                    *)
LEMMA HoldsOnce ==
  ASSUME MoveInv
  PROVE  /\ \A v \in Pages : FrameThatHolds(v) \in Pages /\ holds[FrameThatHolds(v)] = v
         /\ \A f, g \in Pages : holds[f] = holds[g] => f = g
         /\ \A f \in Pages : holds[f] \in Pages /\ FrameThatHolds(holds[f]) = f
<1>1. /\ holds \in [Pages -> Pages] /\ home \in [Pages -> Pages]
      /\ \A f \in Pages : home[holds[f]] = IF f \in move.frames /\ Undecided(holds[f])
                                           THEN Partner(f) ELSE f
      /\ \A v \in Pages : holds[IF home[v] \in move.frames /\ Undecided(v)
                                THEN Partner(home[v]) ELSE home[v]] = v
  BY DEF MoveInv
<1>2. /\ move.frames \subseteq Pages
      /\ \A f \in move.frames : Partner(f) \in move.frames /\ Partner(Partner(f)) = f
  BY Partners
<1>3. ASSUME NEW f \in Pages, NEW g \in Pages, holds[f] = holds[g] PROVE f = g
  BY <1>1, <1>2, <1>3
<1>4. ASSUME NEW v \in Pages PROVE \E f \in Pages : holds[f] = v
  BY <1>1, <1>2
<1>5. ASSUME NEW v \in Pages PROVE FrameThatHolds(v) \in Pages /\ holds[FrameThatHolds(v)] = v
  BY <1>4 DEF FrameThatHolds
<1>6. \A f \in Pages : holds[f] \in Pages
  BY <1>1
<1> QED BY <1>3, <1>5, <1>6

(* Each word that the processor names has a place of its own.              *)
LEMMA PlaceFacts ==
  ASSUME MoveInv
  PROVE  /\ \A a \in Addr : /\ Place(a) \in Addr /\ Page(Place(a)) = FrameThatHolds(Page(a))
                            /\ Place(a) % PageWords = a % PageWords
         /\ \A a, c \in Addr : Place(a) = Place(c) => a = c
         /\ \A x, a \in Addr : /\ x % PageWords = a % PageWords
                               /\ holds[Page(x)] = Page(a)
                               => x = Place(a)
<1>1. \A a \in Addr : Page(a) \in Pages /\ a % PageWords \in 0 .. PageWords - 1
  BY PageFacts
<1>2. \A v \in Pages : FrameThatHolds(v) \in Pages /\ holds[FrameThatHolds(v)] = v
  BY HoldsOnce
<1>3. \A a \in Addr : /\ Place(a) \in Addr /\ Page(Place(a)) = FrameThatHolds(Page(a))
                      /\ Place(a) % PageWords = a % PageWords
  BY <1>1, <1>2, PageFacts, WordInPage DEF Place
<1>4. \A a, c \in Addr : Place(a) = Place(c) => a = c
  <2> TAKE a, c \in Addr
  <2> HAVE Place(a) = Place(c)
  <2>1. a % PageWords = c % PageWords /\ FrameThatHolds(Page(a)) = FrameThatHolds(Page(c))
    BY <1>3
  <2>2. Page(a) = Page(c)
    BY <1>1, <1>2, <2>1
  <2> QED BY <2>1, <2>2, WordInPage
<1>5. ASSUME NEW x \in Addr, NEW a \in Addr, x % PageWords = a % PageWords,
             holds[Page(x)] = Page(a)
      PROVE  x = Place(a)
  <2>1. Page(x) = FrameThatHolds(Page(a))
    BY <1>1, <1>5, HoldsOnce
  <2> QED BY <1>3, <1>5, <2>1, WordInPage
<1> QED BY <1>3, <1>4, <1>5

(* A frame that accepts requests has the word that the TLB looks for there.*)
LEMMA ReachedWord ==
  ASSUME MccInv, NEW x \in Addr, NEW a \in Addr, Reaches(x, a), Page(x) \notin poisoned
  PROVE  x = Place(a) /\ memory[x] = Content(a)
<1>1. MoveInv /\ TlbInv /\ Page(a) \in Pages /\ Page(x) \in Pages
  BY PageFacts DEF MccInv
<1>2. holds[Page(x)] = Page(a)
  <2>1. CASE Page(a) \in Migrable
    <3>1. PICK i \in Entries : tlb[P][i].tag = Page(a) /\ tlb[P][i].frame = Page(x)
      BY <2>1 DEF Reaches, ReachesBy
    <3>2. TranslationOK(Page(a), Page(x))
      <4>1. tlb[P][i].tag # NoPage
        BY <1>1, <3>1, MigrableAssumption
      <4> QED BY <1>1, <3>1, <4>1 DEF TlbInv
    <3> QED BY <3>2, LooksInRightFrame
  <2>2. CASE Page(a) \notin Migrable
    <3>1. Page(x) = Page(a)
      BY <2>2 DEF Reaches, ReachesBy
    <3>2. \A v \in Pages \ Migrable : holds[v] = v
      BY <1>1 DEF MoveInv
    <3> QED BY <1>1, <2>2, <3>1, <3>2
  <2> QED BY <2>1, <2>2
<1>3. x = Place(a)
  BY <1>1, <1>2, PlaceFacts DEF Reaches, ReachesBy
<1> QED BY <1>3 DEF Content

(* What the TLB gives for an address is where it reaches it.               *)
LEMMA TranslateReaches ==
  ASSUME MccRegsOK, NEW a \in Addr, TlbHit(tlb[P], a)
  PROVE  Translate(tlb[P], a) \in Addr /\ Reaches(Translate(tlb[P], a), a)
<1> DEFINE t == tlb[P]
           x == Translate(t, a)
<1>1. t \in TlbType
  BY MccRegTypes
<1>2. /\ x \in Addr
      /\ Page(a) \notin Migrable => x = a
      /\ Page(a) \in Migrable => \E i \in Entries : t[i].tag = Page(a) /\ t[i].frame = Page(x)
  <2> HIDE DEF t
  <2> QED BY <1>1, TranslateFacts DEF t
<1>3. x % PageWords = a % PageWords
  <2>1. CASE Page(a) \in Migrable
    <3> DEFINE i == First(Holding(t, Page(a)))
    <3>1. Holding(t, Page(a)) # {}
      BY <2>1 DEF TlbHit
    <3>2. i \in Entries
      <4>1. Holding(t, Page(a)) \in SUBSET Entries
        BY DEF Holding
      <4> HIDE DEF t
      <4> QED BY <3>1, <4>1, LeastEntry
    <3>3. t[i].frame \in Pages
      <4> HIDE DEF t, i
      <4> QED BY <1>1, <3>2 DEF TlbType
    <3>4. x = PageBase(t[i].frame) + (a % PageWords)
      BY <2>1, <3>1 DEF Translate
    <3> HIDE DEF t, i, x
    <3> QED BY <3>3, <3>4, PageFacts, WordInPage
  <2>2. CASE Page(a) \notin Migrable
    BY <1>2, <2>2
  <2> QED BY <2>1, <2>2
<1> QED BY <1>2, <1>3 DEF Reaches, ReachesBy

(* The next word of the page is reached next.                              *)
LEMMA NextReached ==
  ASSUME NEW x \in Addr, NEW a \in Addr, Reaches(x, a), a + 1 \in Addr, Page(a + 1) = Page(a)
  PROVE  x + 1 \in Addr /\ Reaches(x + 1, a + 1)
<1> DEFINE k == a % PageWords
<1>1. /\ PageWords \in Nat \ {0} /\ k \in 0 .. PageWords - 1 /\ x % PageWords = k
      /\ Page(x) \in Pages /\ a \in Nat /\ x \in Nat
  BY PageWordsAssumption, PageFacts DEF Reaches, ReachesBy
<1>2. a = PageBase(Page(a)) + k /\ x = PageBase(Page(x)) + k
  BY <1>1, WordInPage
<1>3. a + 1 = PageBase(Page(a)) + ((a + 1) % PageWords) /\ (a + 1) % PageWords \in 0 .. PageWords - 1
  BY WordInPage, PageFacts
<1>4. PageBase(Page(a)) \in Nat /\ PageBase(Page(x)) \in Nat
  <2>1. Page(a) \in Nat /\ Page(x) \in Nat
    BY PageFacts
  <2> QED BY <1>1, <2>1 DEF PageBase
<1> DEFINE j == (a + 1) % PageWords
           b == PageBase(Page(a))
           c == PageBase(Page(x))
<1>5. j = k + 1 /\ j \in 0 .. PageWords - 1
  <2> HIDE DEF k, j, b
  <2> USE DEF b
  <2>1. a = b + k /\ a + 1 = b + j /\ b \in Nat /\ k \in Nat /\ j \in Nat
    <3>1. j \in 0 .. PageWords - 1 /\ k \in 0 .. PageWords - 1
      BY <1>1, <1>3 DEF j
    <3> QED BY <1>1, <1>2, <1>3, <1>4, <3>1 DEF j
  <2> HIDE DEF b
  <2>2. j = k + 1
    BY <2>1
  <2> QED BY <1>3, <2>2 DEF j
<1>6. x + 1 = c + j
  <2> HIDE DEF k, j, c
  <2>1. x = c + k /\ c \in Nat /\ k \in Nat
    <3>1. k \in 0 .. PageWords - 1
      BY <1>1
    <3> QED BY <1>1, <1>2, <1>4, <3>1 DEF c
  <2> QED BY <1>5, <2>1
<1>7. x + 1 \in Addr /\ Page(x + 1) = Page(x) /\ (x + 1) % PageWords = j
  <2> HIDE DEF j
  <2> QED BY <1>1, <1>5, <1>6, PageFacts, WordInPage
<1> QED BY <1>7 DEF Reaches, ReachesBy

(* The first word of a line, and the others.                               *)
LEMMA LineWord ==
  ASSUME NEW a \in Addr
  PROVE  /\ Base(Block(a)) \in Addr /\ Page(Base(Block(a))) = Page(a)
         /\ \A k \in Offsets : /\ Base(Block(a)) + k \in Addr /\ Block(Base(Block(a)) + k) = Block(a)
                               /\ Offset(Base(Block(a)) + k) = k
                               /\ Page(Base(Block(a)) + k) = Page(a)
<1>1. LineWords \in Nat \ {0} /\ Block(a) \in Blocks /\ Block(a) \in Nat
  BY LineWordsAssumption, NbWordsAssumption DEF Blocks, Block, Addr
<1>2. Base(Block(a)) \in Addr /\ Base(Block(a)) + LineWords <= NbWords
  BY <1>1, LinesAssumption
<1>3. ASSUME NEW k \in Offsets
      PROVE  /\ Base(Block(a)) + k \in Addr /\ Block(Base(Block(a)) + k) = Block(a)
             /\ Offset(Base(Block(a)) + k) = k
  <2>1. k \in Nat /\ k < LineWords
    BY <1>1 DEF Offsets
  <2>2. \A W \in Nat \ {0} : \A b \in Nat : \A i \in 0 .. W - 1 :
          (b * W + i) \div W = b
    OBVIOUS
  <2>3. (Block(a) * LineWords + k) \div LineWords = Block(a)
    BY <1>1, <2>1, <2>2
  <2>4. Base(Block(a)) + k \in Addr
    BY <1>1, <1>2, <2>1, NbWordsAssumption DEF Addr
  <2>5. Offset(Base(Block(a)) + k) = k
    <3> DEFINE y == Base(Block(a)) + k
               b == Base(Block(a))
    <3>1. Base(Block(y)) + Offset(y) = y /\ Block(y) = Block(a) /\ y \in Addr
      BY <2>3, <2>4, AddrSplit DEF Base, Block
    <3>2. Offset(y) \in Nat /\ b \in Nat
      BY <1>1, <2>4, <1>2, NbWordsAssumption DEF Offset, Addr
    <3>3. b + Offset(y) = b + k
      BY <3>1
    <3> HIDE DEF y, b
    <3>4. Offset(y) = k
      BY <2>1, <3>2, <3>3
    <3> QED BY <3>4 DEF y
  <2> QED BY <2>3, <2>4, <2>5 DEF Base, Block
<1>4. ASSUME NEW k \in Offsets PROVE Page(Base(Block(a)) + k) = Page(a)
  BY <1>3, LinesInPagesAssumption
<1> QED BY <1>2, <1>3, <1>4, LinesInPagesAssumption

(* A page starts a line, so that lines are at the same places of all pages.*)
LEMMA LineReached ==
  ASSUME NEW x \in Addr, NEW a \in Addr, Reaches(x, a)
  PROVE  Base(Block(x)) \in Addr /\ Reaches(Base(Block(x)), Base(Block(a)))
<1> DEFINE r(y) == ((y % PageWords) \div LineWords) * LineWords
<1>1. LineWords \in Nat \ {0} /\ PageWords \in Nat \ {0}
  BY LineWordsAssumption, PageWordsAssumption
<1>2. ASSUME NEW y \in Addr PROVE Base(Block(y)) % PageWords = r(y)
  <2> DEFINE f == Page(y)
             b == PageBase(f)
             k == y % PageWords
             j == k \div LineWords
             i == k % LineWords
  <2>1. /\ f \in Pages /\ f \in Nat /\ b \in Addr /\ b \in Nat /\ Page(b) = f
        /\ k \in 0 .. PageWords - 1 /\ k \in Nat
        /\ y = b + k
    BY <1>1, PageFacts, WordInPage
  <2>2. Base(Block(b)) = b
    <3> DEFINE c == Base(Block(b))
               m == c % PageWords
               o == Offset(b)
    <3>1. c \in Addr /\ Page(c) = f /\ c + o = b
      BY <2>1, LineWord, AddrSplit
    <3>2. c = b + m /\ m \in Nat
      <4>1. c = PageBase(Page(c)) + m /\ m \in 0 .. PageWords - 1
        <5> HIDE DEF c
        <5> QED BY <3>1, PageFacts, WordInPage
      <4> QED BY <1>1, <3>1, <4>1
    <3>3. o \in Nat /\ c \in Nat
      BY <1>1, <2>1, <3>1, PageFacts DEF Offset
    <3> HIDE DEF c, o, m, b
    <3>4. c = b
      BY <2>1, <3>1, <3>2, <3>3
    <3> QED BY <3>4 DEF c
  <2>3. \A W \in Nat \ {0} : \A c \in Nat : /\ c = (c \div W) * W + (c % W)
                                            /\ c \div W \in Nat /\ c % W \in 0 .. W - 1
    OBVIOUS
  <2>4. k = j * LineWords + i /\ j \in Nat /\ i \in 0 .. LineWords - 1
    <3> HIDE DEF k
    <3> QED BY <1>1, <2>1, <2>3 DEF k
  <2> DEFINE q == Block(b)
  <2>5. q \in Nat /\ b = q * LineWords
    BY <1>1, <2>1, <2>2 DEF Block, Base
  <2>6. y = (q + j) * LineWords + i
    <3> HIDE DEF q, j, i, b, k
    <3>1. j * LineWords \in Nat /\ q * LineWords \in Nat /\ i \in Nat
      BY <1>1, <2>4, <2>5
    <3>2. (q + j) * LineWords = q * LineWords + j * LineWords
      BY <1>1, <2>4, <2>5
    <3> QED BY <2>1, <2>4, <2>5, <3>1, <3>2
  <2>7. Block(y) = q + j
    <3> HIDE DEF q, j, i
    <3>1. \A W \in Nat \ {0} : \A n \in Nat : \A l \in 0 .. W - 1 : (n * W + l) \div W = n
      OBVIOUS
    <3>2. q + j \in Nat
      BY <2>4, <2>5
    <3>3. ((q + j) * LineWords + i) \div LineWords = q + j
      BY <1>1, <2>4, <3>1, <3>2
    <3> QED BY <2>6, <3>3 DEF Block
  <2>8. Base(Block(y)) = b + j * LineWords
    <3> HIDE DEF q, j, b
    <3>1. Base(Block(y)) = (q + j) * LineWords
      BY <2>7 DEF Base
    <3>2. (q + j) * LineWords = q * LineWords + j * LineWords
      BY <1>1, <2>4, <2>5
    <3> QED BY <2>5, <3>1, <3>2
  <2>9. j * LineWords \in 0 .. PageWords - 1
    <3> HIDE DEF j, i, k
    <3>1. j * LineWords \in Nat /\ i \in Nat
      BY <1>1, <2>4
    <3>2. k < PageWords /\ k \in Nat
      BY <1>1, <2>1
    <3> QED BY <1>1, <2>4, <3>1, <3>2
  <2>10. (b + j * LineWords) % PageWords = j * LineWords
    <3> HIDE DEF j, f
    <3> QED BY <2>1, <2>9, WordInPage
  <2> QED BY <2>8, <2>10
<1>3. x % PageWords = a % PageWords
  BY DEF Reaches, ReachesBy
<1>4. Base(Block(x)) % PageWords = Base(Block(a)) % PageWords
  BY <1>2, <1>3
<1>5. /\ Page(Base(Block(x))) = Page(x) /\ Base(Block(x)) \in Addr
      /\ Page(Base(Block(a))) = Page(a)
  BY LineWord
<1> QED BY <1>4, <1>5 DEF Reaches, ReachesBy

-----------------------------------------------------------------------------
(* A rising edge that the memories do not see.                             *)
ViewEdge(rspval, invval) ==
  /\ ViewInv /\ rspval \in BOOLEAN /\ invval \in BOOLEAN
  /\ MccCacheCycle(P, rspval, invval) /\ UNCHANGED <<types, memVars, moveVars>>

(* What it is made of.                                                     *)
LEMMA EdgeFacts ==
  ASSUME NEW rspval, NEW invval, ViewEdge(rspval, invval)
  PROVE  /\ MccInv /\ MccRegsOK /\ DataRegsOK /\ P \in Procs /\ P \in Srcs
         /\ RequestInv(P) /\ MccServiceInv(P) /\ MccBufferInv(P) /\ ContiguousInv(P)
         /\ PrevInv(P) /\ PrevInv(P)' /\ DoneInv(P) /\ MccFlightInv /\ MccResponseOK
         /\ CycleContext(rspval) /\ MccCycleCases(rspval) /\ MccCacheInv(P)'
         /\ rspval \in BOOLEAN
         /\ rspval => rsp[P] # NoCell
         /\ DCacheFsm(P) /\ MccDCacheFsm(P) /\ WbAfter(rspval)
         /\ rs[P].dOk <=> DataDone(P)
         /\ AskInv /\ LoadInv /\ StoreInv /\ PacketInv /\ AnswerInv /\ LineInv
         /\ memory' = memory /\ packet' = packet /\ holds' = holds /\ types' = types
<1>1. /\ MccInv /\ AskInv /\ LoadInv /\ StoreInv /\ PacketInv /\ AnswerInv /\ LineInv
      /\ rspval \in BOOLEAN /\ invval \in BOOLEAN /\ MccCacheCycle(P, rspval, invval)
      /\ memory' = memory /\ packet' = packet /\ holds' = holds /\ types' = types
  BY DEF ViewEdge, ViewInv, memVars, moveVars
<1>2. /\ MccRegsOK /\ MccCacheInv(P) /\ MccFlightInv /\ TlbInv /\ DataRegsOK
      /\ RequestInv(P) /\ MccServiceInv(P) /\ MccBufferInv(P) /\ ContiguousInv(P)
      /\ PrevInv(P)
  BY <1>1 DEF MccInv, MccRegsOK, MccCacheInv, MccInvalInv, PrevInv
<1>3. CycleContext(rspval) /\ MccCycleCases(rspval) /\ MccCacheInv(P)'
  <2>1. MccEdge(rspval, invval)
    BY <1>1, <1>2 DEF MccEdge
  <2> QED BY <2>1, MccCycleInv
<1>4. MccResponseOK /\ DoneInv(P) /\ PrevInv(P)'
  BY <1>1, <1>2, MccCycleFacts
<1>5. /\ rspval => rsp[P] # NoCell
      /\ MccDCacheFsm(P) /\ MccWriteBuffer(P, rspval)
  BY <1>1 DEF MccCacheCycle
<1>6. WbAfter(rspval)
  BY <1>1, <1>2, <1>5, MccBufferAt
<1> QED BY <1>1, <1>2, <1>3, <1>4, <1>5, <1>6, PIsCache, MccIsDCache DEF DoneInv

(* What the processor sees of the memories is as it was.                   *)
LEMMA ContentsStay ==
  ASSUME memory' = memory, holds' = holds
  PROVE  /\ Contents' = Contents
         /\ \A a : Content(a)' = Content(a)
BY DEF Contents, Content, Place, FrameThatHolds

(* Latest, as a function of the registers that it looks at.                *)
LEMMA LatestVisible ==
  ASSUME NEW a \in Addr
  PROVE  /\ Latest(a) = Visible(Contents, dm[P], wb[P].cells, a)
         /\ Latest(a)' = Visible(Contents', dm'[P], wb'[P].cells, a)
BY DEF Latest, Visible, Where, AnyOf, Contents, Content, Place, FrameThatHolds

(* The words of the pages.                                                 *)
LEMMA ContentWords ==
  ASSUME MccInv
  PROVE  /\ \A a \in Addr : Content(a) \in Word /\ Contents[a] = Content(a)
         /\ Contents \in [Addr -> Word]
<1>1. memory \in [Addr -> Word] /\ MoveInv
  BY DEF MccInv, MccRegsOK
<1> QED BY <1>1, PlaceFacts DEF Contents, Content

(* The registers that the stores go through, and the cells of the write    *)
(* buffer: their addresses are all different, and below that of the        *)
(* FIFO_INPUT cell until this cell is the last of the buffer.              *)
LEMMA StoreCells ==
  ASSUME MccRegsOK, MccBufferInv(P), ContiguousInv(P), RequestInv(P)
  PROVE  /\ dm[P] \in DmRegs /\ dm[P].data \in Word /\ dm[P].addr \in Addr
         /\ wb[P].cells \in Seq([addr : Addr, data : Word])
         /\ Len(wb[P].cells) \in Nat /\ DOMAIN wb[P].cells = 1 .. Len(wb[P].cells)
         /\ \A i \in 1 .. Len(wb[P].cells) :
              wb[P].cells[i].addr \in Addr /\ wb[P].cells[i].data \in Word
         /\ \A i, j \in 1 .. Len(wb[P].cells) : wb[P].cells[i].addr = wb[P].cells[j].addr => i = j
         /\ ~dm[P].pending => wb[P].cells = <<>> /\ ~dm[P].flush
         /\ dm[P].pending /\ ~dm[P].flush =>
              \A i \in 1 .. Len(wb[P].cells) : wb[P].cells[i].addr # dm[P].addr
         /\ dm[P].flush /\ ~rs[P].dOk =>
              /\ Len(wb[P].cells) > 0 /\ wb[P].cells[Len(wb[P].cells)].addr = dm[P].addr
              /\ dm[P].size = Len(wb[P].cells)
         /\ dm[P].flush => dm[P].pending
         /\ dm[P].flush /\ rs[P].dOk => wb[P].cells = <<>>
<1> DEFINE n == Len(wb[P].cells)
           t == dm[P].addr
           A(j) == wb[P].cells[j].addr
           s == IF dm[P].flush THEN 0 ELSE 1
<1>1. /\ dm[P] \in DmRegs /\ dm[P].data \in Word /\ dm[P].addr \in Addr
      /\ wb[P].cells \in Seq([addr : Addr, data : Word])
      /\ Len(wb[P].cells) \in Nat /\ DOMAIN wb[P].cells = 1 .. Len(wb[P].cells)
      /\ \A i \in 1 .. Len(wb[P].cells) :
           wb[P].cells[i].addr \in Addr /\ wb[P].cells[i].data \in Word
  BY PIsCache, AnyCellTypes DEF MccRegsOK
<1>2. n \in Nat /\ t \in Nat /\ s \in {0, 1}
  BY <1>1, PageFacts
<1>3. dm[P].pending => \A j \in 1 .. n : A(j) = t - n + j - s
  BY DEF ContiguousInv
<1>4. ~dm[P].pending => n = 0 /\ wb[P].cells = <<>>
  BY DEF MccBufferInv, EmptyBuffer
<1>5. dm[P].flush /\ ~rs[P].dOk => n > 0 /\ dm[P].size = n
  <2>1. ASSUME dm[P].flush, ~rs[P].dOk PROVE dm[P].size = n /\ dm[P].size > 0
    BY <2>1 DEF MccBufferInv
  <2> QED BY <2>1
<1>6. dm[P].flush => dm[P].pending
  BY DEF RequestInv
<1>7. dm[P].flush /\ rs[P].dOk => wb[P].cells = <<>>
  BY DEF MccBufferInv, EmptyBuffer
<1> HIDE DEF n, t, A
<1>8. \A i, j \in 1 .. n : A(i) = A(j) => i = j
  <2>1. CASE dm[P].pending
    <3> TAKE i \in 1 .. n, j \in 1 .. n
    <3>1. A(i) = t - n + i - s /\ A(j) = t - n + j - s
      BY <1>3, <2>1
    <3> HIDE DEF s
    <3> QED BY <1>2, <3>1
  <2>2. CASE ~dm[P].pending
    BY <1>4, <2>2
  <2> QED BY <2>1, <2>2
<1>9. dm[P].pending /\ ~dm[P].flush => \A i \in 1 .. n : A(i) # t
  <2> SUFFICES ASSUME dm[P].pending, ~dm[P].flush, NEW i \in 1 .. n PROVE A(i) # t
    OBVIOUS
  <2>1. A(i) = t - n + i - 1
    BY <1>3
  <2> QED BY <1>2, <2>1
<1>10. dm[P].flush /\ ~rs[P].dOk => A(n) = t
  <2> SUFFICES ASSUME dm[P].flush, ~rs[P].dOk PROVE A(n) = t
    OBVIOUS
  <2>1. n \in 1 .. n /\ A(n) = t - n + n - 0
    BY <1>2, <1>3, <1>5, <1>6
  <2> QED BY <1>2, <2>1
<1> USE DEF n, t, A
<1> QED BY <1>1, <1>4, <1>5, <1>6, <1>7, <1>8, <1>9, <1>10

(* The cells of the write buffer after the edge.                           *)
LEMMA CellsAt ==
  ASSUME NEW rspval, NEW invval, ViewEdge(rspval, invval)
  PROVE  /\ wb'[P].cells = IF WriteAnswered(P, rspval)
                           THEN IF rsp[P].error THEN wb[P].cells ELSE <<>>
                           ELSE IF Puts(P) THEN Append(wb[P].cells, PutCell)
                           ELSE wb[P].cells
         /\ WriteAnswered(P, rspval) => dm[P].flush /\ ~rs[P].dOk /\ ~Puts(P)
<1>1. /\ MccRegsOK /\ MccServiceInv(P) /\ MccBufferInv(P) /\ WbAfter(rspval) /\ RequestInv(P)
      /\ CycleContext(rspval) /\ P \in Procs
  BY EdgeFacts
<1>2. WbTyped(wb[P]) /\ Len(wb[P].cells) \in Nat /\ wb[P].ptr \in Nat
  BY <1>1, WbShape
<1>3. WriteAnswered(P, rspval) => dm[P].flush /\ ~rs[P].dOk /\ ~Puts(P) /\ ~MccGets(P)
  BY <1>1, MccAnsweredFacts DEF Puts, Gathers
<1>4. MccGets(P) => wb[P].ptr < Len(wb[P].cells) /\ dm[P].flush
  BY <1>1, MccFlushCell DEF MccGets, MccServiceInv
<1>5. Puts(P) => dm[P].pending /\ ~dm[P].flush /\ Len(wb[P].cells) < BufferSize
  BY <1>1 DEF Puts, Gathers, MccBufferInv
<1>6. LET b == wb[P]
      IN /\ InitRead(b).cells = b.cells
         /\ EmptyBuffer.cells = <<>>
         /\ b.ptr < Len(b.cells) => SimpleGet(b).cells = b.cells
         /\ Len(b.cells) < BufferSize => SimplePut(b, PutCell).cells = Append(b.cells, PutCell)
  BY <1>1, WbMoves
<1> QED BY <1>1, <1>3, <1>4, <1>5, <1>6 DEF WbAfter

(* RSP_OK goes up with the last cell of an answer that was not refused.    *)
LEMMA OkAt ==
  ASSUME NEW rspval, NEW invval, ViewEdge(rspval, invval), rs'[P].dOk
  PROVE  /\ ~DataDone(P) /\ ~rs[P].dOk /\ rsp[P] # NoCell /\ ~rsp[P].error /\ rspval
         /\ rs[P].fsm = DataRspState(P)
         /\ \/ dm[P].flush /\ WriteAnswered(P, rspval)
            \/ dm[P].req /\ rs[P].fsm = "RSP_UNC" /\ RspTakesOneCell(P, rspval)
            \/ /\ dm[P].req /\ rs[P].fsm = "RSP_DMISS" /\ RspTakesLineCell(P, rspval)
               /\ LastOfLine(P) /\ ~rs[P].dRetry
<1>1. /\ MccRegsOK /\ P \in Procs /\ RequestInv(P) /\ MccServiceInv(P) /\ MccResponseOK
      /\ rs[P].dOk <=> DataDone(P)
      /\ rspval => rsp[P] # NoCell
      /\ CycleContext(rspval)
  BY EdgeFacts
<1>2. MccRspEffects(rspval)
  BY <1>1 DEF CycleContext, MccCycleEffects
<1>3. ~(rs[P].dOk /\ ~DataDone(P))
  BY <1>1
<1>4. /\ ~MccRspKeeps(rspval) /\ ~MccRspClears /\ ~MccRspServesAck /\ ~MccRspStarts
      /\ ~MccRspTakesTlb(rspval)
  BY <1>3 DEF MccRspKeeps, MccRspClears, MccRspServesAck, MccRspStarts, MccRspTakesTlb, FlagsAfter
<1>7. rspval => rq[P].fsm \in {"REQ_IDLE", "REQ_DWAIT", "REQ_IWAIT"}
  BY <1>1 DEF MccResponseOK
<1>8. /\ rq[P].fsm = "REQ_IDLE" =>
           \/ rs[P].fsm \in TlbRspStates \cup {"RSP_IDLE", "RSP_INVAL_SEND_ACK", "RSP_IMISS"}
           \/ rs[P].fsm = "RSP_DMISS" /\ DataRspState(P) = "RSP_DMISS"
      /\ rq[P].fsm = "REQ_DWAIT" => rs[P].fsm = "RSP_IDLE" \/ rs[P].fsm = DataRspState(P)
      /\ rq[P].fsm = "REQ_IWAIT" => rs[P].fsm \in {"RSP_IDLE", "RSP_IMISS"}
      /\ \A x \in TlbRspStates : x \notin {"RSP_WRITE", "RSP_UNC", "RSP_DMISS"}
  <2>1. \A x \in TlbRspStates : x \notin {"RSP_WRITE", "RSP_UNC", "RSP_DMISS"}
    BY DEF TlbRspStates
  <2>2. rq[P].fsm = "REQ_IDLE" =>
           \/ rs[P].fsm \in TlbRspStates \cup {"RSP_IDLE", "RSP_INVAL_SEND_ACK", "RSP_IMISS"}
           \/ rs[P].fsm = "RSP_DMISS" /\ DataRspState(P) = "RSP_DMISS"
    BY <1>1 DEF MccServiceInv
  <2>3. /\ rq[P].fsm = "REQ_DWAIT" => rs[P].fsm = "RSP_IDLE" \/ rs[P].fsm = DataRspState(P)
        /\ rq[P].fsm = "REQ_IWAIT" => rs[P].fsm \in {"RSP_IDLE", "RSP_IMISS"}
    BY <1>1 DEF MccServiceInv
  <2> QED BY <2>1, <2>2, <2>3
<1>5. CASE RspTakesLineCell(P, rspval)
  <2>1. /\ rs[P].fsm = "RSP_DMISS" /\ LastOfLine(P) /\ ~rs[P].dRetry /\ ~rsp[P].error /\ rspval
    BY <1>3, <1>5 DEF RspTakesLineCell, FlagsAfter
  <2>2. dm[P].req /\ rs[P].fsm = DataRspState(P)
    <3>1. rs[P].fsm = DataRspState(P)
      BY <1>1, <1>7, <1>8, <2>1
    <3> QED BY <1>1, <2>1, <3>1, MccStateFacts
  <2>3. ~DataDone(P)
    BY <1>1, <2>1 DEF DataDone, MccServiceInv
  <2> QED BY <1>1, <1>5, <2>1, <2>2, <2>3
<1>6. CASE RspTakesOneCell(P, rspval)
  <2>1. /\ rs[P].fsm \in {"RSP_WRITE", "RSP_UNC"} /\ ~rsp[P].error /\ rspval
    BY <1>3, <1>6 DEF RspTakesOneCell, FlagsAfter
  <2>2. rq[P].fsm = "REQ_DWAIT" /\ rs[P].fsm = DataRspState(P)
    BY <1>1, <1>7, <1>8, <2>1
  <2>3. ~DataDone(P)
    BY <1>1, <2>1, <2>2 DEF DataDone, MccServiceInv
  <2>4. rs[P].fsm = "RSP_UNC" => dm[P].req
    BY <2>2 DEF DataRspState
  <2>5. rs[P].fsm = "RSP_WRITE" => dm[P].flush /\ WriteAnswered(P, rspval)
    BY <1>1, <2>1, MccAnsweredFacts DEF WriteAnswered
  <2> QED BY <1>1, <1>6, <2>1, <2>2, <2>3, <2>4, <2>5
<1> QED BY <1>2, <1>4, <1>5, <1>6 DEF MccRspEffects

-----------------------------------------------------------------------------
(* What a cycle does to the words that the stores have left.               *)
LEMMA CellsHold ==
  ASSUME NEW rspval, NEW invval, ViewEdge(rspval, invval)
  PROVE  CellsKnown(P) /\ CellsNext(P) /\ Performed(P, Contents)
<1> DEFINE q == wb[P].cells
<1>1. /\ MccInv /\ StoreInv /\ PacketInv
      /\ MccRegsOK /\ MccBufferInv(P) /\ ContiguousInv(P) /\ RequestInv(P)
      /\ rs[P].dOk <=> DataDone(P)
      /\ rspval => rsp[P] # NoCell
  BY EdgeFacts
<1>2. CellsKnown(P)
  BY <1>1, StoreCells DEF CellsKnown
<1>3. CellsNext(P)
  <2>1. /\ wb'[P].cells = IF WriteAnswered(P, rspval) THEN IF rsp[P].error THEN q ELSE <<>>
                          ELSE IF Puts(P) THEN Append(q, PutCell) ELSE q
        /\ WriteAnswered(P, rspval) => dm[P].flush /\ ~rs[P].dOk /\ ~Puts(P)
    BY CellsAt
  <2> QED BY <1>1, <2>1 DEF CellsNext, WriteAnswered, PutCell
<1>4. Performed(P, Contents)
  <2>1. /\ dm[P].addr \in Addr /\ dm[P].data \in Word
        /\ \A i \in 1 .. Len(q) : q[i].addr \in Addr /\ q[i].data \in Word
        /\ ~dm[P].pending => q = <<>> /\ ~dm[P].flush
    BY <1>1, StoreCells
  <2>2. \A a \in Addr : Contents[a] = Content(a)
    BY <1>1, ContentWords
  <2>3. CASE ~dm[P].pending
    BY <2>1, <2>3 DEF Performed
  <2>4. CASE dm[P].pending
    <3>1. dm[P].wf = Lanes /\ dm[P].wl = Lanes
      BY <1>1, <2>4 DEF StoreInv
    <3>2. ASSUME rs[P].fsm = "RSP_WRITE", rsp[P] # NoCell, ~rsp[P].error, NEW i \in 1 .. Len(q)
          PROVE  Contents[q[i].addr] = Merge(Contents[q[i].addr], q[i].data, dm[P].wf)
      <4>1. Contents[q[i].addr] = q[i].data
        BY <1>1, <3>2 DEF PacketInv
      <4> QED BY <2>1, <2>2, <3>1, <4>1, WholeWord
    <3>3. ASSUME dm[P].flush, DataDone(P)
          PROVE  Contents[dm[P].addr] = Merge(Contents[dm[P].addr], dm[P].data, dm[P].wl)
      <4>1. Contents[dm[P].addr] = dm[P].data
        BY <1>1, <3>3 DEF PacketInv
      <4> QED BY <2>1, <2>2, <3>1, <4>1, WholeWord
    <3> QED BY <3>1, <3>2, <3>3 DEF Performed
  <2> QED BY <2>3, <2>4
<1> QED BY <1>2, <1>3, <1>4

(* No store is accepted: Latest stays.                                     *)
LEMMA LatestKept ==
  ASSUME NEW rspval, NEW invval, ViewEdge(rspval, invval), ~TakesStore(P), NEW a \in Addr
  PROVE  Latest(a)' = Latest(a)
<1>1. /\ DataRegsOK /\ P \in Procs /\ RequestInv(P) /\ DoneInv(P) /\ PrevInv(P) /\ DCacheFsm(P)
      /\ memory' = memory /\ holds' = holds
  BY EdgeFacts
<1>2. CellsKnown(P) /\ CellsNext(P) /\ Performed(P, Contents)
  BY CellsHold
<1>3. Visible(Contents, dm'[P], wb'[P].cells, a) = Visible(Contents, dm[P], wb[P].cells, a)
  <2> DEFINE m == Contents
  <2>1. Performed(P, m)
    BY <1>2
  <2> HIDE DEF m
  <2>2. Visible(m, dm'[P], wb'[P].cells, a) = Visible(m, dm[P], wb[P].cells, a)
    BY <1>1, <1>2, <2>1, AnyWordsKept
  <2> QED BY <2>2 DEF m
<1>4. Contents' = Contents
  BY <1>1, ContentsStay
<1> QED BY <1>3, <1>4, LatestVisible

(* A store reaches Latest in the cycle that accepts it.                    *)
LEMMA LatestStored ==
  ASSUME NEW rspval, NEW invval, ViewEdge(rspval, invval), TakesStore(P), NEW a \in Addr
  PROVE  Latest(a)' = IF a = cpu[P].addr THEN Merge(Latest(a), cpu[P].data, cpu[P].be)
                      ELSE Latest(a)
<1>1. /\ DataRegsOK /\ P \in Procs /\ RequestInv(P) /\ DoneInv(P) /\ MccInv /\ AskInv
      /\ memory' = memory /\ holds' = holds
  BY EdgeFacts
<1>2. CellsKnown(P) /\ CellsNext(P)
  BY CellsHold
<1>3. cpu[P].be = Lanes
  <2>1. cpu[P] # NoReq
    BY DEF TakesStore, DcFirstStore, DcMerge, DcBurst, Gathers, Proceeds
  <2> QED BY <1>1, <2>1 DEF AskInv
<1>4. Visible(Contents, dm'[P], wb'[P].cells, a) =
        IF a = cpu[P].addr
        THEN Merge(Visible(Contents, dm[P], wb[P].cells, a), cpu[P].data, cpu[P].be)
        ELSE Visible(Contents, dm[P], wb[P].cells, a)
  <2> DEFINE m == Contents
  <2>1. m[a] \in Word
    BY <1>1, ContentWords
  <2> HIDE DEF m
  <2>2. Visible(m, dm'[P], wb'[P].cells, a) =
          IF a = cpu[P].addr THEN Merge(Visible(m, dm[P], wb[P].cells, a), cpu[P].data, cpu[P].be)
          ELSE Visible(m, dm[P], wb[P].cells, a)
    BY <1>1, <1>2, <1>3, <2>1, AnyWordStored
  <2> QED BY <2>2 DEF m
<1>5. Contents' = Contents
  BY <1>1, ContentsStay
<1> QED BY <1>4, <1>5, LatestVisible

-----------------------------------------------------------------------------
(* The invariants over a rising edge, one lemma each: the request,         *)
LEMMA LoadStep ==
  ASSUME NEW rspval, NEW invval, ViewEdge(rspval, invval)
  PROVE  LoadInv' /\ AskInv'
<1> DEFINE Silent == dc'[P].fsm \in {"DCACHE_IDLE", "DCACHE_WUPDT", "DCACHE_CPUINVAL"}
<1>1. /\ DataRegsOK /\ P \in Procs /\ MccDCacheFsm(P) /\ DCacheFsm(P) /\ PrevInv(P)
      /\ AskInv /\ LoadInv /\ types' = types /\ dc[P] \in DcRegs
  <2>1. /\ DataRegsOK /\ P \in Procs /\ MccDCacheFsm(P) /\ DCacheFsm(P) /\ PrevInv(P)
        /\ AskInv /\ LoadInv /\ types' = types /\ MccRegsOK
    BY EdgeFacts
  <2> QED BY <2>1, MccRegTypes
<1>2. \/ TakesAway(P) \/ Idles(P) \/ StoresWord(P) \/ Misses(P) \/ AsksWord(P)
      \/ UpdatesWord(P) \/ Waits(P) \/ FillsLine(P) \/ DropsLine(P) \/ Invalidates(P)
  BY <1>1, AnyDcShape
<1>3. cpu' = cpu \/ AnswerCpu(P)
  BY <1>1 DEF DCacheFsm, DcTakeInval, DcNoRequest, DcBurst, DcMerge, DcFlush, DcStall,
     DcFirstStore, AcceptStore, DcLoadHit, DcLoadMiss, DcUncached, DcSync, DcXtnInval,
     DcWriteUpdate, DcWait, DcMissUpdate, DcUncachedGo, DcCpuInval, DcRamInval
<1>4. AskInv'
  <2>1. cpu'[P] = cpu[P] \/ cpu'[P] = NoReq
    BY <1>1, <1>3 DEF AnswerCpu, DataRegsOK
  <2> QED BY <1>1, <2>1 DEF AskInv
<1>5. Silent => LoadInv'
  BY DEF LoadInv, Loading, Waiting, WaitStates
<1>6. CASE DcTakeInval(P)
  <2>1. TakesAway(P) /\ cpu' = cpu
    BY <1>2, <1>6 DEF DcTakeInval, TakesAway, Idles, StoresWord, Misses, AsksWord, LooksUp,
       UpdatesWord, Waits, FillsLine, DropsLine, Invalidates, TakesInval, WaitStates
  <2> QED BY <1>1, <1>4, <2>1
          DEF LoadInv, Loading, Waiting, WaitStates, TakesAway, TakesInval, SameData, Filling
<1>7. CASE DcWait(P)
  <2>1. Waits(P) /\ cpu' = cpu
    BY <1>2, <1>7 DEF DcWait, TakesAway, Idles, StoresWord, Misses, AsksWord, LooksUp,
       UpdatesWord, Waits, FillsLine, DropsLine, Invalidates, WaitStates
  <2> QED BY <1>1, <1>4, <2>1 DEF LoadInv, Loading, Waiting, WaitStates, Waits, SameData, Filling
<1>8. CASE DcRamInval(P)
  <2>1. Invalidates(P) /\ cpu' = cpu
    BY <1>2, <1>8 DEF DcRamInval, TakesAway, Idles, StoresWord, Misses, AsksWord, LooksUp,
       UpdatesWord, Waits, FillsLine, DropsLine, Invalidates, TakesInval, WaitStates
  <2>2. dc[P].prev \in WaitStates \cup {"DCACHE_IDLE"}
    BY <1>1 DEF PrevInv
  <2> QED BY <1>1, <1>4, <2>1, <2>2
          DEF LoadInv, Loading, Waiting, WaitStates, Invalidates, SameData, Filling
<1>9. CASE DcLoadMiss(P)
  <2>1. Proceeds(P) /\ cpu' = cpu /\ cpu[P].type = "DATA_READ" /\ cpu[P].addr \in Cached
        /\ SaveAndGoTo(P, "DCACHE_MISSWAIT")
    BY <1>9 DEF DcLoadMiss, CachedLoad
  <2>2. /\ LooksUp(P) /\ dc'[P].fsm = "DCACHE_MISSWAIT"
        /\ ~dc'[P].unc /\ ~dc'[P].ll /\ ~dc'[P].sc
    BY <1>1, <2>1, AnyLooksUpAt
  <2> QED BY <1>4, <2>1, <2>2 DEF LoadInv, LooksUp, Filling
<1>10. CASE DcUncached(P)
  <2>1. /\ Proceeds(P) /\ cpu' = cpu /\ ~dm[P].pending
        /\ SaveAndGoTo(P, "DCACHE_UNC_LL_SC_WAIT")
        /\ \/ cpu[P].type = "DATA_READ" /\ cpu[P].addr \notin Cached
           \/ cpu[P].type = "DATA_LL"
    BY <1>1, <1>10 DEF DcUncached, AskInv, Proceeds
  <2>2. /\ LooksUp(P) /\ dc'[P].fsm = "DCACHE_UNC_LL_SC_WAIT"
        /\ dc'[P].unc = (cpu[P].addr \notin Cached)
        /\ dc'[P].ll = (cpu[P].type = "DATA_LL" /\ ~dm[P].pending)
        /\ dc'[P].sc = (cpu[P].type = "DATA_SC" /\ ~dm[P].pending)
    BY <1>1, <2>1, AnyLooksUpAt
  <2> QED BY <1>4, <2>1, <2>2 DEF LoadInv, LooksUp, Filling
<1>11. CASE \/ DcBurst(P) \/ DcMerge(P) \/ DcFirstStore(P) \/ DcFlush(P) \/ DcStall(P)
            \/ DcLoadHit(P) \/ DcSync(P)
  <2>1. PICK s \in {"DCACHE_IDLE", "DCACHE_WUPDT", "DCACHE_CPUINVAL"} : SaveAndGoTo(P, s)
    BY <1>11 DEF DcBurst, DcMerge, DcFirstStore, AcceptStore, DcFlush, DcStall, DcLoadHit, DcSync
  <2>2. Silent
    BY <1>1, <2>1 DEF SaveAndGoTo, DataRegsOK
  <2> QED BY <1>4, <1>5, <2>2
<1>12. CASE DcNoRequest(P) \/ DcWriteUpdate(P) \/ DcMissUpdate(P) \/ DcUncachedGo(P)
  <2>1. Silent
    BY <1>1, <1>12, AnyGoToShape DEF DcNoRequest, DcWriteUpdate, DcMissUpdate, DcUncachedGo
  <2> QED BY <1>4, <1>5, <2>1
<1> QED BY <1>1, <1>4, <1>6, <1>7, <1>8, <1>9, <1>10, <1>11, <1>12
        DEF MccDCacheFsm, DcGathering, DcServing, DcResuming

(* the FIFO_INPUT cell,                                                    *)
LEMMA StoreStep ==
  ASSUME NEW rspval, NEW invval, ViewEdge(rspval, invval)
  PROVE  StoreInv'
<1> DEFINE d  == dm[P]
           d2 == dm'[P]
           q  == wb[P].cells
           q2 == wb'[P].cells
           n  == Len(q)
           r  == cpu[P]
           c  == PutCell
           Last == d2.flush /\ ~rs'[P].dOk => q2[Len(q2)].data = d2.data
<1>1. /\ MccInv /\ MccRegsOK /\ DataRegsOK /\ P \in Procs /\ RequestInv(P) /\ DoneInv(P)
      /\ PrevInv(P) /\ DCacheFsm(P) /\ MccBufferInv(P) /\ ContiguousInv(P)
      /\ AskInv /\ StoreInv /\ CycleContext(rspval)
      /\ rs[P].dOk <=> DataDone(P)
  BY EdgeFacts
<1>2. \/ KeepsRequest(P) \/ StartsRequest(P) \/ StartsStores(P)
      \/ MergesStore(P) \/ AddsStore(P) \/ FlushesStores(P)
  BY <1>1, AnyDcEffect
<1>3. /\ d \in DmRegs /\ n \in Nat /\ q \in Seq([addr : Addr, data : Word]) /\ c.data = d.data
      /\ ~d.pending => q = <<>> /\ ~d.flush
  <2>1. /\ d \in DmRegs /\ n \in Nat /\ q \in Seq([addr : Addr, data : Word])
        /\ ~d.pending => q = <<>> /\ ~d.flush
    BY <1>1, StoreCells
  <2> QED BY <2>1 DEF PutCell
<1>4. /\ q2 = IF WriteAnswered(P, rspval) THEN IF rsp[P].error THEN q ELSE <<>>
              ELSE IF Puts(P) THEN Append(q, c) ELSE q
      /\ WriteAnswered(P, rspval) => d.flush /\ ~rs[P].dOk /\ ~Puts(P)
  BY CellsAt
<1>5. WriteAnswered(P, rspval) /\ ~rsp[P].error => rs'[P].dOk
  <2> SUFFICES ASSUME WriteAnswered(P, rspval), ~rsp[P].error PROVE rs'[P].dOk
    OBVIOUS
  <2>1. MccRspEffects(rspval) /\ rs[P].fsm = "RSP_WRITE" /\ rspval
    BY <1>1 DEF CycleContext, MccCycleEffects, WriteAnswered
  <2>2. /\ ~MccRspKeeps(rspval) /\ ~MccRspClears /\ ~MccRspServesAck /\ ~MccRspStarts
        /\ ~MccRspTakesTlb(rspval) /\ ~RspTakesLineCell(P, rspval)
    BY <2>1 DEF MccRspKeeps, MccRspClears, MccRspServesAck, MccRspStarts, MccRspTakesTlb,
       RspTakesLineCell, TlbRspStates, Issues, Ready
  <2> QED BY <2>1, <2>2 DEF MccRspEffects, RspTakesOneCell, FlagsAfter
<1>6. Len(Append(q, c)) = n + 1 /\ Append(q, c)[n + 1] = c
  <2> DEFINE S == [addr : Addr, data : Word]
  <2>1. q \in Seq(S)
    BY <1>3
  <2> HIDE DEF S, c, q
  <2> QED BY <2>1 DEF n
<1>7. r # NoReq => r.be = Lanes
  BY <1>1 DEF AskInv
<1>8. dc'[P].fsm = "DCACHE_WUPDT" => dc'[P].be = Lanes
  <2> SUFFICES ASSUME dc'[P].fsm = "DCACHE_WUPDT" PROVE dc'[P].be = Lanes
    OBVIOUS
  <2>1. StoresWord(P) /\ cpu[P] # NoReq
    BY <1>1, AnyStoreShape
  <2> QED BY <1>7, <2>1 DEF StoresWord, LooksUp
<1>9. StoreInv' <=> (d2.pending => d2.wf = Lanes /\ d2.wl = Lanes /\ Last)
  BY <1>8 DEF StoreInv
<1> HIDE DEF Last
<1>10. d.pending => d.wf = Lanes /\ d.wl = Lanes /\ (d.flush /\ ~rs[P].dOk => q[n].data = d.data)
  BY <1>1 DEF StoreInv
<1>11. CASE KeepsRequest(P)
  <2>1. /\ ~Puts(P)
        /\ d2 = IF DataDone(P) THEN [d EXCEPT !.req = FALSE, !.flush = FALSE, !.pending = FALSE]
                ELSE d
    BY <1>11 DEF KeepsRequest, DmAfter
  <2>2. CASE DataDone(P)
    <3>1. ~d2.pending
      <4> HIDE DEF d, d2
      <4> QED BY <1>3, <2>1, <2>2 DEF DmRegs
    <3> QED BY <1>9, <3>1
  <2>3. CASE ~DataDone(P) /\ q2 = q
    <3>1. ~rs[P].dOk /\ d2 = d
      BY <1>1, <2>1, <2>3
    <3> QED BY <1>9, <1>10, <2>3, <3>1 DEF Last
  <2>4. CASE ~DataDone(P) /\ q2 # q
    <3>1. WriteAnswered(P, rspval) /\ ~rsp[P].error /\ d2 = d
      BY <1>4, <2>1, <2>4
    <3> QED BY <1>5, <1>9, <1>10, <3>1 DEF Last
  <2> QED BY <2>2, <2>3, <2>4
<1>12. CASE StartsRequest(P)
  <2>1. ~d.pending /\ d2 = [d EXCEPT !.req = TRUE]
    BY <1>12 DEF StartsRequest
  <2>2. ~d2.pending
    <3> HIDE DEF d, d2
    <3> QED BY <1>3, <2>1 DEF DmRegs
  <2> QED BY <1>9, <2>2
<1>13. CASE StartsStores(P)
  <2>1. /\ ~d.pending /\ r # NoReq
        /\ d2 = [d EXCEPT !.pending = TRUE, !.first = TRUE, !.addr = r.addr,
                          !.data = r.data, !.wf = r.be, !.wl = r.be]
    <3>1. TakesStore(P) \/ r # NoReq
      <4>1. dc'[P].fsm = "DCACHE_WUPDT" => TakesStore(P)
        BY <1>1, AnyStoreShape
      <4>2. d2.pending /\ ~d.pending
        <5>1. d2 = [d EXCEPT !.pending = TRUE, !.first = TRUE, !.addr = r.addr,
                             !.data = r.data, !.wf = r.be, !.wl = r.be] /\ ~d.pending
          BY <1>13 DEF StartsStores
        <5> HIDE DEF d, d2, r
        <5> QED BY <1>3, <5>1 DEF DmRegs
      <4>3. TakesStore(P)
        <5> SUFFICES ASSUME ~TakesStore(P) PROVE FALSE
          OBVIOUS
        <5>1. KeepsRequest(P) \/ StartsRequest(P) \/ FlushesStores(P)
          BY <1>1, AnyRestEffect
        <5>2. d2.pending => d.pending
          <6>1. \/ d2 = [d EXCEPT !.req = FALSE, !.flush = FALSE, !.pending = FALSE]
                \/ d2 = d
                \/ d2 = [d EXCEPT !.req = TRUE]
                \/ d.pending
            BY <5>1 DEF KeepsRequest, StartsRequest, FlushesStores, DmAfter
          <6> HIDE DEF d, d2
          <6> QED BY <1>3, <6>1 DEF DmRegs
        <5> QED BY <4>2, <5>2
      <4> QED BY <4>3
    <3>2. r # NoReq
      BY <1>1, <3>1, AnyStoreShape
    <3> QED BY <1>13, <3>2 DEF StartsStores
  <2>2. d2.wf = Lanes /\ d2.wl = Lanes /\ ~d2.flush
    <3> HIDE DEF d, d2, r
    <3> QED BY <1>3, <1>7, <2>1 DEF DmRegs
  <2> QED BY <1>9, <2>2 DEF Last
<1>14. CASE MergesStore(P)
  BY <1>10, <1>14 DEF MergesStore, Merges
<1>15. CASE AddsStore(P)
  <2>1. /\ d.pending /\ ~d.flush /\ r # NoReq
        /\ d2 = [d EXCEPT !.first = FALSE, !.addr = r.addr, !.data = r.data, !.wl = r.be]
    BY <1>15 DEF AddsStore, Puts, Gathers, Proceeds
  <2>2. ~d2.flush /\ d2.wf = Lanes /\ d2.wl = Lanes
    <3>1. d.wf = Lanes /\ r.be = Lanes
      BY <1>7, <1>10, <2>1
    <3> HIDE DEF d, d2, r
    <3> QED BY <1>3, <2>1, <3>1 DEF DmRegs
  <2> QED BY <1>9, <2>2 DEF Last
<1>16. CASE FlushesStores(P)
  <2>1. /\ d.pending /\ ~d.flush /\ Puts(P)
        /\ d2 = [d EXCEPT !.first = FALSE, !.flush = TRUE, !.size = BurstSize(P)]
    BY <1>16 DEF FlushesStores
  <2>2. q2 = Append(q, c)
    BY <1>4, <2>1
  <2>3. d2.wf = d.wf /\ d2.wl = d.wl /\ d2.data = d.data
    <3> HIDE DEF d, d2
    <3> QED BY <1>3, <2>1 DEF DmRegs
  <2>4. q2[Len(q2)] = c
    <3> HIDE DEF q, q2, n, c
    <3> QED BY <1>6, <2>2
  <2> QED BY <1>3, <1>9, <1>10, <2>1, <2>3, <2>4 DEF Last
<1> QED BY <1>2, <1>11, <1>12, <1>13, <1>14, <1>15, <1>16

(* The TLB keeps while data are under way.                                 *)
LEMMA TlbStill ==
  ASSUME NEW rspval, NEW invval, ViewEdge(rspval, invval),
         rs[P].fsm \in {"RSP_DMISS", "RSP_UNC", "RSP_WRITE"}
  PROVE  tlb'[P] = tlb[P]
<1>1. CycleContext(rspval) /\ MccServiceInv(P)
  BY EdgeFacts
<1>2. TlbFills(rspval) \/ TlbResets(rspval) \/ TlbKeeps(rspval)
  BY <1>1 DEF CycleContext, MccCycleEffects
<1>3. ~TlbFills(rspval)
  BY DEF TlbFills, TlbAnswered
<1>4. ~TlbResets(rspval)
  BY <1>1 DEF TlbResets, MccServiceInv
<1> QED BY <1>2, <1>3, <1>4 DEF TlbKeeps

(* RSP_FSM writes words only when it takes a cell.                         *)
LEMMA WordsStay ==
  ASSUME NEW rspval, NEW invval, ViewEdge(rspval, invval),
         ~RspTakesLineCell(P, rspval), ~RspTakesOneCell(P, rspval)
  PROVE  rs'[P].buf = rs[P].buf /\ rs'[P].unc = rs[P].unc
<1>1. /\ MccRegsOK /\ P \in Procs /\ rspval \in BOOLEAN
      /\ MccRspFsm(P, rspval)
  BY EdgeFacts DEF ViewEdge, MccCacheCycle
<1>2. /\ rs \in [Procs -> RsShape(MccRspStates)] /\ rs[P] \in RsShape(MccRspStates)
  BY <1>1, MccRegTypes, MccRsShape DEF MccRegsOK
<1>3. ~TakesCell(P, rspval)
  BY <1>1, <1>2, AnyRspTakes
<1>4. RsNow(P) \in RsShape(MccRspStates) /\ SameRsNow(P)
  BY <1>1, <1>2, AnyRsNowFacts
<1> DEFINE r == RsNow(P)
           Writes(e) == e.buf # r.buf \/ e.unc # r.unc
<1>5. SUFFICES ~Writes(rs'[P])
  BY <1>4 DEF SameRsNow
<1> HIDE DEF r
<1>6. CASE MccRspIdle(P)
  <2> DEFINE c1 == (Ready(P) /\ ta[P].retry) \/ rq[P].fsm = "REQ_TLB_INVAL"
             c2 == Ready(P) /\ ~ta[P].retry /\ IsTlbInv(P)
             c3 == Issues(P)
             e  == CASE dm[P].req ->
                          IF ~TlbHit(tlb[P], dc[P].addr) THEN "RSP_TLB_DMISS"
                          ELSE IF dc[P].unc \/ dc[P].ll \/ dc[P].sc THEN "RSP_UNC"
                          ELSE "RSP_DMISS"
                     [] ~dm[P].req /\ dm[P].flush ->
                          IF TlbHit(tlb[P], FlushAddr(P)) THEN "RSP_WRITE" ELSE "RSP_TLB_DMISS"
                     [] ~dm[P].req /\ ~dm[P].flush /\ ic[P].req ->
                          IF TlbHit(tlb[P], ic[P].addr) THEN "RSP_IMISS" ELSE "RSP_TLB_IMISS"
                     [] OTHER -> "RSP_IDLE"
             r1 == [r EXCEPT !.fsm = "RSP_INVAL_SEND_ACK"]
             r2 == [r EXCEPT !.dRetry = FALSE, !.iRetry = FALSE]
             n  == [r EXCEPT !.dRetry = FALSE, !.iRetry = FALSE, !.cpt = 0]
             r3 == [n EXCEPT !.fsm = e]
  <2>1. SetRs(P, CASE c1 -> r1 [] c2 -> r2 [] c3 -> r3 [] OTHER -> r)
    BY <1>6 DEF MccRspIdle, NewPacket, r
  <2> HIDE DEF e
  <2>2. ~Writes(r1) /\ ~Writes(r2) /\ ~Writes(n) /\ n \in [DOMAIN r -> {n[f] : f \in DOMAIN r}]
    BY <1>4 DEF r, RsShape
  <2>3. ~Writes(r3)
    <3>1. r3 = [r EXCEPT !.dRetry = FALSE, !.iRetry = FALSE, !.cpt = 0, !.fsm = e]
      BY <1>4 DEF r, RsShape
    <3> QED BY <1>4, <3>1 DEF r, RsShape
  <2> HIDE DEF c1, c2, c3, r1, r2, r3, n, Writes
  <2>4. ~Writes(r)
    BY DEF Writes
  <2> DEFINE x == CASE c1 -> r1 [] c2 -> r2 [] c3 -> r3 [] OTHER -> r
  <2>5. x \in {r1, r2, r3, r}
    <3>1. CASE c1 /\ ~c2 /\ ~c3
      <4>1. x = r1
        BY <3>1, Zenon
      <4> QED BY <4>1
    <3>2. CASE c2
      <4>1. ~c1 /\ ~c3
        BY <3>2 DEF c1, c2, c3, Issues, Ready
      <4>2. x = r2
        BY <3>2, <4>1, Zenon
      <4> QED BY <4>2
    <3>3. CASE c3
      <4>1. ~c1 /\ ~c2
        BY <3>3 DEF c1, c2, c3, Issues, Ready
      <4>2. x = r3
        BY <3>3, <4>1, Zenon
      <4> QED BY <4>2
    <3>4. CASE ~c1 /\ ~c2 /\ ~c3
      <4>1. x = r
        BY <3>4, Zenon
      <4> QED BY <4>1
    <3> QED BY <3>1, <3>2, <3>3, <3>4
  <2>6. rs'[P] = x
    <3>1. SetRs(P, x)
      BY <2>1
    <3> HIDE DEF x
    <3> QED BY <1>1, <3>1, SetRsAt
  <2> HIDE DEF x
  <2> QED BY <2>2, <2>3, <2>4, <2>5, <2>6
<1>7. CASE RspWait(P, rspval)
  BY <1>1, <1>7, SetRsAt DEF RspWait, r
<1>8. CASE RspTlb(P, rspval)
  <2> DEFINE e == [r EXCEPT !.fsm = "RSP_IDLE"]
  <2>1. SetRs(P, e)
    BY <1>8 DEF RspTlb, r
  <2>2. ~Writes(e)
    BY <1>4 DEF r, RsShape
  <2> HIDE DEF e
  <2> QED BY <1>1, <2>1, <2>2, SetRsAt
<1> QED BY <1>1, <1>3, <1>6, <1>7, <1>8 DEF MccRspFsm, TakesCell

(* The command that REQ_FSM drives, if any.                                *)
SendsCell(c) ==
  /\ cmd[P] = NoCell /\ rq[P].fsm \in SendStates \cup {"REQ_WRITE"}
  /\ cmd'[P] = c /\ c # NoCell /\ CommandFields(c)
  /\ rq[P].fsm = "REQ_WRITE" => c.data = rq[P].data /\ c.be = dm[P].wf

LEMMA SentCell ==
  ASSUME NEW rspval, NEW invval, ViewEdge(rspval, invval)
  PROVE  /\ cmd' = cmd \/ SendsCell(cmd'[P])
         /\ MccReqSends \/ MccReqSendsStore => SendsCell(cmd'[P])
         /\ ~MccReqSends /\ ~MccReqSendsStore => cmd' = cmd
<1>1. /\ MccRegsOK /\ P \in Procs /\ P \in Srcs /\ MccServiceInv(P) /\ MccBufferInv(P)
      /\ MccReqEffects
  BY EdgeFacts DEF CycleContext, MccCycleEffects
<1>2. ASSUME MccReqSends \/ MccReqSendsStore
      PROVE  SendsCell(cmd'[P])
  <2> DEFINE c == MccCommandCell(P)
  <2>1. /\ cmd[P] = NoCell /\ rq[P].fsm \in SendStates \cup {"REQ_WRITE"}
        /\ cmd' = [cmd EXCEPT ![P] = c]
    BY <1>2 DEF MccReqSends, MccReqSendsStore
  <2>2. CommandFields(c)
    BY <1>1, <2>1, MccCommandFacts
  <2>3. rq[P].fsm = "REQ_WRITE" => c.data = rq[P].data /\ c.be = dm[P].wf
    <3> SUFFICES ASSUME rq[P].fsm = "REQ_WRITE" PROVE c.data = rq[P].data /\ c.be = dm[P].wf
      OBVIOUS
    <3> DEFINE r == Plain("WRITE", rq[P].addr, dm[P].size, Page(va[P].data))
               e == dm[P].wf
               d == rq[P].data
               z == ~Rok(wb[P])
    <3>1. c = [r EXCEPT !.be = e, !.data = d, !.eop = z]
      BY DEF MccCommandCell, Plain
    <3>2. {"be", "data", "eop"} \subseteq DOMAIN r
      BY DEF Plain
    <3> HIDE DEF r, e, d, z, c
    <3>3. c.data = d /\ c.be = e
      BY <3>1, <3>2
    <3> QED BY <3>3 DEF c, d, e
  <2> HIDE DEF c
  <2>4. cmd'[P] = c /\ c # NoCell
    <3>1. c \in MccCmdCell
      BY <2>2 DEF CommandFields
    <3>2. c # NoCell
      BY <3>1, MccCellsAssumption
    <3> QED BY <1>1, <2>1, <3>2 DEF MccRegsOK
  <2> QED BY <2>1, <2>2, <2>3, <2>4 DEF SendsCell
<1>3. ~MccReqSends /\ ~MccReqSendsStore => cmd' = cmd
  BY <1>1 DEF MccReqEffects, MccReqKeeps, MccReqStartsData, MccReqStartsWrite, MccReqStartsInst,
     MccReqStartsNone, MccReqServes, MccReqDrops, MccReqEnds
<1> QED BY <1>2, <1>3

(* the write packet: only REQ_WRITE moves it on,                           *)
InPacket == rq[P].fsm = "REQ_WRITE" \/ Writing

LEMMA PacketFacts ==
  ASSUME MccInv
  PROVE  /\ InPacket => /\ dm[P].flush /\ ~dm[P].req /\ ~rs[P].dOk /\ ~rs[P].dRetry
                        /\ rs[P].fsm = "RSP_WRITE"
                        /\ rsp[P] = NoCell /\ packet.left = 0
                        /\ rq[P].fsm \in {"REQ_WRITE", "REQ_DWAIT"}
         /\ ~InPacket => Sent = 0 /\ Taken = 0
         /\ rq[P].cpt \in Nat
<1>1. MccRegsOK /\ MccServiceInv(P) /\ RequestInv(P) /\ MccFlightInv
  BY DEF MccInv, MccCacheInv
<1>2. rq[P].cpt \in Nat
  BY <1>1, MccRegTypes, SizeFacts DEF MccRqRegs
<1>3. ASSUME rq[P].fsm = "REQ_WRITE"
      PROVE  /\ dm[P].flush /\ ~dm[P].req /\ ~rs[P].dOk /\ ~rs[P].dRetry
             /\ rs[P].fsm = "RSP_WRITE" /\ rsp[P] = NoCell /\ packet.left = 0
  <2>1. /\ dm[P].flush /\ rs[P].fsm = DataRspState(P) /\ ~rs[P].dOk /\ ~rs[P].dRetry
    BY <1>1, <1>3 DEF MccServiceInv
  <2>2. rsp[P] = NoCell /\ packet.left = 0
    BY <1>1, <1>3 DEF MccFlightInv
  <2>3. ~dm[P].req
    BY <1>1, <2>1 DEF RequestInv
  <2> QED BY <2>1, <2>2, <2>3 DEF DataRspState
<1>4. ASSUME Writing
      PROVE  /\ dm[P].flush /\ ~dm[P].req /\ ~rs[P].dOk /\ ~rs[P].dRetry
             /\ rs[P].fsm = "RSP_WRITE" /\ rsp[P] = NoCell /\ packet.left = 0
             /\ rq[P].fsm \in {"REQ_WRITE", "REQ_DWAIT"}
  <2>1. cmd[P] # NoCell /\ rsp[P] = NoCell /\ packet.left = 0 /\ Asked
    BY <1>1, <1>4 DEF Writing, MccFlightInv
  <2>2. rs[P].fsm = "RSP_WRITE"
    <3>1. rs[P].fsm \in MccRspStates
      BY <1>1, MccStateFacts
    <3> QED BY <1>4, <2>1, <3>1 DEF Writing, Asked, MccRspStates, MccLineRsp, TlbRspStates
  <2>3. rq[P].fsm \in {"REQ_WRITE", "REQ_DWAIT"}
    <3>1. rq[P].fsm \in MccReqStates /\ (dm[P].req <=> DataRspState(P) \in {"RSP_UNC", "RSP_DMISS"})
      BY <1>1, MccStateFacts
    <3>2. rq[P].fsm # "REQ_IDLE" /\ rq[P].fsm # "REQ_TLB_INVAL" /\ rq[P].fsm \notin TlbStates
      BY <1>1, <2>2 DEF MccServiceInv, TlbStates, TlbRspStates
    <3>3. rq[P].fsm \notin {"REQ_IMISS", "REQ_IWAIT"}
      BY <1>1, <2>2 DEF MccServiceInv
    <3>4. rq[P].fsm \notin DataCellStates
      BY <1>1, <2>2, <3>1 DEF MccServiceInv
    <3> QED BY <3>1, <3>2, <3>3, <3>4 DEF MccReqStates, SendStates, DataCellStates
  <2>4. CASE rq[P].fsm = "REQ_WRITE"
    BY <1>3, <2>3, <2>4
  <2>5. CASE rq[P].fsm = "REQ_DWAIT"
    <3>1. /\ dm[P].req \/ dm[P].flush
          /\ rs[P].fsm = DataRspState(P) /\ ~rs[P].dOk /\ ~rs[P].dRetry
      BY <1>1, <2>2, <2>5 DEF MccServiceInv
    <3>2. ~dm[P].req
      BY <2>2, <3>1 DEF DataRspState
    <3> QED BY <2>1, <2>2, <2>3, <3>1, <3>2
  <2> QED BY <2>3, <2>4, <2>5
<1>5. ~InPacket => Sent = 0 /\ Taken = 0
  BY DEF InPacket, Sent, Taken
<1> QED BY <1>2, <1>3, <1>4, <1>5 DEF InPacket

(* the cell that REQ_FSM sends,                                            *)
LEMMA PacketSends ==
  ASSUME NEW rspval, NEW invval, ViewEdge(rspval, invval), InPacket
  PROVE  PacketInv'
<1> DEFINE q  == wb[P].cells
           n  == Len(q)
<1>1. /\ MccInv /\ MccRegsOK /\ P \in Procs /\ P \in Srcs /\ PacketInv /\ StoreInv
      /\ RequestInv(P) /\ MccBufferInv(P) /\ ContiguousInv(P) /\ CycleContext(rspval)
      /\ rspval => rsp[P] # NoCell
      /\ rs[P].dOk <=> DataDone(P)
      /\ memory' = memory /\ holds' = holds /\ packet' = packet
  BY EdgeFacts
<1>2. /\ dm[P].flush /\ ~dm[P].req /\ ~rs[P].dOk /\ ~rs[P].dRetry
      /\ rs[P].fsm = "RSP_WRITE" /\ rsp[P] = NoCell /\ ~rspval
      /\ rq[P].fsm \in {"REQ_WRITE", "REQ_DWAIT"}
      /\ rq[P].cpt \in Nat /\ n \in Nat /\ n = dm[P].size /\ dm[P].pending
  BY <1>1, PacketFacts, StoreCells
<1>3. wb'[P].cells = q
  <2>1. wb'[P].cells = IF WriteAnswered(P, rspval) THEN IF rsp[P].error THEN q ELSE <<>>
                       ELSE IF Puts(P) THEN Append(q, PutCell) ELSE q
    BY CellsAt
  <2> QED BY <1>2, <2>1 DEF WriteAnswered, Puts, Gathers
<1>4. dm'[P] = dm[P]
  <2>1. HeldEffect
    BY <1>1 DEF CycleContext
  <2> QED BY <1>1, <1>2, <2>1 DEF HeldEffect, SameRequest
<1>5. MccReqEffects /\ MccRspEffects(rspval)
  BY <1>1 DEF CycleContext, MccCycleEffects
<1>6. rsp' = rsp /\ ~rs'[P].dOk
  <2>1. MccRspKeeps(rspval)
    BY <1>2, <1>5 DEF MccRspEffects, MccRspClears, MccRspServesAck, MccRspStarts, Issues, Ready,
       MccRspTakesTlb, RspTakesLineCell, RspTakesOneCell
  <2> QED BY <1>2, <2>1 DEF MccRspKeeps, FlagsAfter
<1>7. tlb'[P] = tlb[P]
  BY <1>2, TlbStill
<1>8. MccReqKeeps \/ MccReqSendsStore
  BY <1>2, <1>5 DEF MccReqEffects, MccReqStartsData, MccReqStartsWrite, MccReqStartsInst,
     MccReqStartsNone, MccReqServes, MccReqDrops, MccReqSends, MccReqEnds, Issues, Ready,
     SendStates, OneCellStates, TlbStates
<1>9. /\ \A k \in 1 .. n : Contents'[q[k].addr] = Contents[q[k].addr]
      /\ rs'[P].fsm = "RSP_WRITE" => rsp'[P] = NoCell
  BY <1>1, <1>2, <1>6, ContentsStay
(* What PacketInv' is when only the command and REQ_FSM have changed.      *)
<1>10. SUFFICES
         /\ Writing' =>
              /\ Sent' \in 1 .. n
              /\ ReachesBy(tlb[P], cmd'[P].addr, q[Sent'].addr) /\ cmd'[P].data = q[Sent'].data
              /\ cmd'[P].be = Lanes
              /\ cmd'[P].eop <=> Sent' = n
         /\ Taken' = Taken
  <2>1. ASSUME rs'[P].fsm = "RSP_WRITE", rsp'[P] # NoCell PROVE FALSE
    BY <1>9, <2>1
  <2>2. /\ Taken \in 0 .. n /\ Len(packet.written) = Taken
        /\ \A k \in 1 .. Taken : ReachesBy(tlb[P], packet.written[k].addr, q[k].addr)
                                 /\ packet.written[k].data = q[k].data
                                 /\ packet.written[k].be = Lanes
    BY <1>1 DEF PacketInv, Carries, Reaches
  <2> HIDE DEF n, q
  <2>3. Len(wb'[P].cells) = n
    BY <1>3 DEF n
  <2> QED BY <1>1, <1>3, <1>6, <1>7, <1>10, <2>1, <2>2, <2>3 DEF PacketInv, Carries, Reaches
<1>11. CASE MccReqKeeps
  <2>1. rq'[P] = rq[P] /\ cmd' = cmd
    BY <1>11 DEF MccReqKeeps
  <2>2. Sent' = Sent /\ Taken' = Taken /\ Writing' = Writing
    BY <2>1 DEF Sent, Taken, Writing
  <2> QED BY <1>1, <2>1, <2>2 DEF PacketInv, Carries, Reaches
<1>12. CASE MccReqSendsStore
  <2> DEFINE c == cmd'[P]
  <2>1. /\ rq[P].fsm = "REQ_WRITE" /\ cmd[P] = NoCell /\ rq'[P].cpt = rq[P].cpt + 1
        /\ SendsCell(c)
    BY <1>12, SentCell DEF MccReqSendsStore
  <2>2. /\ c # NoCell /\ c.cmd = "WRITE" /\ c.addr = rq[P].addr /\ c.data = rq[P].data
        /\ c.be = dm[P].wf
        /\ c.eop <=> LastCell(P)
    BY <2>1 DEF SendsCell, CommandFields, CommandName, MccCommandAddr
  <2> HIDE DEF c
  <2>3. Writing' /\ Sent' = rq[P].cpt + 1 /\ Taken' = rq[P].cpt /\ Taken = rq[P].cpt
    <3>1. Writing' /\ ~Writing
      BY <2>1, <2>2 DEF Writing, c
    <3>2. Sent' = rq[P].cpt + 1 /\ Sent = rq[P].cpt
      BY <2>1, <3>1 DEF Sent
    <3> QED BY <1>2, <3>1, <3>2 DEF Taken
  <2>4. /\ wb[P].ptr = rq[P].cpt + 1 /\ rq[P].cpt < dm[P].size
        /\ TranslatesData(P, q[rq[P].cpt + 1].addr) /\ rq[P].data = q[rq[P].cpt + 1].data
    BY <1>1, <2>1 DEF MccBufferInv
  <2>5. rq[P].cpt + 1 \in 1 .. n /\ (LastCell(P) <=> rq[P].cpt + 1 = n)
    <3> HIDE DEF n
    <3> QED BY <1>2, <2>4 DEF LastCell
  <2>6. q[rq[P].cpt + 1].addr \in Addr
    BY <1>1, <2>5, StoreCells
  <2>7. ReachesBy(tlb[P], rq[P].addr, q[rq[P].cpt + 1].addr)
    BY <1>1, <2>4, <2>6, TranslateReaches DEF TranslatesData, Reaches
  <2>8. dm[P].wf = Lanes
    BY <1>1, <1>2 DEF StoreInv
  <2> QED BY <2>2, <2>3, <2>4, <2>5, <2>7, <2>8 DEF c
<1> QED BY <1>8, <1>11, <1>12

(* and the answer,                                                         *)
LEMMA PacketEnds ==
  ASSUME NEW rspval, NEW invval, ViewEdge(rspval, invval), ~InPacket
  PROVE  PacketInv'
<1> DEFINE q  == wb[P].cells
           q2 == wb'[P].cells
           n  == Len(q)
<1>1. /\ MccInv /\ MccRegsOK /\ P \in Procs /\ P \in Srcs /\ PacketInv /\ StoreInv
      /\ RequestInv(P) /\ RequestInv(P)' /\ MccBufferInv(P) /\ ContiguousInv(P) /\ CycleContext(rspval)
      /\ MccServiceInv(P) /\ MccResponseOK /\ MccFlightInv
      /\ rspval => rsp[P] # NoCell
      /\ rs[P].dOk <=> DataDone(P)
      /\ memory' = memory /\ holds' = holds /\ packet' = packet
  BY EdgeFacts DEF MccCacheInv
<1>2. Taken = 0 /\ Sent = 0 /\ ~Writing /\ rq[P].fsm # "REQ_WRITE" /\ n \in Nat
  BY <1>1, PacketFacts, StoreCells DEF InPacket
<1>3. /\ q2 = IF WriteAnswered(P, rspval) THEN IF rsp[P].error THEN q ELSE <<>>
              ELSE IF Puts(P) THEN Append(q, PutCell) ELSE q
      /\ WriteAnswered(P, rspval) => dm[P].flush /\ ~rs[P].dOk /\ ~Puts(P)
  BY CellsAt
<1>4. dm[P].flush /\ ~rs[P].dOk => dm'[P] = dm[P]
  <2>1. HeldEffect
    BY <1>1 DEF CycleContext
  <2> QED BY <1>1, <2>1 DEF HeldEffect, SameRequest
<1>5. MccReqEffects /\ MccRspEffects(rspval)
  BY <1>1 DEF CycleContext, MccCycleEffects
<1>6. Contents' = Contents
  BY <1>1, ContentsStay
<1>7. ~Writing'
  <2>1. CASE SendsCell(cmd'[P])
    <3>1. CommandFields(cmd'[P]) /\ rq[P].fsm \in SendStates
      BY <1>2, <2>1 DEF SendsCell
    <3>2. cmd'[P].cmd # "WRITE"
      BY <1>2, <3>1 DEF CommandFields, CommandName
    <3> QED BY <3>2 DEF Writing
  <2>2. CASE cmd' = cmd
    BY <1>2, <2>2 DEF Writing
  <2> QED BY <2>1, <2>2, SentCell
<1>8. rq'[P].fsm = "REQ_WRITE" => rq'[P].cpt = 0
  <2>1. DataReqState(P) # "REQ_WRITE"
    BY <1>1, MccStateFacts DEF DataCellStates, OneCellStates
  <2> QED BY <1>2, <1>5, <2>1 DEF MccReqEffects, MccReqKeeps, MccReqStartsData, MccReqStartsWrite,
       MccReqStartsInst, MccReqStartsNone, MccReqServes, MccReqDrops, MccReqSends,
       MccReqSendsStore, MccReqEnds
<1>9. Taken' = 0
  BY <1>7, <1>8 DEF Taken, Sent
<1>10. ASSUME rs'[P].fsm = "RSP_WRITE", rsp'[P] # NoCell, ~rsp'[P].error
       PROVE  \A k \in 1 .. Len(q2) : Contents'[q2[k].addr] = q2[k].data
  <2>1. MccRspKeeps(rspval)
    <3>1. TakeRsp(P) => rsp'[P] = NoCell
      BY <1>1 DEF TakeRsp, MccRegsOK
    <3>2. MccRspStarts => rsp'[P] = NoCell
      BY <1>1 DEF MccRspStarts, Issues, Ready, MccFlightInv, MccNothing
    <3> QED BY <1>5, <1>10, <3>1, <3>2 DEF MccRspEffects, MccRspClears, MccRspServesAck,
            MccRspTakesTlb, RspTakesLineCell, RspTakesOneCell
  <2>2. rs[P].fsm = "RSP_WRITE" /\ rsp[P] # NoCell /\ ~rsp[P].error /\ ~rspval
    BY <1>10, <2>1 DEF MccRspKeeps
  <2>3. rq[P].fsm = "REQ_DWAIT"
    BY <1>1, <2>2 DEF MccResponseOK, MccServiceInv, TlbRspStates
  <2>4. dm[P].flush /\ ~rs[P].dOk
    BY <1>1, <2>2, <2>3 DEF MccServiceInv, DataRspState
  <2>5. q2 = q
    BY <1>3, <2>2, <2>4 DEF WriteAnswered, Puts, Gathers
  <2> QED BY <1>1, <1>6, <2>2, <2>5 DEF PacketInv
<1>11. ASSUME dm'[P].flush, rs'[P].dOk
       PROVE  Contents'[dm'[P].addr] = dm'[P].data
  <2>1. /\ ~DataDone(P) /\ ~rs[P].dOk /\ rsp[P] # NoCell /\ ~rsp[P].error
        /\ dm[P].req \/ (dm[P].flush /\ WriteAnswered(P, rspval))
    BY <1>11, OkAt
  <2>2. ~dm[P].req
    <3>1. HeldEffect
      BY <1>1 DEF CycleContext
    <3> QED BY <1>1, <1>11, <2>1, <3>1 DEF HeldEffect, SameRequest, RequestInv
  <2>3. dm[P].flush /\ dm'[P] = dm[P] /\ dm[P].pending /\ rs[P].fsm = "RSP_WRITE"
    BY <1>1, <1>4, <2>1, <2>2 DEF WriteAnswered, RequestInv
  <2>4. n \in 1 .. n /\ q[n].addr = dm[P].addr
    BY <1>1, <1>2, <2>1, <2>3, StoreCells
  <2>5. q[n].data = dm[P].data
    BY <1>1, <2>1, <2>3 DEF StoreInv
  <2>6. Contents[q[n].addr] = q[n].data
    BY <1>1, <2>1, <2>3, <2>4 DEF PacketInv
  <2> QED BY <1>6, <2>3, <2>4, <2>5, <2>6
<1>12. 0 \in 0 .. Len(q2)
  <2> DEFINE S == [addr : Addr, data : Word]
             c == PutCell
  <2>1. q \in Seq(S) /\ c \in S
    BY <1>1, StoreCells DEF PutCell
  <2> HIDE DEF S, c
  <2>2. Len(q) \in Nat /\ Len(Append(q, c)) \in Nat /\ Len(<<>>) \in Nat
    BY <2>1
  <2>3. Len(q2) \in Nat
    BY <1>3, <2>2 DEF c
  <2> HIDE DEF q2
  <2> QED BY <2>3
<1>13. Len(packet'.written) = 0
  BY <1>1, <1>2 DEF PacketInv
<1> QED BY <1>7, <1>9, <1>10, <1>11, <1>12, <1>13 DEF PacketInv

LEMMA PacketStep ==
  ASSUME NEW rspval, NEW invval, ViewEdge(rspval, invval)
  PROVE  PacketInv'
BY PacketSends, PacketEnds

(* what loads bring back: the line or the word that they asked,            *)
LEMMA LoadServed ==
  ASSUME NEW rspval, NEW invval, ViewEdge(rspval, invval),
         rs[P].fsm \in {"RSP_DMISS", "RSP_UNC"}
  PROVE  /\ dm[P].req /\ DataRspState(P) = rs[P].fsm /\ ~rs[P].dOk
         /\ dc[P].addr \in Addr /\ dc'[P].addr = dc[P].addr /\ LineBase' = LineBase
         /\ tlb'[P] = tlb[P]
         /\ cmd'[P] # NoCell =>
              ReachesBy(tlb[P], cmd'[P].addr,
                        IF rs[P].fsm = "RSP_DMISS" THEN LineBase ELSE dc[P].addr)
<1>1. /\ MccRegsOK /\ RequestInv(P) /\ MccServiceInv(P) /\ CycleContext(rspval) /\ AnswerInv
      /\ rs[P].dOk <=> DataDone(P)
  BY EdgeFacts
<1>2. /\ rq[P].fsm \in MccReqStates
      /\ dm[P].req <=> DataRspState(P) \in {"RSP_UNC", "RSP_DMISS"}
      /\ DataReqState(P) \in DataCellStates
      /\ dc[P].addr \in Addr /\ rq[P].addr \in Addr
  BY <1>1, MccStateFacts, MccAddrs
<1>3. \/ rq[P].fsm = "REQ_IDLE" /\ dm[P].req /\ DataRspState(P) = rs[P].fsm /\ ~rs[P].dOk
      \/ /\ rq[P].fsm \in DataCellStates \cup {"REQ_WRITE", "REQ_DWAIT"}
         /\ DataRspState(P) = rs[P].fsm /\ ~rs[P].dOk
  <2>1. CASE rq[P].fsm = "REQ_IDLE"
    BY <1>1, <2>1 DEF MccServiceInv, TlbRspStates
  <2>2. CASE rq[P].fsm \in DataCellStates \cup {"REQ_WRITE"}
    BY <1>1, <2>2 DEF MccServiceInv
  <2>3. CASE rq[P].fsm = "REQ_DWAIT"
    BY <1>1, <2>3 DEF MccServiceInv
  <2>4. CASE rq[P].fsm \in TlbStates \cup {"REQ_TLB_INVAL"}
    BY <1>1, <2>4 DEF MccServiceInv, TlbStates
  <2>5. CASE rq[P].fsm \in {"REQ_IMISS", "REQ_IWAIT"}
    BY <1>1, <2>5 DEF MccServiceInv
  <2> QED BY <1>2, <2>1, <2>2, <2>3, <2>4, <2>5 DEF MccReqStates, SendStates, DataCellStates
<1>4. dm[P].req /\ DataRspState(P) = rs[P].fsm /\ ~rs[P].dOk
  BY <1>2, <1>3
<1>5. dc'[P].addr = dc[P].addr /\ LineBase' = LineBase
  <2>1. HeldEffect
    BY <1>1 DEF CycleContext
  <2> QED BY <1>1, <1>4, <2>1 DEF HeldEffect, SameRequest, LineBase
<1>6. tlb'[P] = tlb[P]
  BY TlbStill
<1>7. ASSUME SendsCell(cmd'[P])
      PROVE  ReachesBy(tlb[P], cmd'[P].addr,
                       IF rs[P].fsm = "RSP_DMISS" THEN LineBase ELSE dc[P].addr)
  <2>1. /\ rq[P].fsm \in SendStates \cup {"REQ_WRITE"}
        /\ cmd'[P].addr = MccCommandAddr
    BY <1>7 DEF SendsCell, CommandFields
  <2>2. rq[P].fsm \in DataCellStates
    <3>1. rq[P].fsm # "REQ_WRITE"
      BY <1>1, <1>4 DEF MccServiceInv, RequestInv
    <3>2. rq[P].fsm \notin {"REQ_IDLE", "REQ_DWAIT"}
      BY <2>1 DEF SendStates, OneCellStates, TlbStates
    <3> QED BY <1>3, <3>1, <3>2
  <2>3. rq[P].fsm = DataReqState(P) /\ TranslatesData(P, dc[P].addr)
    BY <1>1, <2>2 DEF MccServiceInv
  <2>4. ReachesBy(tlb[P], rq[P].addr, dc[P].addr)
    BY <1>1, <1>2, <2>3, TranslateReaches DEF TranslatesData, Reaches
  <2>5. rq[P].fsm = "REQ_DMISS" <=> rs[P].fsm = "RSP_DMISS"
    <3>1. CASE dc[P].ll
      BY <1>4, <2>3, <3>1 DEF DataRspState, DataReqState
    <3>2. CASE ~dc[P].ll /\ dc[P].sc
      BY <1>4, <2>3, <3>2 DEF DataRspState, DataReqState
    <3>3. CASE ~dc[P].ll /\ ~dc[P].sc
      BY <1>4, <2>3, <3>3 DEF DataRspState, DataReqState
    <3> QED BY <3>1, <3>2, <3>3
  <2>6. CASE rq[P].fsm = "REQ_DMISS"
    <3>1. cmd'[P].addr = Base(Block(rq[P].addr))
      BY <2>1, <2>6 DEF MccCommandAddr
    <3>2. ReachesBy(tlb[P], Base(Block(rq[P].addr)), Base(Block(dc[P].addr)))
      BY <1>2, <2>4, LineReached DEF Reaches
    <3> QED BY <2>5, <2>6, <3>1, <3>2 DEF LineBase
  <2>7. CASE rq[P].fsm # "REQ_DMISS"
    <3>1. cmd'[P].addr = rq[P].addr
      BY <2>1, <2>2, <2>7 DEF MccCommandAddr, DataCellStates, OneCellStates
    <3> QED BY <2>4, <2>5, <2>7, <3>1
  <2> QED BY <2>6, <2>7
<1>8. cmd'[P] # NoCell =>
        ReachesBy(tlb[P], cmd'[P].addr,
                  IF rs[P].fsm = "RSP_DMISS" THEN LineBase ELSE dc[P].addr)
  <2>1. CASE cmd' = cmd
    BY <1>1, <2>1 DEF AnswerInv, Reaches
  <2> QED BY <1>7, <2>1, SentCell
<1> QED BY <1>2, <1>4, <1>5, <1>6, <1>8

(* RSP_FSM starts to listen when nothing is under way.                     *)
LEMMA ListenStarts ==
  ASSUME NEW rspval, NEW invval, ViewEdge(rspval, invval), MccRspStarts
  PROVE  cmd'[P] = NoCell /\ rsp'[P] = NoCell /\ packet'.left = 0 /\ rs'[P].cpt = 0
<1>1. MccFlightInv /\ packet' = packet
  BY EdgeFacts
<1>2. MccNothing /\ rq[P].fsm = "REQ_IDLE" /\ rsp' = rsp /\ rs'[P].cpt = 0
  BY <1>1 DEF MccRspStarts, Issues, Ready, MccFlightInv
<1>3. cmd' = cmd
  BY <1>2, SentCell DEF MccReqSends, MccReqSendsStore, SendStates, OneCellStates, TlbStates
<1> QED BY <1>1, <1>2, <1>3 DEF MccNothing, NoPacket

(* the cells of a line,                                                    *)
LEMMA AnswerLine ==
  ASSUME NEW rspval, NEW invval, ViewEdge(rspval, invval), rs'[P].fsm = "RSP_DMISS"
  PROVE  /\ cmd'[P] # NoCell => ReachesBy(tlb'[P], cmd'[P].addr, LineBase')
         /\ packet'.left > 0 =>
              ReachesBy(tlb'[P], packet'.addr, LineBase' + rs'[P].cpt + MccArrived')
         /\ rsp'[P] # NoCell /\ ~rsp'[P].error => rsp'[P].data = Contents'[LineBase' + rs'[P].cpt]
         /\ ~rs'[P].dRetry => \A x \in Offsets : x < rs'[P].cpt =>
                                rs'[P].buf[x] = Contents'[LineBase' + x]
<1>1. /\ MccRegsOK /\ P \in Procs /\ P \in Srcs /\ MccResponseOK /\ CycleContext(rspval)
      /\ AnswerInv /\ MccRspEffects(rspval) /\ packet' = packet
      /\ rspval => rsp[P] # NoCell
      /\ Contents' = Contents
  BY EdgeFacts, ContentsStay DEF CycleContext, MccCycleEffects
<1>2. /\ rs[P].cpt \in Nat /\ rs[P].buf \in [Offsets -> Word] /\ LineWords \in Nat \ {0}
      /\ packet.left \in Nat
  BY <1>1, MccRegTypes, SizeFacts DEF MccRsRegs, MccRegsOK
<1>3. CASE MccRspStarts
  <2>1. cmd'[P] = NoCell /\ rsp'[P] = NoCell /\ packet'.left = 0 /\ rs'[P].cpt = 0
    BY <1>3, ListenStarts
  <2>2. \A x \in Offsets : ~(x < 0)
    BY <1>2 DEF Offsets
  <2> QED BY <2>1, <2>2
<1>4. CASE MccRspKeeps(rspval)
  <2>1. /\ rs[P].fsm = "RSP_DMISS" /\ rsp' = rsp /\ rs'[P].cpt = rs[P].cpt /\ ~rspval
        /\ rs'[P].dRetry <=> rs[P].dRetry
    BY <1>4 DEF MccRspKeeps, FlagsAfter
  <2>2. rs'[P].buf = rs[P].buf
    BY <2>1, WordsStay DEF RspTakesLineCell, RspTakesOneCell
  <2>3. /\ LineBase' = LineBase /\ MccArrived' = MccArrived /\ tlb'[P] = tlb[P]
        /\ cmd'[P] # NoCell => ReachesBy(tlb[P], cmd'[P].addr, LineBase)
    BY <2>1, LoadServed DEF MccArrived
  <2>4. /\ packet.left > 0 => ReachesBy(tlb[P], packet.addr, LineBase + rs[P].cpt + MccArrived)
        /\ rsp[P] # NoCell /\ ~rsp[P].error => rsp[P].data = Contents[LineBase + rs[P].cpt]
        /\ ~rs[P].dRetry => \A x \in Offsets : x < rs[P].cpt => rs[P].buf[x] = Contents[LineBase + x]
    BY <1>1, <2>1 DEF AnswerInv, Reaches
  <2> QED BY <1>1, <2>1, <2>2, <2>3, <2>4
<1>5. CASE RspTakesLineCell(P, rspval)
  <2>1. /\ rs[P].fsm = "RSP_DMISS" /\ rspval /\ rsp'[P] = NoCell /\ rsp[P] # NoCell
        /\ rs'[P].cpt = rs[P].cpt + 1
        /\ rs'[P].buf = [rs[P].buf EXCEPT ![rs[P].cpt] = rsp[P].data]
        /\ rs'[P].dRetry <=> rs[P].dRetry \/ rsp[P].error
    BY <1>1, <1>5 DEF RspTakesLineCell, FlagsAfter, TakeRsp, MccRegsOK
  <2>2. LineBase' = LineBase /\ MccArrived' = 0 /\ MccArrived = 1 /\ tlb'[P] = tlb[P]
    BY <2>1, LoadServed DEF MccArrived
  <2>3. cmd'[P] = NoCell
    <3>1. cmd[P] = NoCell /\ rq[P].fsm \in {"REQ_IDLE", "REQ_DWAIT", "REQ_IWAIT"}
      BY <1>1, <2>1 DEF MccResponseOK
    <3> QED BY <3>1, SentCell DEF MccReqSends, MccReqSendsStore, SendStates, OneCellStates,
            TlbStates
  <2>4. packet.left > 0 => ReachesBy(tlb[P], packet.addr, LineBase + rs[P].cpt + 1)
    BY <1>1, <2>1, <2>2 DEF AnswerInv, Reaches
  <2>5. LineBase + rs[P].cpt + 1 = LineBase + (rs[P].cpt + 1) + 0
    <3>1. LineBase \in Nat
      BY <2>1, LoadServed, LineWord, PageFacts DEF LineBase
    <3> HIDE DEF LineBase
    <3> QED BY <1>2, <3>1
  <2>6. ASSUME ~rs'[P].dRetry, NEW x \in Offsets, x < rs'[P].cpt
        PROVE  rs'[P].buf[x] = Contents[LineBase + x]
    <3>1. ~rs[P].dRetry /\ ~rsp[P].error /\ x \in Int
      BY <1>2, <2>1, <2>6 DEF Offsets
    <3>2. /\ rsp[P].data = Contents[LineBase + rs[P].cpt]
          /\ \A y \in Offsets : y < rs[P].cpt => rs[P].buf[y] = Contents[LineBase + y]
      BY <1>1, <2>1, <3>1 DEF AnswerInv
    <3>3. CASE x = rs[P].cpt
      BY <1>2, <2>1, <3>2, <3>3
    <3>4. CASE x # rs[P].cpt
      <4>1. x < rs[P].cpt
        BY <1>2, <2>1, <2>6, <3>1, <3>4
      <4> QED BY <1>2, <2>1, <3>2, <3>4, <4>1
    <3> QED BY <3>3, <3>4
  <2> QED BY <1>1, <2>1, <2>2, <2>3, <2>4, <2>5, <2>6
<1> QED BY <1>1, <1>3, <1>4, <1>5 DEF MccRspEffects, MccRspClears, MccRspServesAck,
           MccRspTakesTlb, RspTakesOneCell

(* the word of an uncached access,                                         *)
LEMMA AnswerWord ==
  ASSUME NEW rspval, NEW invval, ViewEdge(rspval, invval), rs'[P].fsm = "RSP_UNC"
  PROVE  /\ cmd'[P] # NoCell => ReachesBy(tlb'[P], cmd'[P].addr, dc'[P].addr)
         /\ packet'.left > 0 => ReachesBy(tlb'[P], packet'.addr, dc'[P].addr)
         /\ rsp'[P] # NoCell /\ ~rsp'[P].error => rsp'[P].data = Contents'[dc'[P].addr]
<1>1. /\ AnswerInv /\ MccRspEffects(rspval) /\ packet' = packet /\ Contents' = Contents
      /\ packet.left \in Nat
  <2>1. MccRegsOK
    BY EdgeFacts
  <2> QED BY <2>1, EdgeFacts, ContentsStay DEF CycleContext, MccCycleEffects, MccRegsOK
<1>2. CASE MccRspStarts
  <2>1. cmd'[P] = NoCell /\ rsp'[P] = NoCell /\ packet'.left = 0
    BY <1>2, ListenStarts
  <2> QED BY <2>1
<1>3. CASE MccRspKeeps(rspval)
  <2>1. rs[P].fsm = "RSP_UNC" /\ rsp' = rsp
    BY <1>3 DEF MccRspKeeps
  <2>2. /\ dc'[P].addr = dc[P].addr /\ tlb'[P] = tlb[P]
        /\ cmd'[P] # NoCell => ReachesBy(tlb[P], cmd'[P].addr, dc[P].addr)
    BY <2>1, LoadServed
  <2>3. /\ packet.left > 0 => ReachesBy(tlb[P], packet.addr, dc[P].addr)
        /\ rsp[P] # NoCell /\ ~rsp[P].error => rsp[P].data = Contents[dc[P].addr]
    BY <1>1, <2>1 DEF AnswerInv, Reaches
  <2> QED BY <1>1, <2>1, <2>2, <2>3
<1> QED BY <1>1, <1>2, <1>3 DEF MccRspEffects, MccRspClears, MccRspServesAck,
           MccRspTakesTlb, RspTakesOneCell, RspTakesLineCell

(* the answer that RSP_OK tells of,                                        *)
LEMMA AnswerOk ==
  ASSUME NEW rspval, NEW invval, ViewEdge(rspval, invval), dm'[P].req, rs'[P].dOk
  PROVE  IF Filling(P)' THEN HasLine' ELSE rs'[P].unc = Contents'[dc'[P].addr]
<1>1. /\ MccRegsOK /\ RequestInv(P) /\ RequestInv(P)' /\ CycleContext(rspval) /\ AnswerInv
      /\ rs[P].dOk <=> DataDone(P)
      /\ Contents' = Contents /\ LoadInv'
  BY EdgeFacts, ContentsStay, LoadStep DEF MccCacheInv
<1>2. /\ rs[P].cpt \in Nat /\ rs[P].buf \in [Offsets -> Word] /\ LineWords \in Nat \ {0}
  BY <1>1, MccRegTypes, SizeFacts DEF MccRsRegs
<1>3. /\ ~DataDone(P) /\ ~rs[P].dOk /\ rsp[P] # NoCell /\ ~rsp[P].error
      /\ rs[P].fsm = DataRspState(P)
      /\ \/ dm[P].flush /\ WriteAnswered(P, rspval)
         \/ dm[P].req /\ rs[P].fsm = "RSP_UNC" /\ RspTakesOneCell(P, rspval)
         \/ /\ dm[P].req /\ rs[P].fsm = "RSP_DMISS" /\ RspTakesLineCell(P, rspval)
            /\ LastOfLine(P) /\ ~rs[P].dRetry
  BY OkAt
<1>4. dm[P].req /\ SameRequest(P)
  <2>1. HeldEffect
    BY <1>1 DEF CycleContext
  <2> QED BY <1>1, <1>3, <2>1 DEF HeldEffect, SameRequest
<1>5. (dc'[P].unc \/ dc'[P].ll \/ dc'[P].sc) <=> rs[P].fsm = "RSP_UNC"
  BY <1>3, <1>4 DEF DataRspState, SameRequest
<1>6. Filling(P)' <=> rs[P].fsm # "RSP_UNC"
  <2>1. Loading'
    BY <1>1 DEF RequestInv, Loading
  <2> QED BY <1>1, <1>5, <2>1 DEF LoadInv
<1>7. CASE rs[P].fsm = "RSP_UNC"
  <2>1. rs'[P].unc = rsp[P].data
    BY <1>1, <1>3, <1>4, <1>7 DEF RspTakesOneCell, RequestInv, WriteAnswered
  <2>2. rsp[P].data = Contents[dc[P].addr] /\ dc'[P].addr = dc[P].addr
    BY <1>1, <1>3, <1>7, LoadServed DEF AnswerInv
  <2> QED BY <1>1, <1>6, <1>7, <2>1, <2>2
<1>8. CASE rs[P].fsm # "RSP_UNC"
  <2>1. /\ rs[P].fsm = "RSP_DMISS" /\ RspTakesLineCell(P, rspval)
        /\ LastOfLine(P) /\ ~rs[P].dRetry
    BY <1>1, <1>3, <1>4, <1>8 DEF RequestInv
  <2>2. rs'[P].buf = [rs[P].buf EXCEPT ![rs[P].cpt] = rsp[P].data]
    BY <2>1 DEF RspTakesLineCell
  <2>3. /\ rsp[P].data = Contents[LineBase + rs[P].cpt] /\ LineBase' = LineBase
        /\ \A x \in Offsets : x < rs[P].cpt => rs[P].buf[x] = Contents[LineBase + x]
    BY <1>1, <1>3, <2>1, LoadServed DEF AnswerInv
  <2>4. ASSUME NEW x \in Offsets
        PROVE  rs'[P].buf[x] = Contents[LineBase + x]
    <3>1. x = rs[P].cpt \/ x < rs[P].cpt
      BY <1>2, <2>1 DEF Offsets, LastOfLine
    <3>2. CASE x = rs[P].cpt
      BY <1>2, <2>2, <2>3, <3>2
    <3>3. CASE x < rs[P].cpt
      <4>1. x # rs[P].cpt
        BY <1>2, <3>3
      <4> QED BY <1>2, <2>2, <2>3, <3>3, <4>1
    <3> QED BY <3>1, <3>2, <3>3
  <2> QED BY <1>1, <1>6, <1>8, <2>3, <2>4 DEF HasLine
<1> QED BY <1>7, <1>8

(* and the state that answers the processor,                               *)
LEMMA AnswerGiven ==
  ASSUME NEW rspval, NEW invval, ViewEdge(rspval, invval),
         dc'[P].fsm \in {"DCACHE_MISSUPDT", "DCACHE_UNC_LL_SC_GO"}
  PROVE  IF dc'[P].fsm = "DCACHE_MISSUPDT" THEN HasLine'
         ELSE rs'[P].unc = Contents'[dc'[P].addr]
<1>1. /\ DataRegsOK /\ P \in Procs /\ DCacheFsm(P) /\ RequestInv(P) /\ PrevInv(P)
      /\ MccServiceInv(P) /\ MccRegsOK /\ AnswerInv /\ Contents' = Contents
  BY EdgeFacts, ContentsStay
<1>2. \/ TakesAway(P) \/ Idles(P) \/ StoresWord(P) \/ Misses(P) \/ AsksWord(P)
      \/ UpdatesWord(P) \/ Waits(P) \/ FillsLine(P) \/ DropsLine(P) \/ Invalidates(P)
  BY <1>1, AnyDcShape
<1>3. /\ rs[P].dOk /\ Waiting(P) /\ SameData(P)
      /\ dc'[P].fsm = "DCACHE_MISSUPDT" <=> Filling(P)
  <2>1. CASE Waits(P)
    BY <2>1 DEF Waits, WaitStates, Waiting, Filling
  <2>2. CASE Invalidates(P)
    BY <1>1, <2>2 DEF Invalidates, WaitStates, Waiting, Filling, PrevInv
  <2> QED BY <1>2, <2>1, <2>2 DEF TakesAway, Idles, StoresWord, Misses, AsksWord,
          UpdatesWord, FillsLine, DropsLine
<1>4. IF Filling(P) THEN HasLine ELSE rs[P].unc = Contents[dc[P].addr]
  BY <1>1, <1>3 DEF AnswerInv, RequestInv
<1>5. rs[P].fsm = "RSP_IDLE"
  <2>1. rq[P].fsm \in MccReqStates
    BY <1>1, MccStateFacts
  <2>2. rq[P].fsm \in {"REQ_DWAIT"}
    BY <1>1, <1>3, <2>1 DEF MccServiceInv, MccReqStates, SendStates, DataCellStates, OneCellStates
  <2> QED BY <1>1, <1>3, <2>2 DEF MccServiceInv
<1>6. rs'[P].buf = rs[P].buf /\ rs'[P].unc = rs[P].unc
  BY <1>5, WordsStay DEF RspTakesLineCell, RspTakesOneCell
<1> QED BY <1>1, <1>3, <1>4, <1>6 DEF HasLine, LineBase, SameData

LEMMA AnswerStep ==
  ASSUME NEW rspval, NEW invval, ViewEdge(rspval, invval)
  PROVE  AnswerInv'
<1>1. /\ rs'[P].fsm = "RSP_DMISS" =>
           /\ cmd'[P] # NoCell => ReachesBy(tlb'[P], cmd'[P].addr, LineBase')
           /\ packet'.left > 0 =>
                ReachesBy(tlb'[P], packet'.addr, LineBase' + rs'[P].cpt + MccArrived')
           /\ rsp'[P] # NoCell /\ ~rsp'[P].error =>
                rsp'[P].data = Contents'[LineBase' + rs'[P].cpt]
           /\ ~rs'[P].dRetry => \A x \in Offsets : x < rs'[P].cpt =>
                                  rs'[P].buf[x] = Contents'[LineBase' + x]
      /\ rs'[P].fsm = "RSP_UNC" =>
           /\ cmd'[P] # NoCell => ReachesBy(tlb'[P], cmd'[P].addr, dc'[P].addr)
           /\ packet'.left > 0 => ReachesBy(tlb'[P], packet'.addr, dc'[P].addr)
           /\ rsp'[P] # NoCell /\ ~rsp'[P].error => rsp'[P].data = Contents'[dc'[P].addr]
  BY AnswerLine, AnswerWord
<1>2. dm'[P].req /\ rs'[P].dOk =>
        IF Filling(P)' THEN HasLine' ELSE rs'[P].unc = Contents'[dc'[P].addr]
  BY AnswerOk
<1>3. /\ dc'[P].fsm = "DCACHE_MISSUPDT" => HasLine'
      /\ dc'[P].fsm = "DCACHE_UNC_LL_SC_GO" => rs'[P].unc = Contents'[dc'[P].addr]
  BY AnswerGiven
<1> HIDE DEF LineBase, HasLine, MccArrived
<1> QED BY <1>1, <1>2, <1>3 DEF AnswerInv, Reaches

(* the lines.                                                              *)
LEMMA LineStep ==
  ASSUME NEW rspval, NEW invval, ViewEdge(rspval, invval)
  PROVE  LineInv'
<1> DEFINE lat  == [a \in Addr |-> Latest(a)]
           lat2 == [a \in Addr |-> Latest(a)']
<1>1. /\ DataRegsOK /\ P \in Procs /\ RequestInv(P) /\ PrevInv(P) /\ DCacheFsm(P)
      /\ MccInv /\ AnswerInv /\ LineInv /\ MccRegsOK /\ MccBufferInv(P) /\ ContiguousInv(P)
  BY EdgeFacts
<1>2. /\ LinesWait(P)
      /\ \A a \in Addr : HasCopy(P, Block(a)) => CopyAfter(P, a) = lat[a]
  BY <1>1 DEF LineInv
<1>3. ASSUME dc[P].fsm = "DCACHE_MISSUPDT", NEW a \in Addr, Block(a) = Block(dc[P].addr)
      PROVE  rs[P].buf[Offset(a)] = lat[a]
  <2>1. LineBase + Offset(a) = a /\ Offset(a) \in Offsets
    BY <1>3, AddrSplit, AddrTypes DEF LineBase
  <2>2. rs[P].buf[Offset(a)] = Contents[a]
    BY <1>1, <1>3, <2>1 DEF AnswerInv, HasLine
  <2>3. ~dm[P].pending
    BY <1>1, <1>3 DEF RequestInv
  <2>4. wb[P].cells = <<>>
    BY <1>1, <2>3, StoreCells
  <2>5. Latest(a) = Contents[a]
    <3>1. Latest(a) = Visible(Contents, dm[P], wb[P].cells, a)
      BY LatestVisible
    <3>2. Where(wb[P].cells, a) = {}
      BY <2>4 DEF Where
    <3> QED BY <2>3, <3>1, <3>2 DEF Visible
  <2> QED BY <2>2, <2>5
<1>4. ASSUME NEW a \in Addr
      PROVE  lat2[a] = IF TakesStore(P) /\ a = cpu[P].addr
                       THEN Merge(lat[a], cpu[P].data, cpu[P].be) ELSE lat[a]
  BY LatestKept, LatestStored
<1> HIDE DEF lat, lat2
<1>5. LinesWait(P)' /\ \A a \in Addr : HasCopy(P, Block(a))' => CopyAfter(P, a)' = lat2[a]
  BY <1>1, <1>2, <1>3, <1>4, AnyLineStep
<1> QED BY <1>5 DEF LineInv, lat2

-----------------------------------------------------------------------------
(* The invariants over the steps of the memories, of the homes and of the  *)
(* exchange: the data side of the cache stands still.                      *)
DataStill == UNCHANGED <<types, cpu, dc, tag, line, dm, wb, rq, rs, tlb>>

LEMMA ViewStill ==
  ASSUME ViewInv, DataStill, Contents' = Contents
  PROVE  /\ AskInv' /\ LoadInv' /\ StoreInv' /\ LineInv'
         /\ \A a \in Addr : Latest(a)' = Latest(a)
<1>1. \A a \in Addr : Latest(a)' = Latest(a)
  BY LatestVisible DEF DataStill
<1>2. AskInv' /\ LoadInv' /\ StoreInv'
  BY DEF DataStill, ViewInv, AskInv, LoadInv, StoreInv, Loading, Waiting, Filling
<1>3. LineInv'
  BY <1>1 DEF DataStill, ViewInv, LineInv, HasCopy, LinesWait, CopyAfter, CopyIn, Filling
<1> QED BY <1>1, <1>2, <1>3

(* So does the network.                                                    *)
LEMMA ViewFrame ==
  ASSUME ViewInv, DataStill, UNCHANGED <<cmd, rsp, packet>>, Contents' = Contents
  PROVE  /\ AskInv' /\ LoadInv' /\ StoreInv' /\ PacketInv' /\ AnswerInv' /\ LineInv'
         /\ \A a \in Addr : Latest(a)' = Latest(a)
<1>1. /\ AskInv' /\ LoadInv' /\ StoreInv' /\ LineInv'
      /\ \A a \in Addr : Latest(a)' = Latest(a)
  BY ViewStill
<1>2. PacketInv'
  BY DEF DataStill, ViewInv, PacketInv, Writing, Sent, Taken, Carries, Reaches
<1>3. AnswerInv'
  BY DEF DataStill, ViewInv, AnswerInv, LineBase, HasLine, MccArrived, Filling, Reaches
<1> QED BY <1>1, <1>2, <1>3

(* A request about the TLB is answered while no data are under way.        *)
LEMMA TlbRequestStep ==
  ASSUME ViewInv, MemTlbMiss \/ MemTlbAck
  PROVE  /\ AskInv' /\ LoadInv' /\ StoreInv' /\ PacketInv' /\ AnswerInv' /\ LineInv'
         /\ \A a \in Addr : Latest(a)' = Latest(a)
<1>1. /\ DataStill /\ UNCHANGED <<memory, holds, packet>>
      /\ TakeCommand({"READ_TLB_MISS", "TLB_INV_ACK"})
  BY DEF MemTlbMiss, MemTlbAck, TakeCommand, DataStill, cacheVars, tlbVars
<1>2. MccInv /\ PacketInv /\ AnswerInv
  BY DEF ViewInv
<1>3. Contents' = Contents
  BY <1>1, ContentsStay
<1>4. TakenCommand({"READ_TLB_MISS", "TLB_INV_ACK"})
  BY <1>1, <1>2, TakenFacts
<1>5. cmd'[P] = NoCell /\ cmd[P].cmd # "WRITE"
  BY <1>4 DEF TakenCommand
<1>6. rs[P].fsm \notin {"RSP_WRITE", "RSP_DMISS", "RSP_UNC"}
  BY <1>4 DEF TakenCommand, Asked, MccLineRsp
<1>7. ~Writing /\ ~Writing'
  BY <1>5 DEF Writing
<1>8. Sent' = Sent /\ Taken' = Taken
  BY <1>1, <1>7 DEF Sent, Taken, DataStill
<1>9. PacketInv'
  BY <1>1, <1>2, <1>3, <1>6, <1>7, <1>8 DEF DataStill, PacketInv, Carries, Reaches
<1>10. AnswerInv'
  BY <1>1, <1>2, <1>3, <1>6 DEF DataStill, AnswerInv, LineBase, HasLine, Filling
<1> QED BY <1>1, <1>3, <1>9, <1>10, ViewStill

(* What leaves the frames and the network as they are.                     *)
LEMMA OtherStep ==
  ASSUME ViewInv,
         \/ FetchRequest \/ MemInval \/ MemTakeAck \/ MoveBegin \/ Poison \/ UpdatePageTable
         \/ SendTlbInval \/ Unpoison \/ UNCHANGED vars
  PROVE  /\ AskInv' /\ LoadInv' /\ StoreInv' /\ PacketInv' /\ AnswerInv' /\ LineInv'
         /\ \A a \in Addr : Latest(a)' = Latest(a)
<1>1. DataStill /\ UNCHANGED <<cmd, rsp, packet, memory, holds>>
  BY DEF FetchRequest, MemInval, MemTakeAck, MoveBegin, Poison, UpdatePageTable, SendTlbInval,
     SendInval, Unpoison, OnlyMoves, vars, nocVars, cacheVars, tlbVars, memVars, moveVars, DataStill
<1>2. Contents' = Contents
  BY <1>1, ContentsStay
<1> QED BY <1>1, <1>2, ViewFrame

(* The exchange: each word is where its page has gone.                     *)
LEMMA ExchangeContents ==
  ASSUME MccInv, Exchange
  PROVE  Contents' = Contents
<1>1. MoveInv
  BY DEF MccInv
<1>2. /\ move.frames \subseteq Pages
      /\ \A f \in move.frames : Partner(f) \in move.frames /\ Partner(Partner(f)) = f
  BY <1>1, Partners
<1>3. \A f \in Pages : holds'[f] = IF f \in move.frames THEN holds[Partner(f)] ELSE holds[f]
  BY DEF Exchange
<1>4. \A a \in Addr : memory'[a] =
        IF Page(a) \in move.frames
        THEN memory[PageBase(Partner(Page(a))) + (a % PageWords)] ELSE memory[a]
  BY DEF Exchange
<1> SUFFICES ASSUME NEW a \in Addr PROVE Content(a)' = Content(a)
  BY DEF Contents
<1> DEFINE v == Page(a)
           k == a % PageWords
           f == FrameThatHolds(v)
           g == IF f \in move.frames THEN Partner(f) ELSE f
<1>5. v \in Pages /\ k \in 0 .. PageWords - 1
  BY PageFacts
<1>6. /\ f \in Pages /\ holds[f] = v
      /\ \A h \in Pages : holds[h] = v => h = f
  BY <1>1, <1>5, HoldsOnce
<1>7. FrameThatHolds(v)' = CHOOSE h \in Pages : holds'[h] = v
  BY DEF FrameThatHolds
<1> HIDE DEF f
<1>8. g \in Pages /\ holds'[g] = v
  BY <1>2, <1>3, <1>6
<1>9. ASSUME NEW h \in Pages, holds'[h] = v PROVE h = g
  <2>1. CASE h \in move.frames
    <3>1. holds[Partner(h)] = v /\ Partner(h) \in Pages
      BY <1>2, <1>3, <1>9, <2>1
    <3>2. Partner(h) = f
      BY <1>6, <3>1
    <3>3. f \in move.frames /\ Partner(f) = h
      BY <1>2, <2>1, <3>2
    <3> QED BY <3>3
  <2>2. CASE h \notin move.frames
    <3>1. h = f
      BY <1>3, <1>6, <1>9, <2>2
    <3> QED BY <2>2, <3>1
  <2> QED BY <2>1, <2>2
<1>10. FrameThatHolds(v)' = g
  <2> HIDE DEF g
  <2>1. (CHOOSE h \in Pages : holds'[h] = v) = g
    BY <1>8, <1>9
  <2> QED BY <1>7, <2>1
<1> DEFINE x == PageBase(g) + k
<1>11. x \in Addr /\ Page(x) = g /\ x % PageWords = k
  <2> HIDE DEF g, k
  <2> QED BY <1>5, <1>8, PageFacts, WordInPage
<1>12. Content(a)' = memory'[x]
  <2>1. Place(a)' = PageBase(FrameThatHolds(v)') + k
    BY DEF Place
  <2> HIDE DEF g, k, v
  <2>2. Place(a)' = x
    BY <1>10, <2>1
  <2> HIDE DEF x
  <2> QED BY <2>2 DEF Content
<1>13. Content(a) = memory[PageBase(f) + k]
  BY DEF Content, Place, f
<1>14. memory'[x] = memory[PageBase(f) + k]
  <2>1. memory'[x] = IF g \in move.frames THEN memory[PageBase(Partner(g)) + k] ELSE memory[x]
    <3> HIDE DEF x, g, k
    <3> QED BY <1>4, <1>11
  <2>2. CASE f \in move.frames
    <3>1. g \in move.frames /\ Partner(g) = f
      BY <1>2, <2>2
    <3> HIDE DEF x, g, k
    <3> QED BY <2>1, <3>1
  <2>3. CASE f \notin move.frames
    BY <2>1, <2>3
  <2> QED BY <2>2, <2>3
<1> QED BY <1>12, <1>13, <1>14

LEMMA ExchangeStep ==
  ASSUME ViewInv, Exchange
  PROVE  /\ AskInv' /\ LoadInv' /\ StoreInv' /\ PacketInv' /\ AnswerInv' /\ LineInv'
         /\ \A a \in Addr : Latest(a)' = Latest(a)
<1>1. DataStill /\ UNCHANGED <<cmd, rsp, packet>>
  BY DEF Exchange, OnlyMoves, nocVars, cacheVars, tlbVars, DataStill
<1>2. Contents' = Contents
  BY ExchangeContents DEF ViewInv
<1> QED BY <1>1, <1>2, ViewFrame

(* The processor asks.                                                     *)
LEMMA AskStep ==
  ASSUME ViewInv, CpuRequest
  PROVE  /\ AskInv' /\ LoadInv' /\ StoreInv' /\ PacketInv' /\ AnswerInv' /\ LineInv'
         /\ \A a \in Addr : Latest(a)' = Latest(a)
         /\ cpu'[P] # NoReq
<1>1. /\ DataRegsOK /\ P \in Procs /\ types \in Workloads
      /\ UNCHANGED <<types, dc, tag, line, dm, wb, rq, rs, tlb, cmd, rsp, packet, memory, holds>>
      /\ cpu[P] = NoReq
  BY PIsCache DEF ViewInv, MccInv, MccRegsOK, AskInv, CpuRequest, nocVars, memVars, tlbVars, moveVars
<1>2. PICK t \in types \cap DataTypes, a \in Addr :
        \E d \in IF t = "DATA_WRITE" THEN {[l \in Lanes |-> v] : v \in Stored} ELSE {Zero} :
          cpu' = [cpu EXCEPT ![P] = [type |-> t, addr |-> a, data |-> d, be |-> Lanes]]
  BY DEF CpuRequest
<1>3. PICK d \in IF t = "DATA_WRITE" THEN {[l \in Lanes |-> v] : v \in Stored} ELSE {Zero} :
        cpu' = [cpu EXCEPT ![P] = [type |-> t, addr |-> a, data |-> d, be |-> Lanes]]
  BY <1>2
<1> DEFINE r == [type |-> t, addr |-> a, data |-> d, be |-> Lanes]
<1>4. cpu'[P] = r
  BY <1>1, <1>3 DEF DataRegsOK
<1>5. t \notin {"DATA_SC", "XTN_DCACHE_INVAL"}
  BY <1>1, <1>2, WorkloadsAssumption DEF DataTypes
<1>6. r # NoReq
  <2>1. d \in Word
    BY <1>3, FetchedAssumption, WordTypes DEF Word
  <2>2. r \in DataReq
    BY <1>2, <2>1, LanesAssumption DEF DataReq
  <2> HIDE DEF r
  <2> QED BY <2>2, NoReqAssumption
<1>7. AskInv'
  BY <1>1, <1>4, <1>5 DEF AskInv
<1>8. ~Loading
  BY <1>1 DEF ViewInv, LoadInv
<1>9. LoadInv'
  BY <1>1, <1>8 DEF LoadInv, Loading, Waiting
<1>10. Contents' = Contents
  BY <1>1, ContentsStay
<1>11. \A x \in Addr : Latest(x)' = Latest(x)
  BY <1>1, <1>10, LatestVisible
<1>12. StoreInv'
  BY <1>1 DEF ViewInv, StoreInv
<1>13. PacketInv'
  BY <1>1, <1>10 DEF ViewInv, PacketInv, Writing, Sent, Taken, Carries, Reaches
<1>14. AnswerInv'
  BY <1>1, <1>10 DEF ViewInv, AnswerInv, LineBase, HasLine, MccArrived, Filling, Reaches
<1>15. LineInv'
  BY <1>1, <1>11 DEF ViewInv, LineInv, HasCopy, LinesWait, CopyAfter, CopyIn, Filling
<1> HIDE DEF r
<1> QED BY <1>4, <1>6, <1>7, <1>9, <1>11, <1>12, <1>13, <1>14, <1>15

(* Memory takes a read,                                                    *)
LEMMA TakeReadStep ==
  ASSUME ViewInv, MemTakeRead
  PROVE  /\ AskInv' /\ LoadInv' /\ StoreInv' /\ PacketInv' /\ AnswerInv' /\ LineInv'
         /\ \A a \in Addr : Latest(a)' = Latest(a)
<1>1. /\ DataStill /\ UNCHANGED <<memory, holds, rsp>>
      /\ packet' = [packet EXCEPT !.addr = cmd[P].addr, !.left = cmd[P].cells]
      /\ TakeCommand({"READ", "LOCKED_READ"})
  BY DEF MemTakeRead, cacheVars, tlbVars, moveVars, DataStill
<1>2. MccInv /\ PacketInv /\ AnswerInv /\ MccRegsOK
  BY DEF ViewInv, MccInv
<1>3. Contents' = Contents
  BY <1>1, ContentsStay
<1>4. TakenCommand({"READ", "LOCKED_READ"})
  BY <1>1, <1>2, TakenFacts
<1>5. /\ cmd'[P] = NoCell /\ cmd[P] # NoCell /\ cmd[P].cmd # "WRITE" /\ packet = NoPacket
      /\ rsp[P] = NoCell
  BY <1>4 DEF TakenCommand
<1>6. /\ rs[P].fsm # "RSP_WRITE"
      /\ rs[P].fsm = "RSP_DMISS" => rs[P].cpt = 0
  BY <1>4 DEF TakenCommand, Asked, MccLineRsp
<1>7. ~Writing /\ ~Writing'
  BY <1>5 DEF Writing
<1>8. Sent' = Sent /\ Taken' = Taken
  BY <1>1, <1>7 DEF Sent, Taken, DataStill
<1>9. packet'.written = packet.written /\ packet'.addr = cmd[P].addr
  BY <1>1, <1>5 DEF NoPacket
<1>10. PacketInv'
  BY <1>1, <1>2, <1>3, <1>6, <1>7, <1>8, <1>9 DEF DataStill, PacketInv, Carries, Reaches
<1>11. LineBase \in Nat
  BY <1>2, MccAddrs, LineWord, PageFacts DEF LineBase
<1>12. rs[P].fsm = "RSP_DMISS" => ReachesBy(tlb[P], packet'.addr, LineBase + rs[P].cpt + 0)
  <2>1. ASSUME rs[P].fsm = "RSP_DMISS"
        PROVE  ReachesBy(tlb[P], cmd[P].addr, LineBase) /\ LineBase = LineBase + rs[P].cpt + 0
    <3>1. ReachesBy(tlb[P], cmd[P].addr, LineBase)
      BY <1>2, <1>5, <2>1 DEF AnswerInv, Reaches
    <3>2. LineBase = LineBase + rs[P].cpt + 0
      <4> HIDE DEF LineBase
      <4> QED BY <1>6, <1>11, <2>1
    <3> QED BY <3>1, <3>2
  <2> QED BY <1>9, <2>1
<1>13. rs[P].fsm = "RSP_UNC" => ReachesBy(tlb[P], packet'.addr, dc[P].addr)
  BY <1>2, <1>5, <1>9 DEF AnswerInv, Reaches
<1>14. MccArrived' = 0 /\ LineBase' = LineBase
  BY <1>1, <1>5 DEF MccArrived, LineBase, DataStill
<1>15. (HasLine' <=> HasLine) /\ (Filling(P)' <=> Filling(P))
  BY <1>1, <1>3 DEF HasLine, LineBase, Filling, DataStill
<1>16. AnswerInv'
  <2> HIDE DEF LineBase, HasLine, MccArrived, Filling
  <2> QED BY <1>1, <1>2, <1>3, <1>5, <1>12, <1>13, <1>14, <1>15 DEF AnswerInv, DataStill, Reaches
<1> QED BY <1>1, <1>3, <1>10, <1>16, ViewStill

(* and answers it word by word: the frame has the page, or is poisoned and *)
(* refuses.                                                                *)
LEMMA AnswerReadStep ==
  ASSUME ViewInv, MemAnswerRead
  PROVE  /\ AskInv' /\ LoadInv' /\ StoreInv' /\ PacketInv' /\ AnswerInv' /\ LineInv'
         /\ \A a \in Addr : Latest(a)' = Latest(a)
<1> DEFINE x == packet.addr
           y == LineBase + rs[P].cpt
<1>1. /\ DataStill /\ UNCHANGED <<memory, holds, cmd>>
      /\ packet.left > 0 /\ rsp[P] = NoCell
      /\ packet' = IF packet.left = 1 THEN NoPacket
                   ELSE [packet EXCEPT !.addr = packet.addr + 1, !.left = packet.left - 1]
  BY DEF MemAnswerRead, cacheVars, tlbVars, moveVars, DataStill
<1>2. PICK e \in Errors(Page(x)) : Respond(Page(x), memory[x], e, packet.left = 1)
  BY DEF MemAnswerRead
<1>3. /\ MccInv /\ PacketInv /\ AnswerInv /\ MccRegsOK /\ MccFlightInv /\ MccServiceInv(P)
  BY DEF ViewInv, MccInv, MccCacheInv
<1>4. /\ packet \in [addr : Nat, left : Nat, written : Seq(StoreCell)]
      /\ packet.addr + packet.left <= NbWords /\ NbWords \in Nat
      /\ x \in Nat /\ packet.left \in Nat
  BY <1>3, NbWordsAssumption DEF MccRegsOK
<1>5. x \in Addr /\ memory[x] \in Word
  <2>1. x \in Addr
    BY <1>1, <1>4 DEF Addr
  <2> QED BY <1>3, <2>1 DEF MccRegsOK
<1>6. Contents' = Contents
  BY <1>1, ContentsStay
<1>7. e \in BOOLEAN /\ (~e => Page(x) \notin poisoned)
  BY <1>2 DEF Errors
<1>8. rsp'[P] # NoCell /\ rsp'[P].error = e /\ (~e => rsp'[P].data = memory[x])
  <2> DEFINE f == Page(x)
             d == memory[x]
             z == packet.left = 1
  <2>1. /\ MccRegsOK /\ d \in Word /\ e \in BOOLEAN /\ z \in BOOLEAN
        /\ Respond(f, d, e, z)
    BY <1>2, <1>3, <1>5, <1>7
  <2> HIDE DEF f, d, z
  <2>2. rsp'[P] # NoCell /\ rsp'[P].error = e /\ (~e => rsp'[P].data = d)
    BY <2>1, Responded
  <2> QED BY <2>2 DEF d
<1>9. /\ packet.written = <<>> /\ packet'.written = <<>>
      /\ packet'.left > 0 => packet.left # 1 /\ packet'.addr = x + 1
  <2>1. packet.written = <<>>
    BY <1>1, <1>3 DEF MccFlightInv
  <2>2. CASE packet.left = 1
    BY <1>1, <2>1, <2>2 DEF NoPacket
  <2>3. CASE packet.left # 1
    BY <1>1, <1>4, <2>1, <2>3
  <2> QED BY <2>2, <2>3
<1>10. /\ cmd[P] = NoCell /\ MccArrived = 0 /\ packet # NoPacket
       /\ rq[P].fsm \in {"REQ_IDLE", "REQ_DWAIT", "REQ_IWAIT"}
  <2>1. /\ cmd[P] = NoCell /\ rs[P].fsm # "RSP_IDLE" /\ packet # NoPacket
        /\ rq[P].fsm \notin SendStates \cup {"REQ_WRITE"}
    BY <1>1, <1>3, <1>4 DEF MccFlightInv, MccNothing, NoPacket
  <2>2. rq[P].fsm \in MccReqStates /\ rq[P].fsm # "REQ_TLB_INVAL"
    BY <1>3, <2>1, MccStateFacts DEF MccServiceInv
  <2> QED BY <1>1, <2>1, <2>2 DEF MccReqStates, MccArrived
<1>11. /\ rs[P].fsm # "RSP_WRITE"
       /\ rs[P].fsm = "RSP_DMISS" => rs[P].cpt + 0 + packet.left = LineWords
       /\ rs[P].fsm = "RSP_UNC" => 0 + packet.left = 1
  BY <1>3, <1>10 DEF MccFlightInv, MccLineRsp
<1>12. /\ rs[P].cpt \in Nat /\ LineWords \in Nat /\ LineBase \in Nat /\ dc[P].addr \in Addr
  <2>1. rs[P].cpt \in Nat /\ LineWords \in Nat
    BY <1>3, MccRegTypes, SizeFacts DEF MccRsRegs
  <2> QED BY <1>3, <2>1, MccAddrs, LineWord, PageFacts DEF LineBase
<1>13. ASSUME rs[P].fsm = "RSP_DMISS"
       PROVE  /\ ~e => memory[x] = Contents[y]
              /\ packet'.left > 0 => ReachesBy(tlb[P], packet'.addr, y + 1)
  <2>1. rs[P].cpt \in Offsets
    BY <1>1, <1>4, <1>11, <1>12, <1>13 DEF Offsets
  <2>2. y \in Addr /\ Page(y) = Page(dc[P].addr)
    BY <1>12, <2>1, LineWord DEF LineBase
  <2>3. Reaches(x, y)
    <3>1. Reaches(x, y + 0)
      BY <1>1, <1>3, <1>10, <1>13 DEF AnswerInv
    <3>2. y + 0 = y
      <4> HIDE DEF LineBase
      <4> QED BY <1>12
    <3> QED BY <3>1, <3>2
  <2>4. ~e => memory[x] = Contents[y]
    <3> HIDE DEF x, y
    <3>1. ~e => memory[x] = Content(y)
      BY <1>3, <1>5, <1>7, <2>2, <2>3, ReachedWord
    <3> QED BY <1>3, <2>2, <3>1, ContentWords
  <2>5. ASSUME packet'.left > 0 PROVE ReachesBy(tlb[P], packet'.addr, y + 1)
    <3>1. packet.left # 1 /\ packet'.addr = x + 1
      BY <1>9, <2>5
    <3>2. rs[P].cpt + 1 \in Offsets
      BY <1>1, <1>4, <1>11, <1>12, <1>13, <3>1 DEF Offsets
    <3>3. y + 1 = LineBase + (rs[P].cpt + 1)
      <4> HIDE DEF LineBase
      <4> QED BY <1>12
    <3>4. y + 1 \in Addr /\ Page(y + 1) = Page(y)
      BY <1>12, <2>2, <3>2, <3>3, LineWord DEF LineBase
    <3>5. Reaches(x + 1, y + 1)
      <4> HIDE DEF x, y
      <4> QED BY <1>5, <2>2, <2>3, <3>4, NextReached
    <3> QED BY <3>1, <3>5 DEF Reaches
  <2> QED BY <2>4, <2>5
<1>14. ASSUME rs[P].fsm = "RSP_UNC"
       PROVE  /\ ~e => memory[x] = Contents[dc[P].addr]
              /\ ~(packet'.left > 0)
  <2>1. Reaches(x, dc[P].addr)
    BY <1>1, <1>3, <1>14 DEF AnswerInv
  <2>2. ~e => memory[x] = Content(dc[P].addr)
    <3> HIDE DEF x
    <3> QED BY <1>3, <1>5, <1>7, <1>12, <2>1, ReachedWord
  <2>3. ~e => memory[x] = Contents[dc[P].addr]
    <3> HIDE DEF x
    <3> QED BY <1>3, <1>12, <2>2, ContentWords
  <2> QED BY <1>4, <1>9, <1>11, <1>14, <2>3
<1>15. ~Writing /\ ~Writing'
  BY <1>1, <1>10 DEF Writing
<1>16. Sent' = Sent /\ Taken' = Taken
  BY <1>1, <1>15 DEF Sent, Taken, DataStill
<1>17. PacketInv'
  BY <1>1, <1>3, <1>6, <1>9, <1>11, <1>15, <1>16 DEF DataStill, PacketInv, Carries, Reaches
<1>18. MccArrived' = 1 /\ LineBase' = LineBase
  BY <1>1, <1>8 DEF MccArrived, LineBase, DataStill
<1>19. (HasLine' <=> HasLine) /\ (Filling(P)' <=> Filling(P))
  BY <1>1, <1>6 DEF HasLine, LineBase, Filling, DataStill
<1>20. AnswerInv'
  <2> HIDE DEF LineBase, HasLine, MccArrived, Filling
  <2>1. /\ rs'[P].fsm = "RSP_DMISS" =>
             /\ cmd'[P] = NoCell
             /\ packet'.left > 0 =>
                  ReachesBy(tlb'[P], packet'.addr, LineBase' + rs'[P].cpt + MccArrived')
             /\ ~rsp'[P].error => rsp'[P].data = Contents'[LineBase' + rs'[P].cpt]
        /\ rs'[P].fsm = "RSP_UNC" =>
             /\ cmd'[P] = NoCell /\ ~(packet'.left > 0)
             /\ ~rsp'[P].error => rsp'[P].data = Contents'[dc'[P].addr]
    BY <1>1, <1>6, <1>8, <1>10, <1>13, <1>14, <1>18 DEF DataStill
  <2> QED BY <1>1, <1>3, <1>6, <1>18, <1>19, <2>1 DEF AnswerInv, DataStill, Reaches
<1> QED BY <1>1, <1>6, <1>17, <1>20, ViewStill

(* Memory takes a cell of the write packet.  All cells are for one frame:  *)
(* with the last it accepts or refuses them together.                      *)
Written == Append(packet.written, [addr |-> cmd[P].addr, data |-> cmd[P].data, be |-> cmd[P].be])

LEMMA WriteFacts ==
  ASSUME ViewInv, MemTakeWrite
  PROVE  /\ DataStill /\ holds' = holds /\ MccInv /\ P \in Procs
         /\ dm[P].flush /\ ~dm[P].req /\ ~rs[P].dOk /\ rs[P].fsm = "RSP_WRITE" /\ rsp[P] = NoCell
         /\ dm[P].pending /\ dm[P].wl = Lanes
         /\ cmd[P] \in MccCmdCell /\ ~Writing' /\ cmd'[P] = NoCell /\ rq[P].cpt \in Nat
         /\ rq[P].fsm = IF cmd[P].eop THEN "REQ_DWAIT" ELSE "REQ_WRITE"
         /\ cmd[P].eop <=> Sent = Len(wb[P].cells)
         /\ Sent \in 1 .. Len(wb[P].cells) /\ Len(wb[P].cells) \in Nat /\ Sent = rq[P].cpt
         /\ Written \in Seq(StoreCell) /\ Len(Written) = Sent
         /\ \A k \in 1 .. Sent : Carries(Written[k], k) /\ Written[k] \in StoreCell
<1>1. /\ DataStill /\ holds' = holds /\ MccInv /\ PacketInv /\ StoreInv /\ MccRegsOK
      /\ RequestInv(P) /\ MccBufferInv(P) /\ ContiguousInv(P)
      /\ TakeCommand({"WRITE"})
  BY DEF MemTakeWrite, cacheVars, tlbVars, moveVars, DataStill, ViewInv, MccInv, MccCacheInv
<1>2. TakenCommand({"WRITE"})
  BY <1>1, TakenFacts
<1>3. Writing /\ cmd'[P] = NoCell /\ cmd[P] \in MccCmdCell
  BY <1>2 DEF TakenCommand, Writing
<1>4. ~Writing'
  BY <1>3 DEF Writing
<1>5. /\ dm[P].flush /\ ~dm[P].req /\ ~rs[P].dOk /\ rs[P].fsm = "RSP_WRITE" /\ rsp[P] = NoCell
      /\ rq[P].fsm \in {"REQ_WRITE", "REQ_DWAIT"} /\ rq[P].cpt \in Nat
  BY <1>1, <1>3, PacketFacts DEF InPacket
<1>6. rq[P].fsm = IF cmd[P].eop THEN "REQ_DWAIT" ELSE "REQ_WRITE"
  BY <1>2, <1>5 DEF TakenCommand
<1>7. /\ Sent = rq[P].cpt /\ Taken = Sent - 1
      /\ Sent \in 1 .. Len(wb[P].cells) /\ Carries(cmd[P], Sent)
      /\ cmd[P].eop <=> Sent = Len(wb[P].cells)
      /\ Len(packet.written) = Taken
      /\ \A k \in 1 .. Taken : Carries(packet.written[k], k)
  BY <1>1, <1>3 DEF PacketInv, Sent, Taken
<1>8. Len(wb[P].cells) \in Nat /\ dm[P].pending
  BY <1>1, <1>5, StoreCells
<1>9. dm[P].wl = Lanes
  BY <1>1, <1>8 DEF StoreInv
<1> DEFINE c == [addr |-> cmd[P].addr, data |-> cmd[P].data, be |-> cmd[P].be]
           w == packet.written
<1>10. /\ c \in StoreCell /\ w \in Seq(StoreCell)
       /\ c.addr = cmd[P].addr /\ c.data = cmd[P].data /\ c.be = cmd[P].be
       /\ Written = Append(w, c)
  BY <1>1, <1>3 DEF MccRegsOK, MccCmdCell, StoreCell, Written
<1> HIDE DEF c, w
<1>11. /\ Written \in Seq(StoreCell) /\ Len(Written) = Len(w) + 1
       /\ Written[Len(w) + 1] = c
       /\ \A k \in 1 .. Len(w) : Written[k] = w[k]
  BY <1>10
<1>12. Len(w) = Sent - 1 /\ Sent \in Nat \ {0}
  BY <1>5, <1>7, <1>8 DEF w
<1>13. Len(Written) = Sent
  BY <1>11, <1>12
<1>14. ASSUME NEW k \in 1 .. Sent PROVE Carries(Written[k], k) /\ Written[k] \in StoreCell
  <2>1. k = Sent \/ k \in 1 .. Taken
    BY <1>7, <1>12
  <2>2. Written[k] \in StoreCell
    BY <1>11, <1>13
  <2>3. CASE k = Sent
    <3>1. Written[k] = c
      BY <1>11, <1>12, <2>3
    <3> QED BY <1>7, <1>10, <2>2, <2>3, <3>1 DEF Carries
  <2>4. CASE k \in 1 .. Taken
    <3>1. Written[k] = w[k]
      BY <1>7, <1>11, <1>12, <2>4
    <3> QED BY <1>7, <2>2, <2>4, <3>1 DEF w
  <2> QED BY <2>1, <2>3, <2>4
<1> QED BY <1>1, <1>3, <1>4, <1>5, <1>6, <1>7, <1>8, <1>9, <1>11, <1>13, <1>14, PIsCache

(* Each word of the packet is for the place of the store it came from.     *)
LEMMA WrittenPlaces ==
  ASSUME ViewInv, MemTakeWrite, Page(cmd[P].addr) \notin poisoned
  PROVE  \A k \in 1 .. Sent : /\ Written[k].addr = Place(wb[P].cells[k].addr)
                              /\ Written[k].data = wb[P].cells[k].data
                              /\ Written[k].be = Lanes
<1> DEFINE q == wb[P].cells
<1>1. /\ MccInv /\ MccRegsOK /\ RequestInv(P) /\ MccBufferInv(P) /\ ContiguousInv(P)
      /\ TlbInv /\ OnePageInv(P) /\ MigrableAssumption
  BY MigrableAssumption DEF ViewInv, MccInv, MccCacheInv
<1>2. /\ Sent \in 1 .. Len(q) /\ Len(q) \in Nat /\ Len(Written) = Sent /\ dm[P].pending
      /\ \A k \in 1 .. Sent : Carries(Written[k], k) /\ Written[k] \in StoreCell
  BY WriteFacts
<1>3. Written[Sent].addr = cmd[P].addr
  <2>1. Len(packet.written) + 1 = Sent
    <3>1. packet.written \in Seq(StoreCell)
      BY <1>1 DEF MccRegsOK
    <3>2. Len(Written) = Len(packet.written) + 1
      BY <3>1 DEF Written
    <3> QED BY <1>2, <3>2
  <2>2. packet.written \in Seq(StoreCell)
    BY <1>1 DEF MccRegsOK
  <2> QED BY <2>1, <2>2 DEF Written
<1>4. \A k \in 1 .. Len(q) : q[k].addr \in Addr /\ Page(q[k].addr) = Page(dm[P].addr)
  BY <1>1, <1>2, StoreCells DEF OnePageInv
<1>5. \A k \in 1 .. Sent : k \in 1 .. Len(q)
  BY <1>2
<1>6. ASSUME NEW k \in 1 .. Sent PROVE Page(Written[k].addr) = Page(cmd[P].addr)
  <2>1. /\ ReachesBy(tlb[P], Written[k].addr, q[k].addr)
        /\ ReachesBy(tlb[P], Written[Sent].addr, q[Sent].addr)
    <3>1. Sent \in 1 .. Sent
      BY <1>2
    <3> QED BY <1>2, <3>1 DEF Carries, Reaches
  <2>2. Page(q[k].addr) = Page(dm[P].addr) /\ Page(q[Sent].addr) = Page(dm[P].addr)
    BY <1>2, <1>4, <1>5
  <2>3. CASE Page(dm[P].addr) \in Migrable
    <3>1. PICK i \in Entries : /\ tlb[P][i].tag = Page(dm[P].addr)
                               /\ tlb[P][i].frame = Page(Written[k].addr)
      BY <2>1, <2>2, <2>3 DEF ReachesBy
    <3>2. PICK j \in Entries : /\ tlb[P][j].tag = Page(dm[P].addr)
                               /\ tlb[P][j].frame = Page(Written[Sent].addr)
      BY <2>1, <2>2, <2>3 DEF ReachesBy
    <3>3. i = j
      <4>1. Page(dm[P].addr) # NoPage
        BY <2>3, MigrableAssumption
      <4> QED BY <1>1, <3>1, <3>2, <4>1 DEF TlbInv
    <3> QED BY <1>3, <3>1, <3>2, <3>3
  <2>4. CASE Page(dm[P].addr) \notin Migrable
    BY <1>3, <2>1, <2>2, <2>4 DEF ReachesBy
  <2> QED BY <2>3, <2>4
<1>7. ASSUME NEW k \in 1 .. Sent
      PROVE  /\ Written[k].addr = Place(q[k].addr)
             /\ Written[k].data = q[k].data /\ Written[k].be = Lanes
  <2>1. /\ Reaches(Written[k].addr, q[k].addr) /\ Written[k].addr \in Addr
        /\ Written[k].data = q[k].data /\ Written[k].be = Lanes
    BY <1>2 DEF Carries, StoreCell
  <2>2. Page(Written[k].addr) \notin poisoned /\ q[k].addr \in Addr
    BY <1>4, <1>5, <1>6
  <2>3. Written[k].addr = Place(q[k].addr)
    <3> HIDE DEF q
    <3> QED BY <1>1, <2>1, <2>2, ReachedWord
  <2> QED BY <2>1, <2>3
<1> QED BY <1>7

(* A packet that is not refused puts its words there and nowhere else.     *)
LEMMA PacketPerformed ==
  ASSUME ViewInv, MemTakeWrite, cmd[P].eop, Page(cmd[P].addr) \notin poisoned,
         memory' = [a \in Addr |->
                      LET hits == {i \in DOMAIN Written : Written[i].addr = a}
                      IN IF hits = {} THEN memory[a]
                         ELSE LET w == Written[CHOOSE i \in hits : TRUE]
                              IN Merge(memory[a], w.data, w.be)]
  PROVE  /\ \A k \in 1 .. Len(wb[P].cells) :
              Contents'[wb[P].cells[k].addr] = wb[P].cells[k].data
         /\ \A a \in Addr : (\A k \in 1 .. Len(wb[P].cells) : wb[P].cells[k].addr # a)
                            => Contents'[a] = Contents[a]
<1> DEFINE q == wb[P].cells
           n == Len(q)
           Hits(x) == {i \in DOMAIN Written : Written[i].addr = x}
<1>1. /\ MccInv /\ MccRegsOK /\ RequestInv(P) /\ MccBufferInv(P) /\ ContiguousInv(P) /\ MoveInv
  BY DEF ViewInv, MccInv, MccCacheInv
<1>2. /\ holds' = holds /\ Sent = n /\ n \in Nat
      /\ Written \in Seq(StoreCell) /\ Len(Written) = n /\ DOMAIN Written = 1 .. n
  <2>1. /\ holds' = holds /\ Sent = n /\ n \in Nat
        /\ Written \in Seq(StoreCell) /\ Len(Written) = n
    BY WriteFacts
  <2> QED BY <2>1
<1>3. \A k \in 1 .. n : /\ Written[k].addr = Place(q[k].addr)
                        /\ Written[k].data = q[k].data
                        /\ Written[k].be = Lanes
  BY <1>2, WrittenPlaces
<1>4. /\ \A k \in 1 .. n : q[k].addr \in Addr /\ q[k].data \in Word
      /\ \A i, j \in 1 .. n : q[i].addr = q[j].addr => i = j
  BY <1>1, StoreCells
<1>5. /\ \A a \in Addr : Place(a) \in Addr
      /\ \A a, c \in Addr : Place(a) = Place(c) => a = c
  BY <1>1, PlaceFacts
<1>6. \A a \in Addr : Contents[a] = memory[Place(a)] /\ Contents'[a] = memory'[Place(a)]
  BY <1>2 DEF Contents, Content, Place, FrameThatHolds
<1>7. \A x \in Addr : memory'[x] = IF Hits(x) = {} THEN memory[x]
                                   ELSE Merge(memory[x], Written[CHOOSE i \in Hits(x) : TRUE].data,
                                              Written[CHOOSE i \in Hits(x) : TRUE].be)
  OBVIOUS
<1>8. ASSUME NEW k \in 1 .. n PROVE Contents'[q[k].addr] = q[k].data
  <2> DEFINE x == Place(q[k].addr)
  <2>1. x \in Addr /\ Contents'[q[k].addr] = memory'[x]
    BY <1>4, <1>5, <1>6
  <2>2. Hits(x) = {k}
    <3>1. k \in Hits(x)
      BY <1>2, <1>3
    <3>2. ASSUME NEW i \in Hits(x) PROVE i = k
      <4>1. i \in 1 .. n /\ Place(q[i].addr) = Place(q[k].addr)
        BY <1>2, <1>3, <3>2
      <4> QED BY <1>4, <1>5, <4>1
    <3> HIDE DEF Hits
    <3> QED BY <3>1, <3>2
  <2>3. (CHOOSE i \in Hits(x) : TRUE) = k
    <3> HIDE DEF Hits
    <3>1. (CHOOSE i \in Hits(x) : TRUE) \in Hits(x)
      BY <2>2
    <3> QED BY <2>2, <3>1
  <2> HIDE DEF Hits, x
  <2>4. memory'[x] = Merge(memory[x], q[k].data, Lanes)
    BY <1>3, <1>7, <2>1, <2>2, <2>3
  <2>5. Merge(memory[x], q[k].data, Lanes) = q[k].data
    BY <1>4, WholeWord
  <2> QED BY <2>1, <2>4, <2>5
<1>9. ASSUME NEW a \in Addr, \A k \in 1 .. n : q[k].addr # a PROVE Contents'[a] = Contents[a]
  <2>1. Hits(Place(a)) = {}
    <3> SUFFICES ASSUME NEW i \in Hits(Place(a)) PROVE FALSE
      OBVIOUS
    <3>1. i \in 1 .. n /\ Place(q[i].addr) = Place(a)
      BY <1>2, <1>3
    <3> QED BY <1>4, <1>5, <1>9, <3>1
  <2> HIDE DEF Hits
  <2> QED BY <1>5, <1>6, <1>7, <2>1
<1> QED BY <1>8, <1>9

(* With the last cell it performs the packet, or refuses it, and no word   *)
(* that the stores left changes.                                           *)
LEMMA WriteStep ==
  ASSUME ViewInv, MemTakeWrite
  PROVE  /\ AskInv' /\ LoadInv' /\ StoreInv' /\ PacketInv' /\ AnswerInv' /\ LineInv'
         /\ \A a \in Addr : Latest(a)' = Latest(a)
<1> DEFINE q == wb[P].cells
           n == Len(q)
           d == dm[P]
<1>1. /\ DataStill /\ holds' = holds /\ MccInv /\ P \in Procs
      /\ dm[P].flush /\ ~dm[P].req /\ ~rs[P].dOk /\ rs[P].fsm = "RSP_WRITE" /\ rsp[P] = NoCell
      /\ dm[P].pending /\ dm[P].wl = Lanes
      /\ cmd[P] \in MccCmdCell /\ ~Writing' /\ cmd'[P] = NoCell /\ rq[P].cpt \in Nat
      /\ rq[P].fsm = IF cmd[P].eop THEN "REQ_DWAIT" ELSE "REQ_WRITE"
      /\ cmd[P].eop <=> Sent = n
      /\ Sent \in 1 .. n /\ n \in Nat /\ Sent = rq[P].cpt
      /\ Written \in Seq(StoreCell) /\ Len(Written) = Sent
      /\ \A k \in 1 .. Sent : Carries(Written[k], k) /\ Written[k] \in StoreCell
  BY WriteFacts
<1>2. /\ MccRegsOK /\ RequestInv(P) /\ MccBufferInv(P) /\ ContiguousInv(P) /\ AnswerInv /\ PacketInv
      /\ AskInv /\ LoadInv /\ StoreInv /\ LineInv
  BY DEF ViewInv, MccInv, MccCacheInv
<1>3. \/ /\ ~cmd[P].eop
         /\ packet' = [packet EXCEPT !.written = Written]
         /\ UNCHANGED <<rsp, memory>>
      \/ /\ cmd[P].eop
         /\ packet' = NoPacket
         /\ \E e \in Errors(Page(cmd[P].addr)) :
              /\ Respond(Page(cmd[P].addr), Zero, e, TRUE)
              /\ memory' = [a \in Addr |->
                   LET hits == {i \in DOMAIN Written : Written[i].addr = a}
                   IN IF e \/ hits = {} THEN memory[a]
                      ELSE LET w == Written[CHOOSE i \in hits : TRUE]
                           IN Merge(memory[a], w.data, w.be)]
  BY DEF MemTakeWrite, Written
<1>4. /\ rq' = rq /\ rs' = rs /\ dm' = dm /\ wb' = wb /\ tlb' = tlb /\ dc' = dc
  BY <1>1 DEF DataStill
(* The packet, and what the processor sees.                                *)
<1>5. ASSUME ~cmd[P].eop PROVE PacketInv' /\ \A a \in Addr : Latest(a)' = Latest(a)
  <2>1. packet' = [packet EXCEPT !.written = Written] /\ rsp' = rsp /\ memory' = memory
    BY <1>3, <1>5
  <2>2. Sent' = Sent /\ Taken' = Sent
    BY <1>1, <1>4, <1>5 DEF Sent, Taken
  <2>3. packet'.written = Written
    BY <1>2, <2>1 DEF MccRegsOK
  <2>4. Contents' = Contents
    BY <1>1, <2>1, ContentsStay
  <2>5. Sent \in 0 .. n
    BY <1>1
  <2>6. ASSUME NEW k \in 1 .. Taken'
        PROVE  /\ ReachesBy(tlb'[P], packet'.written[k].addr, wb'[P].cells[k].addr)
               /\ packet'.written[k].data = wb'[P].cells[k].data
               /\ packet'.written[k].be = Lanes
    BY <1>1, <1>4, <2>2, <2>3, <2>6 DEF Carries, Reaches
  <2>7. PacketInv'
    BY <1>1, <1>4, <2>1, <2>2, <2>3, <2>5, <2>6 DEF PacketInv, Carries, Reaches
  <2>8. \A a \in Addr : Latest(a)' = Latest(a)
    BY <1>4, <2>4, LatestVisible
  <2> QED BY <2>7, <2>8
<1>6. ASSUME cmd[P].eop PROVE PacketInv' /\ \A a \in Addr : Latest(a)' = Latest(a)
  <2>1. PICK e \in Errors(Page(cmd[P].addr)) :
          /\ Respond(Page(cmd[P].addr), Zero, e, TRUE)
          /\ memory' = [a \in Addr |->
               LET hits == {i \in DOMAIN Written : Written[i].addr = a}
               IN IF e \/ hits = {} THEN memory[a]
                  ELSE LET w == Written[CHOOSE i \in hits : TRUE]
                       IN Merge(memory[a], w.data, w.be)]
    BY <1>3, <1>6
  <2>2. packet' = NoPacket
    BY <1>3, <1>6
  <2>3. e \in BOOLEAN /\ (~e => Page(cmd[P].addr) \notin poisoned)
    BY <2>1 DEF Errors
  <2>4. rsp'[P].error = e
    BY <1>2, <2>1, <2>3, Responded, WordTypes
  <2>5. Sent' = 0 /\ Taken' = 0
    BY <1>1, <1>4, <1>6 DEF Sent, Taken
  <2>6. ASSUME ~e
        PROVE  /\ \A k \in 1 .. n : Contents'[q[k].addr] = q[k].data
               /\ \A a \in Addr : (\A k \in 1 .. n : q[k].addr # a) => Contents'[a] = Contents[a]
    <3>1. Page(cmd[P].addr) \notin poisoned
      BY <2>3, <2>6
    <3>2. memory' = [a \in Addr |->
            LET hits == {i \in DOMAIN Written : Written[i].addr = a}
            IN IF hits = {} THEN memory[a]
               ELSE LET w == Written[CHOOSE i \in hits : TRUE]
                    IN Merge(memory[a], w.data, w.be)]
      BY <2>1, <2>6
    <3> QED BY <1>6, <3>1, <3>2, PacketPerformed
  <2>7. ASSUME e PROVE Contents' = Contents
    <3>1. \A a \in Addr : memory'[a] = memory[a]
      BY <2>1, <2>7
    <3>2. \A a \in Addr : Content(a)' = memory'[Place(a)] /\ Place(a) \in Addr
      BY <1>1, PlaceFacts DEF MccInv, Content, Place, FrameThatHolds
    <3> QED BY <3>1, <3>2 DEF Contents, Content
  <2>8. PacketInv'
    <3>1. /\ packet'.written = <<>> /\ Len(packet'.written) = 0 /\ 0 \in 0 .. n /\ 1 .. 0 = {}
      BY <1>1, <2>2 DEF NoPacket
    <3>2. ~rsp'[P].error => \A k \in 1 .. Len(wb'[P].cells) :
            Contents'[wb'[P].cells[k].addr] = wb'[P].cells[k].data
      BY <1>4, <2>4, <2>6
    <3> HIDE DEF Contents
    <3> QED BY <1>1, <1>4, <2>5, <3>1, <3>2 DEF PacketInv
  <2>9. ASSUME NEW a \in Addr PROVE Latest(a)' = Latest(a)
    <3> DEFINE m == Contents
               m2 == Contents'
    <3>1. Latest(a) = Visible(m, d, q, a) /\ Latest(a)' = Visible(m2, d, q, a)
      BY <1>4, LatestVisible
    <3>2. DOMAIN q = 1 .. n /\ d.data \in Word
      BY <1>2, StoreCells
    <3>3. e => m2 = m
      BY <2>7
    <3>4. ~e => ((\A k \in 1 .. n : q[k].addr # a) => m2[a] = m[a])
      BY <2>6
    <3> HIDE DEF m, m2, d, q
    <3>5. Visible(m, d, q, a) = Visible(m2, d, q, a)
      <4>1. CASE e
        BY <3>3, <4>1
      <4>2. CASE d.pending /\ d.addr = a
        <5>1. d.wl = Lanes
          BY <1>1 DEF d
        <5>2. Merge(m[a], d.data, d.wl) = d.data /\ Merge(m2[a], d.data, d.wl) = d.data
          BY <3>2, <5>1, WholeWord
        <5> QED BY <4>2, <5>2 DEF Visible
      <4>3. CASE ~e /\ ~(d.pending /\ d.addr = a) /\ Where(q, a) # {}
        BY <4>3 DEF Visible
      <4>4. CASE ~e /\ ~(d.pending /\ d.addr = a) /\ Where(q, a) = {}
        <5>1. \A k \in 1 .. n : q[k].addr # a
          BY <3>2, <4>4 DEF Where
        <5>2. m2[a] = m[a]
          BY <3>4, <4>4, <5>1
        <5> QED BY <4>4, <5>2 DEF Visible
      <4> QED BY <4>1, <4>2, <4>3, <4>4
    <3> QED BY <3>1, <3>5
  <2> QED BY <2>8, <2>9
<1>7. PacketInv' /\ \A a \in Addr : Latest(a)' = Latest(a)
  BY <1>5, <1>6
<1>8. AskInv' /\ LoadInv' /\ StoreInv'
  BY <1>1, <1>2 DEF DataStill, AskInv, LoadInv, StoreInv, Loading, Waiting, Filling
<1>9. AnswerInv'
  <2>1. dc[P].fsm \notin {"DCACHE_MISSUPDT", "DCACHE_UNC_LL_SC_GO"}
    BY <1>1, <1>2 DEF RequestInv
  <2> QED BY <1>1, <1>4, <2>1 DEF AnswerInv
<1>10. LineInv'
  BY <1>1, <1>2, <1>7 DEF DataStill, LineInv, HasCopy, LinesWait, CopyAfter, CopyIn, Filling
<1> QED BY <1>7, <1>8, <1>9, <1>10

-----------------------------------------------------------------------------
(* The invariant, and the steps of the port. *)
LEMMA ViewInit == ASSUME Init PROVE ViewInv
<1>1. MccInv /\ CacheInit /\ NocInit /\ P \in Procs /\ P \in Srcs
  BY MccInit, PIsCache DEF Init, MccCacheInit
<1>2. /\ cpu[P] = NoReq /\ dc[P].fsm = "DCACHE_IDLE"
      /\ ~dm[P].pending /\ ~dm[P].flush /\ ~dm[P].req
      /\ rq[P].fsm = "REQ_IDLE" /\ rs[P].fsm = "RSP_IDLE" /\ ~rs[P].dOk
      /\ cmd[P] = NoCell /\ types \in Workloads /\ packet = NoPacket
      /\ \A y \in Slots : tag[P][y] = NoBlock
  BY <1>1 DEF Init, CacheInit, NocInit
<1>3. AskInv /\ LoadInv /\ StoreInv
  BY <1>2 DEF AskInv, LoadInv, StoreInv, Loading, Waiting, WaitStates
<1>4. PacketInv
  <2>1. ~Writing /\ Sent = 0 /\ Taken = 0
    BY <1>2 DEF Writing, Sent, Taken
  <2>2. Len(wb[P].cells) \in Nat
    BY <1>1, AnyCellTypes DEF MccInv, MccRegsOK
  <2>3. Len(packet.written) = 0 /\ 0 \in 0 .. Len(wb[P].cells) /\ 1 .. 0 = {}
    BY <1>2, <2>2 DEF NoPacket
  <2> QED BY <1>2, <2>1, <2>3 DEF PacketInv
<1>5. AnswerInv
  BY <1>2 DEF AnswerInv
<1>6. LineInv
  <2>1. \A a \in Addr : ~HasCopy(P, Block(a))
    <3> TAKE a \in Addr
    <3>1. Slot(Block(a)) \in Slots /\ Block(a) # NoBlock
      BY AddrTypes, NoBlockAssumption
    <3> QED BY <1>2, <3>1 DEF HasCopy
  <2> QED BY <1>2, <2>1 DEF LineInv, LinesWait, Filling
<1> QED BY <1>1, <1>3, <1>4, <1>5, <1>6 DEF ViewInv

(* Every step keeps the invariant.  The words the stores left change in    *)
(* the steps of the cache only.                                            *)
LEMMA ViewNext ==
  ASSUME ViewInv, [Next]_vars
  PROVE  /\ ViewInv'
         /\ ~CacheStep => \A a \in Addr : Latest(a)' = Latest(a)
<1>1. MccInv'
  BY MccNext DEF ViewInv
<1>2. CASE CacheStep
  <2>1. PICK rspval \in BOOLEAN, invval \in BOOLEAN : MccCacheCycle(P, rspval, invval)
    BY <1>2 DEF CacheStep
  <2>2. ViewEdge(rspval, invval)
    BY <1>2, <2>1 DEF ViewEdge, CacheStep
  <2>3. AskInv' /\ LoadInv' /\ StoreInv' /\ PacketInv' /\ AnswerInv' /\ LineInv'
    BY <2>2, LoadStep, StoreStep, PacketStep, AnswerStep, LineStep
  <2> QED BY <1>1, <1>2, <2>3 DEF ViewInv
<1>3. CASE CpuRequest
  BY <1>1, <1>3, AskStep DEF ViewInv
<1>4. CASE MemTakeRead \/ MemAnswerRead \/ MemTakeWrite
  BY <1>1, <1>4, TakeReadStep, AnswerReadStep, WriteStep DEF ViewInv
<1>5. CASE MemTlbMiss \/ MemTlbAck
  BY <1>1, <1>5, TlbRequestStep DEF ViewInv
<1>6. CASE Exchange
  BY <1>1, <1>6, ExchangeStep DEF ViewInv
<1>7. CASE \/ FetchRequest \/ MemInval \/ MemTakeAck \/ MoveBegin \/ Poison \/ UpdatePageTable
           \/ SendTlbInval \/ Unpoison \/ UNCHANGED vars
  BY <1>1, <1>7, OtherStep DEF ViewInv
<1> QED BY <1>2, <1>3, <1>4, <1>5, <1>6, <1>7 DEF Next

(* What the processor sees of a cycle: a store, an answer to a load, an    *)
(* extension, or nothing.                                                  *)
LEMMA LoadFacts ==
  ASSUME ViewInv, CacheStep, DcLoadHit(P) \/ DcMissUpdate(P) \/ DcUncachedGo(P)
  PROVE  /\ cpu[P] # NoReq /\ cpu[P].type \in {"DATA_READ", "DATA_LL"}
         /\ cpu'[P] = NoReq /\ got' = Latest(cpu[P].addr) /\ ~TakesStore(P)
<1> DEFINE r == cpu[P]
           a == cpu[P].addr
<1>1. /\ MccRegsOK /\ DataRegsOK /\ P \in Procs /\ RequestInv(P) /\ MccBufferInv(P) /\ ContiguousInv(P)
      /\ LoadInv /\ AnswerInv /\ LineInv
  BY PIsCache DEF ViewInv, MccInv, MccRegsOK, MccCacheInv
<1>2. cpu[P] \in DataReq \cup {NoReq} /\ cpu \in [Procs -> DataReq \cup {NoReq}]
  BY <1>1, MccRegTypes DEF DataRegsOK
<1>3. cpu'[P] = NoReq
  BY <1>1, <1>2 DEF DcLoadHit, DcMissUpdate, DcUncachedGo, AnswerCpu
<1>4. got' = CASE DcLoadHit(P)    -> line[P][Slot(Block(a))][Offset(a)]
               [] DcMissUpdate(P) -> rs[P].buf[Offset(a)]
               [] DcUncachedGo(P) -> rs[P].unc
               [] OTHER           -> got
  BY DEF CacheStep
<1>5. /\ DcLoadHit(P) => dc[P].fsm = "DCACHE_IDLE"
      /\ DcMissUpdate(P) => dc[P].fsm = "DCACHE_MISSUPDT"
      /\ DcUncachedGo(P) => dc[P].fsm = "DCACHE_UNC_LL_SC_GO"
      /\ TakesStore(P) => dc[P].fsm = "DCACHE_IDLE" /\ cpu[P].type = "DATA_WRITE"
  BY DEF DcLoadHit, CachedLoad, Proceeds, DcMissUpdate, DcUncachedGo, TakesStore,
     DcFirstStore, DcMerge, DcBurst, Gathers, Merges, Continues
<1>6. ASSUME ~dm[P].pending, a \in Addr PROVE Latest(a) = Contents[a]
  <2>1. wb[P].cells = <<>>
    BY <1>1, <1>6, StoreCells
  <2>2. Where(wb[P].cells, a) = {}
    BY <2>1 DEF Where
  <2>3. Latest(a) = Visible(Contents, dm[P], wb[P].cells, a)
    BY <1>6, LatestVisible
  <2> QED BY <1>6, <2>2, <2>3 DEF Visible
<1>7. CASE DcLoadHit(P)
  <2>1. /\ dc[P].fsm = "DCACHE_IDLE" /\ r # NoReq /\ r.type = "DATA_READ" /\ Hit(P, a)
    BY <1>7 DEF DcLoadHit, CachedLoad, Proceeds
  <2>2. ~DcMissUpdate(P) /\ ~DcUncachedGo(P)
    BY <1>5, <2>1
  <2>3. got' = line[P][Slot(Block(a))][Offset(a)]
    BY <1>4, <1>7, <2>2, Zenon
  <2>4. a \in Addr
    BY <1>2, <2>1 DEF DataReq
  <2>5. HasCopy(P, Block(a)) /\ CopyAfter(P, a) = CopyIn(P, a)
    BY <2>1 DEF HasCopy, Filling, Hit, CopyAfter
  <2>6. CopyIn(P, a) = Latest(a)
    BY <1>1, <2>4, <2>5 DEF LineInv
  <2> QED BY <1>3, <1>5, <2>1, <2>3, <2>6 DEF CopyIn
<1>8. CASE DcMissUpdate(P)
  <2>1. /\ dc[P].fsm = "DCACHE_MISSUPDT" /\ ~DcLoadHit(P) /\ ~DcUncachedGo(P)
    BY <1>5, <1>8
  <2>2. got' = rs[P].buf[Offset(a)]
    BY <1>4, <1>8, <2>1, Zenon
  <2>3. r # NoReq /\ r.type \in {"DATA_READ", "DATA_LL"} /\ dc[P].addr = a
    BY <1>1, <2>1 DEF LoadInv, Loading
  <2>4. a \in Addr
    BY <1>2, <2>3 DEF DataReq
  <2>5. Offset(a) \in Offsets /\ LineBase + Offset(a) = a
    BY <2>3, <2>4, AddrTypes, AddrSplit DEF LineBase
  <2>6. rs[P].buf[Offset(a)] = Contents[a]
    BY <1>1, <2>1, <2>5 DEF AnswerInv, HasLine
  <2>7. ~dm[P].pending
    BY <1>1, <2>1 DEF RequestInv
  <2> QED BY <1>3, <1>5, <1>6, <2>1, <2>2, <2>3, <2>4, <2>6, <2>7
<1>9. CASE DcUncachedGo(P)
  <2>1. /\ dc[P].fsm = "DCACHE_UNC_LL_SC_GO" /\ ~DcLoadHit(P) /\ ~DcMissUpdate(P)
    BY <1>5, <1>9
  <2>2. got' = rs[P].unc
    BY <1>4, <1>9, <2>1, Zenon
  <2>3. r # NoReq /\ r.type \in {"DATA_READ", "DATA_LL"} /\ dc[P].addr = a
    BY <1>1, <2>1 DEF LoadInv, Loading
  <2>4. rs[P].unc = Contents[a] /\ a \in Addr
    BY <1>1, <1>2, <2>1, <2>3 DEF AnswerInv, DataReq
  <2>5. ~dm[P].pending
    BY <1>1, <2>1 DEF RequestInv
  <2> QED BY <1>3, <1>5, <1>6, <2>1, <2>2, <2>3, <2>4, <2>5
<1> QED BY <1>7, <1>8, <1>9

LEMMA OtherFacts ==
  ASSUME ViewInv, CacheStep, ~(DcLoadHit(P) \/ DcMissUpdate(P) \/ DcUncachedGo(P))
  PROVE  /\ got' = got
         /\ \/ /\ TakesStore(P) /\ cpu'[P] = NoReq
               /\ cpu[P] # NoReq /\ cpu[P].type = "DATA_WRITE" /\ cpu[P].addr \in Addr
            \/ /\ ~TakesStore(P) /\ cpu'[P] = NoReq
               /\ cpu[P] # NoReq /\ cpu[P].type \in {"XTN_SYNC", "XTN_DCACHE_INVAL"}
            \/ ~TakesStore(P) /\ cpu'[P] = cpu[P]
<1>1. /\ MccRegsOK /\ DataRegsOK /\ P \in Procs /\ MccDCacheFsm(P)
  BY PIsCache DEF ViewInv, MccInv, MccRegsOK, CacheStep, MccCacheCycle
<1>2. /\ cpu[P] \in DataReq \cup {NoReq} /\ cpu \in [Procs -> DataReq \cup {NoReq}] /\ DCacheFsm(P)
  BY <1>1, MccRegTypes, MccIsDCache DEF DataRegsOK
<1>3. got' = got
  <2>1. got' = CASE DcLoadHit(P)    -> line[P][Slot(Block(cpu[P].addr))][Offset(cpu[P].addr)]
                 [] DcMissUpdate(P) -> rs[P].buf[Offset(cpu[P].addr)]
                 [] DcUncachedGo(P) -> rs[P].unc
                 [] OTHER           -> got
    BY DEF CacheStep
  <2>2. ~DcLoadHit(P) /\ ~DcMissUpdate(P) /\ ~DcUncachedGo(P)
    OBVIOUS
  <2> QED BY <2>1, <2>2, Zenon
<1>4. AnswerCpu(P) => cpu'[P] = NoReq
  BY <1>1, <1>2 DEF AnswerCpu
<1>5. CASE TakesStore(P)
  <2>1. AnswerCpu(P) /\ cpu[P] # NoReq /\ cpu[P].type = "DATA_WRITE"
    BY <1>5 DEF TakesStore, DcFirstStore, DcMerge, DcBurst, AcceptStore, Gathers, Proceeds,
       Merges, Continues
  <2>2. cpu[P].addr \in Addr
    BY <1>2, <2>1 DEF DataReq
  <2> QED BY <1>3, <1>4, <1>5, <2>1, <2>2
<1>6. CASE ~TakesStore(P)
  <2>1. CASE DcSync(P) \/ DcXtnInval(P)
    <3>1. AnswerCpu(P) /\ cpu[P] # NoReq /\ cpu[P].type \in {"XTN_SYNC", "XTN_DCACHE_INVAL"}
      BY <2>1 DEF DcSync, DcXtnInval, Proceeds
    <3> QED BY <1>3, <1>4, <1>6, <3>1
  <2>2. CASE ~(DcSync(P) \/ DcXtnInval(P))
    <3>1. cpu' = cpu
      BY <1>2, <1>6, <2>2 DEF TakesStore, DCacheFsm, DcTakeInval, DcNoRequest, DcFlush, DcStall,
         DcLoadMiss, DcUncached, DcWriteUpdate, DcWait, DcCpuInval, DcRamInval
    <3> QED BY <1>3, <1>6, <3>1
  <2> QED BY <2>1, <2>2
<1> QED BY <1>5, <1>6

LEMMA PortStep ==
  ASSUME ViewInv, [Next]_vars
  PROVE  [Port!AmNext]_(Port!amVars)
<1> DEFINE m == [a \in Addr |-> Latest(a)]
<1>1. ASSUME \A a \in Addr : Latest(a)' = Latest(a) PROVE m' = m
  BY <1>1
<1> SUFFICES Port!AmNext \/ UNCHANGED <<m, cpu[P], got>>
  BY DEF Port!amVars
<1> USE DEF Port!AmNext
<1>2. CASE CacheStep
  <2>1. PICK rspval \in BOOLEAN, invval \in BOOLEAN : MccCacheCycle(P, rspval, invval)
    BY <1>2 DEF CacheStep
  <2>2. ViewEdge(rspval, invval)
    BY <1>2, <2>1 DEF ViewEdge, CacheStep
  <2>3. cpu[P] \in DataReq \cup {NoReq}
    BY MccRegTypes DEF ViewInv, MccInv
  <2>4. ~TakesStore(P) => m' = m
    BY <1>1, <2>2, LatestKept
  <2>5. CASE DcLoadHit(P) \/ DcMissUpdate(P) \/ DcUncachedGo(P)
    <3>1. /\ cpu[P] # NoReq /\ cpu[P].type \in {"DATA_READ", "DATA_LL"}
          /\ cpu'[P] = NoReq /\ got' = Latest(cpu[P].addr) /\ ~TakesStore(P)
      BY <1>2, <2>5, LoadFacts
    <3>2. cpu[P].addr \in Addr
      BY <2>3, <3>1 DEF DataReq
    <3>3. got' = m[cpu[P].addr]
      BY <3>1, <3>2
    <3> HIDE DEF m
    <3>4. m' = m
      BY <2>4, <3>1
    <3> USE DEF m
    <3>5. Port!Load
      BY <3>1, <3>3, <3>4 DEF Port!Load, Port!Loads
    <3> QED BY <3>5
  <2>6. CASE ~(DcLoadHit(P) \/ DcMissUpdate(P) \/ DcUncachedGo(P))
    <3>1. /\ got' = got
          /\ \/ /\ TakesStore(P) /\ cpu'[P] = NoReq
                /\ cpu[P] # NoReq /\ cpu[P].type = "DATA_WRITE" /\ cpu[P].addr \in Addr
             \/ /\ ~TakesStore(P) /\ cpu'[P] = NoReq
                /\ cpu[P] # NoReq /\ cpu[P].type \in {"XTN_SYNC", "XTN_DCACHE_INVAL"}
             \/ ~TakesStore(P) /\ cpu'[P] = cpu[P]
      BY <1>2, <2>6, OtherFacts
    <3>2. CASE TakesStore(P)
      <4>1. \A a \in Addr : Latest(a)' = IF a = cpu[P].addr
                                         THEN Merge(Latest(a), cpu[P].data, cpu[P].be)
                                         ELSE Latest(a)
        BY <2>2, <3>2, LatestStored
      <4>2. m' = [m EXCEPT ![cpu[P].addr] = Merge(m[cpu[P].addr], cpu[P].data, cpu[P].be)]
        BY <3>1, <3>2, <4>1
      <4>3. Port!Store
        BY <3>1, <3>2, <4>2 DEF Port!Store, Port!Merge, Merge
      <4> QED BY <4>3
    <3>3. CASE ~TakesStore(P) /\ cpu'[P] = cpu[P]
      BY <2>4, <3>1, <3>3
    <3>4. CASE ~TakesStore(P) /\ cpu'[P] # cpu[P]
      <4>1. Port!Extension
        BY <2>4, <3>1, <3>4 DEF Port!Extension
      <4> QED BY <4>1
    <3> QED BY <3>2, <3>3, <3>4
  <2> QED BY <2>5, <2>6
<1>3. CASE ~CacheStep
  <2>1. m' = m
    BY <1>1, <1>3, ViewNext
  <2>2. CASE CpuRequest
    <3>1. cpu[P] = NoReq /\ cpu'[P] # NoReq /\ got' = got
      BY <2>2, AskStep DEF CpuRequest
    <3>2. Port!Issue
      BY <2>1, <3>1 DEF Port!Issue
    <3> QED BY <3>2
  <2>3. CASE ~CpuRequest
    <3>1. cpu' = cpu /\ got' = got
      BY <1>3, <2>3 DEF Next, FetchRequest, MemTakeRead, MemAnswerRead, MemTakeWrite, MemTlbMiss,
         MemTlbAck, MemInval, MemTakeAck, MoveBegin, Poison, Exchange, UpdatePageTable,
         SendTlbInval, SendInval, Unpoison, OnlyMoves, vars, cacheVars
    <3> QED BY <2>1, <3>1
  <2> QED BY <2>2, <2>3
<1> QED BY <1>2, <1>3

LEMMA PortStart == ASSUME Init PROVE Port!AmInit
<1>1. ViewInv
  BY ViewInit
<1>2. MccInv /\ P \in Procs /\ CacheInit
  BY <1>1, PIsCache DEF ViewInv, Init, MccCacheInit
<1>3. cpu[P] = NoReq /\ ~dm[P].pending /\ wb[P].cells = <<>> /\ got = Zero
  BY <1>2 DEF Init, CacheInit
<1>4. ASSUME NEW a \in Addr PROVE Latest(a) \in Word
  <2>1. Latest(a) = Visible(Contents, dm[P], wb[P].cells, a)
    BY LatestVisible
  <2>2. Where(wb[P].cells, a) = {}
    BY <1>3 DEF Where
  <2>3. Latest(a) = Contents[a]
    BY <1>3, <2>1, <2>2 DEF Visible
  <2> QED BY <1>2, <2>3, ContentWords
<1>5. [a \in Addr |-> Latest(a)] \in [Addr -> Word]
  BY <1>4
<1> QED BY <1>3, <1>5 DEF Port!AmInit, Port!Addr, Addr, Port!Word, Word, Port!Zero, Zero

(* Behind its port the processor sees a plain memory: no migration loses,  *)
(* repeats or reorders a store, or shows the words of another page.        *)
THEOREM MccPortRefinesMemory == Spec => MccPortIsAtomicMemory
<1>1. Init => ViewInv /\ Port!AmInit
  BY ViewInit, PortStart
<1>2. ViewInv /\ [Next]_vars => ViewInv' /\ [Port!AmNext]_(Port!amVars)
  BY ViewNext, PortStep
<1> QED BY <1>1, <1>2, PTL DEF Spec, MccPortIsAtomicMemory, Port!AmSpec
=============================================================================
