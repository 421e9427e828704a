------------------------------ MODULE MccPages ------------------------------
(* The pages of the migration platform: address arithmetic that caches and *)
(* memories share, and frames as response cells carry them.                *)
EXTENDS VciNoc

CONSTANT PageWords  \* PAGE_SIZE, in words

ASSUME PageWordsAssumption == PageWords \in Nat \ {0}

Page(a)     == a \div PageWords
PageBase(v) == v * PageWords
Pages       == {Page(a) : a \in Addr}

(* A segment is made of whole pages, a page of whole lines. *)
ASSUME WholePagesAssumption   == \A v \in Pages : PageBase(v) + PageWords <= NbWords
ASSUME LinesInPagesAssumption == \A a \in Addr : Page(Base(Block(a))) = Page(a)

(* A response cell carries a frame number in each lane. *)
FrameWord(f) == [l \in Lanes |-> f]
FrameOf(d)   == d[0]

ASSUME FramesAssumption == Pages \subseteq Val
=============================================================================
