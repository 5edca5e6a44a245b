------------------------------ MODULE ConvFTL ------------------------------
(***************************************************************************)
(* One partition of the page-mapped ("conventional") flash translation     *)
(* layer of src/conv_ftl.c: mapping tables, line management, write flow    *)
(* control and foreground garbage collection.                              *)
(*                                                                         *)
(* A physical page is <<line, offset>>.  The offset is the page's place in *)
(* the order in which advance_write_pointer() walks a line; module         *)
(* LineLayout derives that order, the order GCOrder in which do_gc() walks *)
(* the same line, and the block BlockOf[offset] each page lies in, from    *)
(* the channel / lun / page counters of the code.                          *)
(*                                                                         *)
(* All of conv_ftl.c runs in the dispatcher thread, so nothing interleaves *)
(* with an iteration of conv_write()'s loop; `pc' keeps its steps together:*)
(*   "write"    at the head of the loop, between two logical pages         *)
(*   "program"  the old page of logical page `cur' is out of the way       *)
(*   "refill"   the write credits are used up                              *)
(*   "gc"       in the copy loop of do_gc()                                *)
(*   "erase"    do_gc() is about to call mark_block_free()                 *)
(***************************************************************************)
EXTENDS Integers, Sequences, FiniteSets

CONSTANTS
    Lines,              \* line ids; lm->tt_lines of them
    InitialFree,        \* the lines in the order init_lines() lists them
    PgsPerLine,         \* spp->pgs_per_line
    LPNs,               \* logical pages the host may address
    Blocks,             \* the blocks (one per lun) that make up a line
    BlockOf,            \* [Offsets -> Blocks]
    GCOrder,            \* [0..PgsPerLine-1 -> Offsets], do_gc()'s loop nest
    GcThresLinesHigh,   \* cpp->gc_thres_lines_high
    CreditMod,          \* 2^32: write_credits is a uint32_t
    UNMAPPED_PPA, INVALID_LPN, NULL

Offsets == 0 .. PgsPerLine - 1
Pages == Lines \X Offsets
\* spp->pgs_per_blk for the block an offset lies in
BlkOffsets(b) == {o \in Offsets : BlockOf[o] = b}

ASSUME SizeAssumption ==
    /\ PgsPerLine \in Nat \ {0}
    /\ GcThresLinesHigh \in Nat
    /\ CreditMod \in Nat
    /\ CreditMod > PgsPerLine
    /\ IsFiniteSet(LPNs)

ASSUME LayoutAssumption ==
    /\ BlockOf \in [Offsets -> Blocks]
    /\ GCOrder \in [Offsets -> Offsets]
    /\ \A i, j \in Offsets : GCOrder[i] = GCOrder[j] => i = j
    /\ \A o \in Offsets : \E i \in Offsets : GCOrder[i] = o

ASSUME LinesAssumption ==
    /\ InitialFree \in Seq(Lines)
    /\ Len(InitialFree) > 2
    /\ \A i, j \in 1 .. Len(InitialFree) : InitialFree[i] = InitialFree[j] => i = j
    /\ \A l \in Lines : \E i \in 1 .. Len(InitialFree) : InitialFree[i] = l

ASSUME NullAssumption ==
    /\ UNMAPPED_PPA \notin Pages
    /\ INVALID_LPN \notin LPNs
    /\ NULL \notin Lines

VARIABLES
    maptbl,           \* logical page -> physical page
    rmap,             \* physical page -> logical page
    pg,               \* physical page -> its nand_page status
    blk,              \* <<line, block>> -> [ipc, vpc] of struct nand_block
    line,             \* line -> [ipc, vpc] of struct line
    free_line_list,   \* lm->free_line_list; free_line_cnt is its length
    full_line_list,   \* members of lm->full_line_list
    victim_line_pq,   \* members of lm->victim_line_pq (line->pos # 0)
    wp,               \* conv_ftl->wp    [curline, off]
    gc_wp,            \* conv_ftl->gc_wp [curline, off]
    wfc,              \* [write_credits, credits_to_refill]
    gc,               \* [victim, pos]: line do_gc() is cleaning, pages visited
    cur,              \* the logical page whose write is in progress
    pc                \* where in conv_write()'s loop the dispatcher is

vars == <<maptbl, rmap, pg, blk, line, free_line_list, full_line_list,
          victim_line_pq, wp, gc_wp, wfc, gc, cur, pc>>

mapvars == <<maptbl, rmap>>
nandvars == <<pg, blk>>
linevars == <<line, free_line_list, full_line_list, victim_line_pq>>

PG_FREE == "PG_FREE"
PG_INVALID == "PG_INVALID"
PG_VALID == "PG_VALID"

(***************************************************************************)
(* Predicates and small helpers of the code.                               *)
(***************************************************************************)
free_line_cnt == Len(free_line_list)

\* mutant: the comparison is turned round
should_gc_high_reversed == free_line_cnt > GcThresLinesHigh

should_gc_high == free_line_cnt <= GcThresLinesHigh

mapped_ppa(ppa) == ppa # UNMAPPED_PPA

get_new_page(w) == <<w.curline, w.off>>

\* get_next_free_line() has returned NULL and advance_write_pointer() has
\* dereferenced it
Halted == wp.curline = NULL \/ gc_wp.curline = NULL

(***************************************************************************)
(* Initialisation: init_maptbl, init_rmap, init_lines, two calls of        *)
(* prepare_write_pointer, init_write_flow_control.                         *)
(***************************************************************************)
conv_init_ftl ==
    /\ maptbl = [lpn \in LPNs |-> UNMAPPED_PPA]
    /\ rmap = [p \in Pages |-> INVALID_LPN]
    /\ pg = [p \in Pages |-> PG_FREE]
    /\ blk = [b \in Lines \X Blocks |-> [ipc |-> 0, vpc |-> 0]]
    /\ line = [l \in Lines |-> [ipc |-> 0, vpc |-> 0]]
    /\ free_line_list = SubSeq(InitialFree, 3, Len(InitialFree))
    /\ full_line_list = {}
    /\ victim_line_pq = {}
    /\ wp = [curline |-> InitialFree[1], off |-> 0]
    /\ gc_wp = [curline |-> InitialFree[2], off |-> 0]
    /\ wfc = [write_credits |-> PgsPerLine, credits_to_refill |-> PgsPerLine]
    /\ gc = [victim |-> NULL, pos |-> 0]
    /\ cur = INVALID_LPN
    /\ pc = "write"

(***************************************************************************)
(* mark_page_invalid() and mark_page_valid()                               *)
(***************************************************************************)
invalidate_counts(c) == [ipc |-> c.ipc + 1, vpc |-> c.vpc - 1]
validate_counts(c) == [c EXCEPT !.vpc = @ + 1]

was_full_line(l) == line[l].vpc = PgsPerLine

\* mutant: no list_del_init() before the line enters the victim queue
mark_page_invalid_keeps_full(p) ==
    LET l == p[1]
        b == <<l, BlockOf[p[2]]>>
    IN  /\ pg' = [pg EXCEPT ![p] = PG_INVALID]
        /\ blk' = [blk EXCEPT ![b] = invalidate_counts(@)]
        /\ line' = [line EXCEPT ![l] = invalidate_counts(@)]
        /\ victim_line_pq' =
              IF was_full_line(l) THEN victim_line_pq \cup {l} ELSE victim_line_pq
        /\ UNCHANGED <<free_line_list, full_line_list>>

mark_page_invalid(p) ==
    LET l == p[1]
        b == <<l, BlockOf[p[2]]>>
    IN  /\ pg' = [pg EXCEPT ![p] = PG_INVALID]
        /\ blk' = [blk EXCEPT ![b] = invalidate_counts(@)]
        /\ line' = [line EXCEPT ![l] = invalidate_counts(@)]
        \* "move line: full -> victim"
        /\ full_line_list' =
              IF was_full_line(l) THEN full_line_list \ {l} ELSE full_line_list
        /\ victim_line_pq' =
              IF was_full_line(l) THEN victim_line_pq \cup {l} ELSE victim_line_pq
        /\ UNCHANGED free_line_list

mark_page_valid(p) ==
    LET l == p[1]
        b == <<l, BlockOf[p[2]]>>
    IN  /\ pg' = [pg EXCEPT ![p] = PG_VALID]
        /\ blk' = [blk EXCEPT ![b] = validate_counts(@)]
        /\ line' = [line EXCEPT ![l] = validate_counts(@)]

(***************************************************************************)
(* advance_write_pointer(): step to the next page of the line; a line that *)
(* is written out goes to the full list or to the victim queue and the     *)
(* next free line is opened (get_next_free_line).                          *)
(***************************************************************************)
line_is_used_up(w) == w.off + 1 = PgsPerLine

next_free_line ==
    IF free_line_list = <<>> THEN NULL ELSE Head(free_line_list)

advanced(w) ==
    IF line_is_used_up(w)
    THEN [curline |-> next_free_line, off |-> 0]
    ELSE [curline |-> w.curline, off |-> w.off + 1]

\* mutant: get_next_free_line() leaves the line on the free list
retire_line_keeps_free(w) ==
    IF line_is_used_up(w)
    THEN /\ IF line'[w.curline].vpc = PgsPerLine
            THEN /\ full_line_list' = full_line_list \cup {w.curline}
                 /\ victim_line_pq' = victim_line_pq
            ELSE /\ full_line_list' = full_line_list
                 /\ victim_line_pq' = victim_line_pq \cup {w.curline}
         /\ UNCHANGED free_line_list
    ELSE UNCHANGED <<full_line_list, victim_line_pq, free_line_list>>

\* what becomes of the line lists; line' holds the counters in force when
\* advance_write_pointer() is entered
retire_line(w) ==
    IF line_is_used_up(w)
    THEN /\ IF line'[w.curline].vpc = PgsPerLine
            THEN /\ full_line_list' = full_line_list \cup {w.curline}
                 /\ victim_line_pq' = victim_line_pq
            ELSE /\ full_line_list' = full_line_list
                 /\ victim_line_pq' = victim_line_pq \cup {w.curline}
         /\ free_line_list' = IF free_line_list = <<>>
                              THEN <<>> ELSE Tail(free_line_list)
    ELSE UNCHANGED <<full_line_list, victim_line_pq, free_line_list>>

\* the part conv_write() and gc_write_page() have in common: get_new_page,
\* set_maptbl_ent, set_rmap_ent, mark_page_valid, advance_write_pointer
program_page(w, lpn) ==
    LET p == get_new_page(w)
    IN  /\ maptbl' = [maptbl EXCEPT ![lpn] = p]
        /\ rmap' = [rmap EXCEPT ![p] = lpn]
        /\ mark_page_valid(p)
        /\ retire_line(w)

(***************************************************************************)
(* conv_write(): one iteration of the loop over the logical pages of a     *)
(* command is start_new_page or start_overwrite, then write_page.          *)
(***************************************************************************)
\* the logical page was never written: no old page to invalidate
start_new_page(lpn) ==
    /\ pc = "write" /\ ~Halted
    /\ ~mapped_ppa(maptbl[lpn])
    /\ cur' = lpn
    /\ pc' = "program"
    /\ UNCHANGED <<mapvars, nandvars, linevars, wp, gc_wp, wfc, gc>>

\* "update old page information first"
start_overwrite(lpn) ==
    LET old == maptbl[lpn]
    IN  /\ pc = "write" /\ ~Halted
        /\ mapped_ppa(old)
        /\ mark_page_invalid(old)
        /\ rmap' = [rmap EXCEPT ![old] = INVALID_LPN]
        /\ cur' = lpn
        /\ pc' = "program"
        /\ UNCHANGED <<maptbl, wp, gc_wp, wfc, gc>>

consumed(c) == (c + CreditMod - 1) % CreditMod

\* "new write", then consume_write_credit() and the test of
\* check_and_refill_write_credit()
write_page ==
    /\ pc = "program" /\ ~Halted
    /\ program_page(wp, cur)
    /\ wp' = advanced(wp)
    /\ wfc' = [wfc EXCEPT !.write_credits = consumed(@)]
    /\ cur' = INVALID_LPN
    /\ pc' = IF wfc'.write_credits = 0 THEN "refill" ELSE "write"
    /\ UNCHANGED <<gc_wp, gc>>

(***************************************************************************)
(* check_and_refill_write_credit() when the credits are used up:           *)
(* foreground_gc() and then write_credits += credits_to_refill.            *)
(***************************************************************************)
refilled(w) ==
    [w EXCEPT !.write_credits = (@ + w.credits_to_refill) % CreditMod]

\* foreground_gc() has nothing to do, or do_gc() finds no victim
refill_without_gc ==
    /\ pc = "refill" /\ ~Halted
    /\ should_gc_high => victim_line_pq = {}
    /\ wfc' = refilled(wfc)
    /\ pc' = "write"
    /\ UNCHANGED <<mapvars, nandvars, linevars, wp, gc_wp, gc, cur>>

\* pqueue_peek(): a line no other line of the queue undercuts
has_min_vpc(l) == \A m \in victim_line_pq : line[l].vpc <= line[m].vpc

reclaimable(l) == line[l].ipc

\* do_gc() up to its copy loop: select_victim_line(), credits_to_refill
do_gc(l) ==
    /\ pc = "refill" /\ ~Halted
    /\ should_gc_high
    /\ l \in victim_line_pq /\ has_min_vpc(l)
    /\ victim_line_pq' = victim_line_pq \ {l}
    /\ wfc' = [wfc EXCEPT !.credits_to_refill = reclaimable(l)]
    /\ gc' = [victim |-> l, pos |-> 0]
    /\ pc' = "gc"
    /\ UNCHANGED <<mapvars, nandvars, line, free_line_list, full_line_list,
                   wp, gc_wp, cur>>

(***************************************************************************)
(* The copy loop visits one page (clean_one_flashpg(), gc_write_page());   *)
(* behind the last page of a block the block is erased.                    *)
(***************************************************************************)
gc_page == <<gc.victim, GCOrder[gc.pos]>>

last_of_block(i) ==
    \A j \in Offsets : j > i => BlockOf[GCOrder[j]] # BlockOf[GCOrder[i]]

visit_page ==
    /\ pc = "gc" /\ ~Halted
    /\ gc.pos < PgsPerLine
    /\ gc' = [gc EXCEPT !.pos = @ + 1]
    /\ pc' = IF last_of_block(gc.pos) THEN "erase" ELSE "gc"

\* mutant: the copy is made but the mapping still names the victim's page
gc_write_page_no_remap ==
    /\ visit_page
    /\ pg[gc_page] = PG_VALID
    /\ mark_page_valid(get_new_page(gc_wp))
    /\ retire_line(gc_wp)
    /\ gc_wp' = advanced(gc_wp)
    /\ UNCHANGED <<mapvars, wp, wfc, cur>>

gc_write_page ==
    /\ visit_page
    /\ pg[gc_page] = PG_VALID
    /\ program_page(gc_wp, rmap[gc_page])
    /\ gc_wp' = advanced(gc_wp)
    /\ UNCHANGED <<wp, wfc, cur>>

gc_skip_page ==
    /\ visit_page
    /\ pg[gc_page] # PG_VALID
    /\ UNCHANGED <<mapvars, nandvars, linevars, wp, gc_wp, wfc, cur>>

\* the block of the page visited last
gc_block == BlockOf[GCOrder[gc.pos - 1]]

\* mutant: the counters are reset, the page statuses are not
mark_block_free_keeps_pages ==
    /\ pc = "erase" /\ ~Halted
    /\ blk' = [blk EXCEPT ![<<gc.victim, gc_block>>] = [ipc |-> 0, vpc |-> 0]]
    /\ pc' = "gc"
    /\ UNCHANGED <<mapvars, pg, linevars, wp, gc_wp, wfc, gc, cur>>

\* mutant: the block is erased again and again
mark_block_free_again ==
    /\ pc = "erase" /\ ~Halted
    /\ pg' = [p \in Pages |-> IF p[1] = gc.victim /\ BlockOf[p[2]] = gc_block
                              THEN PG_FREE ELSE pg[p]]
    /\ blk' = [blk EXCEPT ![<<gc.victim, gc_block>>] = [ipc |-> 0, vpc |-> 0]]
    /\ UNCHANGED <<mapvars, linevars, wp, gc_wp, wfc, gc, cur, pc>>

mark_block_free ==
    /\ pc = "erase" /\ ~Halted
    /\ pg' = [p \in Pages |-> IF p[1] = gc.victim /\ BlockOf[p[2]] = gc_block
                              THEN PG_FREE ELSE pg[p]]
    /\ blk' = [blk EXCEPT ![<<gc.victim, gc_block>>] = [ipc |-> 0, vpc |-> 0]]
    /\ pc' = "gc"
    /\ UNCHANGED <<mapvars, linevars, wp, gc_wp, wfc, gc, cur>>

\* mutant: the line counters keep the values of the victim
mark_line_free_keeps_counts ==
    /\ pc = "gc" /\ ~Halted
    /\ gc.pos = PgsPerLine
    /\ free_line_list' = Append(free_line_list, gc.victim)
    /\ gc' = [victim |-> NULL, pos |-> 0]
    /\ wfc' = refilled(wfc)
    /\ pc' = "write"
    /\ UNCHANGED <<mapvars, nandvars, line, full_line_list, victim_line_pq, wp,
                   gc_wp, cur>>

\* the end of do_gc() and of check_and_refill_write_credit()
mark_line_free ==
    /\ pc = "gc" /\ ~Halted
    /\ gc.pos = PgsPerLine
    /\ line' = [line EXCEPT ![gc.victim] = [ipc |-> 0, vpc |-> 0]]
    /\ free_line_list' = Append(free_line_list, gc.victim)
    /\ gc' = [victim |-> NULL, pos |-> 0]
    /\ wfc' = refilled(wfc)
    /\ pc' = "write"
    /\ UNCHANGED <<mapvars, nandvars, full_line_list, victim_line_pq, wp, gc_wp,
                   cur>>

check_and_refill_write_credit ==
    \/ refill_without_gc
    \/ \E l \in victim_line_pq : do_gc(l)
    \/ gc_write_page
    \/ gc_skip_page
    \/ mark_block_free
    \/ mark_line_free

Init == conv_init_ftl

Next ==
    \/ \E lpn \in LPNs : start_new_page(lpn) \/ start_overwrite(lpn)
    \/ write_page
    \/ check_and_refill_write_credit

Spec == Init /\ [][Next]_vars

\* Once an iteration of conv_write()'s loop has started, it runs to its end in
\* the same thread; whether the host writes again is up to the host.
Fairness == WF_vars(write_page \/ check_and_refill_write_credit)

(***************************************************************************)
(* Properties.                                                             *)
(***************************************************************************)
Statuses == {PG_FREE, PG_INVALID, PG_VALID}
Counters == [ipc : Int, vpc : Int]
WritePointers == [curline : Lines \cup {NULL}, off : Offsets]

\* Every variable has the type its C declaration and the code's address checks
\* (check_addr) give it.
TypeOK ==
    /\ maptbl \in [LPNs -> Pages \cup {UNMAPPED_PPA}]
    /\ rmap \in [Pages -> LPNs \cup {INVALID_LPN}]
    /\ pg \in [Pages -> Statuses]
    /\ blk \in [Lines \X Blocks -> Counters]
    /\ line \in [Lines -> Counters]
    /\ free_line_list \in Seq(Lines)
    /\ full_line_list \subseteq Lines
    /\ victim_line_pq \subseteq Lines
    /\ wp \in WritePointers
    /\ gc_wp \in WritePointers
    /\ wfc \in [write_credits : 0 .. CreditMod - 1, credits_to_refill : Int]
    /\ gc \in [victim : Lines \cup {NULL}, pos : 0 .. PgsPerLine]
    /\ cur \in LPNs \cup {INVALID_LPN}
    /\ pc \in {"write", "program", "refill", "gc", "erase"}

\* What the program counter says about the collection and the write in
\* progress.
ControlOK ==
    /\ pc \in {"gc", "erase"} <=> gc.victim # NULL
    /\ gc.victim = NULL => gc.pos = 0
    /\ pc = "erase" => gc.pos > 0 /\ last_of_block(gc.pos - 1)
    /\ pc = "program" <=> cur # INVALID_LPN

\* The page has been visited by the copy loop of the collection in progress.
Visited(p) ==
    /\ p[1] = gc.victim
    /\ \E i \in Offsets : i < gc.pos /\ p[2] = GCOrder[i]

\* A logical page that was ever written maps to a page that holds data and
\* whose reverse mapping names it, also in the middle of a garbage collection:
\* conv_read() never follows an entry to an erased, stale or reused page, and
\* no two logical pages share one.  The page being overwritten is excepted
\* between mark_page_invalid() and set_maptbl_ent().
MappingConsistent ==
    \A lpn \in LPNs \ {cur} : mapped_ppa(maptbl[lpn]) =>
        /\ pg[maptbl[lpn]] = PG_VALID
        /\ rmap[maptbl[lpn]] = lpn
        /\ ~Visited(maptbl[lpn])

\* A page marked valid is the current copy of the logical page its reverse
\* mapping names, unless the collection in progress has just moved it away:
\* garbage collection never copies a stale page over a newer mapping, and
\* gc_write_page()'s assertion valid_lpn(lpn) holds.
NoOrphanPage ==
    \A p \in Pages : pg[p] = PG_VALID /\ ~Visited(p) =>
        /\ rmap[p] \in LPNs \ {cur}
        /\ maptbl[rmap[p]] = p

\* The mapping table and the reverse mapping are inverse to each other on the
\* pages that hold data, also in the middle of a garbage collection.
MappingExact == MappingConsistent /\ NoOrphanPage

FreeLines == {free_line_list[i] : i \in DOMAIN free_line_list}
Listed == FreeLines \cup full_line_list \cup victim_line_pq

\* the lists are disjoint and free of repetitions, the open lines a and b and
\* the victim v are on no list, and together they are all the lines
Partition(a, b, v) ==
    /\ \A i, j \in DOMAIN free_line_list :
           free_line_list[i] = free_line_list[j] => i = j
    /\ full_line_list \cap victim_line_pq = {}
    /\ FreeLines \cap (full_line_list \cup victim_line_pq) = {}
    /\ a \notin Listed /\ b \notin Listed /\ v \notin Listed
    /\ a # b /\ v # a /\ v # b
    /\ Lines = Listed \cup {a, b} \cup ({v} \ {NULL})

\* Every line has exactly one place: the free list (once), the full list, the
\* victim queue, one of the two write pointers, or the collection in progress.
\* No line is lost, listed twice, or handed to both write pointers.
LinesPartitioned ==
    ~Halted => Partition(wp.curline, gc_wp.curline, gc.victim)

\* The block of p has been erased by the collection in progress.
BlockErased(p) ==
    /\ \A i \in Offsets : BlockOf[GCOrder[i]] = BlockOf[p[2]] => i < gc.pos
    /\ pc = "erase" => BlockOf[p[2]] # gc_block

\* p has not been reached by write pointer w
Ahead(p, w) == p[1] = w.curline /\ p[2] >= w.off

\* Where the erased pages are: all of a free line, the rest of an open line
\* from its write pointer on, the blocks of the victim that do_gc() is done
\* with, and nowhere else.  With it mark_page_valid()'s assertion PG_FREE and
\* clean_one_flashpg()'s "there shouldn't be any free page in victim blocks"
\* hold.
ErasedPagesInPlace == ~Halted =>
    \A p \in Pages : pg[p] = PG_FREE <=>
        \/ p[1] \in FreeLines
        \/ Ahead(p, wp)
        \/ Ahead(p, gc_wp)
        \/ p[1] = gc.victim /\ BlockErased(p)

PagesOfLine(l, st) == {o \in Offsets : pg[<<l, o>>] = st}
PagesOfBlk(l, b, st) == {o \in BlkOffsets(b) : pg[<<l, o>>] = st}

LineCountersExact ==
    \A l \in Lines \ {gc.victim} :
        /\ line[l].vpc = Cardinality(PagesOfLine(l, PG_VALID))
        /\ line[l].ipc = Cardinality(PagesOfLine(l, PG_INVALID))

BlkCountersExact ==
    \A l \in Lines, b \in Blocks :
        /\ blk[<<l, b>>].vpc = Cardinality(PagesOfBlk(l, b, PG_VALID))
        /\ blk[<<l, b>>].ipc = Cardinality(PagesOfBlk(l, b, PG_INVALID))

\* The counters the code keeps incrementally, per line and per block, equal
\* the page statuses they summarise.  During a collection the victim's line
\* counters keep the value they had when it was selected.
CountersExact == LineCountersExact /\ BlkCountersExact

\* Which list a closed line is on agrees with its counters: the test
\* vpc == pgs_per_line by which mark_page_invalid() decides to take a line off
\* the full list is true for lines on that list and for no other line, and a
\* line that can be selected as victim has something to reclaim.
ListsMatchCounters ==
    /\ \A l \in Lines : line[l].vpc = PgsPerLine <=> l \in full_line_list
    /\ \A l \in victim_line_pq \cup ({gc.victim} \ {NULL}) : line[l].ipc > 0

\* Every line is on exactly one list, and on the one its counters call for.
LineLists == LinesPartitioned /\ ListsMatchCounters

\* write_credits is never 0 when the next page is written: a refill of 0 would
\* let the uint32_t wrap to 2^32 - 1 and switch garbage collection off.
CreditsNeverStall ==
    pc = "write" => wfc.write_credits \in 1 .. PgsPerLine

\* The host's pages leave spare the two open lines and those of the threshold,
\* which is at least the "two lines" of conv_init_params().
SpareLines ==
    /\ GcThresLinesHigh >= 2
    /\ Cardinality(LPNs) < (Cardinality(Lines) - GcThresLinesHigh - 2) * PgsPerLine

\* get_next_free_line() never returns NULL ("No free line left in VIRT"): the
\* two lines of conv_init_params() suffice, "Need only two lines.(host write,
\* gc)", as long as there are SpareLines.
NeverOutOfLines == ~Halted

\* A page is programmed only when it is erased, and erased only when no
\* logical page maps to it any more.
FlashDiscipline ==
    [][/\ wp' # wp => pg[get_new_page(wp)] = PG_FREE
       /\ gc_wp' # gc_wp => pg[get_new_page(gc_wp)] = PG_FREE
       /\ \A p \in Pages : pg[p] # PG_FREE /\ pg'[p] = PG_FREE =>
             \A lpn \in LPNs : maptbl'[lpn] # p]_vars

\* Every page a write command brings is written, and when it used up the last
\* credit foreground_gc() ends: conv_write() reaches its next page.
WriteEnds == pc # "write" ~> pc = "write"
============================================================================
