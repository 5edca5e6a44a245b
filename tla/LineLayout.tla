----------------------------- MODULE LineLayout -----------------------------
(***************************************************************************)
(* How src/conv_ftl.c walks the pages of one line: the counters of         *)
(* advance_write_pointer() fill it, the loop nest of do_gc() with          *)
(* clean_one_flashpg() cleans it and erases its blocks.  The geometry is   *)
(* chosen in InitLine, so one run covers every geometry in Geometries.     *)
(***************************************************************************)
EXTENDS LineGeometry, SequencesExt

CONSTANT Geometries

ASSUME GeometryAssumption ==
    Geometries \subseteq
        [nchs : Nat \ {0}, luns_per_ch : Nat \ {0}, pgs_per_flashpg : Nat \ {0},
         flashpgs_per_oneshot : Nat \ {0}, oneshotpgs_per_blk : Nat \ {0}]

VARIABLES
    geo,       \* the geometry of this line
    wpp,       \* write pointer [ch, lun, pg]
    written,   \* pages handed out by get_new_page(), in order
    cur,       \* do_gc()'s loop counters [flashpg, ch, lun, i]
    cleaned,   \* pages visited by clean_one_flashpg(), in order
    freed,     \* blocks <<ch, lun>> passed to mark_block_free(), in order
    phase      \* "fill", "clean" or "done"

lineVars == <<geo, wpp, written, cur, cleaned, freed, phase>>

InitLine ==
    /\ geo \in Geometries
    /\ wpp = [ch |-> 0, lun |-> 0, pg |-> 0]
    /\ written = <<>>
    /\ cur = [flashpg |-> 0, ch |-> 0, lun |-> 0, i |-> 0]
    /\ cleaned = <<>>
    /\ freed = <<>>
    /\ phase = "fill"

(***************************************************************************)
(* advance_write_pointer(): each alternative is one of its goto out's, the *)
(* last one the line that is used up.                                      *)
(***************************************************************************)
wordline_not_full == (wpp.pg + 1) % pgs_per_oneshotpg(geo) # 0
\* pg after "wpp->pg -= spp->pgs_per_oneshotpg"
wordline_start == wpp.pg + 1 - pgs_per_oneshotpg(geo)
last_channel == wpp.ch + 1 = geo.nchs
last_lun == wpp.lun + 1 = geo.luns_per_ch
last_wordline == wpp.pg + 1 = pgs_per_blk(geo)

next_pg_in_wordline ==
    /\ wordline_not_full
    /\ wpp' = [wpp EXCEPT !.pg = @ + 1]

\* mutant: the page is not set back to the start of the wordline
next_channel_keeps_pg ==
    /\ ~wordline_not_full /\ ~last_channel
    /\ wpp' = [wpp EXCEPT !.ch = @ + 1]

next_channel ==
    /\ ~wordline_not_full /\ ~last_channel
    /\ wpp' = [ch |-> wpp.ch + 1, lun |-> wpp.lun, pg |-> wordline_start]

next_lun ==
    /\ ~wordline_not_full /\ last_channel /\ ~last_lun
    /\ wpp' = [ch |-> 0, lun |-> wpp.lun + 1, pg |-> wordline_start]

next_wordline ==
    /\ ~wordline_not_full /\ last_channel /\ last_lun /\ ~last_wordline
    /\ wpp' = [ch |-> 0, lun |-> 0, pg |-> wpp.pg + 1]

line_used_up ==
    /\ ~wordline_not_full /\ last_channel /\ last_lun /\ last_wordline
    /\ wpp' = [ch |-> 0, lun |-> 0, pg |-> 0]

advance_write_pointer ==
    /\ phase = "fill"
    /\ written' = Append(written, wpp)
    /\ \/ (next_pg_in_wordline \/ next_channel \/ next_lun \/ next_wordline)
          /\ phase' = "fill"
       \/ line_used_up /\ phase' = "clean"
    /\ UNCHANGED <<geo, cur, cleaned, freed>>

(***************************************************************************)
(* do_gc(): the body of its innermost loop.                                *)
(***************************************************************************)
gc_page ==
    [ch |-> cur.ch, lun |-> cur.lun,
     pg |-> cur.flashpg * geo.pgs_per_flashpg + cur.i]

\* clean_one_flashpg() moves on to the next page of the flash page
clean_next_page ==
    /\ phase = "clean"
    /\ cur.i + 1 < geo.pgs_per_flashpg
    /\ cleaned' = Append(cleaned, gc_page)
    /\ cur' = [cur EXCEPT !.i = @ + 1]
    /\ UNCHANGED <<geo, wpp, written, freed, phase>>

next_loop_counters ==
    IF cur.lun + 1 < geo.luns_per_ch
    THEN [flashpg |-> cur.flashpg, ch |-> cur.ch, lun |-> cur.lun + 1, i |-> 0]
    ELSE IF cur.ch + 1 < geo.nchs
    THEN [flashpg |-> cur.flashpg, ch |-> cur.ch + 1, lun |-> 0, i |-> 0]
    ELSE [flashpg |-> cur.flashpg + 1, ch |-> 0, lun |-> 0, i |-> 0]

\* mutant: the block is erased with its first flash page
finish_flashpg_erases_early ==
    /\ phase = "clean"
    /\ cur.i + 1 = geo.pgs_per_flashpg
    /\ cleaned' = Append(cleaned, gc_page)
    /\ freed' = IF cur.flashpg = 0
                THEN Append(freed, <<cur.ch, cur.lun>>) ELSE freed
    /\ cur' = next_loop_counters
    /\ phase' = IF cur'.flashpg = flashpgs_per_blk(geo) THEN "done" ELSE "clean"
    /\ UNCHANGED <<geo, wpp, written>>

\* the last page of a flash page: clean_one_flashpg() returns, the block is
\* erased if this was its last flash page, and the loops advance
finish_flashpg ==
    /\ phase = "clean"
    /\ cur.i + 1 = geo.pgs_per_flashpg
    /\ cleaned' = Append(cleaned, gc_page)
    /\ freed' = IF cur.flashpg = flashpgs_per_blk(geo) - 1
                THEN Append(freed, <<cur.ch, cur.lun>>) ELSE freed
    /\ cur' = next_loop_counters
    /\ phase' = IF cur'.flashpg = flashpgs_per_blk(geo) THEN "done" ELSE "clean"
    /\ UNCHANGED <<geo, wpp, written>>

do_gc == clean_next_page \/ finish_flashpg

NextLine == advance_write_pointer \/ do_gc

LineSpec == InitLine /\ [][NextLine]_lineVars

(***************************************************************************)
(* ppa2pgidx() of a page of line blk.                                      *)
(***************************************************************************)
ppa2pgidx(g, blks_per_pl, blk, p) ==
    LET pgs_per_lun == pgs_per_blk(g) * blks_per_pl
    IN  p.ch * (pgs_per_lun * g.luns_per_ch) + p.lun * pgs_per_lun
        + blk * pgs_per_blk(g) + p.pg

(***************************************************************************)
(* Properties.                                                             *)
(***************************************************************************)
\* The write pointer stays inside the line (check_addr) and what has been
\* recorded are pages and blocks of it.
LineTypeOK ==
    /\ geo \in Geometries
    /\ wpp \in PagesOf(geo)
    /\ ToSet(written) \subseteq PagesOf(geo)
    /\ ToSet(cleaned) \subseteq PagesOf(geo)
    /\ ToSet(freed) \subseteq BlocksOfLine(geo)
    /\ phase \in {"fill", "clean", "done"}

\* the index into rmap differs for different pages of the partition and lies
\* below tt_pgs (the assertion of ppa2pgidx)
IndexInjective ==
    LET blks == 0 .. 2
        idx(b, p) == ppa2pgidx(geo, 3, b, p)
    IN  /\ \A b, c \in blks, p, q \in PagesOf(geo) :
              idx(b, p) = idx(c, q) => b = c /\ p = q
        /\ \A b \in blks, p \in PagesOf(geo) : idx(b, p) < 3 * pgs_per_line(geo)

\* advance_write_pointer() hands out the pages of a line in the order of the
\* closed form WritePage (so that the offsets of ConvFTL, WriteOffset, name
\* them one to one), none twice, and moves on to the next line exactly when
\* all pgs_per_line of them have been handed out.  A wordline is filled
\* without another page in between: last_pg_in_wordline() is true when all
\* pages of the one-shot program have been handed out, and only then.  The
\* pages of a full line have different indices in rmap.
WriteOrderExact ==
    LET os == pgs_per_oneshotpg(geo)
        wordline(p) == {q \in PagesOf(geo) : /\ q.ch = p.ch /\ q.lun = p.lun
                                             /\ q.pg \div os = p.pg \div os}
    IN  /\ LineTypeOK
        /\ \A i \in DOMAIN written : /\ written[i] = WritePage(geo, i - 1)
                                      /\ WriteOffset(geo, written[i]) = i - 1
        /\ phase = "fill" <=> Len(written) < pgs_per_line(geo)
        /\ phase # "fill" => ToSet(written) = PagesOf(geo)
        /\ phase = "done" => IndexInjective
        /\ \A i \in DOMAIN written :
              written[i].pg % os = os - 1 =>
                 wordline(written[i]) = {written[j] : j \in (i - os + 1) .. i}

\* do_gc()'s loops visit every page of the line, in the order of the closed
\* form GCPage, and none twice; a block is erased when, and only when, each of
\* its pages has been visited, and it is erased once.
CleanedThenErased ==
    /\ \A i \in DOMAIN cleaned : cleaned[i] = GCPage(geo, i - 1)
    /\ phase = "done" => /\ Len(cleaned) = pgs_per_line(geo)
                         /\ ToSet(cleaned) = PagesOf(geo)
    /\ \A b \in BlocksOfLine(geo) :
          b \in ToSet(freed) <=>
             \A p \in PagesOf(geo) :
                <<p.ch, p.lun>> = b => p \in ToSet(cleaned)
    /\ \A i, j \in DOMAIN freed : freed[i] = freed[j] => i = j

============================================================================
