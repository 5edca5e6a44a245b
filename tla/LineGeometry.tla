---------------------------- MODULE LineGeometry ----------------------------
(***************************************************************************)
(* The geometry of a line (super block): one block of every lun of every   *)
(* channel of a partition (src/ssd.c ssd_init_params, PLNS_PER_LUN is 1 in *)
(* every configuration).  A geometry is a record                           *)
(*   [nchs, luns_per_ch, pgs_per_flashpg, flashpgs_per_oneshot,            *)
(*    oneshotpgs_per_blk]                                                  *)
(* and a page of a line a record [ch, lun, pg].                            *)
(*                                                                         *)
(* WritePage and GCPage are closed forms of the orders in which            *)
(* advance_write_pointer() and do_gc() walk a line.  Module LineLayout     *)
(* checks them against the counters of the code; ConvFTL is instantiated   *)
(* with them.                                                              *)
(***************************************************************************)
EXTENDS Naturals

pgs_per_oneshotpg(g) == g.pgs_per_flashpg * g.flashpgs_per_oneshot
flashpgs_per_blk(g) == g.flashpgs_per_oneshot * g.oneshotpgs_per_blk
pgs_per_blk(g) == pgs_per_oneshotpg(g) * g.oneshotpgs_per_blk
tt_luns(g) == g.luns_per_ch * g.nchs
pgs_per_line(g) == tt_luns(g) * pgs_per_blk(g)

PagesOf(g) == [ch : 0 .. g.nchs - 1, lun : 0 .. g.luns_per_ch - 1,
               pg : 0 .. pgs_per_blk(g) - 1]

\* the i-th page (from 0) that is written to an empty line: the pages of a
\* wordline, then the channels, then the luns, then the next wordline
WritePage(g, i) ==
    LET os == pgs_per_oneshotpg(g)
        q == i \div os
    IN  [ch |-> q % g.nchs,
         lun |-> (q \div g.nchs) % g.luns_per_ch,
         pg |-> (q \div tt_luns(g)) * os + (i % os)]

WriteOffset(g, p) ==
    LET os == pgs_per_oneshotpg(g)
    IN  ((p.pg \div os) * tt_luns(g) + p.lun * g.nchs + p.ch) * os + (p.pg % os)

\* the i-th page do_gc() looks at: the pages of a flash page, then the luns,
\* then the channels, then the next flash page
GCPage(g, i) ==
    LET q == i \div g.pgs_per_flashpg
    IN  [ch |-> (q \div g.luns_per_ch) % g.nchs,
         lun |-> q % g.luns_per_ch,
         pg |-> (q \div tt_luns(g)) * g.pgs_per_flashpg + (i % g.pgs_per_flashpg)]

\* what ConvFTL needs to know of a geometry
BlocksOfLine(g) == (0 .. g.nchs - 1) \X (0 .. g.luns_per_ch - 1)
BlockOfOffset(g) ==
    [o \in 0 .. pgs_per_line(g) - 1 |-> <<WritePage(g, o).ch, WritePage(g, o).lun>>]
GCOffsets(g) ==
    [i \in 0 .. pgs_per_line(g) - 1 |-> WriteOffset(g, GCPage(g, i))]
============================================================================
