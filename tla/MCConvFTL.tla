----------------------------- MODULE MCConvFTL -----------------------------
(***************************************************************************)
(* Instances of ConvFTL for TLC.  Line ids and logical pages are model     *)
(* values: apart from the order of the initial free list, which no         *)
(* property mentions, the specification treats them alike, so both are     *)
(* symmetric.                                                              *)
(***************************************************************************)
EXTENDS ConvFTL, TLC

CONSTANTS l1, l2, l3, l4, l5, l6

Geo == INSTANCE LineGeometry

SixLines == {l1, l2, l3, l4, l5, l6}
SixFree == <<l1, l2, l3, l4, l5, l6>>

\* 2 channels with one page each: lines fill up quickly, all lists are used
TwoPages == [nchs |-> 2, luns_per_ch |-> 1, pgs_per_flashpg |-> 1,
             flashpgs_per_oneshot |-> 1, oneshotpgs_per_blk |-> 1]
TwoPagesBlocks == Geo!BlocksOfLine(TwoPages)
TwoPagesBlockOf == Geo!BlockOfOffset(TwoPages)
TwoPagesGCOrder == Geo!GCOffsets(TwoPages)

\* the spare room on which NeverOutOfLines rests
ASSUME SpareLines

Symmetric == Permutations(LPNs) \cup Permutations(Lines)
============================================================================
