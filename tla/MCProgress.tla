----------------------------- MODULE MCProgress -----------------------------
(***************************************************************************)
(* Three parts whose properties include that something comes to its end:   *)
(* when commands of the conventional FTL finish (ConvTiming), its writes   *)
(* with their garbage collection (ConvFTL), and unloading the module       *)
(* (Lifecycle).  They share nothing; each behaviour is one of one of them, *)
(* while the others stay in their initial state.                           *)
(***************************************************************************)
EXTENDS ConvTiming, Lifecycle

CONSTANTS
    Lines, InitialFree, PgsPerLine, LPNs, Blocks, BlockOf, GCOrder,
    GcThresLinesHigh, CreditMod, UNMAPPED_PPA, INVALID_LPN, NULL    \* ConvFTL

VARIABLES
    part,       \* the part that moves
    maptbl, rmap, pg, blk, line, free_line_list, full_line_list, victim_line_pq,
    wp, gc_wp, wfc, gc, cur, write_pc       \* ConvFTL

ftlVars == <<maptbl, rmap, pg, blk, line, free_line_list, full_line_list,
             victim_line_pq, wp, gc_wp, wfc, gc, cur, write_pc>>

Ftl == INSTANCE ConvFTL WITH pc <- write_pc

\* 2 channels with one page each
Geo == INSTANCE LineGeometry
TwoPages == [nchs |-> 2, luns_per_ch |-> 1, pgs_per_flashpg |-> 1,
             flashpgs_per_oneshot |-> 1, oneshotpgs_per_blk |-> 1]
MCBlocks == Geo!BlocksOfLine(TwoPages)
MCBlockOf == Geo!BlockOfOffset(TwoPages)
MCGCOrder == Geo!GCOffsets(TwoPages)
MCLines == 1 .. 6
MCFree == [l \in MCLines |-> l]

MCInit ==
    /\ part \in {"timing", "ftl", "lifecycle"}
    /\ Init /\ Ftl!Init /\ InitModule

MCNext ==
    \/ part = "timing" /\ Next /\ UNCHANGED <<part, ftlVars, moduleVars>>
    \/ part = "ftl" /\ Ftl!Next /\ UNCHANGED <<part, vars, moduleVars>>
    \/ part = "lifecycle" /\ NextModule /\ UNCHANGED <<part, vars, ftlVars>>

\* the fairness of each part, for behaviours in which it moves
Timing(A) == part = "timing" /\ A
Mapping(A) == part = "ftl" /\ A
Loading(A) == part = "lifecycle" /\ A

MCFairness ==
    /\ WF_vars(Timing(tick)) /\ WF_vars(Timing(buffer_release)) /\ WF_vars(Timing(go_on))
    /\ WF_ftlVars(Mapping(Ftl!write_page \/ Ftl!check_and_refill_write_credit))
    /\ WF_moduleVars(Loading(Unload)) /\ WF_moduleVars(Loading(Driver))
    /\ WF_moduleVars(Loading(Dispatcher))
    /\ \A w \in Workers : WF_moduleVars(Loading(Worker(w)))

MCSpec ==
    /\ MCInit
    /\ [][MCNext]_<<part, vars, ftlVars, moduleVars>>
    /\ MCFairness

\* every page write ends, also when it triggers a garbage collection
WriteEnds == Ftl!WriteEnds
=============================================================================
