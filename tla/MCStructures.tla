---------------------------- MODULE MCStructures ----------------------------
(***************************************************************************)
(* The structures and algorithms the device is built on, checked side by   *)
(* side: the walk over a line (LineLayout), the victim queue (VictimQueue),*)
(* a channel of the timing model (ChannelModel), the simple performance    *)
(* model (IOUnits) and the walk over the pages of a transfer (PrpWalk).    *)
(* They share nothing; each behaviour is one of one of them, while the     *)
(* others stay in their initial state.                                     *)
(*                                                                         *)
(* Geometries: up to 3 channels, 3 luns, 2 pages per flash page, 3 flash   *)
(* pages per one-shot page and 2 one-shot pages per block.                 *)
(***************************************************************************)
EXTENDS LineLayout, IOUnits, PrpWalk, VictimQueue, ChannelModel, TLC

VARIABLE part   \* the part that moves

MCGeometries ==
    [nchs : 1 .. 3, luns_per_ch : 1 .. 3, pgs_per_flashpg : 1 .. 2,
     flashpgs_per_oneshot : 1 .. 3, oneshotpgs_per_blk : 1 .. 2]

\* a plain setting and one with delay and trailing time
MCLatencies == {[delay |-> 0, time |-> 1, trailing |-> 0],
                [delay |-> 1, time |-> 2, trailing |-> 1]}

Interchangeable == Permutations(Lines)

\* the geometry in which the line stays while another structure moves
Resting == [nchs |-> 1, luns_per_ch |-> 1, pgs_per_flashpg |-> 1,
            flashpgs_per_oneshot |-> 1, oneshotpgs_per_blk |-> 1]

MCInit ==
    /\ part \in {"line", "heap", "channel", "units", "prp"}
    /\ InitLine /\ InitHeap /\ InitChannel /\ InitUnits /\ InitPrp
    /\ part # "line" => geo = Resting

MCNext ==
    \/ /\ part = "line" /\ NextLine
       /\ UNCHANGED <<part, heapVars, channelVars, unitVars, prpVars>>
    \/ /\ part = "heap" /\ NextHeap
       /\ UNCHANGED <<part, lineVars, channelVars, unitVars, prpVars>>
    \/ /\ part = "channel" /\ NextChannel
       /\ UNCHANGED <<part, lineVars, heapVars, unitVars, prpVars>>
    \/ /\ part = "units" /\ NextUnits
       /\ UNCHANGED <<part, lineVars, heapVars, channelVars, prpVars>>
    \/ /\ part = "prp" /\ NextPrp
       /\ UNCHANGED <<part, lineVars, heapVars, channelVars, unitVars>>

MCSpec == MCInit /\ [][MCNext]_<<part, lineVars, heapVars, channelVars, unitVars, prpVars>>
=============================================================================
