------------------------------ MODULE MCZnsFTL ------------------------------
(***************************************************************************)
(* ZnsFTL in three configurations; each behaviour is one of one of them.   *)
(* The constants of the cfg describe a device with random write areas and  *)
(* one write buffer for all zones.  The two others are like WD_ZN540 of    *)
(* ssd_config.h, with a write buffer per zone and no random write area:    *)
(* one has a zone of a flash page and a half, written in units smaller     *)
(* than a page, the other has two zones.                                   *)
(***************************************************************************)
EXTENDS ZnsFTL

VARIABLES
    config,     \* the configuration that moves
    zone_descs2, acquired2, remaining2, pending2, head2, selected2, failed2, lost2,
    gained2

vars2 == <<zone_descs2, acquired2, remaining2, pending2, head2, selected2, failed2,
           lost2, gained2>>

SmallWrites == INSTANCE ZnsFTL WITH
    NrZones <- 1, ZoneLbas <- 6, SecsPerPg <- 2, MaxNr <- 3, MaxGain <- 6,
    ZoneWb <- 4, GlobalWb <- 0, Zrwa <- 0, Zrwafg <- 0, ZrwaBuf <- 0,
    zone_descs <- zone_descs2, acquired <- acquired2, remaining <- remaining2,
    pending <- pending2, head <- head2, selected <- selected2, failed <- failed2,
    lost <- lost2, gained <- gained2

TwoZones == INSTANCE ZnsFTL WITH
    NrZones <- 2, ZoneLbas <- 3, MaxNr <- 2, AllSends <- {"reset", "finish", "open_zrwa"},
    ZoneWb <- 2, GlobalWb <- 0, Zrwa <- 0, Zrwafg <- 0, ZrwaBuf <- 0,
    zone_descs <- zone_descs2, acquired <- acquired2, remaining <- remaining2,
    pending <- pending2, head <- head2, selected <- selected2, failed <- failed2,
    lost <- lost2, gained <- gained2

MCInit ==
    /\ config \in {"zrwa", "small_writes", "two_zones"}
    /\ Init
    /\ IF config = "two_zones" THEN TwoZones!Init ELSE SmallWrites!Init

MCNext ==
    \/ config = "zrwa" /\ Next /\ UNCHANGED <<config, vars2>>
    \/ config = "small_writes" /\ SmallWrites!Next /\ UNCHANGED <<config, vars>>
    \/ config = "two_zones" /\ TwoZones!Next /\ UNCHANGED <<config, vars>>

MCSpec == MCInit /\ [][MCNext]_<<config, vars, vars2>>

\* no block of buffer space is unaccounted for in any configuration, and with two
\* zones the zones and the counters of their resources are right, too
ZonesBalance ==
    /\ BufferBalance
    /\ config = "small_writes" => SmallWrites!BufferBalance
    /\ config = "two_zones" =>
         TwoZones!BufferBalance /\ TwoZones!OpenActiveExact /\ TwoZones!ZoneShape
=============================================================================
