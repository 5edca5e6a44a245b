----------------------------- MODULE ZnsParams -----------------------------
(* The parameters of a zoned namespace (zns_init_params), in logical blocks, *)
(* and the bounds of the model.                                              *)
EXTENDS Integers

CONSTANTS
    NrZones,        \* zp.nr_zones
    ZoneLbas,       \* zone_size and zone_capacity
    SecsPerPg,      \* sp.secs_per_pg
    PgsPerOneshot,  \* sp.pgs_per_oneshotpg
    WriteUnit,      \* sp.write_unit_size
    ZoneWb,         \* zp.zone_wb_size: one buffer per zone, or 0
    GlobalWb,       \* size of ssd->write_buffer, used when ZoneWb = 0
    Zrwa,           \* zp.lbas_per_zrwa
    Zrwafg,         \* zp.lbas_per_zrwafg
    ZrwaBuf,        \* zp.zrwa_buffer_size
    MaxNr,          \* largest transfer the host may ask for (MDTS)
    MaxPending,     \* bound: programs in flight for one ZRWA buffer
    MaxGain,        \* bound: space a buffer is given too much
    SQs,            \* submission queues
    AllSends        \* the management actions sent with select_all

Sends == {"close", "finish", "open", "open_zrwa", "reset", "offline", "flush"}

ASSUME ZnsAssumption ==
    /\ AllSends \subseteq Sends
    /\ NrZones \in Nat \ {0} /\ ZoneLbas \in Nat \ {0}
    /\ SecsPerPg \in Nat \ {0} /\ PgsPerOneshot \in Nat \ {0}
    /\ WriteUnit \in Nat \ {0} /\ MaxNr \in Nat \ {0}
    /\ ZoneWb \in Nat /\ GlobalWb \in Nat
    /\ Zrwa \in Nat /\ Zrwafg \in Nat /\ ZrwaBuf \in Nat
    /\ MaxPending \in Nat /\ MaxGain \in Nat
    /\ ZoneLbas % SecsPerPg = 0     \* asserted by zns_init_params()
=============================================================================
