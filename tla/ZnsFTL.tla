-------------------------------- MODULE ZnsFTL --------------------------------
(***************************************************************************)
(* The zoned-namespace translation layer (zns_ftl.c, zns_read_write.c,     *)
(* zns_mgmt_send.c): the state machine of every zone, the counters of open *)
(* and active zones and of zones with a random write area (ZRWA), and the  *)
(* write buffers, whose space is given back by the I/O workers.            *)
(*                                                                         *)
(* All commands are executed by the dispatcher thread, one at a time; only *)
(* the releases of buffer space interleave with it.  A write that finds    *)
(* its buffer short makes the handler return false: the command stays at   *)
(* the head of its submission queue, as the handler left it, and is tried  *)
(* again while other queues go on.                                         *)
(*                                                                         *)
(* Sizes are in logical blocks (LBA).  Times, die numbers and the payload  *)
(* are left out.                                                           *)
(***************************************************************************)
EXTENDS ZnsParams, FiniteSetsExt

VARIABLES
    zone_descs,     \* the descriptor of every zone
    acquired,       \* res_infos[].acquired_cnt
    remaining,      \* buffer.remaining of every buffer
    pending,        \* scheduled releases of buffer space, by buffer and kind
    head,           \* the write waiting at the head of a queue for its retry
    selected,       \* the loop of a zone management command with select_all
    failed,         \* assertions that failed, accesses out of range
    lost,           \* history: space of a write buffer that nothing will give back
    gained          \* history: space of a write buffer released before it was used

vars == <<zone_descs, acquired, remaining, pending, head, selected, failed, lost, gained>>

Zones == 0 .. NrZones - 1
States == {"EMPTY", "OPENED_IMPL", "OPENED_EXPL", "CLOSED", "READ_ONLY", "FULL", "OFFLINE"}
Opened == {"OPENED_IMPL", "OPENED_EXPL"}
Active == Opened \cup {"CLOSED"}
ResTypes == {"ACTIVE", "OPEN", "ZRWA"}

zone_to_slba(z) == z * ZoneLbas
zone_end(z) == zone_to_slba(z) + ZoneLbas     \* one past the last LBA
lba_to_zone(lba) == lba \div ZoneLbas

(***************************************************************************)
(* Write buffers.                                                          *)
(***************************************************************************)
zone_write_buffer(z) == IF ZoneWb > 0 THEN <<"zone", z>> ELSE <<"ssd", 0>>
zrwa_buffer(z) == <<"zrwa", z>>
Buffers == {zone_write_buffer(z) : z \in Zones} \cup {zrwa_buffer(z) : z \in Zones}

buffer_size(b) ==
    CASE b[1] = "zone" -> ZoneWb
      [] b[1] = "ssd"  -> GlobalWb
      [] b[1] = "zrwa" -> ZrwaBuf

wordline == SecsPerPg * PgsPerOneshot

\* a flash page that was written whole, and the rest of a zone whose size is
\* not a multiple of it
Kinds == {"oneshot", "tail"}
released_size(k) == IF k = "oneshot" THEN wordline ELSE ZoneLbas % wordline

\* mutant: only the pages of this command are counted
oneshots_of_command(p, n) == n \div PgsPerOneshot

\* flash pages whose last page is among the n pages from page p of a zone
oneshots(p, n) == (p + n) \div PgsPerOneshot - p \div PgsPerOneshot

\* what a write up to block `end' of a zone releases and has not used: it ends
\* inside the last page of a flash page, or of the zone.  The next write touches
\* this page again, and the flash page is programmed and released once more
early(end) ==
    LET pg == end \div SecsPerPg
        last == pg = ZoneLbas \div SecsPerPg - 1
    IN  IF end % SecsPerPg = 0 THEN 0
        ELSE IF last /\ ZoneLbas % wordline > 0 THEN ZoneLbas % wordline
        ELSE IF pg % PgsPerOneshot = PgsPerOneshot - 1 THEN wordline
        ELSE 0

\* schedule_internal_operation() for every flash page of a command
scheduled(b, whole, tail) ==
    pending' = [pending EXCEPT ![b] =
                  [oneshot |-> @.oneshot + whole, tail |-> @.tail + tail]]

(***************************************************************************)
(* Zone resources.                                                         *)
(***************************************************************************)
\* every kind of resource is enough for all zones
total_cnt == [t \in ResTypes |-> NrZones]

is_zone_resource_full(t) == acquired[t] = total_cnt[t]

acquire(a, ts) == [t \in ResTypes |-> IF t \in ts THEN a[t] + 1 ELSE a[t]]
release(a, ts) == [t \in ResTypes |-> IF t \in ts THEN a[t] - 1 ELSE a[t]]

NoCmd == [op |-> "none"]
Idle == [zid |-> NrZones]

\* nvme_cmd_write and nvme_cmd_zone_append as the host issues them
Writes == {[op |-> op, slba |-> slba, nr |-> nr] :
             op \in {"write", "append"}, slba \in 0 .. NrZones * ZoneLbas - 1, nr \in 1 .. MaxNr}

Fatal == {"zrwa_buffer_short", "zone_out_of_range", "divided_by_zero"}
Running == failed \cap Fatal = {}
Dispatching == Running /\ selected = Idle

Init ==
    /\ zone_descs = [z \in Zones |-> [state |-> "EMPTY", wp |-> zone_to_slba(z), zrwav |-> 0]]
    /\ acquired = [t \in ResTypes |-> 0]
    /\ remaining = [b \in Buffers |-> buffer_size(b)]
    /\ pending = [b \in Buffers |-> [oneshot |-> 0, tail |-> 0]]
    /\ head = [sq \in SQs |-> NoCmd]
    /\ selected = Idle
    /\ failed = {}
    /\ lost = [b \in Buffers |-> 0]
    /\ gained = [b \in Buffers |-> 0]

(***************************************************************************)
(* Writing.                                                                *)
(***************************************************************************)
check_boundary(slba, nr) == lba_to_zone(slba) = lba_to_zone(slba + nr - 1)

\* the resources a zone that is about to be written still has to get
to_acquire(z) ==
    CASE zone_descs[z].state = "EMPTY"  -> {"ACTIVE", "OPEN"}
      [] zone_descs[z].state = "CLOSED" -> {"OPEN"}
      [] OTHER -> {}

write_accepted(z, slba, nr) ==
    /\ nr % WriteUnit = 0
    /\ check_boundary(slba, nr)
    /\ slba = zone_descs[z].wp
    /\ zone_descs[z].state = "EMPTY" => slba = zone_to_slba(z)
    /\ \A t \in to_acquire(z) : ~ is_zone_resource_full(t)
    /\ zone_descs[z].state \in Active \cup {"EMPTY"}

\* mutant: the end of the zone is missed
zone_is_filled_late(z, wp) == wp > zone_end(z)

zone_is_filled(z, wp) == wp = zone_end(z)

\* the zone is opened for the write, if it was not open, and its write pointer
\* moved by nr blocks; a is what the counters are once it is open
increase_write_ptr(z, a, nr) ==
    LET wp == zone_descs[z].wp + nr
        full == zone_is_filled(z, wp)
        st == IF full THEN "FULL"
              ELSE IF zone_descs[z].state \in Opened THEN zone_descs[z].state
              ELSE "OPENED_IMPL"
    IN  /\ zone_descs' = [zone_descs EXCEPT ![z].wp = wp, ![z].state = st]
        /\ acquired' = IF full THEN release(a, {"OPEN", "ACTIVE"}) ELSE a
        /\ failed' = IF full /\ zone_descs[z].zrwav = 1
                     THEN failed \cup {"zrwa_zone_full"} ELSE failed

write_buffer_short(sq, cmd, slba, b) ==
    /\ remaining[b] < cmd.nr
    /\ head' = [head EXCEPT ![sq] = [cmd EXCEPT !.slba = slba]]
    /\ UNCHANGED <<zone_descs, acquired, remaining, pending, failed, lost, gained>>

\* the space was allocated before the command was looked at
write_refused(sq, cmd, z, slba, b) ==
    /\ remaining[b] >= cmd.nr
    /\ ~ write_accepted(z, slba, cmd.nr)
    /\ remaining' = [remaining EXCEPT ![b] = @ - cmd.nr]
    /\ lost' = [lost EXCEPT ![b] = @ + cmd.nr]
    /\ head' = [head EXCEPT ![sq] = NoCmd]
    /\ UNCHANGED <<zone_descs, acquired, pending, failed, gained>>

\* a call of schedule_internal_operation() that finds no free work-queue entry does
\* nothing: then only w of the flash pages are scheduled, and the others' space is lost
write_done(sq, cmd, z, slba, b) ==
    LET p == (slba - zone_to_slba(z)) \div SecsPerPg
        e == (slba + cmd.nr - 1 - zone_to_slba(z)) \div SecsPerPg
        whole == oneshots(p, e - p + 1)
        at_end == e = (ZoneLbas - 1) \div SecsPerPg /\ ZoneLbas % wordline > 0
        tail == IF at_end THEN 1 ELSE 0
        gain == early(slba + cmd.nr - zone_to_slba(z))
    IN  /\ remaining[b] >= cmd.nr
        /\ write_accepted(z, slba, cmd.nr)
        /\ gained[b] + gain <= MaxGain
        /\ increase_write_ptr(z, acquire(acquired, to_acquire(z)), cmd.nr)
        /\ remaining' = [remaining EXCEPT ![b] = @ - cmd.nr]
        /\ \E w \in 0 .. whole, t \in 0 .. tail :
             /\ scheduled(b, w, t)
             /\ lost' = [lost EXCEPT ![b] = @ + (whole - w) * wordline
                                             + (tail - t) * (ZoneLbas % wordline)]
        /\ gained' = [gained EXCEPT ![b] = @ + gain]
        /\ head' = [head EXCEPT ![sq] = NoCmd]

zns_write_plain(sq, cmd, z) ==
    LET slba == IF cmd.op = "append" THEN zone_descs[z].wp ELSE cmd.slba
        b == zone_write_buffer(z)
    IN  \/ write_buffer_short(sq, cmd, slba, b)
        \/ write_refused(sq, cmd, z, slba, b)
        \/ write_done(sq, cmd, z, slba, b)

(***************************************************************************)
(* Writing to a zone that was opened with a random write area: the blocks  *)
(* from the write pointer wp to wp + Zrwa - 1 can be overwritten, those up *)
(* to wp + 2 * Zrwa - 1 move the area.                                     *)
(***************************************************************************)
zrwa_accepted(z, slba, nr) ==
    /\ nr % WriteUnit = 0
    /\ check_boundary(slba, nr)
    /\ slba >= zone_descs[z].wp
    /\ \/ slba + nr - 1 <= zone_descs[z].wp + 2 * Zrwa - 1
       \/ zone_descs[z].wp + 2 * Zrwa = 0     \* 0 - 1 is the largest uint64_t
    /\ \/ zone_descs[z].state \in Opened
       \/ zone_descs[z].state \in {"EMPTY", "CLOSED"} /\ ~ is_zone_resource_full("OPEN")

\* nr_lbas_flush for a write that ends at elba
implicit_flush(z, elba) ==
    LET start == zone_descs[z].wp + Zrwa
    IN  IF elba >= start THEN ((elba - start + Zrwafg) \div Zrwafg) * Zrwafg
        ELSE IF elba = zone_end(z) - 1 THEN elba - zone_descs[z].wp + 1
        ELSE 0

zrwa_refused(sq, cmd, z) ==
    /\ ~ zrwa_accepted(z, cmd.slba, cmd.nr)
    /\ head' = [head EXCEPT ![sq] = NoCmd]
    /\ UNCHANGED <<zone_descs, acquired, remaining, pending, failed, lost, gained>>

\* without a random write area the flush granularity is 0 as well
zrwa_divides_by_zero(cmd, z) ==
    /\ zrwa_accepted(z, cmd.slba, cmd.nr)
    /\ Zrwafg = 0
    /\ failed' = failed \cup {"divided_by_zero"}
    /\ UNCHANGED <<zone_descs, acquired, remaining, pending, head, lost, gained>>

zrwa_done(sq, cmd, z) ==
    LET b == zrwa_buffer(z)
        reopen == zone_descs[z].state \notin Opened
        space == remaining[b] - (IF reopen THEN Zrwa ELSE 0)
        a == IF reopen THEN acquire(acquired, {"OPEN"}) ELSE acquired
        flush == implicit_flush(z, cmd.slba + cmd.nr - 1)
        p == (zone_descs[z].wp - zone_to_slba(z)) \div SecsPerPg
    IN  /\ zrwa_accepted(z, cmd.slba, cmd.nr)
        /\ Zrwafg > 0
        /\ UNCHANGED <<lost, gained>>
        /\ \/ /\ reopen /\ space < 0
              /\ failed' = failed \cup {"zrwa_buffer_short"}
              /\ acquired' = a
              /\ UNCHANGED <<zone_descs, remaining, pending, head>>
           \/ /\ space >= 0 /\ space < flush
              /\ remaining' = [remaining EXCEPT ![b] = space]
              /\ acquired' = a
              /\ zone_descs' = [zone_descs EXCEPT ![z].state = IF reopen THEN "OPENED_IMPL" ELSE @]
              /\ head' = [head EXCEPT ![sq] = cmd]
              /\ UNCHANGED <<pending, failed>>
           \/ /\ space >= flush /\ space >= 0
              /\ pending[b].oneshot + oneshots(p, flush \div SecsPerPg) <= MaxPending
              /\ remaining' = [remaining EXCEPT ![b] = space - flush]
              /\ increase_write_ptr(z, a, flush)
              /\ \E w \in 0 .. oneshots(p, flush \div SecsPerPg) : scheduled(b, w, 0)
              /\ head' = [head EXCEPT ![sq] = NoCmd]

\* nvme_cmd_write and nvme_cmd_zone_append: a new command, or the one waiting
zns_write(sq) ==
    /\ Dispatching
    /\ \E cmd \in IF head[sq] = NoCmd THEN Writes ELSE {head[sq]} :
         LET z == lba_to_zone(cmd.slba)
         IN  \/ /\ z \notin Zones
                /\ failed' = failed \cup {"zone_out_of_range"}
                /\ UNCHANGED <<zone_descs, acquired, remaining, pending, head, lost, gained>>
             \/ /\ z \in Zones /\ zone_descs[z].zrwav = 0
                /\ zns_write_plain(sq, cmd, z)
             \/ /\ z \in Zones /\ zone_descs[z].zrwav = 1
                /\ \/ zrwa_refused(sq, cmd, z)
                   \/ zrwa_divides_by_zero(cmd, z)
                   \/ zrwa_done(sq, cmd, z)
    /\ UNCHANGED selected

(***************************************************************************)
(* Zone management send.  A request the state of the zone does not allow   *)
(* changes nothing.                                                        *)
(***************************************************************************)
change_zone_state(z, st) == zone_descs' = [zone_descs EXCEPT ![z].state = st]

\* mutant: the open resource is kept
close_zone_keeps_open(z) ==
    /\ IF zone_descs[z].state \in Opened THEN change_zone_state(z, "CLOSED")
       ELSE UNCHANGED zone_descs
    /\ UNCHANGED <<acquired, remaining, failed, lost>>

close_zone(z) ==
    /\ IF zone_descs[z].state \in Opened
       THEN /\ change_zone_state(z, "CLOSED")
            /\ acquired' = release(acquired, {"OPEN"})
       ELSE UNCHANGED <<zone_descs, acquired>>
    /\ UNCHANGED <<remaining, failed, lost>>

\* what a zone that becomes full or empty gives back
held_resources(z) ==
    CASE zone_descs[z].state \in Opened   -> {"OPEN", "ACTIVE"}
      [] zone_descs[z].state = "CLOSED" -> {"ACTIVE"}
      [] OTHER -> {}

held_zrwa(z) ==
    IF zone_descs[z].state \in Active /\ zone_descs[z].zrwav = 1 THEN {"ZRWA"} ELSE {}

finish_zone(z) ==
    /\ IF zone_descs[z].state \in Active \cup {"EMPTY"}
       THEN /\ change_zone_state(z, "FULL")
            /\ acquired' = release(acquired, held_resources(z) \cup held_zrwa(z))
       ELSE UNCHANGED <<zone_descs, acquired>>
    /\ UNCHANGED <<remaining, failed, lost>>

\* the checks, in their order, all come before the first assignment but the
\* one of a closed zone, which has nothing to undo
open_allowed(z, zrwa) ==
    /\ zone_descs[z].state \in Active \cup {"EMPTY"}
    /\ \A t \in to_acquire(z) : ~ is_zone_resource_full(t)
    /\ zone_descs[z].state = "EMPTY" /\ zrwa => ~ is_zone_resource_full("ZRWA")

open_zone(z, zrwa) ==
    LET new == zone_descs[z].state = "EMPTY" /\ zrwa
    IN  /\ IF open_allowed(z, zrwa)
           THEN /\ zone_descs' = [zone_descs EXCEPT ![z].state = "OPENED_EXPL",
                                                   ![z].zrwav = IF new THEN 1 ELSE @]
                /\ acquired' = acquire(acquired, to_acquire(z) \cup (IF new THEN {"ZRWA"} ELSE {}))
           ELSE UNCHANGED <<zone_descs, acquired>>
        /\ UNCHANGED <<remaining, failed, lost>>

\* blocks of a flash page that is not complete yet: their space in the write
\* buffer is released with the rest of the flash page
unprogrammed(z) ==
    IF zone_descs[z].zrwav = 1 \/ zone_descs[z].wp = zone_end(z) THEN 0
    ELSE (zone_descs[z].wp - zone_to_slba(z)) % wordline

reset_zone(z) ==
    /\ IF zone_descs[z].state \in Active \cup {"EMPTY", "FULL"}
       THEN /\ zone_descs' = [zone_descs EXCEPT ![z] =
                                [state |-> "EMPTY", wp |-> zone_to_slba(z), zrwav |-> 0]]
            /\ acquired' = release(acquired, held_resources(z) \cup held_zrwa(z))
            /\ remaining' = IF ZrwaBuf > 0 THEN [remaining EXCEPT ![zrwa_buffer(z)] = ZrwaBuf]
                            ELSE remaining
            /\ lost' = [lost EXCEPT ![zone_write_buffer(z)] = @ + unprogrammed(z)]
       ELSE UNCHANGED <<zone_descs, acquired, remaining, lost>>
    /\ UNCHANGED failed

offline_zone(z) ==
    /\ IF zone_descs[z].state = "READ_ONLY" THEN change_zone_state(z, "OFFLINE")
       ELSE UNCHANGED zone_descs
    /\ UNCHANGED <<acquired, remaining, failed, lost>>

\* mutant: the lower end of the random write area is not checked
in_zrwa_behind(z, slba) == slba < zone_descs[z].wp + Zrwa /\ slba < zone_end(z)

\* slba lies between zrwa_start and zrwa_end
in_zrwa(z, slba) ==
    /\ slba >= zone_descs[z].wp
    /\ slba < zone_descs[z].wp + Zrwa \/ zone_descs[z].wp + Zrwa = 0     \* 0 - 1, as above
    /\ slba < zone_end(z)

flush_allowed(z, slba) ==
    /\ (slba - zone_descs[z].wp + 1) % Zrwafg = 0
    /\ zone_descs[z].state \in Active

flushed(z, slba) ==
    LET full == slba + 1 = zone_end(z)
    IN  /\ zone_descs' = [zone_descs EXCEPT ![z].wp = slba + 1,
                                            ![z].state = IF full THEN "FULL" ELSE @]
        /\ acquired' = IF full THEN release(acquired, held_resources(z) \cup {"ZRWA"})
                       ELSE acquired

flush_explicit_zrwa(z, slba) ==
    LET inside == zone_descs[z].zrwav = 1 /\ in_zrwa(z, slba)
        by_zero == inside /\ Zrwafg = 0
    IN  /\ failed' = IF by_zero THEN failed \cup {"divided_by_zero"} ELSE failed
        /\ IF inside /\ ~ by_zero /\ flush_allowed(z, slba) THEN flushed(z, slba)
           ELSE UNCHANGED <<zone_descs, acquired>>
        /\ UNCHANGED <<remaining, lost>>

zmgmt_send(action, slba) ==
    LET z == lba_to_zone(slba)
    IN  \/ action = "close"     /\ close_zone(z)
        \/ action = "finish"    /\ finish_zone(z)
        \/ action = "open"      /\ open_zone(z, FALSE)
        \/ action = "open_zrwa" /\ open_zone(z, TRUE)
        \/ action = "reset"     /\ reset_zone(z)
        \/ action = "offline"   /\ offline_zone(z)
        \/ action = "flush"     /\ flush_explicit_zrwa(z, slba)

zns_zmgmt_send ==
    /\ Dispatching
    /\ \E action \in Sends, slba \in 0 .. NrZones * ZoneLbas - 1 : zmgmt_send(action, slba)
    /\ UNCHANGED <<pending, head, selected, gained>>

\* select_all: the loop over the zones, during which the dispatcher does
\* nothing else
select_from(zid, action) ==
    /\ zmgmt_send(action, zone_to_slba(zid))
    /\ selected' = IF zid + 1 = NrZones THEN Idle ELSE [zid |-> zid + 1, action |-> action]
    /\ UNCHANGED <<pending, head, gained>>

select_all ==
    /\ Dispatching
    /\ \E action \in AllSends : select_from(0, action)

select_next ==
    /\ Running /\ selected # Idle
    /\ select_from(selected.zid, selected.action)

\* an I/O worker reaches the time of an internal operation: buffer_release()
buffer_release(b, k) ==
    /\ Running
    /\ pending[b][k] > 0
    /\ pending' = [pending EXCEPT ![b][k] = @ - 1]
    /\ remaining' = [remaining EXCEPT ![b] = @ + released_size(k)]
    /\ UNCHANGED <<zone_descs, acquired, head, selected, failed, lost, gained>>

Next ==
    \/ \E sq \in SQs : zns_write(sq)
    \/ zns_zmgmt_send
    \/ select_all
    \/ select_next
    \/ \E b \in Buffers, k \in Kinds : buffer_release(b, k)

Spec == Init /\ [][Next]_vars

(***************************************************************************)
(* Properties.                                                             *)
(***************************************************************************)
\* counters and buffer space never go below 0, the write pointer stays on the device
TypeOK ==
    /\ zone_descs \in [Zones -> [state : States, wp : 0 .. NrZones * ZoneLbas, zrwav : {0, 1}]]
    /\ acquired \in [ResTypes -> 0 .. NrZones]
    /\ remaining \in [Buffers -> Nat]
    /\ pending \in [Buffers -> [Kinds -> Nat]]
    /\ lost \in [Buffers -> Nat] /\ gained \in [Buffers -> Nat]
    /\ \A sq \in SQs : head[sq] = NoCmd \/
           head[sq] \in [op : {"write", "append"}, slba : 0 .. NrZones * ZoneLbas,
                        nr : 1 .. MaxNr]
    /\ selected = Idle \/ selected \in [zid : Zones, action : Sends]

ZonesIn(S) == {z \in Zones : zone_descs[z].state \in S}

\* the counter of random write areas is the number of active zones that have
\* one, until such a zone is filled by writing to it, which never gives the
\* resource back (the assertion __increase_write_ptr() has for this case is empty)
ZrwaExact ==
    LET with_zrwa == Cardinality({z \in ZonesIn(Active) : zone_descs[z].zrwav = 1})
    IN  IF "zrwa_zone_full" \in failed THEN acquired["ZRWA"] >= with_zrwa
        ELSE acquired["ZRWA"] = with_zrwa

\* res_infos: the counters of open and of active zones and of random write
\* areas are the numbers of zones in these states, on every path through the
\* fall-throughs of the switch statements; no release ever meets a counter that
\* is 0.  Only the random write areas of zones filled by writing stay counted
OpenActiveExact ==
    /\ Running => /\ acquired["OPEN"] = Cardinality(ZonesIn(Opened))
                  /\ acquired["ACTIVE"] = Cardinality(ZonesIn(Active))
    /\ ZrwaExact

\* implicit and explicit flushes leave the write pointer of a zone with a
\* random write area on a flush granule, or at the end of the zone
ZrwaAligned == \A z \in Zones :
    zone_descs[z].zrwav = 1 /\ Zrwafg > 0 =>
        \/ (zone_descs[z].wp - zone_to_slba(z)) % Zrwafg = 0
        \/ zone_descs[z].wp = zone_end(z)

\* the write pointer of a zone and its state agree: it stays in the zone, an
\* empty zone is written from its start and never has a random write area,
\* a zone written to its end is full, and in a random write area it lies on a
\* flush granule
ZoneShape == \A z \in Zones :
    LET d == zone_descs[z]
    IN  /\ TypeOK /\ ZrwaAligned
        /\ zone_to_slba(z) <= d.wp /\ d.wp <= zone_end(z)
        /\ d.state = "EMPTY" => d.wp = zone_to_slba(z) /\ d.zrwav = 0
        /\ d.wp = zone_end(z) => d.state = "FULL"

\* the blocks in buffer b that wait for the rest of their flash page
open_page(z) == (zone_descs[z].wp - unprogrammed(z)) .. (zone_descs[z].wp - 1)
waiting(b) == UNION {open_page(z) : z \in {y \in Zones : zone_write_buffer(y) = b}}

InFlight(b) == pending[b].oneshot * wordline + pending[b].tail * (ZoneLbas % wordline)

\* every block of a write buffer is free, on its way back, part of a flash page
\* that is not complete, or lost: by a refused write, by a reset or for want of a
\* work-queue entry; and nothing is released twice but the last page of a flash
\* page that a write leaves half written.  Also when all zones share one buffer
BufferBalance == \A b \in {zone_write_buffer(z) : z \in Zones} :
    remaining[b] + InFlight(b) + lost[b] + Cardinality(waiting(b)) = buffer_size(b) + gained[b]

\* the write pointer never moves back and a full zone stays full, but by a
\* reset, which leaves an empty zone
ZoneStepAllowed == \A z \in Zones :
    \/ zone_descs'[z].wp < zone_descs[z].wp
    \/ zone_descs[z].state = "FULL" /\ zone_descs'[z].state # "FULL"
    => zone_descs'[z] = [state |-> "EMPTY", wp |-> zone_to_slba(z), zrwav |-> 0]
ZoneLifecycle == [][ZoneStepAllowed]_vars
=============================================================================
