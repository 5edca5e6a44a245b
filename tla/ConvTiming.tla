----------------------------- MODULE ConvTiming -----------------------------
(***************************************************************************)
(* When commands of the conventional FTL finish (conv_read, conv_write and *)
(* conv_flush in conv_ftl.c, ssd.c): the busy times of the dies and the    *)
(* write buffer, which the partitions share and the I/O workers give back  *)
(* when a flash page has been programmed.                                  *)
(*                                                                         *)
(* Times are whole slots relative to the present: 0 is now, -1 the slot    *)
(* before.  The dispatcher handles one command at a time; a step is one    *)
(* page or one NAND operation, and time may pass between steps: stime is   *)
(* then in the past.  A transfer over a channel or PCIe takes any time up  *)
(* to MaxDelay (ChannelModel says how much).  Where pages are stored is    *)
(* the subject of ConvFTL: a write fills the open wordline of each         *)
(* partition, a read meets any placement.                                  *)
(***************************************************************************)
EXTENDS Integers, FiniteSetsExt, Functions, Bags

CONSTANTS
    NrParts,        \* SSD_PARTITIONS
    LunsPerPart,    \* dies of a partition
    SecsPerPg,      \* sp.secs_per_pg
    PgsPerOneshot,  \* sp.pgs_per_oneshotpg
    PgsPerFlashpg,  \* sp.pgs_per_flashpg
    BufSize,        \* sp.write_buffer_size, in sectors
    MaxNr,          \* bound: sectors of a write
    MaxRead,        \* bound: pages of a read
    RdLat, WrLat, ErLat,   \* latencies of the NAND operations
    MaxDelay,       \* bound: time of a transfer
    MaxAhead,       \* bound: work is accepted while no die is busy for longer
    MaxLate,        \* bound: slots that pass while a command is handled
    MaxGained,      \* bound: buffer space gained by writes of part of a page
    MaxLost         \* bound: buffer space lost for want of a work queue entry

ASSUME TimingAssumption ==
    /\ NrParts \in Nat \ {0} /\ LunsPerPart \in Nat \ {0}
    /\ SecsPerPg \in Nat \ {0} /\ PgsPerOneshot \in Nat \ {0}
    /\ RdLat \in Nat /\ WrLat \in Nat /\ ErLat \in Nat
    /\ BufSize \in Nat /\ MaxNr \in Nat \ {0} /\ MaxRead \in Nat \ {0}
    /\ MaxDelay \in Nat /\ MaxAhead \in Nat /\ MaxLate \in Nat /\ MaxGained \in Nat
    /\ MaxLost \in Nat

VARIABLES
    next_lun_avail_time,
    remaining,      \* write_buffer->remaining
    releases,       \* bag of the internal operations [time, of]: of is "this"
                    \* command, one before the last "flush" or any "other"
    open_pgs,       \* pages in the wordline each partition is filling
    wp_lun,         \* its die
    cmd,            \* the command the dispatcher handles
    flushed,        \* target time of the last flush
    gained,         \* history: space given back that was never allocated
    lost,           \* history: space that no worker will give back
    rd,             \* the loops of a read
    owed,           \* history: pages of the read found in each flash page and
                    \* not transferred yet
    unseen          \* history: pages of the read not looked up yet

readVars == <<rd, owed, unseen>>
vars == <<next_lun_avail_time, remaining, releases, open_pgs, wp_lun,
          cmd, flushed, gained, lost, readVars>>

Parts == 0 .. NrParts - 1
Luns == Parts \X (0 .. LunsPerPart - 1)
NoCmd == [op |-> "none"]
FlashPgs == 0 .. LunsPerPart     \* of a partition; one die has two of them
AllFlashPgs == Parts \X FlashPgs
NoPages == [f \in AllFlashPgs |-> 0]
UNMAPPED == -1
later(a, b) == Max({a, b})

Init ==
    /\ next_lun_avail_time = [l \in Luns |-> - MaxLate]
    /\ remaining = BufSize
    /\ releases = EmptyBag
    /\ open_pgs = [p \in Parts |-> 0]
    /\ wp_lun = [p \in Parts |-> 0]
    /\ cmd = NoCmd
    /\ flushed = 0
    /\ gained = 0
    /\ lost = 0
    /\ rd = NoCmd
    /\ owed = NoPages
    /\ unseen = {}

\* bound: the dispatcher is free and no die is planned too far ahead
Accepting == cmd = NoCmd /\ \A l \in Luns : next_lun_avail_time[l] <= MaxAhead

(***************************************************************************)
(* ssd_advance_nand(), by operation: the times at which one that is asked  *)
(* for stime may end.                                                      *)
(***************************************************************************)
\* chmodel_request(): a request for the past is answered with its own time
xfer_ends(start) == IF start < 0 THEN {start} ELSE start .. start + MaxDelay

nand_stime(lun, stime) == later(next_lun_avail_time[lun], stime)

\* the cell read, then the pieces of at most max_ch_xfer_size
NAND_READ(lun, stime) == xfer_ends(nand_stime(lun, stime) + RdLat)

\* the transfer, then the program operation
NAND_WRITE(lun, stime) == {e + WrLat : e \in xfer_ends(nand_stime(lun, stime))}

NAND_ERASE(lun, stime) == {nand_stime(lun, stime) + ErLat}

NAND_NOP(lun, stime) == {nand_stime(lun, stime)}

busy_until(lun, time) ==
    next_lun_avail_time' = [next_lun_avail_time EXCEPT ![lun] = time]

(***************************************************************************)
(* conv_write().                                                           *)
(***************************************************************************)
Writes == {[op |-> "write", lba |-> lba, nr |-> nr] :
             lba \in 0 .. NrParts * SecsPerPg - 1, nr \in 1 .. MaxNr}

start_lpn(w) == w.lba \div SecsPerPg
end_lpn(w) == (w.lba + w.nr - 1) \div SecsPerPg
pages(w) == end_lpn(w) - start_lpn(w) + 1

\* sectors of the pages a write touches beyond those it writes
partial(w) == pages(w) * SecsPerPg - w.nr

\* buffer_allocate(): all of it or nothing
buffer_allocate(w) == remaining >= w.nr

\* a write of the host.  One that finds too little space stays in its queue, and
\* the dispatcher goes on with the other queues: nothing has changed
conv_write(w) ==
    /\ Accepting
    /\ gained + partial(w) <= MaxGained
    /\ buffer_allocate(w)
    /\ remaining' = remaining - w.nr
    /\ gained' = gained + partial(w)
    /\ \E e \in xfer_ends(0) :
         cmd' = [op |-> "write", stime |-> e, latest |-> e, late |-> 0,
                 lpn |-> start_lpn(w) % NrParts, left |-> pages(w), gc |-> FALSE]
    /\ UNCHANGED <<next_lun_avail_time, releases, open_pgs, wp_lun, flushed, lost, readVars>>

\* mutant: the wordline is complete one page later
last_pg_in_wordline_late(part) == open_pgs[part] = PgsPerOneshot

last_pg_in_wordline(part) == open_pgs[part] + 1 = PgsPerOneshot

\* schedule_internal_operation(): a worker will give the space back, or nobody
\* if the work queue has no free entry
schedule_release(time) ==
    \/ /\ releases' = releases (+) SetToBag({[time |-> later(time, 0), of |-> "this"]})
       /\ UNCHANGED lost
    \/ /\ lost + PgsPerOneshot * SecsPerPg <= MaxLost
       /\ lost' = lost + PgsPerOneshot * SecsPerPg
       /\ UNCHANGED releases

latest_of(a, b) == later(a, b)

\* one page of the loop in conv_write()
write_page ==
    LET part == cmd.lpn
        lun == <<part, wp_lun[part]>>
        next == [cmd EXCEPT !.lpn = (@ + 1) % NrParts, !.left = @ - 1, !.gc = TRUE]
    IN  /\ cmd.op = "write" /\ cmd.left > 0
        /\ \/ /\ last_pg_in_wordline(part)
              /\ \E time \in NAND_WRITE(lun, cmd.stime) :
                   /\ busy_until(lun, time)
                   /\ schedule_release(time)
                   /\ cmd' = [next EXCEPT !.latest = latest_of(@, time)]
              /\ open_pgs' = [open_pgs EXCEPT ![part] = 0]
              /\ wp_lun' = [wp_lun EXCEPT ![part] = (@ + 1) % LunsPerPart]
           \/ /\ ~last_pg_in_wordline(part)
              /\ cmd' = next
              /\ open_pgs' = [open_pgs EXCEPT ![part] = @ + 1]
              /\ UNCHANGED <<next_lun_avail_time, releases, wp_lun, lost>>
        /\ UNCHANGED <<remaining, flushed, gained, readVars>>

\* an operation of the garbage collection that a page may trigger, asked for
\* the present; nobody waits for it
gc_nand(lun) ==
    /\ cmd.op = "write" /\ cmd.gc
    /\ next_lun_avail_time[lun] <= MaxAhead
    /\ \E time \in NAND_READ(lun, 0) \cup NAND_WRITE(lun, 0)
                     \cup NAND_ERASE(lun, 0) \cup NAND_NOP(lun, 0) : busy_until(lun, time)
    /\ UNCHANGED <<remaining, releases, open_pgs, wp_lun, cmd, flushed, gained, lost, readVars>>

\* the operations that were of one kind are of another
reassigned(old, new) == BagOfAll(LAMBDA r : IF r.of \in old THEN [r EXCEPT !.of = new] ELSE r, releases)

write_done ==
    /\ cmd.op = "write" /\ cmd.left = 0
    /\ cmd' = NoCmd
    /\ releases' = reassigned({"this"}, "other")
    /\ UNCHANGED <<next_lun_avail_time, remaining, open_pgs, wp_lun, flushed, gained, lost,
                   readVars>>

\* a worker reaches the time of an internal operation
buffer_release ==
    \E r \in BagToSet(releases) :
        /\ r.time = 0
        /\ releases' = releases (-) SetToBag({r})
        /\ remaining' = remaining + PgsPerOneshot * SecsPerPg
        /\ UNCHANGED <<next_lun_avail_time, open_pgs, wp_lun, cmd, flushed, gained, lost, readVars>>

(***************************************************************************)
(* conv_read(): for each partition, the pages of a command are collected   *)
(* as long as they lie in one flash page, which is then read.  Where a     *)
(* page is stored is chosen when it is looked up.                          *)
(***************************************************************************)
lun_of(part, f) == <<part, f % LunsPerPart>>

\* a read of n pages, the first of which belongs to any partition
conv_read(first, n) ==
    /\ Accepting
    /\ cmd' = [op |-> "read", stime |-> 0, latest |-> 0, late |-> 0]
    /\ rd' = [first |-> first, last |-> first + n - 1, start |-> first, lpn |-> first,
              prev |-> UNMAPPED, xfer |-> 0]
    /\ owed' = NoPages
    /\ unseen' = first .. first + n - 1
    /\ UNCHANGED <<next_lun_avail_time, remaining, releases, open_pgs, wp_lun,
                   flushed, gained, lost>>

\* the loop over the partitions goes on
more_parts == rd.start < rd.first + NrParts /\ rd.start <= rd.last

\* the loop over the pages of a partition goes on
more_pages == more_parts /\ rd.lpn <= rd.last

cur_part == rd.start % NrParts

\* what was collected is read; found are the pages of each flash page
read_flashpg(found) ==
    \/ /\ rd.xfer = 0
       /\ owed' = found
       /\ UNCHANGED <<next_lun_avail_time, cmd>>
    \/ /\ rd.xfer > 0
       /\ LET lun == lun_of(cur_part, rd.prev) IN
          \E nand \in NAND_READ(lun, cmd.stime) : \E pcie \in xfer_ends(nand) :
             /\ busy_until(lun, nand)
             /\ cmd' = [cmd EXCEPT !.latest = latest_of(@, pcie)]
       /\ owed' = [found EXCEPT ![<<cur_part, rd.prev>>] = @ - rd.xfer]

\* the loop goes on with the next page of the partition
next_page(prev, xfer) ==
    rd' = [first |-> rd.first, last |-> rd.last, start |-> rd.start, lpn |-> rd.lpn + NrParts,
           prev |-> prev, xfer |-> xfer]

\* mutant: an unmapped page ends what was collected
skip_page_forgets(prev) == next_page(UNMAPPED, rd.xfer)

\* a page that is not mapped
skip_page(prev) == next_page(prev, rd.xfer)

\* one page of the loop.  The first page of a partition is its own prev_ppa; a
\* flash page has room for PgsPerFlashpg pages that follow each other
read_page ==
    /\ cmd.op = "read" /\ more_pages
    /\ unseen' = unseen \ {rd.lpn}
    /\ \/ /\ skip_page(IF rd.lpn = rd.start THEN UNMAPPED ELSE rd.prev)
          /\ UNCHANGED <<next_lun_avail_time, cmd, owed>>
       \/ \E f \in FlashPgs :
            LET found == [owed EXCEPT ![<<cur_part, f>>] = @ + 1]
                same == rd.lpn = rd.start \/ f = rd.prev
            IN  \/ /\ same /\ rd.xfer < PgsPerFlashpg
                   /\ next_page(f, rd.xfer + 1)
                   /\ owed' = found
                   /\ UNCHANGED <<next_lun_avail_time, cmd>>
                \/ /\ ~same
                   /\ read_flashpg(found)
                   /\ next_page(f, 1)
    /\ UNCHANGED <<remaining, releases, open_pgs, wp_lun, flushed, gained, lost>>

\* the end of a partition: what is left is read
read_rest ==
    /\ cmd.op = "read" /\ more_parts /\ ~more_pages
    /\ read_flashpg(owed)
    /\ rd' = [first |-> rd.first, last |-> rd.last, start |-> rd.start + 1, lpn |-> rd.start + 1,
              prev |-> UNMAPPED, xfer |-> 0]
    /\ UNCHANGED <<remaining, releases, open_pgs, wp_lun, flushed, gained, lost, unseen>>

read_done ==
    /\ cmd.op = "read" /\ ~more_parts
    /\ cmd' = NoCmd
    /\ rd' = NoCmd /\ owed' = NoPages /\ unseen' = {}
    /\ UNCHANGED <<next_lun_avail_time, remaining, releases, open_pgs, wp_lun,
                   flushed, gained, lost>>

(***************************************************************************)
(* conv_flush().                                                           *)
(***************************************************************************)
\* mutant: only the first partition is asked
ssd_next_idle_time_first ==
    Max({next_lun_avail_time[l] : l \in {m \in Luns : m[1] = 0}} \cup {0})

\* of all partitions
ssd_next_idle_time == Max({next_lun_avail_time[l] : l \in Luns} \cup {0})

conv_flush ==
    /\ Accepting
    /\ flushed' = ssd_next_idle_time
    /\ releases' = reassigned({"other"}, "flush")
    /\ UNCHANGED <<next_lun_avail_time, remaining, open_pgs, wp_lun, cmd, gained, lost, readVars>>

\* a slot passes.  How long ago a die became idle matters no more
tick ==
    /\ cmd # NoCmd => cmd.late < MaxLate
    /\ next_lun_avail_time' = [l \in Luns |-> later(next_lun_avail_time[l] - 1, - MaxLate)]
    /\ releases' = BagOfAll(LAMBDA r : [r EXCEPT !.time = later(@ - 1, 0)], releases)
    /\ flushed' = later(flushed - 1, 0)
    /\ cmd' = IF cmd = NoCmd THEN cmd
              ELSE [cmd EXCEPT !.stime = @ - 1, !.latest = @ - 1, !.late = @ + 1]
    /\ UNCHANGED <<remaining, open_pgs, wp_lun, gained, lost, readVars>>

\* the next step of the command that is handled
go_on == write_page \/ write_done \/ read_page \/ read_rest \/ read_done

Next ==
    \/ \E w \in Writes : conv_write(w)
    \/ go_on
    \/ \E l \in Luns : gc_nand(l)
    \/ buffer_release
    \/ \E first \in Parts, n \in 1 .. MaxRead : conv_read(first, n)
    \/ conv_flush
    \/ tick

\* time passes, the workers run and the dispatcher goes on with a command
Fairness == WF_vars(tick) /\ WF_vars(buffer_release) /\ WF_vars(go_on)

Spec == Init /\ [][Next]_vars /\ Fairness

(***************************************************************************)
(* Properties.                                                             *)
(***************************************************************************)
TypeOK ==
    /\ next_lun_avail_time \in [Luns -> Int]
    /\ remaining \in Nat /\ IsABag(releases)
    /\ open_pgs \in [Parts -> 0 .. PgsPerOneshot - 1]
    /\ wp_lun \in [Parts -> 0 .. LunsPerPart - 1]
    /\ flushed \in Nat /\ gained \in 0 .. MaxGained /\ lost \in Nat

\* every sector of the write buffer is free, waits for a program operation that
\* was issued, or belongs to a page of a wordline that is being filled or to a
\* page still to be placed, or it was lost.  A write of part of a page allocates only its
\* sectors, but its whole page is given back: remaining may exceed the size of
\* the buffer by what was gained
WriteBufferBalance ==
    /\ TypeOK
    /\ remaining
         + PgsPerOneshot * SecsPerPg * BagCardinality(releases)
         + SecsPerPg * SumFunctionOnSet(open_pgs, Parts)
         + (IF cmd.op = "write" THEN cmd.left * SecsPerPg ELSE 0) + lost = BufSize + gained

\* a flush ends after every program operation that was issued before it and whose
\* release is scheduled, on every die of every partition, and a write that waits for the flash (FUA, or
\* without early completion) after those it issued itself
AcksCoverPrograms ==
    \A r \in BagToSet(releases) :
        /\ r.of = "flush" => r.time <= flushed
        /\ r.of = "this" => r.time <= later(cmd.latest, 0)

\* a read looks up each of its pages once, and transfers each page that is mapped
\* once, from the flash page it is in, however mapped and unmapped pages and
\* flash pages follow each other
ReadWhole ==
    cmd.op = "read" =>
        /\ more_pages => rd.lpn \in unseen
        /\ \A f \in AllFlashPgs : owed[f] >= 0
        /\ ~more_parts => unseen = {} /\ owed = NoPages

\* between two writes the buffer comes to have room for the largest write again,
\* although unfilled wordlines keep their pages: a write that is refused now
\* would be accepted later, unless others take the space before it or some was
\* lost
SpaceReturns ==
    (cmd.op # "write" /\ remaining < MaxNr /\ lost = 0)
        ~> (remaining >= MaxNr \/ cmd.op = "write" \/ lost > 0)
=============================================================================
