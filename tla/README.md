# nvmevirt: TLA+ models, model checking and proofs

NVMeVirt is a Linux kernel module that emulates an NVMe device in memory: the
host's NVMe driver talks to a PCI device whose registers and doorbells are
plain memory, kernel threads poll that memory, a flash translation layer (FTL)
computes when each command would finish on a real device, and worker threads
copy the data and post the completion when that time has come.

This directory models the parts of it that carry state: the conventional FTL
with its garbage collection and its timing, the lock-free work queue between the
threads, the I/O queue pairs, the controller registers with the admin queue, the
path of the data, the zoned FTL, the key-value FTL, the bandwidth and latency
models, and the loading and unloading of the module. TLC checks each on small
instances; TLAPS proves the main invariants of the conventional FTL with its order of pages,
its victim queue and its timing, of the work queue, the queue pairs, the controller, the data
path, the zones, the key-value table and the loading for all sizes.

## 1. The system

    host driver                dispatcher thread                 I/O workers (one per SQ)
    -----------                -----------------                 ------------------------
    registers (BAR)  ------->  nvmev_proc_bars()
    admin SQ doorbell -------> nvmev_proc_admin_sq()
    I/O SQ doorbell  ------->  nvmev_proc_io_sq()
                                 FTL: conv | zns | kv | simple
                                 (target time, mapping, zones)
                                 __enqueue_io_req()  ------->    nvmev_io_worker()
                                 schedule_internal_operation()     copy data (or run the KV command)
                                                                   wait for the target time
    completion queue  <---------------------------------------    __fill_cq_result()
    interrupt         <---------------------------------------    nvmev_signal_irq()
    CQ doorbell      ------->  nvmev_proc_io_cq() (statistics)     buffer_release()

| Component | State | Operations | What makes it correct |
|---|---|---|---|
| Controller, `pci.c`, `admin.c`, `main.c` | registers, shadow copies, admin queue, doorbells, tables of I/O queues | poll each register in turn, admin commands, shutdown | ready only with the host's queues; no command or answer lost, doubled or overwritten; queue numbers can be reused |
| Queue pairs, `io.c`, `main.c` | doorbells, heads, phase, `interrupt_ready`, statistics | dispatch, post a completion, raise the interrupt | unread entries are never overwritten, phase tags bound them, no interrupt is lost |
| Work queue, `io.c` | array of entries chained into a free list and a sorted list | allocate, fill, insert, sweep, copy, complete, reclaim | chains stay whole without a lock; once, not early, after the copy; eventually |
| Conventional FTL, `conv_ftl.c` | mapping both ways, page/block/line state, line lists, two write pointers, write credits | write a page, foreground GC | a mapped page always holds its data; lines are never lost; erase before program; GC ends and frees enough |
| Victim queue, `pqueue/` | binary heap with back pointers | insert, pop, change priority | heap order, positions, returns a minimum |
| ZNS FTL, `zns_*.c` | zone descriptors, resource counters, write buffers | write, append, ZRWA write and flush, open, close, finish, reset | zone state machine, exact counters, write pointer moves forward only, buffer space accounted for |
| Key-value FTL, `kv_ftl.c`, `append_only.c` | hash table with chains, storage, iterators | store, batch, retrieve, exist, delete, iterate | stored keys are found with their last value; searches end; an iterator misses nothing |
| Data path, `io.c`, `admin.c` | storage, requests of the workers, slots of the submission queues | take a command, copy block by block, complete, delete a queue | a read is never older than what was acknowledged |
| NAND timing and write buffer, `ssd.c`, `conv_ftl.c` | times of the dies, free buffer space, internal operations | read, write, erase; allocate, release; flush | buffer space is accounted for and comes back; a flush covers what came before |
| Channel model, `channel_model.c` | ring of credits per time slot | charge a transfer | no credit of a passed slot is used, none is lost (for pauses below the range of its counter) |
| Simple FTL, `simple_ftl.c` | times of the I/O units | charge a command, flush | a flush covers the commands before it, as far as it does |
| PRP walk, `io.c`, `kv_ftl.c`, `zns_mgmt_recv.c` | entries used, bytes left | move a piece, a run of pages | each byte goes to its place in the host's buffer |
| Loading, `main.c`, `pci.c` | objects, threads, the driver | the steps of `NVMeV_init()` and `NVMeV_exit()` | nothing is freed while it is used; unloading ends |

What is hard to test here: the dispatcher, the workers and the host share
memory without locks (the work queue, `interrupt_ready`, registers and
doorbells, the KV table); counters that steer control flow (write credits,
per-line counts, zone resources) are updated a step at a time over long
sequences; times are computed long before they come, from state other commands
change; queues wrap and entries are recycled; a worker reads a command again in a slot
the host may use anew; a command may be put off and tried again with state left from
the first attempt. `PROJECT.json` lists these
hazards at their lines with the properties that watch them.

## 2. Modules

A module's definitions keep the names of the C functions; `PROJECT.json` maps
each to its lines. Definitions that begin with "mutant" in their comment are
deliberately wrong versions of the one that follows them; no specification
uses them.

**ConvFTL** models one partition of the conventional FTL (partitions are
independent copies). `start_new_page`/`start_overwrite`, `write_page`,
`check_and_refill_write_credit`, `do_gc`, the copy steps and `mark_block_free`,
`mark_line_free` are the steps of one iteration of the loop in `conv_write()`
with the foreground GC it may trigger; all of it runs in the dispatcher, so `pc`
only keeps the steps in order and lets invariants speak about the middle of a
collection. A page is `<<line, offset>>`, the offset counted in the order of the
write pointer. The victim queue is a set from which a line with the fewest valid
pages is taken. `write_credits` is a 32-bit unsigned counter (`CreditMod`).

**LineGeometry** and **LineLayout** justify that abstraction: `LineLayout` runs the
channel/LUN/page counters of `advance_write_pointer()` and the loop nest of
`do_gc()` over a line and compares them with the closed forms of `LineGeometry`
that instantiate ConvFTL; it also checks the index of the reverse map. Sizes are positive
(`GeometryAssumption`).

**VictimSet** is the abstract victim queue, **VictimQueue** the heap of
`pqueue.c` as the FTL drives it, with `ImplementsVictimSet` as refinement. An operation
changes the array and starts `bubble_up()` or `percolate_down()`; `sift` is the state of that
loop (the hole, the line that moves), each round is a step, and `settle` puts the line
into the hole. The next operation waits for it, as the heap is used by the dispatcher only.

**IOWorker** is the work queue between the dispatcher and one worker, with a
step for each group of reads and writes the other thread can observe (x86 keeps a
thread's stores in order). A chain (`ChainFrom`) is the least set that holds its head and
is closed under `next`. It contains the requests of the host and the internal
operations that give write buffer back. `PromptWorker` states an assumption on
scheduling: the worker has left an entry before the dispatcher has cycled through
all the other entries and hands it out again. The array has 16384 entries, so this
is what happens in practice, but nothing in the code enforces it.

**QueuePair** follows a command from doorbell to doorbell with two submission
queues, a worker for each, and one completion queue. The worker that owns the
completion queue clears `interrupt_ready` outside the lock under which the others
set it. The host is external: it limits outstanding commands to the size of the
queue, reads by phase tag, and serves interrupts. `PlacedOnce` says where commands are,
`InFlightTotal` what the statistics make of it.

**Controller** models `nvmev_proc_bars()` one register read at a time, the admin
queue and the creation and deletion of I/O queues, interleaved with a host that
follows the Linux driver's start and shutdown sequence: it writes `aqa`, `asq`, `acq` and `cc`
whatever the dispatcher has seen of them, so that any of them may be pending at a poll, all
four too. One timing is excluded (`AdjacentReads`): the host does not make both its write of
`acq` and its write of `cc` in the time that passes between the dispatcher's reads of `acq`
and of `cc`, which are next to each other in `nvmev_proc_bars()`; the driver reads and writes
other registers between the two. Nothing in the code enforces it, and section 6 says what
happens otherwise. Each register is looked at and handled in one step. `csts.shst` is set at
a shutdown and never cleared, so the second shutdown of the host meets the answer to the
first. Queue memory is new (zeroed, at a new address) at every start.

**DataPath** composes host, dispatcher and workers over the stored data. A command stays
in the slot of the host's queue: the dispatcher takes it from there, and the worker reads
it there again, at the start of the copy and for each block. A zone reset clears the
storage in the dispatcher. Queues can be deleted and created again. How the worker orders
its requests (IOWorker) and how completions travel (QueuePair) is left open: the worker
may take any request, and any time may be its target time. The host is one like the Linux
driver: it has fewer commands outstanding than a queue has slots and writes the next one to
the slot at its tail, whether or not the command that was there is completed, since completions
do not come in the order of the slots; and it deletes a queue with commands outstanding, which
are then `gone`. `PromptCopy` is the timing that makes this work: the worker, which copies a
request as soon as it meets it in its list, has copied it before its slot is written again
and before its queue is deleted. Nothing in the code waits for that; section 6 says what
happens otherwise.

**ConvTiming** has the times at which the commands of the conventional FTL finish, one
page or one NAND operation at a time, with the write buffer shared by the partitions
and the internal operations by which workers give it back. Where pages are stored is
the subject of ConvFTL: writes fill the open wordline of their partition, and a read meets
every placement, chosen page by page where the code looks pages up. `rd` holds the loops of
`conv_read()`; what it has found and not transferred (`owed`) and not yet looked up (`unseen`)
are history. Times are relative to the present, so nothing counts the steps. A
write that finds the buffer full changes nothing and is tried again; meanwhile the dispatcher
goes on to the other queues, whose writes may take the space that comes back. A release for
which no work-queue entry is free is not scheduled, and its space is `lost` for good.

**ChannelModel** is the ring of credits, **Calendar** what it stands for: the free credits
of each coming slot, from which a transfer takes what it needs at the earliest
time. `ImplementsCalendar` is the refinement. The number of slots passed since the ring was
used last is cut to 32 bits in the code (`Wrap` is 2^32, which is 4.8 hours in slots of 4 us);
`ShortPauses` says that pauses are shorter. **IOUnits** is the simple model of
`simple_ftl.c`, which `kv_ftl.c` repeats. **PrpWalk** is the loop over the PRP entries
of a command, which the code has five times, and the DMA variant that joins adjacent
pages; all pages have a valid frame number (the fallback for others is in section 6).

**Lifecycle** has the steps of `NVMeV_init()` and `NVMeV_exit()` with the objects they
create and free, the threads and the driver of the host. A worker's pass through its
loop is one step (`ModuleSpec`); the driver deletes its queues before it lets go of the device.

**ZnsFTL** has the zone state machine with every path of `__zns_write()`,
`__zns_write_zrwa()` and the management commands, the resource counters, the
write buffers and their release by workers. A handler that finds the buffer short
leaves the command at the head of its queue, changed as the code changes it.
Assertions that fail and accesses out of range are recorded in `failed`, buffer space that a
refused write, a reset or a missing work-queue entry leaves behind in `lost`, and space that is
released before the pages it stands for are written in `gained` (`early`). Its parameters
are in **ZnsParams**; **MCZnsFTL** has three configurations side by side: a device with
random write areas and one write buffer (`zrwa`), and two like `WD_ZN540` with a
buffer per zone, one written in units of half a page (`small_writes`) and one with two zones
(`two_zones`). `ZonesBalance` is `BufferBalance` of all three, with the other invariants
of the last.

**KvFTL** has the hash chains, single and batched stores in four steps, retrieve, exist,
delete, iterators and the append-only allocator. A batch is its stores, one after the
other. The host keeps one command per key outstanding, and `Resize` says how it changes
the length of a value. The code adapts the length in the table only if the old and the new
one are at most `SMALL_LENGTH` (1024); above it a store copies the data and keeps the old length,
so that a retrieve of a shortened value also returns what was behind it. `ValueIntact` therefore
asks for the whole last value always and for nothing else only if the first length is at most
`SmallLength`. Handle 16 of the iterators is not initialised by the code and starts with any
contents (`Uninitialised`, `Stray`). `kv_iter_read()` scans the table in one step although other
workers run; the property speaks of slots that did not change, for which the order of the
scan and the changes makes no difference. `cut` remembers keys that stood behind a deleted one. The slots a
search meets (`reached`) are the least set that holds its start and is closed under
`next_slot`, as the chains of IOWorker are; a search that would go round in a circle has no
end (`ChainsEnd`).

`MCConvFTL`, `MCDataPath` and `MCKvFTL` give constants their values. **MCProgress** and
**MCStructures** each put several modules side by side that share nothing: a behaviour
is one of one of them, and the others rest; MCProgress extends ConvTiming and Lifecycle,
MCStructures extends LineLayout, IOUnits, PrpWalk, VictimQueue and ChannelModel.
**ConvFTLProofs**, **IOWorkerProofs**, **QueuePairProofs**, **ControllerProofs**,
**ZnsFTLProofs** and **KvFTLProofs** hold the proofs about the module they are named after,
**ProgressProofs** those about ConvTiming, Lifecycle, VictimQueue and ChannelModel, **DataPathProofs** those
about DataPath, about the walks and times below it, PrpWalk and IOUnits, and about LineLayout
(section 5).

## 3. Runs

| Run | Instance | Shows |
|---|---|---|
| `conv_lists` | 6 lines of 2 blocks with a page each, 3 logical pages, symmetry | the mapping is exact both ways, line lists agree with the counters, erased pages, counters of lines and blocks and the flash rules hold at every step; the free lines never run out (`NeverOutOfLines`) |
| `progress` | ConvTiming: 2 partitions with a die each, wordlines of 2 pages of 2 sectors, a buffer of 7 sectors, writes of 3 sectors, reads of 3 pages, one lost release; ConvFTL: as above with 2 logical pages; Lifecycle: 3 workers; fair | buffer balance, flushes and reads complete, the buffer comes to have room for the largest write again; every page write ends, GC included; objects outlive their users, unloading ends |
| `structures` | LineLayout: all 108 geometries up to 3 channels x 3 LUNs x 2 x 3 x 2 pages; VictimQueue: 5 lines of 3 pages, symmetry; ChannelModel: 4 slots of 2 credits, transfers up to 5, pauses up to 7, `Wrap` 8; IOUnits: 3 units, commands up to 4; PrpWalk: pages of 4 units, transfers up to 12, 4 frames | write and copy order, erase after the last page of a block, injective index; heap and ring refine set and calendar; flush of the simple model; each unit of a transfer in its place |
| `io_queue` | 4 entries, 5 requests, 2 instants, prompt worker, fair | chains stay whole and sorted ahead of the worker; once, not early, after the copy; eventually |
| `io_recycle_race` | 3 entries, 5 requests, a worker that may be delayed | violation, see section 6 |
| `queue_pair` | 2 queues, 3 slots, 3 commands each, fair | completion ring and phase, each command in one place, statistics, no lost interrupt |
| `controller` | 2 starts, depth 3, 4 admin commands a start, 1 I/O queue, `AdjacentReads`, fair | ready implies configured, admin commands accounted for, reused queue numbers, starts succeed, answers arrive |
| `zns` | 1 zone of 7 LBAs, ZRWA of 4, granule 2, shared write buffer; or 1 zone of 6 LBAs in pages of 2 and flash pages of 4, written by single LBAs, with a buffer of its own; or 2 zones of 3 LBAs, a buffer for each, flash pages of 2 | counters, zone shape with the alignment of ZRWA write pointers, buffer balance, write pointers never move back |
| `kv` | 3 keys in 4 slots with colliding hashes, lengths 1 to 3 with `SmallLength` 2, 4 stores into 4 cells of storage, an iterator whose handle is not initialised | keys found, values whole, chains end, iterator complete |
| `kv_delete` | the same, stores and deletes | violation, see section 6 |
| `data_path` | 2 queues of 3 slots, 2 blocks, 4 commands, 1 deletion, 1 refused write, `PromptCopy`, symmetry | reads are current |
| `data_refused` | the same with 2 commands | violation, see section 6 |

Why the bounds suffice. ConvFTL needs two lines for the write pointers, the
threshold of two free lines and one more to collect; with six lines of two pages
and three logical pages every list is used, lines are collected with and without
valid pages, and the spare room is the least for which `NeverOutOfLines` is
claimed (`ASSUME SpareLines` in MCConvFTL: fewer logical pages than four lines
less than all hold). State spaces of ConvFTL, ConvTiming, Lifecycle, the modules of
`structures` and ZnsFTL are finite and explored completely; nothing counts the steps. In QueuePair six
commands go through three slots, so the ring wraps twice and both phases are met
in every slot; in Controller four commands go through admin queues of three
entries, the queue number is created, deleted and created again, and the second
start meets everything the first one left. In IOWorker four entries hold three
requests at once (one is kept back) and the fifth request reuses an entry. In
KvFTL two keys share a slot and the third starts where they overflow, four stores
suffice to delete a key, reuse its slot for another chain and store again.
In KvFTL also a value of 3 is shortened with its length kept. In ZnsFTL zones end in the
middle of a flash page, and a write ends, or begins, in the middle of a page.
In DataPath four commands suffice for a write
and a reset that are completed, another write and a read, over two queues, in every
order; a queue is deleted and its slots used again. The buffer of ConvTiming holds two
writes; `MaxGained` allows one sector more than the buffer has, `MaxLost` the loss of one
wordline (see section 6), `MaxAhead`
and `MaxLate` let a die be busy before and behind the command that is handled. With reads of
three pages over two partitions a mapped page, an unmapped one and a mapped one of the same
partition do not follow each other in the run; the theorem `ReadsWhole` has no such bound. A ring
of four slots wraps in every position, also by pauses of all lengths below `Wrap`, and a
transfer of five units takes three of them.
Transfers of twelve units in pages of four have up to four PRP entries, so that
the list is used with one, two and three entries and the buffer starts and ends at every
place of a page.
The flash geometry of `conv_lists` is small because the proofs of section 5 do
not depend on it. Deadlock is checked in `conv_lists`; in the other
runs some part stops when its bounded commands are used up, when its walk is done or when
loading has failed.

## 4. Fairness

All threads of the module poll in a loop and never wait for each other longer
than a spin lock, so weak fairness of the dispatcher and of each worker is what
the scheduler gives a bound kernel thread. Time passes (`tick`, `target_reached`).
The host is assumed to go on with a start it began and to serve its interrupts, but
not to send commands. ConvFTL needs only that a started iteration goes on. In ConvTiming
time passes, workers release buffer space and a command that was begun goes on; that a given
write is accepted is not claimed, because the dispatcher goes on to other queues whose smaller
writes may take the space each time, and `SpaceReturns` only says that there is room again
unless a write is at work or space was lost. No strong fairness is assumed anywhere. In
Lifecycle each thread runs, the driver goes on with what it began, and `NVMeV_exit()` goes on
once it was called; nobody has to load or unload the module or to send I/O. Where
"each command is answered" is stated as `[]<>(nothing outstanding)`, it means the
same because the number of commands is bounded.

## 5. Proofs

Each proof module extends the module it is about and proves its theorems for every
value of the constants that satisfies the named assumptions. The runs of section 3
check the same definitions on small instances; the parts of the inductive invariants
were checked with TLC before they were proved.

| Module | Theorem | Statement | Under |
|---|---|---|---|
| ConvFTLProofs | `TypeCorrect` | the state has its type | |
| | `MappingCorrect` | a written logical page maps to a valid page that names it, also in the middle of a collection | |
| | `NoOrphans` | a valid page not yet visited by the collection is the current copy of its logical page | |
| | `MappingInverse` | both: mapping and reverse mapping are inverse on the valid pages (`MappingExact`) | |
| | `LinesNeverLost`, `ListsAgree`, `LinesWhereCounted` | each line is in exactly one list, the one its counters say (`LineLists`) | |
| | `ErasedWhereExpected` | where the erased pages are | |
| | `CountersRight` | the counters of lines and blocks equal the numbers of pages (`CountersExact`) | |
| | `FlashRules` | pages are programmed only when erased and erased only when unmapped | |
| | `CreditsPositive` | the unsigned write credits are never 0 at a page write, so they never wrap | |
| | `LinesNeverRunOut` | no write and no copy finds the free lines used up, every collection finds a victim (`NeverOutOfLines`) | `SpareLines` |
| ProgressProofs | `AcksWaitForPrograms` | flushes and waiting writes end after their program operations (`AcksCoverPrograms`) | |
| | `BufferBalanced` | every sector of the write buffer is accounted for, what is lost or gained included (`WriteBufferBalance`) | |
| | `ReadsWhole` | a read looks up each page once and transfers each mapped page once, from its own flash page (`ReadWhole`) | |
| | `HeapImplementsSet` | the heap of victim lines implements the set: the line taken has the fewest valid pages, none is lost, positions and order are right (`ImplementsVictimSet`) | |
| | `RingImplementsCalendar` | the ring of credits implements the calendar of the coming slots: no credit is lost or given twice, none is taken from a slot that has passed (`ImplementsCalendar`) | `ShortPauses` |
| | `NothingFreedInUse` | objects outlive their users (`ObjectsOutliveUsers`) | `Positive` |
| IOWorkerProofs | `ChainsStayIntact` | free list, request list and the dispatcher's entry make up the array, each entry once (`ChainsIntact`), for a worker however slow | |
| | `RequestsCompletedOnce` | once, after the copy, not early (`CompletedOnce`) | `PromptWorker` |
| | `PromptSeesUpdates` | the comment refuted by `io_recycle_race` is true of a prompt worker (`UpdatedAtOnce`) | `PromptWorker` |
| QueuePairProofs | `UnreadNeverOverwritten` | the entries tagged with the phase the host waits for are the unread ones (`UnreadWindow`) | `NamesDiffer` |
| | `EachPlacedOnce` | each submitted command is in one place (`PlacedOnce`) | `NamesDiffer` |
| | `CommandsAccounted` | the same with the types and the in-flight statistics (`EachInOnePlace`) | `NamesDiffer` |
| ControllerProofs | `ReadyIsConfigured` | ready only with the host's queues (`ReadyMeansConfigured`) | `AdjacentReads` |
| | `AdminCommandsAccounted` | no admin command or answer is lost, doubled or overwritten (`AdminAccounted`) | `AdjacentReads` |
| | `CreatedQueuesUsable` | created queues exist and lose no doorbell (`QueuesUsable`) | `AdjacentReads` |
| DataPathProofs | `ReadsReturnCurrent` | reads are not older than what was acknowledged, with slots and queues used again while commands are outstanding (`ReadsCurrent`) | `PromptCopy` |
| | `TransfersExact` | each unit of a transfer goes once to its place (`BufferExact`) | |
| | `FlushCoversCommands` | the flush of the simple model (`FlushCovers`) | |
| | `WritesFillLines` | the write pointer visits each page of a line once, wordline by wordline (`WriteOrderExact`) | |
| | `ErasedAfterCleaned` | a collection visits each page once and erases a block when all its pages were visited, and only then (`CleanedThenErased`) | |
| ZnsFTLProofs | `ZonesKeepShape` | state, write pointer and random write area fit together (`ZoneShape`) | `GranuleFits` |
| | `ResourcesCounted` | the resource counters are exact and within limits (`OpenActiveExact`) | `GranuleFits` |
| | `ZonesMoveForward` | write pointers never move back, full zones stay full until reset (`ZoneLifecycle`) | `GranuleFits` |
| | `BuffersBalanced` | every block of the zones' write buffers (not those of random write areas) is accounted for, what is lost and what is released too early included (`BufferBalance`) | `GranuleFits` |
| KvFTLProofs | `SearchesEnd` | following `next_slot` comes to an end from every slot (`ChainsEnd`) | `OneWorker` |
| | `StoredFound` | the keys found are those stored and neither deleted nor cut off (`FoundUnlessCut`) | `OneWorker` |
| | `ValuesIntact` | a retrieve gets the whole value last stored, and nothing else if its first length is at most `SmallLength` (`ValueIntact`) | `OneWorker`, `Resize = "shrink"` |
| | `IteratorComplete` | an iterator misses no entry that stayed (`IteratorMissesNone`) | |

The theorems called `Invariance` state the inductive invariants themselves.

Assumptions. In the modules: sizes are naturals, the credit counter is wider than a line,
the copy order of a line is a permutation (`ErasedAfterCleaned` shows that the code's is), the
initial free list holds every line once and more than two, sentinels are not pages, lines
or entries, queues have more than one slot and are finitely many, latencies are naturals,
pages and transfers are not empty, hash values are slots, a line has pages, a ring of credits has
entries and a slot has credits. `SpareLines`: the
threshold is at least the two lines of `conv_init_params()`, and the logical pages leave
free the threshold and two lines more. `PromptWorker`, `AdjacentReads` and `PromptCopy` are
assumptions on timing, explained in section 2, which hold in practice and which neither the code
nor the driver guarantees; `io_recycle_race` and section 6 show what happens
without them. `ShortPauses`: no channel is unused for 2^32 slots. `GranuleFits`: a random write
area is at least a flush granule (both are 0 in the shipped configurations); nothing is assumed
of the write unit. `Positive`:
there is a worker. `NamesDiffer`: the string for "no worker" is not a queue. `OneWorker`:
one worker executes all key-value commands; `Resize = "shrink"`: a value is stored again
with a length that fits what was allocated for it. Section 6 says what happens otherwise.

None of the properties is inductive as it stands. What has to be added:

- *Conventional FTL.* `IInv` is the conjunction of `TypeOK`, `ControlOK`,
  `LinesPartitioned`, `ErasedPagesInPlace`, `LineCountersExact`, `ListsMatchCounters`,
  `MappingConsistent` and `NoOrphanPage`. The mapping survives a write only because the
  page at the write pointer is erased, hence nobody's copy; erased pages stay in place only
  because a line taken from the free list is in no other place; lines keep one place only
  because the test `vpc == pgs_per_line` tells lines of the full list from the others; that
  test is right only because the counters are; and erasing a block during a collection
  loses nothing only because each valid page of it has been visited and each visited page
  is mapped elsewhere. The counters of blocks follow with the cardinalities of sets of
  pages.
- *Free lines* (`RoomInv`). The erased pages are at least two lines and two pages more than
  what is promised: to the host by its credits, during a collection to the pages that are
  still to be copied and to the credits the collection will bring, less the line it frees.
  A used-up line then always finds a free one. A collection keeps the balance because the
  credits it brings are the invalid pages of the victim, and a victim exists because the
  logical pages cannot fill all the lines outside the free list (`VictimExists`, from
  `SpareLines`).
- *Timing.* A flush only looks at the dies, so each program operation must end before some
  die is idle (`DiesCover`), and only a write has operations of its own. The die of an
  operation is known because the write pointer of a partition names it. For the buffer
  (`BufferInv`) the bag of scheduled releases is finite and every part of the balance has
  its type. Sums over the partitions and sizes of bags are defined by recursion over
  subsets; the module proves from the definition that such sums exist, do not depend on the
  order and change with one summand, by induction over finite sets of partitions
  (`SubsetInduction`), and rests on these facts only. For reads (`ReadLoops`) the pages not looked
  up are those of the partitions to come and the rest of the current one (`Ahead`, by
  remainders), and what is owed is exactly what was collected (`Collected`).
- *Work queue.* The chains are least sets closed under `next`. `ChainInv` says for each step of
  the dispatcher where its entry stands between the two chains (`HandByStep`) and that forward and
  backward links agree; no assumption on the worker is needed. `OwnerInv` adds which request
  an entry stands for and what the worker may find at its own place, and this is where
  `PromptWorker` enters.
- *Queue pair and admin queue.* A ring is right because the host has fewer commands
  outstanding than the ring has slots (`FewerThanSlots`); everything else says where the
  command of each slot is: in order in the submission queue, once in a worker, once among
  the unread, or read. For the controller the registers come first (`RegInv`).
  What was seen is what is used; and when
  a poll has passed a register that was written since, each register the host writes after that
  one and before `cc` is still unseen if it is written, so that the poll stops at it and does
  not come to `cc`. Only at `acq`, the last before `cc`, this needs `AdjacentReads`. Then comes what
  is left of an earlier start: between two starts no admin command is pending (`Quiet`), so that
  the doorbell is 0 when the admin queue is mapped again and nothing is lost with the reset
  (`Between`), and the memory of the next start is new (`Pristine`); then the rings.
  The statistics need two facts more: the dispatcher counts a completion for the queue the
  entry names, so it must not reach an entry that was never filled (`FirstLap`), and what the
  host or it has left behind is counted by laps (`LapsOnly`).
- *Order of pages* (`LineInv`). The counters of the write pointer and of the loops are the digits
  of the number of pages passed, in mixed radix: `PointerStep` and `CountersStep` show that
  the carries of the code are those of the digits, so that the n-th page is the closed form of
  n. Closed forms are one to one (`OrdersOneToOne`), hence no page is met twice; the pages of a
  wordline have consecutive numbers. A block is erased exactly when the number of its last page
  in copy order is below the number of pages cleaned.
- *Victim queue* (`HeapInv`). While a line moves, the hole counts as its place (`line_in`). Then
  each slot holds another line, each line but the moving one and the one taken out knows its
  slot, and every edge is in order but the one above the hole (up) or those below it
  (down); what is below the hole must also be in order with what is above it, or the exchange of
  the next round would break an edge. A round exchanges two lines (`RoundSwaps`), so the set
  stays the same. That the first line is a least one follows from a least counterexample
  (`HeapAtRest`); that the array has room, from the lines in it being different and other than
  the one that enters (`RoomInHeap`).
- *Channel* (`ChannelInv`). What lies behind the valid part of the ring is untouched. The entries
  brought up to date, read from the new head on, are then the calendar, whether slots were
  passed within the valid part or beyond it (`Coming`), and what is charged to them is charged to
  the calendar (`Charged`); both rest on the arithmetic of places in a ring (`RingPlaces`). That the
  loop takes all of every slot before its last one and in all what was asked for, or what
  there is (`TakesEnough`), follows by going along the slots (`Climb`, a least counterexample) with
  the lemmas about sums used for the buffer.
- *Data path.* Each command is queued, held by a worker, completed or gone, and its slot is
  not written before it was copied, which is all the worker reads the slot for; with that, each
  block is at least as new as every completed change and, for the blocks a worker has passed, as
  its own command.
- *Zones.* `ZoneShape` and `OpenActiveExact` need each other: a transition is allowed by
  the counters and changes them by what the zone held. For the buffers (`BalanceInv`) the blocks
  that wait are those behind the last flash page that the write pointer has left, and a
  write gives back the flash pages it completes (`Programmed`), with a part-page end also one that
  it has not yet completed; what that gives too much is `gained`.
- *PRP walk* (`PrpInv`). Between two pieces the walk stands at the start of a page of the
  buffer, or at the start of the buffer; the entries used are the pages passed, and, for the DMA
  variant, what was collected are the pages between what is moved and where the walk stands.
  The times of the I/O units only have to cover the last long command and what follows.
- *Key-value table.* `TableInv`: no set of slots leads only to itself (`NoTrap`), a key is
  found exactly if it was stored, not deleted and not cut off (`Found`), and what the worker
  found for the key of its job is still so (`JobRight`). A store links a free slot, whose own
  link leads nowhere, at the end of its chain, so that no circle arises and no key leaves a
  chain; only a delete shortens chains, and what stood behind it is `cut`. `ValueInv` adds
  that the storage of different keys is disjoint. Iterators need neither: what one has still to
  report lies behind its place.
- *Loading.* Which objects exist, which threads run and whether there is a driver follow from
  how far `NVMeV_init()` or `NVMeV_exit()` has come.

Only model-checked:

- liveness (`SpaceReturns`, `EveryCommandRead`, `StartSucceeds` and the like), which is out
  of the prover's reach;
- `ZonesBalance` as it stands, a conjunction over the configurations of `MCZnsFTL`; its
  parts are proved for all configurations with `GranuleFits`.

## 6. Where code and documentation differ

Shown by runs:

- `data_refused`: `nvmev_io_worker()` copies the data of every request without looking at its
  status (`io.c:652`). A write the ZNS FTL refuses, because it is not at the write pointer or
  its zone is full, is completed with an error, but its data replaces what was stored.
- `io_recycle_race`: `io.c:350` says "IO worker shall see the updated w at once".
  Without `PromptWorker`, the worker can stand on an entry that is reclaimed, handed out
  again and being filled: it then sees `is_completed` of the new request with
  `is_copied` of the old one.
- `kv_delete`: `delete_mapping_entry()` wipes the entry's `next_slot` too, so
  the keys behind it are reported as not existing, against the comment at
  `kv_ftl.c:501`. `FoundUnlessCut` shows that these are the only keys affected.

Met while modelling, visible in the models:

- `Controller` with `AdjacentReads = FALSE`: if `acq` and `cc` are both written between the
  dispatcher's reads of the two, `cc` is handled in a poll that has missed `acq`, and if `aqa` and
  `asq` were written in the same poll behind the dispatcher, without these, too. At the first
  start there is then no admin queue: the code warns (`pci.c:239`), remembers the `cc` it has seen
  and never sets `csts.rdy` (`StartSucceeds` fails). If there is one, `csts.rdy` is set before the
  queues of this start are mapped (`ReadyMeansConfigured` fails), and mapping them resets a
  doorbell the host may have rung (`AdminAccounted` fails).
- `csts.shst` keeps the answer to the first shutdown: at a second one the host may go on before the
  dispatcher has seen it.
- `KvFTL` with two `Workers`: nothing protects the table, two new keys can take the
  same free slot; `StoredKeysFound` fails. Above `SMALL_LENGTH` a value that is stored again with
  another length keeps its old one (`kv_ftl.c:534`), so that a retrieve of a shortened value returns
  the old bytes behind the new ones. With `Resize = "any"`: a longer value
  overwrites the one allocated behind it, and a batched store does not update the
  length; `ValueIntact` fails. It is not enough that a host never stores more than it first
  stored: a key that was cut off and is stored again with a shorter value gets a smaller
  allocation, and the first length then reaches into its neighbour. `"shrink"` therefore
  limits a length by what was allocated.
- `ZnsFTL`: an append to a full zone that is put off for lack of buffer has its
  start LBA overwritten with the first LBA of the next zone and is executed there
  when it is tried again (`write_buffer_short`). Refused writes keep their buffer space, and
  releases that find no work-queue entry are dropped (`lost` in `BufferBalance`).
  A write that reopens a closed zone with a random write
  area takes buffer again until an assertion fails; filling such a zone by a
  write never releases its resource (`failed`). Random write areas can be opened on a
  device that announces none, and a write there divides by a granule of 0, as does an explicit
  flush at write pointer 0, whose bound underflows. With a write
  unit smaller than a page (`WRITE_UNIT_SIZE` of `WD_ZN540` is 512, `ssd_config.h:204`) a
  write that ends inside the last page of a flash page releases the flash page, and the write
  that fills it releases it again, so that the buffer grows beyond its size (`gained`, in the
  configuration `small_writes`).
- `QueuePair`: the per-queue in-flight statistics hold only modulo the size of the
  queue (`EachInOnePlace`). `nvmev_proc_io_cq()` reads a completion entry before it checks
  its index.
- An abort command is never answered (`Controller`), a request that finds no work-queue
  entry is dropped without a completion (`IOWorker!drop`).
- `ConvTiming`: a write of part of a page allocates its sectors and gives back the
  whole page, so that `remaining` grows beyond the buffer (`gained`). Neither a flush nor a write
  with FUA waits for pages of a wordline that is not full yet. `SpaceReturns` needs a
  buffer of at least the largest write plus what unfilled wordlines can hold, in each
  partition a wordline less one page; with a smaller buffer a write may wait for ever. Also in a
  large one a write may be starved by smaller writes of other queues, and each release that
  finds no work-queue entry (`io.c:362`) makes the buffer smaller for good (`lost`). A
  write beyond the last page is answered with `false`, which blocks its queue.
- `ChannelModel` with `MaxPause` of `Wrap` or more: `channel_model.c:43` puts the 64-bit number of
  passed slots into 32 bits before it limits it, so that after a pause of a multiple of 2^32 slots
  and a few the entries of passed slots are not refilled; `ImplementsCalendar` fails.
- `IOUnits`: a long command sets the times of the units behind its first one, also back to an
  earlier time; a flush may then end before a command that was sent before it (`FlushCovers`
  speaks of the last long command and what follows).
- `PrpWalk`: the list of entries is taken as one piece of memory. The fallback for addresses
  without a valid page frame, which is not modelled, maps the address itself and then adds its
  offset in the page again (`io.c:95`, `io.c:102`), for the list by moving a `u64` pointer by a number of bytes
  (`io.c:83`); the DMA variant leaves out
  the offset of the namespace and collects into a static array shared by the workers; it
  never runs, because nothing sets `io_using_dma`.
- `DataPath` with `PromptCopy = FALSE`: the tail of a queue may come round to the slot of a
  request that was dispatched and not copied, and the worker then copies the blocks of another
  command and completes a write it never copied; `ReadsCurrent` fails. The same after a queue was
  deleted and created again; without the second, the worker follows a null pointer
  (`io.c`, `nvmev_vdev->sqes[sqid]`).
- `Lifecycle`: a load that fails for want of a bus leaves storage, namespaces and `/proc` files
  behind, which still point to the freed device. The last submission and completion
  queue are never freed at unloading (`i < nr_sq`), unless the driver has deleted them.
- `kv_iter_read()` never again reports the end of an iterator once it was passed.
- The comments at `admin.c:203` and `admin.c:226` call zone append unsupported; it is executed.

## 7. Not modelled

`zns_read()` and the program times of zoned writes, which change only timing by the functions
ConvTiming models; the contents of identify and log pages, of the answers to get features and of
the zone report; memory without page frames behind the PRP entries (section 6); the
bytes copied (DataPath keeps which command wrote a block); the DMA engine (`io_using_dma`
is never set); the bitmap allocator (not built in); key prefixes and memcmp, and what
`kv_iter_open()` answers when all handles are open; the contents of the `/proc` files and of
the PCI configuration space; structures and constants of the headers.

Timing constants are not those of a device: latencies are one or two slots, and the
firmware overheads that are added to each result are left out. No property depends on
them beyond their order.

Some hazards have no property, because the code has no means against them: the reader of
`/proc/nvmev/stat` against the deletion of a queue, a change of `io_units` against the
dispatcher, and a module loaded with a single CPU, which has no worker and divides by their
number at the first command (`io.c:28`).

## 8. What could follow

ConvFTL takes its victims from a set and its pages from a permutation; the theorems
`HeapImplementsSet`, `WritesFillLines` and `ErasedAfterCleaned` justify both, but the composition of
ConvFTL with VictimQueue and LineLayout in one specification is not stated. Several workers of
the key-value FTL are only explored by TLC, where the table is not protected (section 6).
