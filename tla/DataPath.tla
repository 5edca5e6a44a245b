------------------------------ MODULE DataPath ------------------------------
(***************************************************************************)
(* The data of the device from end to end: a host with several submission  *)
(* queues, the dispatcher that takes commands from them (nvmev_proc_io_sq; *)
(* a zone reset clears the storage at once), and a worker per queue that   *)
(* later reads the command again from the host's queue, copies the data    *)
(* block by block (__do_perform_io) and completes the command when its     *)
(* time has come.                                                          *)
(*                                                                         *)
(* How a worker keeps its requests is the subject of IOWorker, how         *)
(* completions travel that of QueuePair: here a worker may take up its     *)
(* requests in any order, and any time may be the target time.  Whether    *)
(* the FTL accepts a write or refuses it, as the ZNS FTL may, is left      *)
(* open; one that it puts off stays in its queue.                          *)
(***************************************************************************)
EXTENDS Integers, Sequences, FiniteSets

CONSTANTS
    SQs,            \* submission queues, each with its worker
    Depth,          \* slots of a queue
    Lbas,           \* blocks of the device, all in one zone
    Extents,        \* the sets of blocks a command may ask for
    MaxCmds,        \* bound: commands and deletions of all queues
    MaxDeletes,     \* bound: deletions of a queue
    MaxRefused,     \* bound: writes the FTL refuses
    PromptCopy      \* timing: a worker, which copies what it finds in its list
                    \* at once, has copied a request before the tail of the
                    \* queue comes round to its slot and before the queue is
                    \* deleted; nothing in the code waits for it

ASSUME DataAssumption ==
    /\ Depth \in Nat \ {0, 1} /\ MaxCmds \in Nat /\ MaxDeletes \in Nat /\ MaxRefused \in Nat
    /\ \A e \in Extents : e \subseteq Lbas /\ e # {}
    /\ PromptCopy \in BOOLEAN

VARIABLES
    slots,      \* number of the command in each slot, in the memory of the host
    tail,       \* doorbell of each queue
    head,       \* slot of each queue that the dispatcher takes next
    sqes,       \* queues that exist
    works,      \* requests of each worker [sq_entry, id, is_copied]
    copying,    \* the copy loop of each worker [w, left]
    storage,    \* the command that wrote each block last, 0 for none
    cmds,       \* the commands sent, with what was completed before them
    completed,  \* commands whose completion the host can see
    gone,       \* commands the host gave up when it deleted their queue
    refused,    \* commands that fail
    deletes

vars == <<slots, tail, head, sqes, works, copying, storage, cmds, completed, gone, refused, deletes>>

Ring == 0 .. Depth - 1
NoWork == [sq_entry |-> 0, id |-> 0, is_copied |-> TRUE]
Idle == [w |-> NoWork, left |-> {}]
Ops == [op : {"write", "read"}, lbas : Extents] \cup {[op |-> "reset", lbas |-> Lbas]}
Blank == [op |-> "flush", lbas |-> {CHOOSE l \in Lbas : \A m \in Lbas : l <= m}]

Init ==
    /\ slots = [q \in SQs |-> [i \in Ring |-> 0]]
    /\ tail = [q \in SQs |-> 0]
    /\ head = [q \in SQs |-> 0]
    /\ sqes = SQs
    /\ works = [q \in SQs |-> {}]
    /\ copying = [q \in SQs |-> Idle]
    /\ storage = [l \in Lbas |-> 0]
    /\ cmds = <<>>
    /\ completed = {}
    /\ gone = {}
    /\ refused = {}
    /\ deletes = 0

(***************************************************************************)
(* The host.                                                               *)
(***************************************************************************)
Outstanding(q) == {i \in DOMAIN cmds \ (completed \cup gone) : cmds[i].sq = q}

\* a command is written to the next slot and the doorbell is rung.  The host has
\* a tag less than the queue has slots and does not look at what the slot held:
\* that command may be outstanding still
submit(q, c) ==
    /\ q \in sqes
    /\ Len(cmds) + deletes < MaxCmds
    /\ Cardinality(Outstanding(q)) < Depth - 1
    /\ PromptCopy => \A w \in works[q] : w.sq_entry = tail[q] => w.is_copied
    /\ cmds' = Append(cmds, [sq |-> q, op |-> c.op, lbas |-> c.lbas, before |-> completed])
    /\ slots' = [slots EXCEPT ![q][tail[q]] = Len(cmds')]
    /\ tail' = [tail EXCEPT ![q] = (@ + 1) % Depth]
    /\ UNCHANGED <<head, sqes, works, copying, storage, completed, gone, refused, deletes>>

(***************************************************************************)
(* The dispatcher.                                                         *)
(***************************************************************************)
\* the FTL's part of a command.  Only a reset touches the data (__reset_zone);
\* a write may be refused: the status of its request is then an error
proc_io_cmd(i) ==
    \/ /\ cmds[i].op = "reset"
       /\ storage' = [l \in Lbas |-> IF l \in cmds[i].lbas THEN i ELSE storage[l]]
       /\ UNCHANGED refused
    \/ /\ cmds[i].op # "reset"
       /\ UNCHANGED <<storage, refused>>
    \/ /\ cmds[i].op = "write" /\ Cardinality(refused) < MaxRefused
       /\ refused' = refused \cup {i}
       /\ UNCHANGED storage

\* an iteration of the loop in nvmev_proc_io_sq() with __enqueue_io_req()
nvmev_proc_io_sq(q) ==
    /\ q \in sqes
    /\ head[q] # tail[q]
    /\ proc_io_cmd(slots[q][head[q]])
    /\ works' = [works EXCEPT ![q] = @ \cup
                   {[sq_entry |-> head[q], id |-> slots[q][head[q]], is_copied |-> FALSE]}]
    /\ head' = [head EXCEPT ![q] = (@ + 1) % Depth]
    /\ UNCHANGED <<slots, tail, sqes, copying, cmds, completed, gone, deletes>>

\* the dispatcher frees a queue whatever is outstanding in it; the host, which
\* deletes one to reset the device, gives those commands up
admin_delete_sq(q) ==
    /\ q \in sqes /\ deletes < MaxDeletes /\ Len(cmds) + deletes < MaxCmds
    /\ PromptCopy => \A w \in works[q] : w.is_copied
    /\ deletes' = deletes + 1
    /\ sqes' = sqes \ {q}
    /\ gone' = gone \cup Outstanding(q)
    /\ UNCHANGED <<slots, tail, head, works, copying, storage, cmds, completed, refused>>

\* and creates it again, with new memory and the doorbell reset; the requests of
\* the old queue are still with the worker
admin_create_sq(q) ==
    /\ q \notin sqes
    /\ sqes' = sqes \cup {q}
    /\ slots' = [slots EXCEPT ![q] = [i \in Ring |-> 0]]
    /\ tail' = [tail EXCEPT ![q] = 0]
    /\ head' = [head EXCEPT ![q] = 0]
    /\ UNCHANGED <<works, copying, storage, cmds, completed, gone, refused, deletes>>

(***************************************************************************)
(* The workers.                                                            *)
(***************************************************************************)
\* what a worker reads in a slot: zeroed memory is a flush of the first block
entry(q, i) == IF slots[q][i] = 0 THEN Blank ELSE cmds[slots[q][i]]

marked_copied(q, w) == [works EXCEPT ![q] = (@ \ {w}) \cup {[w EXCEPT !.is_copied = TRUE]}]

\* __do_perform_io() starts: offset and length are read from the slot, whatever
\* the FTL said of the command (a queue that is gone would be a null pointer)
perform_io(q, w) ==
    /\ copying[q] = Idle
    /\ w \in works[q] /\ ~ w.is_copied
    /\ q \in sqes
    /\ copying' = [copying EXCEPT ![q] = [w |-> w, left |-> entry(q, w.sq_entry).lbas]]
    /\ UNCHANGED <<slots, tail, head, sqes, works, storage, cmds, completed, gone, refused, deletes>>

next_block(q) == CHOOSE l \in copying[q].left : \A m \in copying[q].left : l <= m

\* memcpy of one block: opcode and address are read from the slot again, and
\* there is something to copy only for writes and reads
copy_block(q) ==
    LET w == copying[q].w
        left == copying[q].left \ {next_block(q)}
    IN  /\ copying[q] # Idle
        /\ storage' = IF entry(q, w.sq_entry).op = "write"
                       THEN [storage EXCEPT ![next_block(q)] = slots[q][w.sq_entry]] ELSE storage
        /\ copying' = [copying EXCEPT ![q] = IF left = {} THEN Idle ELSE [@ EXCEPT !.left = left]]
        /\ works' = IF left = {} THEN marked_copied(q, w) ELSE works
        /\ UNCHANGED <<slots, tail, head, sqes, cmds, completed, gone, refused, deletes>>

\* mutant: a request is completed when its time has come
ready_to_complete_anyway(q, w) == copying[q] = Idle

\* a worker looks at the target time only of what it has copied
ready_to_complete(q, w) == copying[q] = Idle /\ w.is_copied

\* the target time has come: __fill_cq_result()
fill_cq_result(q, w) ==
    /\ w \in works[q]
    /\ ready_to_complete(q, w)
    /\ works' = [works EXCEPT ![q] = @ \ {w}]
    /\ completed' = completed \cup {w.id}
    /\ UNCHANGED <<slots, tail, head, sqes, copying, storage, cmds, gone, refused, deletes>>

Next == \E q \in SQs :
    \/ \E c \in Ops : submit(q, c)
    \/ nvmev_proc_io_sq(q)
    \/ admin_delete_sq(q)
    \/ admin_create_sq(q)
    \/ \E w \in works[q] : perform_io(q, w)
    \/ copy_block(q)
    \/ \E w \in works[q] : fill_cq_result(q, w)

Spec == Init /\ [][Next]_vars

(***************************************************************************)
(* Properties.                                                             *)
(***************************************************************************)
Changes(i, l) == cmds[i].op \in {"write", "reset"} /\ l \in cmds[i].lbas /\ i \notin refused

\* a read never returns a block older than what the host was told is there: if a
\* write or reset of the block had been completed before the read was sent, the
\* read returns that one or one that was not completed before it was sent.
\* Dispatch, copy and completion of several queues may interleave in any way,
\* slots are used again while their command is outstanding, queues are deleted
\* and created again, and the storage of a zone is cleared by another thread
\* than writes it
ReadsCurrent == [][\A q \in SQs :
    LET r == copying[q].w.id
        l == next_block(q)
        w == storage[l]
    IN  copying[q] # Idle /\ copying'[q] # copying[q] /\ cmds[r].op = "read" =>
            ~ \E i \in cmds[r].before :
                 Changes(i, l) /\ i # w /\ (w = 0 \/ w \in cmds[i].before)]_vars

\* a write that is completed with an error has not changed the data
RefusedLeavesData == \A l \in Lbas : storage[l] \notin refused
=============================================================================
