------------------------------ MODULE QueuePair ------------------------------
(***************************************************************************)
(* The path of a command through an I/O queue pair (io.c, main.c): the     *)
(* host rings a submission doorbell, the dispatcher takes the command, an  *)
(* I/O worker posts its completion and raises the interrupt, the host      *)
(* reads the completion and rings the completion doorbell.                 *)
(*                                                                         *)
(* Several submission queues share one completion queue.  With             *)
(* CONFIG_NVMEV_IO_WORKER_BY_SQ, as built, every submission queue has its  *)
(* own worker, and only the worker of the completion queue's number raises *)
(* its interrupt: one worker sets interrupt_ready under entry_lock, another *)
(* clears it, not holding that lock.                                       *)
(*                                                                         *)
(* The order of the work queue and the data are left out (see IOWorker):   *)
(* a dispatched command becomes due at some time.  The host is the         *)
(* environment: it keeps fewer commands outstanding than the queue has     *)
(* entries and reads completions by their phase tag.                       *)
(***************************************************************************)
EXTENDS Integers, FiniteSets, Functions

CONSTANTS
    SQs,        \* submission queues, and their workers
    Owner,      \* the worker that raises the interrupt
    Size,       \* queue_size of all queues
    MaxCmds     \* bound: commands the host submits to one queue

ASSUME QueueAssumption ==
    /\ Size \in Nat /\ Size > 1 /\ MaxCmds \in Nat
    /\ IsFiniteSet(SQs) /\ Owner \in SQs

VARIABLES
    sq,         \* per submission queue: dbs, old_dbs, the entries in memory
    nr_in_flight, \* sq->stat.nr_in_flight
    work,       \* per worker: commands in its work queue
    due,        \* commands whose target time has come
    pc,         \* where every worker is in its loop
    cq,         \* completion queue: head, phase, interrupt_ready, entry_lock
    cq_mem,     \* its entries in the host's memory
    cq_old,     \* old_dbs of the completion queue
    host        \* the host's side of it all

vars == <<sq, nr_in_flight, work, due, pc, cq, cq_mem, cq_old, host>>

Slots == 0 .. Size - 1
NoOne == "none"
next(i) == IF i + 1 = Size THEN 0 ELSE i + 1
distance(from, to) == (to - from) % Size

Init ==
    /\ sq = [q \in SQs |-> [db |-> 0, old |-> 0, mem |-> [s \in Slots |-> 0]]]
    /\ nr_in_flight = [q \in SQs |-> 0]
    /\ work = [q \in SQs |-> {}]
    /\ due = {}
    /\ pc = [q \in SQs |-> "sweep"]
    /\ cq = [head |-> 0, phase |-> 1, interrupt_ready |-> FALSE, entry_lock |-> NoOne]
    /\ cq_mem = [s \in Slots |-> [cmd |-> <<NoOne, 0>>, phase |-> 0]]
    /\ cq_old = 0
    /\ host = [submitted |-> [q \in SQs |-> 0], consumed |-> {}, head |-> 0, phase |-> 1,
               irq |-> FALSE, isr |-> FALSE, db |-> 0]

(***************************************************************************)
(* The host.                                                               *)
(***************************************************************************)
Commands == SQs \X (1 .. MaxCmds)

\* commands submitted whose completion the host has not read
Unfinished == {c \in Commands : c[2] <= host.submitted[c[1]]} \ host.consumed
Outstanding == Cardinality(Unfinished)

submit(q) ==
    /\ host.submitted[q] < MaxCmds
    /\ Outstanding < Size - 1
    /\ host' = [host EXCEPT !.submitted[q] = @ + 1]
    /\ sq' = [sq EXCEPT ![q].mem[sq[q].db] = host'.submitted[q], ![q].db = next(@)]
    /\ UNCHANGED <<nr_in_flight, work, due, pc, cq, cq_mem, cq_old>>

isr_start ==
    /\ host.irq /\ ~ host.isr
    /\ host' = [host EXCEPT !.irq = FALSE, !.isr = TRUE]
    /\ UNCHANGED <<sq, nr_in_flight, work, due, pc, cq, cq_mem, cq_old>>

Pending == cq_mem[host.head].phase = host.phase

isr_consume ==
    /\ host.isr /\ Pending
    /\ host' = [host EXCEPT !.consumed = @ \cup {cq_mem[host.head].cmd},
                            !.head = next(@),
                            !.phase = IF next(host.head) = 0 THEN 1 - @ ELSE @]
    /\ UNCHANGED <<sq, nr_in_flight, work, due, pc, cq, cq_mem, cq_old>>

isr_end ==
    /\ host.isr /\ ~ Pending
    /\ host' = [host EXCEPT !.isr = FALSE, !.db = host.head]
    /\ UNCHANGED <<sq, nr_in_flight, work, due, pc, cq, cq_mem, cq_old>>

(***************************************************************************)
(* The dispatcher.                                                         *)
(***************************************************************************)
\* one round of the loop in nvmev_proc_io_sq(): the command is fetched and put
\* in the work queue (a handler that returns false leaves everything as it is)
nvmev_proc_io_sq(q) ==
    /\ sq[q].db # sq[q].old
    /\ work' = [work EXCEPT ![q] = @ \cup {<<q, sq[q].mem[sq[q].old]>>}]
    /\ sq' = [sq EXCEPT ![q].old = next(@)]
    /\ nr_in_flight' = [nr_in_flight EXCEPT ![q] = @ + 1]
    /\ UNCHANGED <<due, pc, cq, cq_mem, cq_old, host>>

\* one round of the loop in nvmev_proc_io_cq()
nvmev_proc_io_cq ==
    /\ cq_old # host.db
    /\ nr_in_flight' = [nr_in_flight EXCEPT ![cq_mem[cq_old].cmd[1]] = @ - 1]
    /\ cq_old' = next(cq_old)
    /\ UNCHANGED <<sq, work, due, pc, cq, cq_mem, host>>

(***************************************************************************)
(* The workers.                                                            *)
(***************************************************************************)
\* the target time of a command passes
target_reached(c) ==
    /\ c \in UNION {work[q] : q \in SQs} /\ c \notin due
    /\ due' = due \cup {c}
    /\ UNCHANGED <<sq, nr_in_flight, work, pc, cq, cq_mem, cq_old, host>>

\* Mutant of fill_status: the work entry is not marked completed
fill_status_again(w, c) ==
    /\ pc[w] = "sweep"
    /\ c \in work[w] \cap due
    /\ cq.entry_lock = NoOne
    /\ cq_mem' = [cq_mem EXCEPT ![cq.head] = [cmd |-> c, phase |-> cq.phase]]
    /\ cq' = [cq EXCEPT !.entry_lock = w]
    /\ pc' = [pc EXCEPT ![w] = "filling"]
    /\ UNCHANGED <<sq, nr_in_flight, work, due, cq_old, host>>

\* __fill_cq_result(), up to the status word with the phase tag, from where on
\* the host may read the entry
fill_status(w, c) ==
    /\ pc[w] = "sweep"
    /\ c \in work[w] \cap due
    /\ cq.entry_lock = NoOne
    /\ cq_mem' = [cq_mem EXCEPT ![cq.head] = [cmd |-> c, phase |-> cq.phase]]
    /\ cq' = [cq EXCEPT !.entry_lock = w]
    /\ work' = [work EXCEPT ![w] = @ \ {c}]
    /\ due' = due \ {c}
    /\ pc' = [pc EXCEPT ![w] = "filling"]
    /\ UNCHANGED <<sq, nr_in_flight, cq_old, host>>

\* Mutant of advanced: the phase is not inverted when the head wraps
advanced_same_phase(c) == [c EXCEPT !.head = next(@)]

\* the head and the phase after an entry was filled
advanced(c) ==
    [c EXCEPT !.head = next(@), !.phase = IF next(c.head) = 0 THEN 1 - @ ELSE @]

\* Mutant of fill_done: only the owner of the queue sets interrupt_ready
fill_done_by_owner(w) ==
    /\ pc[w] = "filling"
    /\ cq' = [advanced(cq) EXCEPT !.interrupt_ready = @ \/ w = Owner, !.entry_lock = NoOne]
    /\ pc' = [pc EXCEPT ![w] = "sweep"]
    /\ UNCHANGED <<sq, nr_in_flight, work, due, cq_mem, cq_old, host>>

\* the rest of it: the head moves on, interrupt_ready is set
fill_done(w) ==
    /\ pc[w] = "filling"
    /\ cq' = [advanced(cq) EXCEPT !.interrupt_ready = TRUE, !.entry_lock = NoOne]
    /\ pc' = [pc EXCEPT ![w] = "sweep"]
    /\ UNCHANGED <<sq, nr_in_flight, work, due, cq_mem, cq_old, host>>

\* after a sweep: the owner looks at interrupt_ready (irq_lock is only ever
\* tried by the owner, so it gets it), clears it, raises the interrupt; another
\* worker may set it in between
check_irq(w) ==
    /\ w = Owner /\ pc[w] = "sweep"
    /\ cq.interrupt_ready
    /\ pc' = [pc EXCEPT ![w] = "clear"]
    /\ UNCHANGED <<sq, nr_in_flight, work, due, cq, cq_mem, cq_old, host>>

clear_ready(w) ==
    /\ pc[w] = "clear"
    /\ cq' = [cq EXCEPT !.interrupt_ready = FALSE]
    /\ pc' = [pc EXCEPT ![w] = "signal"]
    /\ UNCHANGED <<sq, nr_in_flight, work, due, cq_mem, cq_old, host>>

nvmev_signal_irq(w) ==
    /\ pc[w] = "signal"
    /\ host' = [host EXCEPT !.irq = TRUE]
    /\ pc' = [pc EXCEPT ![w] = "sweep"]
    /\ UNCHANGED <<sq, nr_in_flight, work, due, cq, cq_mem, cq_old>>

Worker(w) ==
    \/ \E c \in work[w] : fill_status(w, c)
    \/ fill_done(w)
    \/ check_irq(w)
    \/ clear_ready(w)
    \/ nvmev_signal_irq(w)

Next ==
    \/ \E q \in SQs : submit(q) \/ nvmev_proc_io_sq(q) \/ Worker(q)
    \/ isr_start \/ isr_consume \/ isr_end
    \/ nvmev_proc_io_cq
    \/ \E c \in UNION {work[q] : q \in SQs} : target_reached(c)

Spec == Init /\ [][Next]_vars

\* every thread keeps running (the dispatcher and the workers poll), time
\* passes, the host serves its interrupts
Fairness ==
    /\ \A q \in SQs : WF_vars(nvmev_proc_io_sq(q)) /\ WF_vars(Worker(q))
    /\ WF_vars(nvmev_proc_io_cq)
    /\ WF_vars(isr_start) /\ WF_vars(isr_consume) /\ WF_vars(isr_end)
    /\ \A q \in SQs, n \in 1 .. MaxCmds : WF_vars(target_reached(<<q, n>>))

FairSpec == Spec /\ Fairness

(***************************************************************************)
(* Properties.                                                             *)
(***************************************************************************)
\* indices stay inside the queues, commands are commands of the host
TypeOK ==
    /\ \A q \in SQs : sq[q].db \in Slots /\ sq[q].old \in Slots /\ sq[q].mem \in [Slots -> 0 .. MaxCmds]
    /\ nr_in_flight \in [SQs -> Int]
    /\ work \in [SQs -> SUBSET Commands] /\ due \subseteq Commands
    /\ pc \in [SQs -> {"sweep", "filling", "clear", "signal"}]
    /\ cq.head \in Slots /\ cq.phase \in {0, 1} /\ cq.entry_lock \in SQs \cup {NoOne}
    /\ cq_old \in Slots /\ host.head \in Slots /\ host.consumed \subseteq Commands

\* entries the workers have posted so far are before this slot
Posted == IF cq.entry_lock = NoOne THEN cq.head ELSE next(cq.head)

\* between the host's head and the posted entries every slot holds one
\* completion the host has not read, and it has the phase tag the host will
\* look for there; all other slots have the other tag, so the host stops.  No
\* worker overwrites an unread entry although __fill_cq_result() never looks
\* at the tail
UnreadWindow ==
    LET n == distance(host.head, Posted)
        tag(s) == IF s < host.head THEN 1 - host.phase ELSE host.phase
        unread == {s \in Slots : distance(host.head, s) < n}
    IN  /\ \A s \in Slots : (cq_mem[s].phase = tag(s)) = (s \in unread)
        /\ \A s \in unread : cq_mem[s].cmd \in Commands \ host.consumed
        /\ \A s, t \in unread : s # t => cq_mem[s].cmd # cq_mem[t].cmd

\* nr_in_flight, summed over the queues, counts the commands in work queues and
\* the completions whose doorbell the dispatcher has not seen.  It does so up to
\* whole laps only: a doorbell that returns to its old value before the
\* dispatcher looks is no change to nvmev_proc_dbs(), and a slot that is reused
\* before it looks is charged to the submission queue of the newer entry
InFlightTotal ==
    (SumFunctionOnSet([q \in SQs |-> nr_in_flight[q] - Cardinality(work[q])], SQs)
     - distance(cq_old, Posted)) % Size = 0

\* the commands of a queue: in the submission queue, in a work queue, posted
\* and unread, or read
PlacedOnce == \A q \in SQs :
    LET waiting == distance(sq[q].old, sq[q].db)
        posted == {s \in Slots : distance(host.head, s) < distance(host.head, Posted)
                                 /\ cq_mem[s].cmd[1] = q}
        read == {c \in host.consumed : c[1] = q}
    IN  host.submitted[q] = waiting + Cardinality(work[q]) + Cardinality(posted)
                            + Cardinality(read)

\* a command is in exactly one place: in the submission queue, in a work
\* queue, posted and unread, or read; so it is completed once.  The statistics
\* of commands in flight agree with it, up to whole laps of the queue
EachInOnePlace == TypeOK /\ InFlightTotal /\ PlacedOnce

\* every command the host submits is completed and read: no interrupt is lost
\* between the worker that sets interrupt_ready and the one that clears it.
\* (Commands are bounded: were one left behind, some would be outstanding
\* for ever.)
EveryCommandRead == []<>(Outstanding = 0)
=============================================================================
