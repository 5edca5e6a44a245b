----------------------------- MODULE Controller -----------------------------
(***************************************************************************)
(* The controller as the dispatcher thread runs it (pci.c, main.c,         *)
(* admin.c): it polls the registers the host writes, one after the other,  *)
(* then the doorbells; it answers admin commands, which create and delete  *)
(* I/O queues, in the admin completion queue.                              *)
(*                                                                         *)
(* Registers and doorbells are plain memory: the host may write between    *)
(* any two reads of the dispatcher, and writes of both sides to a doorbell *)
(* may cross.  The host is the Linux driver as this code expects it: wait  *)
(* for not ready, write aqa, asq, acq, then cc.en, wait for ready, start   *)
(* with empty queues; shut down with cc.shn.                               *)
(*                                                                         *)
(* What commands transfer is left out; queue memory is new at every start. *)
(* Handling one register is one step: cc, which nvmev_proc_bars() reads    *)
(* several times, does not change meanwhile.                               *)
(* The doorbells of I/O completion queues only feed statistics: QueuePair. *)
(***************************************************************************)
EXTENDS Integers, FiniteSets

CONSTANTS
    IOQs,       \* numbers of I/O queues, from 1 (queue q: SQ q and CQ q)
    Depth,      \* entries of every queue
    MaxBoots,   \* bound: starts of the controller
    MaxCmds,    \* bound: admin commands of one start
    MaxIo,      \* bound: I/O commands to one queue
    Ops,        \* admin commands the host uses
    AdjacentReads   \* timing: between its writes of acq and cc the host reads
                    \* other registers, and does not make both in the time the
                    \* dispatcher takes from reading acq to reading cc, the next
                    \* register; any other registers may be pending together

ASSUME ControllerAssumption ==
    /\ IOQs \subseteq Nat \ {0}
    /\ Depth \in Nat /\ Depth > 1
    /\ {MaxBoots, MaxCmds, MaxIo} \subseteq Nat
    /\ Ops \subseteq {"features", "create_cq", "create_sq", "delete_sq", "delete_cq",
                      "other", "abort"}
    /\ AdjacentReads \in BOOLEAN

VARIABLES
    bar,        \* registers: aqa, asq, acq (0, or the start that wrote them), cc, csts
    old_bar,    \* what the dispatcher last saw of them
    pc,         \* where the dispatcher is in its loop
    admin_q,    \* the admin queue: mapped addresses, curr, target, cq_head, phase
    dbs,        \* doorbells the host writes: 0 (ASQ), 1 (ACQ), 2q (SQ q)
    old_dbs,    \* and up to where the dispatcher has processed them
    qs,         \* sqes, cqes, nr_sq
    mem,        \* the admin queues in host memory, by address
    dispatched, \* I/O commands taken from SQ q since it was created
    host        \* the host driver

vars == <<bar, old_bar, pc, admin_q, dbs, old_dbs, qs, mem, dispatched, host>>

Slots == 0 .. Depth - 1
next(i) == IF i + 1 = Depth THEN 0 ELSE i + 1
distance(from, to) == (to - from) % Depth
NoCmd == [id |-> 0, op |-> "none", q |-> 0]
Doorbells == {0, 1} \cup {2 * q : q \in IOQs}

\* what the host knows and does: its step in the start sequence, the number of
\* the start, admin commands sent and unanswered, its side of the admin queues,
\* the I/O queues it has, commands it sent to them, an interrupt it got
NewHost(st, boot) ==
    [st |-> st, boot |-> boot, sent |-> 0, waiting |-> {}, head |-> 0, phase |-> 1,
     sqs |-> {}, cqs |-> {}, io |-> [q \in IOQs |-> 0], last |-> 0, irq |-> FALSE]

Init ==
    /\ bar = [aqa |-> 0, asq |-> 0, acq |-> 0, en |-> 0, shn |-> 0, rdy |-> 0, shst |-> 0]
    /\ old_bar = [aqa |-> 0, asq |-> 0, acq |-> 0, cc |-> <<0, 0>>]
    /\ pc = "aqa"
    /\ admin_q = [set |-> FALSE, sq |-> 0, cq |-> 0, cq_head |-> 0, phase |-> 0,
                  curr |-> 0, target |-> 0]
    /\ dbs = [d \in Doorbells |-> 0]
    /\ old_dbs = dbs
    /\ qs = [sqes |-> {}, cqes |-> {}, nr_sq |-> 0]
    /\ mem = [a \in 1 .. MaxBoots |-> [sq |-> [s \in Slots |-> NoCmd],
                                       cq |-> [s \in Slots |-> [id |-> 0, phase |-> 0]]]]
    /\ dispatched = [q \in IOQs |-> 0]
    /\ host = NewHost("off", 0)

(***************************************************************************)
(* The dispatcher: nvmev_proc_bars().  A register that changed is handled  *)
(* and the call returns, to nvmev_proc_dbs().                              *)
(***************************************************************************)
unchanged_register(here, there) ==
    /\ pc = here
    /\ pc' = there
    /\ UNCHANGED <<bar, old_bar, admin_q, dbs, old_dbs, qs, mem, dispatched, host>>

\* Mutant of proc_aqa: the new queue is not published in nvmev_vdev->admin_q
proc_aqa_unpublished ==
    \/ old_bar.aqa = bar.aqa /\ unchanged_register("aqa", "asq")
    \/ /\ pc = "aqa" /\ old_bar.aqa # bar.aqa
       /\ old_bar' = [old_bar EXCEPT !.aqa = bar.aqa]
       /\ dbs' = [dbs EXCEPT ![0] = 0, ![1] = 0]
       /\ old_dbs' = [old_dbs EXCEPT ![0] = 0, ![1] = 0]
       /\ pc' = "dbs"
       /\ UNCHANGED <<bar, admin_q, qs, mem, dispatched, host>>

proc_aqa ==
    \/ old_bar.aqa = bar.aqa /\ unchanged_register("aqa", "asq")
    \/ /\ pc = "aqa" /\ old_bar.aqa # bar.aqa
       /\ old_bar' = [old_bar EXCEPT !.aqa = bar.aqa]
       /\ admin_q' = [admin_q EXCEPT !.set = TRUE, !.cq_head = 0, !.phase = 1]
       /\ dbs' = [dbs EXCEPT ![0] = 0, ![1] = 0]
       /\ old_dbs' = [old_dbs EXCEPT ![0] = 0, ![1] = 0]
       /\ pc' = "dbs"
       /\ UNCHANGED <<bar, qs, mem, dispatched, host>>

proc_asq ==
    \/ old_bar.asq = bar.asq /\ unchanged_register("asq", "acq")
    \/ old_bar.asq # bar.asq /\ ~ admin_q.set /\ unchanged_register("asq", "dbs")
    \/ /\ pc = "asq" /\ old_bar.asq # bar.asq /\ admin_q.set
       /\ old_bar' = [old_bar EXCEPT !.asq = bar.asq]
       /\ admin_q' = [admin_q EXCEPT !.sq = bar.asq]
       /\ dbs' = [dbs EXCEPT ![0] = 0]
       /\ old_dbs' = [old_dbs EXCEPT ![0] = 0]
       /\ pc' = "dbs"
       /\ UNCHANGED <<bar, qs, mem, dispatched, host>>

\* Mutants of proc_acq: the queue is mapped at the first start only; the head
\* and the phase are left to aqa
proc_acq_once ==
    \/ old_bar.acq = bar.acq /\ unchanged_register("acq", "cc")
    \/ old_bar.acq # bar.acq /\ ~ admin_q.set /\ unchanged_register("acq", "dbs")
    \/ /\ pc = "acq" /\ old_bar.acq # bar.acq /\ admin_q.set
       /\ old_bar' = [old_bar EXCEPT !.acq = bar.acq]
       /\ admin_q' = [admin_q EXCEPT !.cq = IF @ = 0 THEN bar.acq ELSE @, !.cq_head = 0, !.phase = 1]
       /\ dbs' = [dbs EXCEPT ![1] = 0]
       /\ old_dbs' = [old_dbs EXCEPT ![1] = 0]
       /\ pc' = "dbs"
       /\ UNCHANGED <<bar, qs, mem, dispatched, host>>

proc_acq_keeps_phase ==
    \/ old_bar.acq = bar.acq /\ unchanged_register("acq", "cc")
    \/ old_bar.acq # bar.acq /\ ~ admin_q.set /\ unchanged_register("acq", "dbs")
    \/ /\ pc = "acq" /\ old_bar.acq # bar.acq /\ admin_q.set
       /\ old_bar' = [old_bar EXCEPT !.acq = bar.acq]
       /\ admin_q' = [admin_q EXCEPT !.cq = bar.acq]
       /\ dbs' = [dbs EXCEPT ![1] = 0]
       /\ old_dbs' = [old_dbs EXCEPT ![1] = 0]
       /\ pc' = "dbs"
       /\ UNCHANGED <<bar, qs, mem, dispatched, host>>

proc_acq ==
    \/ old_bar.acq = bar.acq /\ unchanged_register("acq", "cc")
    \/ old_bar.acq # bar.acq /\ ~ admin_q.set /\ unchanged_register("acq", "dbs")
    \/ /\ pc = "acq" /\ old_bar.acq # bar.acq /\ admin_q.set
       /\ old_bar' = [old_bar EXCEPT !.acq = bar.acq]
       /\ admin_q' = [admin_q EXCEPT !.cq = bar.acq, !.cq_head = 0, !.phase = 1]
       /\ dbs' = [dbs EXCEPT ![1] = 0]
       /\ old_dbs' = [old_dbs EXCEPT ![1] = 0]
       /\ pc' = "dbs"
       /\ UNCHANGED <<bar, qs, mem, dispatched, host>>

\* cc: enable and disable, then shutdown; enabling without an admin queue only
\* warns
proc_cc ==
    \/ old_bar.cc = <<bar.en, bar.shn>> /\ unchanged_register("cc", "dbs")
    \/ /\ pc = "cc" /\ old_bar.cc # <<bar.en, bar.shn>>
       /\ old_bar' = [old_bar EXCEPT !.cc = <<bar.en, bar.shn>>]
       /\ bar' = [bar EXCEPT !.rdy = IF bar.en = 0 THEN 0 ELSE IF admin_q.set THEN 1 ELSE @,
                             !.shst = IF bar.shn = 1 THEN 2 ELSE @]
       /\ IF bar.shn = 1
          THEN /\ admin_q' = [admin_q EXCEPT !.cq_head = 0]
               /\ dbs' = [dbs EXCEPT ![0] = 0, ![1] = 0]
               /\ old_dbs' = [old_dbs EXCEPT ![0] = 0, ![1] = 0]
          ELSE UNCHANGED <<admin_q, dbs, old_dbs>>
       /\ pc' = "dbs"
       /\ UNCHANGED <<qs, mem, dispatched, host>>

(***************************************************************************)
(* nvmev_proc_dbs(): the admin queue, then the I/O queues.                 *)
(***************************************************************************)
proc_admin_db ==
    /\ pc = "dbs"
    /\ IF dbs[0] # old_dbs[0]
       THEN /\ admin_q' = [admin_q EXCEPT !.curr = old_dbs[0], !.target = dbs[0]]
            /\ pc' = "admin"
       ELSE pc' = "acq_db" /\ UNCHANGED admin_q
    /\ UNCHANGED <<bar, old_bar, dbs, old_dbs, qs, mem, dispatched, host>>

\* What a command does to the I/O queues.  A queue that exists already is
\* replaced; one that does not is deleted without complaint
__nvmev_admin_create_cq(c) == [qs EXCEPT !.cqes = @ \cup {c.q}]
__nvmev_admin_delete_cq(c) == [qs EXCEPT !.cqes = @ \ {c.q}]
__nvmev_admin_create_sq(c) == [qs EXCEPT !.sqes = @ \cup {c.q}]
__nvmev_admin_delete_sq(c) == [qs EXCEPT !.sqes = @ \ {c.q}]

\* Number of Queues; every other feature is accepted and ignored
__nvmev_admin_set_features(c) == [qs EXCEPT !.nr_sq = c.q]

apply(c) ==
    CASE c.op = "features"  -> __nvmev_admin_set_features(c)
      [] c.op = "create_cq" -> __nvmev_admin_create_cq(c)
      [] c.op = "delete_cq" -> __nvmev_admin_delete_cq(c)
      [] c.op = "create_sq" -> __nvmev_admin_create_sq(c)
      [] c.op = "delete_sq" -> __nvmev_admin_delete_sq(c)
      [] OTHER              -> qs     \* identify, get log page and other reads, abort

\* __make_cq_entry(): the answer and the head and phase after it
__make_cq_entry(c) ==
    /\ mem' = [mem EXCEPT ![admin_q.cq].cq[admin_q.cq_head] = [id |-> c.id, phase |-> admin_q.phase]]
    /\ admin_q' = [admin_q EXCEPT !.curr = next(@), !.cq_head = next(@),
                                  !.phase = IF next(admin_q.cq_head) = 0 THEN 1 - @ ELSE @]

\* Mutant of cleared: the doorbell of a new queue keeps its old value
cleared_none(c) == {}

\* the doorbells a command resets
cleared(c) == IF c.op = "create_sq" THEN {2 * c.q} ELSE {}

\* one command; an abort is not answered
__nvmev_proc_admin_req ==
    /\ pc = "admin" /\ admin_q.curr # admin_q.target
    /\ LET c == mem[admin_q.sq].sq[admin_q.curr]
       IN  /\ qs' = apply(c)
           /\ dbs' = [d \in Doorbells |-> IF d \in cleared(c) THEN 0 ELSE dbs[d]]
           /\ old_dbs' = [d \in Doorbells |-> IF d \in cleared(c) THEN 0 ELSE old_dbs[d]]
           /\ dispatched' = IF c.op = "create_sq" THEN [dispatched EXCEPT ![c.q] = 0] ELSE dispatched
           /\ IF c.op = "abort"
              THEN admin_q' = [admin_q EXCEPT !.curr = next(@)] /\ UNCHANGED mem
              ELSE __make_cq_entry(c)
    /\ UNCHANGED <<bar, old_bar, pc, host>>

\* Mutant of admin_batch_done: no interrupt
admin_batch_silent ==
    /\ pc = "admin" /\ admin_q.curr = admin_q.target
    /\ old_dbs' = [old_dbs EXCEPT ![0] = admin_q.target]
    /\ pc' = "acq_db"
    /\ UNCHANGED <<bar, old_bar, admin_q, dbs, qs, mem, dispatched, host>>

\* the end of nvmev_proc_admin_sq(): one interrupt for the batch
admin_batch_done ==
    /\ pc = "admin" /\ admin_q.curr = admin_q.target
    /\ old_dbs' = [old_dbs EXCEPT ![0] = admin_q.target]
    /\ host' = [host EXCEPT !.irq = TRUE]
    /\ pc' = "acq_db"
    /\ UNCHANGED <<bar, old_bar, admin_q, dbs, qs, mem, dispatched>>

\* nvmev_proc_admin_cq() does nothing
nvmev_proc_admin_cq ==
    /\ pc = "acq_db"
    /\ old_dbs' = [old_dbs EXCEPT ![1] = dbs[1]]
    /\ pc' = "io"
    /\ UNCHANGED <<bar, old_bar, admin_q, dbs, qs, mem, dispatched, host>>

\* every I/O submission queue that exists and is within nr_sq is drained
proc_io_dbs ==
    /\ pc = "io"
    /\ LET live == {q \in qs.sqes : q <= qs.nr_sq}
       IN  /\ old_dbs' = [d \in Doorbells |-> IF \E q \in live : d = 2 * q THEN dbs[d] ELSE old_dbs[d]]
           /\ dispatched' = [q \in IOQs |-> IF q \in live
                                            THEN dispatched[q] + distance(old_dbs[2 * q], dbs[2 * q])
                                            ELSE dispatched[q]]
    /\ pc' = "aqa"
    /\ UNCHANGED <<bar, old_bar, admin_q, dbs, qs, mem, host>>

nvmev_dispatcher ==
    \/ proc_aqa \/ proc_asq \/ proc_acq \/ proc_cc
    \/ proc_admin_db \/ __nvmev_proc_admin_req \/ admin_batch_done
    \/ nvmev_proc_admin_cq \/ proc_io_dbs

(***************************************************************************)
(* The host.                                                               *)
(***************************************************************************)
Write(field, value, from, to) ==
    /\ host.st = from
    /\ bar' = [bar EXCEPT ![field] = value]
    /\ host' = [host EXCEPT !.st = to]
    /\ UNCHANGED <<old_bar, pc, admin_q, dbs, old_dbs, qs, mem, dispatched>>

\* Start: the registers in the order the driver writes them.  aqa holds the
\* depths, the same at every start
host_start ==
    /\ host.boot < MaxBoots /\ bar.rdy = 0
    /\ host.st = "off"
    /\ bar' = [bar EXCEPT !.aqa = Depth]
    /\ host' = NewHost("asq", host.boot + 1)
    /\ UNCHANGED <<old_bar, pc, admin_q, dbs, old_dbs, qs, mem, dispatched>>

host_asq == Write("asq", host.boot, "asq", "acq")
host_acq == Write("acq", host.boot, "acq", "enable")

host_enable ==
    /\ AdjacentReads => ~ (pc = "cc" /\ old_bar.acq # bar.acq)
    /\ Write("en", 1, "enable", "wait")

host_up ==
    /\ host.st = "wait" /\ bar.rdy = 1
    /\ host' = [host EXCEPT !.st = "up"]
    /\ UNCHANGED <<bar, old_bar, pc, admin_q, dbs, old_dbs, qs, mem, dispatched>>

Busy(q) == \E c \in host.waiting : c.q = q /\ c.op # "features"

\* the queues the host may ask for now
Allowed(op, q) ==
    CASE op = "create_cq" -> q \notin host.cqs
      [] op = "create_sq" -> q \in host.cqs /\ q \notin host.sqs
      [] op = "delete_sq" -> q \in host.sqs
      [] op = "delete_cq" -> q \in host.cqs /\ q \notin host.sqs
      [] OTHER -> TRUE

host_submit(op, q) ==
    /\ host.st = "up" /\ host.sent < MaxCmds
    /\ Cardinality(host.waiting) < Depth - 1
    /\ Allowed(op, q) /\ ~ Busy(q)
    /\ LET c == [id |-> host.sent + 1, op |-> op, q |-> q]
           tail == host.sent % Depth
       IN  /\ mem' = [mem EXCEPT ![host.boot].sq[tail] = c]
           /\ dbs' = [dbs EXCEPT ![0] = next(tail)]
           /\ host' = [host EXCEPT !.sent = @ + 1, !.waiting = @ \cup {c},
                                   !.sqs = IF op = "delete_sq" THEN @ \ {q} ELSE @,
                                   !.cqs = IF op = "delete_cq" THEN @ \ {q} ELSE @]
    /\ UNCHANGED <<bar, old_bar, pc, admin_q, old_dbs, qs, dispatched>>

Pending == mem[host.boot].cq[host.head].phase = host.phase

\* after an interrupt the host reads all completions, then rings the doorbell
host_completion ==
    /\ host.st = "up" /\ host.irq /\ Pending
    /\ LET id == mem[host.boot].cq[host.head].id
           c == CHOOSE w \in host.waiting : w.id = id
       IN  host' = [host EXCEPT !.waiting = @ \ {c}, !.last = id,
                                !.head = next(@),
                                !.phase = IF next(host.head) = 0 THEN 1 - @ ELSE @,
                                !.sqs = IF c.op = "create_sq" THEN @ \cup {c.q} ELSE @,
                                !.io = IF c.op = "create_sq" THEN [@ EXCEPT ![c.q] = 0] ELSE @,
                                !.cqs = IF c.op = "create_cq" THEN @ \cup {c.q} ELSE @]
    /\ UNCHANGED <<bar, old_bar, pc, admin_q, dbs, old_dbs, qs, mem, dispatched>>

host_irq_done ==
    /\ host.st = "up" /\ host.irq /\ ~ Pending
    /\ host' = [host EXCEPT !.irq = FALSE]
    /\ dbs' = [dbs EXCEPT ![1] = host.head]
    /\ UNCHANGED <<bar, old_bar, pc, admin_q, old_dbs, qs, mem, dispatched>>

\* an I/O command; the host lets the queue drain before it is full
host_io(q) ==
    /\ host.st = "up" /\ q \in host.sqs /\ host.io[q] < MaxIo
    /\ distance(old_dbs[2 * q], dbs[2 * q]) < Depth - 1
    /\ host' = [host EXCEPT !.io[q] = @ + 1]
    /\ dbs' = [dbs EXCEPT ![2 * q] = next(@)]
    /\ UNCHANGED <<bar, old_bar, pc, admin_q, old_dbs, qs, mem, dispatched>>

\* Shutdown, with the I/O queues deleted or left as they are, then disable.
\* csts.shst is never cleared: from the second shutdown on the host goes on at
\* once, and the dispatcher may not see cc.shn at all
host_shutdown ==
    /\ host.waiting = {} /\ ~ host.irq
    /\ Write("shn", 1, "up", "shutdown")

host_disable ==
    /\ host.st = "shutdown" /\ bar.shst = 2
    /\ bar' = [bar EXCEPT !.en = 0, !.shn = 0]
    /\ host' = [host EXCEPT !.st = "off", !.irq = FALSE]
    /\ UNCHANGED <<old_bar, pc, admin_q, dbs, old_dbs, qs, mem, dispatched>>

Host ==
    \/ host_start \/ host_asq \/ host_acq \/ host_enable \/ host_up
    \/ \E op \in Ops, q \in IOQs : host_submit(op, q)
    \/ host_completion \/ host_irq_done
    \/ \E q \in IOQs : host_io(q)
    \/ host_shutdown \/ host_disable

Next == nvmev_dispatcher \/ Host

Spec == Init /\ [][Next]_vars

\* the dispatcher is a thread that never waits; the host goes on with a start
\* once begun and serves its interrupts
Fairness ==
    /\ WF_vars(nvmev_dispatcher)
    /\ WF_vars(host_asq) /\ WF_vars(host_acq) /\ WF_vars(host_enable) /\ WF_vars(host_up)
    /\ WF_vars(host_completion) /\ WF_vars(host_irq_done)

FairSpec == Spec /\ Fairness

(***************************************************************************)
(* Properties.                                                             *)
(***************************************************************************)
Commands == [id : 1 .. MaxCmds, op : Ops, q : IOQs]
States == {"off", "asq", "acq", "enable", "wait", "up", "shutdown"}

\* indices and doorbells stay inside the queues, queue numbers are announced ones
TypeOK ==
    /\ pc \in {"aqa", "asq", "acq", "cc", "dbs", "admin", "acq_db", "io"}
    /\ admin_q.cq_head \in Slots /\ admin_q.phase \in {0, 1}
    /\ admin_q.curr \in Slots /\ admin_q.target \in Slots
    /\ dbs \in [Doorbells -> Slots] /\ old_dbs \in [Doorbells -> Slots]
    /\ qs.sqes \subseteq IOQs /\ qs.cqes \subseteq IOQs
    /\ host.st \in States /\ host.waiting \subseteq Commands

\* a controller that says it is ready uses the queues the host has written,
\* although all four registers may be pending when the dispatcher looks
\* (nvmev_proc_bars() looks at cc only after aqa, asq and acq)
ReadyMeansConfigured ==
    bar.rdy = 1 => admin_q.set /\ admin_q.sq = bar.asq /\ admin_q.cq = bar.acq

\* the processed part of the admin queue: old_dbs, or curr within a batch
Done == IF pc = "admin" THEN admin_q.curr ELSE old_dbs[0]

\* every admin command that waits is in the submission queue, is an abort, or
\* its answer is in the completion queue and unread, one answer each, in the
\* order of the commands: no doorbell is lost between the host's write and the
\* dispatcher's resets, and no unread answer is overwritten
AdminAccounted == host.st = "up" =>
    LET ids(S) == {c.id : c \in S}
        sq == mem[host.boot].sq
        cq == mem[host.boot].cq
        queued == {sq[s].id : s \in {t \in Slots : distance(Done, t) < distance(Done, dbs[0])}}
        n == distance(host.head, admin_q.cq_head)
        unread == {s \in Slots : distance(host.head, s) < n}
        aborted == ids({c \in host.waiting : c.op = "abort"}) \ queued
    IN  /\ TypeOK
        /\ ids(host.waiting) = queued \cup aborted \cup {cq[s].id : s \in unread}
        /\ Cardinality(host.waiting) = Cardinality(queued) + Cardinality(aborted) + n
        /\ \A s, t \in unread : distance(host.head, s) < distance(host.head, t) => cq[s].id < cq[t].id
        /\ \A s \in unread : cq[s].id > host.last
        /\ \A s \in Slots :
              (cq[s].phase = IF s < host.head THEN 1 - host.phase ELSE host.phase) = (s \in unread)

\* a queue the host has been told of exists, with its completion queue, and its
\* doorbell is what the host has rung since: nothing the host sent is lost and
\* no doorbell of an earlier queue of that number is taken for a command
QueuesUsable == host.st = "up" => \A q \in host.sqs :
    /\ q \in qs.sqes /\ q \in qs.cqes
    /\ dispatched[q] + distance(old_dbs[2 * q], dbs[2 * q]) = host.io[q]

\* a start the host begins succeeds: no register write is overlooked, asq and
\* acq seen before aqa are taken up in a later call
StartSucceeds == host.st = "asq" ~> host.st = "up"

\* an admin command (other than an abort) is answered and the host is told.
\* (Commands are bounded: were one left behind, some would wait for ever.)
EveryAdminAnswered == []<>(\A c \in host.waiting : c.op = "abort")
=============================================================================
