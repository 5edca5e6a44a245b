-------------------------- MODULE ControllerProofs --------------------------
(***************************************************************************)
(* Proofs about the controller (Controller), for any number of I/O queues, *)
(* queue depth, starts and commands, when the host does not write both acq *)
(* and cc between the dispatcher's reads of the two (AdjacentReads).  All  *)
(* other orders of its writes and the dispatcher's reads are covered.      *)
(* First the registers; then the admin queue pair and the I/O queues it    *)
(* creates, which rest on the registers being up to date.                  *)
(***************************************************************************)
EXTENDS Controller, FiniteSetTheorems, FunctionTheorems, TLAPS

(***************************************************************************)
(* Registers: what the dispatcher has seen is what it uses, and nothing is *)
(* written while the controller is enabled or still ready.  Past a         *)
(* register in its poll, the dispatcher may have missed the host's write   *)
(* of it, but then the registers written after it are unseen too, so that  *)
(* it stops before cc.                                                     *)
(***************************************************************************)
Enabled == {"wait", "up", "shutdown"}
AllSeen == old_bar.aqa = bar.aqa /\ old_bar.asq = bar.asq /\ old_bar.acq = bar.acq

\* the addresses are the numbers of the starts that wrote them
Written ==
    /\ bar.asq <= host.boot /\ old_bar.asq <= host.boot
    /\ bar.acq <= host.boot /\ old_bar.acq <= host.boot
    /\ host.st = "asq" => bar.asq < host.boot /\ old_bar.asq < host.boot
    /\ host.st \in {"asq", "acq"} => bar.acq < host.boot /\ old_bar.acq < host.boot

RegInv ==
    /\ bar \in [aqa : Nat, asq : Nat, acq : Nat, en : {0, 1}, shn : {0, 1}, rdy : {0, 1}, shst : {0, 2}]
    /\ DOMAIN old_bar = {"aqa", "asq", "acq", "cc"} /\ old_bar.asq \in Nat /\ old_bar.acq \in Nat
    /\ DOMAIN admin_q = {"set", "sq", "cq", "cq_head", "phase", "curr", "target"}
    /\ admin_q.set \in BOOLEAN
    /\ old_bar.asq = admin_q.sq /\ old_bar.acq = admin_q.cq
    /\ DOMAIN host = DOMAIN NewHost("off", 0) /\ host.boot \in Nat
    /\ Written
    /\ pc = "asq" /\ old_bar.aqa # bar.aqa /\ host.st \in {"acq", "enable", "wait"} =>
          old_bar.asq # bar.asq
    /\ pc = "acq" /\ (old_bar.aqa # bar.aqa \/ old_bar.asq # bar.asq) /\ host.st \in {"enable", "wait"} =>
          old_bar.acq # bar.acq
    /\ pc = "cc" /\ host.st = "enable" /\ old_bar.acq = bar.acq => AllSeen
    /\ pc = "cc" /\ host.st \in Enabled => AllSeen
    /\ host.st \in {"up", "shutdown"} => AllSeen
    /\ bar.en = 1 => host.st \in Enabled
    /\ bar.rdy = 1 => admin_q.set /\ AllSeen /\ host.st \notin {"asq", "acq", "enable"}

\* nvmev_proc_bars(): a register the dispatcher takes over is then the one in
\* use, and cc makes the controller ready only with an admin queue.
LEMMA RegDispatcher ==
    ASSUME RegInv, nvmev_dispatcher
    PROVE  RegInv'
<1> USE DEF RegInv, Written, AllSeen, Enabled
<1>1. CASE proc_aqa
  BY <1>1 DEF proc_aqa, unchanged_register
<1>2. CASE proc_asq
  BY <1>2 DEF proc_asq, unchanged_register
<1>3. CASE proc_acq
  <2>1. CASE old_bar.acq = bar.acq
    BY <1>3, <2>1 DEF proc_acq, unchanged_register
  <2>2. CASE old_bar.acq # bar.acq /\ ~ admin_q.set
    BY <1>3, <2>2 DEF proc_acq, unchanged_register
  <2>3. CASE old_bar.acq # bar.acq /\ admin_q.set
    <3>1. /\ pc' = "dbs" /\ UNCHANGED <<bar, host>>
          /\ old_bar' = [old_bar EXCEPT !.acq = bar.acq]
          /\ admin_q' = [admin_q EXCEPT !.cq = bar.acq, !.cq_head = 0, !.phase = 1]
      BY <1>3, <2>3 DEF proc_acq, unchanged_register
    <3>2. /\ old_bar'.aqa = old_bar.aqa /\ old_bar'.asq = old_bar.asq /\ old_bar'.acq = bar.acq
          /\ DOMAIN old_bar' = DOMAIN old_bar
      BY <3>1
    <3>3. /\ admin_q'.set = admin_q.set /\ admin_q'.sq = admin_q.sq /\ admin_q'.cq = bar.acq
          /\ DOMAIN admin_q' = DOMAIN admin_q
      BY <3>1
    <3> QED BY <3>1, <3>2, <3>3
  <2> QED BY <2>1, <2>2, <2>3
<1>4. CASE proc_cc
  <2>1. CASE old_bar.cc = <<bar.en, bar.shn>>
    BY <1>4, <2>1 DEF proc_cc, unchanged_register
  <2>2. CASE old_bar.cc # <<bar.en, bar.shn>>
    <3>1. /\ pc = "cc" /\ pc' = "dbs" /\ host' = host
          /\ old_bar' = [old_bar EXCEPT !.cc = <<bar.en, bar.shn>>]
          /\ bar' = [bar EXCEPT !.rdy = IF bar.en = 0 THEN 0 ELSE IF admin_q.set THEN 1 ELSE @,
                                !.shst = IF bar.shn = 1 THEN 2 ELSE @]
          /\ admin_q' = admin_q \/ admin_q' = [admin_q EXCEPT !.cq_head = 0]
      BY <1>4, <2>2 DEF proc_cc, unchanged_register
    <3>2. /\ old_bar'.aqa = old_bar.aqa /\ old_bar'.asq = old_bar.asq /\ old_bar'.acq = old_bar.acq
          /\ DOMAIN old_bar' = DOMAIN old_bar
      BY <3>1
    <3>3. /\ admin_q'.set = admin_q.set /\ admin_q'.sq = admin_q.sq /\ admin_q'.cq = admin_q.cq
          /\ DOMAIN admin_q' = DOMAIN admin_q
      BY <3>1
    <3>4. /\ bar'.aqa = bar.aqa /\ bar'.asq = bar.asq /\ bar'.acq = bar.acq /\ bar'.en = bar.en
          /\ bar'.rdy = IF bar.en = 0 THEN 0 ELSE IF admin_q.set THEN 1 ELSE bar.rdy
          /\ bar' \in [aqa : Nat, asq : Nat, acq : Nat, en : {0, 1}, shn : {0, 1}, rdy : {0, 1}, shst : {0, 2}]
      BY <3>1
    <3> QED BY <3>1, <3>2, <3>3, <3>4
  <2> QED BY <2>1, <2>2
<1>5. CASE proc_admin_db
  BY <1>5 DEF proc_admin_db
<1>6. CASE __nvmev_proc_admin_req
  BY <1>6 DEF __nvmev_proc_admin_req, __make_cq_entry
<1>7. CASE admin_batch_done
  BY <1>7 DEF admin_batch_done
<1>8. CASE nvmev_proc_admin_cq
  BY <1>8 DEF nvmev_proc_admin_cq
<1>9. CASE proc_io_dbs
  BY <1>9 DEF proc_io_dbs
<1> QED BY <1>1, <1>2, <1>3, <1>4, <1>5, <1>6, <1>7, <1>8, <1>9 DEF nvmev_dispatcher

\* The host writes the queue registers only while the controller is neither
\* enabled nor ready, and enables it when they have been seen.
LEMMA RegHost ==
    ASSUME AdjacentReads, RegInv, Host
    PROVE  RegInv'
<1> USE ControllerAssumption DEF RegInv, Written, AllSeen, Enabled
<1>1. CASE host_start
  BY <1>1 DEF host_start, NewHost
<1>2. CASE host_asq
  BY <1>2 DEF host_asq, Write
<1>3. CASE host_acq
  BY <1>3 DEF host_acq, Write
<1>4. CASE host_enable
  BY <1>4 DEF host_enable, Write
<1>5. CASE host_up
  BY <1>5 DEF host_up
<1>6. ASSUME NEW op \in Ops, NEW q \in IOQs, host_submit(op, q) PROVE RegInv'
  BY <1>6 DEF host_submit
<1>7. CASE host_completion
  <2>1. host'.st = host.st /\ host'.boot = host.boot /\ DOMAIN host' = DOMAIN host
    BY <1>7 DEF host_completion, NewHost
  <2> QED BY <1>7, <2>1 DEF host_completion, NewHost
<1>8. CASE host_irq_done
  BY <1>8 DEF host_irq_done
<1>9. ASSUME NEW q \in IOQs, host_io(q) PROVE RegInv'
  BY <1>9 DEF host_io
<1>10. CASE host_shutdown
  BY <1>10 DEF host_shutdown, Write
<1>11. CASE host_disable
  <2>1. host'.st = "off" /\ host'.boot = host.boot /\ DOMAIN host' = DOMAIN host
    BY <1>11 DEF host_disable, NewHost
  <2>2. /\ bar'.aqa = bar.aqa /\ bar'.asq = bar.asq /\ bar'.acq = bar.acq
        /\ bar'.en = 0 /\ bar'.rdy = bar.rdy
        /\ bar' \in [aqa : Nat, asq : Nat, acq : Nat, en : {0, 1}, shn : {0, 1}, rdy : {0, 1}, shst : {0, 2}]
    BY <1>11 DEF host_disable
  <2>3. UNCHANGED <<old_bar, admin_q, pc>> /\ host.st \in Enabled
    BY <1>11 DEF host_disable
  <2> QED BY <2>1, <2>2, <2>3 DEF NewHost
<1> QED BY <1>1, <1>2, <1>3, <1>4, <1>5, <1>6, <1>7, <1>8, <1>9, <1>10, <1>11 DEF Host

\* A controller that says it is ready works on the admin queues whose addresses
\* the host has written, at the first start and at every later one.
THEOREM ReadyIsConfigured == ASSUME AdjacentReads PROVE Spec => []ReadyMeansConfigured
<1>1. Init => RegInv
  BY DEF Init, RegInv, NewHost, Enabled, AllSeen, Written
<1>2. RegInv /\ [Next]_vars => RegInv'
  <2> SUFFICES ASSUME RegInv, [Next]_vars PROVE RegInv'
    OBVIOUS
  <2>1. CASE UNCHANGED vars
    BY <2>1 DEF vars, RegInv, Written, AllSeen, NewHost
  <2> QED BY <2>1, RegDispatcher, RegHost DEF Next
<1>3. RegInv => ReadyMeansConfigured
  BY DEF RegInv, ReadyMeansConfigured, AllSeen
<1> QED BY <1>1, <1>2, <1>3, PTL DEF Spec

(***************************************************************************)
(* The admin queue: the inductive invariant.                               *)
(***************************************************************************)
AdminQueue == [set : BOOLEAN, sq : 0 .. MaxBoots, cq : 0 .. MaxBoots, cq_head : Slots,
               phase : {0, 1}, curr : Slots, target : Slots]
Queues == [sqes : SUBSET IOQs, cqes : SUBSET IOQs, nr_sq : IOQs \cup {0}]
Rings == [sq : [Slots -> Commands \cup {NoCmd}],
          cq : [Slots -> [id : 0 .. MaxCmds, phase : {0, 1}]]]
Drivers == [st : States, boot : 0 .. MaxBoots, sent : 0 .. MaxCmds, waiting : SUBSET Commands,
            head : Slots, phase : {0, 1}, sqs : SUBSET IOQs, cqs : SUBSET IOQs,
            io : [IOQs -> Nat], last : 0 .. MaxCmds, irq : BOOLEAN]

Types ==
    /\ pc \in {"aqa", "asq", "acq", "cc", "dbs", "admin", "acq_db", "io"}
    /\ admin_q \in AdminQueue
    /\ dbs \in [Doorbells -> Slots] /\ old_dbs \in [Doorbells -> Slots]
    /\ qs \in Queues
    /\ mem \in [1 .. MaxBoots -> Rings]
    /\ dispatched \in [IOQs -> Nat]
    /\ host \in Drivers

\* A start: its registers hold its number, once written; when the dispatcher has
\* seen acq, the completion queue starts at its first entry
Starting == {"asq", "acq", "enable", "wait"}
Numbered ==
    /\ host.st # "off" => host.boot >= 1
    /\ Written
    /\ host.st \notin {"off", "asq"} => bar.asq = host.boot
    /\ host.st \in {"enable", "wait", "up", "shutdown"} => bar.acq = host.boot
    /\ host.st \in {"enable", "wait"} /\ old_bar.acq = bar.acq =>
          admin_q.cq_head = 0 /\ admin_q.phase = 1

\* Unless the controller is up the driver waits for nothing, nothing is queued and
\* the dispatcher is not in a batch, or at its end; the doorbell is back at 0 when
\* a start's asq has been seen
Unused == /\ host.sent = 0 /\ host.last = 0 /\ host.head = 0 /\ host.phase = 1
          /\ host.waiting = {} /\ host.sqs = {} /\ host.cqs = {}
Quiet == Done = dbs[0] /\ (pc = "admin" => admin_q.curr = admin_q.target)
Between ==
    /\ host.st \in Starting => Unused
    /\ host.st # "up" => host.waiting = {} /\ Quiet
    /\ host.st \in {"acq", "enable", "wait"} /\ old_bar.asq = bar.asq => dbs[0] = 0
    /\ bar.shn = 1 => host.st = "shutdown"

\* The memory of a start to come is new
Fresh == [sq |-> [s \in Slots |-> NoCmd], cq |-> [s \in Slots |-> [id |-> 0, phase |-> 0]]]
Pristine == \A b \in 1 .. MaxBoots :
    b > host.boot \/ (b = host.boot /\ host.st \in Starting) => mem[b] = Fresh

Boots == Types /\ Numbered /\ Between /\ Pristine

\* While the controller is up
NrQueued == distance(Done, dbs[0])
Taken == host.sent - NrQueued
NrUnread == distance(host.head, admin_q.cq_head)
Unread == {s \in Slots : distance(host.head, s) < NrUnread}
Sq == mem[host.boot].sq
Cq == mem[host.boot].cq
Tag(s) == IF s < host.head THEN 1 - host.phase ELSE host.phase

\* the queued slots hold the commands after those taken, in their order
RingInOrder ==
    /\ dbs[0] = host.sent % Depth
    /\ NrQueued <= host.sent
    /\ pc = "admin" => distance(admin_q.curr, admin_q.target) <= NrQueued
    /\ \A s \in Slots : distance(Done, s) < NrQueued =>
          Sq[s].id = Taken + distance(Done, s) + 1 /\ Sq[s] \in host.waiting

\* the host's promises: fewer commands than slots, one at a time about a queue
WaitingApart ==
    /\ \A c \in host.waiting : c.id <= host.sent
    /\ \A c, d \in host.waiting : c.id = d.id => c = d
    /\ \A c, d \in host.waiting :
          c.q = d.q /\ c.op # "features" /\ d.op # "features" => c = d
    /\ IsFiniteSet(host.waiting) /\ Cardinality(host.waiting) <= Depth - 1

AnswersInOrder ==
    /\ host.last <= Taken
    /\ \A s \in Unread : /\ host.last < Cq[s].id /\ Cq[s].id <= Taken
                         /\ \E c \in host.waiting : c.id = Cq[s].id /\ c.op # "abort"
    /\ \A s, t \in Unread : distance(host.head, s) < distance(host.head, t) => Cq[s].id < Cq[t].id
NoneMissing == \A c \in host.waiting : c.id <= Taken =>
    c.op = "abort" \/ \E s \in Unread : Cq[s].id = c.id
TagsRight ==
    /\ admin_q.phase = Tag(admin_q.cq_head)
    /\ \A s \in Slots : Cq[s].phase = Tag(s) <=> s \in Unread

\* I/O commands the host has rung for since the queue was created
Rung(q) == dispatched[q] + distance(old_dbs[2 * q], dbs[2 * q])
Asked(q, ops) == \E c \in host.waiting : c.q = q /\ c.op \in ops

\* what the host knows of the I/O queues, and what a command the dispatcher has
\* taken has done, its answer being on the way
QueuesKnown ==
    /\ host.sqs \subseteq host.cqs
    /\ \A q \in host.cqs : q \in qs.cqes /\ ~ Asked(q, {"create_cq", "delete_cq"})
    /\ \A q \in host.sqs : /\ q \in qs.sqes /\ Rung(q) = host.io[q]
                           /\ ~ Asked(q, {"create_sq", "delete_sq"})
    /\ \A c \in host.waiting :
          /\ c.op = "create_sq" => c.q \in host.cqs
          /\ c.op = "create_sq" /\ c.id <= Taken => c.q \in qs.sqes /\ Rung(c.q) = 0
          /\ c.op = "create_cq" /\ c.id <= Taken => c.q \in qs.cqes

Up == RingInOrder /\ WaitingApart /\ AnswersInOrder /\ NoneMissing /\ TagsRight /\ QueuesKnown

Inv == RegInv /\ Boots /\ (host.st = "up" => Up)

(***************************************************************************)
(* The ring.                                                               *)
(***************************************************************************)
\* The distance of two slots, without the modulus.
LEMMA Distance ==
    ASSUME NEW a \in Slots, NEW b \in Slots
    PROVE  distance(a, b) = IF b >= a THEN b - a ELSE b - a + Depth
<1>1. Depth \in Nat /\ Depth > 1 /\ a \in Nat /\ b \in Nat /\ a < Depth /\ b < Depth
  BY ControllerAssumption DEF Slots
<1>2. CASE b >= a
  BY <1>1, <1>2 DEF distance
<1>3. CASE b < a
  <2>1. (b - a + Depth) % Depth = b - a + Depth
    BY <1>1, <1>3
  <2>2. (b - a) % Depth = (b - a + Depth) % Depth
    BY <1>1, <1>3
  <2> QED BY <1>1, <1>3, <2>1, <2>2 DEF distance
<1> QED BY <1>1, <1>2, <1>3

\* Moving either end of a window by one slot.
LEMMA Window ==
    ASSUME NEW a \in Slots, NEW b \in Slots
    PROVE  /\ next(a) \in Slots /\ distance(a, b) \in Slots /\ distance(a, a) = 0
           /\ distance(a, b) < Depth - 1 => distance(a, next(b)) = distance(a, b) + 1
           /\ distance(a, b) > 0 => distance(next(a), b) = distance(a, b) - 1
           /\ a = b <=> distance(a, b) = 0
           /\ a = b => distance(next(a), b) = Depth - 1
           /\ \A c \in Slots : distance(a, b) = distance(a, c) => b = c
<1>1. Depth \in Nat /\ Depth > 1
  BY ControllerAssumption
<1>2. /\ next(a) \in Slots /\ next(b) \in Slots /\ a \in Nat /\ a < Depth /\ b \in Nat /\ b < Depth
      /\ next(a) = IF a + 1 = Depth THEN 0 ELSE a + 1
      /\ next(b) = IF b + 1 = Depth THEN 0 ELSE b + 1
  BY <1>1 DEF next, Slots
<1>3. \A x \in Slots, y \in Slots : distance(x, y) = IF y >= x THEN y - x ELSE y - x + Depth
  BY Distance
<1>4. /\ distance(a, b) \in Slots /\ distance(a, a) = 0
      /\ a = b <=> distance(a, b) = 0
  BY <1>1, <1>2, <1>3 DEF Slots
<1>5. distance(a, b) < Depth - 1 => distance(a, next(b)) = distance(a, b) + 1
  <2>1. distance(a, b) = IF b >= a THEN b - a ELSE b - a + Depth
    BY <1>3
  <2>2. distance(a, next(b)) = IF next(b) >= a THEN next(b) - a ELSE next(b) - a + Depth
    BY <1>2, <1>3
  <2> QED BY <1>1, <1>2, <2>1, <2>2
<1>6. /\ distance(a, b) > 0 => distance(next(a), b) = distance(a, b) - 1
      /\ a = b => distance(next(a), b) = Depth - 1
  <2>1. distance(a, b) = IF b >= a THEN b - a ELSE b - a + Depth
    BY <1>3
  <2>2. distance(next(a), b) = IF b >= next(a) THEN b - next(a) ELSE b - next(a) + Depth
    BY <1>2, <1>3
  <2> QED BY <1>1, <1>2, <2>1, <2>2
<1>7. ASSUME NEW c \in Slots, distance(a, b) = distance(a, c) PROVE b = c
  <2>1. \A x \in Slots : x = IF a + distance(a, x) < Depth THEN a + distance(a, x)
                          ELSE a + distance(a, x) - Depth
    <3>1. SUFFICES ASSUME NEW x \in Slots
                   PROVE  x = IF a + distance(a, x) < Depth THEN a + distance(a, x)
                              ELSE a + distance(a, x) - Depth
      OBVIOUS
    <3>2. distance(a, x) = (IF x >= a THEN x - a ELSE x - a + Depth) /\ x \in Nat /\ x < Depth
      BY <1>1, <1>3 DEF Slots
    <3> QED BY <1>1, <1>2, <3>2
  <2> QED BY <1>7, <2>1
<1> QED BY <1>2, <1>4, <1>5, <1>6, <1>7

\* the slot at a distance
slot(a, i) == IF a + i < Depth THEN a + i ELSE a + i - Depth

\* The slot at distance i from a is a slot, and is at that distance.
LEMMA SlotAt ==
    ASSUME NEW a \in Slots, NEW i \in Slots
    PROVE  slot(a, i) \in Slots /\ distance(a, slot(a, i)) = i
<1>1. Depth \in Nat /\ Depth > 1
  BY ControllerAssumption
<1>2. slot(a, i) \in Slots
  BY <1>1 DEF slot, Slots
<1> QED BY <1>1, <1>2, Distance DEF slot, Slots

\* Quotient and remainder.
LEMMA Remainder ==
    ASSUME NEW n \in Nat, NEW d \in Int, d = n \div Depth, NEW r \in Int, r = n % Depth
    PROVE  n = d * Depth + r /\ r \in Slots
<1>1. Depth \in Nat /\ Depth > 1
  BY ControllerAssumption
<1>2. n = d * Depth + r
  BY <1>1, Z3
<1>3. r >= 0 /\ r < Depth
  BY <1>1
<1> QED BY <1>1, <1>2, <1>3 DEF Slots

\* The remainder of a multiple and a slot is the slot.
LEMMA RemainderOf ==
    ASSUME NEW d \in Int, NEW r \in Slots
    PROVE  (Depth * d + r) % Depth = r
<1>1. Depth \in Nat /\ Depth > 1 /\ r \in Int /\ 0 <= r /\ r < Depth
  BY ControllerAssumption DEF Slots
<1> QED BY <1>1, Z3

\* The host's tail, the number of commands sent, moves on like an index.
LEMMA TailMoves ==
    ASSUME NEW n \in Nat
    PROVE  n % Depth \in Slots /\ (n + 1) % Depth = next(n % Depth)
<1>1. Depth \in Nat /\ Depth > 1
  BY ControllerAssumption
<1> DEFINE r == n % Depth
           d == n \div Depth
<1>2. r \in Int /\ d \in Int
  BY <1>1
<1>3. n = d * Depth + r /\ r \in Slots
  BY <1>2, Remainder
<1> HIDE DEF r, d
<1>4. CASE r + 1 = Depth
  <2>1. n + 1 = Depth * (d + 1) + 0 /\ 0 \in Slots /\ d + 1 \in Int
    BY <1>1, <1>2, <1>3, <1>4 DEF Slots
  <2>2. (Depth * (d + 1) + 0) % Depth = 0
    BY <2>1, RemainderOf
  <2> QED BY <1>3, <1>4, <2>1, <2>2 DEF next, r
<1>5. CASE r + 1 # Depth
  <2>1. n + 1 = Depth * d + (r + 1) /\ r + 1 \in Slots
    BY <1>1, <1>2, <1>3, <1>5 DEF Slots
  <2>2. (Depth * d + (r + 1)) % Depth = r + 1
    BY <1>2, <2>1, RemainderOf
  <2> QED BY <1>3, <1>5, <2>1, <2>2 DEF next, r
<1> QED BY <1>4, <1>5

(***************************************************************************)
(* Starts and shutdowns.                                                   *)
(***************************************************************************)
\* Parts of the type invariant in the form the provers use.
LEMMA Fields ==
    ASSUME Types
    PROVE  /\ 0 \in Slots /\ 0 \in Doorbells /\ 1 \in Doorbells
           /\ \A q \in IOQs : 2 * q \in Doorbells /\ 2 * q # 0 /\ 2 * q # 1 /\ q \in Nat
           /\ \A p, q \in IOQs : 2 * p = 2 * q => p = q
           /\ \A d \in Doorbells : dbs[d] \in Slots /\ old_dbs[d] \in Slots
           /\ admin_q.cq_head \in Slots /\ admin_q.phase \in {0, 1}
           /\ admin_q.curr \in Slots /\ admin_q.target \in Slots
           /\ admin_q.sq \in 0 .. MaxBoots /\ admin_q.cq \in 0 .. MaxBoots
           /\ host.st \in States /\ host.boot \in 0 .. MaxBoots /\ host.sent \in 0 .. MaxCmds
           /\ host.waiting \in SUBSET Commands /\ host.head \in Slots /\ host.phase \in {0, 1}
           /\ host.sqs \in SUBSET IOQs /\ host.cqs \in SUBSET IOQs /\ host.io \in [IOQs -> Nat]
           /\ host.last \in 0 .. MaxCmds /\ host.irq \in BOOLEAN
           /\ Done \in Slots
<1>1. 0 \in Slots /\ 0 \in Doorbells /\ 1 \in Doorbells
  BY ControllerAssumption DEF Slots, Doorbells
<1>2. /\ \A q \in IOQs : 2 * q \in Doorbells /\ 2 * q # 0 /\ 2 * q # 1 /\ q \in Nat
      /\ \A p, q \in IOQs : 2 * p = 2 * q => p = q
  <2>1. \A q \in IOQs : q \in Nat /\ q # 0
    BY ControllerAssumption
  <2> QED BY <2>1 DEF Doorbells
<1>3. \A d \in Doorbells : dbs[d] \in Slots /\ old_dbs[d] \in Slots
  BY DEF Types
<1>4. /\ admin_q.cq_head \in Slots /\ admin_q.phase \in {0, 1}
      /\ admin_q.curr \in Slots /\ admin_q.target \in Slots
      /\ admin_q.sq \in 0 .. MaxBoots /\ admin_q.cq \in 0 .. MaxBoots
  BY DEF Types, AdminQueue
<1>5. /\ host.st \in States /\ host.boot \in 0 .. MaxBoots /\ host.sent \in 0 .. MaxCmds
      /\ host.waiting \in SUBSET Commands /\ host.head \in Slots /\ host.phase \in {0, 1}
      /\ host.sqs \in SUBSET IOQs /\ host.cqs \in SUBSET IOQs /\ host.io \in [IOQs -> Nat]
      /\ host.last \in 0 .. MaxCmds /\ host.irq \in BOOLEAN
  BY DEF Types, Drivers
<1>6. Done \in Slots
  BY <1>1, <1>3, <1>4 DEF Done
<1> QED BY <1>1, <1>2, <1>3, <1>4, <1>5, <1>6

\* A driver that starts has empty queues.
LEMMA NewDriver ==
    ASSUME NEW st \in States, NEW b \in 0 .. MaxBoots
    PROVE  /\ NewHost(st, b) \in Drivers
           /\ NewHost(st, b).st = st /\ NewHost(st, b).boot = b /\ NewHost(st, b).sent = 0
           /\ NewHost(st, b).waiting = {} /\ NewHost(st, b).head = 0 /\ NewHost(st, b).phase = 1
           /\ NewHost(st, b).sqs = {} /\ NewHost(st, b).cqs = {} /\ NewHost(st, b).last = 0
<1>1. 0 \in Slots /\ 0 \in 0 .. MaxCmds
  BY ControllerAssumption DEF Slots
<1>2. /\ NewHost(st, b).st = st /\ NewHost(st, b).boot = b /\ NewHost(st, b).sent = 0
      /\ NewHost(st, b).waiting = {} /\ NewHost(st, b).head = 0 /\ NewHost(st, b).phase = 1
      /\ NewHost(st, b).sqs = {} /\ NewHost(st, b).cqs = {} /\ NewHost(st, b).last = 0
  BY DEF NewHost
<1>3. NewHost(st, b) \in Drivers
  <2> DEFINE z == [q \in IOQs |-> 0]
  <2>1. z \in [IOQs -> Nat] /\ {} \in SUBSET Commands /\ {} \in SUBSET IOQs /\ 1 \in {0, 1}
    OBVIOUS
  <2> HIDE DEF z
  <2>2. NewHost(st, b) = [st |-> st, boot |-> b, sent |-> 0, waiting |-> {}, head |-> 0, phase |-> 1,
           sqs |-> {}, cqs |-> {}, io |-> z, last |-> 0, irq |-> FALSE]
    BY DEF NewHost, z
  <2> QED BY <1>1, <2>1, <2>2 DEF Drivers
<1> QED BY <1>2, <1>3

\* The registers are looked at, in nvmev_proc_bars().
LEMMA BootsRegisters ==
    ASSUME Inv, proc_aqa \/ proc_asq \/ proc_acq \/ proc_cc
    PROVE  /\ Boots'
           /\ host.st = "up" =>
                UNCHANGED <<admin_q, dbs, old_dbs, qs, mem, dispatched, host>>
                /\ pc # "admin" /\ pc' # "admin"
<1>1. /\ Types /\ Numbered /\ Between /\ Pristine /\ RegInv /\ 0 \in Slots /\ 0 \in Doorbells
      /\ 0 \in Nat /\ 1 \in Doorbells /\ MaxBoots \in Nat /\ host.boot \in 0 .. MaxBoots
  BY Fields, ControllerAssumption DEF Inv, Boots
<1>2. bar.asq \in 0 .. MaxBoots /\ bar.acq \in 0 .. MaxBoots /\ bar.asq \in Nat /\ bar.acq \in Nat
  BY <1>1 DEF RegInv, Numbered, Written
<1>3. /\ dbs \in [Doorbells -> Slots] /\ old_dbs \in [Doorbells -> Slots] /\ admin_q \in AdminQueue
      /\ DOMAIN old_bar = {"aqa", "asq", "acq", "cc"}
      /\ bar \in [aqa : Nat, asq : Nat, acq : Nat, en : {0, 1}, shn : {0, 1}, rdy : {0, 1}, shst : {0, 2}]
  BY <1>1 DEF Types, RegInv
<1>4. ASSUME NEW here, NEW there, unchanged_register(here, there), here # "admin", there # "admin",
             there \in {"aqa", "asq", "acq", "cc", "dbs", "admin", "acq_db", "io"}
      PROVE  /\ Boots'
             /\ UNCHANGED <<admin_q, dbs, old_dbs, qs, mem, dispatched, host>>
             /\ pc # "admin" /\ pc' # "admin"
  <2>1. /\ UNCHANGED <<bar, old_bar, admin_q, dbs, old_dbs, qs, mem, dispatched, host>>
        /\ pc = here /\ pc' = there
    BY <1>4 DEF unchanged_register
  <2>2. Types' /\ Numbered' /\ Pristine'
    BY <1>1, <1>4, <2>1 DEF Types, Numbered, Written, Pristine
  <2>3. Between'
    BY <1>1, <1>4, <2>1 DEF Between, Unused, Quiet, Done
  <2> QED BY <1>4, <2>1, <2>2, <2>3 DEF Boots
<1>5. ASSUME NEW D \in SUBSET {0, 1}, UNCHANGED <<qs, mem, dispatched, host>>,
             pc \in {"aqa", "asq", "acq", "cc"}, pc' = "dbs", admin_q' \in AdminQueue,
             dbs' = [d \in Doorbells |-> IF d \in D THEN 0 ELSE dbs[d]],
             old_dbs' = [d \in Doorbells |-> IF d \in D THEN 0 ELSE old_dbs[d]],
             bar'.shn = bar.shn, bar'.asq = bar.asq, 0 \in D \/ old_bar'.asq = old_bar.asq
      PROVE  Types' /\ Between' /\ Pristine'
  <2>1. dbs' \in [Doorbells -> Slots] /\ old_dbs' \in [Doorbells -> Slots]
    BY <1>1, <1>3, <1>5
  <2>2. Types' /\ Pristine'
    BY <1>1, <1>5, <2>1 DEF Types, Pristine
  <2>3. /\ dbs'[0] = (IF 0 \in D THEN 0 ELSE dbs[0])
        /\ old_dbs'[0] = IF 0 \in D THEN 0 ELSE old_dbs[0]
    BY <1>1, <1>5
  <2>4. Between'
    BY <1>1, <1>5, <2>3 DEF Between, Unused, Quiet, Done
  <2> QED BY <2>2, <2>4
<1>6. CASE pc = "aqa" /\ old_bar.aqa # bar.aqa /\ proc_aqa
  <2>1. /\ old_bar' = [old_bar EXCEPT !.aqa = bar.aqa]
        /\ admin_q' = [admin_q EXCEPT !.set = TRUE, !.cq_head = 0, !.phase = 1]
        /\ dbs' = [dbs EXCEPT ![0] = 0, ![1] = 0]
        /\ old_dbs' = [old_dbs EXCEPT ![0] = 0, ![1] = 0]
        /\ pc' = "dbs"
        /\ UNCHANGED <<bar, qs, mem, dispatched, host>>
    BY <1>6 DEF proc_aqa, unchanged_register
  <2>2. admin_q' \in AdminQueue /\ admin_q'.cq_head = 0 /\ admin_q'.phase = 1
    BY <1>1, <1>3, <2>1 DEF AdminQueue
  <2>3. /\ dbs' = [d \in Doorbells |-> IF d \in {0, 1} THEN 0 ELSE dbs[d]]
        /\ old_dbs' = [d \in Doorbells |-> IF d \in {0, 1} THEN 0 ELSE old_dbs[d]]
    BY <1>3, <2>1
  <2>4. Types' /\ Between' /\ Pristine'
    BY <1>5, <1>6, <2>1, <2>2, <2>3
  <2>5. Numbered'
    BY <1>1, <1>3, <2>1, <2>2 DEF Numbered, Written
  <2>6. host.st # "up"
    BY <1>1, <1>6 DEF RegInv, Enabled, AllSeen
  <2> QED BY <2>4, <2>5, <2>6 DEF Boots
<1>7. CASE pc = "asq" /\ old_bar.asq # bar.asq /\ admin_q.set /\ proc_asq
  <2>1. /\ old_bar' = [old_bar EXCEPT !.asq = bar.asq]
        /\ admin_q' = [admin_q EXCEPT !.sq = bar.asq]
        /\ dbs' = [dbs EXCEPT ![0] = 0]
        /\ old_dbs' = [old_dbs EXCEPT ![0] = 0]
        /\ pc' = "dbs"
        /\ UNCHANGED <<bar, qs, mem, dispatched, host>>
    BY <1>7 DEF proc_asq, unchanged_register
  <2>2. admin_q' \in AdminQueue /\ admin_q'.cq_head = admin_q.cq_head /\ admin_q'.phase = admin_q.phase
    BY <1>2, <1>3, <2>1 DEF AdminQueue
  <2>3. /\ dbs' = [d \in Doorbells |-> IF d \in {0} THEN 0 ELSE dbs[d]]
        /\ old_dbs' = [d \in Doorbells |-> IF d \in {0} THEN 0 ELSE old_dbs[d]]
    BY <1>3, <2>1
  <2>4. Types' /\ Between' /\ Pristine'
    BY <1>5, <1>7, <2>1, <2>2, <2>3
  <2>5. Numbered'
    BY <1>1, <1>3, <2>1, <2>2 DEF Numbered, Written
  <2>6. host.st # "up"
    BY <1>1, <1>7 DEF RegInv, Enabled, AllSeen
  <2> QED BY <2>4, <2>5, <2>6 DEF Boots
<1>8. CASE pc = "acq" /\ old_bar.acq # bar.acq /\ admin_q.set /\ proc_acq
  <2>1. /\ old_bar' = [old_bar EXCEPT !.acq = bar.acq]
        /\ admin_q' = [admin_q EXCEPT !.cq = bar.acq, !.cq_head = 0, !.phase = 1]
        /\ dbs' = [dbs EXCEPT ![1] = 0]
        /\ old_dbs' = [old_dbs EXCEPT ![1] = 0]
        /\ pc' = "dbs"
        /\ UNCHANGED <<bar, qs, mem, dispatched, host>>
    BY <1>8 DEF proc_acq, unchanged_register
  <2>2. admin_q' \in AdminQueue /\ admin_q'.cq_head = 0 /\ admin_q'.phase = 1
        /\ old_bar'.asq = old_bar.asq
    BY <1>1, <1>2, <1>3, <2>1 DEF AdminQueue
  <2>3. /\ dbs' = [d \in Doorbells |-> IF d \in {1} THEN 0 ELSE dbs[d]]
        /\ old_dbs' = [d \in Doorbells |-> IF d \in {1} THEN 0 ELSE old_dbs[d]]
    BY <1>3, <2>1
  <2>4. Types' /\ Between' /\ Pristine'
    BY <1>5, <1>8, <2>1, <2>2, <2>3
  <2>5. Numbered'
    BY <1>1, <1>3, <2>1, <2>2 DEF Numbered, Written
  <2>6. host.st # "up"
    BY <1>1, <1>8 DEF RegInv, Enabled, AllSeen
  <2> QED BY <2>4, <2>5, <2>6 DEF Boots
<1>9. CASE pc = "cc" /\ old_bar.cc # <<bar.en, bar.shn>> /\ proc_cc
  <2>1. /\ old_bar' = [old_bar EXCEPT !.cc = <<bar.en, bar.shn>>]
        /\ bar' = [bar EXCEPT !.rdy = IF bar.en = 0 THEN 0 ELSE IF admin_q.set THEN 1 ELSE @,
                             !.shst = IF bar.shn = 1 THEN 2 ELSE @]
        /\ IF bar.shn = 1
           THEN /\ admin_q' = [admin_q EXCEPT !.cq_head = 0]
                /\ dbs' = [dbs EXCEPT ![0] = 0, ![1] = 0]
                /\ old_dbs' = [old_dbs EXCEPT ![0] = 0, ![1] = 0]
           ELSE UNCHANGED <<admin_q, dbs, old_dbs>>
        /\ pc' = "dbs"
        /\ UNCHANGED <<qs, mem, dispatched, host>>
    BY <1>9 DEF proc_cc, unchanged_register
  <2>2. /\ bar'.aqa = bar.aqa /\ bar'.asq = bar.asq /\ bar'.acq = bar.acq /\ bar'.shn = bar.shn
    BY <1>3, <2>1
  <2>3. old_bar'.asq = old_bar.asq /\ old_bar'.acq = old_bar.acq
    BY <1>3, <2>1
  <2>4. CASE bar.shn = 1
    <3>1. admin_q' \in AdminQueue
      BY <1>1, <1>3, <2>1, <2>4 DEF AdminQueue
    <3>2. /\ dbs' = [d \in Doorbells |-> IF d \in {0, 1} THEN 0 ELSE dbs[d]]
          /\ old_dbs' = [d \in Doorbells |-> IF d \in {0, 1} THEN 0 ELSE old_dbs[d]]
      BY <1>3, <2>1, <2>4
    <3>3. Types' /\ Between' /\ Pristine'
      BY <1>5, <1>9, <2>1, <2>2, <2>3, <2>4, <3>1, <3>2
    <3>4. host.st = "shutdown"
      BY <1>1, <2>4 DEF Between
    <3>5. Numbered'
      BY <1>1, <2>1, <2>2, <2>3, <3>4 DEF Numbered, Written
    <3> QED BY <3>3, <3>4, <3>5 DEF Boots
  <2>5. CASE bar.shn # 1
    <3>1. UNCHANGED <<admin_q, dbs, old_dbs, host>>
      BY <2>1, <2>5
    <3>2. /\ dbs' = [d \in Doorbells |-> IF d \in {} THEN 0 ELSE dbs[d]]
          /\ old_dbs' = [d \in Doorbells |-> IF d \in {} THEN 0 ELSE old_dbs[d]]
      BY <1>3, <3>1
    <3>3. Types' /\ Between' /\ Pristine'
      <4> DEFINE D == {}
      <4>1. /\ D \in SUBSET {0, 1} /\ admin_q' \in AdminQueue
            /\ dbs' = [d \in Doorbells |-> IF d \in D THEN 0 ELSE dbs[d]]
            /\ old_dbs' = [d \in Doorbells |-> IF d \in D THEN 0 ELSE old_dbs[d]]
        BY <1>3, <2>2, <2>5, <3>1, <3>2
      <4> HIDE DEF D
      <4> QED BY <1>5, <1>9, <2>1, <2>2, <2>3, <4>1
    <3>4. Numbered'
      BY <1>1, <2>2, <2>3, <3>1 DEF Numbered, Written
    <3> QED BY <1>9, <2>1, <3>1, <3>3, <3>4 DEF Boots
  <2> QED BY <2>4, <2>5
<1>10. \/ <1>6!1 \/ <1>7!1 \/ <1>8!1 \/ <1>9!1
       \/ \E here \in {"aqa", "asq", "acq", "cc"}, there \in {"asq", "acq", "cc", "dbs"} :
             unchanged_register(here, there)
  BY DEF proc_aqa, proc_asq, proc_acq, proc_cc
<1> QED BY <1>4, <1>6, <1>7, <1>8, <1>9, <1>10

(***************************************************************************)
(* While the controller is up.                                             *)
(***************************************************************************)
\* The steps that move no admin command.
LEMMA UpQuiet ==
    ASSUME Inv, host.st = "up", UNCHANGED <<mem, qs>>, dbs'[0] = dbs[0], Done' = Done,
           pc' = "admin" => distance(admin_q'.curr, admin_q'.target) <= NrQueued,
           admin_q'.cq_head = admin_q.cq_head, admin_q'.phase = admin_q.phase,
           host'.boot = host.boot, host'.sent = host.sent, host'.waiting = host.waiting,
           host'.head = host.head, host'.phase = host.phase, host'.last = host.last,
           host'.sqs = host.sqs, host'.cqs = host.cqs,
           \A q \in host.sqs : Rung(q)' = host'.io[q],
           \A q \in IOQs \ host.sqs : Rung(q)' = Rung(q)
    PROVE  Up'
<1>1. Up /\ host.waiting \in SUBSET Commands
  BY Fields DEF Inv, Boots
<1>2. /\ NrQueued' = NrQueued /\ Taken' = Taken /\ NrUnread' = NrUnread /\ Unread' = Unread
      /\ Sq' = Sq /\ Cq' = Cq /\ \A s : Tag(s)' = Tag(s)
  BY DEF NrQueued, Taken, NrUnread, Unread, Sq, Cq, Tag
<1>3. RingInOrder'
  BY <1>1, <1>2 DEF Up, RingInOrder
<1>4. WaitingApart' /\ AnswersInOrder' /\ NoneMissing'
  BY <1>1, <1>2 DEF Up, WaitingApart, AnswersInOrder, NoneMissing
<1>5. TagsRight'
  <2>1. Tag(admin_q.cq_head)' = Tag(admin_q.cq_head)
    BY DEF Tag
  <2> QED BY <1>1, <1>2, <2>1 DEF Up, TagsRight
<1>6. QueuesKnown'
  <2>1. \A q, ops : Asked(q, ops)' = Asked(q, ops)
    BY DEF Asked
  <2>2. \A c \in host.waiting : c.op = "create_sq" => c.q \in IOQs \ host.sqs
    BY <1>1 DEF Up, QueuesKnown, Asked, Commands
  <2>3. \A c \in host.waiting : c.op = "create_sq" => Rung(c.q)' = Rung(c.q)
    BY <2>2
  <2>4. /\ \A q \in host'.cqs : q \in qs'.cqes /\ ~ Asked(q, {"create_cq", "delete_cq"})'
        /\ \A q \in host'.sqs : q \in qs'.sqes /\ ~ Asked(q, {"create_sq", "delete_sq"})'
    BY <1>1, <2>1 DEF Up, QueuesKnown
  <2>5. \A c \in host.waiting :
          /\ c.op = "create_sq" => c.q \in host.cqs
          /\ c.op = "create_sq" /\ c.id <= Taken => c.q \in qs.sqes /\ Rung(c.q)' = 0
          /\ c.op = "create_cq" /\ c.id <= Taken => c.q \in qs.cqes
    BY <1>1, <2>3 DEF Up, QueuesKnown
  <2>6. host'.sqs \subseteq host'.cqs
    BY <1>1 DEF Up, QueuesKnown
  <2> QED BY <1>2, <2>4, <2>5, <2>6 DEF QueuesKnown
<1> QED BY <1>3, <1>4, <1>5, <1>6 DEF Up

\* nvmev_proc_dbs() begins or ends a batch of admin commands, or looks at the
\* doorbell of the admin completion queue.
LEMMA StepDoorbells ==
    ASSUME Inv, proc_admin_db \/ admin_batch_done \/ nvmev_proc_admin_cq
    PROVE  Boots' /\ (host'.st = "up" => Up')
<1>1. /\ Types /\ Numbered /\ Between /\ Pristine /\ RegInv
      /\ 0 \in Doorbells /\ 1 \in Doorbells /\ 0 # 1
      /\ dbs[0] \in Slots /\ old_dbs[0] \in Slots /\ dbs[1] \in Slots
      /\ admin_q.curr \in Slots /\ admin_q.target \in Slots
      /\ \A q \in IOQs : 2 * q # 0 /\ 2 * q # 1
  BY Fields DEF Inv, Boots
<1>2. /\ UNCHANGED <<bar, old_bar, qs, mem, dispatched, dbs>>
      /\ host' = host \/ (pc = "admin" /\ host' = [host EXCEPT !.irq = TRUE])
      /\ admin_q' = admin_q \/ admin_q' = [admin_q EXCEPT !.curr = old_dbs[0], !.target = dbs[0]]
      /\ old_dbs' = old_dbs \/ old_dbs' = [old_dbs EXCEPT ![0] = admin_q.target]
           \/ old_dbs' = [old_dbs EXCEPT ![1] = dbs[1]]
      /\ pc' \in {"admin", "acq_db", "io"}
  BY DEF proc_admin_db, admin_batch_done, nvmev_proc_admin_cq
<1>3. /\ host' \in Drivers /\ host'.st = host.st /\ host'.boot = host.boot /\ host'.sent = host.sent
      /\ host'.waiting = host.waiting /\ host'.head = host.head /\ host'.phase = host.phase
      /\ host'.last = host.last /\ host'.sqs = host.sqs /\ host'.cqs = host.cqs
      /\ host'.io = host.io
  <2>1. CASE host' = host
    BY <1>1, <2>1 DEF Types
  <2>2. CASE host' = [host EXCEPT !.irq = TRUE]
    BY <1>1, <2>2 DEF Types, Drivers
  <2> QED BY <1>2, <2>1, <2>2
<1>4. /\ admin_q' \in AdminQueue /\ admin_q'.cq_head = admin_q.cq_head /\ admin_q'.phase = admin_q.phase
  BY <1>1, <1>2 DEF Types, AdminQueue
<1>5. old_dbs' \in [Doorbells -> Slots] /\ \A q \in IOQs : old_dbs'[2 * q] = old_dbs[2 * q]
  <2>1. old_dbs \in [Doorbells -> Slots]
    BY <1>1 DEF Types
  <2>2. \A q \in IOQs : 2 * q \in Doorbells
    BY Fields DEF Inv, Boots
  <2> QED BY <1>1, <1>2, <2>1, <2>2
<1>6. Types' /\ Numbered' /\ Pristine'
  BY <1>1, <1>2, <1>3, <1>4, <1>5 DEF Types, Numbered, Written, Pristine
<1>7. /\ Done' = Done
      /\ pc' = "admin" =>
           /\ pc # "admin" /\ dbs[0] # old_dbs[0]
           /\ admin_q'.curr = old_dbs[0] /\ admin_q'.target = dbs[0]
  <2>1. admin_q \in AdminQueue /\ old_dbs \in [Doorbells -> Slots]
    BY <1>1 DEF Types
  <2>2. CASE proc_admin_db
    BY <2>1, <2>2 DEF proc_admin_db, Done, AdminQueue
  <2>3. CASE admin_batch_done
    BY <1>1, <2>1, <2>3 DEF admin_batch_done, Done
  <2>4. CASE nvmev_proc_admin_cq
    BY <1>1, <2>1, <2>4 DEF nvmev_proc_admin_cq, Done
  <2> QED BY <2>2, <2>3, <2>4
<1>8. Between'
  <2>1. Unused => Unused'
    BY <1>3 DEF Unused
  <2>2. Quiet => Quiet'
    BY <1>1, <1>2, <1>7 DEF Quiet, Done
  <2> QED BY <1>1, <1>2, <1>3, <2>1, <2>2 DEF Between
<1>9. ASSUME host.st = "up" PROVE Up'
  <2>1. pc' = "admin" => distance(admin_q'.curr, admin_q'.target) = NrQueued
    BY <1>7 DEF NrQueued, Done
  <2>2. NrQueued \in Slots
    BY <1>1, Fields, Window DEF NrQueued, Inv, Boots
  <2>3. pc' = "admin" => distance(admin_q'.curr, admin_q'.target) <= NrQueued
    BY <2>1, <2>2 DEF Slots
  <2>4. \A q \in IOQs : Rung(q)' = Rung(q)
    BY <1>2, <1>5 DEF Rung
  <2>5. \A q \in host.sqs : q \in IOQs /\ Rung(q) = host.io[q]
    BY <1>1, <1>9 DEF Inv, Up, QueuesKnown, Types, Drivers
  <2>6. /\ \A q \in host.sqs : Rung(q)' = host'.io[q]
        /\ \A q \in IOQs \ host.sqs : Rung(q)' = Rung(q)
    BY <1>3, <2>4, <2>5
  <2> QED BY <1>2, <1>3, <1>4, <1>7, <1>9, <2>3, <2>6, UpQuiet
<1> QED BY <1>3, <1>6, <1>8, <1>9 DEF Boots

\* The I/O queues are drained: what was rung is then dispatched.
LEMMA StepIo ==
    ASSUME Inv, proc_io_dbs
    PROVE  Boots' /\ (host'.st = "up" => Up')
<1> DEFINE live == {q \in qs.sqes : q <= qs.nr_sq}
<1>1. /\ Types /\ Numbered /\ Between /\ Pristine
      /\ 0 \in Doorbells /\ \A q \in IOQs : 2 * q \in Doorbells /\ 2 * q # 0
      /\ \A p, q \in IOQs : 2 * p = 2 * q => p = q
      /\ live \subseteq IOQs
  <2>1. qs.sqes \subseteq IOQs
    BY DEF Inv, Boots, Types, Queues
  <2> QED BY <2>1, Fields DEF Inv, Boots
<1>2. /\ pc = "io" /\ pc' = "aqa"
      /\ old_dbs' = [d \in Doorbells |-> IF \E q \in live : d = 2 * q THEN dbs[d] ELSE old_dbs[d]]
      /\ dispatched' = [q \in IOQs |-> IF q \in live
                                       THEN dispatched[q] + distance(old_dbs[2 * q], dbs[2 * q])
                                       ELSE dispatched[q]]
      /\ UNCHANGED <<bar, old_bar, admin_q, dbs, qs, mem, host>>
  BY DEF proc_io_dbs
<1> HIDE DEF live
<1>3. \A d \in Doorbells : dbs[d] \in Slots /\ old_dbs[d] \in Slots
  BY Fields DEF Inv, Boots
<1>4. old_dbs' \in [Doorbells -> Slots] /\ old_dbs'[0] = old_dbs[0]
  BY <1>1, <1>2, <1>3
<1>5. \A q \in IOQs : /\ dispatched[q] \in Nat /\ distance(old_dbs[2 * q], dbs[2 * q]) \in Nat
                      /\ distance(dbs[2 * q], dbs[2 * q]) = 0
  <2>1. \A q \in IOQs : /\ dispatched[q] \in Nat /\ distance(old_dbs[2 * q], dbs[2 * q]) \in Slots
                        /\ distance(dbs[2 * q], dbs[2 * q]) = 0
    BY <1>1, <1>3, Window DEF Types
  <2> QED BY <2>1 DEF Slots
<1>6. dispatched' \in [IOQs -> Nat]
  BY <1>2, <1>5
<1>7. Types' /\ Numbered' /\ Pristine'
  BY <1>1, <1>2, <1>4, <1>6 DEF Types, Numbered, Written, Pristine
<1>8. Done' = Done /\ Quiet' = Quiet
  BY <1>2, <1>4 DEF Done, Quiet
<1>9. Between'
  BY <1>1, <1>2, <1>8 DEF Between, Unused
<1>10. ASSUME host.st = "up" PROVE Up'
  <2>1. ASSUME NEW q \in IOQs PROVE Rung(q)' = Rung(q)
    <3>1. CASE q \in live
      <4>1. old_dbs'[2 * q] = dbs[2 * q] /\ dispatched'[q] = dispatched[q] + distance(old_dbs[2 * q], dbs[2 * q])
        BY <1>1, <1>2, <3>1
      <4> QED BY <1>2, <1>5, <4>1 DEF Rung
    <3>2. CASE q \notin live
      <4>1. old_dbs'[2 * q] = old_dbs[2 * q] /\ dispatched'[q] = dispatched[q]
        BY <1>1, <1>2, <3>2
      <4> QED BY <1>2, <4>1 DEF Rung
    <3> QED BY <3>1, <3>2
  <2>2. \A q \in host.sqs : q \in IOQs /\ Rung(q) = host.io[q]
    BY <1>1, <1>10 DEF Inv, Up, QueuesKnown, Types, Drivers
  <2>3. /\ \A q \in host.sqs : Rung(q)' = host'.io[q]
        /\ \A q \in IOQs \ host.sqs : Rung(q)' = Rung(q)
    BY <1>2, <2>1, <2>2
  <2> QED BY <1>2, <1>8, <1>10, <2>3, UpQuiet
<1> QED BY <1>2, <1>7, <1>9, <1>10 DEF Boots

\* nvmev_proc_bars() disturbs no admin command.
LEMMA StepRegisters ==
    ASSUME Inv, proc_aqa \/ proc_asq \/ proc_acq \/ proc_cc
    PROVE  Boots' /\ (host'.st = "up" => Up')
<1>1. Boots' /\ host' = host
  BY BootsRegisters DEF proc_aqa, proc_asq, proc_acq, proc_cc, unchanged_register
<1>2. ASSUME host.st = "up" PROVE Up'
  <2>1. /\ UNCHANGED <<admin_q, dbs, old_dbs, qs, mem, dispatched, host>>
        /\ pc # "admin" /\ pc' # "admin"
    BY <1>2, BootsRegisters
  <2>2. Done' = Done /\ \A q \in IOQs : Rung(q)' = Rung(q)
    BY <2>1 DEF Done, Rung
  <2>3. \A q \in host.sqs : q \in IOQs /\ Rung(q) = host.io[q]
    BY <1>2 DEF Inv, Boots, Up, QueuesKnown, Types, Drivers
  <2>4. /\ \A q \in host.sqs : Rung(q)' = host'.io[q]
        /\ \A q \in IOQs \ host.sqs : Rung(q)' = Rung(q)
    BY <2>1, <2>2, <2>3
  <2> QED BY <1>2, <2>1, <2>2, <2>4, UpQuiet
<1> QED BY <1>1, <1>2

\* The host starts, up to the enable bit.
LEMMA StepStart ==
    ASSUME AdjacentReads, Inv, host_start \/ host_asq \/ host_acq \/ host_enable
    PROVE  Boots' /\ host'.st # "up"
<1>1. /\ Types /\ Numbered /\ Between /\ Pristine /\ RegInv
      /\ host.boot \in 0 .. MaxBoots /\ MaxBoots \in Nat /\ host \in Drivers
      /\ bar \in [aqa : Nat, asq : Nat, acq : Nat, en : {0, 1}, shn : {0, 1}, rdy : {0, 1}, shst : {0, 2}]
      /\ old_bar.asq \in Nat /\ old_bar.acq \in Nat
  <2>1. admin_q.sq \in Nat /\ admin_q.cq \in Nat
    BY Fields, ControllerAssumption DEF Inv, Boots
  <2> QED BY <2>1, Fields, ControllerAssumption DEF Inv, Boots, RegInv, Types
<1>2. UNCHANGED <<old_bar, pc, admin_q, dbs, old_dbs, qs, mem, dispatched>>
  BY DEF host_start, host_asq, host_acq, host_enable, Write
<1>3. CASE host_start
  <2>1. /\ host.boot < MaxBoots /\ host.st = "off" /\ bar' = [bar EXCEPT !.aqa = Depth]
        /\ host' = NewHost("asq", host.boot + 1)
    BY <1>3 DEF host_start
  <2>2. host.boot + 1 \in 0 .. MaxBoots /\ "asq" \in States
    BY <1>1, <2>1 DEF States
  <2>3. /\ host' \in Drivers /\ host'.st = "asq" /\ host'.boot = host.boot + 1 /\ Unused'
        /\ host'.waiting = {}
    <3>1. /\ host' \in Drivers /\ host'.st = "asq" /\ host'.boot = host.boot + 1
          /\ host'.sent = 0 /\ host'.last = 0 /\ host'.head = 0 /\ host'.phase = 1
          /\ host'.waiting = {} /\ host'.sqs = {} /\ host'.cqs = {}
      BY <2>1, <2>2, NewDriver
    <3> QED BY <3>1 DEF Unused
  <2>4. bar'.asq = bar.asq /\ bar'.acq = bar.acq /\ bar'.shn = bar.shn
    BY <1>1, <2>1
  <2>5. Types'
    BY <1>1, <1>2, <2>3 DEF Types
  <2>6. Numbered'
    BY <1>1, <1>2, <2>1, <2>3, <2>4 DEF Numbered, Written
  <2>7. Between'
    <3>1. Quiet'
      BY <1>1, <1>2, <2>1 DEF Between, Quiet, Done
    <3> QED BY <1>1, <1>2, <2>1, <2>3, <2>4, <3>1 DEF Between
  <2>8. Pristine'
    BY <1>1, <1>2, <2>3 DEF Pristine
  <2> QED BY <2>3, <2>5, <2>6, <2>7, <2>8 DEF Boots
<1>4. ASSUME NEW field \in {"asq", "acq", "en"}, NEW value \in Nat,
             NEW from \in {"asq", "acq", "enable"}, NEW to \in {"acq", "enable", "wait"},
             Write(field, value, from, to),
             from = "asq" => to = "acq" /\ field = "asq" /\ value = host.boot,
             from = "acq" => to = "enable" /\ field = "acq" /\ value = host.boot,
             from = "enable" => to = "wait" /\ field = "en"
      PROVE  Boots' /\ host'.st # "up"
  <2>1. host.st = from /\ bar' = [bar EXCEPT ![field] = value] /\ host' = [host EXCEPT !.st = to]
    BY <1>4 DEF Write
  <2>2. to \in States
    BY DEF States
  <2>3. /\ host' \in Drivers /\ host'.st = to /\ host'.boot = host.boot /\ host'.sent = host.sent
        /\ host'.waiting = host.waiting /\ host'.head = host.head /\ host'.phase = host.phase
        /\ host'.last = host.last /\ host'.sqs = host.sqs /\ host'.cqs = host.cqs
    BY <1>1, <2>1, <2>2 DEF Drivers
  <2>4. /\ bar'.shn = bar.shn
        /\ bar'.asq = (IF field = "asq" THEN value ELSE bar.asq)
        /\ bar'.acq = (IF field = "acq" THEN value ELSE bar.acq)
    BY <1>1, <2>1
  <2>5. Types'
    BY <1>1, <1>2, <2>3 DEF Types
  <2>6. Numbered'
    BY <1>1, <1>2, <1>4, <2>1, <2>3, <2>4 DEF Numbered, Written
  <2>7. Between'
    <3>1. Unused' = Unused /\ Quiet' = Quiet
      BY <1>2, <2>3 DEF Unused, Quiet, Done
    <3>2. to = "acq" => old_bar'.asq # bar'.asq
      BY <1>1, <1>2, <1>4, <2>1, <2>4 DEF Numbered, Written
    <3> QED BY <1>1, <1>2, <1>4, <2>1, <2>3, <2>4, <3>1, <3>2 DEF Between, Starting
  <2>8. Pristine'
    BY <1>1, <1>2, <1>4, <2>1, <2>3 DEF Pristine, Starting
  <2> QED BY <2>3, <2>5, <2>6, <2>7, <2>8 DEF Boots
<1>5. CASE host_asq
  BY <1>1, <1>4, <1>5 DEF host_asq
<1>6. CASE host_acq
  BY <1>1, <1>4, <1>6 DEF host_acq
<1>7. CASE host_enable
  BY <1>4, <1>7 DEF host_enable
<1> QED BY <1>3, <1>5, <1>6, <1>7

\* The host shuts the controller down and disables it: no command is left.
LEMMA StepStop ==
    ASSUME Inv, host_shutdown \/ host_disable
    PROVE  Boots' /\ host'.st # "up"
<1>1. /\ Types /\ Numbered /\ Between /\ Pristine /\ RegInv /\ host \in Drivers
      /\ bar \in [aqa : Nat, asq : Nat, acq : Nat, en : {0, 1}, shn : {0, 1}, rdy : {0, 1}, shst : {0, 2}]
  BY DEF Inv, Boots, RegInv, Types
<1>2. UNCHANGED <<old_bar, pc, admin_q, dbs, old_dbs, qs, mem, dispatched>>
  BY DEF host_shutdown, host_disable, Write
<1>3. CASE host_shutdown
  <2>1. /\ host.st = "up" /\ host.waiting = {} /\ bar' = [bar EXCEPT !.shn = 1]
        /\ host' = [host EXCEPT !.st = "shutdown"]
    BY <1>3 DEF host_shutdown, Write
  <2>2. /\ host' \in Drivers /\ host'.st = "shutdown" /\ host'.boot = host.boot
        /\ host'.waiting = host.waiting
    BY <1>1, <2>1 DEF Drivers, States
  <2>3. bar'.asq = bar.asq /\ bar'.acq = bar.acq /\ bar'.shn = 1
    BY <1>1, <2>1
  <2>4. Quiet
    <3>1. Up
      BY <2>1 DEF Inv
    <3>2. Done \in Slots /\ dbs[0] \in Slots /\ admin_q.curr \in Slots /\ admin_q.target \in Slots
      BY <1>1, Fields
    <3>3. NrQueued \in Slots /\ distance(Done, Done) = 0
      BY <3>2, Window DEF NrQueued
    <3>4. ~ (0 < NrQueued)
      BY <2>1, <3>1, <3>2, <3>3 DEF Up, RingInOrder
    <3>5. NrQueued = 0
      BY <3>3, <3>4, ControllerAssumption DEF Slots
    <3>6. Done = dbs[0]
      BY <3>2, <3>5, Window DEF NrQueued
    <3>7. ASSUME pc = "admin" PROVE admin_q.curr = admin_q.target
      <4>1. distance(admin_q.curr, admin_q.target) <= 0
        BY <3>1, <3>5, <3>7 DEF Up, RingInOrder
      <4>2. distance(admin_q.curr, admin_q.target) \in Slots
        BY <3>2, Window
      <4>3. distance(admin_q.curr, admin_q.target) = 0
        BY <4>1, <4>2, ControllerAssumption DEF Slots
      <4> QED BY <3>2, <4>3, Window
    <3> QED BY <3>6, <3>7 DEF Quiet
  <2>5. Types'
    BY <1>1, <1>2, <2>2 DEF Types
  <2>6. Numbered'
    BY <1>1, <1>2, <2>1, <2>2, <2>3 DEF Numbered, Written
  <2>7. Between'
    BY <1>1, <1>2, <2>1, <2>2, <2>3, <2>4 DEF Between, Starting, Quiet, Done
  <2>8. Pristine'
    BY <1>1, <1>2, <2>1, <2>2 DEF Pristine, Starting
  <2> QED BY <2>2, <2>5, <2>6, <2>7, <2>8 DEF Boots
<1>4. CASE host_disable
  <2>1. /\ host.st = "shutdown" /\ bar.shst = 2 /\ bar' = [bar EXCEPT !.en = 0, !.shn = 0]
        /\ host' = [host EXCEPT !.st = "off", !.irq = FALSE]
    BY <1>4 DEF host_disable
  <2>2. /\ host' \in Drivers /\ host'.st = "off" /\ host'.boot = host.boot
        /\ host'.waiting = host.waiting
    BY <1>1, <2>1 DEF Drivers, States
  <2>3. bar'.asq = bar.asq /\ bar'.acq = bar.acq /\ bar'.shn = 0
    BY <1>1, <2>1
  <2>4. Types'
    BY <1>1, <1>2, <2>2 DEF Types
  <2>5. Numbered'
    BY <1>1, <1>2, <2>1, <2>2, <2>3 DEF Numbered, Written
  <2>6. Between'
    BY <1>1, <1>2, <2>1, <2>2, <2>3 DEF Between, Starting, Quiet, Done
  <2>7. Pristine'
    BY <1>1, <1>2, <2>1, <2>2 DEF Pristine, Starting
  <2> QED BY <2>2, <2>4, <2>5, <2>6, <2>7 DEF Boots
<1> QED BY <1>3, <1>4

\* The addresses the dispatcher uses are those of this start.
LEMMA SameQueues ==
    ASSUME Inv, host.st \in {"up", "shutdown"}
    PROVE  /\ admin_q.sq = host.boot /\ admin_q.cq = host.boot
           /\ host.boot \in 1 .. MaxBoots /\ MaxBoots \in Nat
<1>1. host.boot \in 0 .. MaxBoots /\ MaxBoots \in Nat
  BY Fields, ControllerAssumption DEF Inv, Boots
<1>2. host.boot >= 1
  BY DEF Inv, Boots, Numbered, Written
<1>3. admin_q.sq = host.boot /\ admin_q.cq = host.boot
  BY DEF Inv, Boots, Numbered, Written, RegInv, Enabled, AllSeen
<1> QED BY <1>1, <1>2, <1>3

\* What Up says, in the form the provers use.
LEMMA UpFacts ==
    ASSUME Inv, host.st = "up"
    PROVE  /\ NrQueued \in Nat /\ NrQueued < Depth /\ NrUnread \in Nat /\ NrUnread < Depth
           /\ Depth \in Nat /\ Depth > 1 /\ MaxCmds \in Nat
           /\ host.sent \in Nat /\ host.sent <= MaxCmds /\ NrQueued <= host.sent
           /\ Taken \in Nat /\ Taken = host.sent - NrQueued
           /\ Sq \in [Slots -> Commands \cup {NoCmd}]
           /\ Cq \in [Slots -> [id : 0 .. MaxCmds, phase : {0, 1}]]
           /\ \A s \in Slots : Cq[s].id \in Nat
           /\ \A c \in host.waiting : c \in Commands /\ c.id \in Nat /\ c.id > 0 /\ c.op \in Ops /\ c.q \in IOQs
           /\ Unread \subseteq Slots
           /\ \A a, b \in Slots : distance(a, b) \in Nat /\ distance(a, b) < Depth
           /\ host.last \in Nat
<1>1. Depth \in Nat /\ Depth > 1 /\ MaxCmds \in Nat
  BY ControllerAssumption
<1>2. \A a, b \in Slots : distance(a, b) \in Nat /\ distance(a, b) < Depth
  <2>1. \A a, b \in Slots : distance(a, b) \in Slots
    BY Window
  <2> QED BY <1>1, <2>1 DEF Slots
<1>3. /\ NrQueued \in Nat /\ NrQueued < Depth /\ NrUnread \in Nat /\ NrUnread < Depth
  BY <1>2, Fields DEF Inv, Boots, NrQueued, NrUnread
<1>4. host.sent \in Nat /\ host.sent <= MaxCmds /\ NrQueued <= host.sent
  BY <1>1, Fields DEF Inv, Boots, Up, RingInOrder
<1>5. Taken \in Nat /\ Taken = host.sent - NrQueued
  BY <1>3, <1>4 DEF Taken
<1>6. mem[host.boot] \in Rings
  BY SameQueues DEF Inv, Boots, Types
<1>7. /\ Sq \in [Slots -> Commands \cup {NoCmd}]
      /\ Cq \in [Slots -> [id : 0 .. MaxCmds, phase : {0, 1}]]
  BY <1>6 DEF Rings, Sq, Cq
<1>8. \A s \in Slots : Cq[s].id \in Nat
  BY <1>1, <1>7
<1>9. host.waiting \subseteq Commands
  BY Fields DEF Inv, Boots
<1>10. \A c \in host.waiting : c \in Commands /\ c.id \in Nat /\ c.id > 0 /\ c.op \in Ops /\ c.q \in IOQs
  BY <1>1, <1>9 DEF Commands
<1>11. Unread \subseteq Slots
  BY DEF Unread
<1>12. host.last \in Nat
  BY <1>1, Fields DEF Inv, Boots
<1> QED BY <1>1, <1>2, <1>3, <1>4, <1>5, <1>7, <1>8, <1>10, <1>11, <1>12

\* The submission queue holds no more commands than wait.
LEMMA QueueFits ==
    ASSUME Inv, host.st = "up"
    PROVE  NrQueued <= Cardinality(host.waiting)
<1> DEFINE f == [i \in 0 .. NrQueued - 1 |-> Sq[slot(Done, i)]]
<1>1. NrQueued \in Nat /\ NrQueued < Depth /\ Depth \in Nat /\ Done \in Slots /\ Taken \in Nat
  BY UpFacts, Fields DEF Inv, Boots
<1>2. \A i \in 0 .. NrQueued - 1 : i \in Slots
  BY <1>1 DEF Slots
<1>3. \A i \in 0 .. NrQueued - 1 : slot(Done, i) \in Slots /\ distance(Done, slot(Done, i)) = i
  BY <1>1, <1>2, SlotAt
<1>4. \A i \in 0 .. NrQueued - 1 : f[i] \in host.waiting /\ f[i].id = Taken + i + 1
  BY <1>1, <1>3 DEF Inv, Up, RingInOrder
<1>5. f \in Injection(0 .. NrQueued - 1, host.waiting)
  <2>1. f \in [0 .. NrQueued - 1 -> host.waiting]
    BY <1>4
  <2> HIDE DEF f
  <2>2. \A i, j \in 0 .. NrQueued - 1 : f[i] = f[j] => i = j
    BY <1>1, <1>4
  <2> QED BY <2>1, <2>2 DEF Injection, IsInjective
<1> HIDE DEF f
<1>6. Cardinality(0 .. NrQueued - 1) <= Cardinality(host.waiting)
  BY <1>5, FS_Injection DEF Inv, Up, WaitingApart
<1>7. Cardinality(0 .. NrQueued - 1) = NrQueued
  BY <1>1, FS_Interval
<1> QED BY <1>6, <1>7

\* There is room for the answer to a queued command.
LEMMA RoomToAnswer ==
    ASSUME Inv, host.st = "up", NrQueued > 0
    PROVE  NrUnread < Depth - 1
<1> DEFINE f == [i \in 0 .. NrUnread - 1 |->
                   CHOOSE c \in host.waiting : c.id = Cq[slot(host.head, i)].id]
           Others == host.waiting \ {Sq[Done]}
<1>1. /\ NrUnread \in Nat /\ Depth \in Nat /\ NrUnread < Depth /\ host.head \in Slots /\ Taken \in Nat
      /\ Done \in Slots /\ distance(Done, Done) = 0
  BY UpFacts, Fields, Window DEF Inv, Boots
<1>2. Sq[Done] \in host.waiting /\ Sq[Done].id = Taken + 1
  BY <1>1 DEF Inv, Up, RingInOrder
<1>3. \A i \in 0 .. NrUnread - 1 :
        i \in Slots /\ slot(host.head, i) \in Unread /\ distance(host.head, slot(host.head, i)) = i
  <2>1. \A i \in 0 .. NrUnread - 1 : i \in Slots /\ i < NrUnread
    BY <1>1 DEF Slots
  <2>2. \A i \in 0 .. NrUnread - 1 :
          slot(host.head, i) \in Slots /\ distance(host.head, slot(host.head, i)) = i
    BY <1>1, <2>1, SlotAt
  <2> QED BY <2>1, <2>2 DEF Unread
<1>4. \A s \in Unread : /\ Cq[s].id <= Taken /\ Cq[s].id \in Nat
                        /\ \E c \in host.waiting : c.id = Cq[s].id
  BY UpFacts DEF Inv, Up, AnswersInOrder
<1>5. \A i \in 0 .. NrUnread - 1 : f[i] \in host.waiting /\ f[i].id = Cq[slot(host.head, i)].id
  BY <1>3, <1>4
<1> HIDE DEF f
<1>6. \A i \in 0 .. NrUnread - 1 : f[i] \in Others
  BY <1>1, <1>2, <1>3, <1>4, <1>5
<1>7. \A i, j \in 0 .. NrUnread - 1 : f[i] = f[j] => i = j
  <2>1. \A i, j \in 0 .. NrUnread - 1 : i < j => f[i].id < f[j].id
    BY <1>3, <1>5 DEF Inv, Up, AnswersInOrder
  <2>2. \A i \in 0 .. NrUnread - 1 : f[i].id \in Nat
    BY <1>3, <1>4, <1>5
  <2> QED BY <1>1, <2>1, <2>2
<1>8. f \in Injection(0 .. NrUnread - 1, Others)
  <2>1. f \in [0 .. NrUnread - 1 -> Others]
    BY <1>6 DEF f
  <2> QED BY <1>7, <2>1 DEF Injection, IsInjective
<1>9. IsFiniteSet(host.waiting) /\ Cardinality(host.waiting) <= Depth - 1 /\ Cardinality(host.waiting) \in Nat
  BY FS_CardinalityType DEF Inv, Up, WaitingApart
<1>10. IsFiniteSet(Others) /\ Cardinality(Others) = Cardinality(host.waiting) - 1
  BY <1>2, <1>9, FS_RemoveElement
<1>11. Cardinality(0 .. NrUnread - 1) <= Cardinality(Others)
  BY <1>8, <1>10, FS_Injection
<1>12. Cardinality(0 .. NrUnread - 1) = NrUnread
  BY <1>1, FS_Interval
<1> QED BY <1>1, <1>9, <1>10, <1>11, <1>12

\* The host takes the controller for started: its queues are empty.
LEMMA StepUp ==
    ASSUME Inv, host_up
    PROVE  Boots' /\ Up'
<1>1. /\ host.st = "wait" /\ bar.rdy = 1 /\ host' = [host EXCEPT !.st = "up"]
      /\ UNCHANGED <<bar, old_bar, pc, admin_q, dbs, old_dbs, qs, mem, dispatched>>
  BY DEF host_up
<1>2. /\ Types /\ Numbered /\ Between /\ Pristine /\ RegInv /\ host \in Drivers
      /\ host.boot \in 1 .. MaxBoots /\ Depth \in Nat /\ Depth > 1
  <2>1. host.boot \in 0 .. MaxBoots /\ MaxBoots \in Nat
    BY Fields, ControllerAssumption DEF Inv, Boots
  <2> QED BY <1>1, <2>1, ControllerAssumption DEF Inv, Boots, Numbered, Written, Types
<1>3. /\ host' \in Drivers /\ host'.st = "up" /\ host'.boot = host.boot /\ host'.sent = host.sent
      /\ host'.waiting = host.waiting /\ host'.head = host.head /\ host'.phase = host.phase
      /\ host'.last = host.last /\ host'.sqs = host.sqs /\ host'.cqs = host.cqs
  BY <1>1, <1>2 DEF Drivers, States
<1>4. Quiet /\ Unused /\ dbs[0] = 0
  BY <1>1, <1>2 DEF Between, Starting, RegInv, AllSeen
<1>5. Boots'
  <2>1. Types' /\ Numbered' /\ Pristine'
    BY <1>1, <1>2, <1>3 DEF Types, Numbered, Written, Pristine, Starting
  <2>2. Between'
    BY <1>1, <1>2, <1>3 DEF Between, Starting
  <2> QED BY <2>1, <2>2 DEF Boots
<1>6. /\ admin_q.cq_head = 0 /\ admin_q.phase = 1 /\ mem[host.boot] = Fresh
  BY <1>1, <1>2 DEF Numbered, Written, RegInv, AllSeen, Pristine, Starting
<1>7. /\ Done' = 0 /\ dbs'[0] = 0 /\ (pc' = "admin" => admin_q'.curr = 0 /\ admin_q'.target = 0) /\ 0 \in Slots
      /\ host'.sent = 0 /\ host'.last = 0 /\ host'.head = 0 /\ host'.phase = 1
      /\ host'.waiting = {} /\ host'.sqs = {} /\ host'.cqs = {}
  BY <1>1, <1>2, <1>3, <1>4 DEF Quiet, Unused, Done, Slots
<1>8. distance(0, 0) = 0 /\ \A a, b \in Slots : distance(a, b) \in Nat
  <2>1. distance(0, 0) = 0 /\ \A a, b \in Slots : distance(a, b) \in Slots
    BY <1>7, Window
  <2> QED BY <2>1 DEF Slots
<1>9. NrQueued' = 0 /\ Taken' = 0 /\ NrUnread' = 0 /\ Unread' = {}
  BY <1>1, <1>6, <1>7, <1>8 DEF NrQueued, Taken, NrUnread, Unread
<1>10. RingInOrder'
  <2>1. 0 % Depth = 0
    BY <1>2
  <2> QED BY <1>7, <1>8, <1>9, <2>1 DEF RingInOrder
<1>11. WaitingApart'
  BY <1>2, <1>7, FS_EmptySet DEF WaitingApart
<1>12. AnswersInOrder' /\ NoneMissing'
  BY <1>7, <1>9 DEF AnswersInOrder, NoneMissing
<1>13. TagsRight'
  <2>1. \A s \in Slots : Cq'[s].phase = 0
    BY <1>1, <1>3, <1>6 DEF Cq, Fresh
  <2>2. \A s \in Slots : s \in Nat
    BY DEF Slots
  <2> QED BY <1>1, <1>6, <1>7, <1>9, <2>1, <2>2 DEF TagsRight, Tag
<1>14. QueuesKnown'
  BY <1>7 DEF QueuesKnown
<1> QED BY <1>5, <1>10, <1>11, <1>12, <1>13, <1>14 DEF Up

\* The host ends an interrupt, or rings for an I/O command.
LEMMA StepRing ==
    ASSUME Inv, host_irq_done \/ \E q \in IOQs : host_io(q)
    PROVE  Boots' /\ Up'
<1>1. /\ Types /\ Numbered /\ Between /\ Pristine /\ host.st = "up" /\ Up /\ host \in Drivers
      /\ dbs \in [Doorbells -> Slots] /\ 0 \in Doorbells /\ 1 \in Doorbells /\ host.head \in Slots
      /\ \A q \in IOQs : 2 * q \in Doorbells /\ 2 * q # 0 /\ 2 * q # 1
      /\ \A p, q \in IOQs : 2 * p = 2 * q => p = q
      /\ host.io \in [IOQs -> Nat] /\ host.sqs \in SUBSET IOQs
  <2>1. host.st = "up"
    BY DEF host_irq_done, host_io
  <2> QED BY <2>1, Fields DEF Inv, Boots, Types
<1>2. UNCHANGED <<bar, old_bar, pc, admin_q, old_dbs, qs, mem, dispatched>>
  BY DEF host_irq_done, host_io
<1>3. ASSUME NEW d \in Doorbells, NEW v \in Slots, d # 0, dbs' = [dbs EXCEPT ![d] = v],
             host' \in Drivers, host'.st = host.st, host'.boot = host.boot, host'.sent = host.sent,
             host'.waiting = host.waiting, host'.head = host.head, host'.phase = host.phase,
             host'.last = host.last, host'.sqs = host.sqs, host'.cqs = host.cqs,
             \A q \in host.sqs : Rung(q)' = host'.io[q],
             \A q \in IOQs \ host.sqs : Rung(q)' = Rung(q)
      PROVE  Boots' /\ Up'
  <2>1. dbs' \in [Doorbells -> Slots] /\ dbs'[0] = dbs[0]
    BY <1>1, <1>3
  <2>2. Types' /\ Numbered' /\ Pristine'
    BY <1>1, <1>2, <1>3, <2>1 DEF Types, Numbered, Written, Pristine
  <2>3. Between'
    BY <1>1, <1>2, <1>3 DEF Between, Starting
  <2>4. Done' = Done
    BY <1>2 DEF Done
  <2>5. pc' = "admin" => distance(admin_q'.curr, admin_q'.target) <= NrQueued
    BY <1>1, <1>2 DEF Up, RingInOrder
  <2>6. Up'
    BY <1>1, <1>2, <1>3, <2>1, <2>4, <2>5, UpQuiet
  <2> QED BY <2>2, <2>3, <2>6 DEF Boots
<1>4. CASE host_irq_done
  <2>1. dbs' = [dbs EXCEPT ![1] = host.head] /\ host' = [host EXCEPT !.irq = FALSE]
    BY <1>4 DEF host_irq_done
  <2>2. /\ host' \in Drivers /\ host'.st = host.st /\ host'.boot = host.boot /\ host'.sent = host.sent
        /\ host'.waiting = host.waiting /\ host'.head = host.head /\ host'.phase = host.phase
        /\ host'.last = host.last /\ host'.sqs = host.sqs /\ host'.cqs = host.cqs /\ host'.io = host.io
    BY <1>1, <2>1 DEF Drivers
  <2>3. \A q \in IOQs : Rung(q)' = Rung(q)
    BY <1>1, <1>2, <2>1 DEF Rung
  <2>4. \A q \in host.sqs : Rung(q) = host.io[q]
    BY <1>1 DEF Up, QueuesKnown
  <2>5. /\ \A q \in host.sqs : Rung(q)' = host'.io[q]
        /\ \A q \in IOQs \ host.sqs : Rung(q)' = Rung(q)
    BY <1>1, <2>2, <2>3, <2>4
  <2> DEFINE d == 1
  <2>6. d \in Doorbells /\ d # 0 /\ dbs' = [dbs EXCEPT ![d] = host.head]
    BY <1>1, <2>1
  <2> HIDE DEF d
  <2> QED BY <1>1, <1>3, <2>2, <2>5, <2>6
<1>5. ASSUME NEW q \in IOQs, host_io(q) PROVE Boots' /\ Up'
  <2>1. /\ q \in host.sqs /\ distance(old_dbs[2 * q], dbs[2 * q]) < Depth - 1
        /\ host' = [host EXCEPT !.io[q] = @ + 1]
        /\ dbs' = [dbs EXCEPT ![2 * q] = next(@)]
    BY <1>5 DEF host_io
  <2>2. /\ dbs[2 * q] \in Slots /\ old_dbs[2 * q] \in Slots /\ next(dbs[2 * q]) \in Slots
        /\ distance(old_dbs[2 * q], next(dbs[2 * q])) = distance(old_dbs[2 * q], dbs[2 * q]) + 1
        /\ distance(old_dbs[2 * q], dbs[2 * q]) \in Nat
    <3>1. dbs[2 * q] \in Slots /\ old_dbs[2 * q] \in Slots
      BY <1>1 DEF Types
    <3>2. distance(old_dbs[2 * q], dbs[2 * q]) \in Nat
      BY <1>1, <3>1, UpFacts
    <3> QED BY <2>1, <3>1, <3>2, Window
  <2>3. /\ host' \in Drivers /\ host'.st = host.st /\ host'.boot = host.boot /\ host'.sent = host.sent
        /\ host'.waiting = host.waiting /\ host'.head = host.head /\ host'.phase = host.phase
        /\ host'.last = host.last /\ host'.sqs = host.sqs /\ host'.cqs = host.cqs
        /\ host'.io[q] = host.io[q] + 1 /\ \A r \in IOQs \ {q} : host'.io[r] = host.io[r]
    <3> DEFINE io == [host.io EXCEPT ![q] = host.io[q] + 1]
    <3>1. io \in [IOQs -> Nat] /\ io[q] = host.io[q] + 1 /\ \A r \in IOQs \ {q} : io[r] = host.io[r]
      BY <1>1
    <3>2. host' = [host EXCEPT !.io = io]
      BY <2>1
    <3> HIDE DEF io
    <3>3. /\ host' \in Drivers /\ host'.st = host.st /\ host'.boot = host.boot /\ host'.sent = host.sent
          /\ host'.waiting = host.waiting /\ host'.head = host.head /\ host'.phase = host.phase
          /\ host'.last = host.last /\ host'.sqs = host.sqs /\ host'.cqs = host.cqs /\ host'.io = io
      BY <1>1, <3>1, <3>2 DEF Drivers
    <3> QED BY <3>1, <3>3
  <2>4. dispatched[q] \in Nat /\ Rung(q) = host.io[q]
    BY <1>1, <2>1 DEF Types, Up, QueuesKnown
  <2>5. Rung(q)' = host'.io[q]
    <3>1. dbs'[2 * q] = next(dbs[2 * q])
      BY <1>1, <2>1
    <3> QED BY <1>2, <2>2, <2>3, <2>4, <3>1 DEF Rung
  <2>6. \A r \in IOQs \ {q} : Rung(r)' = Rung(r)
    BY <1>1, <1>2, <2>1 DEF Rung
  <2>7. \A r \in host.sqs \ {q} : Rung(r) = host.io[r]
    BY <1>1 DEF Up, QueuesKnown
  <2>8. /\ \A r \in host.sqs : Rung(r)' = host'.io[r]
        /\ \A r \in IOQs \ host.sqs : Rung(r)' = Rung(r)
    BY <1>1, <2>1, <2>3, <2>5, <2>6, <2>7
  <2>9. dbs' = [dbs EXCEPT ![2 * q] = next(dbs[2 * q])]
    BY <2>1
  <2> QED BY <1>1, <1>3, <2>2, <2>3, <2>8, <2>9
<1> QED BY <1>4, <1>5

\* The host sends an admin command: a slot of the queue is free, and no other
\* command about the same I/O queue waits.
LEMMA StepSubmit ==
    ASSUME Inv, NEW op \in Ops, NEW q \in IOQs, host_submit(op, q)
    PROVE  Boots' /\ Up'
<1> DEFINE c == [id |-> host.sent + 1, op |-> op, q |-> q]
           tail == host.sent % Depth
           b == host.boot
<1>1. /\ host.st = "up" /\ host.sent < MaxCmds /\ Cardinality(host.waiting) < Depth - 1
      /\ Allowed(op, q) /\ ~ Busy(q)
      /\ mem' = [mem EXCEPT ![b].sq[tail] = c]
      /\ dbs' = [dbs EXCEPT ![0] = next(tail)]
      /\ host' = [host EXCEPT !.sent = @ + 1, !.waiting = @ \cup {c},
                              !.sqs = IF op = "delete_sq" THEN @ \ {q} ELSE @,
                              !.cqs = IF op = "delete_cq" THEN @ \ {q} ELSE @]
      /\ UNCHANGED <<bar, old_bar, pc, admin_q, old_dbs, qs, dispatched>>
  BY DEF host_submit
<1>2. /\ Types /\ Numbered /\ Between /\ Pristine /\ Up /\ host \in Drivers
      /\ dbs \in [Doorbells -> Slots] /\ 0 \in Doorbells /\ mem \in [1 .. MaxBoots -> Rings]
      /\ \A r \in IOQs : 2 * r \in Doorbells /\ 2 * r # 0
      /\ host.waiting \in SUBSET Commands /\ host.sqs \in SUBSET IOQs /\ host.cqs \in SUBSET IOQs
      /\ Done \in Slots
  BY <1>1, Fields DEF Inv, Boots, Types
<1>3. /\ NrQueued \in Nat /\ Depth \in Nat /\ Depth > 1 /\ MaxCmds \in Nat
      /\ host.sent \in Nat /\ NrQueued <= host.sent /\ Taken \in Nat /\ Taken = host.sent - NrQueued
      /\ Sq \in [Slots -> Commands \cup {NoCmd}]
      /\ \A d \in host.waiting : d \in Commands /\ d.id \in Nat /\ d.op \in Ops /\ d.q \in IOQs
      /\ \A x, y \in Slots : distance(x, y) \in Nat
      /\ Unread \subseteq Slots
  BY <1>1, UpFacts
<1>4. b \in 1 .. MaxBoots
  BY <1>1, SameQueues
<1>5. /\ c \in Commands /\ c.id = host.sent + 1 /\ c.op = op /\ c.q = q
  BY <1>1, <1>3 DEF Commands
<1>6. tail \in Slots /\ next(tail) \in Slots /\ (host.sent + 1) % Depth = next(tail) /\ dbs[0] = tail
  BY <1>2, <1>3, TailMoves, Window DEF Up, RingInOrder
<1>7. NrQueued < Depth - 1 /\ NrQueued = distance(Done, tail)
  <2>1. NrQueued <= Cardinality(host.waiting) /\ Cardinality(host.waiting) \in Nat
    BY <1>1, <1>2, QueueFits, FS_CardinalityType DEF Up, WaitingApart
  <2> QED BY <1>1, <1>3, <1>6, <2>1 DEF NrQueued
<1> HIDE DEF c, tail, b
<1>8. /\ host' \in Drivers /\ host'.st = "up" /\ host'.boot = b /\ host'.sent = host.sent + 1
      /\ host'.waiting = host.waiting \cup {c} /\ host'.head = host.head /\ host'.phase = host.phase
      /\ host'.last = host.last /\ host'.io = host.io
      /\ host'.sqs = (IF op = "delete_sq" THEN host.sqs \ {q} ELSE host.sqs)
      /\ host'.cqs = (IF op = "delete_cq" THEN host.cqs \ {q} ELSE host.cqs)
  <2> DEFINE w == host.waiting \cup {c}
             s == IF op = "delete_sq" THEN host.sqs \ {q} ELSE host.sqs
             t == IF op = "delete_cq" THEN host.cqs \ {q} ELSE host.cqs
             n == host.sent + 1
  <2>1. /\ w \in SUBSET Commands /\ s \in SUBSET IOQs /\ t \in SUBSET IOQs
    BY <1>2, <1>5
  <2>2. n \in 0 .. MaxCmds
    BY <1>1, <1>3
  <2>3. host' = [[[[host EXCEPT !.sent = n] EXCEPT !.waiting = w] EXCEPT !.sqs = s] EXCEPT !.cqs = t]
    BY <1>1, <1>2 DEF Drivers
  <2> HIDE DEF w, s, t, n
  <2>4. /\ host' \in Drivers /\ host'.st = host.st /\ host'.boot = host.boot /\ host'.sent = n
        /\ host'.waiting = w /\ host'.head = host.head /\ host'.phase = host.phase
        /\ host'.last = host.last /\ host'.io = host.io /\ host'.sqs = s /\ host'.cqs = t
    BY <1>2, <2>1, <2>2, <2>3 DEF Drivers
  <2> QED BY <1>1, <2>4 DEF w, s, t, n, b
<1>9. /\ mem' \in [1 .. MaxBoots -> Rings] /\ Cq' = Cq /\ Sq' = [Sq EXCEPT ![tail] = c]
      /\ \A x \in 1 .. MaxBoots : x # b => mem'[x] = mem[x]
  <2> DEFINE s == [Sq EXCEPT ![tail] = c]
             r == [mem[b] EXCEPT !.sq = s]
  <2>1. s \in [Slots -> Commands \cup {NoCmd}]
    BY <1>3, <1>5, <1>6
  <2>2. mem' = [mem EXCEPT ![b] = r]
    BY <1>1, <1>2, <1>4 DEF Rings, Sq, b
  <2> HIDE DEF s
  <2>3. mem[b] \in Rings
    BY <1>2, <1>4
  <2>4. r \in Rings /\ r.sq = s /\ r.cq = mem[b].cq
    BY <2>1, <2>3 DEF Rings
  <2> HIDE DEF r
  <2>5. mem' \in [1 .. MaxBoots -> Rings] /\ mem'[b] = r
        /\ \A x \in 1 .. MaxBoots : x # b => mem'[x] = mem[x]
    BY <1>2, <1>4, <2>2, <2>4
  <2>6. Cq' = mem'[b].cq /\ Sq' = mem'[b].sq /\ Cq = mem[b].cq
    BY <1>8 DEF Cq, Sq, b
  <2> QED BY <2>4, <2>5, <2>6 DEF s
<1>10. dbs' \in [Doorbells -> Slots] /\ dbs'[0] = next(tail) /\ \A r \in IOQs : dbs'[2 * r] = dbs[2 * r]
  BY <1>1, <1>2, <1>6
<1>11. Boots'
  <2>1. Types'
    BY <1>1, <1>2, <1>8, <1>9, <1>10 DEF Types
  <2>2. Numbered'
    BY <1>1, <1>2, <1>8 DEF Numbered, Written, b
  <2>3. Between'
    BY <1>1, <1>2, <1>8 DEF Between, Starting
  <2>4. Pristine'
    <3>1. \A x \in 1 .. MaxBoots : x > host.boot => mem[x] = Fresh /\ x # b
      BY <1>2, <1>4 DEF Pristine, b
    <3> QED BY <1>8, <1>9, <3>1 DEF Pristine, Starting, b
  <2> QED BY <2>1, <2>2, <2>3, <2>4 DEF Boots
<1>12. Done' = Done /\ NrQueued' = NrQueued + 1 /\ Taken' = Taken
  <2>1. Done' = Done
    BY <1>1 DEF Done
  <2>2. distance(Done, next(tail)) = distance(Done, tail) + 1
    BY <1>2, <1>6, <1>7, Window
  <2>3. NrQueued' = NrQueued + 1
    BY <1>7, <1>10, <2>1, <2>2 DEF NrQueued
  <2> QED BY <1>3, <1>8, <2>1, <2>3 DEF Taken
<1>13. NrUnread' = NrUnread /\ Unread' = Unread /\ \A s : Tag(s)' = Tag(s)
  BY <1>1, <1>8 DEF NrUnread, Unread, Tag
<1>14. RingInOrder'
  <2>1. dbs'[0] = host'.sent % Depth /\ NrQueued' <= host'.sent
    BY <1>3, <1>6, <1>8, <1>10, <1>12
  <2>2. pc' = "admin" => distance(admin_q'.curr, admin_q'.target) <= NrQueued'
    <3>1. admin_q.curr \in Slots /\ admin_q.target \in Slots
      BY <1>2, Fields
    <3>2. distance(admin_q.curr, admin_q.target) \in Nat
      BY <1>3, <3>1
    <3>3. pc = "admin" => distance(admin_q.curr, admin_q.target) <= NrQueued
      BY <1>2 DEF Up, RingInOrder
    <3> QED BY <1>1, <1>3, <1>12, <3>2, <3>3
  <2>3. ASSUME NEW s \in Slots, distance(Done, s) < NrQueued + 1
        PROVE  Sq'[s].id = Taken + distance(Done, s) + 1 /\ Sq'[s] \in host'.waiting
    <3>1. distance(Done, s) \in Nat
      BY <1>2, <1>3
    <3>2. CASE s = tail
      BY <1>3, <1>5, <1>6, <1>7, <1>8, <1>9, <3>1, <3>2
    <3>3. CASE s # tail
      <4>1. distance(Done, s) # NrQueued
        <5>1. \A x \in Slots : distance(Done, tail) = distance(Done, x) => tail = x
          BY <1>2, <1>6, Window
        <5> QED BY <1>7, <3>3, <5>1
      <4>2. distance(Done, s) < NrQueued
        BY <1>3, <2>3, <3>1, <4>1
      <4>3. Sq[s].id = Taken + distance(Done, s) + 1 /\ Sq[s] \in host.waiting
        BY <1>2, <4>2 DEF Up, RingInOrder
      <4> QED BY <1>3, <1>8, <1>9, <3>3, <4>3
    <3> QED BY <3>2, <3>3
  <2> QED BY <1>12, <2>1, <2>2, <2>3 DEF RingInOrder
<1>15. WaitingApart'
  <2>1. /\ \A d \in host.waiting : d.id <= host.sent
        /\ \A d, e \in host.waiting : d.id = e.id => d = e
        /\ \A d, e \in host.waiting : d.q = e.q /\ d.op # "features" /\ e.op # "features" => d = e
        /\ IsFiniteSet(host.waiting)
    BY <1>2 DEF Up, WaitingApart
  <2>2. \A d \in host.waiting : d.id # c.id /\ (d.q = q => d.op = "features")
    BY <1>1, <1>3, <1>5, <2>1 DEF Busy
  <2>3. \A d \in host'.waiting : d.id <= host'.sent
    BY <1>3, <1>5, <1>8, <2>1
  <2>4. /\ \A d, e \in host'.waiting : d.id = e.id => d = e
        /\ \A d, e \in host'.waiting : d.q = e.q /\ d.op # "features" /\ e.op # "features" => d = e
    BY <1>5, <1>8, <2>1, <2>2
  <2>5. /\ IsFiniteSet(host.waiting \cup {c})
        /\ Cardinality(host.waiting \cup {c}) =
             IF c \in host.waiting THEN Cardinality(host.waiting) ELSE Cardinality(host.waiting) + 1
    BY <2>1, FS_AddElement
  <2>6. Cardinality(host.waiting) \in Nat
    BY <2>1, FS_CardinalityType
  <2>7. Cardinality(host'.waiting) <= Depth - 1
    BY <1>1, <1>3, <1>8, <2>5, <2>6
  <2> QED BY <1>8, <2>3, <2>4, <2>5, <2>7 DEF WaitingApart
<1>16. AnswersInOrder'
  <2>1. /\ host.last <= Taken
        /\ \A s \in Unread : /\ host.last < Cq[s].id /\ Cq[s].id <= Taken
                             /\ \E d \in host.waiting : d.id = Cq[s].id /\ d.op # "abort"
        /\ \A s, t \in Unread : distance(host.head, s) < distance(host.head, t) => Cq[s].id < Cq[t].id
    BY <1>2 DEF Up, AnswersInOrder
  <2> QED BY <1>8, <1>9, <1>12, <1>13, <2>1 DEF AnswersInOrder
<1>17. NoneMissing'
  <2>1. ~ (c.id <= Taken)
    BY <1>3, <1>5
  <2> QED BY <1>2, <1>8, <1>9, <1>12, <1>13, <2>1 DEF NoneMissing, Up
<1>18. TagsRight'
  <2>1. Tag(admin_q.cq_head)' = Tag(admin_q.cq_head)
    BY <1>1, <1>8 DEF Tag
  <2> QED BY <1>1, <1>2, <1>9, <1>13, <2>1 DEF TagsRight, Up
<1>19. QueuesKnown'
  <2>1. /\ host.sqs \subseteq host.cqs
        /\ \A r \in host.cqs : r \in qs.cqes /\ ~ Asked(r, {"create_cq", "delete_cq"})
        /\ \A r \in host.sqs : r \in qs.sqes /\ Rung(r) = host.io[r] /\ ~ Asked(r, {"create_sq", "delete_sq"})
        /\ \A d \in host.waiting :
              /\ d.op = "create_sq" => d.q \in host.cqs
              /\ d.op = "create_sq" /\ d.id <= Taken => d.q \in qs.sqes /\ Rung(d.q) = 0
              /\ d.op = "create_cq" /\ d.id <= Taken => d.q \in qs.cqes
    BY <1>2 DEF Up, QueuesKnown
  <2>2. \A r \in IOQs : Rung(r)' = Rung(r)
    BY <1>1, <1>10 DEF Rung
  <2>3. /\ op = "create_cq" => q \notin host.cqs
        /\ op = "create_sq" => q \in host.cqs /\ q \notin host.sqs
        /\ op = "delete_cq" => q \notin host.sqs
    BY <1>1 DEF Allowed
  <2>4. \A r, ops : Asked(r, ops)' <=> Asked(r, ops) \/ (r = q /\ op \in ops)
    BY <1>5, <1>8 DEF Asked
  <2>5. host'.sqs \subseteq host'.cqs
    BY <1>8, <2>1, <2>3
  <2>6. \A r \in host'.cqs : r \in qs'.cqes /\ ~ Asked(r, {"create_cq", "delete_cq"})'
    BY <1>1, <1>8, <2>1, <2>3, <2>4
  <2>7. \A r \in host'.sqs : /\ r \in qs'.sqes /\ Rung(r)' = host'.io[r]
                             /\ ~ Asked(r, {"create_sq", "delete_sq"})'
    <3>1. \A r \in host'.sqs : r \in host.sqs /\ r \in IOQs
      BY <1>2, <1>8
    <3>2. \A r \in host'.sqs : r \in qs'.sqes /\ Rung(r)' = host'.io[r]
      BY <1>1, <1>8, <2>1, <2>2, <3>1
    <3>3. \A r \in host'.sqs : ~ Asked(r, {"create_sq", "delete_sq"})'
      BY <1>8, <2>1, <2>3, <2>4, <3>1
    <3> QED BY <3>2, <3>3
  <2>8. ASSUME NEW d \in host'.waiting
        PROVE  /\ d.op = "create_sq" => d.q \in host'.cqs
               /\ d.op = "create_sq" /\ d.id <= Taken' => d.q \in qs'.sqes /\ Rung(d.q)' = 0
               /\ d.op = "create_cq" /\ d.id <= Taken' => d.q \in qs'.cqes
    <3>1. CASE d = c
      <4>1. ~ (c.id <= Taken')
        BY <1>3, <1>5, <1>12
      <4>2. op = "create_sq" => q \in host'.cqs
        BY <1>8, <2>3
      <4> QED BY <1>5, <3>1, <4>1, <4>2
    <3>2. CASE d \in host.waiting
      <4>1. d.op = "create_sq" => d.q # q
        BY <1>1, <3>2 DEF Busy
      <4>2. d.op = "create_sq" => d.q \in host'.cqs
        BY <1>8, <2>1, <3>2, <4>1
      <4>3. d.q \in IOQs
        BY <1>3, <3>2
      <4>4. Rung(d.q)' = Rung(d.q)
        BY <2>2, <4>3
      <4> QED BY <1>1, <1>12, <2>1, <3>2, <4>2, <4>4
    <3> QED BY <1>8, <3>1, <3>2
  <2> QED BY <2>5, <2>6, <2>7, <2>8 DEF QueuesKnown
<1> QED BY <1>11, <1>14, <1>15, <1>16, <1>17, <1>18, <1>19 DEF Up

\* The host reads the answer at its head, to a command that waits.
LEMMA StepAnswer ==
    ASSUME Inv, host_completion
    PROVE  Boots' /\ Up'
<1> DEFINE at == host.head
           id == Cq[at].id
           c == CHOOSE w \in host.waiting : w.id = id
<1>1. /\ host.st = "up" /\ Cq[at].phase = host.phase
      /\ host' = [host EXCEPT !.waiting = @ \ {c}, !.last = id,
                              !.head = next(@),
                              !.phase = IF next(at) = 0 THEN 1 - @ ELSE @,
                              !.sqs = IF c.op = "create_sq" THEN @ \cup {c.q} ELSE @,
                              !.io = IF c.op = "create_sq" THEN [@ EXCEPT ![c.q] = 0] ELSE @,
                              !.cqs = IF c.op = "create_cq" THEN @ \cup {c.q} ELSE @]
      /\ UNCHANGED <<bar, old_bar, pc, admin_q, dbs, old_dbs, qs, mem, dispatched>>
  BY DEF host_completion, Pending, Cq
<1>2. /\ Types /\ Numbered /\ Between /\ Pristine /\ Up /\ host \in Drivers
      /\ host.waiting \in SUBSET Commands /\ host.sqs \in SUBSET IOQs /\ host.cqs \in SUBSET IOQs
      /\ host.io \in [IOQs -> Nat] /\ at \in Slots /\ host.phase \in {0, 1}
      /\ next(at) \in Slots /\ admin_q.cq_head \in Slots /\ distance(at, at) = 0
      /\ NrUnread = distance(at, admin_q.cq_head) /\ Done \in Slots
  BY <1>1, Fields, Window DEF Inv, Boots, Types, NrUnread
<1>3. /\ NrQueued \in Nat /\ NrUnread \in Nat /\ NrUnread < Depth /\ Depth \in Nat /\ Depth > 1 /\ MaxCmds \in Nat
      /\ Taken \in Nat /\ Unread \subseteq Slots
      /\ \A s \in Slots : Cq[s].id \in 0 .. MaxCmds /\ Cq[s].phase \in {0, 1} /\ Cq[s].id \in Nat
      /\ \A d \in host.waiting : d \in Commands /\ d.id \in Nat /\ d.op \in Ops /\ d.q \in IOQs
      /\ \A x, y \in Slots : distance(x, y) \in Nat /\ distance(x, y) < Depth
      /\ at \in Nat /\ at < Depth
  <2>1. Cq \in [Slots -> [id : 0 .. MaxCmds, phase : {0, 1}]]
    BY <1>1, UpFacts
  <2>2. \A s \in Slots : Cq[s].id \in 0 .. MaxCmds /\ Cq[s].phase \in {0, 1}
    BY <2>1
  <2>3. at \in Nat /\ at < Depth
    BY <1>2, ControllerAssumption DEF Slots
  <2> QED BY <1>1, <2>2, <2>3, UpFacts
<1>4. at \in Unread
  <2>1. Tag(at) = host.phase
    BY <1>3 DEF Tag
  <2> QED BY <1>1, <1>2, <2>1 DEF Up, TagsRight
<1>5. /\ c \in host.waiting /\ c.id = id /\ c.op # "abort" /\ id <= Taken /\ c.q \in IOQs /\ id \in 0 .. MaxCmds
      /\ id \in Nat
  <2>1. PICK d \in host.waiting : d.id = id /\ d.op # "abort"
    BY <1>2, <1>4 DEF Up, AnswersInOrder
  <2>2. c \in host.waiting /\ c.id = id
    BY <2>1
  <2>3. c = d
    BY <1>2, <2>1, <2>2 DEF Up, WaitingApart
  <2>4. id <= Taken
    BY <1>2, <1>4 DEF Up, AnswersInOrder
  <2> QED BY <1>2, <1>3, <2>1, <2>2, <2>3, <2>4
<1> HIDE DEF c
<1>6. \A d \in host.waiting : d # c => d.id # id
  BY <1>2, <1>5 DEF Up, WaitingApart
<1> HIDE DEF id, at
<1>7. /\ host' \in Drivers /\ host'.st = "up" /\ host'.boot = host.boot /\ host'.sent = host.sent
      /\ host'.waiting = host.waiting \ {c} /\ host'.last = id /\ host'.head = next(at)
      /\ host'.phase = (IF next(at) = 0 THEN 1 - host.phase ELSE host.phase)
      /\ host'.sqs = (IF c.op = "create_sq" THEN host.sqs \cup {c.q} ELSE host.sqs)
      /\ host'.io = (IF c.op = "create_sq" THEN [host.io EXCEPT ![c.q] = 0] ELSE host.io)
      /\ host'.cqs = (IF c.op = "create_cq" THEN host.cqs \cup {c.q} ELSE host.cqs)
  <2> DEFINE w == host.waiting \ {c}
             p == IF next(at) = 0 THEN 1 - host.phase ELSE host.phase
             s == IF c.op = "create_sq" THEN host.sqs \cup {c.q} ELSE host.sqs
             i == IF c.op = "create_sq" THEN [host.io EXCEPT ![c.q] = 0] ELSE host.io
             t == IF c.op = "create_cq" THEN host.cqs \cup {c.q} ELSE host.cqs
  <2>1. w \in SUBSET Commands /\ s \in SUBSET IOQs /\ t \in SUBSET IOQs
    BY <1>2, <1>5
  <2>2. p \in {0, 1}
    BY <1>2
  <2>3. i \in [IOQs -> Nat]
    BY <1>2
  <2>4. host' = [[[[[[[host EXCEPT !.waiting = w] EXCEPT !.last = id] EXCEPT !.head = next(at)]
                    EXCEPT !.phase = p] EXCEPT !.sqs = s] EXCEPT !.io = i] EXCEPT !.cqs = t]
    BY <1>1, <1>2 DEF Drivers, at
  <2> HIDE DEF w, p, s, i, t
  <2>5. /\ host' \in Drivers /\ host'.st = host.st /\ host'.boot = host.boot /\ host'.sent = host.sent
        /\ host'.waiting = w /\ host'.last = id /\ host'.head = next(at)
        /\ host'.phase = p /\ host'.sqs = s /\ host'.io = i /\ host'.cqs = t
    BY <1>2, <1>5, <2>1, <2>2, <2>3, <2>4 DEF Drivers
  <2> QED BY <1>1, <2>5 DEF w, p, s, i, t
<1>8. Boots'
  <2>1. Types' /\ Numbered' /\ Pristine'
    BY <1>1, <1>2, <1>7 DEF Types, Numbered, Written, Pristine, Starting
  <2>2. Between'
    BY <1>1, <1>2, <1>7 DEF Between, Starting
  <2> QED BY <2>1, <2>2 DEF Boots
<1>9. Done' = Done /\ NrQueued' = NrQueued /\ Taken' = Taken /\ Sq' = Sq /\ Cq' = Cq
  BY <1>1, <1>7 DEF Done, NrQueued, Taken, Sq, Cq
<1>10. NrUnread' = NrUnread - 1 /\ NrUnread > 0
  <2>1. NrUnread > 0
    BY <1>2, <1>3, <1>4 DEF Unread, at
  <2>2. distance(next(at), admin_q.cq_head) = distance(at, admin_q.cq_head) - 1
    BY <1>2, <2>1, Window
  <2> QED BY <1>1, <1>2, <1>7, <2>1, <2>2 DEF NrUnread
<1>11. \A s \in Slots : s # at => distance(next(at), s) = distance(at, s) - 1 /\ distance(at, s) > 0
  <2>1. SUFFICES ASSUME NEW s \in Slots, s # at
                 PROVE  distance(next(at), s) = distance(at, s) - 1 /\ distance(at, s) > 0
    OBVIOUS
  <2>2. distance(at, s) # 0
    BY <1>2, <2>1, Window
  <2>3. distance(at, s) > 0
    <3>1. distance(at, s) \in Nat
      BY <1>2, <1>3, <2>1
    <3> QED BY <2>2, <3>1
  <2> QED BY <1>2, <2>1, <2>3, Window
<1>12. Unread' = Unread \ {at}
  <2>1. \A s \in Slots : s \in Unread' <=> distance(next(at), s) < NrUnread - 1
    BY <1>7, <1>10 DEF Unread
  <2>2. ASSUME NEW s \in Slots, s # at
        PROVE  distance(next(at), s) < NrUnread - 1 <=> distance(at, s) < NrUnread
    <3>1. distance(next(at), s) = distance(at, s) - 1 /\ distance(at, s) \in Nat
      BY <1>2, <1>3, <1>11, <2>2
    <3> QED BY <1>3, <3>1
  <2>3. ~ (distance(next(at), at) < NrUnread - 1)
    <3>1. distance(next(at), at) = Depth - 1
      BY <1>2, Window
    <3> QED BY <1>3, <3>1
  <2>4. Unread' \subseteq Slots /\ Unread \subseteq Slots /\ \A s \in Slots : s \in Unread <=> distance(at, s) < NrUnread
    BY DEF Unread, at
  <2> QED BY <1>2, <2>1, <2>2, <2>3, <2>4
<1>13. \A s \in Slots : Tag(s)' = IF s = at THEN 1 - host.phase ELSE Tag(s)
  <2>1. SUFFICES ASSUME NEW s \in Slots
                 PROVE  Tag(s)' = IF s = at THEN 1 - host.phase ELSE Tag(s)
    OBVIOUS
  <2>2. s \in Nat /\ s < Depth
    BY <1>3 DEF Slots
  <2>3. CASE at + 1 = Depth
    <3>1. host'.head = 0 /\ host'.phase = 1 - host.phase
      BY <1>7, <2>3 DEF next
    <3>2. Tag(s)' = 1 - host.phase
      BY <1>2, <2>2, <3>1 DEF Tag
    <3> QED BY <1>3, <2>2, <2>3, <3>2 DEF Tag, at
  <2>4. CASE at + 1 # Depth
    <3>1. host'.head = at + 1 /\ host'.phase = host.phase
      BY <1>3, <1>7, <2>4 DEF next
    <3>2. Tag(s)' = IF s < at + 1 THEN 1 - host.phase ELSE host.phase
      BY <3>1 DEF Tag
    <3> QED BY <1>3, <2>2, <3>2 DEF Tag, at
  <2> QED BY <2>3, <2>4
<1>14. TagsRight'
  <2>1. Cq[at].phase # 1 - host.phase
    BY <1>1, <1>2 DEF at
  <2>2. admin_q.cq_head # at
    BY <1>2, <1>3, <1>10
  <2>3. Tag(admin_q.cq_head)' = Tag(admin_q.cq_head)
    <3>1. Tag(admin_q.cq_head)' = (IF admin_q'.cq_head < host'.head THEN 1 - host'.phase ELSE host'.phase)
      BY DEF Tag
    <3>2. \A s \in Slots : s # at => (IF s < host'.head THEN 1 - host'.phase ELSE host'.phase) = Tag(s)
      BY <1>13 DEF Tag
    <3> QED BY <1>1, <1>2, <2>2, <3>1, <3>2
  <2> QED BY <1>1, <1>2, <1>9, <1>12, <1>13, <2>1, <2>3 DEF TagsRight, Up
<1>15. RingInOrder'
  <2>1. ASSUME NEW s \in Slots, distance(Done, s) < NrQueued
        PROVE  Sq[s].id = Taken + distance(Done, s) + 1 /\ Sq[s] \in host.waiting \ {c}
    <3>1. Sq[s].id = Taken + distance(Done, s) + 1 /\ Sq[s] \in host.waiting
      BY <1>2, <2>1 DEF Up, RingInOrder
    <3>2. distance(Done, s) \in Nat
      BY <1>2, <1>3
    <3>3. Sq[s].id # id
      BY <1>3, <1>5, <3>1, <3>2
    <3> QED BY <1>5, <3>1, <3>3
  <2>2. /\ dbs'[0] = host'.sent % Depth /\ NrQueued' <= host'.sent
        /\ pc' = "admin" => distance(admin_q'.curr, admin_q'.target) <= NrQueued'
    BY <1>1, <1>2, <1>7, <1>9 DEF Up, RingInOrder
  <2> QED BY <1>7, <1>9, <2>1, <2>2 DEF RingInOrder
<1>16. WaitingApart'
  <2>1. /\ \A d \in host'.waiting : d.id <= host'.sent
        /\ \A d, e \in host'.waiting : d.id = e.id => d = e
        /\ \A d, e \in host'.waiting : d.q = e.q /\ d.op # "features" /\ e.op # "features" => d = e
    BY <1>2, <1>7 DEF Up, WaitingApart
  <2>2. IsFiniteSet(host.waiting) /\ Cardinality(host.waiting) <= Depth - 1
    BY <1>2 DEF Up, WaitingApart
  <2>3. /\ IsFiniteSet(host.waiting \ {c})
        /\ Cardinality(host.waiting \ {c}) = Cardinality(host.waiting) - 1
    BY <1>5, <2>2, FS_RemoveElement
  <2>4. Cardinality(host.waiting) \in Nat
    BY <2>2, FS_CardinalityType
  <2>5. Cardinality(host'.waiting) <= Depth - 1
    BY <1>3, <1>7, <2>2, <2>3, <2>4
  <2> QED BY <1>7, <2>1, <2>3, <2>5 DEF WaitingApart
<1>17. AnswersInOrder'
  <2>1. ASSUME NEW s \in Unread, s # at
        PROVE  /\ id < Cq[s].id /\ Cq[s].id <= Taken
               /\ \E d \in host.waiting \ {c} : d.id = Cq[s].id /\ d.op # "abort"
    <3>1. s \in Slots /\ distance(at, at) < distance(at, s)
      BY <1>2, <1>3, <1>11, <2>1
    <3>2. Cq[at].id < Cq[s].id
      BY <1>2, <1>4, <2>1, <3>1 DEF Up, AnswersInOrder, at
    <3>3. id < Cq[s].id
      BY <3>2 DEF id
    <3>4. Cq[s].id <= Taken /\ \E d \in host.waiting : d.id = Cq[s].id /\ d.op # "abort"
      BY <1>2, <2>1 DEF Up, AnswersInOrder
    <3>5. Cq[s].id # id
      BY <1>3, <1>5, <3>1, <3>3
    <3> QED BY <1>5, <3>3, <3>4, <3>5
  <2>2. ASSUME NEW s \in Unread, s # at, NEW t \in Unread, t # at,
               distance(next(at), s) < distance(next(at), t)
        PROVE  Cq[s].id < Cq[t].id
    <3>1. /\ distance(next(at), s) = distance(at, s) - 1 /\ distance(next(at), t) = distance(at, t) - 1
          /\ distance(at, s) \in Nat /\ distance(at, t) \in Nat
      BY <1>2, <1>3, <1>11, <2>2
    <3>2. distance(at, s) < distance(at, t)
      BY <2>2, <3>1
    <3> QED BY <1>2, <3>2 DEF Up, AnswersInOrder, at
  <2> QED BY <1>5, <1>7, <1>9, <1>12, <2>1, <2>2 DEF AnswersInOrder
<1>18. NoneMissing'
  <2>1. ASSUME NEW d \in host.waiting, d # c, d.id <= Taken
        PROVE  d.op = "abort" \/ \E s \in Unread \ {at} : Cq[s].id = d.id
    <3>1. d.op = "abort" \/ \E s \in Unread : Cq[s].id = d.id
      BY <1>2, <2>1 DEF Up, NoneMissing
    <3>2. d.id # id
      BY <1>6, <2>1
    <3> QED BY <3>1, <3>2 DEF id
  <2> QED BY <1>7, <1>9, <1>12, <2>1 DEF NoneMissing
<1>19. QueuesKnown'
  <2>1. /\ host.sqs \subseteq host.cqs
        /\ \A r \in host.cqs : r \in qs.cqes /\ ~ Asked(r, {"create_cq", "delete_cq"})
        /\ \A r \in host.sqs : r \in qs.sqes /\ Rung(r) = host.io[r] /\ ~ Asked(r, {"create_sq", "delete_sq"})
        /\ \A d \in host.waiting :
              /\ d.op = "create_sq" => d.q \in host.cqs
              /\ d.op = "create_sq" /\ d.id <= Taken => d.q \in qs.sqes /\ Rung(d.q) = 0
              /\ d.op = "create_cq" /\ d.id <= Taken => d.q \in qs.cqes
    BY <1>2 DEF Up, QueuesKnown
  <2>2. \A r : Rung(r)' = Rung(r)
    BY <1>1 DEF Rung
  <2>3. \A r, ops : Asked(r, ops)' => Asked(r, ops)
    BY <1>7 DEF Asked
  <2>4. \A d \in host.waiting \ {c} : d.q = c.q /\ c.op # "features" => d.op = "features"
    BY <1>2, <1>5 DEF Up, WaitingApart
  <2>5. \A r : r = c.q /\ c.op \in {"create_cq", "create_sq"} =>
                 ~ Asked(r, {"create_cq", "delete_cq"})' /\ ~ Asked(r, {"create_sq", "delete_sq"})'
    BY <1>7, <2>4 DEF Asked
  <2>6. /\ c.op = "create_sq" => c.q \in host.cqs /\ c.q \in qs.sqes /\ Rung(c.q) = 0
        /\ c.op = "create_cq" => c.q \in qs.cqes
        /\ c.op = "create_sq" => c.q \notin host.sqs
    <3>1. c.op = "create_sq" => Asked(c.q, {"create_sq", "delete_sq"})
      BY <1>5 DEF Asked
    <3> QED BY <1>5, <2>1, <3>1
  <2>7. host'.sqs \subseteq host'.cqs
    BY <1>7, <2>1, <2>6
  <2>8. \A r \in host'.cqs : r \in qs'.cqes /\ ~ Asked(r, {"create_cq", "delete_cq"})'
    <3>1. SUFFICES ASSUME NEW r \in host'.cqs
                   PROVE  r \in qs'.cqes /\ ~ Asked(r, {"create_cq", "delete_cq"})'
      OBVIOUS
    <3>2. CASE r \in host.cqs
      BY <1>1, <2>1, <2>3, <3>2
    <3>3. CASE r \notin host.cqs
      <4>1. c.op = "create_cq" /\ r = c.q
        BY <1>7, <3>1, <3>3
      <4> QED BY <1>1, <2>5, <2>6, <4>1
    <3> QED BY <3>2, <3>3
  <2>9. ASSUME NEW r \in host'.sqs
        PROVE  r \in qs'.sqes /\ Rung(r)' = host'.io[r] /\ ~ Asked(r, {"create_sq", "delete_sq"})'
    <3>1. CASE c.op = "create_sq" /\ r = c.q
      <4>1. host'.io[r] = 0
        BY <1>2, <1>5, <1>7, <3>1
      <4>2. ~ Asked(r, {"create_sq", "delete_sq"})'
        BY <2>5, <3>1
      <4>3. Rung(r)' = 0
        BY <2>2, <2>6, <3>1
      <4> QED BY <1>1, <2>6, <3>1, <4>1, <4>2, <4>3
    <3>2. CASE ~ (c.op = "create_sq" /\ r = c.q)
      <4>1. r \in host.sqs
        BY <1>7, <3>2
      <4>2. host'.io[r] = host.io[r]
        BY <1>2, <1>7, <3>2, <4>1
      <4> QED BY <1>1, <2>1, <2>2, <2>3, <4>1, <4>2
    <3> QED BY <3>1, <3>2
  <2>10. host.cqs \subseteq host'.cqs /\ host'.waiting \subseteq host.waiting
    BY <1>7
  <2>11. \A d \in host'.waiting :
           /\ d.op = "create_sq" => d.q \in host'.cqs
           /\ d.op = "create_sq" /\ d.id <= Taken' => d.q \in qs'.sqes /\ Rung(d.q)' = 0
           /\ d.op = "create_cq" /\ d.id <= Taken' => d.q \in qs'.cqes
    BY <1>1, <1>9, <2>1, <2>2, <2>10
  <2> QED BY <2>7, <2>8, <2>9, <2>11 DEF QueuesKnown
<1> QED BY <1>8, <1>14, <1>15, <1>16, <1>17, <1>18, <1>19 DEF Up

\* What a command does to the I/O queues: it takes away only what it deletes.
LEMMA Applied ==
    ASSUME Types, NEW c \in Commands
    PROVE  /\ apply(c) \in Queues
           /\ \A r \in qs.cqes : (c.op = "delete_cq" /\ c.q = r) \/ r \in apply(c).cqes
           /\ \A r \in qs.sqes : (c.op = "delete_sq" /\ c.q = r) \/ r \in apply(c).sqes
           /\ c.op = "create_cq" => c.q \in apply(c).cqes
           /\ c.op = "create_sq" => c.q \in apply(c).sqes
<1>1. qs \in Queues /\ c.q \in IOQs /\ qs.sqes \in SUBSET IOQs /\ qs.cqes \in SUBSET IOQs
  BY DEF Types, Queues, Commands
<1>2. CASE c.op = "features"
  BY <1>1, <1>2 DEF apply, __nvmev_admin_set_features, Queues
<1>3. CASE c.op = "create_cq"
  <2>1. apply(c) = [qs EXCEPT !.cqes = qs.cqes \cup {c.q}]
    BY <1>3 DEF apply, __nvmev_admin_create_cq
  <2> DEFINE S == qs.cqes \cup {c.q}
  <2>2. S \in SUBSET IOQs /\ qs.cqes \subseteq S /\ c.q \in S
    BY <1>1
  <2> HIDE DEF S
  <2>3. apply(c) = [qs EXCEPT !.cqes = S]
    BY <2>1 DEF S
  <2> QED BY <1>1, <1>3, <2>2, <2>3 DEF Queues
<1>4. CASE c.op = "delete_cq"
  <2>1. apply(c) = [qs EXCEPT !.cqes = qs.cqes \ {c.q}]
    BY <1>4 DEF apply, __nvmev_admin_delete_cq
  <2> DEFINE S == qs.cqes \ {c.q}
  <2>2. S \in SUBSET IOQs /\ \A r \in qs.cqes : c.q = r \/ r \in S
    BY <1>1
  <2> HIDE DEF S
  <2>3. apply(c) = [qs EXCEPT !.cqes = S]
    BY <2>1 DEF S
  <2> QED BY <1>1, <1>4, <2>2, <2>3 DEF Queues
<1>5. CASE c.op = "create_sq"
  <2>1. apply(c) = [qs EXCEPT !.sqes = qs.sqes \cup {c.q}]
    BY <1>5 DEF apply, __nvmev_admin_create_sq
  <2> DEFINE S == qs.sqes \cup {c.q}
  <2>2. S \in SUBSET IOQs /\ qs.sqes \subseteq S /\ c.q \in S
    BY <1>1
  <2> HIDE DEF S
  <2>3. apply(c) = [qs EXCEPT !.sqes = S]
    BY <2>1 DEF S
  <2> QED BY <1>1, <1>5, <2>2, <2>3 DEF Queues
<1>6. CASE c.op = "delete_sq"
  <2>1. apply(c) = [qs EXCEPT !.sqes = qs.sqes \ {c.q}]
    BY <1>6 DEF apply, __nvmev_admin_delete_sq
  <2> DEFINE S == qs.sqes \ {c.q}
  <2>2. S \in SUBSET IOQs /\ \A r \in qs.sqes : c.q = r \/ r \in S
    BY <1>1
  <2> HIDE DEF S
  <2>3. apply(c) = [qs EXCEPT !.sqes = S]
    BY <2>1 DEF S
  <2> QED BY <1>1, <1>6, <2>2, <2>3 DEF Queues
<1>7. CASE c.op \notin {"features", "create_cq", "delete_cq", "create_sq", "delete_sq"}
  <2>1. apply(c) = qs
    BY <1>7 DEF apply
  <2> QED BY <1>1, <1>7, <2>1
<1> QED BY <1>2, <1>3, <1>4, <1>5, <1>6, <1>7

\* The dispatcher takes an admin command and answers it, unless it is an abort:
\* the entry it writes is not one the host still has to read.
LEMMA StepAdmin ==
    ASSUME Inv, __nvmev_proc_admin_req
    PROVE  Boots' /\ Up' /\ host' = host
<1> DEFINE b == host.boot
           cur == admin_q.curr
           at == admin_q.cq_head
           c == Sq[cur]
<1>1. /\ pc = "admin" /\ cur # admin_q.target /\ UNCHANGED <<bar, old_bar, pc, host>>
  BY DEF __nvmev_proc_admin_req
<1>2. /\ Types /\ Numbered /\ Between /\ Pristine /\ host.st = "up" /\ Up
  <2>1. Types /\ Numbered /\ Between /\ Pristine
    BY DEF Inv, Boots
  <2>2. host.st = "up"
    BY <1>1, <2>1 DEF Between, Quiet
  <2> QED BY <2>1, <2>2 DEF Inv
<1>3. admin_q.sq = b /\ admin_q.cq = b /\ b \in 1 .. MaxBoots
  BY <1>2, SameQueues
<1>4. /\ qs' = apply(c)
      /\ dbs' = [d \in Doorbells |-> IF d \in cleared(c) THEN 0 ELSE dbs[d]]
      /\ old_dbs' = [d \in Doorbells |-> IF d \in cleared(c) THEN 0 ELSE old_dbs[d]]
      /\ dispatched' = IF c.op = "create_sq" THEN [dispatched EXCEPT ![c.q] = 0] ELSE dispatched
      /\ IF c.op = "abort"
         THEN admin_q' = [admin_q EXCEPT !.curr = next(@)] /\ UNCHANGED mem
         ELSE __make_cq_entry(c)
  BY <1>3 DEF __nvmev_proc_admin_req, Sq
<1>5. /\ cur \in Slots /\ admin_q.target \in Slots /\ at \in Slots /\ next(at) \in Slots /\ next(cur) \in Slots
      /\ admin_q.phase \in {0, 1} /\ admin_q \in AdminQueue /\ mem \in [1 .. MaxBoots -> Rings]
      /\ 0 \in Slots /\ 0 \in Doorbells /\ host.head \in Slots /\ host.phase \in {0, 1}
      /\ dbs[0] \in Slots /\ distance(cur, cur) = 0
  BY <1>2, Fields, Window DEF Types
<1>6. /\ NrQueued \in Nat /\ NrQueued < Depth /\ NrUnread \in Nat /\ NrUnread < Depth
      /\ Depth \in Nat /\ Depth > 1 /\ MaxCmds \in Nat
      /\ host.sent \in Nat /\ host.sent <= MaxCmds /\ NrQueued <= host.sent
      /\ Taken \in Nat /\ Taken = host.sent - NrQueued
      /\ Cq \in [Slots -> [id : 0 .. MaxCmds, phase : {0, 1}]]
      /\ \A s \in Slots : Cq[s].id \in Nat
      /\ \A d \in host.waiting : d \in Commands /\ d.id \in Nat /\ d.id > 0 /\ d.op \in Ops /\ d.q \in IOQs
      /\ Unread \subseteq Slots
      /\ \A x, y \in Slots : distance(x, y) \in Nat /\ distance(x, y) < Depth
      /\ host.last \in Nat
  BY <1>2, UpFacts
<1>7. Done = cur /\ NrQueued = distance(cur, dbs[0]) /\ NrQueued > 0
      /\ distance(cur, admin_q.target) > 0 /\ distance(cur, admin_q.target) <= NrQueued
  <2>1. Done = cur
    BY <1>1 DEF Done
  <2>2. distance(cur, admin_q.target) \in Nat /\ distance(cur, admin_q.target) # 0
    <3>1. distance(cur, admin_q.target) # 0
      BY <1>1, <1>5, Window
    <3> QED BY <1>5, <1>6, <3>1
  <2>3. distance(cur, admin_q.target) <= NrQueued
    BY <1>1, <1>2 DEF Up, RingInOrder
  <2> QED BY <1>6, <2>1, <2>2, <2>3 DEF NrQueued
<1>8. c \in host.waiting /\ c.id = Taken + 1 /\ c \in Commands /\ c.q \in IOQs /\ c.id \in 0 .. MaxCmds
  <2>1. c \in host.waiting /\ c.id = Taken + 1
    <3>1. \A s \in Slots : distance(Done, s) < NrQueued =>
             Sq[s].id = Taken + distance(Done, s) + 1 /\ Sq[s] \in host.waiting
      BY <1>2 DEF Up, RingInOrder
    <3>2. distance(Done, cur) = 0 /\ 0 < NrQueued
      BY <1>5, <1>6, <1>7
    <3>3. Sq[cur].id = Taken + 0 + 1 /\ Sq[cur] \in host.waiting
      BY <1>5, <3>1, <3>2
    <3> QED BY <1>6, <3>3
  <2> QED BY <1>6, <1>7, <2>1
<1> HIDE DEF c
<1>9. NrUnread < Depth - 1
  BY <1>2, <1>7, RoomToAnswer
<1>10. /\ qs' \in Queues
       /\ \A r \in qs.cqes : (c.op = "delete_cq" /\ c.q = r) \/ r \in qs'.cqes
       /\ \A r \in qs.sqes : (c.op = "delete_sq" /\ c.q = r) \/ r \in qs'.sqes
       /\ c.op = "create_cq" => c.q \in qs'.cqes
       /\ c.op = "create_sq" => c.q \in qs'.sqes
  BY <1>2, <1>4, <1>8, Applied
<1>11. /\ dbs' \in [Doorbells -> Slots] /\ old_dbs' \in [Doorbells -> Slots] /\ dispatched' \in [IOQs -> Nat]
       /\ dbs'[0] = dbs[0] /\ old_dbs'[0] = old_dbs[0]
       /\ \A r \in IOQs : dispatched'[r] + distance(old_dbs'[2 * r], dbs'[2 * r]) =
                            IF c.op = "create_sq" /\ r = c.q THEN 0 ELSE Rung(r)
  <2>1. /\ \A r \in IOQs : 2 * r \in Doorbells /\ 2 * r # 0
        /\ \A p, r \in IOQs : 2 * p = 2 * r => p = r
        /\ \A d \in Doorbells : dbs[d] \in Slots /\ old_dbs[d] \in Slots
        /\ dispatched \in [IOQs -> Nat]
    BY <1>2, Fields DEF Types
  <2>2. dbs' \in [Doorbells -> Slots] /\ old_dbs' \in [Doorbells -> Slots]
    BY <1>4, <1>5, <2>1
  <2>3. dispatched' \in [IOQs -> Nat]
    BY <1>4, <1>8, <2>1
  <2>4. dbs'[0] = dbs[0] /\ old_dbs'[0] = old_dbs[0]
    BY <1>4, <1>5, <1>8, <2>1 DEF cleared
  <2>5. ASSUME NEW r \in IOQs
        PROVE  dispatched'[r] + distance(old_dbs'[2 * r], dbs'[2 * r]) =
                 IF c.op = "create_sq" /\ r = c.q THEN 0 ELSE Rung(r)
    <3>1. CASE c.op = "create_sq" /\ r = c.q
      <4>1. old_dbs'[2 * r] = 0 /\ dbs'[2 * r] = 0 /\ dispatched'[r] = 0
        BY <1>4, <2>1, <3>1 DEF cleared
      <4>2. distance(0, 0) = 0
        BY <1>5, Window
      <4> QED BY <3>1, <4>1, <4>2
    <3>2. CASE ~ (c.op = "create_sq" /\ r = c.q)
      <4>1. 2 * r \notin cleared(c)
        BY <1>8, <2>1, <3>2 DEF cleared
      <4>2. old_dbs'[2 * r] = old_dbs[2 * r] /\ dbs'[2 * r] = dbs[2 * r]
        BY <1>4, <2>1, <4>1
      <4>3. dispatched'[r] = dispatched[r]
        BY <1>4, <2>1, <3>2
      <4> QED BY <3>2, <4>2, <4>3 DEF Rung
    <3> QED BY <3>1, <3>2
  <2> QED BY <2>2, <2>3, <2>4, <2>5

<1> DEFINE answered == c.op # "abort"
           entry == [id |-> c.id, phase |-> admin_q.phase]
<1>12. /\ admin_q' \in AdminQueue /\ admin_q'.curr = next(cur) /\ admin_q'.target = admin_q.target
       /\ admin_q'.cq_head = (IF answered THEN next(at) ELSE at)
       /\ admin_q'.phase = (IF answered /\ next(at) = 0 THEN 1 - admin_q.phase ELSE admin_q.phase)
  <2> DEFINE ph == IF next(at) = 0 THEN 1 - admin_q.phase ELSE admin_q.phase
  <2>1. ph \in {0, 1}
    BY <1>5
  <2>2. CASE answered
    <3>1. admin_q' = [[[admin_q EXCEPT !.curr = next(cur)] EXCEPT !.cq_head = next(at)] EXCEPT !.phase = ph]
      BY <1>4, <1>5, <2>2 DEF __make_cq_entry, AdminQueue
    <3> HIDE DEF ph
    <3>2. /\ admin_q' \in AdminQueue /\ admin_q'.curr = next(cur) /\ admin_q'.target = admin_q.target
          /\ admin_q'.cq_head = next(at) /\ admin_q'.phase = ph
      BY <1>5, <2>1, <3>1 DEF AdminQueue
    <3> QED BY <2>2, <3>2 DEF ph
  <2>3. CASE ~ answered
    BY <1>4, <1>5, <2>3 DEF AdminQueue
  <2> QED BY <2>2, <2>3
<1>13. /\ mem' \in [1 .. MaxBoots -> Rings] /\ Sq' = Sq
       /\ answered => Cq'[at].id = c.id /\ Cq'[at].phase = admin_q.phase
       /\ \A s \in Slots : s # at \/ ~ answered => Cq'[s] = Cq[s]
       /\ \A x \in 1 .. MaxBoots : x # b => mem'[x] = mem[x]
  <2>1. mem[b] \in Rings
    BY <1>3, <1>5
  <2>2. CASE answered
    <3> DEFINE q == [Cq EXCEPT ![at] = entry]
               r == [mem[b] EXCEPT !.cq = q]
    <3>1. entry \in [id : 0 .. MaxCmds, phase : {0, 1}] /\ entry.id = c.id /\ entry.phase = admin_q.phase
      BY <1>5, <1>8
    <3>2. mem' = [mem EXCEPT ![b] = r]
      BY <1>3, <1>4, <1>5, <2>1, <2>2 DEF __make_cq_entry, Rings, Cq
    <3> HIDE DEF entry
    <3>3. q \in [Slots -> [id : 0 .. MaxCmds, phase : {0, 1}]] /\ q[at] = entry
          /\ \A s \in Slots : s # at => q[s] = Cq[s]
      BY <1>5, <1>6, <3>1
    <3> HIDE DEF q
    <3>4. r \in Rings /\ r.cq = q /\ r.sq = mem[b].sq
      BY <2>1, <3>3 DEF Rings
    <3> HIDE DEF r
    <3>5. mem' \in [1 .. MaxBoots -> Rings] /\ mem'[b] = r
          /\ \A x \in 1 .. MaxBoots : x # b => mem'[x] = mem[x]
      BY <1>3, <1>5, <3>2, <3>4
    <3>6. Cq' = mem'[b].cq /\ Sq' = mem'[b].sq /\ Sq = mem[b].sq
      BY <1>1 DEF Cq, Sq
    <3> QED BY <2>2, <3>1, <3>3, <3>4, <3>5, <3>6
  <2>3. CASE ~ answered
    <3>1. mem' = mem
      BY <1>4, <2>3
    <3> QED BY <1>1, <1>5, <2>3, <3>1 DEF Sq, Cq
  <2> QED BY <2>2, <2>3
<1> HIDE DEF entry
<1>14. Boots'
  <2>1. Types'
    BY <1>1, <1>2, <1>10, <1>11, <1>12, <1>13 DEF Types
  <2>2. Numbered'
    BY <1>1, <1>2 DEF Numbered, Written
  <2>3. Between'
    BY <1>1, <1>2 DEF Between, Starting
  <2>4. Pristine'
    <3>1. \A x \in 1 .. MaxBoots : x > host.boot => mem[x] = Fresh /\ x # b
      BY <1>2, <1>3 DEF Pristine
    <3> QED BY <1>1, <1>2, <1>13, <3>1 DEF Pristine, Starting
  <2> QED BY <2>1, <2>2, <2>3, <2>4 DEF Boots
<1>15. Done' = next(cur) /\ NrQueued' = NrQueued - 1 /\ Taken' = Taken + 1
  <2>1. Done' = next(cur)
    BY <1>1, <1>12 DEF Done
  <2>2. distance(next(cur), dbs[0]) = distance(cur, dbs[0]) - 1
    BY <1>5, <1>7, Window
  <2>3. NrQueued' = NrQueued - 1
    BY <1>7, <1>11, <2>1, <2>2 DEF NrQueued
  <2> QED BY <1>1, <1>6, <2>1, <2>3 DEF Taken
<1>16. RingInOrder'
  <2>1. dbs'[0] = host'.sent % Depth /\ NrQueued' <= host'.sent
    <3>1. dbs[0] = host.sent % Depth
      BY <1>2 DEF Up, RingInOrder
    <3> QED BY <1>1, <1>6, <1>11, <1>15, <3>1
  <2>2. distance(admin_q'.curr, admin_q'.target) <= NrQueued'
    <3>1. distance(next(cur), admin_q.target) = distance(cur, admin_q.target) - 1
      BY <1>5, <1>7, Window
    <3>2. distance(cur, admin_q.target) \in Nat
      BY <1>5, <1>6
    <3> QED BY <1>6, <1>7, <1>12, <1>15, <3>1, <3>2
  <2>3. ASSUME NEW s \in Slots, distance(next(cur), s) < NrQueued - 1
        PROVE  Sq[s].id = Taken + 1 + distance(next(cur), s) + 1 /\ Sq[s] \in host.waiting
    <3>1. distance(cur, s) \in Nat /\ distance(next(cur), s) \in Nat
      BY <1>5, <1>6
    <3>2. s # cur
      <4>1. distance(next(cur), cur) = Depth - 1
        BY <1>5, Window
      <4> QED BY <1>6, <2>3, <4>1
    <3>3. distance(cur, s) # 0
      BY <1>5, <3>2, Window
    <3>4. distance(cur, s) > 0
      BY <3>1, <3>3
    <3>5. distance(next(cur), s) = distance(cur, s) - 1
      BY <1>5, <3>4, Window
    <3>6. distance(Done, s) < NrQueued
      BY <1>6, <1>7, <2>3, <3>1, <3>5
    <3>7. Sq[s].id = Taken + distance(Done, s) + 1 /\ Sq[s] \in host.waiting
      BY <1>2, <3>6 DEF Up, RingInOrder
    <3> QED BY <1>6, <1>7, <3>1, <3>5, <3>7
  <2> QED BY <1>1, <1>13, <1>15, <2>1, <2>2, <2>3 DEF RingInOrder
<1>17. WaitingApart'
  BY <1>1, <1>2 DEF Up, WaitingApart
<1>18. NrUnread = distance(host.head, at) /\ at \notin Unread
       /\ Unread' = IF answered THEN Unread \cup {at} ELSE Unread
  <2>1. NrUnread = distance(host.head, at)
    BY DEF NrUnread
  <2>2. at \notin Unread
    BY <1>6, <2>1 DEF Unread
  <2>3. CASE ~ answered
    <3>1. NrUnread' = NrUnread
      BY <1>1, <1>12, <2>3 DEF NrUnread
    <3> QED BY <1>1, <2>1, <2>2, <2>3, <3>1 DEF Unread
  <2>4. CASE answered
    <3>0. distance(host.head, at) < Depth - 1
      BY <1>9, <2>1
    <3>1. distance(host.head, next(at)) = NrUnread + 1
      <4>1. \A x, y \in Slots : distance(x, y) < Depth - 1 => distance(x, next(y)) = distance(x, y) + 1
        BY Window
      <4>2. distance(host.head, next(at)) = distance(host.head, at) + 1
        BY <1>5, <3>0, <4>1
      <4> QED BY <2>1, <4>2
    <3>2. NrUnread' = NrUnread + 1
      BY <1>1, <1>12, <2>4, <3>1 DEF NrUnread
    <3>3. \A s \in Slots : distance(host.head, at) = distance(host.head, s) => at = s
      BY <1>5, Window
    <3>4. \A s \in Slots : distance(host.head, s) \in Nat
      BY <1>5, <1>6
    <3>5. \A s \in Slots : distance(host.head, s) < NrUnread + 1 <=> s \in Unread \/ s = at
      <4>1. SUFFICES ASSUME NEW s \in Slots
                     PROVE  distance(host.head, s) < NrUnread + 1 <=> s \in Unread \/ s = at
        OBVIOUS
      <4>2. s \in Unread <=> distance(host.head, s) < NrUnread
        BY DEF Unread
      <4>3. s = at <=> distance(host.head, s) = NrUnread
        BY <2>1, <3>3
      <4>4. distance(host.head, s) \in Nat
        BY <3>4
      <4> QED BY <1>6, <4>2, <4>3, <4>4
    <3>6. \A s \in Slots : s \in Unread' <=> distance(host.head, s) < NrUnread + 1
      BY <1>1, <3>2 DEF Unread
    <3>7. Unread' \subseteq Slots /\ Unread \subseteq Slots
      BY DEF Unread
    <3> QED BY <1>5, <2>1, <2>2, <2>4, <3>5, <3>6, <3>7
  <2> QED BY <2>3, <2>4
<1>19. \A s \in Unread : Cq'[s] = Cq[s] /\ s \in Slots
  BY <1>6, <1>13, <1>18
<1>20. \A s \in Unread : /\ host.last < Cq[s].id /\ Cq[s].id <= Taken /\ Cq[s].id \in Nat
                         /\ \E d \in host.waiting : d.id = Cq[s].id /\ d.op # "abort"
  BY <1>2, <1>6 DEF Up, AnswersInOrder
<1>21. AnswersInOrder'
  <2>1. host.last <= Taken
    BY <1>2 DEF Up, AnswersInOrder
  <2>2. ASSUME NEW s \in Unread'
        PROVE  /\ host.last < Cq'[s].id /\ Cq'[s].id <= Taken + 1
               /\ \E d \in host.waiting : d.id = Cq'[s].id /\ d.op # "abort"
    <3>1. CASE s \in Unread
      <4>1. Cq[s].id <= Taken + 1
        BY <1>6, <1>20, <3>1
      <4> QED BY <1>19, <1>20, <3>1, <4>1
    <3>2. CASE s \notin Unread
      <4>1. answered /\ s = at
        BY <1>18, <2>2, <3>2
      <4>2. Cq'[s].id = Taken + 1
        BY <1>8, <1>13, <4>1
      <4> QED BY <1>6, <1>8, <2>1, <4>1, <4>2
    <3> QED BY <3>1, <3>2
  <2>3. ASSUME NEW s \in Unread', NEW t \in Unread', distance(host.head, s) < distance(host.head, t)
        PROVE  Cq'[s].id < Cq'[t].id
    <3>1. s \in Slots /\ t \in Slots
      BY <1>5, <1>6, <1>18, <2>3
    <3>2. CASE s \in Unread /\ t \in Unread
      <4>1. Cq[s].id < Cq[t].id
        BY <1>2, <2>3, <3>2 DEF Up, AnswersInOrder
      <4> QED BY <1>19, <3>2, <4>1
    <3>3. CASE s \in Unread /\ t \notin Unread
      <4>1. answered /\ t = at
        BY <1>18, <2>3, <3>3
      <4>2. Cq'[t].id = Taken + 1
        BY <1>8, <1>13, <4>1
      <4> QED BY <1>6, <1>19, <1>20, <3>3, <4>2
    <3>4. CASE s \notin Unread
      <4>1. answered /\ s = at
        BY <1>18, <2>3, <3>4
      <4>2. distance(host.head, s) = NrUnread
        BY <1>18, <4>1
      <4>3. distance(host.head, s) \in Nat /\ distance(host.head, t) \in Nat
        BY <1>5, <1>6, <3>1
      <4>4. t \in Unread
        <5>1. t # at
          BY <2>3, <4>1, <4>3
        <5> QED BY <1>18, <2>3, <4>1, <5>1
      <4>5. distance(host.head, t) < NrUnread
        BY <4>4 DEF Unread
      <4> QED BY <2>3, <4>2, <4>3, <4>5
    <3> QED BY <3>2, <3>3, <3>4
  <2>4. host'.last <= Taken'
    BY <1>1, <1>6, <1>15, <2>1
  <2> QED BY <1>1, <1>15, <2>2, <2>3, <2>4 DEF AnswersInOrder
<1>22. \A d \in host.waiting : d.id <= Taken + 1 => d.id <= Taken \/ d = c
  <2>1. \A d \in host.waiting : d.id = c.id => d = c
    BY <1>2, <1>8 DEF Up, WaitingApart
  <2> QED BY <1>6, <1>8, <2>1
<1>23. NoneMissing'
  <2>1. ASSUME NEW d \in host.waiting, d.id <= Taken + 1
        PROVE  d.op = "abort" \/ \E s \in Unread' : Cq'[s].id = d.id
    <3>1. CASE d = c
      BY <1>13, <1>18, <3>1
    <3>2. CASE d.id <= Taken
      <4>1. d.op = "abort" \/ \E s \in Unread : Cq[s].id = d.id
        BY <1>2, <3>2 DEF Up, NoneMissing
      <4> QED BY <1>18, <1>19, <4>1
    <3> QED BY <1>22, <2>1, <3>1, <3>2
  <2> QED BY <1>1, <1>15, <2>1 DEF NoneMissing
<1>24. TagsRight'
  <2>1. \A s : Tag(s)' = Tag(s)
    BY <1>1 DEF Tag
  <2>2. admin_q.phase = Tag(at) /\ \A s \in Slots : Cq[s].phase = Tag(s) <=> s \in Unread
    BY <1>2 DEF Up, TagsRight
  <2>3. \A s \in Slots : Cq'[s].phase = Tag(s) <=> s \in Unread'
    BY <1>5, <1>13, <1>18, <2>2
  <2>4. Tag(next(at)) = IF next(at) # 0 THEN admin_q.phase ELSE 1 - admin_q.phase
    <3>1. /\ at \in Nat /\ at < Depth /\ Depth \in Nat /\ host.head \in Nat /\ host.head < Depth
          /\ next(at) = IF at + 1 = Depth THEN 0 ELSE at + 1
      <4>1. at \in Slots /\ host.head \in Slots /\ Depth \in Nat
        BY <1>5, <1>6
      <4> HIDE DEF at
      <4> QED BY <4>1 DEF Slots, next
    <3>2. CASE at < host.head
      <4>1. NrUnread = at - host.head + Depth
        BY <1>5, <1>18, <3>1, <3>2, Distance
      <4>2. at + 1 < host.head
        BY <1>6, <1>9, <3>1, <4>1
      <4> QED BY <1>5, <2>2, <3>1, <3>2, <4>2 DEF Tag
    <3>3. CASE at >= host.head
      <4>1. CASE at + 1 = Depth
        <5>1. NrUnread = at - host.head
          BY <1>5, <1>18, <3>1, <3>3, Distance
        <5>2. host.head > 0
          BY <1>6, <1>9, <3>1, <4>1, <5>1
        <5> QED BY <1>5, <2>2, <3>1, <3>3, <4>1, <5>2 DEF Tag
      <4>2. CASE at + 1 # Depth
        BY <1>5, <2>2, <3>1, <3>3, <4>2 DEF Tag
      <4> QED BY <4>1, <4>2
    <3> QED BY <3>1, <3>2, <3>3
  <2>5. admin_q'.phase = Tag(admin_q.cq_head)'
    <3>1. Tag(admin_q.cq_head)' = Tag(admin_q'.cq_head)
      BY <1>1 DEF Tag
    <3>2. CASE answered
      BY <1>12, <2>4, <3>1, <3>2
    <3>3. CASE ~ answered
      BY <1>12, <2>2, <3>1, <3>3
    <3> QED BY <3>2, <3>3
  <2>6. \A s \in Slots : Cq'[s].phase = Tag(s)' <=> s \in Unread'
    BY <2>1, <2>3
  <2> QED BY <2>5, <2>6 DEF TagsRight
<1>25. QueuesKnown'
  <2>1. /\ host.sqs \subseteq host.cqs
        /\ \A r \in host.cqs : r \in qs.cqes /\ ~ Asked(r, {"create_cq", "delete_cq"})
        /\ \A r \in host.sqs : r \in qs.sqes /\ Rung(r) = host.io[r] /\ ~ Asked(r, {"create_sq", "delete_sq"})
        /\ \A d \in host.waiting :
              /\ d.op = "create_sq" => d.q \in host.cqs
              /\ d.op = "create_sq" /\ d.id <= Taken => d.q \in qs.sqes /\ Rung(d.q) = 0
              /\ d.op = "create_cq" /\ d.id <= Taken => d.q \in qs.cqes
    BY <1>2 DEF Up, QueuesKnown
  <2>2. \A r, ops : Asked(r, ops)' = Asked(r, ops)
    BY <1>1 DEF Asked
  <2>3. \A r, ops : r = c.q /\ c.op \in ops => Asked(r, ops)
    BY <1>8 DEF Asked
  <2>4. \A r \in IOQs : Rung(r)' = IF c.op = "create_sq" /\ r = c.q THEN 0 ELSE Rung(r)
    BY <1>11 DEF Rung
  <2>5. \A r \in host.cqs : r \in qs'.cqes
    <3>1. \A r \in host.cqs : ~ (c.op = "delete_cq" /\ c.q = r)
      BY <2>1, <2>3
    <3> QED BY <1>10, <2>1, <3>1
  <2>6. ASSUME NEW r \in host.sqs PROVE r \in qs'.sqes /\ Rung(r)' = host.io[r]
    <3>1. ~ (c.op \in {"create_sq", "delete_sq"} /\ c.q = r) /\ r \in IOQs
      BY <1>2, <2>1, <2>3, Fields
    <3> QED BY <1>10, <2>1, <2>4, <3>1
  <2>7. ASSUME NEW d \in host.waiting, d.op = "create_sq", d.id <= Taken + 1
        PROVE  d.q \in qs'.sqes /\ Rung(d.q)' = 0
    <3>1. d.q \in IOQs
      BY <1>6
    <3>2. CASE d = c
      BY <1>10, <2>4, <2>7, <3>1, <3>2
    <3>3. CASE d # c
      <4>1. d.id <= Taken
        BY <1>22, <2>7, <3>3
      <4>2. d.q \in qs.sqes /\ Rung(d.q) = 0
        BY <2>1, <2>7, <4>1
      <4>3. ~ (c.op = "delete_sq" /\ c.q = d.q)
        BY <1>2, <1>8, <2>7, <3>3 DEF Up, WaitingApart
      <4> QED BY <1>10, <2>4, <3>1, <4>2, <4>3
    <3> QED BY <3>2, <3>3
  <2>8. ASSUME NEW d \in host.waiting, d.op = "create_cq", d.id <= Taken + 1
        PROVE  d.q \in qs'.cqes
    <3>1. CASE d = c
      BY <1>10, <2>8, <3>1
    <3>2. CASE d # c
      <4>1. d.id <= Taken
        BY <1>22, <2>8, <3>2
      <4>2. d.q \in qs.cqes
        BY <2>1, <2>8, <4>1
      <4>3. ~ (c.op = "delete_cq" /\ c.q = d.q)
        BY <1>2, <1>8, <2>8, <3>2 DEF Up, WaitingApart
      <4> QED BY <1>10, <4>2, <4>3
    <3> QED BY <3>1, <3>2
  <2> QED BY <1>1, <1>15, <2>1, <2>2, <2>5, <2>6, <2>7, <2>8 DEF QueuesKnown
<1> QED BY <1>1, <1>14, <1>16, <1>17, <1>21, <1>23, <1>24, <1>25 DEF Up

(***************************************************************************)
(* The theorems.                                                           *)
(***************************************************************************)
\* Before the first start.
LEMMA Initially ==
    ASSUME Init PROVE Inv
<1>1. 0 \in Slots /\ 0 \in 0 .. MaxBoots /\ 0 \in 0 .. MaxCmds /\ Depth \in Nat /\ "off" \in States
  BY ControllerAssumption DEF Slots, States
<1>2. RegInv
  BY DEF Init, RegInv, NewHost, Enabled, AllSeen, Written
<1>3. host = NewHost("off", 0) /\ host \in Drivers /\ host.st = "off" /\ host.boot = 0 /\ host.waiting = {}
  BY <1>1, NewDriver DEF Init
<1>4. mem \in [1 .. MaxBoots -> Rings] /\ \A b \in 1 .. MaxBoots : mem[b] = Fresh
  <2>1. Fresh \in Rings
    <3> DEFINE a == [s \in Slots |-> NoCmd]
               e == [s \in Slots |-> [id |-> 0, phase |-> 0]]
    <3>1. a \in [Slots -> Commands \cup {NoCmd}] /\ e \in [Slots -> [id : 0 .. MaxCmds, phase : {0, 1}]]
      BY <1>1
    <3>2. Fresh = [sq |-> a, cq |-> e]
      BY DEF Fresh
    <3> HIDE DEF a, e
    <3> QED BY <3>1, <3>2 DEF Rings
  <2>2. mem = [b \in 1 .. MaxBoots |-> Fresh]
    BY DEF Init, Fresh
  <2> HIDE DEF Fresh
  <2> QED BY <2>1, <2>2
<1>5. Types
  <2>1. qs \in Queues /\ admin_q \in AdminQueue
    BY <1>1 DEF Init, Queues, AdminQueue
  <2> QED BY <1>1, <1>3, <1>4, <2>1 DEF Init, Types
<1>6. Numbered
  BY <1>3 DEF Init, Numbered, Written
<1>7. Between
  <2>1. 0 \in Doorbells
    BY DEF Doorbells
  <2> QED BY <1>3, <2>1 DEF Init, Between, Quiet, Done, Starting
<1>8. Pristine
  BY <1>4 DEF Pristine
<1> QED BY <1>2, <1>3, <1>5, <1>6, <1>7, <1>8 DEF Inv, Boots

\* Every step of the dispatcher and of the host keeps the invariant.
LEMMA Step ==
    ASSUME AdjacentReads, Inv, [Next]_vars
    PROVE  Inv'
<1>1. RegInv
  BY DEF Inv
<1>2. CASE nvmev_dispatcher
  <2>1. RegInv'
    BY <1>1, <1>2, RegDispatcher
  <2>2. Boots' /\ (host'.st = "up" => Up')
    BY <1>2, StepRegisters, StepDoorbells, StepIo, StepAdmin DEF nvmev_dispatcher
  <2> QED BY <2>1, <2>2 DEF Inv
<1>3. CASE Host
  <2>1. RegInv'
    BY <1>1, <1>3, RegHost
  <2>2. Boots' /\ (host'.st = "up" => Up')
    BY <1>3, StepStart, StepUp, StepSubmit, StepAnswer, StepRing, StepStop DEF Host
  <2> QED BY <2>1, <2>2 DEF Inv
<1>4. CASE UNCHANGED vars
  <2>1. RegInv'
    BY <1>1, <1>4 DEF vars, RegInv, Written, AllSeen, NewHost
  <2>2. Types' /\ Numbered' /\ Pristine'
    BY <1>4 DEF vars, Inv, Boots, Types, Numbered, Written, Pristine
  <2>3. Done' = Done /\ (Quiet' = Quiet) /\ (Unused' = Unused)
    BY <1>4 DEF vars, Done, Quiet, Unused
  <2>4. Between'
    BY <1>4, <2>3 DEF vars, Inv, Boots, Between
  <2>5. ASSUME host.st = "up" PROVE Up'
    <3>1. Up /\ \A q \in host.sqs : q \in IOQs
      BY <2>5, Fields DEF Inv, Boots
    <3>2. \A q \in IOQs : Rung(q)' = Rung(q)
      BY <1>4 DEF vars, Rung
    <3>3. \A q \in host.sqs : Rung(q) = host.io[q]
      BY <3>1 DEF Up, QueuesKnown
    <3>4. /\ \A q \in host.sqs : Rung(q)' = host'.io[q]
          /\ \A q \in IOQs \ host.sqs : Rung(q)' = Rung(q)
      BY <1>4, <3>1, <3>2, <3>3 DEF vars
    <3>5. pc' = "admin" => distance(admin_q'.curr, admin_q'.target) <= NrQueued
      BY <1>4, <3>1 DEF vars, Up, RingInOrder
    <3> QED BY <1>4, <2>3, <2>5, <3>4, <3>5, UpQuiet DEF vars
  <2> QED BY <1>4, <2>1, <2>2, <2>4, <2>5 DEF vars, Inv, Boots
<1> QED BY <1>2, <1>3, <1>4 DEF Next

\* The registers, the admin queues and the I/O queues agree with what the host
\* knows, across starts and shutdowns and at every step of nvmev_dispatcher().
THEOREM Invariance == ASSUME AdjacentReads PROVE Spec => []Inv
<1>1. Init => Inv
  BY Initially
<1>2. Inv /\ [Next]_vars => Inv'
  BY Step
<1> QED BY <1>1, <1>2, PTL DEF Spec

\* A queue the host has been told of exists, and every doorbell value the host
\* has written to it stands for commands it has sent since: deleting a queue
\* and creating it again, or a shutdown in between, neither loses a command nor
\* makes one up.
THEOREM CreatedQueuesUsable == ASSUME AdjacentReads PROVE Spec => []QueuesUsable
<1>1. Inv => QueuesUsable
  <2>1. SUFFICES ASSUME Inv, host.st = "up", NEW q \in host.sqs
        PROVE  /\ q \in qs.sqes /\ q \in qs.cqes
               /\ dispatched[q] + distance(old_dbs[2 * q], dbs[2 * q]) = host.io[q]
    BY DEF QueuesUsable
  <2> QED BY <2>1 DEF Inv, Up, QueuesKnown, Rung
<1> QED BY <1>1, Invariance, PTL

\* Counting by a bijection.
LEMMA SameCount ==
    ASSUME NEW S, NEW T, IsFiniteSet(S), NEW f \in [S -> T],
           \A x, y \in S : f[x] = f[y] => x = y, \A t \in T : \E x \in S : f[x] = t
    PROVE  IsFiniteSet(T) /\ Cardinality(T) = Cardinality(S)
<1>1. f \in Bijection(S, T)
  BY DEF Bijection, Injection, IsInjective, Surjection
<1> QED BY <1>1, FS_Bijection DEF ExistsBijection

\* The numbers of the commands that wait, by where they are.
QueuedIds == {Sq[s].id : s \in {t \in Slots : distance(Done, t) < NrQueued}}
AbortedIds == {c.id : c \in {d \in host.waiting : d.op = "abort"}} \ QueuedIds
AnsweredIds == {Cq[s].id : s \in Unread}

\* Every command that waits is in one place, and is counted once.
LEMMA AdminCounted ==
    ASSUME Inv, host.st = "up"
    PROVE  /\ {c.id : c \in host.waiting} = QueuedIds \cup AbortedIds \cup AnsweredIds
           /\ Cardinality(host.waiting) = Cardinality(QueuedIds) + Cardinality(AbortedIds) + NrUnread
<1> DEFINE Ids == {c.id : c \in host.waiting}
<1>1. Up /\ Done \in Slots /\ host.head \in Slots
  BY Fields DEF Inv, Boots
<1>2. /\ NrQueued \in Nat /\ NrQueued < Depth /\ NrUnread \in Nat /\ NrUnread < Depth
      /\ Depth \in Nat /\ Taken \in Nat /\ Taken = host.sent - NrQueued /\ host.sent \in Nat
      /\ \A s \in Slots : Cq[s].id \in Nat
      /\ \A c \in host.waiting : c.id \in Nat /\ c.id > 0
      /\ \A a, b \in Slots : distance(a, b) \in Nat /\ distance(a, b) < Depth
      /\ Unread \subseteq Slots
  BY UpFacts
<1>3. \A c, d \in host.waiting : c.id = d.id => c = d
  BY <1>1 DEF Up, WaitingApart
<1>4. \A s \in Slots : distance(Done, s) < NrQueued =>
         Sq[s].id = Taken + distance(Done, s) + 1 /\ Sq[s] \in host.waiting
  BY <1>1 DEF Up, RingInOrder
<1>5. \A s \in Unread : /\ Cq[s].id <= Taken
                        /\ \E c \in host.waiting : c.id = Cq[s].id /\ c.op # "abort"
  BY <1>1 DEF Up, AnswersInOrder
<1>6. \A i \in QueuedIds : i \in Ids /\ i \in Nat /\ i > Taken
  <2>1. SUFFICES ASSUME NEW s \in Slots, distance(Done, s) < NrQueued
                 PROVE  Sq[s].id \in Ids /\ Sq[s].id \in Nat /\ Sq[s].id > Taken
    BY DEF QueuedIds
  <2>2. distance(Done, s) \in Nat /\ Sq[s].id = Taken + distance(Done, s) + 1 /\ Sq[s] \in host.waiting
    BY <1>1, <1>2, <1>4, <2>1
  <2> QED BY <1>2, <2>2
<1>7. AbortedIds \subseteq Ids /\ AbortedIds \cap QueuedIds = {}
  BY DEF AbortedIds
<1>8. AnsweredIds \subseteq Ids /\ \A i \in AnsweredIds : i <= Taken /\ i \in Nat
  BY <1>2, <1>5 DEF AnsweredIds
<1>9. AnsweredIds \cap QueuedIds = {}
  BY <1>2, <1>6, <1>8
<1>10. AnsweredIds \cap AbortedIds = {}
  BY <1>3, <1>5 DEF AnsweredIds, AbortedIds
<1>11. Ids \subseteq QueuedIds \cup AbortedIds \cup AnsweredIds
  <2>1. SUFFICES ASSUME NEW c \in host.waiting
                 PROVE  c.id \in QueuedIds \cup AbortedIds \cup AnsweredIds
    OBVIOUS
  <2>2. CASE c.id <= Taken
    <3>1. c.op = "abort" \/ \E s \in Unread : Cq[s].id = c.id
      BY <1>1, <2>2 DEF Up, NoneMissing
    <3> QED BY <3>1 DEF AbortedIds, AnsweredIds
  <2>3. CASE c.id > Taken
    <3> DEFINE i == c.id - Taken - 1
    <3>1. c.id <= host.sent
      BY <1>1 DEF Up, WaitingApart
    <3>2. i \in Nat /\ i < NrQueued /\ Taken + i + 1 = c.id
      BY <1>2, <2>3, <3>1
    <3>3. i \in Slots
      BY <1>2, <3>2 DEF Slots
    <3> HIDE DEF i
    <3>4. slot(Done, i) \in Slots /\ distance(Done, slot(Done, i)) = i
      BY <1>1, <3>3, SlotAt
    <3>5. Sq[slot(Done, i)].id = c.id
      BY <1>4, <3>2, <3>4
    <3> QED BY <3>2, <3>4, <3>5 DEF QueuedIds
  <2> QED BY <1>2, <2>2, <2>3
<1>12. Ids = QueuedIds \cup AbortedIds \cup AnsweredIds
  BY <1>6, <1>7, <1>8, <1>11
<1>13. IsFiniteSet(Ids) /\ Cardinality(Ids) = Cardinality(host.waiting)
  <2> DEFINE f == [c \in host.waiting |-> c.id]
  <2>1. f \in [host.waiting -> Ids] /\ \A i \in Ids : \E c \in host.waiting : f[c] = i
    OBVIOUS
  <2>2. \A c, d \in host.waiting : f[c] = f[d] => c = d
    BY <1>3
  <2>3. IsFiniteSet(host.waiting)
    BY <1>1 DEF Up, WaitingApart
  <2> HIDE DEF f, Ids
  <2> QED BY <2>1, <2>2, <2>3, SameCount
<1>14. Cardinality(AnsweredIds) = NrUnread
  <2> DEFINE f == [i \in 0 .. NrUnread - 1 |-> Cq[slot(host.head, i)].id]
  <2>1. \A i \in 0 .. NrUnread - 1 : i \in Slots /\ i < NrUnread /\ i \in Nat
    BY <1>2 DEF Slots
  <2>2. \A i \in 0 .. NrUnread - 1 :
          slot(host.head, i) \in Unread /\ distance(host.head, slot(host.head, i)) = i
    <3>1. \A i \in 0 .. NrUnread - 1 :
            slot(host.head, i) \in Slots /\ distance(host.head, slot(host.head, i)) = i
      BY <1>1, <2>1, SlotAt
    <3> QED BY <2>1, <3>1 DEF Unread
  <2>3. f \in [0 .. NrUnread - 1 -> AnsweredIds]
    BY <2>2 DEF AnsweredIds
  <2>4. \A s, t \in Unread : distance(host.head, s) < distance(host.head, t) => Cq[s].id < Cq[t].id
    BY <1>1 DEF Up, AnswersInOrder
  <2>5. \A i, j \in 0 .. NrUnread - 1 : f[i] = f[j] => i = j
    <3>1. \A i, j \in 0 .. NrUnread - 1 : i < j => f[i] < f[j]
      BY <2>2, <2>4
    <3>2. \A i \in 0 .. NrUnread - 1 : f[i] \in Nat
      BY <1>2, <2>2
    <3> HIDE DEF f
    <3> QED BY <1>2, <3>1, <3>2
  <2>6. \A a \in AnsweredIds : \E i \in 0 .. NrUnread - 1 : f[i] = a
    <3>1. SUFFICES ASSUME NEW s \in Unread PROVE \E i \in 0 .. NrUnread - 1 : f[i] = Cq[s].id
      BY DEF AnsweredIds
    <3>2. s \in Slots /\ distance(host.head, s) < NrUnread
      BY DEF Unread
    <3>3. distance(host.head, s) \in Nat
      BY <1>1, <1>2, <3>2
    <3>4. distance(host.head, s) \in 0 .. NrUnread - 1
      BY <1>2, <3>2, <3>3
    <3>5. slot(host.head, distance(host.head, s)) = s
      <4> DEFINE i == distance(host.head, s)
                 t == slot(host.head, i)
      <4>1. t \in Slots /\ distance(host.head, t) = i
        BY <2>2, <3>4 DEF Unread
      <4>2. \A x \in Slots : distance(host.head, s) = distance(host.head, x) => s = x
        BY <1>1, <3>2, Window
      <4> HIDE DEF t
      <4>3. t = s
        BY <4>1, <4>2
      <4> QED BY <4>3 DEF t
    <3> QED BY <3>4, <3>5
  <2>7. IsFiniteSet(0 .. NrUnread - 1) /\ Cardinality(0 .. NrUnread - 1) = NrUnread
    <3>1. 0 \in Int /\ NrUnread - 1 \in Int
      BY <1>2
    <3>2. /\ IsFiniteSet(0 .. NrUnread - 1)
          /\ Cardinality(0 .. NrUnread - 1) =
               IF 0 > NrUnread - 1 THEN 0 ELSE NrUnread - 1 - 0 + 1
      BY <3>1, FS_Interval
    <3> QED BY <1>2, <3>2
  <2> HIDE DEF f
  <2> QED BY <2>3, <2>5, <2>6, <2>7, SameCount
<1> HIDE DEF Ids
<1>15. IsFiniteSet(QueuedIds) /\ IsFiniteSet(AbortedIds) /\ IsFiniteSet(AnsweredIds)
  BY <1>12, <1>13, FS_Subset
<1>16. /\ Cardinality(QueuedIds) \in Nat /\ Cardinality(AbortedIds) \in Nat /\ Cardinality(AnsweredIds) \in Nat
       /\ Cardinality({}) = 0
  BY <1>15, FS_CardinalityType, FS_EmptySet
<1>17. /\ IsFiniteSet(QueuedIds \cup AbortedIds)
       /\ Cardinality(QueuedIds \cup AbortedIds) = Cardinality(QueuedIds) + Cardinality(AbortedIds)
  <2>1. /\ IsFiniteSet(QueuedIds \cup AbortedIds)
        /\ Cardinality(QueuedIds \cup AbortedIds) =
             Cardinality(QueuedIds) + Cardinality(AbortedIds) - Cardinality(QueuedIds \cap AbortedIds)
    BY <1>15, FS_Union
  <2>2. QueuedIds \cap AbortedIds = {}
    BY <1>7
  <2>3. Cardinality(QueuedIds \cap AbortedIds) = 0
    BY <1>16, <2>2
  <2> QED BY <1>16, <2>1, <2>3
<1>18. Cardinality(Ids) = Cardinality(QueuedIds \cup AbortedIds) + Cardinality(AnsweredIds)
  <2>1. Cardinality((QueuedIds \cup AbortedIds) \cup AnsweredIds) =
          Cardinality(QueuedIds \cup AbortedIds) + Cardinality(AnsweredIds)
            - Cardinality((QueuedIds \cup AbortedIds) \cap AnsweredIds)
    BY <1>15, <1>17, FS_Union
  <2>2. (QueuedIds \cup AbortedIds) \cap AnsweredIds = {}
    BY <1>9, <1>10
  <2>3. Cardinality((QueuedIds \cup AbortedIds) \cap AnsweredIds) = 0
    BY <1>16, <2>2
  <2>4. Cardinality(Ids) = Cardinality((QueuedIds \cup AbortedIds) \cup AnsweredIds)
    BY <1>12
  <2>5. Cardinality(QueuedIds \cup AbortedIds) \in Nat
    BY <1>17, FS_CardinalityType
  <2> QED BY <1>16, <2>1, <2>3, <2>4, <2>5
<1> QED BY <1>12, <1>13, <1>14, <1>16, <1>17, <1>18 DEF Ids

\* Every admin command that waits is queued, is an abort, or has one unread
\* answer, and the host finds the answers in order by their phase tags: neither
\* the doorbells that nvmev_proc_bars() clears nor a completion queue that is
\* never compared with its tail loses or doubles one.
THEOREM AdminCommandsAccounted == ASSUME AdjacentReads PROVE Spec => []AdminAccounted
<1>1. ASSUME Inv, host.st = "up" PROVE TypeOK
  <2>1. Types
    BY <1>1 DEF Inv, Boots
  <2>2. qs.sqes \subseteq IOQs /\ qs.cqes \subseteq IOQs
    BY <2>1 DEF Types, Queues
  <2>3. host.waiting \subseteq Commands /\ host.st \in States
    BY <2>1, Fields
  <2>4. /\ admin_q.cq_head \in Slots /\ admin_q.phase \in {0, 1}
        /\ admin_q.curr \in Slots /\ admin_q.target \in Slots
    BY <2>1, Fields
  <2> QED BY <2>1, <2>2, <2>3, <2>4 DEF TypeOK, Types
<1>2. Inv => AdminAccounted
  <2>1. SUFFICES ASSUME Inv, host.st = "up"
        PROVE  /\ TypeOK
               /\ {c.id : c \in host.waiting} = QueuedIds \cup AbortedIds \cup AnsweredIds
               /\ Cardinality(host.waiting) = Cardinality(QueuedIds) + Cardinality(AbortedIds) + NrUnread
               /\ \A s, t \in Unread : distance(host.head, s) < distance(host.head, t) => Cq[s].id < Cq[t].id
               /\ \A s \in Unread : Cq[s].id > host.last
               /\ \A s \in Slots : (Cq[s].phase = Tag(s)) = (s \in Unread)
    BY DEF AdminAccounted, QueuedIds, AbortedIds, AnsweredIds, Unread, NrUnread, NrQueued, Sq, Cq, Tag
  <2>2. \A s, t \in Unread : distance(host.head, s) < distance(host.head, t) => Cq[s].id < Cq[t].id
    BY <2>1 DEF Inv, Up, AnswersInOrder
  <2>3. \A s \in Unread : Cq[s].id > host.last
    <3>1. \A s \in Unread : host.last < Cq[s].id /\ Cq[s].id \in Nat
      BY <2>1, UpFacts DEF Inv, Up, AnswersInOrder
    <3>2. host.last \in Nat
      BY <2>1, UpFacts
    <3> QED BY <3>1, <3>2
  <2>4. \A s \in Slots : (Cq[s].phase = Tag(s)) = (s \in Unread)
    BY <2>1 DEF Inv, Up, TagsRight
  <2> QED BY <1>1, <2>1, <2>2, <2>3, <2>4, AdminCounted
<1> QED BY <1>2, Invariance, PTL

=============================================================================
