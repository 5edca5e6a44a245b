--------------------------- MODULE QueuePairProofs ---------------------------
(***************************************************************************)
(* Proofs about the path of a command through an I/O queue pair, for any   *)
(* number of submission queues, any queue size and any number of commands. *)
(***************************************************************************)
EXTENDS QueuePair, FiniteSetTheorems, FunctionTheorems, WellFoundedInduction, TLAPS

\* the name for "no worker" is not the name of a worker
NamesDiffer == NoOne \notin SQs

(***************************************************************************)
(* The inductive invariant.                                                *)
(***************************************************************************)
Waiting(q) == distance(sq[q].old, sq[q].db)
\* commands of a queue the dispatcher has taken
Taken(q) == host.submitted[q] - Waiting(q)

NrUnread == distance(host.head, Posted)
Unread == {s \in Slots : distance(host.head, s) < NrUnread}
Tag(s) == IF s < host.head THEN 1 - host.phase ELSE host.phase

Types ==
    /\ sq \in [SQs -> [db : Slots, old : Slots, mem : [Slots -> 0 .. MaxCmds]]]
    /\ nr_in_flight \in [SQs -> Int]
    /\ work \in [SQs -> SUBSET Commands] /\ due \in SUBSET Commands
    /\ pc \in [SQs -> {"sweep", "filling", "clear", "signal"}]
    /\ cq \in [head : Slots, phase : {0, 1}, interrupt_ready : BOOLEAN, entry_lock : SQs \cup {NoOne}]
    /\ cq_mem \in [Slots -> [cmd : Commands \cup {<<NoOne, 0>>}, phase : {0, 1}]]
    /\ cq_old \in Slots
    /\ host \in [submitted : [SQs -> 0 .. MaxCmds], consumed : SUBSET Commands,
                 head : Slots, phase : {0, 1}, irq : BOOLEAN, isr : BOOLEAN, db : Slots]

\* a worker that is filling an entry holds entry_lock
LockHeld == \A w \in SQs : pc[w] = "filling" => cq.entry_lock = w

\* the phase of the next entry to be posted is the one the host will expect
PhaseAhead ==
    Tag(Posted) = IF cq.entry_lock = NoOne \/ next(cq.head) # 0 THEN cq.phase ELSE 1 - cq.phase

\* the host finds its phase tag on the unread entries and on no other
TagsRight == \A s \in Slots : cq_mem[s].phase = Tag(s) <=> s \in Unread

\* the queued slots hold the commands after those taken, in their order
RingInOrder == \A q \in SQs :
    /\ Waiting(q) <= host.submitted[q]
    /\ \A s \in Slots : distance(sq[q].old, s) < Waiting(q) =>
          sq[q].mem[s] = Taken(q) + distance(sq[q].old, s) + 1

\* a command that was taken is in its work queue, posted or read, never in two
\* of these places
WorkOnce == \A q \in SQs : \A c \in work[q] :
    c[1] = q /\ c[2] <= Taken(q) /\ c \notin host.consumed
UnreadOnce == \A s \in Unread :
    LET c == cq_mem[s].cmd
    IN  /\ c \in Commands \ host.consumed /\ c[2] <= Taken(c[1])
        /\ \A q \in SQs : c \notin work[q]
        /\ \A t \in Unread : cq_mem[t].cmd = c => t = s
ReadOnce == \A c \in host.consumed : c[2] <= Taken(c[1])
NoneMissing == \A c \in Commands : c[2] <= Taken(c[1]) =>
    c \in work[c[1]] \/ c \in host.consumed \/ \E s \in Unread : cq_mem[s].cmd = c

\* the host's promise, from which the rest follows
FewerThanSlots == IsFiniteSet(Unfinished) /\ Outstanding <= Size - 1

IInv ==
    /\ Types /\ LockHeld /\ PhaseAhead /\ TagsRight
    /\ RingInOrder /\ WorkOnce /\ UnreadOnce /\ ReadOnce /\ NoneMissing
    /\ FewerThanSlots

(***************************************************************************)
(* The ring.                                                               *)
(***************************************************************************)
\* The distance of two slots, without the modulus.
LEMMA Distance ==
    ASSUME NEW a \in Slots, NEW b \in Slots
    PROVE  distance(a, b) = IF b >= a THEN b - a ELSE b - a + Size
<1>1. Size \in Nat /\ Size > 1 /\ a \in Nat /\ b \in Nat /\ a < Size /\ b < Size
  BY QueueAssumption DEF Slots
<1>2. CASE b >= a
  BY <1>1, <1>2 DEF distance
<1>3. CASE b < a
  <2>1. (b - a + Size) % Size = b - a + Size
    BY <1>1, <1>3
  <2>2. (b - a) % Size = (b - a + Size) % Size
    BY <1>1, <1>3
  <2> QED BY <1>1, <1>3, <2>1, <2>2 DEF distance
<1> QED BY <1>1, <1>2, <1>3

\* Moving either end of a window by one slot.
LEMMA Window ==
    ASSUME NEW a \in Slots, NEW b \in Slots
    PROVE  /\ next(a) \in Slots /\ distance(a, b) \in Slots /\ distance(a, a) = 0
           /\ distance(a, b) < Size - 1 => distance(a, next(b)) = distance(a, b) + 1
           /\ distance(a, b) > 0 => distance(next(a), b) = distance(a, b) - 1
           /\ a = b <=> distance(a, b) = 0
           /\ a = b => distance(next(a), b) = Size - 1
           /\ \A c \in Slots : distance(a, b) = distance(a, c) => b = c
<1>1. Size \in Nat /\ Size > 1
  BY QueueAssumption
<1>2. /\ next(a) \in Slots /\ next(b) \in Slots /\ a \in Nat /\ a < Size /\ b \in Nat /\ b < Size
      /\ next(a) = IF a + 1 = Size THEN 0 ELSE a + 1
      /\ next(b) = IF b + 1 = Size THEN 0 ELSE b + 1
  BY <1>1 DEF next, Slots
<1>3. \A x \in Slots, y \in Slots : distance(x, y) = IF y >= x THEN y - x ELSE y - x + Size
  BY Distance
<1>4. /\ distance(a, b) \in Slots /\ distance(a, a) = 0
      /\ a = b <=> distance(a, b) = 0
  BY <1>1, <1>2, <1>3 DEF Slots
<1>5. distance(a, b) < Size - 1 => distance(a, next(b)) = distance(a, b) + 1
  <2>1. distance(a, b) = IF b >= a THEN b - a ELSE b - a + Size
    BY <1>3
  <2>2. distance(a, next(b)) = IF next(b) >= a THEN next(b) - a ELSE next(b) - a + Size
    BY <1>2, <1>3
  <2> QED BY <1>1, <1>2, <2>1, <2>2
<1>6. /\ distance(a, b) > 0 => distance(next(a), b) = distance(a, b) - 1
      /\ a = b => distance(next(a), b) = Size - 1
  <2>1. distance(a, b) = IF b >= a THEN b - a ELSE b - a + Size
    BY <1>3
  <2>2. distance(next(a), b) = IF b >= next(a) THEN b - next(a) ELSE b - next(a) + Size
    BY <1>2, <1>3
  <2> QED BY <1>1, <1>2, <2>1, <2>2
<1>7. ASSUME NEW c \in Slots, distance(a, b) = distance(a, c) PROVE b = c
  <2>1. \A x \in Slots : x = IF a + distance(a, x) < Size THEN a + distance(a, x)
                          ELSE a + distance(a, x) - Size
    <3>1. SUFFICES ASSUME NEW x \in Slots
                   PROVE  x = IF a + distance(a, x) < Size THEN a + distance(a, x)
                              ELSE a + distance(a, x) - Size
      OBVIOUS
    <3>2. distance(a, x) = (IF x >= a THEN x - a ELSE x - a + Size) /\ x \in Nat /\ x < Size
      BY <1>1, <1>3 DEF Slots
    <3> QED BY <1>1, <1>2, <3>2
  <2> QED BY <1>7, <2>1
<1> QED BY <1>2, <1>4, <1>5, <1>6, <1>7

\* the slot at a distance
slot(a, i) == IF a + i < Size THEN a + i ELSE a + i - Size

\* The slot at distance i from a is a slot, and is at that distance.
LEMMA SlotAt ==
    ASSUME NEW a \in Slots, NEW i \in Slots
    PROVE  slot(a, i) \in Slots /\ distance(a, slot(a, i)) = i
<1>1. Size \in Nat /\ Size > 1
  BY QueueAssumption
<1>2. slot(a, i) \in Slots
  BY <1>1 DEF slot, Slots
<1> QED BY <1>1, <1>2, Distance DEF slot, Slots

(***************************************************************************)
(* What the invariant says of the fields, and how many commands there are. *)
(***************************************************************************)
\* Parts of the invariant in the form the provers use.
LEMMA Facts ==
    ASSUME Types
    PROVE  /\ host.head \in Slots /\ host.phase \in {0, 1} /\ host.consumed \in SUBSET Commands
           /\ cq.head \in Slots /\ cq.phase \in {0, 1} /\ Posted \in Slots
           /\ NrUnread \in Slots /\ Unread \in SUBSET Slots
           /\ \A s \in Slots : Tag(s) \in {0, 1} /\ cq_mem[s].phase \in {0, 1}
           /\ \A q \in SQs : /\ sq[q].db \in Slots /\ sq[q].old \in Slots
                             /\ sq[q].mem \in [Slots -> 0 .. MaxCmds]
                             /\ Waiting(q) \in Slots /\ host.submitted[q] \in 0 .. MaxCmds
                             /\ Taken(q) \in Int
<1>1. /\ host.head \in Slots /\ host.phase \in {0, 1} /\ host.consumed \in SUBSET Commands
      /\ cq.head \in Slots /\ cq.phase \in {0, 1}
  BY DEF Types
<1>2. Posted \in Slots
  BY <1>1, Window DEF Posted
<1>3. NrUnread \in Slots
  BY <1>1, <1>2, Window DEF NrUnread
<1>4. Unread \in SUBSET Slots
  BY DEF Unread
<1>5. \A s \in Slots : Tag(s) \in {0, 1} /\ cq_mem[s].phase \in {0, 1}
  BY <1>1 DEF Tag, Types
<1>6. ASSUME NEW q \in SQs
      PROVE  /\ sq[q].db \in Slots /\ sq[q].old \in Slots /\ sq[q].mem \in [Slots -> 0 .. MaxCmds]
             /\ Waiting(q) \in Slots /\ host.submitted[q] \in 0 .. MaxCmds /\ Taken(q) \in Int
  <2>1. sq[q].db \in Slots /\ sq[q].old \in Slots /\ sq[q].mem \in [Slots -> 0 .. MaxCmds]
    BY DEF Types
  <2>2. Waiting(q) \in Slots /\ host.submitted[q] \in 0 .. MaxCmds
    BY <2>1, Window DEF Waiting, Types
  <2> QED BY <2>1, <2>2, QueueAssumption DEF Taken, Slots
<1> QED BY <1>1, <1>2, <1>3, <1>4, <1>5, <1>6

\* Where a command is, it is one of the unfinished ones.
LEMMA AllUnfinished ==
    ASSUME IInv
    PROVE  /\ \A q \in SQs : work[q] \subseteq Unfinished
           /\ \A s \in Unread : cq_mem[s].cmd \in Unfinished
           /\ \A q \in SQs : \A n \in 1 .. MaxCmds :
                 Taken(q) < n /\ n <= host.submitted[q] => <<q, n>> \in Unfinished
           /\ Outstanding \in Nat
<1>1. \A q \in SQs : Waiting(q) \in Nat /\ host.submitted[q] \in Nat /\ Taken(q) <= host.submitted[q]
  BY Facts, QueueAssumption DEF IInv, Slots, Taken
<1>2. \A c \in Commands : c[1] \in SQs /\ c[2] \in Nat
  BY QueueAssumption DEF Commands
<1>3. \A q \in SQs : Taken(q) \in Int
  BY Facts DEF IInv
<1>4. \A c \in Commands \ host.consumed : c[2] <= Taken(c[1]) => c \in Unfinished
  BY <1>1, <1>2, <1>3 DEF Unfinished
<1>5. \A q \in SQs : work[q] \subseteq Unfinished
  <2>1. \A q \in SQs : work[q] \subseteq Commands
    BY DEF IInv, Types
  <2> QED BY <1>4, <2>1 DEF IInv, WorkOnce
<1>6. \A s \in Unread : cq_mem[s].cmd \in Unfinished
  BY <1>4 DEF IInv, UnreadOnce
<1>7. ASSUME NEW q \in SQs, NEW n \in 1 .. MaxCmds, Taken(q) < n, n <= host.submitted[q]
      PROVE  <<q, n>> \in Unfinished
  <2>1. <<q, n>> \in Commands /\ <<q, n>>[1] = q /\ <<q, n>>[2] = n
    BY DEF Commands
  <2>2. <<q, n>> \notin host.consumed
    BY <1>3, <1>7, <2>1 DEF IInv, ReadOnce
  <2> QED BY <1>7, <2>1, <2>2 DEF Unfinished
<1>8. Outstanding \in Nat
  BY FS_CardinalityType DEF IInv, FewerThanSlots, Outstanding
<1> QED BY <1>5, <1>6, <1>7, <1>8

\* A submission queue holds no more commands than are outstanding.
LEMMA WaitingFits ==
    ASSUME IInv, NEW q \in SQs
    PROVE  Waiting(q) <= Outstanding
<1> DEFINE f == [n \in Taken(q) + 1 .. host.submitted[q] |-> <<q, n>>]
<1>1. /\ Taken(q) \in Nat /\ host.submitted[q] \in Nat /\ Waiting(q) \in Nat
      /\ Taken(q) = host.submitted[q] - Waiting(q) /\ host.submitted[q] <= MaxCmds
  BY Facts, QueueAssumption DEF IInv, RingInOrder, Slots, Taken
<1>2. \A n \in Taken(q) + 1 .. host.submitted[q] : <<q, n>> \in Unfinished
  BY <1>1, AllUnfinished, QueueAssumption
<1>3. f \in Injection(Taken(q) + 1 .. host.submitted[q], Unfinished)
  <2>1. f \in [Taken(q) + 1 .. host.submitted[q] -> Unfinished]
    BY <1>2
  <2>2. \A m, n \in Taken(q) + 1 .. host.submitted[q] : f[m] = f[n] => m = n
    OBVIOUS
  <2> QED BY <2>1, <2>2 DEF Injection, IsInjective
<1> HIDE DEF f
<1>4. Cardinality(Taken(q) + 1 .. host.submitted[q]) <= Outstanding
  BY <1>3, FS_Injection DEF IInv, FewerThanSlots, Outstanding
<1>5. Cardinality(Taken(q) + 1 .. host.submitted[q]) = Waiting(q)
  <2>1. Taken(q) + 1 \in Int /\ host.submitted[q] \in Int
    BY <1>1
  <2>2. Cardinality(Taken(q) + 1 .. host.submitted[q]) =
          IF Taken(q) + 1 > host.submitted[q] THEN 0 ELSE host.submitted[q] - (Taken(q) + 1) + 1
    BY <2>1, FS_Interval
  <2> QED BY <1>1, <2>2
<1> QED BY <1>4, <1>5

\* There is room in the completion queue for a command that is not posted yet.
LEMMA RoomToPost ==
    ASSUME IInv, NEW w \in SQs, NEW c \in work[w]
    PROVE  NrUnread < Size - 1
<1> DEFINE f == [i \in 0 .. NrUnread - 1 |-> cq_mem[slot(host.head, i)].cmd]
           Others == Unfinished \ {c}
<1>1. /\ NrUnread \in Nat /\ Size \in Nat /\ NrUnread < Size /\ host.head \in Slots
  BY Facts, QueueAssumption DEF IInv, Slots
<1>2. \A i \in 0 .. NrUnread - 1 :
        /\ i \in Slots /\ slot(host.head, i) \in Unread /\ distance(host.head, slot(host.head, i)) = i
  <2>1. SUFFICES ASSUME NEW i \in 0 .. NrUnread - 1
        PROVE  /\ i \in Slots /\ slot(host.head, i) \in Unread
               /\ distance(host.head, slot(host.head, i)) = i
    OBVIOUS
  <2>2. i \in Slots /\ i < NrUnread
    BY <1>1 DEF Slots
  <2>3. slot(host.head, i) \in Slots /\ distance(host.head, slot(host.head, i)) = i
    BY <1>1, <2>2, SlotAt
  <2> QED BY <2>2, <2>3 DEF Unread
<1>3. \A s \in Unread : cq_mem[s].cmd \in Others
  BY AllUnfinished DEF IInv, UnreadOnce
<1>4. \A s, t \in Unread : cq_mem[s].cmd = cq_mem[t].cmd => s = t
  BY DEF IInv, UnreadOnce
<1>5. f \in Injection(0 .. NrUnread - 1, Others)
  <2>1. f \in [0 .. NrUnread - 1 -> Others]
    BY <1>2, <1>3
  <2>2. \A i, j \in 0 .. NrUnread - 1 : f[i] = f[j] => i = j
    BY <1>2, <1>4
  <2> QED BY <2>1, <2>2 DEF Injection, IsInjective
<1>6. c \in Unfinished /\ IsFiniteSet(Unfinished)
  BY AllUnfinished DEF IInv, FewerThanSlots
<1>7. IsFiniteSet(Others) /\ Cardinality(Others) = Outstanding - 1
  BY <1>6, FS_RemoveElement DEF Outstanding
<1>8. Cardinality(0 .. NrUnread - 1) <= Cardinality(Others)
  BY <1>5, <1>7, FS_Injection
<1>9. Cardinality(0 .. NrUnread - 1) = NrUnread
  BY <1>1, FS_Interval
<1> QED BY <1>1, <1>7, <1>8, <1>9, AllUnfinished DEF IInv, FewerThanSlots

(***************************************************************************)
(* Every step keeps the invariant.                                         *)
(***************************************************************************)
\* The steps that move no command: interrupts, doorbells, the passing of time,
\* and the end of __fill_cq_result(), after which the lock is free and the
\* head stands where it was said to be.
LEMMA StepQuiet ==
    ASSUME IInv, Types', LockHeld', UNCHANGED <<sq, work, cq_mem>>,
           host'.submitted = host.submitted, host'.consumed = host.consumed,
           host'.head = host.head, host'.phase = host.phase, Posted' = Posted, PhaseAhead'
    PROVE  IInv'
<1>1. /\ \A q \in SQs : Waiting(q)' = Waiting(q) /\ Taken(q)' = Taken(q)
      /\ NrUnread' = NrUnread /\ Unread' = Unread /\ \A s : Tag(s)' = Tag(s)
      /\ Unfinished' = Unfinished /\ Outstanding' = Outstanding
  BY DEF Waiting, Taken, NrUnread, Unread, Tag, Unfinished, Outstanding
<1>2. TagsRight' /\ RingInOrder' /\ FewerThanSlots'
  BY <1>1 DEF IInv, TagsRight, RingInOrder, FewerThanSlots
<1>3. \A c \in Commands : c[1] \in SQs
  BY DEF Commands
<1>4. host.consumed \subseteq Commands
  BY Facts DEF IInv
<1>5. WorkOnce' /\ ReadOnce' /\ NoneMissing'
  BY <1>1, <1>3, <1>4 DEF IInv, WorkOnce, ReadOnce, NoneMissing
<1>6. UnreadOnce'
  BY <1>1, <1>3 DEF IInv, UnreadOnce
<1> QED BY <1>2, <1>5, <1>6 DEF IInv

\* The host submits a command: a slot of the queue is free.
LEMMA StepSubmit ==
    ASSUME IInv, NEW q \in SQs, submit(q)
    PROVE  IInv'
<1> DEFINE n == host.submitted[q] + 1
           new == <<q, n>>
<1>1. /\ host.submitted[q] < MaxCmds /\ Outstanding < Size - 1
      /\ host' = [host EXCEPT !.submitted[q] = @ + 1]
      /\ sq' = [sq EXCEPT ![q].mem[sq[q].db] = host'.submitted[q], ![q].db = next(@)]
      /\ UNCHANGED <<nr_in_flight, work, due, pc, cq, cq_mem, cq_old>>
  BY DEF submit
<1>2. /\ host.submitted \in [SQs -> 0 .. MaxCmds] /\ host.submitted[q] \in Nat /\ n \in 1 .. MaxCmds
      /\ host.submitted[q] \in 0 .. MaxCmds
  BY <1>1, QueueAssumption DEF IInv, Types
<1>3. /\ host'.submitted = [host.submitted EXCEPT ![q] = n]
      /\ host'.consumed = host.consumed /\ host'.head = host.head /\ host'.phase = host.phase
      /\ host' \in [submitted : [SQs -> 0 .. MaxCmds], consumed : SUBSET Commands,
                 head : Slots, phase : {0, 1}, irq : BOOLEAN, isr : BOOLEAN, db : Slots]
  <2> DEFINE subs == [host.submitted EXCEPT ![q] = n]
  <2>1. subs \in [SQs -> 0 .. MaxCmds]
    BY <1>2
  <2>2. host' = [host EXCEPT !.submitted = subs]
    BY <1>1
  <2> HIDE DEF subs
  <2>3. /\ host'.submitted = subs
        /\ host'.consumed = host.consumed /\ host'.head = host.head /\ host'.phase = host.phase
        /\ host' \in [submitted : [SQs -> 0 .. MaxCmds], consumed : SUBSET Commands,
                 head : Slots, phase : {0, 1}, irq : BOOLEAN, isr : BOOLEAN, db : Slots]
    BY <2>1, <2>2 DEF IInv, Types
  <2> QED BY <2>3 DEF subs
<1>4. host'.submitted[q] = n /\ \A r \in SQs \ {q} : host'.submitted[r] = host.submitted[r]
  BY <1>2, <1>3
<1> HIDE DEF n
<1>5. /\ sq[q].db \in Slots /\ sq[q].old \in Slots /\ sq[q].mem \in [Slots -> 0 .. MaxCmds]
      /\ next(sq[q].db) \in Slots /\ Waiting(q) \in Slots
  BY Facts, Window DEF IInv
<1>6. /\ sq' \in [SQs -> [db : Slots, old : Slots, mem : [Slots -> 0 .. MaxCmds]]]
      /\ sq'[q].db = next(sq[q].db) /\ sq'[q].old = sq[q].old
      /\ sq'[q].mem = [sq[q].mem EXCEPT ![sq[q].db] = n]
      /\ \A r \in SQs \ {q} : sq'[r] = sq[r]
  <2>1. n \in 0 .. MaxCmds
    BY <1>2
  <2> DEFINE m == [sq[q].mem EXCEPT ![sq[q].db] = n]
             e == [[sq[q] EXCEPT !.mem = m] EXCEPT !.db = next(sq[q].db)]
  <2>2. m \in [Slots -> 0 .. MaxCmds]
    BY <1>5, <2>1
  <2>3. sq' = [sq EXCEPT ![q] = e]
    BY <1>1, <1>4 DEF IInv, Types
  <2>4. sq[q] \in [db : Slots, old : Slots, mem : [Slots -> 0 .. MaxCmds]]
    BY DEF IInv, Types
  <2>5. /\ e \in [db : Slots, old : Slots, mem : [Slots -> 0 .. MaxCmds]]
        /\ e.db = next(sq[q].db) /\ e.old = sq[q].old /\ e.mem = m
    <3> HIDE DEF m
    <3> QED BY <1>5, <2>2, <2>4
  <2> HIDE DEF e
  <2> QED BY <2>3, <2>5 DEF IInv, Types
<1>7. Types'
  BY <1>1, <1>3, <1>6 DEF IInv, Types
<1>8. Waiting(q) < Size - 1 /\ Size \in Nat
  BY <1>1, <1>5, WaitingFits, AllUnfinished, QueueAssumption DEF Slots
<1>9. Waiting(q)' = Waiting(q) + 1 /\ \A r \in SQs \ {q} : Waiting(r)' = Waiting(r)
  <2>1. distance(sq[q].old, next(sq[q].db)) = distance(sq[q].old, sq[q].db) + 1
    BY <1>5, <1>8, Window DEF Waiting
  <2> QED BY <1>6, <2>1 DEF Waiting
<1>10. \A r \in SQs : Taken(r)' = Taken(r)
  <2>1. Waiting(q) \in Nat
    BY <1>5 DEF Slots
  <2> QED BY <1>2, <1>4, <1>9, <2>1 DEF Taken, n
<1>11. NrUnread' = NrUnread /\ Unread' = Unread /\ (\A s : Tag(s)' = Tag(s)) /\ Posted' = Posted
  BY <1>1, <1>3 DEF NrUnread, Unread, Tag, Posted
<1>12. LockHeld' /\ PhaseAhead' /\ TagsRight'
  BY <1>1, <1>11 DEF IInv, LockHeld, PhaseAhead, TagsRight
<1>13. \A c \in Commands : c[1] \in SQs
  BY DEF Commands
<1>14. WorkOnce' /\ ReadOnce' /\ NoneMissing' /\ UnreadOnce'
  <2>1. host.consumed \subseteq Commands
    BY Facts DEF IInv
  <2>2. WorkOnce' /\ ReadOnce' /\ NoneMissing'
    BY <1>1, <1>3, <1>10, <1>11, <1>13, <2>1 DEF IInv, WorkOnce, ReadOnce, NoneMissing
  <2>3. UnreadOnce'
    BY <1>1, <1>3, <1>10, <1>11, <1>13 DEF IInv, UnreadOnce
  <2> QED BY <2>2, <2>3
<1>15. RingInOrder'
  <2>1. ASSUME NEW r \in SQs \ {q}, NEW s \in Slots
        PROVE  /\ Waiting(r)' <= host'.submitted[r]
               /\ distance(sq'[r].old, s) < Waiting(r)' => sq'[r].mem[s] = Taken(r)' + distance(sq'[r].old, s) + 1
    BY <1>4, <1>6, <1>9, <1>10 DEF IInv, RingInOrder
  <2>2. Waiting(q)' <= host'.submitted[q] /\ Taken(q) = n - Waiting(q) - 1
    <3>1. Waiting(q) <= host.submitted[q] /\ Waiting(q) \in Nat
      BY <1>5 DEF IInv, RingInOrder, Slots
    <3> QED BY <1>2, <1>4, <1>9, <3>1 DEF n, Taken
  <2>3. ASSUME NEW s \in Slots, distance(sq[q].old, s) < Waiting(q) + 1
        PROVE  sq'[q].mem[s] = Taken(q) + distance(sq[q].old, s) + 1
    <3>1. distance(sq[q].old, s) \in Nat /\ Waiting(q) \in Nat /\ Waiting(q) = distance(sq[q].old, sq[q].db)
      <4>1. distance(sq[q].old, s) \in Slots
        BY <1>5, Window
      <4> QED BY <1>5, <4>1 DEF Waiting, Slots
    <3>2. CASE s = sq[q].db
      <4>1. sq'[q].mem[s] = n /\ distance(sq[q].old, s) = Waiting(q)
        BY <1>5, <1>6, <3>1, <3>2
      <4>2. n \in Int
        BY <1>2
      <4> QED BY <2>2, <3>1, <4>1, <4>2
    <3>3. CASE s # sq[q].db
      <4>1. distance(sq[q].old, s) # Waiting(q)
        <5>1. \A c \in Slots : distance(sq[q].old, sq[q].db) = distance(sq[q].old, c) => sq[q].db = c
          BY <1>5, Window
        <5> QED BY <3>1, <3>3, <5>1
      <4>2. distance(sq[q].old, s) < Waiting(q)
        BY <2>3, <3>1, <4>1
      <4> QED BY <1>5, <1>6, <3>3, <4>2 DEF IInv, RingInOrder
    <3> QED BY <3>2, <3>3
  <2>4. ASSUME NEW r \in SQs
        PROVE  /\ Waiting(r)' <= host'.submitted[r]
               /\ \A s \in Slots : distance(sq'[r].old, s) < Waiting(r)' =>
                     sq'[r].mem[s] = Taken(r)' + distance(sq'[r].old, s) + 1
    <3>1. CASE r = q
      BY <1>6, <1>9, <1>10, <2>2, <2>3, <3>1
    <3>2. CASE r # q
      <4>1. 0 \in Slots
        BY QueueAssumption DEF Slots
      <4> QED BY <2>1, <3>2, <4>1
    <3> QED BY <3>1, <3>2
  <2> QED BY <2>4 DEF RingInOrder
<1>16. FewerThanSlots'
  <2>1. new \in Commands /\ new[1] = q /\ new[2] = n
    BY <1>2 DEF Commands
  <2>2. Unfinished' \subseteq Unfinished \cup {new}
    <3>1. SUFFICES ASSUME NEW c \in Commands, c \notin host.consumed, c[2] <= host'.submitted[c[1]],
                          c \notin Unfinished
                   PROVE  c = new
      BY <1>3 DEF Unfinished
    <3>2. c[1] = q /\ c[2] \in Nat /\ c[2] > host.submitted[q] /\ c = <<c[1], c[2]>>
      BY <1>2, <1>4, <1>13, <3>1, QueueAssumption DEF Unfinished, Commands
    <3> QED BY <1>2, <1>4, <3>1, <3>2 DEF n
  <2>3. /\ IsFiniteSet(Unfinished \cup {new})
        /\ Cardinality(Unfinished \cup {new}) <= Outstanding + 1
    <3>1. IsFiniteSet(Unfinished)
      BY DEF IInv, FewerThanSlots
    <3>2. /\ IsFiniteSet(Unfinished \cup {new})
          /\ Cardinality(Unfinished \cup {new}) =
               IF new \in Unfinished THEN Cardinality(Unfinished) ELSE Cardinality(Unfinished) + 1
      BY <3>1, FS_AddElement
    <3> QED BY <3>2, AllUnfinished DEF Outstanding
  <2>4. IsFiniteSet(Unfinished') /\ Cardinality(Unfinished') <= Cardinality(Unfinished \cup {new})
    BY <2>2, <2>3, FS_Subset
  <2>5. Cardinality(Unfinished') \in Nat /\ Cardinality(Unfinished \cup {new}) \in Nat
    BY <2>3, <2>4, FS_CardinalityType
  <2> QED BY <1>1, <1>8, <2>3, <2>4, <2>5, AllUnfinished DEF FewerThanSlots, Outstanding
<1> QED BY <1>7, <1>12, <1>14, <1>15, <1>16 DEF IInv

\* The dispatcher takes the next command of a queue.
LEMMA StepTake ==
    ASSUME IInv, NEW q \in SQs, nvmev_proc_io_sq(q)
    PROVE  IInv'
<1> DEFINE n == Taken(q) + 1
           new == <<q, n>>
           old == sq[q].old
<1>1. /\ sq[q].db # old
      /\ work' = [work EXCEPT ![q] = @ \cup {<<q, sq[q].mem[old]>>}]
      /\ sq' = [sq EXCEPT ![q].old = next(@)]
      /\ nr_in_flight' = [nr_in_flight EXCEPT ![q] = @ + 1]
      /\ UNCHANGED <<due, pc, cq, cq_mem, cq_old, host>>
  BY DEF nvmev_proc_io_sq
<1>2. /\ sq[q].db \in Slots /\ old \in Slots /\ next(old) \in Slots
      /\ Waiting(q) \in Slots /\ Waiting(q) # 0 /\ distance(old, old) = 0
      /\ distance(next(old), sq[q].db) = Waiting(q) - 1
  <2>1. sq[q].db \in Slots /\ old \in Slots /\ Waiting(q) \in Slots
    BY Facts DEF IInv
  <2>2. Waiting(q) # 0
    BY <1>1, <2>1, Window DEF Waiting
  <2>3. distance(old, sq[q].db) > 0
    BY <2>1, <2>2 DEF Waiting, Slots
  <2> QED BY <2>1, <2>2, <2>3, Window DEF Waiting
<1>3. /\ host.submitted[q] \in Nat /\ host.submitted[q] <= MaxCmds /\ Waiting(q) \in Nat
      /\ Waiting(q) > 0 /\ Waiting(q) <= host.submitted[q] /\ Waiting(q) <= Size - 1
      /\ Taken(q) \in Nat /\ n \in 1 .. MaxCmds /\ Taken(q) = host.submitted[q] - Waiting(q)
      /\ Size \in Nat
  <2>1. Size \in Nat /\ MaxCmds \in Nat /\ Waiting(q) \in Nat /\ Waiting(q) > 0 /\ Waiting(q) <= Size - 1
    BY <1>2, QueueAssumption DEF Slots
  <2>2. host.submitted[q] \in 0 .. MaxCmds /\ Waiting(q) <= host.submitted[q]
    BY Facts DEF IInv, RingInOrder
  <2>3. Taken(q) = host.submitted[q] - Waiting(q)
    BY DEF Taken
  <2> QED BY <2>1, <2>2, <2>3
<1>4. sq[q].mem[old] = n
  BY <1>2, <1>3 DEF IInv, RingInOrder
<1> HIDE DEF n
<1>5. /\ sq' \in [SQs -> [db : Slots, old : Slots, mem : [Slots -> 0 .. MaxCmds]]]
      /\ sq'[q].db = sq[q].db /\ sq'[q].old = next(old) /\ sq'[q].mem = sq[q].mem
      /\ \A r \in SQs \ {q} : sq'[r] = sq[r]
  <2> DEFINE e == [sq[q] EXCEPT !.old = next(old)]
  <2>1. sq' = [sq EXCEPT ![q] = e]
    BY <1>1 DEF IInv, Types
  <2>2. sq[q] \in [db : Slots, old : Slots, mem : [Slots -> 0 .. MaxCmds]]
    BY DEF IInv, Types
  <2>3. /\ e \in [db : Slots, old : Slots, mem : [Slots -> 0 .. MaxCmds]]
        /\ e.db = sq[q].db /\ e.old = next(old) /\ e.mem = sq[q].mem
    BY <1>2, <2>2
  <2> HIDE DEF e
  <2> QED BY <2>1, <2>3 DEF IInv, Types
<1>6. new \in Commands /\ new[1] = q /\ new[2] = n
  BY <1>3 DEF Commands
<1>7. /\ work' \in [SQs -> SUBSET Commands] /\ work'[q] = work[q] \cup {new}
      /\ \A r \in SQs \ {q} : work'[r] = work[r]
  <2>1. work' = [work EXCEPT ![q] = work[q] \cup {new}]
    BY <1>1, <1>4
  <2> HIDE DEF new
  <2>2. work \in [SQs -> SUBSET Commands] /\ work[q] \cup {new} \in SUBSET Commands
    BY <1>6 DEF IInv, Types
  <2> QED BY <2>1, <2>2
<1>8. Types'
  <2>1. nr_in_flight' \in [SQs -> Int]
    BY <1>1 DEF IInv, Types
  <2> QED BY <1>1, <1>5, <1>7, <2>1 DEF IInv, Types
<1>9. Waiting(q)' = Waiting(q) - 1 /\ \A r \in SQs \ {q} : Waiting(r)' = Waiting(r)
  BY <1>2, <1>5 DEF Waiting
<1>10. Taken(q)' = n /\ n = Taken(q) + 1 /\ \A r \in SQs \ {q} : Taken(r)' = Taken(r)
  BY <1>1, <1>3, <1>9 DEF Taken, n
<1>11. /\ NrUnread' = NrUnread /\ Unread' = Unread /\ (\A s : Tag(s)' = Tag(s)) /\ Posted' = Posted
       /\ Unfinished' = Unfinished /\ Outstanding' = Outstanding
  BY <1>1 DEF NrUnread, Unread, Tag, Posted, Unfinished, Outstanding
<1>12. LockHeld' /\ PhaseAhead' /\ TagsRight' /\ FewerThanSlots'
  BY <1>1, <1>11 DEF IInv, LockHeld, PhaseAhead, TagsRight, FewerThanSlots
<1>13. (\A c \in Commands : c[1] \in SQs /\ c[2] \in Nat) /\ \A r \in SQs : Taken(r) \in Int
  BY Facts, QueueAssumption DEF Commands, IInv
<1>14. \A c \in Commands : c[2] <= Taken(c[1]) => c[2] <= Taken(c[1])' /\ c # new
  BY <1>3, <1>6, <1>10, <1>13
<1>15. host.consumed \subseteq Commands
  BY Facts DEF IInv
<1>16. ReadOnce'
  BY <1>1, <1>14, <1>15 DEF IInv, ReadOnce
<1>17. new \notin host.consumed
  BY <1>14, <1>15 DEF IInv, ReadOnce
<1>18. WorkOnce'
  <2>1. \A r \in SQs : work[r] \subseteq Commands
    BY DEF IInv, Types
  <2>2. \A r \in SQs : \A c \in work[r] : c[1] = r /\ c[2] <= Taken(r)' /\ c \notin host.consumed
    BY <1>14, <2>1 DEF IInv, WorkOnce
  <2>3. new[2] <= Taken(q)'
    BY <1>3, <1>6, <1>10
  <2> QED BY <1>1, <1>6, <1>7, <1>17, <2>2, <2>3 DEF WorkOnce
<1>19. UnreadOnce'
  BY <1>1, <1>7, <1>11, <1>14 DEF IInv, UnreadOnce
<1>20. NoneMissing'
  <2>1. SUFFICES ASSUME NEW c \in Commands, c[2] <= Taken(c[1])'
                 PROVE  c \in work'[c[1]] \/ c \in host.consumed \/ \E s \in Unread : cq_mem[s].cmd = c
    BY <1>1, <1>11 DEF NoneMissing
  <2>2. CASE c[2] <= Taken(c[1])
    BY <1>7, <1>13, <2>2 DEF IInv, NoneMissing
  <2>3. CASE c[2] > Taken(c[1])
    <3>1. c[1] = q /\ c[2] = n /\ c = <<c[1], c[2]>>
      BY <1>3, <1>10, <1>13, <2>1, <2>3 DEF Commands
    <3> QED BY <1>7, <3>1
  <2> QED BY <1>13, <2>2, <2>3
<1>21. RingInOrder'
  <2>1. ASSUME NEW s \in Slots, distance(next(old), s) < Waiting(q) - 1
        PROVE  sq[q].mem[s] = n + distance(next(old), s) + 1
    <3>1. distance(old, s) \in Slots /\ distance(next(old), s) \in Slots
      BY <1>2, Window
    <3>2. s # old
      <4>1. distance(next(old), old) = Size - 1
        BY <1>2, Window
      <4> QED BY <1>3, <2>1, <4>1
    <3>3. distance(old, s) # 0
      BY <1>2, <3>2, Window
    <3>4. distance(next(old), s) = distance(old, s) - 1 /\ distance(old, s) \in Nat
      <4>1. distance(old, s) > 0 /\ distance(old, s) \in Nat
        BY <3>1, <3>3 DEF Slots
      <4> QED BY <1>2, <4>1, Window
    <3>5. distance(old, s) < Waiting(q)
      BY <1>3, <2>1, <3>4
    <3>6. sq[q].mem[s] = Taken(q) + distance(old, s) + 1
      BY <3>5 DEF IInv, RingInOrder
    <3> QED BY <1>3, <1>10, <3>4, <3>6
  <2>2. ASSUME NEW r \in SQs
        PROVE  /\ Waiting(r)' <= host'.submitted[r]
               /\ \A s \in Slots : distance(sq'[r].old, s) < Waiting(r)' =>
                     sq'[r].mem[s] = Taken(r)' + distance(sq'[r].old, s) + 1
    <3>1. CASE r = q
      <4>1. Waiting(q)' <= host'.submitted[q]
        BY <1>1, <1>3, <1>9
      <4> QED BY <1>5, <1>9, <1>10, <2>1, <3>1, <4>1
    <3>2. CASE r # q
      BY <1>1, <1>5, <1>9, <1>10, <3>2 DEF IInv, RingInOrder
    <3> QED BY <3>1, <3>2
  <2> QED BY <2>2 DEF RingInOrder
<1> QED BY <1>8, <1>12, <1>16, <1>18, <1>19, <1>20, <1>21 DEF IInv

\* A worker posts a completion: the entry it writes is not one the host still
\* has to read.
LEMMA StepFill ==
    ASSUME NamesDiffer, IInv, NEW w \in SQs, NEW c \in work[w], fill_status(w, c)
    PROVE  IInv'
<1> DEFINE at == cq.head
<1>1. /\ pc[w] = "sweep" /\ cq.entry_lock = NoOne
      /\ cq_mem' = [cq_mem EXCEPT ![at] = [cmd |-> c, phase |-> cq.phase]]
      /\ cq' = [cq EXCEPT !.entry_lock = w]
      /\ work' = [work EXCEPT ![w] = @ \ {c}]
      /\ due' = due \ {c}
      /\ pc' = [pc EXCEPT ![w] = "filling"]
      /\ UNCHANGED <<sq, nr_in_flight, cq_old, host>>
  BY DEF fill_status
<1>2. /\ c \in Commands /\ at \in Slots /\ cq.phase \in {0, 1} /\ Posted = at /\ next(at) \in Slots
      /\ host.head \in Slots /\ NrUnread \in Slots
  <2>1. c \in Commands
    BY DEF IInv, Types
  <2> QED BY <1>1, <2>1, Facts, Window DEF IInv, Posted
<1>3. /\ cq'.head = at /\ cq'.phase = cq.phase /\ cq'.entry_lock = w
      /\ cq' \in [head : Slots, phase : {0, 1}, interrupt_ready : BOOLEAN, entry_lock : SQs \cup {NoOne}]
  BY <1>1 DEF IInv, Types
<1>4. /\ cq_mem' \in [Slots -> [cmd : Commands \cup {<<NoOne, 0>>}, phase : {0, 1}]]
      /\ cq_mem'[at].cmd = c /\ cq_mem'[at].phase = cq.phase
      /\ \A s \in Slots \ {at} : cq_mem'[s] = cq_mem[s]
  BY <1>1, <1>2 DEF IInv, Types
<1>5. /\ work' \in [SQs -> SUBSET Commands] /\ work'[w] = work[w] \ {c}
      /\ \A r \in SQs \ {w} : work'[r] = work[r]
  BY <1>1 DEF IInv, Types
<1>6. pc' \in [SQs -> {"sweep", "filling", "clear", "signal"}] /\ pc'[w] = "filling"
      /\ \A r \in SQs \ {w} : pc'[r] = pc[r]
  BY <1>1 DEF IInv, Types
<1>7. Types'
  BY <1>1, <1>3, <1>4, <1>5, <1>6 DEF IInv, Types
<1>8. LockHeld'
  BY <1>1, <1>3, <1>6 DEF IInv, LockHeld, NamesDiffer
<1>9. Posted' = next(at)
  BY <1>3 DEF Posted, NamesDiffer
<1>10. NrUnread = distance(host.head, at) /\ NrUnread' = NrUnread + 1 /\ NrUnread \in Nat
  <2>1. NrUnread = distance(host.head, at)
    BY <1>2 DEF NrUnread
  <2>2. NrUnread < Size - 1
    BY RoomToPost
  <2>3. distance(host.head, next(at)) = NrUnread + 1
    BY <1>2, <2>1, <2>2, Window
  <2>4. NrUnread' = distance(host.head, next(at))
    BY <1>1, <1>9 DEF NrUnread
  <2> QED BY <1>2, <2>1, <2>3, <2>4 DEF Slots
<1>11. Unread' = Unread \cup {at} /\ at \notin Unread
  <2>1. \A s \in Slots : distance(host.head, s) \in Nat
    <3>1. \A s \in Slots : distance(host.head, s) \in Slots
      BY <1>2, Window
    <3> QED BY <3>1 DEF Slots
  <2>2. \A s \in Slots : distance(host.head, at) = distance(host.head, s) => at = s
    BY <1>2, Window
  <2>3. \A s \in Slots : s \in Unread' <=> distance(host.head, s) < NrUnread + 1
    BY <1>1, <1>10 DEF Unread
  <2>4. \A s \in Slots : distance(host.head, s) < NrUnread + 1 <=> s \in Unread \/ s = at
    BY <1>10, <2>1, <2>2 DEF Unread
  <2>5. at \notin Unread
    BY <1>10 DEF Unread
  <2>6. Unread' \subseteq Slots /\ Unread \subseteq Slots
    BY DEF Unread
  <2> QED BY <1>2, <2>3, <2>4, <2>5, <2>6
<1>12. (\A s : Tag(s)' = Tag(s)) /\ cq.phase = Tag(at) /\ (\A q \in SQs : Taken(q)' = Taken(q) /\ Waiting(q)' = Waiting(q))
  BY <1>1, <1>2 DEF Tag, IInv, PhaseAhead, Taken, Waiting
<1>13. TagsRight'
  BY <1>2, <1>4, <1>11, <1>12 DEF IInv, TagsRight
<1>14. PhaseAhead'
  <2>1. Tag(next(at)) = IF next(at) # 0 THEN cq.phase ELSE 1 - cq.phase
    <3>1. /\ at \in Nat /\ at < Size /\ Size \in Nat /\ host.head \in Nat /\ host.head < Size
          /\ next(at) = IF at + 1 = Size THEN 0 ELSE at + 1
      BY <1>2, QueueAssumption DEF Slots, next
    <3>2. host.phase \in {0, 1}
      BY Facts DEF IInv
    <3>3. CASE at < host.head
      <4>1. NrUnread = at - host.head + Size
        BY <1>2, <1>10, <3>1, <3>3, Distance
      <4>2. at + 1 < host.head
        BY <1>10, <3>1, <4>1, RoomToPost
      <4> QED BY <1>12, <3>1, <3>2, <3>3, <4>2 DEF Tag
    <3>4. CASE at >= host.head
      <4>1. CASE at + 1 = Size
        <5>1. NrUnread = at - host.head
          BY <1>2, <1>10, <3>1, <3>4, Distance
        <5>2. host.head > 0
          BY <1>10, <3>1, <4>1, <5>1, RoomToPost
        <5> QED BY <1>12, <3>1, <3>2, <3>4, <4>1, <5>2 DEF Tag
      <4>2. CASE at + 1 # Size
        BY <1>12, <3>1, <3>2, <3>4, <4>2 DEF Tag
      <4> QED BY <4>1, <4>2
    <3> QED BY <3>1, <3>3, <3>4
  <2> QED BY <1>3, <1>9, <1>12, <2>1 DEF PhaseAhead, NamesDiffer
<1>15. RingInOrder'
  BY <1>1, <1>12 DEF IInv, RingInOrder
<1>16. FewerThanSlots'
  BY <1>1 DEF IInv, FewerThanSlots, Outstanding, Unfinished
<1>17. \A d \in Commands : d[1] \in SQs
  BY DEF Commands
<1>18. /\ c[1] = w /\ c[2] <= Taken(w) /\ c \notin host.consumed
       /\ \A r \in SQs : c \notin work'[r]
       /\ \A s \in Unread : cq_mem[s].cmd # c
  BY <1>5 DEF IInv, WorkOnce, UnreadOnce
<1>19. ReadOnce'
  <2>1. host.consumed \subseteq Commands
    BY Facts DEF IInv
  <2> QED BY <1>1, <1>12, <1>17, <2>1 DEF IInv, ReadOnce
<1>20. WorkOnce'
  BY <1>1, <1>5, <1>12 DEF IInv, WorkOnce
<1>21. \A s \in Unread : s \in Slots \ {at} /\ cq_mem'[s] = cq_mem[s]
  BY <1>4, <1>11 DEF Unread
<1>22. UnreadOnce'
  <2>1. ASSUME NEW s \in Unread', NEW d, d = cq_mem'[s].cmd
        PROVE  /\ d \in Commands \ host.consumed /\ d[2] <= Taken(d[1])'
               /\ \A q \in SQs : d \notin work'[q]
               /\ \A t \in Unread' : cq_mem'[t].cmd = d => t = s
    <3>1. CASE s = at
      BY <1>2, <1>4, <1>11, <1>12, <1>17, <1>18, <1>21, <2>1, <3>1
    <3>2. CASE s \in Unread
      <4>1. d = cq_mem[s].cmd /\ d # c
        BY <1>18, <1>21, <2>1, <3>2
      <4>2. /\ d \in Commands \ host.consumed /\ d[2] <= Taken(d[1])
            /\ \A q \in SQs : d \notin work[q]
            /\ \A t \in Unread : cq_mem[t].cmd = d => t = s
        BY <3>2, <4>1 DEF IInv, UnreadOnce
      <4>3. \A q \in SQs : d \notin work'[q]
        BY <1>5, <4>2
      <4>4. \A t \in Unread' : cq_mem'[t].cmd = d => t = s
        BY <1>4, <1>11, <1>21, <4>1, <4>2
      <4> QED BY <1>12, <1>17, <4>2, <4>3, <4>4
    <3> QED BY <1>11, <2>1, <3>1, <3>2
  <2> QED BY <1>1, <2>1 DEF UnreadOnce
<1>23. NoneMissing'
  <2>1. SUFFICES ASSUME NEW d \in Commands, d[2] <= Taken(d[1])
                 PROVE  d \in work'[d[1]] \/ d \in host.consumed \/ \E s \in Unread' : cq_mem'[s].cmd = d
    BY <1>1, <1>12, <1>17 DEF NoneMissing
  <2>2. CASE d = c
    BY <1>4, <1>11, <2>2
  <2>3. CASE d # c
    <3>1. d \in work[d[1]] \/ d \in host.consumed \/ \E s \in Unread : cq_mem[s].cmd = d
      BY <2>1 DEF IInv, NoneMissing
    <3>2. d \in work[d[1]] => d \in work'[d[1]]
      BY <1>5, <1>17, <2>3
    <3> QED BY <1>11, <1>21, <3>1, <3>2
  <2> QED BY <2>2, <2>3
<1> QED BY <1>7, <1>8, <1>13, <1>14, <1>15, <1>16, <1>19, <1>20, <1>22, <1>23 DEF IInv

\* The host reads the entry at its head, which has its phase tag.
LEMMA StepRead ==
    ASSUME IInv, isr_consume
    PROVE  IInv'
<1> DEFINE at == host.head
           c == cq_mem[at].cmd
<1>1. /\ cq_mem[at].phase = host.phase
      /\ host' = [host EXCEPT !.consumed = @ \cup {c}, !.head = next(@),
                              !.phase = IF next(at) = 0 THEN 1 - @ ELSE @]
      /\ UNCHANGED <<sq, nr_in_flight, work, due, pc, cq, cq_mem, cq_old>>
  BY DEF isr_consume, Pending
<1>2. /\ at \in Slots /\ next(at) \in Slots /\ Posted \in Slots /\ host.phase \in {0, 1}
      /\ NrUnread \in Slots /\ distance(at, at) = 0 /\ NrUnread = distance(at, Posted)
  BY Facts, Window DEF IInv, NrUnread
<1>3. Size \in Nat /\ Size > 1 /\ at \in Nat /\ at < Size /\ NrUnread \in Nat /\ NrUnread < Size
  BY <1>2, QueueAssumption DEF Slots
<1>4. at \in Unread
  <2>1. Tag(at) = host.phase
    BY <1>3 DEF Tag
  <2> QED BY <1>1, <1>2, <2>1 DEF IInv, TagsRight
<1>5. /\ c \in Commands \ host.consumed /\ c[2] <= Taken(c[1])
      /\ \A q \in SQs : c \notin work[q]
      /\ \A t \in Unread : cq_mem[t].cmd = c => t = at
  BY <1>4 DEF IInv, UnreadOnce
<1> HIDE DEF c
<1>6. /\ host'.consumed = host.consumed \cup {c} /\ host'.head = next(at)
      /\ host'.phase = (IF next(at) = 0 THEN 1 - host.phase ELSE host.phase)
      /\ host'.submitted = host.submitted
      /\ host' \in [submitted : [SQs -> 0 .. MaxCmds], consumed : SUBSET Commands,
                 head : Slots, phase : {0, 1}, irq : BOOLEAN, isr : BOOLEAN, db : Slots]
  <2> DEFINE read == host.consumed \cup {c}
             ph == IF next(at) = 0 THEN 1 - host.phase ELSE host.phase
  <2>1. read \in SUBSET Commands /\ ph \in {0, 1}
    BY <1>2, <1>5 DEF IInv, Types
  <2>2. host' = [[[host EXCEPT !.consumed = read] EXCEPT !.head = next(at)] EXCEPT !.phase = ph]
    BY <1>1 DEF IInv, Types
  <2> HIDE DEF read, ph
  <2>3. /\ host'.consumed = read /\ host'.head = next(at) /\ host'.phase = ph
        /\ host'.submitted = host.submitted
        /\ host' \in [submitted : [SQs -> 0 .. MaxCmds], consumed : SUBSET Commands,
                 head : Slots, phase : {0, 1}, irq : BOOLEAN, isr : BOOLEAN, db : Slots]
    BY <1>2, <2>1, <2>2 DEF IInv, Types
  <2> QED BY <2>3 DEF read, ph
<1>7. Types' /\ LockHeld'
  BY <1>1, <1>6 DEF IInv, Types, LockHeld
<1>8. Posted' = Posted /\ \A q \in SQs : Waiting(q)' = Waiting(q) /\ Taken(q)' = Taken(q)
  BY <1>1, <1>6 DEF Posted, Waiting, Taken
<1>9. NrUnread' = NrUnread - 1
  <2>1. NrUnread > 0
    BY <1>2, <1>3, <1>4 DEF Unread
  <2>2. distance(next(at), Posted) = distance(at, Posted) - 1
    BY <1>2, <2>1, Window
  <2> QED BY <1>2, <1>6, <1>8, <2>2 DEF NrUnread
<1>10. Unread' = Unread \ {at}
  <2>1. \A s \in Slots : s \in Unread' <=> distance(next(at), s) < NrUnread - 1
    BY <1>6, <1>9 DEF Unread
  <2>2. ASSUME NEW s \in Slots, s # at
        PROVE  distance(next(at), s) < NrUnread - 1 <=> distance(at, s) < NrUnread
    <3>1. distance(at, s) \in Slots /\ distance(at, s) # 0
      BY <1>2, <2>2, Window
    <3>2. distance(at, s) > 0 /\ distance(at, s) \in Nat
      BY <3>1 DEF Slots
    <3>3. distance(next(at), s) = distance(at, s) - 1
      BY <1>2, <3>2, Window
    <3> QED BY <1>3, <3>2, <3>3
  <2>3. ~ (distance(next(at), at) < NrUnread - 1)
    <3>1. distance(next(at), at) = Size - 1
      BY <1>2, Window
    <3> QED BY <1>3, <3>1
  <2>4. Unread' \subseteq Slots /\ Unread \subseteq Slots /\ \A s \in Slots : s \in Unread <=> distance(at, s) < NrUnread
    BY DEF Unread
  <2> QED BY <1>2, <2>1, <2>2, <2>3, <2>4
<1>11. \A s \in Slots : Tag(s)' = IF s = at THEN 1 - host.phase ELSE Tag(s)
  <2>1. SUFFICES ASSUME NEW s \in Slots
                 PROVE  Tag(s)' = IF s = at THEN 1 - host.phase ELSE Tag(s)
    OBVIOUS
  <2>2. s \in Nat /\ s < Size
    BY <1>3 DEF Slots
  <2>3. CASE at + 1 = Size
    <3>1. host'.head = 0 /\ host'.phase = 1 - host.phase
      BY <1>6, <2>3 DEF next
    <3>2. Tag(s)' = 1 - host.phase
      BY <1>2, <2>2, <3>1 DEF Tag
    <3> QED BY <1>3, <2>2, <2>3, <3>2 DEF Tag
  <2>4. CASE at + 1 # Size
    <3>1. host'.head = at + 1 /\ host'.phase = host.phase
      BY <1>3, <1>6, <2>4 DEF next
    <3>2. Tag(s)' = IF s < at + 1 THEN 1 - host.phase ELSE host.phase
      BY <3>1 DEF Tag
    <3> QED BY <1>3, <2>2, <3>2 DEF Tag
  <2> QED BY <2>3, <2>4
<1>12. TagsRight'
  <2>1. cq_mem[at].phase # 1 - host.phase
    BY <1>1, <1>2
  <2> QED BY <1>1, <1>2, <1>10, <1>11, <2>1 DEF IInv, TagsRight
<1>13. PhaseAhead'
  <2>1. Posted # at
    <3>1. NrUnread # 0
      BY <1>2, <1>3, <1>4 DEF Unread
    <3> QED BY <1>2, <3>1
  <2>2. Tag(Posted)' = Tag(Posted)
    <3>1. Tag(Posted)' = (IF Posted' < host'.head THEN 1 - host'.phase ELSE host'.phase)
      BY DEF Tag
    <3>2. \A s \in Slots : s # at => (IF s < host'.head THEN 1 - host'.phase ELSE host'.phase) = Tag(s)
      BY <1>11 DEF Tag
    <3> QED BY <1>2, <1>8, <2>1, <3>1, <3>2
  <2> QED BY <1>1, <2>2 DEF IInv, PhaseAhead
<1>14. RingInOrder'
  BY <1>1, <1>6, <1>8 DEF IInv, RingInOrder
<1>15. \A d \in Commands : d[1] \in SQs
  BY DEF Commands
<1>16. WorkOnce'
  BY <1>1, <1>5, <1>6, <1>8 DEF IInv, WorkOnce
<1>17. ReadOnce'
  <2>1. host.consumed \subseteq Commands
    BY Facts DEF IInv
  <2> QED BY <1>5, <1>6, <1>8, <1>15, <2>1 DEF IInv, ReadOnce
<1>18. UnreadOnce'
  <2>1. \A s \in Unread \ {at} : cq_mem[s].cmd # c
    BY <1>5
  <2> QED BY <1>1, <1>6, <1>8, <1>10, <1>15, <2>1 DEF IInv, UnreadOnce
<1>19. NoneMissing'
  <2>1. SUFFICES ASSUME NEW d \in Commands, d[2] <= Taken(d[1])
                 PROVE  d \in work[d[1]] \/ d \in host.consumed \cup {c}
                        \/ \E s \in Unread \ {at} : cq_mem[s].cmd = d
    BY <1>1, <1>6, <1>8, <1>10, <1>15 DEF NoneMissing
  <2>2. d \in work[d[1]] \/ d \in host.consumed \/ \E s \in Unread : cq_mem[s].cmd = d
    BY <2>1 DEF IInv, NoneMissing
  <2> QED BY <2>2 DEF c
<1>20. FewerThanSlots'
  <2>1. Unfinished' = Unfinished \ {c}
    BY <1>6 DEF Unfinished
  <2>2. IsFiniteSet(Unfinished) /\ Outstanding \in Nat
    BY AllUnfinished DEF IInv, FewerThanSlots
  <2>3. IsFiniteSet(Unfinished') /\ Cardinality(Unfinished') <= Outstanding
    BY <2>1, <2>2, FS_RemoveElement DEF Outstanding
  <2>4. Cardinality(Unfinished') \in Nat
    BY <2>3, FS_CardinalityType
  <2> QED BY <1>3, <2>2, <2>3, <2>4 DEF IInv, FewerThanSlots, Outstanding
<1> QED BY <1>7, <1>12, <1>13, <1>14, <1>16, <1>17, <1>18, <1>19, <1>20 DEF IInv

\* The rest of __fill_cq_result(): the head moves to where the entries posted
\* so far end.
LEMMA StepFilled ==
    ASSUME NamesDiffer, IInv, NEW w \in SQs, fill_done(w)
    PROVE  IInv'
<1>1. /\ pc[w] = "filling" /\ pc' = [pc EXCEPT ![w] = "sweep"] /\ cq.entry_lock = w
      /\ cq' = [advanced(cq) EXCEPT !.interrupt_ready = TRUE, !.entry_lock = NoOne]
      /\ UNCHANGED <<sq, nr_in_flight, work, due, cq_mem, cq_old, host>>
  BY DEF fill_done, IInv, LockHeld
<1>2. cq.head \in Slots /\ next(cq.head) \in Slots /\ cq.phase \in {0, 1}
  BY Facts, Window DEF IInv
<1>3. /\ cq'.head = next(cq.head) /\ cq'.phase = (IF next(cq.head) = 0 THEN 1 - cq.phase ELSE cq.phase)
      /\ cq'.entry_lock = NoOne
      /\ cq' \in [head : Slots, phase : {0, 1}, interrupt_ready : BOOLEAN, entry_lock : SQs \cup {NoOne}]
  <2> DEFINE ph == IF next(cq.head) = 0 THEN 1 - cq.phase ELSE cq.phase
  <2>1. ph \in {0, 1}
    BY <1>2
  <2>2. cq' = [[[[cq EXCEPT !.head = next(cq.head)] EXCEPT !.phase = ph]
                  EXCEPT !.interrupt_ready = TRUE] EXCEPT !.entry_lock = NoOne]
    BY <1>1 DEF advanced, IInv, Types
  <2> HIDE DEF ph
  <2>3. /\ cq'.head = next(cq.head) /\ cq'.phase = ph /\ cq'.entry_lock = NoOne
        /\ cq' \in [head : Slots, phase : {0, 1}, interrupt_ready : BOOLEAN, entry_lock : SQs \cup {NoOne}]
    BY <1>2, <2>1, <2>2 DEF IInv, Types
  <2> QED BY <2>3 DEF ph
<1>4. Types'
  BY <1>1, <1>3 DEF IInv, Types
<1>5. LockHeld'
  <2>1. \A v \in SQs \ {w} : pc[v] # "filling" /\ pc'[v] = pc[v]
    BY <1>1 DEF IInv, LockHeld, Types
  <2>2. pc'[w] = "sweep"
    BY <1>1 DEF IInv, Types
  <2> QED BY <2>1, <2>2 DEF LockHeld
<1>6. Posted' = Posted
  BY <1>1, <1>3 DEF Posted, NamesDiffer
<1>7. PhaseAhead'
  <2>1. Tag(Posted)' = Tag(Posted)
    BY <1>1, <1>6 DEF Tag
  <2> QED BY <1>1, <1>3, <2>1 DEF PhaseAhead, IInv, NamesDiffer
<1> QED BY <1>1, <1>4, <1>5, <1>6, <1>7, StepQuiet

\* The interrupts, the completion doorbell and the passing of time.
LEMMA StepOther ==
    ASSUME IInv,
           \/ \E w \in SQs : check_irq(w) \/ clear_ready(w) \/ nvmev_signal_irq(w)
           \/ isr_start \/ isr_end \/ nvmev_proc_io_cq
           \/ \E c \in UNION {work[q] : q \in SQs} : target_reached(c)
    PROVE  IInv'
<1>0. /\ UNCHANGED <<sq, work, cq_mem>>
      /\ \/ host' = host
         \/ host' = [host EXCEPT !.irq = FALSE, !.isr = TRUE]
         \/ host' = [host EXCEPT !.isr = FALSE, !.db = host.head]
         \/ host' = [host EXCEPT !.irq = TRUE]
      /\ cq' = cq \/ cq' = [cq EXCEPT !.interrupt_ready = FALSE]
      /\ \/ pc' = pc
         \/ \E w \in SQs, at \in {"clear", "signal", "sweep"} : pc' = [pc EXCEPT ![w] = at]
      /\ due' = due \/ \E q \in SQs : \E c \in work[q] : due' = due \cup {c}
      /\ \/ UNCHANGED <<nr_in_flight, cq_old>>
         \/ /\ nr_in_flight' = [nr_in_flight EXCEPT ![cq_mem[cq_old].cmd[1]] = @ - 1]
            /\ cq_old' = next(cq_old)
  <2>1. ASSUME NEW w \in SQs, check_irq(w) \/ clear_ready(w) \/ nvmev_signal_irq(w) PROVE <1>0!:
    BY <2>1 DEF check_irq, clear_ready, nvmev_signal_irq
  <2>2. CASE isr_start \/ isr_end
    BY <2>2 DEF isr_start, isr_end
  <2>3. CASE nvmev_proc_io_cq
    BY <2>3 DEF nvmev_proc_io_cq
  <2>4. ASSUME NEW c \in UNION {work[q] : q \in SQs}, target_reached(c) PROVE <1>0!:
    BY <2>4 DEF target_reached
  <2> QED BY <2>1, <2>2, <2>3, <2>4
<1>1. /\ host'.submitted = host.submitted /\ host'.consumed = host.consumed
      /\ host'.head = host.head /\ host'.phase = host.phase
      /\ host' \in [submitted : [SQs -> 0 .. MaxCmds], consumed : SUBSET Commands,
                 head : Slots, phase : {0, 1}, irq : BOOLEAN, isr : BOOLEAN, db : Slots]
  <2>1. host.head \in Slots
    BY Facts DEF IInv
  <2>2. CASE host' = host
    BY <2>2 DEF IInv, Types
  <2>3. CASE host' = [host EXCEPT !.irq = FALSE, !.isr = TRUE]
    BY <2>3 DEF IInv, Types
  <2>4. CASE host' = [host EXCEPT !.isr = FALSE, !.db = host.head]
    BY <2>1, <2>4 DEF IInv, Types
  <2>5. CASE host' = [host EXCEPT !.irq = TRUE]
    BY <2>5 DEF IInv, Types
  <2> QED BY <1>0, <2>2, <2>3, <2>4, <2>5
<1>2. /\ cq'.head = cq.head /\ cq'.phase = cq.phase /\ cq'.entry_lock = cq.entry_lock
      /\ cq' \in [head : Slots, phase : {0, 1}, interrupt_ready : BOOLEAN, entry_lock : SQs \cup {NoOne}]
  <2>1. CASE cq' = cq
    BY <2>1 DEF IInv, Types
  <2>2. CASE cq' = [cq EXCEPT !.interrupt_ready = FALSE]
    BY <2>2 DEF IInv, Types
  <2> QED BY <1>0, <2>1, <2>2
<1>3. /\ pc' \in [SQs -> {"sweep", "filling", "clear", "signal"}]
      /\ \A w \in SQs : pc'[w] = "filling" => pc[w] = "filling"
  <2>1. pc \in [SQs -> {"sweep", "filling", "clear", "signal"}]
    BY DEF IInv, Types
  <2>2. ASSUME NEW w \in SQs, NEW at \in {"clear", "signal", "sweep"}, pc' = [pc EXCEPT ![w] = at]
        PROVE  /\ pc' \in [SQs -> {"sweep", "filling", "clear", "signal"}]
               /\ \A v \in SQs : pc'[v] = "filling" => pc[v] = "filling"
    BY <2>1, <2>2
  <2> QED BY <1>0, <2>1, <2>2
<1>4. due' \in SUBSET Commands
  <2>1. due \in SUBSET Commands /\ \A q \in SQs : work[q] \subseteq Commands
    BY DEF IInv, Types
  <2> QED BY <1>0, <2>1
<1>5. nr_in_flight' \in [SQs -> Int] /\ cq_old' \in Slots
  <2>1. cq_old \in Slots /\ next(cq_old) \in Slots /\ nr_in_flight \in [SQs -> Int]
    BY Window DEF IInv, Types
  <2>2. ASSUME NEW r PROVE [nr_in_flight EXCEPT ![r] = nr_in_flight[r] - 1] \in [SQs -> Int]
    <3>1. \A q \in SQs : nr_in_flight[q] \in Int /\ nr_in_flight[q] - 1 \in Int
      BY <2>1
    <3> DEFINE f == [nr_in_flight EXCEPT ![r] = nr_in_flight[r] - 1]
    <3>2. \A q \in SQs : f[q] \in Int
      BY <2>1, <3>1
    <3> QED BY <2>1, <3>2
  <2> QED BY <1>0, <2>1, <2>2
<1>6. Types'
  BY <1>0, <1>1, <1>2, <1>3, <1>4, <1>5 DEF IInv, Types
<1>7. LockHeld' /\ Posted' = Posted
  BY <1>2, <1>3 DEF IInv, LockHeld, Posted
<1>8. PhaseAhead'
  <2>1. Tag(Posted)' = Tag(Posted)
    BY <1>1, <1>7 DEF Tag
  <2> QED BY <1>2, <2>1 DEF IInv, PhaseAhead
<1> QED BY <1>0, <1>1, <1>6, <1>7, <1>8, StepQuiet

(***************************************************************************)
(* The theorems.                                                           *)
(***************************************************************************)
\* The queues start empty: the host's first phase tag is 1, that of no entry.
LEMMA Initially ==
    ASSUME Init PROVE IInv
<1>1. 0 \in Slots /\ Size \in Nat /\ MaxCmds \in Nat /\ distance(0, 0) = 0
  <2>1. 0 \in Slots /\ Size \in Nat /\ MaxCmds \in Nat
    BY QueueAssumption DEF Slots
  <2> QED BY <2>1, Window
<1>2. Types
  BY <1>1 DEF Init, Types
<1>3. \A q \in SQs : Waiting(q) = 0 /\ Taken(q) = 0 /\ host.submitted[q] = 0
  BY <1>1 DEF Init, Waiting, Taken
<1>4. Posted = 0 /\ NrUnread = 0 /\ host.head = 0 /\ host.phase = 1 /\ cq.phase = 1 /\ cq.entry_lock = NoOne
  BY <1>1 DEF Init, Posted, NrUnread
<1>5. \A a \in Slots, b \in Slots : distance(a, b) \in Nat
  <2>1. \A a \in Slots, b \in Slots : distance(a, b) \in Slots
    BY Window
  <2> QED BY <2>1 DEF Slots
<1>6. Unread = {}
  BY <1>1, <1>4, <1>5 DEF Unread
<1>7. TagsRight
  <2>1. \A s \in Slots : s \in Nat /\ cq_mem[s].phase = 0
    BY DEF Init, Slots
  <2> QED BY <1>4, <1>6, <2>1 DEF TagsRight, Tag
<1>8. LockHeld /\ PhaseAhead /\ WorkOnce /\ ReadOnce /\ UnreadOnce
  BY <1>4, <1>6 DEF Init, LockHeld, PhaseAhead, Tag, WorkOnce, ReadOnce, UnreadOnce
<1>9. RingInOrder
  <2>1. \A q \in SQs : sq[q].old \in Slots
    BY <1>2, Facts
  <2> QED BY <1>3, <1>5, <2>1 DEF RingInOrder
<1>10. \A c \in Commands : c[1] \in SQs /\ c[2] \in Nat /\ c[2] > 0
  BY <1>1 DEF Commands
<1>11. NoneMissing
  BY <1>3, <1>10 DEF NoneMissing
<1>12. FewerThanSlots
  <2>1. Unfinished = {}
    BY <1>3, <1>10 DEF Unfinished
  <2> QED BY <2>1, FS_EmptySet, QueueAssumption DEF FewerThanSlots, Outstanding
<1> QED BY <1>2, <1>7, <1>8, <1>9, <1>11, <1>12 DEF IInv

\* Every step of the host, the dispatcher and the workers keeps the invariant.
LEMMA Step ==
    ASSUME NamesDiffer, IInv, [Next]_vars
    PROVE  IInv'
<1>1. ASSUME NEW q \in SQs, submit(q) \/ nvmev_proc_io_sq(q) \/ Worker(q) PROVE IInv'
  BY <1>1, StepSubmit, StepTake, StepFill, StepFilled, StepOther DEF Worker
<1>2. CASE isr_start \/ isr_consume \/ isr_end
  BY <1>2, StepRead, StepOther
<1>3. CASE nvmev_proc_io_cq \/ \E c \in UNION {work[q] : q \in SQs} : target_reached(c)
  BY <1>3, StepOther
<1>4. CASE UNCHANGED vars
  <2>1. Types' /\ LockHeld' /\ Posted' = Posted
    BY <1>4 DEF vars, IInv, Types, LockHeld, Posted
  <2>2. PhaseAhead'
    BY <1>4 DEF vars, IInv, PhaseAhead, Tag, Posted
  <2> QED BY <1>4, <2>1, <2>2, StepQuiet DEF vars
<1> QED BY <1>1, <1>2, <1>3, <1>4 DEF Next

\* The places of the commands and the phase tags agree at every step of
\* nvmev_proc_io_sq(), __fill_cq_result() and the host.
THEOREM Invariance == ASSUME NamesDiffer PROVE Spec => []IInv
<1>1. Init => IInv
  BY Initially
<1>2. IInv /\ [Next]_vars => IInv'
  BY Step
<1> QED BY <1>1, <1>2, PTL DEF Spec

\* No completion that the host has not read is overwritten, and the phase tags
\* lead the host to the posted entries and no further, although
\* __fill_cq_result() never compares head and tail: the host's bound on
\* outstanding commands is enough, with any number of queues sharing the
\* completion queue.
THEOREM UnreadNeverOverwritten == ASSUME NamesDiffer PROVE Spec => []UnreadWindow
<1>1. IInv => UnreadWindow
  <2>1. SUFFICES ASSUME IInv PROVE UnreadWindow
    OBVIOUS
  <2>2. \A s \in Slots : (cq_mem[s].phase = Tag(s)) = (s \in Unread)
    BY <2>1 DEF IInv, TagsRight
  <2>3. \A s \in Unread : cq_mem[s].cmd \in Commands \ host.consumed
    BY <2>1 DEF IInv, UnreadOnce
  <2>4. \A s, t \in Unread : s # t => cq_mem[s].cmd # cq_mem[t].cmd
    BY <2>1 DEF IInv, UnreadOnce
  <2> QED BY <2>2, <2>3, <2>4 DEF UnreadWindow, Unread, NrUnread, Tag
<1> QED BY <1>1, Invariance, PTL

\* Counting by a bijection.
LEMMA SameCount ==
    ASSUME NEW S, NEW T, IsFiniteSet(S), NEW f \in [S -> T],
           \A x, y \in S : f[x] = f[y] => x = y, \A t \in T : \E x \in S : f[x] = t
    PROVE  IsFiniteSet(T) /\ Cardinality(T) = Cardinality(S)
<1>1. f \in Bijection(S, T)
  BY DEF Bijection, Injection, IsInjective, Surjection
<1> QED BY <1>1, FS_Bijection DEF ExistsBijection

\* The commands of one queue are counted once.
LEMMA Counted ==
    ASSUME IInv, NEW q \in SQs
    PROVE  host.submitted[q] = Waiting(q) + Cardinality(work[q])
             + Cardinality({s \in Unread : cq_mem[s].cmd[1] = q})
             + Cardinality({c \in host.consumed : c[1] = q})
<1> DEFINE All == {c \in Commands : c[1] = q /\ c[2] <= Taken(q)}
           posted == {s \in Unread : cq_mem[s].cmd[1] = q}
           Posts == {cq_mem[s].cmd : s \in posted}
           Reads == {c \in host.consumed : c[1] = q}
<1>1. /\ Taken(q) \in Nat /\ Taken(q) <= MaxCmds /\ MaxCmds \in Nat
      /\ host.submitted[q] = Waiting(q) + Taken(q) /\ Waiting(q) \in Nat
  <2>1. /\ Waiting(q) \in Slots /\ host.submitted[q] \in 0 .. MaxCmds
        /\ Waiting(q) <= host.submitted[q] /\ Taken(q) = host.submitted[q] - Waiting(q)
    BY Facts DEF IInv, RingInOrder, Taken
  <2> QED BY <2>1, QueueAssumption DEF Slots
<1>2. \A c \in Commands : c[1] \in SQs /\ c[2] \in 1 .. MaxCmds /\ c = <<c[1], c[2]>>
  BY DEF Commands
<1>3. IsFiniteSet(All) /\ Cardinality(All) = Taken(q)
  <2> DEFINE f == [n \in 1 .. Taken(q) |-> <<q, n>>]
  <2>1. f \in [1 .. Taken(q) -> All]
    BY <1>1 DEF Commands
  <2>2. \A m, n \in 1 .. Taken(q) : f[m] = f[n] => m = n
    OBVIOUS
  <2>3. \A c \in All : \E n \in 1 .. Taken(q) : f[n] = c
    <3>1. SUFFICES ASSUME NEW c \in All PROVE \E n \in 1 .. Taken(q) : f[n] = c
      OBVIOUS
    <3>2. c[2] \in 1 .. Taken(q) /\ c = <<q, c[2]>>
      BY <1>1, <1>2
    <3> QED BY <3>2
  <2>4. IsFiniteSet(1 .. Taken(q)) /\ Cardinality(1 .. Taken(q)) = Taken(q)
    BY <1>1, FS_Interval
  <2> HIDE DEF f, All
  <2> QED BY <2>1, <2>2, <2>3, <2>4, SameCount
<1>4. work[q] \subseteq All /\ Reads \subseteq All /\ Posts \subseteq All
  <2>1. work[q] \subseteq Commands /\ host.consumed \subseteq Commands
    BY DEF IInv, Types
  <2>2. work[q] \subseteq All
    BY <2>1 DEF IInv, WorkOnce
  <2>3. Reads \subseteq All
    BY <2>1 DEF IInv, ReadOnce
  <2>4. Posts \subseteq All
    BY DEF IInv, UnreadOnce
  <2> QED BY <2>2, <2>3, <2>4
<1>5. All \subseteq work[q] \cup Posts \cup Reads
  BY DEF IInv, NoneMissing
<1>6. work[q] \cap Posts = {} /\ work[q] \cap Reads = {} /\ Posts \cap Reads = {}
  BY DEF IInv, WorkOnce, UnreadOnce
<1>7. IsFiniteSet(work[q]) /\ IsFiniteSet(Posts) /\ IsFiniteSet(Reads)
  BY <1>3, <1>4, FS_Subset
<1>8. Cardinality(Posts) = Cardinality(posted)
  <2> DEFINE f == [s \in posted |-> cq_mem[s].cmd]
  <2>1. IsFiniteSet(posted)
    <3>1. IsFiniteSet(Slots)
      BY FS_Interval, QueueAssumption DEF Slots
    <3>2. posted \in SUBSET Slots
      BY DEF Unread
    <3> QED BY <3>1, <3>2, FS_Subset
  <2>2. f \in [posted -> Posts] /\ \A c \in Posts : \E s \in posted : f[s] = c
    OBVIOUS
  <2>3. \A s, t \in posted : f[s] = f[t] => s = t
    BY DEF IInv, UnreadOnce
  <2> HIDE DEF f, posted, Posts
  <2> QED BY <2>1, <2>2, <2>3, SameCount
<1>9. Cardinality(All) = Cardinality(work[q]) + Cardinality(Posts) + Cardinality(Reads)
  <2> HIDE DEF Posts, Reads, All
  <2>1. /\ IsFiniteSet(work[q] \cup Posts)
        /\ Cardinality(work[q] \cup Posts) = Cardinality(work[q]) + Cardinality(Posts)
    <3>1. Cardinality(work[q]) \in Nat /\ Cardinality(Posts) \in Nat /\ Cardinality({}) = 0
      BY <1>7, FS_CardinalityType, FS_EmptySet
    <3>2. /\ IsFiniteSet(work[q] \cup Posts)
          /\ Cardinality(work[q] \cup Posts) =
               Cardinality(work[q]) + Cardinality(Posts) - Cardinality(work[q] \cap Posts)
      BY <1>7, FS_Union
    <3>3. Cardinality(work[q] \cap Posts) = 0
      BY <1>6, <3>1
    <3> QED BY <3>1, <3>2, <3>3
  <2>2. (work[q] \cup Posts) \cap Reads = {} /\ All = (work[q] \cup Posts) \cup Reads
    BY <1>4, <1>5, <1>6
  <2>3. /\ Cardinality(work[q] \cup Posts) \in Nat /\ Cardinality(Reads) \in Nat /\ Cardinality({}) = 0
    BY <1>7, <2>1, FS_CardinalityType, FS_EmptySet
  <2>4. Cardinality(All) = Cardinality(work[q] \cup Posts) + Cardinality(Reads)
    <3>1. Cardinality((work[q] \cup Posts) \cup Reads) =
            Cardinality(work[q] \cup Posts) + Cardinality(Reads) - Cardinality((work[q] \cup Posts) \cap Reads)
      BY <1>7, <2>1, FS_Union
    <3>2. Cardinality((work[q] \cup Posts) \cap Reads) = 0
      BY <2>2, <2>3
    <3>3. Cardinality(All) = Cardinality((work[q] \cup Posts) \cup Reads)
      BY <2>2
    <3> QED BY <2>3, <3>1, <3>2, <3>3
  <2> QED BY <2>1, <2>4
<1>10. Cardinality(work[q]) \in Nat /\ Cardinality(Posts) \in Nat /\ Cardinality(Reads) \in Nat
  BY <1>7, FS_CardinalityType
<1> QED BY <1>1, <1>3, <1>8, <1>9, <1>10

\* Every command the host has submitted is in one place: waiting in its queue,
\* in the work queue, posted and unread, or read.  So each is completed once.
THEOREM EachPlacedOnce == ASSUME NamesDiffer PROVE Spec => []PlacedOnce
<1>1. IInv => PlacedOnce
  <2>1. SUFFICES ASSUME IInv, NEW q \in SQs
        PROVE  host.submitted[q] = distance(sq[q].old, sq[q].db) + Cardinality(work[q])
                 + Cardinality({s \in Slots : distance(host.head, s) < distance(host.head, Posted)
                                              /\ cq_mem[s].cmd[1] = q})
                 + Cardinality({c \in host.consumed : c[1] = q})
    BY DEF PlacedOnce
  <2>2. {s \in Slots : distance(host.head, s) < distance(host.head, Posted) /\ cq_mem[s].cmd[1] = q}
          = {s \in Unread : cq_mem[s].cmd[1] = q}
    BY DEF Unread, NrUnread
  <2> QED BY <2>1, <2>2, Counted DEF Waiting
<1> QED BY <1>1, Invariance, PTL

(***************************************************************************)
(* Numbers.                                                                *)
(***************************************************************************)
\* A set of naturals has a least element.
LEMMA LeastNumber ==
    ASSUME NEW T \in SUBSET Nat, T # {}
    PROVE  \E x \in T : \A y \in T : x <= y
<1> DEFINE R == OpToRel(<, Nat)
<1>1. IsWellFoundedOn(R, Nat)
  BY NatLessThanWellFounded
<1>2. \A x, y \in Nat : y < x => <<y, x>> \in R
  BY DEF OpToRel
<1> HIDE DEF R
<1>3. PICK x \in T : \A y \in T : ~ (<<y, x>> \in R)
  BY <1>1, WFMin
<1>4. \A y \in T : ~ (y < x)
  BY <1>2, <1>3
<1> QED BY <1>4

(***************************************************************************)
(* Sums.  SumFunctionOnSet() adds up f over the elements of S, which it    *)
(* picks in an order of its own.                                           *)
(***************************************************************************)
Pick(s) == CHOOSE x \in s : TRUE
Added(f, h, s) == IF s = {} THEN 0 ELSE f[Pick(s)] + h[s \ {Pick(s)}]
Sums(f, S, h) == h = [s \in SUBSET S |-> Added(f, h, s)]

\* the function h of the sums over the subsets of S
SumsTo(f, S, h) ==
    /\ h \in [SUBSET S -> Int]
    /\ SumFunctionOnSet(f, S) = h[S]
    /\ \A s \in SUBSET S : h[s] = Added(f, h, s)

\* The element picked from a finite set, and the set without it.
LEMMA Picked ==
    ASSUME NEW S, IsFiniteSet(S), NEW s \in SUBSET S, s # {}
    PROVE  /\ Pick(s) \in s /\ Pick(s) \in S /\ s \ {Pick(s)} \in SUBSET S
           /\ IsFiniteSet(s) /\ Cardinality(s) \in Nat \ {0}
           /\ Cardinality(s \ {Pick(s)}) = Cardinality(s) - 1
<1>1. Pick(s) \in s
  BY DEF Pick
<1>2. IsFiniteSet(s)
  BY FS_Subset
<1>3. Cardinality(s) \in Nat /\ Cardinality(s) # 0
  BY <1>2, FS_CardinalityType, FS_EmptySet
<1>4. Cardinality(s \ {Pick(s)}) = Cardinality(s) - 1
  BY <1>1, <1>2, FS_RemoveElement
<1> QED BY <1>1, <1>2, <1>3, <1>4

\* Induction over the subsets of a finite set, in the order of the sum.
LEMMA SubsetInduction ==
    ASSUME NEW S, IsFiniteSet(S), NEW P, {} \in P,
           \A s \in SUBSET S : s # {} /\ s \ {Pick(s)} \in P => s \in P
    PROVE  SUBSET S \subseteq P
<1> DEFINE Fails == {n \in Nat : \E s \in SUBSET S : Cardinality(s) = n /\ s \notin P}
<1>1. SUFFICES ASSUME NEW t \in SUBSET S, t \notin P PROVE FALSE
  OBVIOUS
<1>2. Fails \in SUBSET Nat /\ Fails # {}
  <2>1. t # {}
    BY <1>1
  <2>2. Cardinality(t) \in Nat
    BY <2>1, Picked
  <2> QED BY <1>1, <2>2
<1>3. PICK n \in Fails : \A m \in Fails : n <= m
  BY <1>2, LeastNumber
<1>4. PICK s \in SUBSET S : Cardinality(s) = n /\ s \notin P
  BY <1>3
<1>5. s # {}
  BY <1>4
<1>6. s \ {Pick(s)} \in SUBSET S /\ Cardinality(s \ {Pick(s)}) = n - 1 /\ n \in Nat \ {0}
  BY <1>4, <1>5, Picked
<1>7. s \ {Pick(s)} \notin P
  BY <1>4, <1>5
<1>8. n - 1 \in Fails
  <2>1. n - 1 \in Nat
    BY <1>6
  <2> QED BY <1>6, <1>7, <2>1
<1> HIDE DEF Fails
<1>9. n <= n - 1
  BY <1>3, <1>8
<1> QED BY <1>6, <1>9

\* The function with the partial sums exists.
LEMMA SumsExist ==
    ASSUME NEW S, IsFiniteSet(S), NEW f \in [S -> Int]
    PROVE  \E h : Sums(f, S, h)
<1> DEFINE Good(n, h) == \A s \in SUBSET S : Cardinality(s) <= n => h[s] = Added(f, h, s)
           Fails == {n \in Nat : ~ \E h \in [SUBSET S -> Int] : Good(n, h)}
<1>1. \A s \in SUBSET S : s # {} =>
        /\ Pick(s) \in s /\ Pick(s) \in S /\ s \ {Pick(s)} \in SUBSET S
        /\ Cardinality(s) \in Nat \ {0} /\ Cardinality(s \ {Pick(s)}) = Cardinality(s) - 1
  BY Picked
<1>2. \A h \in [SUBSET S -> Int] : \A s \in SUBSET S : Added(f, h, s) \in Int
  <2>1. SUFFICES ASSUME NEW h \in [SUBSET S -> Int], NEW s \in SUBSET S PROVE Added(f, h, s) \in Int
    OBVIOUS
  <2>2. CASE s = {}
    BY <2>2 DEF Added
  <2>3. CASE s # {}
    <3>1. Pick(s) \in S /\ s \ {Pick(s)} \in SUBSET S
      BY <1>1, <2>3
    <3>2. f[Pick(s)] \in Int /\ h[s \ {Pick(s)}] \in Int
      BY <3>1
    <3> QED BY <2>3, <3>2 DEF Added
  <2> QED BY <2>2, <2>3
<1>3. Fails = {}
  <2>1. SUFFICES ASSUME Fails # {} PROVE FALSE
    OBVIOUS
  <2>2. PICK n \in Fails : \A m \in Fails : n <= m
    <3>1. Fails \in SUBSET Nat
      OBVIOUS
    <3> HIDE DEF Fails
    <3> QED BY <2>1, <3>1, LeastNumber
  <2>3. n \in Nat /\ \A h \in [SUBSET S -> Int] : ~ Good(n, h)
    BY <2>2
  <2>4. n # 0
    <3>1. SUFFICES ASSUME n = 0 PROVE FALSE
      OBVIOUS
    <3> DEFINE z == [s \in SUBSET S |-> 0]
    <3>2. z \in [SUBSET S -> Int]
      OBVIOUS
    <3>3. ASSUME NEW s \in SUBSET S, Cardinality(s) <= 0 PROVE z[s] = Added(f, z, s)
      <4>1. s = {}
        <5>1. SUFFICES ASSUME s # {} PROVE FALSE
          OBVIOUS
        <5>2. Cardinality(s) \in Nat \ {0}
          BY <1>1, <5>1
        <5> QED BY <3>3, <5>2
      <4> QED BY <4>1 DEF Added
    <3> HIDE DEF z
    <3>4. Good(0, z)
      BY <3>3
    <3> QED BY <2>3, <3>1, <3>2, <3>4
  <2>5. n - 1 \in Nat /\ n - 1 \notin Fails
    <3>1. n - 1 \in Nat /\ ~ (n <= n - 1)
      BY <2>3, <2>4
    <3> HIDE DEF Fails
    <3> QED BY <2>2, <3>1
  <2>6. PICK g \in [SUBSET S -> Int] : Good(n - 1, g)
    BY <2>5
  <2> DEFINE h == [s \in SUBSET S |-> Added(f, g, s)]
  <2>7. h \in [SUBSET S -> Int] /\ \A s \in SUBSET S : h[s] = Added(f, g, s)
    BY <1>2, <2>6
  <2> HIDE DEF h
  <2>8. ASSUME NEW s \in SUBSET S, Cardinality(s) <= n PROVE h[s] = Added(f, h, s)
    <3>1. CASE s = {}
      BY <2>7, <3>1 DEF Added
    <3>2. CASE s # {}
      <4> DEFINE t == s \ {Pick(s)}
      <4>1. t \in SUBSET S /\ Cardinality(t) <= n - 1
        <5>1. t \in SUBSET S /\ Cardinality(s) \in Nat /\ Cardinality(t) = Cardinality(s) - 1
          BY <1>1, <3>2
        <5> HIDE DEF t
        <5> QED BY <2>3, <2>8, <5>1
      <4> HIDE DEF t
      <4>2. g[t] = Added(f, g, t) /\ h[t] = Added(f, g, t)
        BY <2>6, <2>7, <4>1
      <4>3. h[s] = f[Pick(s)] + g[t]
        BY <2>7, <3>2 DEF Added, t
      <4>4. Added(f, h, s) = f[Pick(s)] + h[t]
        BY <3>2 DEF Added, t
      <4> QED BY <4>2, <4>3, <4>4
    <3> QED BY <3>1, <3>2
  <2>9. Good(n, h)
    BY <2>8
  <2> QED BY <2>3, <2>7, <2>9
<1> DEFINE N == Cardinality(S)
<1>4. N \in Nat /\ \A s \in SUBSET S : Cardinality(s) <= N
  BY FS_CardinalityType, FS_Subset
<1> HIDE DEF N
<1>5. PICK h \in [SUBSET S -> Int] : Good(N, h)
  BY <1>3, <1>4
<1>6. \A s \in SUBSET S : h[s] = Added(f, h, s)
  BY <1>4, <1>5
<1>7. h = [s \in SUBSET S |-> Added(f, h, s)]
  BY <1>5, <1>6
<1> QED BY <1>7 DEF Sums

\* A sum is the value of a function of partial sums.
LEMMA PartialSums ==
    ASSUME NEW S, IsFiniteSet(S), NEW f \in [S -> Int]
    PROVE  \E h : SumsTo(f, S, h)
<1> DEFINE h == CHOOSE g : Sums(f, S, g)
<1>1. SumFunctionOnSet(f, S) = h[S]
  BY DEF SumFunctionOnSet, FoldFunctionOnSet, MapThenFoldSet, Pick, Sums, Added
<1>2. Sums(f, S, h)
  BY SumsExist
<1> HIDE DEF h
<1>3. DOMAIN h = SUBSET S /\ \A s \in SUBSET S : h[s] = Added(f, h, s)
  BY <1>2 DEF Sums
<1> DEFINE P == {s \in SUBSET S : h[s] \in Int}
<1>4. {} \in P
  <2>1. {} \in SUBSET S /\ Added(f, h, {}) = 0
    BY DEF Added
  <2> QED BY <1>3, <2>1
<1>5. ASSUME NEW s \in SUBSET S, s # {}, s \ {Pick(s)} \in P PROVE s \in P
  <2>1. Pick(s) \in S
    BY <1>5, Picked
  <2> QED BY <1>3, <1>5, <2>1 DEF Added
<1> HIDE DEF P
<1>6. SUBSET S \subseteq P
  BY <1>4, <1>5, SubsetInduction
<1>7. h \in [SUBSET S -> Int]
  <2>1. \A s \in SUBSET S : h[s] \in Int
    BY <1>6 DEF P
  <2>2. h = [s \in SUBSET S |-> h[s]]
    BY <1>2, <1>3 DEF Sums
  <2> QED BY <2>1, <2>2
<1> QED BY <1>1, <1>3, <1>7 DEF SumsTo

\* A sum changes by as much as the one value that changes.
LEMMA SumChanges ==
    ASSUME NEW S, IsFiniteSet(S), NEW f \in [S -> Int], NEW g \in [S -> Int], NEW q \in S,
           \A x \in S : x # q => g[x] = f[x]
    PROVE  /\ SumFunctionOnSet(f, S) \in Int /\ SumFunctionOnSet(g, S) \in Int
           /\ SumFunctionOnSet(g, S) = SumFunctionOnSet(f, S) + g[q] - f[q]
<1>1. PICK a : SumsTo(f, S, a)
  BY PartialSums
<1>2. PICK b : SumsTo(g, S, b)
  BY PartialSums
<1>0. /\ a \in [SUBSET S -> Int] /\ b \in [SUBSET S -> Int]
      /\ SumFunctionOnSet(f, S) = a[S] /\ SumFunctionOnSet(g, S) = b[S]
      /\ \A s \in SUBSET S : a[s] = Added(f, a, s) /\ b[s] = Added(g, b, s)
  BY <1>1, <1>2 DEF SumsTo
<1> DEFINE P == {s \in SUBSET S : b[s] = IF q \in s THEN a[s] + g[q] - f[q] ELSE a[s]}
<1>3. {} \in P
  <2>1. {} \in SUBSET S /\ Added(f, a, {}) = 0 /\ Added(g, b, {}) = 0
    BY DEF Added
  <2> QED BY <1>0, <2>1
<1>4. ASSUME NEW s \in SUBSET S, s # {}, s \ {Pick(s)} \in P PROVE s \in P
  <2> DEFINE x == Pick(s)
             t == s \ {x}
  <2>1. x \in s /\ x \in S /\ t \in SUBSET S
    BY <1>4, Picked
  <2>2. a[s] = f[x] + a[t] /\ b[s] = g[x] + b[t]
    BY <1>0, <1>4 DEF Added
  <2>3. b[t] = IF q \in t THEN a[t] + g[q] - f[q] ELSE a[t]
    BY <1>4
  <2>4. (q \in s <=> q \in t \/ q = x) /\ x \notin t
    BY <2>1
  <2>5. f[x] \in Int /\ g[x] \in Int /\ f[q] \in Int /\ g[q] \in Int /\ a[t] \in Int /\ b[t] \in Int
    BY <1>0, <2>1
  <2> HIDE DEF x, t
  <2>6. CASE q = x
    BY <2>2, <2>3, <2>4, <2>5, <2>6
  <2>7. CASE q # x
    <3>1. g[x] = f[x]
      BY <2>1, <2>7
    <3> QED BY <2>2, <2>3, <2>4, <2>5, <2>7, <3>1
  <2> QED BY <2>6, <2>7
<1>5. S \in P
  <2> HIDE DEF P
  <2>1. SUBSET S \subseteq P
    BY <1>3, <1>4, SubsetInduction
  <2> QED BY <2>1
<1>6. b[S] = a[S] + g[q] - f[q] /\ a[S] \in Int /\ b[S] \in Int
  BY <1>0, <1>5
<1> QED BY <1>0, <1>6

\* A sum of zeros.
LEMMA SumOfZeros ==
    ASSUME NEW S, IsFiniteSet(S), NEW f \in [S -> Int], \A x \in S : f[x] = 0
    PROVE  SumFunctionOnSet(f, S) = 0
<1>1. PICK a : SumsTo(f, S, a)
  BY PartialSums
<1>0. /\ a \in [SUBSET S -> Int] /\ SumFunctionOnSet(f, S) = a[S]
      /\ \A s \in SUBSET S : a[s] = Added(f, a, s)
  BY <1>1 DEF SumsTo
<1> DEFINE P == {s \in SUBSET S : a[s] = 0}
<1>2. {} \in P
  <2>1. {} \in SUBSET S /\ Added(f, a, {}) = 0
    BY DEF Added
  <2> QED BY <1>0, <2>1
<1>3. ASSUME NEW s \in SUBSET S, s # {}, s \ {Pick(s)} \in P PROVE s \in P
  <2>1. Pick(s) \in S
    BY <1>3, Picked
  <2> QED BY <1>0, <1>3, <2>1 DEF Added
<1> HIDE DEF P
<1>4. SUBSET S \subseteq P
  BY <1>2, <1>3, SubsetInduction
<1> QED BY <1>0, <1>4 DEF P

(***************************************************************************)
(* The count of commands in flight.  It is inductive only together with    *)
(* where the completion queue's indices stand before the first wrap: an    *)
(* entry that was never filled names no submission queue, so the           *)
(* dispatcher must not come to it.                                         *)
(***************************************************************************)
InFlightOf == [q \in SQs |-> nr_in_flight[q] - Cardinality(work[q])]
Total == SumFunctionOnSet(InFlightOf, SQs)

\* the statistics are off by whole laps of the queue
LapsOnly == \E k \in Int : Total = distance(cq_old, Posted) + k * Size

\* as long as an entry is empty, no index has passed it or another
FirstLap == \A s \in Slots : cq_mem[s].cmd = <<NoOne, 0>> =>
    cq_old <= host.db /\ host.db <= host.head /\ host.head <= Posted /\ Posted <= s

Counts == LapsOnly /\ FirstLap

\* Multiples of a positive number keep their order.
LEMMA MultiplesInOrder ==
    ASSUME NEW n \in Nat \ {0}, NEW a \in Int, NEW b \in Int, a < b
    PROVE  a * n \in Int /\ b * n \in Int /\ a * n + n <= b * n
<1>1. \A d \in Nat : d * n \in Nat
  OBVIOUS
<1>2. (b - a - 1) * n = b * n - a * n - n /\ a * n \in Int /\ b * n \in Int
  OBVIOUS
<1>3. b - a - 1 \in Nat
  OBVIOUS
<1> DEFINE x == a * n
           y == b * n
           p == (b - a - 1) * n
<1>4. p \in Nat /\ p = y - x - n /\ x \in Int /\ y \in Int
  BY <1>1, <1>2, <1>3
<1> HIDE DEF x, y, p
<1>5. x \in Int /\ y \in Int /\ x + n <= y
  BY <1>4
<1> QED BY <1>5 DEF x, y

\* Whole laps leave no remainder.
LEMMA WholeLaps ==
    ASSUME NEW n \in Nat \ {0}, NEW k \in Int
    PROVE  k * n \in Int /\ (k * n) % n = 0
<1> DEFINE a == k * n
<1>1. a \in Int
  OBVIOUS
<1> HIDE DEF a
<1> DEFINE d == a \div n
           m == a % n
<1>2. d \in Int /\ m \in 0 .. n - 1 /\ m = a % n /\ d = a \div n
  BY <1>1
<1> HIDE DEF d, m
<1>3. a = d * n + m
  BY <1>1, <1>2
<1>4. /\ k < d => k * n + n <= d * n
      /\ d < k => d * n + n <= k * n
      /\ d * n \in Int /\ k * n \in Int
  BY <1>2, MultiplesInOrder
<1> DEFINE x == k * n
           y == d * n
<1>5. /\ k < d => x + n <= y
      /\ d < k => y + n <= x
      /\ x \in Int /\ y \in Int /\ x = y + m
  BY <1>3, <1>4 DEF a
<1> HIDE DEF x, y
<1>6. d = k
  BY <1>2, <1>5
<1>7. x = y
  BY <1>6 DEF x, y
<1>8. m = 0
  BY <1>2, <1>5, <1>7
<1> QED BY <1>1, <1>2, <1>8 DEF a

\* Moving an end of the window by one slot changes its length by one, up to
\* a lap.
LEMMA OneFurther ==
    ASSUME NEW a \in Slots, NEW b \in Slots
    PROVE  /\ distance(a, b) \in Int
           /\ \E k \in {0, 1} : distance(a, next(b)) = distance(a, b) + 1 - k * Size
           /\ \E k \in {0, 1} : distance(next(a), b) = distance(a, b) - 1 + k * Size
<1>1. Size \in Nat /\ Size > 1 /\ a \in Nat /\ b \in Nat /\ a < Size /\ b < Size
  BY QueueAssumption DEF Slots
<1>2. /\ next(a) \in Slots /\ next(b) \in Slots
      /\ next(a) = IF a + 1 = Size THEN 0 ELSE a + 1
      /\ next(b) = IF b + 1 = Size THEN 0 ELSE b + 1
  BY <1>1 DEF next, Slots
<1>3. distance(a, b) = IF b >= a THEN b - a ELSE b - a + Size
  BY Distance
<1>4. distance(a, next(b)) = IF next(b) >= a THEN next(b) - a ELSE next(b) - a + Size
  BY <1>2, Distance
<1>5. distance(next(a), b) = IF b >= next(a) THEN b - next(a) ELSE b - next(a) + Size
  BY <1>2, Distance
<1>6. \/ distance(a, next(b)) = distance(a, b) + 1
      \/ distance(a, next(b)) = distance(a, b) + 1 - Size
  BY <1>1, <1>2, <1>3, <1>4
<1>7. \/ distance(next(a), b) = distance(a, b) - 1
      \/ distance(next(a), b) = distance(a, b) - 1 + Size
  BY <1>1, <1>2, <1>3, <1>5
<1>8. distance(a, b) \in Int /\ 0 * Size = 0 /\ 1 * Size = Size
  BY <1>1, <1>3
<1>9. \E k \in {0, 1} : distance(a, next(b)) = distance(a, b) + 1 - k * Size
  <2>1. distance(a, b) + 1 - 0 * Size = distance(a, b) + 1
    BY <1>8
  <2> QED BY <1>6, <1>8, <2>1
<1>10. \E k \in {0, 1} : distance(next(a), b) = distance(a, b) - 1 + k * Size
  <2>1. distance(a, b) - 1 + 0 * Size = distance(a, b) - 1
    BY <1>8
  <2> QED BY <1>7, <1>8, <2>1
<1> QED BY <1>8, <1>9, <1>10

\* The commands in work queues are finitely many.
LEMMA WorkFinite ==
    ASSUME IInv
    PROVE  /\ \A q \in SQs : IsFiniteSet(work[q]) /\ Cardinality(work[q]) \in Nat
           /\ InFlightOf \in [SQs -> Int]
           /\ \A q \in SQs : InFlightOf[q] = nr_in_flight[q] - Cardinality(work[q])
           /\ \A q \in SQs : nr_in_flight[q] \in Int
<1>1. ASSUME NEW q \in SQs PROVE IsFiniteSet(work[q]) /\ Cardinality(work[q]) \in Nat
  <2>1. work[q] \in SUBSET Unfinished /\ IsFiniteSet(Unfinished)
    BY AllUnfinished DEF IInv, FewerThanSlots
  <2>2. IsFiniteSet(work[q])
    BY <2>1, FS_Subset
  <2> QED BY <2>2, FS_CardinalityType
<1>2. \A q \in SQs : nr_in_flight[q] \in Int
  BY DEF IInv, Types
<1>3. \A q \in SQs : nr_in_flight[q] - Cardinality(work[q]) \in Int
  BY <1>1, <1>2
<1> QED BY <1>1, <1>2, <1>3 DEF InFlightOf

\* The counts of the queues can be added up.
LEMMA Summable == IInv => InFlightOf \in [SQs -> Int]
  BY WorkFinite

\* The total follows the count of one queue.
LEMMA TotalFollows ==
    ASSUME NEW S, IsFiniteSet(S), NEW f \in [S -> Int], NEW g \in [S -> Int], NEW q \in S, NEW d \in Int,
           \A x \in S : x # q => g[x] = f[x], g[q] = f[q] + d
    PROVE  SumFunctionOnSet(f, S) \in Int /\ SumFunctionOnSet(g, S) = SumFunctionOnSet(f, S) + d
<1> DEFINE A == SumFunctionOnSet(f, S)
           B == SumFunctionOnSet(g, S)
<1>1. A \in Int /\ B \in Int /\ B = A + g[q] - f[q]
  BY SumChanges
<1>2. f[q] \in Int /\ g[q] \in Int
  OBVIOUS
<1> HIDE DEF A, B
<1>3. A \in Int /\ B = A + d
  BY <1>1, <1>2
<1> QED BY <1>3 DEF A, B

\* A change of one queue's count by d and of the window by d, up to a lap.
LEMMA LapsKept ==
    ASSUME IInv, Counts, NEW d \in Int, NEW j \in Int,
           Total \in Int, Total' = Total + d,
           distance(cq_old, Posted)' = distance(cq_old, Posted) + d + j * Size
    PROVE  LapsOnly'
<1>1. PICK k \in Int : Total = distance(cq_old, Posted) + k * Size
  BY DEF Counts, LapsOnly
<1>2. Size \in Nat /\ distance(cq_old, Posted) \in Int
  <2>1. distance(cq_old, Posted) \in Slots
    BY Facts, Window DEF IInv, Types
  <2> QED BY <2>1, QueueAssumption DEF Slots
<1>3. (k - j) * Size = k * Size - j * Size /\ k * Size \in Int /\ j * Size \in Int /\ k - j \in Int
  BY <1>2
<1> DEFINE x == k * Size
           y == j * Size
           z == (k - j) * Size
           D == distance(cq_old, Posted)
<1>4. z = x - y /\ x \in Int /\ y \in Int /\ D \in Int /\ Total = D + x /\ D' = D + d + y
  BY <1>1, <1>2, <1>3
<1> HIDE DEF x, y, z, D
<1>5. Total' = D' + z
  BY <1>4
<1>6. Total' = distance(cq_old, Posted)' + (k - j) * Size
  BY <1>5 DEF z, D
<1> QED BY <1>3, <1>6 DEF LapsOnly, distance

\* The steps that leave the window of posted entries and the work queues.
LEMMA CountsQuiet ==
    ASSUME IInv, Counts, UNCHANGED <<nr_in_flight, work, cq_old, cq_mem>>, Posted' = Posted,
           host'.head = host.head, host'.db = host.db \/ host'.db = host.head
    PROVE  Counts'
<1>1. Total' = Total /\ distance(cq_old, Posted)' = distance(cq_old, Posted)
  BY DEF Total, InFlightOf, distance
<1>2. LapsOnly'
  <2>1. PICK k \in Int : Total = distance(cq_old, Posted) + k * Size
    BY DEF Counts, LapsOnly
  <2>2. Total' = distance(cq_old, Posted)' + k * Size
    BY <1>1, <2>1
  <2> QED BY <2>2 DEF LapsOnly, distance
<1>3. FirstLap'
  <2>1. cq_old \in Slots /\ host.db \in Slots /\ host.head \in Slots /\ Posted \in Slots
    BY Facts DEF IInv, Types
  <2>2. cq_old \in Int /\ host.db \in Int /\ host.head \in Int /\ Posted \in Int
    BY <2>1 DEF Slots
  <2> QED BY <2>2 DEF Counts, FirstLap
<1> QED BY <1>2, <1>3 DEF Counts

\* The host reads an entry: there is one before the posted ones end.
LEMMA CountsRead ==
    ASSUME IInv, Counts, isr_consume
    PROVE  Counts'
<1>1. /\ Pending /\ host'.head = next(host.head) /\ host'.db = host.db
      /\ UNCHANGED <<sq, nr_in_flight, work, due, pc, cq, cq_mem, cq_old>>
  BY DEF isr_consume, IInv, Types
<1>2. host.head \in Slots /\ Posted \in Slots /\ NrUnread \in Nat
  BY Facts DEF IInv, Slots
<1>3. host.head # Posted
  <2>1. Tag(host.head) = host.phase
    BY <1>2, QueueAssumption DEF Tag, Slots
  <2>2. host.head \in Unread
    BY <1>1, <1>2, <2>1 DEF IInv, TagsRight, Pending
  <2>3. distance(host.head, host.head) = 0
    BY <1>2, Window
  <2> QED BY <1>2, <2>2, <2>3 DEF Unread, NrUnread
<1>4. Posted' = Posted /\ Total' = Total /\ distance(cq_old, Posted)' = distance(cq_old, Posted)
  BY <1>1 DEF Posted, Total, InFlightOf, distance
<1>5. LapsOnly'
  <2>1. PICK k \in Int : Total = distance(cq_old, Posted) + k * Size
    BY DEF Counts, LapsOnly
  <2>2. Total' = distance(cq_old, Posted)' + k * Size
    BY <1>4, <2>1
  <2> QED BY <2>2 DEF LapsOnly, distance
<1>6. FirstLap'
  <2>1. SUFFICES ASSUME NEW s \in Slots, cq_mem[s].cmd = <<NoOne, 0>>
        PROVE  /\ cq_old <= host.db /\ host.db <= next(host.head)
               /\ next(host.head) <= Posted /\ Posted <= s
    BY <1>1, <1>4 DEF FirstLap
  <2>2. cq_old <= host.db /\ host.db <= host.head /\ host.head <= Posted /\ Posted <= s
    BY <2>1 DEF Counts, FirstLap
  <2>3. /\ host.head \in Nat /\ Posted \in Nat /\ Posted < Size /\ Size \in Nat
        /\ host.db \in Nat
    BY <1>2, QueueAssumption DEF Slots, IInv, Types
  <2> QED BY <1>3, <2>2, <2>3 DEF next
<1> QED BY <1>5, <1>6 DEF Counts

\* The dispatcher takes a command: the work queue and the statistics grow.
LEMMA CountsTake ==
    ASSUME IInv, IInv', Counts, NEW q \in SQs, nvmev_proc_io_sq(q)
    PROVE  Counts'
<1> DEFINE new == <<q, sq[q].mem[sq[q].old]>>
<1>1. /\ sq[q].db # sq[q].old
      /\ work' = [work EXCEPT ![q] = @ \cup {new}]
      /\ nr_in_flight' = [nr_in_flight EXCEPT ![q] = @ + 1]
      /\ UNCHANGED <<due, pc, cq, cq_mem, cq_old, host>>
  BY DEF nvmev_proc_io_sq
<1>2. new \notin work[q]
  <2>1. sq[q].db \in Slots /\ sq[q].old \in Slots /\ Waiting(q) \in Slots /\ Taken(q) \in Int
    BY Facts DEF IInv
  <2>2. Waiting(q) # 0 /\ distance(sq[q].old, sq[q].old) = 0
    BY <1>1, <2>1, Window DEF Waiting
  <2>3. sq[q].mem[sq[q].old] = Taken(q) + 1
    BY <2>1, <2>2 DEF IInv, RingInOrder, Slots
  <2>4. new[2] = Taken(q) + 1
    BY <2>3
  <2> HIDE DEF new
  <2>5. \A c \in work[q] : c[2] <= Taken(q)
    BY DEF IInv, WorkOnce
  <2> QED BY <2>1, <2>4, <2>5
<1> HIDE DEF new
<1>3. /\ work'[q] = work[q] \cup {new} /\ \A r \in SQs : r # q => work'[r] = work[r]
      /\ nr_in_flight'[q] = nr_in_flight[q] + 1
      /\ \A r \in SQs : r # q => nr_in_flight'[r] = nr_in_flight[r]
  BY <1>1 DEF IInv, Types
<1>4. IsFiniteSet(work[q]) /\ Cardinality(work[q]) \in Nat /\ nr_in_flight[q] \in Int
  BY WorkFinite
<1>5. Cardinality(work'[q]) = Cardinality(work[q]) + 1
  BY <1>2, <1>3, <1>4, FS_AddElement
<1>6. \A r \in SQs : InFlightOf'[r] = InFlightOf[r]
  <2>1. \A r \in SQs : InFlightOf[r] = nr_in_flight[r] - Cardinality(work[r])
    BY DEF InFlightOf
  <2>2. \A r \in SQs : InFlightOf'[r] = nr_in_flight'[r] - Cardinality(work'[r])
    BY DEF InFlightOf
  <2>3. InFlightOf'[q] = nr_in_flight'[q] - Cardinality(work'[q])
    BY <2>2
  <2> DEFINE a == nr_in_flight'[q]
             b == Cardinality(work'[q])
             m == nr_in_flight[q]
             n == Cardinality(work[q])
  <2>4. a = m + 1 /\ b = n + 1 /\ m \in Int /\ n \in Nat
    BY <1>3, <1>4, <1>5
  <2>5. InFlightOf'[q] = a - b /\ InFlightOf[q] = m - n
    BY <2>1, <2>3
  <2> HIDE DEF a, b, m, n
  <2>6. InFlightOf'[q] = InFlightOf[q]
    BY <2>4, <2>5
  <2> QED BY <1>3, <2>1, <2>2, <2>6
<1>7. InFlightOf' = InFlightOf
  BY <1>6 DEF InFlightOf
<1>8. Posted' = Posted /\ Total' = Total /\ distance(cq_old, Posted)' = distance(cq_old, Posted)
  BY <1>1, <1>7 DEF Posted, Total, distance
<1>9. LapsOnly'
  <2>1. PICK k \in Int : Total = distance(cq_old, Posted) + k * Size
    BY DEF Counts, LapsOnly
  <2>2. Total' = distance(cq_old, Posted)' + k * Size
    BY <1>8, <2>1
  <2> QED BY <2>2 DEF LapsOnly, distance
<1>10. FirstLap'
  BY <1>1, <1>8 DEF Counts, FirstLap
<1> QED BY <1>9, <1>10 DEF Counts

\* A worker posts a completion: the work queue shrinks, the window grows.
LEMMA CountsFill ==
    ASSUME NamesDiffer, IInv, IInv', Counts, NEW w \in SQs, NEW c \in work[w], fill_status(w, c)
    PROVE  Counts'
<1> DEFINE at == cq.head
<1>1. /\ cq.entry_lock = NoOne
      /\ cq_mem' = [cq_mem EXCEPT ![at] = [cmd |-> c, phase |-> cq.phase]]
      /\ cq' = [cq EXCEPT !.entry_lock = w]
      /\ work' = [work EXCEPT ![w] = @ \ {c}]
      /\ UNCHANGED <<sq, nr_in_flight, cq_old, host>>
  BY DEF fill_status
<1>2. Posted = at /\ Posted' = next(at) /\ at \in Slots /\ cq_old \in Slots
  <2>1. cq'.head = at /\ cq'.entry_lock = w /\ at \in Slots /\ cq_old \in Slots
    BY <1>1 DEF IInv, Types
  <2> QED BY <1>1, <2>1 DEF Posted, NamesDiffer
<1>3. work'[w] = work[w] \ {c} /\ \A r \in SQs : r # w => work'[r] = work[r]
  BY <1>1 DEF IInv, Types
<1>4. IsFiniteSet(work[w]) /\ Cardinality(work[w]) \in Nat /\ nr_in_flight[w] \in Int
  BY WorkFinite
<1>5. Cardinality(work'[w]) = Cardinality(work[w]) - 1
  BY <1>3, <1>4, FS_RemoveElement
<1>6. InFlightOf \in [SQs -> Int]
  BY WorkFinite
<1>7. (InFlightOf \in [SQs -> Int])'
  BY Summable, PTL
<1>8. InFlightOf'[w] = InFlightOf[w] + 1 /\ \A r \in SQs : r # w => InFlightOf'[r] = InFlightOf[r]
  <2>1. \A r \in SQs : InFlightOf[r] = nr_in_flight[r] - Cardinality(work[r])
    BY DEF InFlightOf
  <2>2. \A r \in SQs : InFlightOf'[r] = nr_in_flight[r] - Cardinality(work'[r])
    BY <1>1 DEF InFlightOf
  <2>3. InFlightOf'[w] = InFlightOf[w] + 1
    BY <1>4, <1>5, <2>1, <2>2
  <2> QED BY <1>3, <2>1, <2>2, <2>3
<1>9. Total \in Int /\ Total' = Total + 1
  <2> DEFINE f == InFlightOf
             g == InFlightOf'
  <2>1. f \in [SQs -> Int] /\ g \in [SQs -> Int] /\ g[w] = f[w] + 1 /\ \A r \in SQs : r # w => g[r] = f[r]
    BY <1>6, <1>7, <1>8
  <2>2. Total = SumFunctionOnSet(f, SQs) /\ Total' = SumFunctionOnSet(g, SQs)
    BY DEF Total
  <2> HIDE DEF f, g
  <2>3. SumFunctionOnSet(f, SQs) \in Int /\ SumFunctionOnSet(g, SQs) = SumFunctionOnSet(f, SQs) + 1
    BY <2>1, TotalFollows, QueueAssumption
  <2> QED BY <2>2, <2>3
<1>10. LapsOnly'
  <2>1. PICK k \in {0, 1} : distance(cq_old, next(at)) = distance(cq_old, at) + 1 - k * Size
    BY <1>2, OneFurther
  <2>2. distance(cq_old, Posted)' = distance(cq_old, next(at)) /\ distance(cq_old, at) = distance(cq_old, Posted)
    BY <1>1, <1>2 DEF distance
  <2>3. distance(cq_old, at) \in Int /\ Size \in Int
    BY <1>2, OneFurther, QueueAssumption
  <2>4. (0 - k) * Size = 0 - k * Size /\ k * Size \in Int /\ 0 - k \in Int
    BY <2>3
  <2> DEFINE x == k * Size
             y == (0 - k) * Size
             D == distance(cq_old, at)
             E == distance(cq_old, next(at))
  <2>5. y = 0 - x /\ x \in Int /\ D \in Int /\ E = D + 1 - x
    BY <2>1, <2>3, <2>4
  <2> HIDE DEF x, y, D, E
  <2>6. E = D + 1 + y
    BY <2>5
  <2>7. distance(cq_old, Posted)' = distance(cq_old, Posted) + 1 + (0 - k) * Size
    BY <2>2, <2>6 DEF D, E, y
  <2> QED BY <1>9, <2>4, <2>7, LapsKept
<1>11. FirstLap'
  <2>1. SUFFICES ASSUME NEW s \in Slots, cq_mem'[s].cmd = <<NoOne, 0>>
        PROVE  cq_old <= host.db /\ host.db <= host.head /\ host.head <= next(at) /\ next(at) <= s
    BY <1>1, <1>2 DEF FirstLap
  <2>2. s # at
    <3>1. cq_mem'[at].cmd = c /\ c \in Commands
      BY <1>1, <1>2 DEF IInv, Types
    <3>2. c[1] \in SQs
      BY <3>1 DEF Commands
    <3> QED BY <2>1, <3>1, <3>2 DEF NamesDiffer
  <2>3. cq_mem[s].cmd = <<NoOne, 0>>
    BY <1>1, <1>2, <2>1, <2>2 DEF IInv, Types
  <2>4. cq_old <= host.db /\ host.db <= host.head /\ host.head <= at /\ at <= s
    BY <1>2, <2>3 DEF Counts, FirstLap
  <2>5. at \in Nat /\ s \in Nat /\ s < Size /\ Size \in Nat /\ host.head \in Nat
    BY <1>2, QueueAssumption DEF Slots, IInv, Types
  <2> QED BY <2>2, <2>4, <2>5 DEF next
<1> QED BY <1>10, <1>11 DEF Counts

\* The dispatcher sees a completion doorbell: the entry it takes off the
\* statistics was filled, so it names a submission queue.
LEMMA CountsReturn ==
    ASSUME NamesDiffer, IInv, IInv', Counts, nvmev_proc_io_cq
    PROVE  Counts'
<1> DEFINE q == cq_mem[cq_old].cmd[1]
<1>1. /\ cq_old # host.db
      /\ nr_in_flight' = [nr_in_flight EXCEPT ![q] = @ - 1]
      /\ cq_old' = next(cq_old)
      /\ UNCHANGED <<sq, work, due, pc, cq, cq_mem, host>>
  BY DEF nvmev_proc_io_cq
<1>2. cq_old \in Slots /\ Posted \in Slots /\ host.db \in Slots
  BY Facts DEF IInv, Types
<1>3. cq_mem[cq_old].cmd # <<NoOne, 0>>
  <2>1. cq_old \in Int /\ host.db \in Int /\ host.head \in Int /\ Posted \in Int
    <3>1. host.head \in Slots
      BY Facts DEF IInv
    <3> QED BY <1>2, <3>1 DEF Slots
  <2>2. cq_mem[cq_old].cmd = <<NoOne, 0>> =>
          cq_old <= host.db /\ host.db <= host.head /\ host.head <= Posted /\ Posted <= cq_old
    BY <1>2 DEF Counts, FirstLap
  <2> QED BY <1>1, <2>1, <2>2
<1>4. q \in SQs
  <2>1. cq_mem[cq_old].cmd \in Commands
    BY <1>2, <1>3 DEF IInv, Types
  <2> QED BY <2>1 DEF Commands
<1> HIDE DEF q
<1>5. /\ nr_in_flight'[q] = nr_in_flight[q] - 1
      /\ \A r \in SQs : r # q => nr_in_flight'[r] = nr_in_flight[r]
  BY <1>1, <1>4 DEF IInv, Types
<1>6. Cardinality(work[q]) \in Nat /\ nr_in_flight[q] \in Int /\ InFlightOf \in [SQs -> Int]
  BY <1>4, WorkFinite
<1>7. (InFlightOf \in [SQs -> Int])'
  BY Summable, PTL
<1>8. InFlightOf'[q] = InFlightOf[q] + (0 - 1) /\ \A r \in SQs : r # q => InFlightOf'[r] = InFlightOf[r]
  <2>1. \A r \in SQs : InFlightOf[r] = nr_in_flight[r] - Cardinality(work[r])
    BY DEF InFlightOf
  <2>2. \A r \in SQs : InFlightOf'[r] = nr_in_flight'[r] - Cardinality(work[r])
    BY <1>1 DEF InFlightOf
  <2> DEFINE a == nr_in_flight'[q]
             m == nr_in_flight[q]
             n == Cardinality(work[q])
  <2>3. a = m - 1 /\ m \in Int /\ n \in Nat /\ InFlightOf'[q] = a - n /\ InFlightOf[q] = m - n
    BY <1>4, <1>5, <1>6, <2>1, <2>2
  <2> HIDE DEF a, m, n
  <2>4. InFlightOf'[q] = InFlightOf[q] + (0 - 1)
    BY <2>3
  <2> QED BY <1>5, <2>1, <2>2, <2>4
<1>9. Total \in Int /\ Total' = Total + (0 - 1)
  <2> DEFINE f == InFlightOf
             g == InFlightOf'
             d == 0 - 1
  <2>1. /\ f \in [SQs -> Int] /\ g \in [SQs -> Int] /\ g[q] = f[q] + d /\ d \in Int
        /\ \A r \in SQs : r # q => g[r] = f[r]
    BY <1>6, <1>7, <1>8
  <2>2. Total = SumFunctionOnSet(f, SQs) /\ Total' = SumFunctionOnSet(g, SQs)
    BY DEF Total
  <2> HIDE DEF f, g, d
  <2>3. SumFunctionOnSet(f, SQs) \in Int /\ SumFunctionOnSet(g, SQs) = SumFunctionOnSet(f, SQs) + d
    BY <1>4, <2>1, TotalFollows, QueueAssumption
  <2> QED BY <2>2, <2>3 DEF d
<1>10. Posted' = Posted
  BY <1>1 DEF Posted
<1>11. LapsOnly'
  <2>1. PICK k \in {0, 1} : distance(next(cq_old), Posted) = distance(cq_old, Posted) - 1 + k * Size
    BY <1>2, OneFurther
  <2>2. distance(cq_old, Posted)' = distance(next(cq_old), Posted)
    BY <1>1, <1>10 DEF distance
  <2>3. distance(cq_old, Posted) \in Int /\ k * Size \in Int /\ k \in Int
    BY <1>2, OneFurther, QueueAssumption
  <2> DEFINE x == k * Size
             D == distance(cq_old, Posted)
             E == distance(next(cq_old), Posted)
  <2>4. x \in Int /\ D \in Int /\ E = D - 1 + x
    BY <2>1, <2>3
  <2> HIDE DEF x, D, E
  <2>5. E = D + (0 - 1) + x
    BY <2>4
  <2>6. distance(cq_old, Posted)' = distance(cq_old, Posted) + (0 - 1) + k * Size
    BY <2>2, <2>5 DEF D, E, x
  <2> DEFINE d == 0 - 1
  <2>7. d \in Int /\ Total' = Total + d /\ distance(cq_old, Posted)' = distance(cq_old, Posted) + d + k * Size
    BY <1>9, <2>6
  <2> HIDE DEF d
  <2> QED BY <1>9, <2>3, <2>7, LapsKept
<1>12. FirstLap'
  <2>1. SUFFICES ASSUME NEW s \in Slots, cq_mem[s].cmd = <<NoOne, 0>>
        PROVE  next(cq_old) <= host.db /\ host.db <= host.head /\ host.head <= Posted /\ Posted <= s
    BY <1>1, <1>10 DEF FirstLap
  <2>2. cq_old <= host.db /\ host.db <= host.head /\ host.head <= Posted /\ Posted <= s
    BY <2>1 DEF Counts, FirstLap
  <2>3. cq_old \in Nat /\ host.db \in Nat /\ host.db < Size /\ Size \in Nat
    BY <1>2, QueueAssumption DEF Slots
  <2>4. next(cq_old) <= host.db
    BY <1>1, <2>2, <2>3 DEF next
  <2> QED BY <2>2, <2>4
<1> QED BY <1>11, <1>12 DEF Counts

\* The queues start with nothing in flight.
LEMMA CountsInitially ==
    ASSUME Init PROVE Counts
<1>1. IInv
  BY Initially
<1>2. Posted = 0 /\ cq_old = 0 /\ host.db = 0 /\ host.head = 0 /\ distance(0, 0) = 0
  <2>1. 0 \in Slots
    BY QueueAssumption DEF Slots
  <2>2. distance(0, 0) = 0
    BY <2>1, Window
  <2> QED BY <2>2 DEF Init, Posted
<1>3. Total = 0
  <2>1. InFlightOf \in [SQs -> Int]
    BY <1>1, WorkFinite
  <2>2. \A q \in SQs : InFlightOf[q] = 0
    <3>1. \A q \in SQs : nr_in_flight[q] = 0 /\ Cardinality(work[q]) = 0
      BY FS_EmptySet DEF Init
    <3> QED BY <3>1 DEF InFlightOf
  <2> QED BY <2>1, <2>2, SumOfZeros, QueueAssumption DEF Total
<1>4. LapsOnly
  <2>1. 0 = 0 + 0 * Size
    BY QueueAssumption
  <2>2. Total = distance(cq_old, Posted) + 0 * Size
    BY <1>2, <1>3, <2>1
  <2> QED BY <2>2 DEF LapsOnly
<1>5. FirstLap
  <2>1. \A s \in Slots : 0 <= s
    BY DEF Slots
  <2> QED BY <1>2, <2>1 DEF FirstLap
<1> QED BY <1>4, <1>5 DEF Counts

\* Every step keeps the counts.
LEMMA CountsKept ==
    ASSUME NamesDiffer, IInv, IInv', Counts, [Next]_vars
    PROVE  Counts'
<1>1. ASSUME NEW q \in SQs, submit(q) PROVE Counts'
  <2>1. /\ UNCHANGED <<nr_in_flight, work, cq, cq_old, cq_mem>>
        /\ host'.head = host.head /\ host'.db = host.db
    BY <1>1 DEF submit, IInv, Types
  <2> QED BY <2>1, CountsQuiet DEF Posted
<1>2. ASSUME NEW w \in SQs, check_irq(w) \/ clear_ready(w) \/ nvmev_signal_irq(w) PROVE Counts'
  <2>1. /\ UNCHANGED <<nr_in_flight, work, cq_old, cq_mem>>
        /\ host'.head = host.head /\ host'.db = host.db
        /\ cq'.head = cq.head /\ cq'.entry_lock = cq.entry_lock
    BY <1>2 DEF check_irq, clear_ready, nvmev_signal_irq, IInv, Types
  <2>2. Posted' = Posted
    BY <2>1 DEF Posted
  <2> QED BY <2>1, <2>2, CountsQuiet
<1>3. ASSUME NEW w \in SQs, fill_done(w) PROVE Counts'
  <2>1. /\ UNCHANGED <<nr_in_flight, work, cq_old, cq_mem, host>>
        /\ cq' = [advanced(cq) EXCEPT !.interrupt_ready = TRUE, !.entry_lock = NoOne]
        /\ cq.entry_lock = w
    BY <1>3 DEF fill_done, IInv, LockHeld
  <2>2. cq'.head = next(cq.head) /\ cq'.entry_lock = NoOne
    BY <2>1 DEF advanced, IInv, Types
  <2>3. Posted' = Posted
    BY <2>1, <2>2 DEF Posted, NamesDiffer
  <2> QED BY <2>1, <2>3, CountsQuiet
<1>4. ASSUME NEW q \in SQs, Worker(q) PROVE Counts'
  BY <1>2, <1>3, <1>4, CountsFill DEF Worker
<1>5. CASE isr_start \/ isr_end
  <2>1. /\ UNCHANGED <<nr_in_flight, work, cq, cq_old, cq_mem>>
        /\ host'.head = host.head /\ (host'.db = host.db \/ host'.db = host.head)
    BY <1>5 DEF isr_start, isr_end, IInv, Types
  <2> QED BY <2>1, CountsQuiet DEF Posted
<1>6. ASSUME NEW c, target_reached(c) PROVE Counts'
  BY <1>6, CountsQuiet DEF target_reached, Posted
<1>7. CASE UNCHANGED vars
  BY <1>7, CountsQuiet DEF vars, Posted
<1> QED BY <1>1, <1>4, <1>5, <1>6, <1>7, CountsTake, CountsRead, CountsReturn DEF Next

\* The dispatcher's statistics of commands in flight, summed over the queues,
\* and the commands in work queues and posted entries agree, up to whole laps
\* of the completion queue; and every command is in one place.  The sum
\* survives entries being charged to another queue than the one whose command
\* they completed.
THEOREM CommandsAccounted == ASSUME NamesDiffer PROVE Spec => []EachInOnePlace
<1>1. Init => IInv /\ Counts
  BY Initially, CountsInitially
<1>2. IInv /\ Counts /\ [Next]_vars => (IInv /\ Counts)'
  BY Step, CountsKept
<1>3. IInv /\ Counts => TypeOK /\ InFlightTotal
  <2>1. SUFFICES ASSUME IInv, Counts PROVE TypeOK /\ InFlightTotal
    OBVIOUS
  <2>2. TypeOK
    <3>1. \A q \in SQs : sq[q].db \in Slots /\ sq[q].old \in Slots /\ sq[q].mem \in [Slots -> 0 .. MaxCmds]
      BY <2>1, Facts DEF IInv
    <3> QED BY <2>1, <3>1 DEF IInv, Types, TypeOK
  <2>3. PICK k \in Int : Total = distance(cq_old, Posted) + k * Size
    BY <2>1 DEF Counts, LapsOnly
  <2>4. distance(cq_old, Posted) \in Int
    BY <2>1, Facts, OneFurther DEF IInv, Types
  <2>5. k * Size \in Int /\ (k * Size) % Size = 0
    BY WholeLaps, QueueAssumption
  <2> DEFINE x == k * Size
             D == distance(cq_old, Posted)
  <2>6. x \in Int /\ D \in Int /\ Total = D + x /\ x % Size = 0
    BY <2>3, <2>4, <2>5
  <2> HIDE DEF x, D
  <2>7. Total - D = x
    BY <2>6
  <2>8. (Total - D) % Size = 0
    BY <2>6, <2>7
  <2>9. InFlightTotal
    BY <2>8 DEF D, Total, InFlightOf, InFlightTotal
  <2> QED BY <2>2, <2>9
<1> QED BY <1>1, <1>2, <1>3, EachPlacedOnce, PTL DEF Spec, EachInOnePlace

=============================================================================
