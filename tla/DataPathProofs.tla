--------------------------- MODULE DataPathProofs ---------------------------
(***************************************************************************)
(* Proofs about the data path: from the queues to storage (DataPath), for  *)
(* any number of queues, slots, blocks and commands, when workers copy in  *)
(* time (PromptCopy); how the pages of one command are walked (PrpWalk),   *)
(* for any page size and any buffer; when the units of the simple          *)
(* performance model are idle (IOUnits), for any number of units and any   *)
(* latencies; and how a line of flash is filled and cleaned (LineLayout),  *)
(* for every geometry.                                                     *)
(***************************************************************************)
EXTENDS DataPath, PrpWalk, IOUnits, LineLayout, FiniteSetTheorems, WellFoundedInduction, TLAPS

(***************************************************************************)
(* The inductive invariant.                                                *)
(***************************************************************************)
Works == [sq_entry : Ring, id : Nat, is_copied : BOOLEAN]
Commands == [sq : SQs, op : {"write", "read", "reset"}, lbas : SUBSET Lbas, before : SUBSET Nat]

\* the slots from head up to tail, around the end of the ring
Between(h, t) == {i \in Ring : IF h <= t THEN h <= i /\ i < t ELSE h <= i \/ i < t}
Queued(q) == Between(head[q], tail[q])

Types ==
    /\ slots \in [SQs -> [Ring -> 0 .. MaxCmds]]
    /\ tail \in [SQs -> Ring] /\ head \in [SQs -> Ring] /\ sqes \in SUBSET SQs
    /\ works \in [SQs -> SUBSET Works]
    /\ copying \in [SQs -> [w : Works, left : SUBSET Lbas]]
    /\ storage \in [Lbas -> 0 .. MaxCmds]
    /\ cmds \in Seq(Commands) /\ Len(cmds) <= MaxCmds
    /\ completed \subseteq DOMAIN cmds /\ refused \subseteq DOMAIN cmds /\ gone \subseteq DOMAIN cmds
    /\ deletes \in Nat

\* what a command has seen completed is completed
PastSeen == \A i \in DOMAIN cmds : cmds[i].before \subseteq completed

\* commands of a queue that may still be executed
Open(q) == {i \in DOMAIN cmds \ completed : cmds[i].sq = q}

\* a queued slot holds a command that is nowhere else
QueuedOnce == \A q \in sqes : \A i \in Queued(q) :
    /\ slots[q][i] \in Open(q)
    /\ \A w \in works[q] : w.id # slots[q][i]
    /\ \A j \in Queued(q) : slots[q][j] = slots[q][i] => j = i

\* a request stands for one command, which is still in its slot, in a queue that
\* exists, until it is copied
HeldOnce == \A q \in SQs : \A w \in works[q] :
    /\ w.id \in Open(q)
    /\ ~ w.is_copied => q \in sqes /\ slots[q][w.sq_entry] = w.id
    /\ \A v \in works[q] : v.id = w.id => v = w

\* a worker copies for a request it has
CopyingHeld == \A q \in SQs :
    copying[q] # Idle => copying[q].w \in works[q] /\ ~ copying[q].w.is_copied

\* the block holds what i made of it, or what was not completed when i was sent
AtLeast(i, l) == storage[l] = i \/ (storage[l] # 0 /\ storage[l] \notin cmds[i].before)

\* the request has done its part for the block
DoneFor(q, w, l) ==
    \/ cmds[w.id].op = "reset"
    \/ /\ cmds[w.id].op = "write"
       /\ \/ w.is_copied
          \/ copying[q] # Idle /\ copying[q].w = w /\ l \notin copying[q].left

DataCurrent ==
    /\ \A i \in completed : \A l \in Lbas : Changes(i, l) => AtLeast(i, l)
    /\ \A q \in SQs : \A w \in works[q] : \A l \in cmds[w.id].lbas : DoneFor(q, w, l) => AtLeast(w.id, l)

IInv ==
    /\ Types /\ PastSeen /\ QueuedOnce /\ HeldOnce /\ CopyingHeld
    /\ DataCurrent

(***************************************************************************)
(* The ring and the commands.                                              *)
(***************************************************************************)
\* The next index of a ring wraps at its end.
LEMMA RingNext ==
    ASSUME NEW x \in Ring
    PROVE  (x + 1) % Depth = (IF x + 1 = Depth THEN 0 ELSE x + 1) /\ (x + 1) % Depth \in Ring
<1>1. Depth \in Nat /\ Depth > 1 /\ x \in Nat /\ x + 1 <= Depth
  BY DataAssumption DEF Ring
<1>2. CASE x + 1 = Depth
  BY <1>1, <1>2 DEF Ring
<1>3. CASE x + 1 < Depth
  BY <1>1, <1>3 DEF Ring
<1> QED BY <1>1, <1>2, <1>3

\* A doorbell that is rung adds one slot to the queued ones at most, and the
\* dispatcher takes one away.
LEMMA RingWindow ==
    ASSUME NEW h \in Ring, NEW t \in Ring
    PROVE  /\ Between(h, (t + 1) % Depth) \subseteq Between(h, t) \cup {t}
           /\ h # t => h \in Between(h, t) /\ Between((h + 1) % Depth, t) \subseteq Between(h, t) \ {h}
<1>1. Depth \in Nat /\ Depth > 1
  BY DataAssumption
<1>2. Between(h, (t + 1) % Depth) \subseteq Between(h, t) \cup {t}
  BY <1>1, RingNext DEF Between, Ring
<1>3. ASSUME h # t PROVE h \in Between(h, t) /\ Between((h + 1) % Depth, t) \subseteq Between(h, t) \ {h}
  BY <1>1, <1>3, RingNext DEF Between, Ring
<1> QED BY <1>2, <1>3

\* The number of a command is a positive number.
LEMMA CommandNumbers ==
    ASSUME IInv
    PROVE  /\ DOMAIN cmds = 1 .. Len(cmds) /\ Len(cmds) \in Nat
           /\ \A i \in DOMAIN cmds : i \in Nat /\ i # 0 /\ i \in 0 .. MaxCmds /\ cmds[i] \in Commands
BY DataAssumption DEF IInv, Types

(***************************************************************************)
(* Every step keeps the invariant.                                         *)
(***************************************************************************)
\* The host sends a command: the slot it uses held no command that a worker
\* still has to read.
LEMMA StepSubmit ==
    ASSUME PromptCopy, IInv, NEW q \in SQs, NEW c \in Ops, submit(q, c)
    PROVE  IInv'
<1> DEFINE n == Len(cmds) + 1
           new == [sq |-> q, op |-> c.op, lbas |-> c.lbas, before |-> completed]
<1>1. /\ cmds' = Append(cmds, new)
      /\ Len(cmds) < MaxCmds
      /\ slots' = [slots EXCEPT ![q][tail[q]] = Len(cmds')]
      /\ tail' = [tail EXCEPT ![q] = (@ + 1) % Depth]
      /\ UNCHANGED <<head, sqes, works, copying, storage, completed, gone, refused, deletes>>
      /\ \A w \in works[q] : w.sq_entry = tail[q] => w.is_copied
  BY DataAssumption DEF submit, IInv, Types
<1>2. Len(cmds) \in Nat /\ DOMAIN cmds = 1 .. Len(cmds) /\ MaxCmds \in Nat
  BY CommandNumbers, DataAssumption
<1>3. new \in Commands
  <2>1. c.op \in {"write", "read", "reset"} /\ c.lbas \in SUBSET Lbas
    BY DataAssumption DEF Ops
  <2>2. completed \in SUBSET Nat
    BY <1>2 DEF IInv, Types
  <2> QED BY <2>1, <2>2 DEF Commands
<1>4. /\ cmds' \in Seq(Commands) /\ Len(cmds') = n /\ DOMAIN cmds' = DOMAIN cmds \cup {n}
      /\ n \notin DOMAIN cmds /\ n \in 1 .. MaxCmds
      /\ cmds'[n] = new /\ \A i \in DOMAIN cmds : cmds'[i] = cmds[i]
  BY <1>1, <1>2, <1>3 DEF IInv, Types
<1>5. /\ slots'[q][tail[q]] = n
      /\ \A p \in SQs : \A i \in Ring : p # q \/ i # tail[q] => slots'[p][i] = slots[p][i]
      /\ tail[q] \in Ring
      /\ slots' \in [SQs -> [Ring -> 0 .. MaxCmds]]
  BY <1>1, <1>4 DEF IInv, Types
<1>6. Types'
  <2>1. tail' \in [SQs -> Ring]
    BY <1>1, RingNext DEF IInv, Types
  <2> QED BY <1>1, <1>4, <1>5, <2>1 DEF IInv, Types
<1>7. PastSeen'
  BY <1>1, <1>4 DEF IInv, PastSeen
<1>8. \A p \in SQs : Open(p)' = Open(p) \cup (IF p = q THEN {n} ELSE {})
  BY <1>1, <1>4 DEF Open, IInv, Types
<1>9. \A p \in SQs : n \notin Open(p) /\ \A w \in works[p] : w.id # n
  BY <1>4 DEF Open, IInv, HeldOnce
<1>10. QueuedOnce'
  <2>1. SUFFICES ASSUME NEW p \in sqes', NEW i \in Queued(p)', NEW j \in Queued(p)'
                 PROVE  /\ slots'[p][i] \in Open(p)'
                        /\ \A w \in works'[p] : w.id # slots'[p][i]
                        /\ slots'[p][j] = slots'[p][i] => j = i
    BY DEF QueuedOnce
  <2> p \in SQs /\ p \in sqes
    BY <1>1 DEF IInv, Types
  <2>2. /\ \/ i \in Queued(p) /\ (p # q \/ i # tail[q])
           \/ p = q /\ i = tail[q]
        /\ \/ j \in Queued(p) /\ (p # q \/ j # tail[q])
           \/ p = q /\ j = tail[q]
    BY <1>1, RingWindow DEF Queued, IInv, Types
  <2>3. i \in Ring /\ j \in Ring
    BY DEF Queued, Between
  <2>4. /\ i \in Queued(p) => slots[p][i] # n
        /\ j \in Queued(p) => slots[p][j] # n
    BY <1>9 DEF IInv, QueuedOnce
  <2> QED BY <1>1, <1>5, <1>8, <1>9, <2>2, <2>3, <2>4 DEF IInv, QueuedOnce
<1>11. HeldOnce'
  <2>1. ASSUME NEW p \in SQs, NEW w \in works[p], ~ w.is_copied
        PROVE  slots'[p][w.sq_entry] = w.id
    <3>1. slots[p][w.sq_entry] = w.id /\ w.sq_entry \in Ring
      BY <2>1 DEF IInv, HeldOnce, Types, Works
    <3> QED BY <1>1, <1>5, <2>1, <3>1
  <2> QED BY <1>1, <1>8, <2>1 DEF IInv, HeldOnce
<1>12. CopyingHeld'
  BY <1>1 DEF IInv, CopyingHeld, Idle, NoWork
<1>13. DataCurrent'
  <2>1. ASSUME NEW i \in completed, NEW l \in Lbas, Changes(i, l)' PROVE AtLeast(i, l)'
    BY <1>1, <1>4, <2>1 DEF IInv, Types, DataCurrent, Changes, AtLeast
  <2>2. ASSUME NEW p \in SQs, NEW w \in works[p], NEW l \in cmds'[w.id].lbas, DoneFor(p, w, l)'
        PROVE  AtLeast(w.id, l)'
    <3>1. w.id \in DOMAIN cmds
      BY DEF IInv, HeldOnce, Open
    <3>2. cmds'[w.id] = cmds[w.id] /\ DoneFor(p, w, l)
      BY <1>1, <1>4, <2>2, <3>1 DEF DoneFor, Idle, NoWork
    <3> QED BY <1>1, <2>2, <3>2 DEF IInv, DataCurrent, AtLeast
  <2> QED BY <1>1, <2>1, <2>2 DEF DataCurrent
<1> QED BY <1>6, <1>7, <1>10, <1>11, <1>12, <1>13 DEF IInv

\* Whoever changes a block writes a command that is not completed: nothing that
\* is current becomes older.
LEMMA StaysCurrent ==
    ASSUME IInv, NEW n, n \in DOMAIN cmds \ completed,
           UNCHANGED cmds, NEW i \in DOMAIN cmds, NEW l \in Lbas,
           storage'[l] = storage[l] \/ storage'[l] = n,
           AtLeast(i, l)
    PROVE  AtLeast(i, l)'
<1>1. n # 0 /\ n \notin cmds[i].before
  BY CommandNumbers DEF IInv, PastSeen
<1> QED BY <1>1 DEF AtLeast

\* The dispatcher takes a command, clears the zone or sees it refused, and
\* hands the request to the worker.
LEMMA StepDispatch ==
    ASSUME IInv, NEW q \in SQs, nvmev_proc_io_sq(q)
    PROVE  IInv'
<1> DEFINE n == slots[q][head[q]]
           new == [sq_entry |-> head[q], id |-> n, is_copied |-> FALSE]
<1>1. /\ q \in sqes /\ head[q] # tail[q]
      /\ proc_io_cmd(n)
      /\ works' = [works EXCEPT ![q] = @ \cup {new}]
      /\ head' = [head EXCEPT ![q] = (@ + 1) % Depth]
      /\ UNCHANGED <<slots, tail, sqes, copying, cmds, completed, gone, deletes>>
  BY DEF nvmev_proc_io_sq
<1>2. /\ head[q] \in Ring /\ tail[q] \in Ring /\ head[q] \in Queued(q)
      /\ Queued(q)' \subseteq Queued(q) \ {head[q]}
      /\ \A p \in SQs : p # q => Queued(p)' = Queued(p)
  BY <1>1, RingWindow DEF Queued, IInv, Types
<1>3. /\ n \in Open(q) /\ n \in DOMAIN cmds \ completed /\ cmds[n].sq = q
      /\ \A w \in works[q] : w.id # n
      /\ \A j \in Queued(q) \ {head[q]} : slots[q][j] # n
  BY <1>1, <1>2 DEF IInv, QueuedOnce, Open
<1>4. /\ n \in Nat /\ n # 0 /\ n \in 0 .. MaxCmds /\ cmds[n] \in Commands
      /\ new \in Works /\ new.sq_entry = head[q] /\ new.id = n /\ ~ new.is_copied
  BY <1>2, <1>3, CommandNumbers DEF Works
<1> HIDE DEF new
<1>5. /\ storage' \in [Lbas -> 0 .. MaxCmds] /\ refused' \subseteq DOMAIN cmds
      /\ refused \subseteq refused'
      /\ \A l \in Lbas : storage'[l] = storage[l] \/ storage'[l] = n
      /\ cmds[n].op = "reset" => \A l \in cmds[n].lbas : storage'[l] = n
  <2>1. CASE cmds[n].op = "reset" /\ UNCHANGED refused
             /\ storage' = [l \in Lbas |-> IF l \in cmds[n].lbas THEN n ELSE storage[l]]
    BY <1>4, <2>1 DEF IInv, Types, Commands
  <2>2. CASE cmds[n].op # "reset" /\ UNCHANGED storage /\ (UNCHANGED refused \/ refused' = refused \cup {n})
    BY <1>3, <2>2 DEF IInv, Types
  <2> QED BY <1>1, <2>1, <2>2 DEF proc_io_cmd
<1>6. /\ \A p \in SQs : p # q => works'[p] = works[p]
      /\ works'[q] = works[q] \cup {new}
      /\ works' \in [SQs -> SUBSET Works]
  BY <1>1, <1>4 DEF IInv, Types
<1>7. Types'
  <2>1. head' \in [SQs -> Ring]
    BY <1>1, RingNext DEF IInv, Types
  <2> QED BY <1>1, <1>5, <1>6, <2>1 DEF IInv, Types
<1>8. PastSeen'
  BY <1>1 DEF IInv, PastSeen
<1>9. \A p \in SQs : Open(p)' = Open(p)
  BY <1>1 DEF Open
<1>10. QueuedOnce'
  <2> sqes \subseteq SQs
    BY DEF IInv, Types
  <2> QED BY <1>1, <1>2, <1>3, <1>4, <1>6, <1>9 DEF IInv, QueuedOnce
<1>11. HeldOnce'
  <2>1. \A p \in SQs : \A w \in works[p] :
           /\ w.id \in Open(p)'
           /\ ~ w.is_copied => p \in sqes' /\ slots'[p][w.sq_entry] = w.id
           /\ \A v \in works[p] : v.id = w.id => v = w
    BY <1>1, <1>9 DEF IInv, HeldOnce
  <2>2. q \in sqes' /\ new.id \in Open(q)' /\ slots'[q][new.sq_entry] = new.id
    BY <1>1, <1>3, <1>4, <1>9
  <2>3. \A w \in works[q] : w.id # new.id
    BY <1>3, <1>4
  <2> QED BY <1>6, <2>1, <2>2, <2>3 DEF HeldOnce
<1>12. CopyingHeld'
  BY <1>1, <1>6 DEF IInv, CopyingHeld, Idle, NoWork
<1>13. DataCurrent'
  <2>1. ASSUME NEW i \in completed, NEW l \in Lbas, Changes(i, l)' PROVE AtLeast(i, l)'
    <3>1. Changes(i, l) /\ i \in DOMAIN cmds
      BY <1>1, <1>5, <2>1 DEF IInv, Types, Changes
    <3> QED BY <1>1, <1>3, <1>5, <3>1, StaysCurrent DEF IInv, DataCurrent
  <2>2. ASSUME NEW p \in SQs, NEW w \in works'[p], NEW l \in cmds[w.id].lbas, DoneFor(p, w, l)'
        PROVE  AtLeast(w.id, l)'
    <3>1. CASE w \in works[p]
      <4>1. w.id \in DOMAIN cmds /\ DoneFor(p, w, l)
        BY <1>1, <2>2, <3>1 DEF IInv, HeldOnce, Open, DoneFor, Idle, NoWork
      <4>2. l \in Lbas
        BY <4>1, CommandNumbers DEF Commands
      <4> QED BY <1>1, <1>3, <1>5, <3>1, <4>1, <4>2, StaysCurrent DEF IInv, DataCurrent
    <3>2. CASE p = q /\ w = new /\ w \notin works[p]
      <4>1. copying[q] = Idle \/ copying[q].w # w
        BY <3>2 DEF IInv, CopyingHeld
      <4>2. cmds[n].op = "reset"
        BY <1>1, <1>4, <2>2, <3>2, <4>1 DEF DoneFor, Idle, NoWork
      <4> QED BY <1>1, <1>4, <1>5, <2>2, <3>2, <4>2 DEF AtLeast
    <3> QED BY <1>6, <2>2, <3>1, <3>2
  <2> QED BY <1>1, <2>1, <2>2 DEF DataCurrent
<1> QED BY <1>7, <1>8, <1>10, <1>11, <1>12, <1>13 DEF IInv

\* Deleting and creating a queue: the requests its worker still has are copied.
LEMMA StepQueues ==
    ASSUME PromptCopy, IInv, NEW q \in SQs, admin_delete_sq(q) \/ admin_create_sq(q)
    PROVE  IInv'
<1>1. /\ UNCHANGED <<works, copying, storage, cmds, completed, refused>>
      /\ \A p \in SQs \ {q} : (p \in sqes' <=> p \in sqes) /\ slots'[p] = slots[p]
                              /\ tail'[p] = tail[p] /\ head'[p] = head[p]
  BY DEF admin_delete_sq, admin_create_sq, IInv, Types
<1>2. \A w \in works[q] : w.is_copied
  BY DEF admin_delete_sq, admin_create_sq, IInv, HeldOnce
<1>3. Types'
  <2>1. 0 \in Ring /\ 0 \in 0 .. MaxCmds
    BY DataAssumption DEF Ring
  <2>2. [i \in Ring |-> 0] \in [Ring -> 0 .. MaxCmds]
    BY <2>1
  <2>3. CASE admin_delete_sq(q)
    <3>1. gone' \subseteq DOMAIN cmds /\ deletes' \in Nat
      BY <2>3 DEF admin_delete_sq, IInv, Types, Outstanding
    <3> QED BY <1>1, <2>3, <3>1 DEF admin_delete_sq, IInv, Types
  <2>4. CASE admin_create_sq(q)
    <3>1. slots' \in [SQs -> [Ring -> 0 .. MaxCmds]]
      BY <2>2, <2>4 DEF admin_create_sq, IInv, Types
    <3>2. /\ tail' \in [SQs -> Ring] /\ head' \in [SQs -> Ring] /\ sqes' \in SUBSET SQs
          /\ UNCHANGED <<gone, deletes>>
      BY <2>1, <2>4 DEF admin_create_sq, IInv, Types
    <3> QED BY <1>1, <3>1, <3>2 DEF IInv, Types
  <2> QED BY <2>3, <2>4
<1>4. (q \in sqes' => Queued(q)' = {}) /\ \A p \in SQs \ {q} : Queued(p)' = Queued(p)
  <2>1. ASSUME admin_delete_sq(q) PROVE q \notin sqes'
    BY <2>1 DEF admin_delete_sq
  <2>2. ASSUME admin_create_sq(q) PROVE Queued(q)' = {}
    <3>1. head'[q] = 0 /\ tail'[q] = 0
      BY <2>2 DEF admin_create_sq, IInv, Types
    <3>2. Between(0, 0) = {}
      BY DataAssumption DEF Between, Ring
    <3> QED BY <3>1, <3>2 DEF Queued
  <2> QED BY <1>1, <2>1, <2>2 DEF Queued
<1>5. PastSeen' /\ \A p \in SQs : Open(p)' = Open(p)
  BY <1>1 DEF IInv, PastSeen, Open
<1>6. QueuedOnce'
  <2>1. sqes \subseteq SQs /\ sqes' \subseteq SQs
    BY <1>3 DEF IInv, Types
  <2> QED BY <1>1, <1>4, <1>5, <2>1 DEF IInv, QueuedOnce
<1>7. HeldOnce'
  BY <1>1, <1>2, <1>5 DEF IInv, HeldOnce
<1>8. CopyingHeld'
  BY <1>1 DEF IInv, CopyingHeld, Idle, NoWork
<1>9. DataCurrent'
  BY <1>1 DEF IInv, DataCurrent, Changes, AtLeast, DoneFor, Idle, NoWork
<1> QED BY <1>3, <1>5, <1>6, <1>7, <1>8, <1>9 DEF IInv

\* A worker starts to copy: the slot still tells it which blocks.
LEMMA StepPerform ==
    ASSUME IInv, NEW q \in SQs, NEW w \in works[q], perform_io(q, w)
    PROVE  IInv'
<1>1. /\ copying[q] = Idle /\ ~ w.is_copied
      /\ copying' = [copying EXCEPT ![q] = [w |-> w, left |-> entry(q, w.sq_entry).lbas]]
      /\ UNCHANGED <<slots, tail, head, sqes, works, storage, cmds, completed, gone, refused, deletes>>
  BY DEF perform_io
<1>2. /\ w \in Works /\ slots[q][w.sq_entry] = w.id /\ w.id \in DOMAIN cmds /\ cmds[w.id] \in Commands
      /\ entry(q, w.sq_entry) = cmds[w.id]
  BY <1>1, CommandNumbers DEF IInv, Types, HeldOnce, Open, entry
<1>3. /\ copying'[q] = [w |-> w, left |-> cmds[w.id].lbas]
      /\ \A p \in SQs : p # q => copying'[p] = copying[p]
      /\ copying' \in [SQs -> [w : Works, left : SUBSET Lbas]]
  BY <1>1, <1>2 DEF IInv, Types, Commands
<1>4. Types'
  BY <1>1, <1>3 DEF IInv, Types
<1>5. PastSeen' /\ QueuedOnce' /\ HeldOnce'
  BY <1>1 DEF IInv, PastSeen, QueuedOnce, HeldOnce, Open, Queued
<1>6. CopyingHeld'
  BY <1>1, <1>3 DEF IInv, CopyingHeld, Idle, NoWork
<1>7. DataCurrent'
  <2>1. ASSUME NEW p \in SQs, NEW v \in works[p], NEW l \in cmds[v.id].lbas, DoneFor(p, v, l)'
        PROVE  DoneFor(p, v, l)
    BY <1>1, <1>3, <2>1 DEF DoneFor, Idle, NoWork
  <2>2. \A p \in SQs : \A v \in works[p] : \A l \in cmds[v.id].lbas : DoneFor(p, v, l)' => AtLeast(v.id, l)
    BY <2>1 DEF IInv, DataCurrent
  <2>3. \A i \in completed : \A l \in Lbas : Changes(i, l) => AtLeast(i, l)
    BY DEF IInv, DataCurrent
  <2> QED BY <1>1, <2>2, <2>3 DEF DataCurrent, Changes, AtLeast
<1> QED BY <1>4, <1>5, <1>6, <1>7 DEF IInv

\* A worker copies one block: for a write it becomes the content of the block;
\* after the last one the request is marked.
LEMMA StepCopy ==
    ASSUME IInv, NEW q \in SQs, copy_block(q)
    PROVE  IInv'
<1> DEFINE w == copying[q].w
           marked == [w EXCEPT !.is_copied = TRUE]
           left == copying[q].left \ {next_block(q)}
<1>1. /\ copying[q] # Idle
      /\ storage' = IF entry(q, w.sq_entry).op = "write"
                     THEN [storage EXCEPT ![next_block(q)] = slots[q][w.sq_entry]] ELSE storage
      /\ copying' = [copying EXCEPT ![q] = IF left = {} THEN Idle ELSE [@ EXCEPT !.left = left]]
      /\ works' = IF left = {} THEN [works EXCEPT ![q] = (@ \ {w}) \cup {marked}] ELSE works
      /\ UNCHANGED <<slots, tail, head, sqes, cmds, completed, gone, refused, deletes>>
  BY DEF copy_block, marked_copied
<1>2. /\ w \in works[q] /\ ~ w.is_copied /\ w \in Works /\ slots[q][w.sq_entry] = w.id
      /\ w.id \in Open(q) /\ w.id \in DOMAIN cmds \ completed
      /\ \A v \in works[q] : v.id = w.id => v = w
  BY <1>1 DEF IInv, Types, CopyingHeld, HeldOnce, Open
<1>3. w.id \in 0 .. MaxCmds /\ cmds[w.id] \in Commands /\ entry(q, w.sq_entry) = cmds[w.id]
  BY <1>2, CommandNumbers DEF entry
<1>4. /\ marked \in Works /\ marked.id = w.id /\ marked.sq_entry = w.sq_entry /\ marked.is_copied
      /\ marked # w
  BY <1>2 DEF Works
<1> HIDE DEF marked
<1>5. /\ storage' \in [Lbas -> 0 .. MaxCmds]
      /\ \A l \in Lbas : storage'[l] = storage[l] \/ storage'[l] = w.id
      /\ cmds[w.id].op = "write" /\ next_block(q) \in Lbas => storage'[next_block(q)] = w.id
  BY <1>1, <1>2, <1>3 DEF IInv, Types
<1>6. /\ copying' \in [SQs -> [w : Works, left : SUBSET Lbas]]
      /\ \A p \in SQs : p # q => copying'[p] = copying[p]
      /\ left = {} => copying'[q] = Idle
      /\ left # {} => copying'[q] = [w |-> w, left |-> left]
  <2>1. NoWork \in Works
    BY DataAssumption DEF NoWork, Works, Ring
  <2>2. copying[q] \in [w : Works, left : SUBSET Lbas]
    BY DEF IInv, Types
  <2>3. left # {} => [copying[q] EXCEPT !.left = left] = [w |-> w, left |-> left]
    BY <2>2
  <2> QED BY <1>1, <1>2, <2>1, <2>2, <2>3 DEF IInv, Types, Idle
<1>7. /\ works' \in [SQs -> SUBSET Works]
      /\ \A p \in SQs : p # q => works'[p] = works[p]
      /\ left = {} => works'[q] = (works[q] \ {w}) \cup {marked}
      /\ left # {} => works'[q] = works[q]
  BY <1>1, <1>2, <1>4 DEF IInv, Types
<1>8. Types'
  BY <1>1, <1>5, <1>6, <1>7 DEF IInv, Types
<1>9. PastSeen' /\ (\A p \in SQs : Open(p)' = Open(p) /\ Queued(p)' = Queued(p))
  BY <1>1 DEF IInv, PastSeen, Open, Queued
<1>10. \A p \in SQs : \A v \in works'[p] : v \in works[p] \/ (left = {} /\ p = q /\ v = marked)
  BY <1>7
<1>11. QueuedOnce'
  <2>1. \A p \in SQs : \A v \in works'[p] : \E u \in works[p] : u.id = v.id
    BY <1>2, <1>4, <1>10
  <2> sqes \subseteq SQs
    BY DEF IInv, Types
  <2> QED BY <1>1, <1>9, <2>1 DEF IInv, QueuedOnce
<1>12. HeldOnce'
  <2>1. ASSUME NEW p \in SQs, NEW v \in works'[p], NEW u \in works'[p], u.id = v.id PROVE u = v
    <3>1. CASE u \in works[p] /\ v \in works[p]
      BY <2>1, <3>1 DEF IInv, HeldOnce
    <3>2. CASE p = q /\ left = {}
      BY <1>2, <1>4, <1>7, <2>1, <3>2 DEF IInv, HeldOnce
    <3> QED BY <1>10, <2>1, <3>1, <3>2
  <2>2. ASSUME NEW p \in SQs, NEW v \in works'[p]
        PROVE  v.id \in Open(p) /\ (~ v.is_copied => p \in sqes /\ slots[p][v.sq_entry] = v.id)
    BY <1>2, <1>4, <1>10, <2>2 DEF IInv, HeldOnce
  <2> QED BY <1>1, <1>9, <2>1, <2>2 DEF HeldOnce
<1>13. CopyingHeld'
  <2>1. ASSUME NEW p \in SQs, copying'[p] # Idle PROVE copying'[p].w \in works'[p] /\ ~ copying'[p].w.is_copied
    <3>1. CASE p # q
      BY <1>6, <1>7, <2>1, <3>1 DEF IInv, CopyingHeld
    <3>2. CASE p = q
      BY <1>2, <1>6, <1>7, <2>1, <3>2
    <3> QED BY <3>1, <3>2
  <2> QED BY <2>1 DEF CopyingHeld, Idle, NoWork
<1>14. DataCurrent'
  <2>1. ASSUME NEW i \in completed, NEW l \in Lbas, Changes(i, l)' PROVE AtLeast(i, l)'
    <3>1. Changes(i, l) /\ i \in DOMAIN cmds
      BY <1>1, <2>1 DEF IInv, Types, Changes
    <3> QED BY <1>1, <1>2, <1>5, <3>1, StaysCurrent DEF IInv, DataCurrent
  <2>2. ASSUME NEW p \in SQs, NEW v \in works'[p], NEW l \in cmds[v.id].lbas, DoneFor(p, v, l)'
        PROVE  AtLeast(v.id, l)'
    <3>1. v.id \in DOMAIN cmds /\ l \in Lbas
      <4>1. v.id \in DOMAIN cmds
        BY <1>9, <1>12, <2>2 DEF HeldOnce, Open
      <4> QED BY <4>1, CommandNumbers DEF Commands
    <3>2. CASE v.id = w.id /\ p = q /\ l = next_block(q) /\ cmds[w.id].op = "write"
      BY <1>1, <1>5, <3>1, <3>2 DEF AtLeast
    <3>3. CASE \E u \in works[p] : u.id = v.id /\ DoneFor(p, u, l)
      <4>1. AtLeast(v.id, l)
        BY <3>3, <2>2 DEF IInv, DataCurrent
      <4> QED BY <1>1, <1>2, <1>5, <3>1, <4>1, StaysCurrent
    <3>4. ASSUME cmds[v.id].op # "reset"
          PROVE  \/ v.id = w.id /\ p = q /\ l = next_block(q) /\ cmds[w.id].op = "write"
                 \/ \E u \in works[p] : u.id = v.id /\ DoneFor(p, u, l)
      <4>1. /\ cmds[v.id].op = "write"
            /\ v.is_copied \/ (copying'[p] # Idle /\ copying'[p].w = v /\ l \notin copying'[p].left)
        BY <1>1, <2>2, <3>4 DEF DoneFor, Idle, NoWork
      <4>2. CASE p # q
        BY <1>6, <1>7, <4>1, <4>2 DEF DoneFor
      <4>3. CASE p = q /\ v \in works[q] /\ v.is_copied
        BY <4>1, <4>3 DEF DoneFor
      <4>4. CASE p = q /\ ~ (v \in works[q] /\ v.is_copied)
        <5>1. v.id = w.id /\ l \notin left
          <6>1. CASE v = marked /\ left = {}
            BY <1>4, <6>1
          <6>2. CASE v \in works[q] /\ ~ v.is_copied
            BY <1>6, <4>1, <4>4, <6>2
          <6> QED BY <1>10, <4>4, <2>2, <6>1, <6>2
        <5>2. l = next_block(q) \/ l \notin copying[q].left
          BY <5>1
        <5> QED BY <1>1, <1>2, <4>1, <4>4, <5>1, <5>2 DEF DoneFor
      <4> QED BY <4>2, <4>3, <4>4
    <3>5. ASSUME cmds[v.id].op = "reset" PROVE \E u \in works[p] : u.id = v.id /\ DoneFor(p, u, l)
      BY <1>2, <1>4, <1>10, <2>2, <3>5 DEF DoneFor
    <3> QED BY <3>2, <3>3, <3>4, <3>5
  <2> QED BY <1>1, <2>1, <2>2 DEF DataCurrent
<1> QED BY <1>8, <1>9, <1>11, <1>12, <1>13, <1>14 DEF IInv

\* A copied request is completed: what it did is in place, or something newer.
LEMMA StepFill ==
    ASSUME IInv, NEW q \in SQs, NEW w \in works[q], fill_cq_result(q, w)
    PROVE  IInv'
<1>1. /\ copying[q] = Idle /\ w.is_copied
      /\ works' = [works EXCEPT ![q] = @ \ {w}]
      /\ completed' = completed \cup {w.id}
      /\ UNCHANGED <<slots, tail, head, sqes, copying, storage, cmds, gone, refused, deletes>>
  BY DEF fill_cq_result, ready_to_complete
<1>2. /\ w.id \in DOMAIN cmds /\ cmds[w.id].sq = q
      /\ \A v \in works[q] : v.id = w.id => v = w
  BY DEF IInv, HeldOnce, Open
<1>3. /\ \A p \in SQs : works'[p] \subseteq works[p] /\ (p # q => works'[p] = works[p])
      /\ works'[q] = works[q] \ {w}
      /\ works' \in [SQs -> SUBSET Works]
  BY <1>1 DEF IInv, Types
<1>4. Types'
  BY <1>1, <1>2, <1>3 DEF IInv, Types
<1>5. PastSeen'
  BY <1>1 DEF IInv, PastSeen
<1>6. \A p \in SQs : Open(p)' = Open(p) \ {w.id} /\ (p # q => w.id \notin Open(p))
  BY <1>1, <1>2 DEF Open
<1>7. QueuedOnce'
  <2>1. \A p \in SQs : Queued(p)' = Queued(p)
    BY <1>1 DEF Queued
  <2>2. q \in sqes => \A i \in Queued(q) : slots[q][i] # w.id
    BY DEF IInv, QueuedOnce
  <2> sqes \subseteq SQs
    BY DEF IInv, Types
  <2> QED BY <1>1, <1>3, <1>6, <2>1, <2>2 DEF IInv, QueuedOnce
<1>8. HeldOnce'
  BY <1>1, <1>2, <1>3, <1>6 DEF IInv, HeldOnce
<1>9. CopyingHeld'
  <2>1. ASSUME NEW p \in SQs, copying[p] # Idle PROVE copying[p].w \in works'[p] /\ ~ copying[p].w.is_copied
    BY <1>1, <1>3, <2>1 DEF IInv, CopyingHeld
  <2> QED BY <1>1, <2>1 DEF CopyingHeld, Idle, NoWork
<1>10. DataCurrent'
  <2>1. ASSUME NEW i \in completed', NEW l \in Lbas, Changes(i, l)' PROVE AtLeast(i, l)'
    <3>1. CASE i \in completed
      BY <1>1, <2>1, <3>1 DEF IInv, DataCurrent, Changes, AtLeast
    <3>2. CASE i = w.id
      <4>1. l \in cmds[w.id].lbas /\ DoneFor(q, w, l)
        BY <1>1, <2>1, <3>2 DEF Changes, DoneFor
      <4> QED BY <1>1, <3>2, <4>1 DEF IInv, DataCurrent, AtLeast
    <3> QED BY <1>1, <2>1, <3>1, <3>2
  <2>2. ASSUME NEW p \in SQs, NEW v \in works'[p], NEW l \in cmds[v.id].lbas, DoneFor(p, v, l)'
        PROVE  AtLeast(v.id, l)'
    <3>1. v \in works[p] /\ DoneFor(p, v, l)
      BY <1>1, <1>3, <2>2 DEF DoneFor, Idle, NoWork
    <3> QED BY <1>1, <2>2, <3>1 DEF IInv, DataCurrent, AtLeast
  <2> QED BY <1>1, <2>1, <2>2 DEF DataCurrent
<1> QED BY <1>4, <1>5, <1>7, <1>8, <1>9, <1>10 DEF IInv

(***************************************************************************)
(* The theorems.                                                           *)
(***************************************************************************)
\* The invariant holds in every state.
THEOREM Invariance == ASSUME PromptCopy PROVE Spec => []IInv
<1>1. Init => IInv
  <2> SUFFICES ASSUME Init PROVE IInv
    OBVIOUS
  <2>1. 0 \in Ring /\ 0 \in 0 .. MaxCmds /\ Between(0, 0) = {}
    BY DataAssumption DEF Ring, Between
  <2>2. Types
    <3>1. cmds = <<>> /\ cmds \in Seq(Commands) /\ Len(cmds) = 0 /\ DOMAIN cmds = {}
      BY DEF Init
    <3>2. Idle \in [w : Works, left : SUBSET Lbas]
      BY <2>1 DEF Idle, NoWork, Works
    <3> QED BY <2>1, <3>1, <3>2, DataAssumption DEF Init, Types
  <2>3. \A q \in SQs : Queued(q) = {} /\ works[q] = {}
    BY <2>1 DEF Init, Queued
  <2> QED BY <2>2, <2>3 DEF Init, IInv, PastSeen, QueuedOnce, HeldOnce, CopyingHeld, DataCurrent
<1>2. IInv /\ [Next]_vars => IInv'
  <2> SUFFICES ASSUME IInv, [Next]_vars PROVE IInv'
    OBVIOUS
  <2>1. CASE Next
    BY <2>1, StepSubmit, StepDispatch, StepQueues, StepPerform, StepCopy, StepFill DEF Next
  <2>2. CASE UNCHANGED vars
    BY <2>2 DEF vars, IInv, Types, PastSeen, QueuedOnce, HeldOnce, CopyingHeld, DataCurrent, Open,
       Queued, Changes, AtLeast, DoneFor, Idle, NoWork
  <2> QED BY <2>1, <2>2
<1> QED BY <1>1, <1>2, PTL DEF Spec

\* A read returns nothing older than what was completed before it was sent,
\* however dispatch, copies and completions of the queues interleave.
THEOREM ReadsReturnCurrent == ASSUME PromptCopy PROVE Spec => ReadsCurrent
<1> DEFINE Current == \A q \in SQs :
              LET r == copying[q].w.id
                  l == next_block(q)
                  w == storage[l]
              IN  copying[q] # Idle /\ copying'[q] # copying[q] /\ cmds[r].op = "read" =>
                     ~ \E i \in cmds[r].before :
                          Changes(i, l) /\ i # w /\ (w = 0 \/ w \in cmds[i].before)
<1>1. IInv => Current
  <2> SUFFICES ASSUME IInv, NEW q \in SQs, copying[q] # Idle,
                      NEW i \in cmds[copying[q].w.id].before, Changes(i, next_block(q))
               PROVE  AtLeast(i, next_block(q))
    BY DEF AtLeast
  <2>1. copying[q].w.id \in DOMAIN cmds
    BY DEF IInv, CopyingHeld, HeldOnce, Open
  <2>2. i \in completed /\ i \in DOMAIN cmds
    BY <2>1 DEF IInv, PastSeen, Types
  <2>3. next_block(q) \in Lbas
    BY <2>2, CommandNumbers DEF Changes, Commands
  <2> QED BY <2>2, <2>3 DEF IInv, DataCurrent
<1>2. IInv /\ [Next]_vars => [Current]_vars
  BY <1>1
<1> QED BY <1>2, Invariance, PTL DEF Spec, ReadsCurrent

(***************************************************************************)
(* Numbers: least elements, bounds and Max().                              *)
(***************************************************************************)
\* A set of naturals has a least element.
LEMMA LeastNumber ==
    ASSUME NEW T \in SUBSET Nat, T # {}
    PROVE  \E x \in T : \A y \in T : x <= y
<1> DEFINE R == OpToRel(<, Nat)
<1>1. IsWellFoundedOn(R, Nat)
  BY NatLessThanWellFounded
<1>2. \A x, y \in Nat : y < x => <<y, x>> \in R
  BY DEF OpToRel
<1> HIDE DEF R
<1>3. PICK x \in T : \A y \in T : ~ (<<y, x>> \in R)
  BY <1>1, WFMin
<1>4. \A y \in T : ~ (y < x)
  BY <1>2, <1>3
<1> QED BY <1>4

\* Max() of numbers that have a bound is one of them, and none is greater.
LEMMA Greatest ==
    ASSUME NEW S, S \subseteq Int, S # {}, NEW b \in Int, \A x \in S : x <= b
    PROVE  Max(S) \in S /\ \A x \in S : x <= Max(S)
<1> DEFINE T == {b - x : x \in S}
<1>1. T \in SUBSET Nat /\ T # {}
  <2>1. \A x \in S : x \in Int /\ b - x \in Nat
    OBVIOUS
  <2> QED BY <2>1
<1>2. PICK t \in T : \A u \in T : t <= u
  BY <1>1, LeastNumber
<1>3. PICK x \in S : t = b - x
  BY <1>2
<1>4. \A y \in S : x >= y
  <2>1. SUFFICES ASSUME NEW y \in S PROVE x >= y
    OBVIOUS
  <2>2. b - x <= b - y
    BY <1>2, <1>3
  <2> QED BY <2>2
<1>5. \E z \in S : \A y \in S : z >= y
  BY <1>4
<1> DEFINE m == CHOOSE z \in S : \A y \in S : z >= y
<1>6. m \in S /\ \A y \in S : m >= y
  BY <1>5
<1>7. Max(S) = m
  BY DEF Max
<1> HIDE DEF m
<1> QED BY <1>6, <1>7

\* The greater of two numbers.
LEMMA MaxOfTwo ==
    ASSUME NEW a \in Int, NEW b \in Int
    PROVE  Max({a, b}) = IF a >= b THEN a ELSE b
<1>1. \E x \in {a, b} : \A y \in {a, b} : x >= y
  OBVIOUS
<1> QED BY <1>1 DEF Max

\* The smaller of two numbers.
LEMMA MinOfTwo ==
    ASSUME NEW a \in Int, NEW b \in Int
    PROVE  Min({a, b}) = IF a <= b THEN a ELSE b
<1>1. \E x \in {a, b} : \A y \in {a, b} : x <= y
  OBVIOUS
<1> QED BY <1>1 DEF Min

\* Finitely many numbers have a bound.
LEMMA HasBound ==
    ASSUME NEW n \in Nat, NEW f \in [0 .. n -> Nat]
    PROVE  \E b \in Nat : \A i \in 0 .. n : f[i] <= b
<1> DEFINE Fails == {m \in 0 .. n : ~ \E b \in Nat : \A i \in 0 .. m : f[i] <= b}
<1>1. SUFFICES Fails = {}
  <2>1. n \in 0 .. n
    OBVIOUS
  <2> QED BY <2>1
<1>2. SUFFICES ASSUME Fails # {} PROVE FALSE
  OBVIOUS
<1>3. PICK m \in Fails : \A k \in Fails : m <= k
  <2>1. Fails \in SUBSET Nat
    OBVIOUS
  <2> HIDE DEF Fails
  <2> QED BY <1>2, <2>1, LeastNumber
<1>4. m \in 0 .. n /\ ~ \E b \in Nat : \A i \in 0 .. m : f[i] <= b
  BY <1>3
<1>5. m # 0
  <2>1. SUFFICES ASSUME m = 0 PROVE FALSE
    OBVIOUS
  <2>2. f[0] \in Nat /\ \A i \in 0 .. m : f[i] <= f[0]
    BY <2>1
  <2> QED BY <1>4, <2>2
<1>6. m - 1 \in 0 .. n /\ m - 1 \notin Fails
  <2>1. m - 1 \in 0 .. n /\ ~ (m <= m - 1)
    BY <1>4, <1>5
  <2> HIDE DEF Fails
  <2> QED BY <1>3, <2>1
<1>7. PICK b \in Nat : \A i \in 0 .. m - 1 : f[i] <= b
  BY <1>6
<1>8. f[m] \in Nat /\ \A i \in 0 .. m : f[i] \in Nat /\ (i = m \/ i \in 0 .. m - 1)
  BY <1>4
<1>9. CASE f[m] <= b
  <2>1. \A i \in 0 .. m : f[i] <= b
    BY <1>7, <1>8, <1>9
  <2> QED BY <1>4, <2>1
<1>10. CASE b <= f[m]
  <2>1. \A i \in 0 .. m : f[i] <= f[m]
    BY <1>7, <1>8, <1>10
  <2> QED BY <1>4, <1>8, <2>1
<1> QED BY <1>8, <1>9, <1>10

\* Multiples of a positive number keep the order.
LEMMA MulOrder ==
    ASSUME NEW n \in Nat \ {0}, NEW a \in Int, NEW b \in Int
    PROVE  /\ a * n \in Int
           /\ a <= b => a * n <= b * n
           /\ a < b => a * n + n <= b * n
<1>1. \A d \in Nat : d * n \in Nat
  OBVIOUS
<1>2. (b - a) * n = b * n - a * n /\ (b - a - 1) * n = b * n - a * n - n /\ a * n \in Int /\ b * n \in Int
  OBVIOUS
<1>3. a <= b => b - a \in Nat
  OBVIOUS
<1>4. a < b => b - a - 1 \in Nat
  OBVIOUS
<1> DEFINE x == a * n
           y == b * n
           p == (b - a) * n
           q == (b - a - 1) * n
<1>5. (a <= b => p \in Nat) /\ (a < b => q \in Nat) /\ p = y - x /\ q = y - x - n /\ x \in Int /\ y \in Int
  BY <1>1, <1>2, <1>3, <1>4
<1> HIDE DEF x, y, p, q
<1>6. x \in Int /\ (a <= b => x <= y) /\ (a < b => x + n <= y)
  BY <1>5
<1> QED BY <1>6 DEF x, y

\* Division with remainder.
LEMMA Division ==
    ASSUME NEW n \in Nat \ {0}, NEW a \in Nat
    PROVE  \E d \in Nat : \E m \in 0 .. n - 1 : d = a \div n /\ m = a % n /\ a = d * n + m
<1> DEFINE d == a \div n
           m == a % n
<1>1. d \in Nat /\ m \in 0 .. n - 1 /\ d = a \div n /\ m = a % n
  OBVIOUS
<1> HIDE DEF d, m
<1>2. a = d * n + m
  BY <1>1
<1> QED BY <1>1, <1>2

\* Quotient and remainder are unique.
LEMMA DivMod ==
    ASSUME NEW n \in Nat \ {0}, NEW q \in Nat, NEW r \in 0 .. n - 1
    PROVE  (q * n + r) \div n = q /\ (q * n + r) % n = r
<1> DEFINE a == q * n + r
<1>1. q * n \in Nat /\ a \in Nat
  OBVIOUS
<1> HIDE DEF a
<1>2. PICK d \in Nat : \E m \in 0 .. n - 1 : d = a \div n /\ m = a % n /\ a = d * n + m
  BY <1>1, Division
<1>3. PICK m \in 0 .. n - 1 : d = a \div n /\ m = a % n /\ a = d * n + m
  BY <1>2
<1>4. /\ q < d => q * n + n <= d * n
      /\ d < q => d * n + n <= q * n
      /\ d * n \in Int /\ q * n \in Int
  BY <1>3, MulOrder
<1> DEFINE x == q * n
           y == d * n
<1>5. /\ q < d => x + n <= y
      /\ d < q => y + n <= x
      /\ x \in Int /\ y \in Int /\ x + r = y + m
  BY <1>3, <1>4 DEF a
<1> HIDE DEF x, y
<1>6. d = q
  BY <1>3, <1>5
<1>7. m = r
  <2>1. x = y
    BY <1>6 DEF x, y
  <2> QED BY <1>3, <1>5, <2>1
<1> QED BY <1>3, <1>6, <1>7 DEF a

(***************************************************************************)
(* The walk over the pages of a transfer (PrpWalk).  Page k of the buffer, *)
(* counted from 0, begins with unit Start(k) of the data; its entry is the *)
(* address from which on it belongs to the buffer.                         *)
(***************************************************************************)
Nr == Len(cmd.pages)
Off == offs(cmd.prp1)
FirstOff(k) == IF k = 0 THEN Off ELSE 0
Start(k) == k * PAGE_SIZE + FirstOff(k) - Off
Rest(k) == IF Start(k) >= cmd.length THEN 0 ELSE cmd.length - Start(k)
Entry(k) == cmd.pages[k + 1] * PAGE_SIZE + FirstOff(k)

\* the w pages from page k on are adjacent in memory
Adjacent(k, w) == \A m \in 0 .. w - 1 : Entry(k + m) = Entry(k) + m * PAGE_SIZE

\* the command describes its buffer
PrpShape ==
    /\ cmd # None
    /\ cmd.length \in Nat \ {0}
    /\ cmd.pages \in Seq(Frames) /\ Nr > 0
    /\ Off \in 0 .. PAGE_SIZE - 1
    /\ cmd.prp1 = Entry(0)
    /\ \A k \in Nat : k * PAGE_SIZE < Off + cmd.length <=> k < Nr
    /\ Nr = 2 => cmd.prp2 = Entry(1)
    /\ Nr > 2 => \A k \in 1 .. Nr - 1 : cmd.list[k - 1] = Entry(k)

\* what was exchanged went to its place
Placed(c) == c \in Seq(Int) /\ \A i \in 1 .. Len(c) : c[i] = buffer_addr(i)
InPlace == Placed(copied)

\* the DMA variant has collected the first n entries
Listed(n) == paddr_list \in Seq(Int) /\ Len(paddr_list) = n /\ \A i \in 1 .. n : paddr_list[i] = Entry(i - 1)

PrpInv ==
    cmd # None =>
        /\ PrpShape
        /\ InPlace
        /\ \/ /\ how = "copy"
              /\ prp_offs \in 0 .. Nr /\ remaining = Rest(prp_offs)
              /\ Len(copied) + remaining = cmd.length
           \/ /\ how = "collect"
              /\ prp_offs \in 0 .. Nr /\ remaining = Rest(prp_offs)
              /\ Len(copied) = 0 /\ Listed(prp_offs)
           \/ /\ how = "move"
              /\ prp_offs \in 1 .. Nr + 1 /\ remaining = Rest(prp_offs - 1)
              /\ Len(copied) + remaining = cmd.length /\ Listed(Nr)

\* the units of w pages from page k on that belong to the buffer
Span(k, w) == w * PAGE_SIZE - FirstOff(k)

\* A multiple of the page size below the page size is 0.
LEMMA NoMultiple ==
    ASSUME NEW z \in Int, z * PAGE_SIZE \in 0 .. PAGE_SIZE - 1
    PROVE  z * PAGE_SIZE = 0
<1>1. PAGE_SIZE \in Nat \ {0}
  BY PrpAssumption
<1>2. /\ 0 < z => 0 * PAGE_SIZE + PAGE_SIZE <= z * PAGE_SIZE
      /\ z < 0 => z * PAGE_SIZE + PAGE_SIZE <= 0 * PAGE_SIZE
  BY <1>1, MulOrder
<1> DEFINE x == z * PAGE_SIZE
<1>3. x \in 0 .. PAGE_SIZE - 1 /\ ~ (0 < z) /\ ~ (z < 0)
  <2>1. x \in 0 .. PAGE_SIZE - 1 /\ (0 < z => PAGE_SIZE <= x) /\ (z < 0 => x + PAGE_SIZE <= 0)
    BY <1>1, <1>2
  <2> HIDE DEF x
  <2> QED BY <1>1, <2>1
<1>4. z = 0
  BY <1>3
<1> QED BY <1>1, <1>4

\* Types of what is derived from a command.
LEMMA PageTypes ==
    ASSUME PrpShape
    PROVE  /\ PAGE_SIZE \in Nat \ {0} /\ Nr \in Nat \ {0} /\ cmd.length \in Nat \ {0}
           /\ Off \in 0 .. PAGE_SIZE - 1
           /\ \A k \in Nat : /\ k * PAGE_SIZE \in Nat /\ Start(k) \in Int
                             /\ FirstOff(k) \in 0 .. PAGE_SIZE - 1
           /\ \A k \in 0 .. Nr - 1 : /\ cmd.pages[k + 1] \in Nat
                                     /\ cmd.pages[k + 1] * PAGE_SIZE \in Nat
                                     /\ Entry(k) \in Nat
<1>1. /\ PAGE_SIZE \in Nat \ {0} /\ Nr \in Nat \ {0} /\ cmd.length \in Nat \ {0}
      /\ Off \in 0 .. PAGE_SIZE - 1 /\ cmd.pages \in Seq(Frames)
  BY PrpAssumption DEF PrpShape, Nr
<1>2. \A k \in Nat : FirstOff(k) \in 0 .. PAGE_SIZE - 1
  BY <1>1 DEF FirstOff
<1>3. \A k \in Nat : k * PAGE_SIZE \in Nat
  BY <1>1
<1>4. \A k \in Nat : Start(k) \in Int
  BY <1>1, <1>2, <1>3 DEF Start
<1>5. \A k \in 0 .. Nr - 1 : cmd.pages[k + 1] \in Nat
  BY <1>1, PrpAssumption DEF Nr, Frames
<1>6. \A k \in 0 .. Nr - 1 : cmd.pages[k + 1] * PAGE_SIZE \in Nat
  BY <1>3, <1>5
<1>7. \A k \in 0 .. Nr - 1 : Entry(k) \in Nat
  <2>1. SUFFICES ASSUME NEW k \in 0 .. Nr - 1 PROVE Entry(k) \in Nat
    OBVIOUS
  <2>2. cmd.pages[k + 1] * PAGE_SIZE \in Nat /\ FirstOff(k) \in Nat
    <3>1. k \in Nat
      BY <1>1
    <3>2. FirstOff(k) \in Nat
      BY <1>1, <1>2, <3>1
    <3> QED BY <1>6, <3>2
  <2> QED BY <2>2 DEF Entry
<1> QED BY <1>1, <1>2, <1>3, <1>4, <1>5, <1>6, <1>7

\* Data is left exactly while pages are left.
LEMMA PagesLeft ==
    ASSUME PrpShape, NEW k \in 0 .. Nr
    PROVE  /\ Rest(k) \in Nat
           /\ Rest(k) > 0 <=> k < Nr
           /\ k < Nr => Rest(k) = cmd.length - Start(k) /\ Start(k) >= 0
<1>1. /\ PAGE_SIZE \in Nat \ {0} /\ Nr \in Nat \ {0} /\ cmd.length \in Nat \ {0}
      /\ Off \in 0 .. PAGE_SIZE - 1
      /\ k * PAGE_SIZE \in Nat /\ Start(k) \in Int /\ k \in Nat
  BY PageTypes
<1>2. k * PAGE_SIZE < Off + cmd.length <=> k < Nr
  BY <1>1 DEF PrpShape
<1>3. k # 0 => k * PAGE_SIZE >= PAGE_SIZE
  <2>1. 0 < k => 0 * PAGE_SIZE + PAGE_SIZE <= k * PAGE_SIZE
    BY <1>1, MulOrder
  <2> QED BY <1>1, <2>1
<1> DEFINE x == k * PAGE_SIZE
<1>4. Start(k) = IF k = 0 THEN 0 ELSE x - Off
  <2>1. 0 * PAGE_SIZE = 0
    BY <1>1
  <2> QED BY <1>1, <2>1 DEF Start, FirstOff
<1>5. x \in Nat /\ (x < Off + cmd.length <=> k < Nr) /\ (k # 0 => x >= PAGE_SIZE)
  BY <1>1, <1>2, <1>3
<1> HIDE DEF x
<1> QED BY <1>1, <1>4, <1>5 DEF Rest

\* Moving on by w pages takes what belongs to the buffer of them, or the rest.
LEMMA Advance ==
    ASSUME PrpShape, NEW k \in 0 .. Nr - 1, NEW w \in Nat \ {0}, k + w <= Nr
    PROVE  /\ Span(k, w) \in Nat
           /\ Rest(k + w) = IF Rest(k) <= Span(k, w) THEN 0 ELSE Rest(k) - Span(k, w)
<1>1. /\ PAGE_SIZE \in Nat \ {0} /\ Nr \in Nat \ {0} /\ cmd.length \in Nat \ {0}
      /\ Off \in 0 .. PAGE_SIZE - 1 /\ FirstOff(k) \in 0 .. PAGE_SIZE - 1
      /\ k * PAGE_SIZE \in Nat /\ w * PAGE_SIZE \in Nat /\ (k + w) * PAGE_SIZE \in Nat
  BY PageTypes
<1>2. (k + w) * PAGE_SIZE = k * PAGE_SIZE + w * PAGE_SIZE
  BY <1>1
<1>3. FirstOff(k + w) = 0
  BY DEF FirstOff
<1>4. w * PAGE_SIZE >= PAGE_SIZE
  <2>1. 0 < w => 0 * PAGE_SIZE + PAGE_SIZE <= w * PAGE_SIZE
    BY <1>1, MulOrder
  <2> QED BY <1>1, <2>1
<1>5. k \in 0 .. Nr /\ k < Nr /\ k + w \in 0 .. Nr
  BY <1>1
<1>6. Rest(k) = cmd.length - Start(k) /\ Rest(k) > 0 /\ Start(k) >= 0
  BY <1>5, PagesLeft
<1> DEFINE x == k * PAGE_SIZE
           y == w * PAGE_SIZE
           z == (k + w) * PAGE_SIZE
<1>7. /\ x \in Nat /\ y \in Nat /\ z = x + y /\ y >= PAGE_SIZE
      /\ Start(k) = x + FirstOff(k) - Off /\ Start(k + w) = z + 0 - Off /\ Span(k, w) = y - FirstOff(k)
  BY <1>1, <1>2, <1>3, <1>4 DEF Start, Span
<1> HIDE DEF x, y, z
<1>8. Span(k, w) \in Nat /\ Start(k + w) = Start(k) + Span(k, w) /\ Start(k) \in Int
  BY <1>1, <1>7
<1>9. Rest(k + w) = IF Start(k + w) >= cmd.length THEN 0 ELSE cmd.length - Start(k + w)
  BY DEF Rest
<1> QED BY <1>1, <1>6, <1>8, <1>9

\* w adjacent pages from page k on hold the data from Start(k) on, in order.
LEMMA Transfer ==
    ASSUME PrpShape, NEW k \in 0 .. Nr - 1, NEW w \in Nat \ {0}, k + w <= Nr,
           Adjacent(k, w),
           NEW j \in Nat, j < Span(k, w)
    PROVE  buffer_addr(Start(k) + j + 1) = Entry(k) + j
<1>1. /\ PAGE_SIZE \in Nat \ {0} /\ Nr \in Nat \ {0}
      /\ Off \in 0 .. PAGE_SIZE - 1 /\ FirstOff(k) \in 0 .. PAGE_SIZE - 1
      /\ k * PAGE_SIZE \in Nat /\ w * PAGE_SIZE \in Nat
  BY PageTypes
<1> DEFINE o == FirstOff(k)
           a == o + j
<1>2. o \in 0 .. PAGE_SIZE - 1 /\ a \in Nat /\ a < w * PAGE_SIZE
  <2> DEFINE y == w * PAGE_SIZE
  <2>1. j < y - o /\ y \in Nat /\ o \in 0 .. PAGE_SIZE - 1
    BY <1>1 DEF Span
  <2> HIDE DEF y, o
  <2>2. a \in Nat /\ a < y
    BY <1>1, <2>1
  <2> QED BY <2>1, <2>2 DEF y
<1> HIDE DEF o, a
<1>3. PICK d \in Nat : \E m \in 0 .. PAGE_SIZE - 1 : d = a \div PAGE_SIZE /\ m = a % PAGE_SIZE /\ a = d * PAGE_SIZE + m
  BY <1>1, <1>2, Division
<1>4. PICK m \in 0 .. PAGE_SIZE - 1 : a = d * PAGE_SIZE + m
  BY <1>3
<1>5. d < w
  <2>1. w <= d => w * PAGE_SIZE <= d * PAGE_SIZE
    BY <1>1, MulOrder
  <2> DEFINE y == w * PAGE_SIZE
             x == d * PAGE_SIZE
  <2>2. x \in Nat /\ y \in Nat /\ (w <= d => y <= x) /\ a < y /\ a = x + m
    BY <1>1, <1>2, <1>4, <2>1
  <2> HIDE DEF x, y
  <2>3. ~ (w <= d)
    BY <1>1, <1>4, <2>2
  <2> QED BY <2>3
<1> DEFINE i == Start(k) + j + 1
           at == Off + i - 1
<1>6. at = (k + d) * PAGE_SIZE + m
  <2>1. Start(k) = k * PAGE_SIZE + o - Off /\ (k + d) * PAGE_SIZE = k * PAGE_SIZE + d * PAGE_SIZE
    BY <1>1 DEF Start, o
  <2> DEFINE x == k * PAGE_SIZE
             y == d * PAGE_SIZE
             z == (k + d) * PAGE_SIZE
  <2>2. Start(k) = x + o - Off /\ z = x + y /\ x \in Nat /\ y \in Nat /\ o + j = y + m
    BY <1>1, <1>4, <2>1 DEF a
  <2> HIDE DEF x, y, z
  <2>3. at = z + m
    BY <1>1, <1>2, <2>2
  <2> QED BY <2>3 DEF z
<1> HIDE DEF i
<1>7. at \div PAGE_SIZE = k + d /\ at % PAGE_SIZE = m
  <2>1. k + d \in Nat
    BY <1>1
  <2>2. ((k + d) * PAGE_SIZE + m) \div PAGE_SIZE = k + d /\ ((k + d) * PAGE_SIZE + m) % PAGE_SIZE = m
    BY <1>1, <2>1, DivMod
  <2> QED BY <1>6, <2>2
<1>8. buffer_addr(i) = cmd.pages[1 + at \div PAGE_SIZE] * PAGE_SIZE + (at % PAGE_SIZE)
  BY Zenon DEF buffer_addr, Off, offs
<1> HIDE DEF at
<1>9. buffer_addr(Start(k) + j + 1) = cmd.pages[k + d + 1] * PAGE_SIZE + m
  <2>1. 1 + (k + d) = k + d + 1
    BY <1>1
  <2>2. buffer_addr(i) = cmd.pages[1 + (k + d)] * PAGE_SIZE + m
    BY <1>7, <1>8, Zenon
  <2> QED BY <2>1, <2>2, Zenon DEF i
<1>10. Entry(k) = cmd.pages[k + 1] * PAGE_SIZE + o /\ cmd.pages[k + 1] * PAGE_SIZE \in Nat /\ Entry(k) \in Nat
  BY PageTypes DEF Entry, o
<1>11. CASE d = 0
  <2>1. m = a /\ k + d + 1 = k + 1
    BY <1>1, <1>2, <1>4, <1>11
  <2> DEFINE x == cmd.pages[k + 1] * PAGE_SIZE
  <2>2. buffer_addr(Start(k) + j + 1) = x + m /\ Entry(k) = x + o /\ x \in Nat
    BY <1>9, <1>10, <2>1
  <2> HIDE DEF x
  <2>3. x + m = x + o + j
    BY <1>1, <1>2, <2>1, <2>2 DEF a
  <2> QED BY <2>2, <2>3
<1>12. CASE d # 0
  <2>1. 1 \in 0 .. w - 1 /\ d \in 0 .. w - 1 /\ k + d \in 0 .. Nr - 1 /\ k + 1 \in 0 .. Nr - 1
    BY <1>1, <1>5, <1>12
  <2>2. /\ Entry(k + d) = cmd.pages[k + d + 1] * PAGE_SIZE /\ Entry(k + d) = Entry(k) + d * PAGE_SIZE
        /\ Entry(k + 1) = cmd.pages[k + 1 + 1] * PAGE_SIZE /\ Entry(k + 1) = Entry(k) + 1 * PAGE_SIZE
    <3>1. FirstOff(k + d) = 0 /\ FirstOff(k + 1) = 0
      BY <1>1, <1>12 DEF FirstOff
    <3>2. /\ cmd.pages[k + d + 1] * PAGE_SIZE \in Nat
          /\ cmd.pages[k + 1 + 1] * PAGE_SIZE \in Nat
      BY <2>1, PageTypes
    <3> DEFINE x == cmd.pages[k + d + 1] * PAGE_SIZE
               y == cmd.pages[k + 1 + 1] * PAGE_SIZE
    <3>3. Entry(k + d) = x + 0 /\ Entry(k + 1) = y + 0 /\ x \in Nat /\ y \in Nat
      BY <3>1, <3>2 DEF Entry
    <3> HIDE DEF x, y
    <3>4. Entry(k + d) = x /\ Entry(k + 1) = y
      BY <3>3
    <3> QED BY <2>1, <3>4 DEF x, y, Adjacent
  <2>3. o = 0
    <3> DEFINE p == cmd.pages[k + 1]
               q == cmd.pages[k + 1 + 1]
    <3>1. p \in Nat /\ q \in Nat
      BY <2>1, PageTypes
    <3>2. q * PAGE_SIZE = p * PAGE_SIZE + o + 1 * PAGE_SIZE
      BY <1>10, <2>2
    <3> HIDE DEF p, q
    <3>3. (q - p - 1) * PAGE_SIZE = q * PAGE_SIZE - p * PAGE_SIZE - PAGE_SIZE /\ q - p - 1 \in Int
      BY <1>1, <3>1
    <3>4. (q - p - 1) * PAGE_SIZE = o
      <4> DEFINE x == q * PAGE_SIZE
                 y == p * PAGE_SIZE
      <4>1. x \in Int /\ y \in Int /\ x = y + o + PAGE_SIZE
        BY <1>1, <3>1, <3>2
      <4> HIDE DEF x, y
      <4>2. x - y - PAGE_SIZE = o
        BY <1>1, <1>2, <4>1
      <4> QED BY <3>3, <4>2 DEF x, y
    <3> QED BY <1>2, <3>3, <3>4, NoMultiple
  <2> DEFINE x == d * PAGE_SIZE
  <2>4. buffer_addr(Start(k) + j + 1) = Entry(k) + x + m /\ x \in Nat /\ j = x + m
    BY <1>1, <1>2, <1>4, <1>9, <2>2, <2>3 DEF a
  <2> HIDE DEF x
  <2> QED BY <1>10, <2>4
<1> QED BY <1>11, <1>12

\* What a transfer of min(rest, span) leaves.
LEMMA Left ==
    ASSUME PrpShape, NEW k \in 0 .. Nr - 1, NEW w \in Nat \ {0}, k + w <= Nr
    PROVE  /\ Min({Rest(k), Span(k, w)}) \in Nat
           /\ Min({Rest(k), Span(k, w)}) <= Span(k, w)
           /\ Rest(k) - Min({Rest(k), Span(k, w)}) = Rest(k + w)
           /\ Rest(k) \in Nat /\ Rest(k) = cmd.length - Start(k) /\ Start(k) \in Int
<1>1. k \in 0 .. Nr /\ k < Nr /\ Nr \in Nat /\ Start(k) \in Int
  BY PageTypes
<1>2. Rest(k) \in Nat /\ Rest(k) = cmd.length - Start(k)
  BY <1>1, PagesLeft
<1>3. /\ Span(k, w) \in Nat
      /\ Rest(k + w) = IF Rest(k) <= Span(k, w) THEN 0 ELSE Rest(k) - Span(k, w)
  BY Advance
<1>4. Min({Rest(k), Span(k, w)}) = IF Rest(k) <= Span(k, w) THEN Rest(k) ELSE Span(k, w)
  BY <1>2, <1>3, MinOfTwo
<1>5. CASE Rest(k) <= Span(k, w)
  BY <1>1, <1>2, <1>3, <1>4, <1>5
<1>6. CASE ~ (Rest(k) <= Span(k, w))
  BY <1>1, <1>2, <1>3, <1>4, <1>6
<1> QED BY <1>5, <1>6

\* Where the elements of a concatenation are.
LEMMA Concat ==
    ASSUME NEW c \in Seq(Int), NEW p \in Seq(Int)
    PROVE  /\ c \o p \in Seq(Int) /\ Len(c \o p) = Len(c) + Len(p)
           /\ \A i \in 1 .. Len(c) : (c \o p)[i] = c[i]
           /\ \A i \in 1 .. Len(p) : (c \o p)[Len(c) + i] = p[i]
<1>1. Len(c) \in Nat /\ Len(p) \in Nat
  OBVIOUS
<1>2. c \o p \in Seq(Int) /\ Len(c \o p) = Len(c) + Len(p)
  OBVIOUS
<1>3. \A i \in 1 .. Len(c) : (c \o p)[i] = c[i]
  OBVIOUS
<1>4. ASSUME NEW i \in 1 .. Len(p) PROVE (c \o p)[Len(c) + i] = p[i]
  <2>1. Len(c) + i \in 1 .. Len(c) + Len(p) /\ ~ (Len(c) + i <= Len(c)) /\ Len(c) + i - Len(c) = i
    BY <1>1
  <2> QED BY <2>1
<1> QED BY <1>2, <1>3, <1>4

\* the n addresses from a on
Addresses(p, a, n) == p \in Seq(Int) /\ Len(p) = n /\ \A i \in 1 .. n : p[i] = a + i - 1

\* Unit i of what is exchanged, when it is in the new piece.
LEMMA InPiece ==
    ASSUME NEW l \in Nat, NEW n \in Nat, NEW i \in 1 .. l + n, i > l
    PROVE  \E j \in Nat : j < n /\ j + 1 \in 1 .. n /\ i = l + (j + 1) /\ i = l + j + 1
<1> DEFINE j == i - l - 1
<1>1. j \in Nat /\ j < n /\ j + 1 \in 1 .. n /\ i = l + (j + 1) /\ i = l + j + 1
  OBVIOUS
<1> HIDE DEF j
<1> QED BY <1>1

\* One transfer: the next n units, out of w adjacent pages from page k on, are
\* added to what was exchanged.
LEMMA Exchange ==
    ASSUME PrpShape, NEW k \in 0 .. Nr - 1, NEW w \in Nat \ {0}, k + w <= Nr, Adjacent(k, w),
           NEW c, Placed(c), Len(c) = Start(k),
           NEW n \in Nat, n <= Span(k, w),
           NEW p, Addresses(p, Entry(k), n)
    PROVE  Placed(c \o p) /\ Len(c \o p) = Len(c) + n
<1>1. Entry(k) \in Nat /\ Start(k) \in Int /\ Span(k, w) \in Int
  <2>1. Entry(k) \in Nat
    BY PageTypes
  <2>2. Start(k) \in Int /\ Span(k, w) \in Nat
    BY Left, Advance
  <2> QED BY <2>1, <2>2
<1>2. /\ c \in Seq(Int) /\ p \in Seq(Int) /\ Len(p) = n
      /\ \A i \in 1 .. Len(c) : c[i] = buffer_addr(i)
      /\ \A i \in 1 .. n : p[i] = Entry(k) + i - 1
  BY DEF Placed, Addresses
<1> DEFINE d == c \o p
           l == Len(c)
<1>3. /\ d \in Seq(Int) /\ Len(d) = l + n
      /\ \A i \in 1 .. l : d[i] = c[i]
      /\ \A i \in 1 .. n : d[l + i] = p[i]
  BY <1>2, Concat
<1>4. l \in Nat /\ l = Start(k)
  BY <1>2
<1> HIDE DEF d
<1>5. ASSUME NEW i \in 1 .. Len(d) PROVE d[i] = buffer_addr(i)
  <2>1. i \in 1 .. l + n /\ l \in Nat
    BY <1>3, <1>4
  <2>2. CASE i <= l
    <3>1. i \in 1 .. l
      BY <2>1, <2>2
    <3> QED BY <1>2, <1>3, <3>1
  <2>3. CASE i > l
    <3>1. PICK j \in Nat : j < n /\ j + 1 \in 1 .. n /\ i = l + (j + 1) /\ i = l + j + 1
      BY <2>1, <2>3, InPiece
    <3>2. j < Span(k, w)
      BY <1>1, <3>1
    <3>3. buffer_addr(Start(k) + j + 1) = Entry(k) + j
      BY <3>2, Transfer
    <3>4. d[i] = Entry(k) + (j + 1) - 1
      BY <1>2, <1>3, <3>1
    <3>5. Entry(k) + (j + 1) - 1 = Entry(k) + j
      BY <1>1
    <3> QED BY <1>4, <3>1, <3>3, <3>4, <3>5
  <2> QED BY <2>1, <2>2, <2>3
<1>6. Placed(d)
  BY <1>3, <1>5 DEF Placed
<1> QED BY <1>3, <1>6 DEF d

\* The entry the loop takes is that of the next page: prp1, prp2 or the list.
LEMMA NextEntry ==
    ASSUME PrpShape, NEW k \in 0 .. Nr, prp_offs = k, remaining = Rest(k), remaining > 0
    PROVE  /\ k \in 0 .. Nr - 1
           /\ paddr = Entry(k)
           /\ offs(Entry(k)) = FirstOff(k)
           /\ io_size(Entry(k), remaining) = Min({remaining, Span(k, 1)})
<1>1. k \in 0 .. Nr - 1 /\ Nr \in Nat
  <2>1. Nr \in Nat
    BY PageTypes
  <2>2. Rest(k) > 0 <=> k < Nr
    BY PagesLeft
  <2> QED BY <2>1, <2>2
<1>2. /\ PAGE_SIZE \in Nat \ {0} /\ FirstOff(k) \in 0 .. PAGE_SIZE - 1 /\ cmd.pages[k + 1] \in Nat
      /\ Off \in 0 .. PAGE_SIZE - 1 /\ cmd.length \in Nat
  BY <1>1, PageTypes
<1>3. paddr = Entry(k)
  <2>1. CASE k = 0
    BY <2>1 DEF paddr, PrpShape
  <2>2. CASE k = 1
    <3>1. remaining > PAGE_SIZE <=> 2 < Nr
      <4>1. 2 * PAGE_SIZE < Off + cmd.length <=> 2 < Nr
        BY DEF PrpShape
      <4>2. Start(1) = PAGE_SIZE - Off
        BY <1>2 DEF Start, FirstOff
      <4>3. remaining = cmd.length - (PAGE_SIZE - Off)
        BY <1>1, <2>2, <4>2, PagesLeft
      <4> QED BY <1>2, <4>1, <4>3
    <3>2. CASE 2 < Nr
      <4>1. cmd.list[1 - 1] = Entry(1)
        BY <1>1, <3>2 DEF PrpShape
      <4>2. paddr = cmd.list[0]
        BY <2>2, <3>1, <3>2 DEF paddr, prp2_is_list
      <4> QED BY <2>2, <4>1, <4>2
    <3>3. CASE ~ (2 < Nr)
      <4>1. Nr = 2
        BY <1>1, <2>2, <3>3
      <4>2. paddr = cmd.prp2
        BY <2>2, <3>1, <3>3 DEF paddr, prp2_is_list
      <4> QED BY <2>2, <4>1, <4>2 DEF PrpShape
    <3> QED BY <3>2, <3>3
  <2>3. CASE k > 1
    <3>1. k \in 1 .. Nr - 1 /\ Nr > 2 /\ prp_offs # 0 /\ prp_offs # 1
      BY <1>1, <2>3
    <3>2. paddr = cmd.list[k - 1]
      BY <3>1 DEF paddr
    <3> QED BY <3>1, <3>2 DEF PrpShape
  <2> QED BY <1>1, <2>1, <2>2, <2>3
<1>4. offs(Entry(k)) = FirstOff(k)
  BY <1>2, DivMod DEF offs, Entry
<1>5. Span(k, 1) = PAGE_SIZE - FirstOff(k)
  BY <1>2 DEF Span
<1> QED BY <1>1, <1>3, <1>4, <1>5 DEF io_size

\* A page on its own is a run of one.
LEMMA OnePage ==
    ASSUME PrpShape, NEW k \in 0 .. Nr - 1
    PROVE  Adjacent(k, 1)
<1>1. Entry(k) \in Nat /\ PAGE_SIZE \in Nat /\ k \in Nat /\ k + 0 = k
  BY PageTypes
<1>2. Entry(k + 0) = Entry(k) + 0 * PAGE_SIZE
  BY <1>1
<1>3. \A m \in 0 .. 1 - 1 : m = 0
  OBVIOUS
<1> QED BY <1>2, <1>3 DEF Adjacent

\* The run of adjacent pages that is moved together.
LEMMA Run ==
    ASSUME PrpShape, Listed(Nr), NEW i \in 1 .. Nr
    PROVE  /\ run_end(i) \in i .. Nr
           /\ Adjacent(i - 1, run_end(i) - i + 1)
<1>1. /\ PAGE_SIZE \in Nat \ {0} /\ Nr \in Nat /\ Len(paddr_list) = Nr
      /\ \A j \in 1 .. Nr : paddr_list[j] = Entry(j - 1) /\ j - 1 \in 0 .. Nr - 1
  BY PageTypes DEF Listed
<1> DEFINE Chained(j) == \A k \in i + 1 .. j : paddr_list[k] = paddr_list[k - 1] + PAGE_SIZE
           S == {j \in i .. Len(paddr_list) : Chained(j)}
           e == Max(S)
<1>2. i \in S /\ S \subseteq Int /\ S # {} /\ \A j \in S : j <= Nr
  <2>1. Chained(i) /\ i \in i .. Len(paddr_list)
    BY <1>1
  <2>2. S \subseteq i .. Nr
    BY <1>1
  <2>3. i .. Nr \subseteq Int /\ \A j \in i .. Nr : j <= Nr
    BY <1>1
  <2> HIDE DEF Chained
  <2>4. i \in S
    BY <2>1
  <2> HIDE DEF S
  <2> QED BY <2>2, <2>3, <2>4
<1>3. e \in S
  <2> HIDE DEF S
  <2>1. Nr \in Int
    BY <1>1
  <2> QED BY <1>2, <2>1, Greatest
<1>4. run_end(i) = e
  BY DEF run_end
<1>5. e \in i .. Nr /\ Chained(e)
  BY <1>1, <1>3
<1> HIDE DEF S, e
<1> DEFINE Fails == {m \in 0 .. e - i : ~ (Entry(i - 1 + m) = Entry(i - 1) + m * PAGE_SIZE)}
<1>6. Fails = {}
  <2>1. SUFFICES ASSUME Fails # {} PROVE FALSE
    OBVIOUS
  <2>2. PICK m \in Fails : \A l \in Fails : m <= l
    <3>1. Fails \in SUBSET Nat
      OBVIOUS
    <3> HIDE DEF Fails
    <3> QED BY <2>1, <3>1, LeastNumber
  <2>3. m \in 0 .. e - i /\ ~ (Entry(i - 1 + m) = Entry(i - 1) + m * PAGE_SIZE)
    BY <2>2
  <2>4. i - 1 \in 0 .. Nr - 1 /\ Entry(i - 1) \in Nat /\ i - 1 + 0 = i - 1
    BY <1>1, PageTypes
  <2>5. m # 0
    BY <1>1, <2>3, <2>4
  <2>6. m - 1 \notin Fails /\ m - 1 \in 0 .. e - i
    <3>1. m - 1 \in 0 .. e - i /\ ~ (m <= m - 1)
      BY <1>5, <2>3, <2>5
    <3> HIDE DEF Fails
    <3> QED BY <2>2, <3>1
  <2>7. Entry(i - 1 + (m - 1)) = Entry(i - 1) + (m - 1) * PAGE_SIZE
    BY <2>6
  <2>8. i + m \in i + 1 .. e /\ i + m \in 1 .. Nr /\ i + m - 1 \in 1 .. Nr
    BY <1>1, <1>5, <2>3, <2>5
  <2>9. paddr_list[i + m] = paddr_list[i + m - 1] + PAGE_SIZE
    BY <1>5, <2>8
  <2>10. paddr_list[i + m] = Entry(i + m - 1) /\ paddr_list[i + m - 1] = Entry(i + m - 1 - 1)
    BY <1>1, <2>8
  <2>11. i + m - 1 = i - 1 + m /\ i + m - 1 - 1 = i - 1 + (m - 1)
    BY <1>5, <2>3
  <2>12. Entry(i - 1 + m) = Entry(i - 1) + (m - 1) * PAGE_SIZE + PAGE_SIZE
    BY <2>7, <2>9, <2>10, <2>11
  <2>13. Entry(i - 1) + (m - 1) * PAGE_SIZE + PAGE_SIZE = Entry(i - 1) + m * PAGE_SIZE
    <3> DEFINE x == (m - 1) * PAGE_SIZE
               y == m * PAGE_SIZE
    <3>1. x = y - PAGE_SIZE /\ y \in Int
      BY <1>1, <2>3
    <3> HIDE DEF x, y
    <3>2. Entry(i - 1) + x + PAGE_SIZE = Entry(i - 1) + y
      BY <1>1, <2>4, <3>1
    <3> QED BY <3>2 DEF x, y
  <2> QED BY <2>3, <2>12, <2>13
<1>7. \A m \in 0 .. e - i : Entry(i - 1 + m) = Entry(i - 1) + m * PAGE_SIZE
  BY <1>6
<1>8. e - i + 1 - 1 = e - i
  BY <1>5
<1> QED BY <1>4, <1>5, <1>7, <1>8 DEF Adjacent

\* What is derived from a command stays while the command does.
LEMMA SameCommand ==
    ASSUME cmd' = cmd
    PROVE  /\ PrpShape' <=> PrpShape
           /\ Nr' = Nr
           /\ \A k : Rest(k)' = Rest(k) /\ Entry(k)' = Entry(k) /\ buffer_addr(k)' = buffer_addr(k)
<1>1. Nr' = Nr /\ Off' = Off
  BY DEF Nr, Off
<1>2. \A k : FirstOff(k)' = FirstOff(k)
  BY <1>1 DEF FirstOff
<1>3. \A k : Rest(k)' = Rest(k) /\ Entry(k)' = Entry(k) /\ buffer_addr(k)' = buffer_addr(k)
  BY <1>1, <1>2 DEF Rest, Start, Entry, buffer_addr
<1>4. PrpShape' <=> PrpShape
  BY <1>1, <1>3 DEF PrpShape
<1> QED BY <1>1, <1>3, <1>4

\* the transfer of w pages from page k on, or of what is left in them
TransferOf(k, w) ==
    LET n == Min({Rest(k), Span(k, w)})
    IN  /\ Len(copied) + Rest(k) = cmd.length
        /\ cmd' = cmd
        /\ copied' = exchanged(Entry(k), n)
        /\ remaining' = Rest(k) - n

\* Adjacent pages are transferred to their places in one step.
LEMMA Moved ==
    ASSUME PrpShape, InPlace, NEW k \in 0 .. Nr - 1, NEW w \in Nat \ {0}, k + w <= Nr,
           Adjacent(k, w),
           TransferOf(k, w)
    PROVE  /\ InPlace' /\ remaining' = Rest(k + w)
           /\ Len(copied') + remaining' = cmd.length
<1> DEFINE n == Min({Rest(k), Span(k, w)})
<1>0. /\ Len(copied) + Rest(k) = cmd.length /\ cmd' = cmd
      /\ copied' = exchanged(Entry(k), n) /\ remaining' = Rest(k) - n
  BY DEF TransferOf
<1>1. /\ n \in Nat /\ n <= Span(k, w) /\ Rest(k) - n = Rest(k + w)
      /\ Rest(k) \in Nat /\ Rest(k) = cmd.length - Start(k) /\ Start(k) \in Int /\ cmd.length \in Nat
  <2>1. cmd.length \in Nat
    BY PageTypes
  <2> QED BY <2>1, Left
<1> HIDE DEF n
<1>2. copied \in Seq(Int) /\ Len(copied) \in Nat /\ \A i \in 1 .. Len(copied) : copied[i] = buffer_addr(i)
  BY DEF InPlace, Placed
<1>3. Len(copied) = Start(k)
  <2> DEFINE l == Len(copied)
             r == Rest(k)
             s == Start(k)
             t == cmd.length
  <2>1. l \in Nat /\ r \in Nat /\ s \in Int /\ t \in Nat /\ r = t - s /\ l + r = t
    BY <1>0, <1>1, <1>2
  <2> HIDE DEF l, r, s, t
  <2>2. l = s
    BY <2>1
  <2> QED BY <2>2 DEF l, s
<1>4. copied' = copied \o [i \in 1 .. n |-> Entry(k) + i - 1]
  BY <1>0 DEF exchanged
<1>5. Placed(copied') /\ Len(copied') = Len(copied) + n
  <2> DEFINE p == [i \in 1 .. n |-> Entry(k) + i - 1]
  <2>1. Addresses(p, Entry(k), n)
    <3>1. Entry(k) \in Nat
      BY PageTypes
    <3>2. \A i \in 1 .. n : Entry(k) + i - 1 \in Int
      BY <3>1
    <3> QED BY <1>1, <3>2 DEF Addresses
  <2>2. copied' = copied \o p
    BY <1>4
  <2> HIDE DEF p
  <2>3. Placed(copied)
    BY DEF InPlace
  <2>4. Placed(copied \o p) /\ Len(copied \o p) = Len(copied) + n
    BY <1>1, <1>3, <2>1, <2>3, Exchange
  <2> QED BY <2>2, <2>4
<1>6. InPlace'
  <2>1. copied' \in Seq(Int) /\ \A i \in 1 .. Len(copied') : copied'[i] = buffer_addr(i)
    BY <1>5 DEF Placed
  <2>2. \A i : buffer_addr(i)' = buffer_addr(i)
    BY <1>0, SameCommand
  <2> QED BY <2>1, <2>2 DEF InPlace, Placed
<1>7. Len(copied') + remaining' = cmd.length
  <2> DEFINE l == Len(copied)
             r == Rest(k)
             t == cmd.length
             m == Len(copied')
             q == remaining'
  <2>1. l \in Nat /\ r \in Nat /\ t \in Nat /\ l + r = t /\ n \in Nat /\ m = l + n /\ q = r - n
    BY <1>0, <1>1, <1>2, <1>5
  <2> HIDE DEF l, r, t, m, q
  <2>2. m + q = t
    BY <2>1
  <2> QED BY <2>2 DEF t, m, q
<1> QED BY <1>0, <1>1, <1>6, <1>7

\* The loop of __do_perform_io() moves one page.
LEMMA StepCopyPiece ==
    ASSUME PrpInv, copy_piece
    PROVE  PrpInv'
<1>1. /\ cmd # None /\ how = "copy" /\ remaining > 0 /\ prp_offs' = prp_offs + 1
      /\ copied' = exchanged(paddr, io_size(paddr, remaining))
      /\ remaining' = remaining - io_size(paddr, remaining)
      /\ cmd' = cmd /\ how' = how
  BY DEF copy_piece
<1>2. /\ PrpShape /\ InPlace /\ prp_offs \in 0 .. Nr /\ remaining = Rest(prp_offs)
      /\ Len(copied) + remaining = cmd.length
  BY <1>1 DEF PrpInv
<1> DEFINE k == prp_offs
<1>3. /\ k \in 0 .. Nr - 1 /\ paddr = Entry(k)
      /\ io_size(Entry(k), remaining) = Min({remaining, Span(k, 1)})
  BY <1>1, <1>2, NextEntry
<1>4. k + 1 <= Nr /\ k + 1 \in 0 .. Nr
  <2>1. Nr \in Nat
    BY <1>2, PageTypes
  <2> QED BY <1>3, <2>1
<1>5. Adjacent(k, 1)
  BY <1>2, <1>3, OnePage
<1>6. ASSUME NEW j, j = k
      PROVE  InPlace' /\ remaining' = Rest(j + 1) /\ Len(copied') + remaining' = cmd.length
  <2>1. /\ j \in 0 .. Nr - 1 /\ j + 1 <= Nr
        /\ Adjacent(j, 1)
        /\ TransferOf(j, 1)
    BY <1>1, <1>2, <1>3, <1>4, <1>5, <1>6 DEF TransferOf
  <2> QED BY <1>2, <2>1, Moved
<1>7. /\ InPlace' /\ remaining' = Rest(k + 1) /\ Len(copied') + remaining' = cmd.length
  BY <1>6
<1>8. PrpShape' /\ Nr' = Nr /\ \A i : Rest(i)' = Rest(i)
  BY <1>1, <1>2, SameCommand
<1>9. ASSUME NEW j, j = prp_offs' PROVE remaining' = Rest(j)' /\ j \in 0 .. Nr'
  BY <1>1, <1>4, <1>7, <1>8, <1>9
<1>10. remaining' = Rest(prp_offs)' /\ prp_offs' \in 0 .. Nr'
  BY <1>9 DEF Rest, Start, FirstOff
<1> QED BY <1>1, <1>7, <1>8, <1>10 DEF PrpInv

\* The DMA variant collects one entry.
LEMMA StepCollectPiece ==
    ASSUME PrpInv, collect_piece
    PROVE  PrpInv'
<1>1. /\ cmd # None /\ how = "collect" /\ remaining > 0 /\ prp_offs' = prp_offs + 1
      /\ paddr_list' = Append(paddr_list, paddr)
      /\ remaining' = remaining - io_size(paddr, remaining)
      /\ cmd' = cmd /\ how' = how /\ copied' = copied
  BY DEF collect_piece
<1>2. /\ PrpShape /\ InPlace /\ prp_offs \in 0 .. Nr /\ remaining = Rest(prp_offs)
      /\ Len(copied) = 0 /\ Listed(prp_offs)
  BY <1>1 DEF PrpInv
<1>3. /\ prp_offs \in 0 .. Nr - 1 /\ paddr = Entry(prp_offs)
      /\ io_size(Entry(prp_offs), remaining) = Min({remaining, Span(prp_offs, 1)})
  BY <1>1, <1>2, NextEntry
<1>4. prp_offs + 1 <= Nr /\ prp_offs + 1 \in 0 .. Nr /\ prp_offs \in Nat
  <2>1. Nr \in Nat
    BY <1>2, PageTypes
  <2> QED BY <1>3, <2>1
<1>5. remaining' = Rest(prp_offs + 1)
  <2>1. Rest(prp_offs) - Min({Rest(prp_offs), Span(prp_offs, 1)}) = Rest(prp_offs + 1)
    <3>1. 1 \in Nat \ {0}
      OBVIOUS
    <3>2. ASSUME NEW k, k = prp_offs PROVE Rest(k) - Min({Rest(k), Span(k, 1)}) = Rest(k + 1)
      <4>1. PrpShape /\ k \in 0 .. Nr - 1 /\ k + 1 <= Nr
        BY <1>2, <1>3, <1>4, <3>2
      <4> QED BY <3>1, <4>1, Left
    <3> QED BY <3>2
  <2> QED BY <1>1, <1>2, <1>3, <2>1
<1>6. /\ PrpShape' /\ Nr' = Nr /\ \A i : Rest(i)' = Rest(i) /\ Entry(i)' = Entry(i)
      /\ \A i : buffer_addr(i)' = buffer_addr(i)
  BY <1>1, <1>2, SameCommand
<1>7. InPlace'
  BY <1>1, <1>2, <1>6 DEF InPlace, Placed
<1>8. /\ paddr_list' \in Seq(Int) /\ Len(paddr_list') = prp_offs + 1
      /\ \A i \in 1 .. prp_offs + 1 : paddr_list'[i] = Entry(i - 1)
  <2>1. /\ paddr_list \in Seq(Int) /\ Len(paddr_list) = prp_offs
        /\ \A i \in 1 .. prp_offs : paddr_list[i] = Entry(i - 1)
    BY <1>2 DEF Listed
  <2>2. Entry(prp_offs) \in Int
    BY <1>2, <1>3, PageTypes
  <2>3. paddr_list' = Append(paddr_list, Entry(prp_offs))
    BY <1>1, <1>3
  <2>4. /\ paddr_list' \in Seq(Int) /\ Len(paddr_list') = prp_offs + 1
        /\ \A i \in 1 .. prp_offs : paddr_list'[i] = paddr_list[i]
        /\ paddr_list'[prp_offs + 1] = Entry(prp_offs)
    BY <1>4, <2>1, <2>2, <2>3
  <2>5. ASSUME NEW i \in 1 .. prp_offs + 1 PROVE paddr_list'[i] = Entry(i - 1)
    <3>1. CASE i = prp_offs + 1
      <4>1. i - 1 = prp_offs
        BY <1>4, <3>1
      <4> QED BY <2>4, <3>1, <4>1
    <3>2. CASE i # prp_offs + 1
      <4>1. i \in 1 .. prp_offs
        BY <1>4, <3>2
      <4> QED BY <2>1, <2>4, <4>1
    <3> QED BY <3>1, <3>2
  <2> QED BY <2>4, <2>5
<1>9. ASSUME NEW j, j = prp_offs'
      PROVE  remaining' = Rest(j)' /\ j \in 0 .. Nr' /\ Len(paddr_list') = j
             /\ \A i \in 1 .. j : paddr_list'[i] = Entry(i - 1)'
  BY <1>1, <1>4, <1>5, <1>6, <1>8, <1>9
<1>10. /\ remaining' = Rest(prp_offs)' /\ prp_offs' \in 0 .. Nr' /\ Len(paddr_list') = prp_offs'
       /\ \A i \in 1 .. prp_offs' : paddr_list'[i] = Entry(i - 1)'
  BY <1>9 DEF Rest, Start, FirstOff
<1>11. Listed(prp_offs)'
  BY <1>8, <1>10 DEF Listed
<1> QED BY <1>1, <1>2, <1>6, <1>7, <1>10, <1>11 DEF PrpInv

\* All entries are collected.
LEMMA StepCollected ==
    ASSUME PrpInv, collected
    PROVE  PrpInv'
<1>1. /\ cmd # None /\ how = "collect" /\ remaining = 0 /\ how' = "move" /\ prp_offs' = 1
      /\ remaining' = cmd.length /\ cmd' = cmd /\ paddr_list' = paddr_list /\ copied' = copied
  BY DEF collected
<1>2. /\ PrpShape /\ InPlace /\ prp_offs \in 0 .. Nr /\ remaining = Rest(prp_offs)
      /\ Len(copied) = 0 /\ Listed(prp_offs)
  BY <1>1 DEF PrpInv
<1>3. Nr \in Nat \ {0} /\ cmd.length \in Nat \ {0}
  BY <1>2, PageTypes
<1>4. prp_offs = Nr
  <2>1. Rest(prp_offs) > 0 <=> prp_offs < Nr
    BY <1>2, PagesLeft
  <2> QED BY <1>1, <1>2, <1>3, <2>1
<1>5. Rest(0) = cmd.length
  <2>1. 0 \in 0 .. Nr /\ 0 < Nr
    BY <1>3
  <2>2. Rest(0) = cmd.length - Start(0)
    BY <1>2, <2>1, PagesLeft
  <2>3. Start(0) = 0
    <3>1. PAGE_SIZE \in Nat /\ Off \in Int
      BY <1>2, PageTypes
    <3> QED BY <3>1 DEF Start, FirstOff
  <2> QED BY <1>3, <2>2, <2>3
<1>6. /\ PrpShape' /\ Nr' = Nr /\ \A i : Rest(i)' = Rest(i) /\ Entry(i)' = Entry(i)
      /\ \A i : buffer_addr(i)' = buffer_addr(i)
  BY <1>1, <1>2, SameCommand
<1>7. InPlace'
  BY <1>1, <1>2, <1>6 DEF InPlace, Placed
<1>8. Listed(Nr)'
  BY <1>1, <1>2, <1>4, <1>6 DEF Listed
<1>9. prp_offs' \in 1 .. Nr' + 1 /\ prp_offs' - 1 = 0
  BY <1>1, <1>3, <1>6
<1>10. remaining' = Rest(prp_offs - 1)'
  <2>1. Rest(0)' = cmd.length
    BY <1>5, <1>6
  <2>2. ASSUME NEW j, j = prp_offs' - 1 PROVE remaining' = Rest(j)'
    BY <1>1, <1>9, <2>1, <2>2
  <2> QED BY <2>2 DEF Rest, Start, FirstOff
<1>11. Len(copied') + remaining' = cmd'.length
  BY <1>1, <1>2, <1>3
<1> QED BY <1>1, <1>6, <1>7, <1>8, <1>9, <1>10, <1>11 DEF PrpInv

\* A run of adjacent pages is moved together.
LEMMA StepMoveRun ==
    ASSUME PrpInv, move_run
    PROVE  PrpInv'
<1> DEFINE e == run_end(prp_offs)
           start == paddr_list[prp_offs]
           size == io_size(start, remaining) + (e - prp_offs) * PAGE_SIZE
<1>1. /\ cmd # None /\ how = "move" /\ remaining > 0
      /\ copied' = exchanged(start, Min({remaining, size}))
      /\ remaining' = remaining - Min({remaining, size})
      /\ prp_offs' = e + 1
      /\ cmd' = cmd /\ paddr_list' = paddr_list /\ how' = how
  BY DEF move_run
<1>2. /\ PrpShape /\ InPlace /\ prp_offs \in 1 .. Nr + 1 /\ remaining = Rest(prp_offs - 1)
      /\ Len(copied) + remaining = cmd.length /\ Listed(Nr)
  BY <1>1 DEF PrpInv
<1>3. PICK k : k = prp_offs - 1
  OBVIOUS
<1>4. /\ PAGE_SIZE \in Nat \ {0} /\ Nr \in Nat \ {0} /\ cmd.length \in Nat /\ Off \in 0 .. PAGE_SIZE - 1
      /\ k \in 0 .. Nr /\ remaining = Rest(k)
  <2>1. /\ PAGE_SIZE \in Nat \ {0} /\ Nr \in Nat \ {0} /\ cmd.length \in Nat /\ Off \in 0 .. PAGE_SIZE - 1
    BY <1>2, PageTypes
  <2> QED BY <1>2, <1>3, <2>1
<1>5. k \in 0 .. Nr - 1 /\ prp_offs \in 1 .. Nr /\ prp_offs = k + 1
  <2>1. k < Nr
    BY <1>1, <1>2, <1>4, PagesLeft
  <2> QED BY <1>2, <1>3, <1>4, <2>1
<1>6. e \in prp_offs .. Nr /\ Adjacent(prp_offs - 1, e - prp_offs + 1)
  BY <1>2, <1>5, Run
<1> HIDE DEF e
<1>7. PICK w : w = e - prp_offs + 1
  OBVIOUS
<1>8. w \in Nat \ {0} /\ k + w <= Nr /\ k + w = e /\ Adjacent(k, w) /\ e - prp_offs = w - 1 /\ e + 1 - 1 = k + w
  BY <1>3, <1>4, <1>5, <1>6, <1>7
<1>9. start = Entry(k)
  BY <1>2, <1>3, <1>5 DEF Listed
<1>10. Min({Rest(k), size}) = Min({Rest(k), Span(k, w)})
  <2>1. FirstOff(k) \in 0 .. PAGE_SIZE - 1 /\ cmd.pages[k + 1] \in Nat /\ Rest(k) \in Nat /\ Start(k) \in Int
    <3>1. Rest(k) \in Nat
      BY <1>2, <1>4, PagesLeft
    <3>2. k \in Nat
      BY <1>4
    <3> QED BY <1>2, <1>5, <3>1, <3>2, PageTypes
  <2>2. offs(Entry(k)) = FirstOff(k)
    BY <1>4, <2>1, DivMod DEF offs, Entry
  <2> DEFINE o == FirstOff(k)
             r == Rest(k)
             y == (w - 1) * PAGE_SIZE
             s == io_size(start, remaining)
  <2>3. y \in Nat /\ Span(k, w) = y + PAGE_SIZE - o
    <3>1. w - 1 \in Nat
      BY <1>8
    <3>2. (w - 1) * PAGE_SIZE \in Nat /\ w * PAGE_SIZE = (w - 1) * PAGE_SIZE + PAGE_SIZE
      BY <1>4, <1>8, <3>1
    <3> QED BY <1>4, <2>1, <3>2 DEF Span
  <2>4. s = IF r <= PAGE_SIZE - o THEN r ELSE PAGE_SIZE - o
    <3>1. PAGE_SIZE - o \in Int /\ r \in Int
      BY <1>4, <2>1
    <3>2. Min({r, PAGE_SIZE - o}) = IF r <= PAGE_SIZE - o THEN r ELSE PAGE_SIZE - o
      BY <3>1, MinOfTwo
    <3> QED BY <1>4, <1>9, <2>2, <3>2 DEF io_size
  <2>5. size = s + y
    BY <1>8
  <2>6. w > 1 => r > PAGE_SIZE - o
    <3>1. SUFFICES ASSUME w > 1 PROVE r > PAGE_SIZE - o
      OBVIOUS
    <3>2. k + 1 < Nr /\ k + 1 \in Nat /\ k \in Nat
      BY <1>4, <1>5, <1>8, <3>1
    <3>3. (k + 1) * PAGE_SIZE < Off + cmd.length
      BY <1>2, <3>2 DEF PrpShape
    <3>4. r = cmd.length - Start(k) /\ Start(k) = k * PAGE_SIZE + o - Off
      BY <1>2, <1>4, <1>5, <3>2, PagesLeft DEF Start
    <3>5. (k + 1) * PAGE_SIZE = k * PAGE_SIZE + PAGE_SIZE /\ k * PAGE_SIZE \in Nat
      BY <1>4, <3>2
    <3> DEFINE x == k * PAGE_SIZE
               z == (k + 1) * PAGE_SIZE
    <3>6. x \in Nat /\ z = x + PAGE_SIZE /\ z < Off + cmd.length /\ r = cmd.length - (x + o - Off)
      BY <3>3, <3>4, <3>5
    <3> HIDE DEF x, z, r, o
    <3>7. o \in Int
      BY <2>1 DEF o
    <3> QED BY <1>4, <3>6, <3>7
  <2>7. w = 1 => y = 0
    BY <1>4
  <2>8. o \in 0 .. PAGE_SIZE - 1 /\ r \in Nat
    BY <2>1
  <2> HIDE DEF o, r, y, s, size
  <2>9. size \in Int /\ Span(k, w) \in Int
    BY <1>4, <2>3, <2>4, <2>5, <2>8
  <2>10. /\ Min({r, size}) = IF r <= size THEN r ELSE size
         /\ Min({r, Span(k, w)}) = IF r <= Span(k, w) THEN r ELSE Span(k, w)
    <3>1. r \in Int
      BY <2>8
    <3> QED BY <2>9, <3>1, MinOfTwo
  <2>11. CASE w = 1
    <3>1. y = 0
      BY <2>7, <2>11
    <3> QED BY <1>4, <2>3, <2>4, <2>5, <2>8, <2>10, <3>1 DEF r
  <2>12. CASE w > 1
    <3>1. size = Span(k, w)
      BY <1>4, <2>3, <2>4, <2>5, <2>6, <2>8, <2>12
    <3> QED BY <3>1 DEF r
  <2> QED BY <1>8, <2>11, <2>12
<1> HIDE DEF size, start
<1>11. TransferOf(k, w)
  BY <1>1, <1>2, <1>4, <1>9, <1>10 DEF TransferOf
<1>12. InPlace' /\ remaining' = Rest(k + w) /\ Len(copied') + remaining' = cmd.length
  BY <1>2, <1>5, <1>8, <1>11, Moved
<1>13. /\ PrpShape' /\ Nr' = Nr /\ \A i : Rest(i)' = Rest(i) /\ Entry(i)' = Entry(i)
  BY <1>1, <1>2, SameCommand
<1>14. Listed(Nr)'
  BY <1>1, <1>2, <1>13 DEF Listed
<1>15. prp_offs' \in 1 .. Nr' + 1 /\ prp_offs' - 1 = k + w
  BY <1>1, <1>4, <1>6, <1>8, <1>13
<1>16. remaining' = Rest(prp_offs - 1)'
  <2>1. ASSUME NEW j, j = prp_offs' - 1 PROVE remaining' = Rest(j)'
    BY <1>12, <1>13, <1>15, <2>1
  <2> QED BY <2>1 DEF Rest, Start, FirstOff
<1> QED BY <1>1, <1>12, <1>13, <1>14, <1>15, <1>16 DEF PrpInv

\* pages_of() counts the pages that the buffer touches.
LEMMA PageCount ==
    ASSUME NEW off \in 0 .. PAGE_SIZE - 1, NEW length \in Nat \ {0}
    PROVE  /\ pages_of(off, length) \in Nat \ {0}
           /\ \A k \in Nat : k * PAGE_SIZE < off + length <=> k < pages_of(off, length)
<1> DEFINE a == off + length + PAGE_SIZE - 1
<1>1. PAGE_SIZE \in Nat \ {0} /\ a \in Nat
  BY PrpAssumption
<1>2. PICK n \in Nat : \E m \in 0 .. PAGE_SIZE - 1 : n = a \div PAGE_SIZE /\ m = a % PAGE_SIZE /\ a = n * PAGE_SIZE + m
  <2> HIDE DEF a
  <2> QED BY <1>1, Division
<1>3. PICK m \in 0 .. PAGE_SIZE - 1 : n = a \div PAGE_SIZE /\ a = n * PAGE_SIZE + m
  BY <1>2
<1>4. pages_of(off, length) = n
  BY <1>3 DEF pages_of
<1> DEFINE y == n * PAGE_SIZE
<1>5. y \in Nat /\ off + length + PAGE_SIZE - 1 = y + m
  BY <1>1, <1>3
<1>6. n # 0
  <2>1. n = 0 => y = 0
    BY <1>1
  <2> HIDE DEF y
  <2> QED BY <1>1, <1>5, <2>1
<1>7. ASSUME NEW k \in Nat PROVE k * PAGE_SIZE < off + length <=> k < n
  <2>1. /\ k < n => k * PAGE_SIZE + PAGE_SIZE <= n * PAGE_SIZE
        /\ n <= k => n * PAGE_SIZE <= k * PAGE_SIZE
    BY <1>1, MulOrder
  <2> DEFINE x == k * PAGE_SIZE
  <2>2. x \in Nat /\ (k < n => x + PAGE_SIZE <= y) /\ (n <= k => y <= x)
    BY <1>1, <2>1
  <2> HIDE DEF x, y
  <2>3. x < off + length <=> k < n
    BY <1>1, <1>5, <2>2
  <2> QED BY <2>3 DEF x
<1> QED BY <1>4, <1>6, <1>7

\* The host sends a command for a buffer of different pages.
LEMMA StepSubmitBuffer ==
    ASSUME NEW length \in 1 .. MaxLength, NEW off \in 0 .. PAGE_SIZE - 1,
           NEW pages \in [1 .. pages_of(off, length) -> Frames],
           \A i, j \in DOMAIN pages : i # j => pages[i] # pages[j],
           NEW way \in {"copy", "collect"}, submit_buffer(off, length, pages, way)
    PROVE  PrpInv'
<1> DEFINE n == pages_of(off, length)
           addr == [i \in DOMAIN pages |-> pages[i] * PAGE_SIZE]
<1>1. PAGE_SIZE \in Nat \ {0} /\ NrFrames \in Nat /\ length \in Nat \ {0}
  BY PrpAssumption
<1>2. n \in Nat \ {0} /\ \A k \in Nat : k * PAGE_SIZE < off + length <=> k < n
  BY <1>1, PageCount
<1> HIDE DEF n
<1>3. pages \in Seq(Frames) /\ Len(pages) = n /\ DOMAIN pages = 1 .. n
  BY <1>2 DEF n
<1>4. \A i \in 1 .. n : pages[i] \in Nat /\ addr[i] = pages[i] * PAGE_SIZE
  <2>1. \A i \in 1 .. n : pages[i] \in Frames
    BY <1>3
  <2>2. Frames \subseteq Nat
    BY <1>1 DEF Frames
  <2> QED BY <1>3, <2>1, <2>2
<1>5. n <= NrFrames
  <2>1. pages \in Injection(1 .. n, 1 .. NrFrames)
    BY <1>3 DEF n, Frames, Injection, IsInjective
  <2>2. IsFiniteSet(1 .. NrFrames) /\ Cardinality(1 .. NrFrames) = NrFrames /\ Cardinality(1 .. n) = n
    <3>1. /\ IsFiniteSet(1 .. NrFrames)
          /\ Cardinality(1 .. NrFrames) = IF 1 > NrFrames THEN 0 ELSE NrFrames - 1 + 1
      BY <1>1, FS_Interval
    <3>2. Cardinality(1 .. n) = IF 1 > n THEN 0 ELSE n - 1 + 1
      BY <1>2, FS_Interval
    <3> QED BY <1>1, <1>2, <3>1, <3>2
  <2>3. Cardinality(1 .. n) <= Cardinality(1 .. NrFrames)
    BY <2>1, <2>2, FS_Injection
  <2> QED BY <2>2, <2>3
<1> HIDE DEF addr
<1> DEFINE listed == [i \in 0 .. NrFrames |-> IF Len(pages) > 2 /\ i + 2 \in DOMAIN pages
                                              THEN addr[i + 2] ELSE NoPage]
           second == IF Len(pages) = 2 THEN addr[2] ELSE NoPage
<1>6. cmd' = [length |-> length, pages |-> pages, prp1 |-> addr[1] + off, prp2 |-> second, list |-> listed]
  BY DEF submit_buffer, command, addr
<1>7. n > 2 => \A k \in 1 .. n - 1 : listed[k - 1] = addr[k + 1]
  <2>1. SUFFICES ASSUME n > 2, NEW k \in 1 .. n - 1 PROVE listed[k - 1] = addr[k + 1]
    OBVIOUS
  <2>2. k - 1 \in 0 .. NrFrames /\ k - 1 + 2 = k + 1 /\ k + 1 \in DOMAIN pages /\ Len(pages) > 2
    BY <1>1, <1>2, <1>3, <1>5, <2>1
  <2> QED BY <2>2
<1>8. n = 2 => second = addr[2]
  BY <1>3
<1> HIDE DEF listed, second
<1>9. /\ cmd'.length = length /\ cmd'.pages = pages /\ cmd'.prp1 = addr[1] + off
      /\ cmd'.prp2 = second /\ cmd'.list = listed
  BY <1>6
<1>10. cmd' # None
  BY <1>1, <1>9 DEF None
<1>11. Off' = off
  <2>1. 1 \in 1 .. n /\ pages[1] \in Nat /\ addr[1] = pages[1] * PAGE_SIZE
    BY <1>2, <1>4
  <2>2. (pages[1] * PAGE_SIZE + off) % PAGE_SIZE = off
    BY <1>1, <2>1, DivMod
  <2> QED BY <1>9, <2>1, <2>2 DEF Off, offs
<1>12. Nr' = n
  BY <1>3, <1>9 DEF Nr
<1>13. \A k \in 0 .. n - 1 : Entry(k)' = IF k = 0 THEN addr[1] + off ELSE addr[k + 1]
  <2>1. SUFFICES ASSUME NEW k \in 0 .. n - 1 PROVE Entry(k)' = IF k = 0 THEN addr[1] + off ELSE addr[k + 1]
    OBVIOUS
  <2>2. k + 1 \in 1 .. n
    BY <1>2
  <2>3. pages[k + 1] \in Nat /\ addr[k + 1] = pages[k + 1] * PAGE_SIZE
    BY <1>4, <2>2
  <2> DEFINE x == pages[k + 1] * PAGE_SIZE
  <2>4. Entry(k)' = x + (IF k = 0 THEN off ELSE 0) /\ x \in Nat /\ addr[k + 1] = x
    BY <1>1, <1>9, <1>11, <2>3 DEF Entry, FirstOff
  <2> HIDE DEF x
  <2>5. CASE k = 0
    BY <2>4, <2>5
  <2>6. CASE k # 0
    BY <2>4, <2>6
  <2> QED BY <2>5, <2>6
<1>14. PrpShape'
  <2>1. cmd'.prp1 = Entry(0)'
    BY <1>2, <1>9, <1>13
  <2>2. n = 2 => cmd'.prp2 = Entry(1)'
    BY <1>8, <1>9, <1>13
  <2>3. n > 2 => \A k \in 1 .. n - 1 : cmd'.list[k - 1] = Entry(k)'
    <3>1. SUFFICES ASSUME n > 2, NEW k \in 1 .. n - 1 PROVE cmd'.list[k - 1] = Entry(k)'
      OBVIOUS
    <3>2. k \in 0 .. n - 1 /\ k # 0
      BY <1>2
    <3> QED BY <1>7, <1>9, <1>13, <3>1, <3>2
  <2>4. \A k \in Nat : k * PAGE_SIZE < Off' + cmd'.length <=> k < Nr'
    BY <1>2, <1>9, <1>11, <1>12
  <2>5. cmd'.length \in Nat \ {0} /\ cmd'.pages \in Seq(Frames) /\ Nr' > 0 /\ Off' \in 0 .. PAGE_SIZE - 1
    BY <1>1, <1>2, <1>3, <1>9, <1>11, <1>12
  <2> QED BY <1>10, <1>12, <2>1, <2>2, <2>3, <2>4, <2>5 DEF PrpShape
<1>15. /\ prp_offs' = 0 /\ remaining' = length /\ paddr_list' = <<>> /\ copied' = <<>> /\ how' = way
  BY DEF submit_buffer
<1>16. InPlace' /\ Len(copied') = 0 /\ Listed(0)'
  BY <1>15 DEF InPlace, Placed, Listed
<1>17. Rest(0)' = length
  <2>1. Start(0)' = 0
    BY <1>1, <1>11 DEF Start, FirstOff
  <2> QED BY <1>1, <1>9, <2>1 DEF Rest
<1>18. remaining' = Rest(prp_offs)' /\ prp_offs' \in 0 .. Nr' /\ Listed(prp_offs)'
  <2>1. remaining' = Rest(prp_offs)'
    <3>1. ASSUME NEW j, j = prp_offs' PROVE remaining' = Rest(j)'
      BY <1>15, <1>17, <3>1
    <3> QED BY <3>1 DEF Rest, Start, FirstOff
  <2>2. Listed(prp_offs)'
    BY <1>15 DEF Listed
  <2> QED BY <1>2, <1>12, <1>15, <2>1, <2>2
<1>19. Len(copied') + remaining' = cmd'.length
  BY <1>1, <1>9, <1>15, <1>16
<1> QED BY <1>14, <1>15, <1>16, <1>18, <1>19 DEF PrpInv

\* What the invariant says of the data.
LEMMA PrpInvExact == PrpInv => BufferExact
<1>1. SUFFICES ASSUME PrpInv, cmd # None
               PROVE  /\ Len(copied) <= cmd.length
                      /\ \A i \in DOMAIN copied : copied[i] = buffer_addr(i)
                      /\ how # "collect" => Len(copied) + remaining = cmd.length
  BY DEF BufferExact
<1>2. PrpShape /\ InPlace
  BY <1>1 DEF PrpInv
<1>3. Nr \in Nat /\ cmd.length \in Nat \ {0}
  BY <1>2, PageTypes
<1>4. copied \in Seq(Int) /\ Len(copied) \in Nat /\ \A i \in DOMAIN copied : copied[i] = buffer_addr(i)
  BY <1>2 DEF InPlace, Placed
<1>5. CASE how = "collect"
  BY <1>1, <1>3, <1>4, <1>5 DEF PrpInv
<1>6. CASE how # "collect"
  <2>1. Len(copied) + remaining = cmd.length
    BY <1>1, <1>6 DEF PrpInv
  <2>2. remaining \in Nat
    <3>1. PICK k \in 0 .. Nr : remaining = Rest(k)
      <4>1. CASE how = "copy"
        BY <1>1, <4>1 DEF PrpInv
      <4>2. CASE how = "move"
        <5>1. prp_offs - 1 \in 0 .. Nr /\ remaining = Rest(prp_offs - 1)
          BY <1>1, <1>3, <4>2 DEF PrpInv
        <5> QED BY <5>1
      <4> QED BY <1>1, <1>6, <4>1, <4>2 DEF PrpInv
    <3> QED BY <1>2, <3>1, PagesLeft
  <2> QED BY <1>3, <1>4, <2>1, <2>2
<1> QED BY <1>5, <1>6

\* Whatever the size of a page, the length of a transfer, its offset in the
\* first page and the pages of its buffer: each unit of the data is exchanged
\* with its own place in the buffer, in order and once, and when the loop ends
\* none is left out, with memcpy as well as with runs of pages moved by DMA.
THEOREM TransfersExact == PrpSpec => []BufferExact
<1>1. InitPrp => PrpInv
  BY DEF InitPrp, PrpInv
<1>2. ASSUME PrpInv, [NextPrp]_prpVars PROVE PrpInv'
  <2>1. ASSUME NEW length \in 1 .. MaxLength, NEW off \in 0 .. PAGE_SIZE - 1,
               NEW pages \in {s \in [1 .. pages_of(off, length) -> Frames] :
                                \A i, j \in DOMAIN s : i # j => s[i] # s[j]},
               NEW way \in {"copy", "collect"}, submit_buffer(off, length, pages, way)
        PROVE  PrpInv'
    <3>1. pages \in [1 .. pages_of(off, length) -> Frames] /\ \A i, j \in DOMAIN pages : i # j => pages[i] # pages[j]
      OBVIOUS
    <3> QED BY <2>1, <3>1, StepSubmitBuffer
  <2>2. CASE done
    BY <2>2 DEF done, PrpInv
  <2>3. CASE UNCHANGED prpVars
    <3>1. /\ cmd' = cmd /\ prp_offs' = prp_offs /\ remaining' = remaining
          /\ paddr_list' = paddr_list /\ copied' = copied /\ how' = how
      BY <2>3 DEF prpVars
    <3>2. /\ PrpShape' <=> PrpShape
          /\ Nr' = Nr
          /\ \A k : Rest(k)' = Rest(k) /\ Entry(k)' = Entry(k) /\ buffer_addr(k)' = buffer_addr(k)
      BY <3>1, SameCommand
    <3>3. InPlace' <=> InPlace
      BY <3>1, <3>2 DEF InPlace, Placed
    <3>4. (Listed(prp_offs)' <=> Listed(prp_offs)) /\ (Listed(Nr)' <=> Listed(Nr))
      BY <3>1, <3>2 DEF Listed
    <3>5. Rest(prp_offs)' = Rest(prp_offs) /\ Rest(prp_offs - 1)' = Rest(prp_offs - 1)
      BY <3>1 DEF Rest, Start, FirstOff, Off
    <3> QED BY <1>2, <3>1, <3>2, <3>3, <3>4, <3>5 DEF PrpInv
  <2> QED BY <1>2, <2>1, <2>2, <2>3, StepCopyPiece, StepCollectPiece, StepCollected, StepMoveRun DEF NextPrp
<1> QED BY <1>1, <1>2, PrpInvExact, PTL DEF PrpSpec

(***************************************************************************)
(* The units of the simple performance model (IOUnits).                    *)
(***************************************************************************)
\* schedule_flush() is no earlier than promised exactly when some unit is busy
\* for that long.
LEMMA FlushIsLatest ==
    ASSUME NEW stat \in [Units -> Nat], NEW p \in Nat
    PROVE  Max({stat[u] : u \in Units}) >= p <=> \E u \in Units : stat[u] >= p
<1>1. nr_io_units - 1 \in Nat /\ Units = 0 .. nr_io_units - 1 /\ 0 \in Units
  BY UnitsAssumption DEF Units
<1> DEFINE n == nr_io_units - 1
           S == {stat[u] : u \in Units}
<1> HIDE DEF n
<1>2. PICK b \in Nat : \A i \in 0 .. n : stat[i] <= b
  BY <1>1, HasBound DEF n
<1>3. S \subseteq Int /\ S # {} /\ \A x \in S : x <= b
  BY <1>1, <1>2 DEF n
<1>4. b \in Int /\ S \subseteq Nat
  OBVIOUS
<1>5. \A u \in Units : stat[u] \in S
  OBVIOUS
<1>6. \A x \in S : \E u \in Units : x = stat[u]
  OBVIOUS
<1> HIDE DEF S
<1>7. Max(S) \in S /\ \A x \in S : x <= Max(S)
  BY <1>3, <1>4, Greatest
<1> DEFINE m == Max(S)
<1>8. m \in S /\ \A x \in S : x <= m
  BY <1>7
<1>9. Max({stat[u] : u \in Units}) = m
  BY DEF S
<1> HIDE DEF m
<1>10. m >= p <=> \E u \in Units : stat[u] >= p
  BY <1>4, <1>5, <1>6, <1>8
<1> QED BY <1>9, <1>10

\* The last round in which a unit is visited, if it is visited at all.
LEMMA LastRound ==
    ASSUME NEW u \in Units, NEW n \in Nat, NEW x \in Units
    PROVE  /\ rounds(n) = IF n = 0 THEN 1 ELSE n
           /\ last_round(u, n, x) \in 0 .. rounds(n)
           /\ last_round(u, n, x) # 0 => (u + last_round(u, n, x) - 1) % nr_io_units = x
           /\ (u + rounds(n) - 1) % nr_io_units = x => last_round(u, n, x) = rounds(n)
<1>1. rounds(n) = IF n = 0 THEN 1 ELSE n
  <2>1. Max({n, 1}) = IF n >= 1 THEN n ELSE 1
    BY MaxOfTwo
  <2> QED BY <2>1 DEF rounds
<1> DEFINE r == rounds(n)
           S == {i \in 1 .. r : (u + i - 1) % nr_io_units = x} \cup {0}
<1>2. r \in Nat /\ r >= 1
  BY <1>1
<1> HIDE DEF r
<1>3. S \subseteq Int /\ S # {} /\ r \in Int /\ \A i \in S : i <= r
  BY <1>2
<1>4. /\ S \subseteq 0 .. r
      /\ \A i \in S : i # 0 => (u + i - 1) % nr_io_units = x
      /\ (u + r - 1) % nr_io_units = x => r \in S
  BY <1>2
<1>5. last_round(u, n, x) = Max(S)
  BY DEF last_round, r
<1> HIDE DEF S
<1>6. Max(S) \in S /\ \A i \in S : i <= Max(S)
  BY <1>3, Greatest
<1> DEFINE m == Max(S)
<1>7. m \in S /\ m <= r /\ m \in Int /\ (r \in S => r <= m)
  BY <1>3, <1>6
<1>8. last_round(u, n, x) = m
  BY <1>5
<1> HIDE DEF m
<1>9. r \in S => m = r
  BY <1>2, <1>7
<1>10. /\ m \in 0 .. r
       /\ m # 0 => (u + m - 1) % nr_io_units = x
       /\ (u + r - 1) % nr_io_units = x => m = r
  BY <1>4, <1>7, <1>9
<1> QED BY <1>1, <1>8, <1>10 DEF r

\* what a command leaves in each unit, when nothing is known of the future
LEMMA UnitAfter ==
    ASSUME io_unit_stat \in [Units -> Nat], NEW u \in Units, NEW n \in Nat, NEW t \in Latencies,
           NEW x \in Units
    PROVE  /\ busy_until(u, n, t, x) \in Nat
           /\ latest(u, rounds(n), t) \in Nat
           /\ (u + rounds(n) - 1) % nr_io_units = x => busy_until(u, n, t, x) >= latest(u, rounds(n), t)
           /\ n <= 1 /\ x # u => busy_until(u, n, t, x) = io_unit_stat[x]
           /\ busy_until(u, n, t, u) >= io_unit_stat[u]
<1>1. /\ t.delay \in Nat /\ t.time \in Nat /\ t.trailing \in Nat /\ io_unit_stat[u] \in Nat
      /\ io_unit_stat[x] \in Nat
  BY UnitsAssumption
<1>2. \A i \in Nat : i * t.time \in Nat
  BY <1>1
<1>3. \A i \in Nat : latest(u, i, t) \in Nat /\ latest(u, i, t) >= io_unit_stat[u]
  BY <1>1, <1>2 DEF latest
<1>4. \A y \in Units : \/ last_round(u, n, y) = 0 /\ busy_until(u, n, t, y) = io_unit_stat[y]
                       \/ /\ last_round(u, n, y) # 0
                          /\ \/ busy_until(u, n, t, y) = latest(u, last_round(u, n, y), t) + t.trailing
                             \/ busy_until(u, n, t, y) = latest(u, last_round(u, n, y), t) + 0
  BY DEF busy_until
<1>5. \A y \in Units : last_round(u, n, y) \in Nat /\ rounds(n) \in Nat /\ rounds(n) # 0
  <2>1. SUFFICES ASSUME NEW y \in Units PROVE last_round(u, n, y) \in Nat /\ rounds(n) \in Nat /\ rounds(n) # 0
    OBVIOUS
  <2>2. last_round(u, n, y) \in 0 .. rounds(n) /\ rounds(n) = IF n = 0 THEN 1 ELSE n
    BY LastRound
  <2> QED BY <2>2
<1>6. \A y \in Units : /\ busy_until(u, n, t, y) \in Nat
                       /\ \/ last_round(u, n, y) = 0 /\ busy_until(u, n, t, y) = io_unit_stat[y]
                          \/ busy_until(u, n, t, y) >= latest(u, last_round(u, n, y), t)
  BY <1>1, <1>3, <1>4, <1>5
<1>7. (u + rounds(n) - 1) % nr_io_units = x => busy_until(u, n, t, x) >= latest(u, rounds(n), t)
  <2>1. (u + rounds(n) - 1) % nr_io_units = x => last_round(u, n, x) = rounds(n)
    BY LastRound
  <2> QED BY <1>5, <1>6, <2>1
<1>8. n <= 1 /\ x # u => busy_until(u, n, t, x) = io_unit_stat[x]
  <2>1. SUFFICES ASSUME n <= 1, x # u PROVE last_round(u, n, x) = 0
    BY <1>4
  <2>2. /\ rounds(n) = 1 /\ last_round(u, n, x) \in 0 .. rounds(n)
        /\ last_round(u, n, x) # 0 => (u + last_round(u, n, x) - 1) % nr_io_units = x
    BY <2>1, LastRound
  <2>3. (u + 1 - 1) % nr_io_units = u
    BY UnitsAssumption DEF Units
  <2>4. last_round(u, n, x) \in 0 .. 1
    BY <2>2
  <2>5. last_round(u, n, x) # 1
    BY <2>1, <2>2, <2>3
  <2> QED BY <2>4, <2>5
<1>9. busy_until(u, n, t, u) >= io_unit_stat[u]
  BY <1>1, <1>3, <1>5, <1>6
<1> QED BY <1>3, <1>5, <1>6, <1>7, <1>8, <1>9

\* A command: its last unit is busy until its target time.  One that is longer
\* than a unit starts a new promise; a short one takes no time from any unit.
LEMMA StepSchedule ==
    ASSUME FlushCovers, NEW u \in Units, NEW n \in 0 .. MaxLen, NEW t \in Latencies,
           schedule_io_units(u, n, t)
    PROVE  FlushCovers'
<1> DEFINE target == latest(u, rounds(n), t)
           last == (u + rounds(n) - 1) % nr_io_units
<1>1. /\ io_unit_stat' = [x \in Units |-> busy_until(u, n, t, x)]
      /\ promised' = IF n > 1 THEN target ELSE Max({promised, target})
  BY DEF schedule_io_units
<1>2. n \in Nat /\ io_unit_stat \in [Units -> Nat] /\ promised \in Nat
  BY UnitsAssumption DEF FlushCovers
<1>3. last \in Units
  <2>1. rounds(n) \in Nat /\ rounds(n) >= 1
    BY <1>2, LastRound
  <2>2. u + rounds(n) - 1 \in Nat
    BY <2>1 DEF Units
  <2> QED BY <2>2, UnitsAssumption DEF Units
<1>4. /\ \A x \in Units : busy_until(u, n, t, x) \in Nat
      /\ target \in Nat
      /\ busy_until(u, n, t, last) >= target
      /\ n <= 1 => \A x \in Units : busy_until(u, n, t, x) >= io_unit_stat[x]
  <2>1. target \in Nat /\ \A x \in Units : busy_until(u, n, t, x) \in Nat /\ io_unit_stat[x] \in Nat
    BY <1>2, UnitAfter
  <2>2. busy_until(u, n, t, last) >= target
    BY <1>2, <1>3, UnitAfter
  <2>3. n <= 1 => \A x \in Units : busy_until(u, n, t, x) >= io_unit_stat[x]
    <3>1. SUFFICES ASSUME n <= 1, NEW x \in Units PROVE busy_until(u, n, t, x) >= io_unit_stat[x]
      OBVIOUS
    <3>2. /\ x # u => busy_until(u, n, t, x) = io_unit_stat[x]
          /\ x = u => busy_until(u, n, t, x) >= io_unit_stat[x]
      BY <1>2, <3>1, UnitAfter
    <3> QED BY <2>1, <3>2
  <2> QED BY <2>1, <2>2, <2>3
<1>5. io_unit_stat' \in [Units -> Nat] /\ \A x \in Units : io_unit_stat'[x] = busy_until(u, n, t, x)
  BY <1>1, <1>4
<1>6. PICK w \in Units : io_unit_stat[w] >= promised
  BY <1>2, FlushIsLatest DEF FlushCovers, schedule_flush
<1> HIDE DEF target, last
<1>7. promised' \in Nat /\ \E x \in Units : io_unit_stat'[x] >= promised'
  <2>1. CASE n > 1
    BY <1>1, <1>3, <1>4, <1>5, <2>1
  <2>2. CASE n <= 1
    <3>1. promised' = IF promised >= target THEN promised ELSE target
      BY <1>1, <1>2, <1>4, <2>2, MaxOfTwo
    <3>2. io_unit_stat'[w] >= promised
      <4>1. io_unit_stat'[w] >= io_unit_stat[w] /\ io_unit_stat'[w] \in Nat /\ io_unit_stat[w] \in Nat
        BY <1>2, <1>4, <1>5, <2>2
      <4> QED BY <1>2, <1>6, <4>1
    <3> QED BY <1>2, <1>3, <1>4, <1>5, <3>1, <3>2
  <2> QED BY <1>2, <2>1, <2>2
<1> QED BY <1>5, <1>7, FlushIsLatest DEF FlushCovers, schedule_flush

\* A flush does not end before the last command that was longer than a unit,
\* nor before any command after it: for any number of units, any latencies and
\* any sequence of commands.
THEOREM FlushCoversCommands == UnitsSpec => []FlushCovers
<1>1. InitUnits => FlushCovers
  <2>1. SUFFICES ASSUME InitUnits PROVE FlushCovers
    OBVIOUS
  <2>2. /\ io_unit_stat \in [Units -> Nat] /\ promised \in Nat /\ 0 \in Units
        /\ io_unit_stat[0] >= promised
    BY <2>1, UnitsAssumption DEF InitUnits, Units
  <2> QED BY <2>2, FlushIsLatest DEF FlushCovers, schedule_flush
<1>2. ASSUME FlushCovers, [NextUnits]_unitVars PROVE FlushCovers'
  <2>1. ASSUME NEW u \in Units, NEW n \in 0 .. MaxLen, NEW t \in Latencies, schedule_io_units(u, n, t)
        PROVE  FlushCovers'
    BY <1>2, <2>1, StepSchedule
  <2>2. CASE tick
    <3>1. /\ io_unit_stat \in [Units -> Nat] /\ promised \in Nat
          /\ io_unit_stat' = [u \in Units |-> Max({io_unit_stat[u] - 1, 0})]
          /\ promised' = Max({promised - 1, 0})
      BY <1>2, <2>2 DEF FlushCovers, tick
    <3>2. PICK w \in Units : io_unit_stat[w] >= promised
      BY <1>2, <3>1, FlushIsLatest DEF FlushCovers, schedule_flush
    <3>3. ASSUME NEW a \in Nat
          PROVE  Max({a - 1, 0}) \in Nat /\ Max({a - 1, 0}) = IF a - 1 >= 0 THEN a - 1 ELSE 0
      BY MaxOfTwo
    <3>4. io_unit_stat' \in [Units -> Nat] /\ promised' \in Nat
      BY <3>1, <3>3
    <3>5. io_unit_stat'[w] >= promised'
      <4>1. io_unit_stat[w] \in Nat /\ io_unit_stat'[w] = Max({io_unit_stat[w] - 1, 0})
        BY <3>1
      <4>2. io_unit_stat'[w] = IF io_unit_stat[w] - 1 >= 0 THEN io_unit_stat[w] - 1 ELSE 0
        BY <3>3, <4>1
      <4>3. promised' = IF promised - 1 >= 0 THEN promised - 1 ELSE 0
        BY <3>1, <3>3
      <4> QED BY <3>1, <3>2, <4>1, <4>2, <4>3
    <3> QED BY <3>4, <3>5, FlushIsLatest DEF FlushCovers, schedule_flush
  <2>3. CASE UNCHANGED unitVars
    BY <1>2, <2>3 DEF FlushCovers, schedule_flush, unitVars
  <2> QED BY <1>2, <2>1, <2>2, <2>3 DEF NextUnits
<1> QED BY <1>1, <1>2, PTL DEF UnitsSpec

(***************************************************************************)
(* Numbers in mixed radix: a page of a line as wordline, lun, channel and  *)
(* page in the wordline, or as flash page, channel, lun and page in the    *)
(* flash page.                                                             *)
(***************************************************************************)
Mixed(n, m, w, l, c) == w * (m * n) + l * n + c

LEMMA MixedDigits ==
    ASSUME NEW n \in Nat \ {0}, NEW m \in Nat \ {0},
           NEW w \in Nat, NEW l \in 0 .. m - 1, NEW c \in 0 .. n - 1
    PROVE  /\ Mixed(n, m, w, l, c) \in Nat /\ m * n \in Nat \ {0}
           /\ Mixed(n, m, w, l, c) % n = c
           /\ (Mixed(n, m, w, l, c) \div n) % m = l
           /\ Mixed(n, m, w, l, c) \div (m * n) = w
<1> DEFINE mn == m * n
           wm == w * m
           ln == l * n
           x == Mixed(n, m, w, l, c)
<1>1. mn \in Nat \ {0} /\ wm \in Nat /\ ln \in Nat /\ w * mn \in Nat /\ x \in Nat
  <2>1. mn \in Nat /\ wm \in Nat /\ ln \in Nat
    OBVIOUS
  <2>2. mn # 0
    OBVIOUS
  <2> HIDE DEF mn
  <2>3. w * mn \in Nat
    BY <2>1
  <2> HIDE DEF ln
  <2>4. x = w * mn + ln + c
    BY DEF Mixed, mn, ln
  <2> HIDE DEF x
  <2> QED BY <2>1, <2>2, <2>3, <2>4
<1>2. x = (wm + l) * n + c
  BY DEF Mixed
<1>3. (wm + l) % m = l
  <2>1. (w * m + l) % m = l
    BY DivMod
  <2> QED BY <2>1
<1>4. x % n = c /\ x \div n = wm + l
  <2> DEFINE d == wm + l
  <2>1. d \in Nat /\ x = d * n + c
    BY <1>1, <1>2
  <2> HIDE DEF d, x
  <2>2. (d * n + c) \div n = d /\ (d * n + c) % n = c
    BY <2>1, DivMod
  <2> QED BY <2>1, <2>2 DEF d
<1>5. ln + c \in 0 .. mn - 1
  <2>1. l * n + n <= m * n
    BY MulOrder
  <2> HIDE DEF ln, mn
  <2>2. ln + n <= mn
    BY <2>1 DEF ln, mn
  <2> QED BY <1>1, <2>2
<1>6. x \div mn = w
  <2> DEFINE r == ln + c
  <2>1. r \in 0 .. mn - 1 /\ x = w * mn + r
    <3>1. x = w * mn + ln + c
      BY DEF Mixed
    <3> HIDE DEF x, mn, ln
    <3>2. w * mn \in Nat
      BY <1>1
    <3> QED BY <1>1, <1>5, <3>1, <3>2
  <2> HIDE DEF r, mn, x
  <2>2. (w * mn + r) \div mn = w
    BY <1>1, <2>1, DivMod
  <2> QED BY <2>1, <2>2
<1> QED BY <1>1, <1>3, <1>4, <1>6 

LEMMA MixedExists ==
    ASSUME NEW n \in Nat \ {0}, NEW m \in Nat \ {0}, NEW q \in Nat
    PROVE  \E w \in Nat, l \in 0 .. m - 1, c \in 0 .. n - 1 : q = Mixed(n, m, w, l, c)
<1>1. PICK d \in Nat : \E c \in 0 .. n - 1 : d = q \div n /\ c = q % n /\ q = d * n + c
  BY Division
<1>2. PICK c \in 0 .. n - 1 : q = d * n + c
  BY <1>1
<1>3. PICK w \in Nat : \E l \in 0 .. m - 1 : w = d \div m /\ l = d % m /\ d = w * m + l
  BY Division
<1>4. PICK l \in 0 .. m - 1 : d = w * m + l
  BY <1>3
<1>5. q = (w * m + l) * n + c
  BY <1>2, <1>4
<1>6. (w * m + l) * n = w * (m * n) + l * n
  OBVIOUS
<1>7. q = Mixed(n, m, w, l, c)
  BY <1>5, <1>6 DEF Mixed
<1> QED BY <1>7

\* the order of two such numbers
LEMMA MixedOrder ==
    ASSUME NEW n \in Nat \ {0}, NEW m \in Nat \ {0},
           NEW w \in Nat, NEW l \in 0 .. m - 1, NEW c \in 0 .. n - 1, NEW v \in Nat
    PROVE  /\ w < v <=> Mixed(n, m, w, l, c) < v * (m * n)
           /\ w < v => Mixed(n, m, w, l, c) < Mixed(n, m, v, l, c)
<1> DEFINE mn == m * n
           ln == l * n
           wmn == w * mn
           vmn == v * mn
<1>1. mn \in Nat \ {0} /\ ln \in Nat
  BY MixedDigits
<1>2. l * n + n <= m * n
  BY MulOrder
<1>3. ln + n <= mn
  BY <1>2
<1>4. wmn \in Nat /\ vmn \in Nat /\ (w < v => wmn + mn <= vmn) /\ (v <= w => vmn <= wmn)
  <2> HIDE DEF mn
  <2>1. (w < v => w * mn + mn <= v * mn) /\ (v <= w => v * mn <= w * mn)
    BY <1>1, MulOrder
  <2>2. w * mn \in Nat /\ v * mn \in Nat
    BY <1>1
  <2> QED BY <2>1, <2>2
<1>5. Mixed(n, m, w, l, c) = wmn + ln + c /\ Mixed(n, m, v, l, c) = vmn + ln + c
  BY DEF Mixed
<1>6. v * (m * n) = vmn
  OBVIOUS
<1> HIDE DEF mn, ln, wmn, vmn
<1>7. (w < v <=> wmn + ln + c < vmn) /\ (w < v => wmn + ln + c < vmn + ln + c)
  BY <1>1, <1>3, <1>4
<1> QED BY <1>5, <1>6, <1>7
\* the same with a further digit: w, l and c count groups of k pages
Place(k, n, m, w, l, c, r) == Mixed(n, m, w, l, c) * k + r

LEMMA PlaceDigits ==
    ASSUME NEW k \in Nat \ {0}, NEW n \in Nat \ {0}, NEW m \in Nat \ {0},
           NEW w \in Nat, NEW l \in 0 .. m - 1, NEW c \in 0 .. n - 1, NEW r \in 0 .. k - 1
    PROVE  /\ Place(k, n, m, w, l, c, r) \in Nat
           /\ Place(k, n, m, w, l, c, r) % k = r
           /\ Place(k, n, m, w, l, c, r) \div k = Mixed(n, m, w, l, c)
           /\ w * k + r \in Nat /\ (w * k + r) \div k = w /\ (w * k + r) % k = r
<1> DEFINE x == Mixed(n, m, w, l, c)
<1>1. x \in Nat
  BY MixedDigits
<1> HIDE DEF x
<1>2. (x * k + r) % k = r /\ (x * k + r) \div k = x
  BY <1>1, DivMod
<1>3. x * k \in Nat /\ w * k \in Nat
  BY <1>1
<1>4. x * k + r \in Nat
  BY <1>3
<1>5. w * k + r \in Nat
  BY <1>3
<1>6. (w * k + r) \div k = w /\ (w * k + r) % k = r
  BY DivMod
<1>7. Place(k, n, m, w, l, c, r) = x * k + r
  BY DEF Place, x
<1> QED BY <1>2, <1>4, <1>5, <1>6, <1>7 DEF x

LEMMA PlaceExists ==
    ASSUME NEW k \in Nat \ {0}, NEW n \in Nat \ {0}, NEW m \in Nat \ {0}, NEW i \in Nat
    PROVE  \E w \in Nat, l \in 0 .. m - 1, c \in 0 .. n - 1, r \in 0 .. k - 1 :
              i = Place(k, n, m, w, l, c, r)
<1>1. PICK q \in Nat : \E r \in 0 .. k - 1 : q = i \div k /\ r = i % k /\ i = q * k + r
  BY Division
<1>2. PICK r \in 0 .. k - 1 : i = q * k + r
  BY <1>1
<1>3. PICK w \in Nat, l \in 0 .. m - 1, c \in 0 .. n - 1 : q = Mixed(n, m, w, l, c)
  BY MixedExists
<1>4. i = Place(k, n, m, w, l, c, r)
  BY <1>2, <1>3 DEF Place
<1> QED BY <1>4

\* it is below the number of pages of v groups when w is below v; the last page
\* of a digit pair (l, c) is the one with the largest w and r
LEMMA PlaceOrder ==
    ASSUME NEW k \in Nat \ {0}, NEW n \in Nat \ {0}, NEW m \in Nat \ {0},
           NEW w \in Nat, NEW l \in 0 .. m - 1, NEW c \in 0 .. n - 1, NEW r \in 0 .. k - 1,
           NEW v \in Nat
    PROVE  /\ w < v <=> Place(k, n, m, w, l, c, r) < (v * (m * n)) * k
           /\ (v * (m * n)) * k \in Nat
           /\ w <= v => Place(k, n, m, w, l, c, r) <= Place(k, n, m, v, l, c, k - 1)
<1> DEFINE x == Mixed(n, m, w, l, c)
           y == v * (m * n)
           z == Mixed(n, m, v, l, c)
<1>1. x \in Nat /\ z \in Nat /\ m * n \in Nat
  BY MixedDigits
<1>2. y \in Nat
  <2> DEFINE mn == m * n
  <2> HIDE DEF mn
  <2>1. mn \in Nat
    BY <1>1 DEF mn
  <2>2. v * mn \in Nat
    BY <2>1
  <2> QED BY <2>2 DEF mn
<1>3. (w < v <=> x < y) /\ (w < v => x < z)
  BY MixedOrder
<1>4. w = v => x = z
  OBVIOUS
<1> DEFINE xk == x * k
           yk == y * k
           zk == z * k
<1>5. Place(k, n, m, w, l, c, r) = xk + r /\ (v * (m * n)) * k = yk
      /\ Place(k, n, m, v, l, c, k - 1) = zk + (k - 1)
  BY DEF Place
<1> HIDE DEF x, y, z
<1>6. /\ x < y => x * k + k <= y * k
      /\ y <= x => y * k <= x * k
      /\ x < z => x * k + k <= z * k
      /\ x * k \in Int /\ y * k \in Int /\ z * k \in Int
  BY <1>1, <1>2, MulOrder
<1>7. y * k \in Nat
  BY <1>2
<1>8. /\ x < y => xk + k <= yk
      /\ y <= x => yk <= xk
      /\ x < z => xk + k <= zk
      /\ x = z => xk = zk
      /\ xk \in Int /\ yk \in Nat /\ zk \in Int
  BY <1>6, <1>7
<1> HIDE DEF xk, yk, zk
<1>9. w < v <=> xk + r < yk
  <2>1. x < y \/ y <= x
    BY <1>1, <1>2
  <2>2. x < y => xk + r < yk
    BY <1>8
  <2>3. y <= x => ~ (xk + r < yk)
    BY <1>8
  <2> QED BY <1>1, <1>2, <1>3, <2>1, <2>2, <2>3
<1>10. w <= v => xk + r <= zk + (k - 1)
  <2>1. CASE w < v
    <3>1. xk + k <= zk
      BY <1>3, <1>8, <2>1
    <3> QED BY <1>8, <3>1
  <2>2. CASE w = v
    BY <1>4, <1>8, <2>2
  <2> QED BY <2>1, <2>2
<1> QED BY <1>5, <1>8, <1>9, <1>10

\* the place after a place, digit by digit
NextPlaces(k, n, m, w, l, c, r) ==
    /\ Place(k, n, m, w, l, c, r + 1) = Place(k, n, m, w, l, c, r) + 1
    /\ Place(k, n, m, w, l, c + 1, 0) = Place(k, n, m, w, l, c, k - 1) + 1
    /\ Place(k, n, m, w, l + 1, 0, 0) = Place(k, n, m, w, l, n - 1, k - 1) + 1
    /\ Place(k, n, m, w + 1, 0, 0, 0) = Place(k, n, m, w, m - 1, n - 1, k - 1) + 1

LEMMA PlaceNext ==
    ASSUME NEW k \in Nat \ {0}, NEW n \in Nat \ {0}, NEW m \in Nat \ {0},
           NEW w \in Nat, NEW l \in 0 .. m - 1, NEW c \in 0 .. n - 1, NEW r \in 0 .. k - 1
    PROVE  NextPlaces(k, n, m, w, l, c, r)
<1> DEFINE x == Mixed(n, m, w, l, c)
           wmn == w * (m * n)
           mn == m * n
           ln == l * n
<1>1. x \in Nat /\ mn \in Nat
  BY MixedDigits
<1>2. ln \in Nat
  OBVIOUS
<1>3. wmn \in Nat
  <2> HIDE DEF mn
  <2>1. w * mn \in Nat
    BY <1>1
  <2> QED BY <2>1 DEF mn
<1>4. Place(k, n, m, w, l, c, r + 1) = Place(k, n, m, w, l, c, r) + 1
  <2> HIDE DEF x
  <2>1. x * k \in Nat
    BY <1>1
  <2> DEFINE xk == x * k
  <2> HIDE DEF xk
  <2>2. xk + (r + 1) = (xk + r) + 1
    BY <2>1 DEF xk
  <2> QED BY <2>2 DEF Place, x, xk
<1>5. ASSUME NEW y \in Nat
      PROVE  (y + 1) * k + 0 = (y * k + (k - 1)) + 1
  OBVIOUS
<1>6. /\ Mixed(n, m, w, l, c) + 1 = Mixed(n, m, w, l, c + 1)
      /\ Mixed(n, m, w, l, n - 1) + 1 = Mixed(n, m, w, l + 1, 0)
      /\ Mixed(n, m, w, m - 1, n - 1) + 1 = Mixed(n, m, w + 1, 0, 0)
  <2>1. (l + 1) * n = ln + n /\ (m - 1) * n = mn - n /\ 0 * n = 0
    OBVIOUS
  <2>2. (w + 1) * (m * n) = wmn + mn
    <3> HIDE DEF mn
    <3>1. (w + 1) * mn = w * mn + mn
      BY <1>1
    <3> QED BY <3>1 DEF mn
  <2> HIDE DEF wmn, ln, mn
  <2>3. /\ (wmn + ln + c) + 1 = wmn + ln + (c + 1)
        /\ (wmn + ln + (n - 1)) + 1 = wmn + (ln + n) + 0
        /\ (wmn + (mn - n) + (n - 1)) + 1 = (wmn + mn) + 0 + 0
    BY <1>1, <1>2, <1>3
  <2> QED BY <2>1, <2>2, <2>3 DEF Mixed, wmn, ln
<1>7. Mixed(n, m, w, l, c) \in Nat /\ Mixed(n, m, w, l, n - 1) \in Nat /\ Mixed(n, m, w, m - 1, n - 1) \in Nat
  <2> DEFINE a == n - 1
             b == m - 1
  <2>1. a \in 0 .. n - 1 /\ b \in 0 .. m - 1
    OBVIOUS
  <2> HIDE DEF a, b
  <2>2. Mixed(n, m, w, l, c) \in Nat /\ Mixed(n, m, w, l, a) \in Nat /\ Mixed(n, m, w, b, a) \in Nat
    BY <2>1, MixedDigits
  <2> QED BY <2>2 DEF a, b
<1>8. Place(k, n, m, w, l, c + 1, 0) = Place(k, n, m, w, l, c, k - 1) + 1
  BY <1>5, <1>6, <1>7 DEF Place
<1>9. Place(k, n, m, w, l + 1, 0, 0) = Place(k, n, m, w, l, n - 1, k - 1) + 1
  BY <1>5, <1>6, <1>7 DEF Place
<1>10. Place(k, n, m, w + 1, 0, 0, 0) = Place(k, n, m, w, m - 1, n - 1, k - 1) + 1
  BY <1>5, <1>6, <1>7 DEF Place
<1> QED BY <1>4, <1>8, <1>9, <1>10 DEF NextPlaces

\* the first place of a group
LEMMA PlaceStart ==
    ASSUME NEW k \in Nat \ {0}, NEW n \in Nat \ {0}, NEW m \in Nat \ {0}, NEW v \in Nat
    PROVE  Place(k, n, m, v, 0, 0, 0) = (v * (m * n)) * k
<1> DEFINE vmn == v * (m * n)
<1>1. m * n \in Nat
  OBVIOUS
<1>2. vmn \in Nat
  <2> DEFINE mn == m * n
  <2> HIDE DEF mn
  <2>1. v * mn \in Nat
    BY <1>1 DEF mn
  <2> QED BY <2>1 DEF mn
<1>3. Place(k, n, m, v, 0, 0, 0) = (vmn + 0 * n + 0) * k + 0
  BY DEF Place, Mixed
<1> HIDE DEF vmn
<1>4. 0 * n = 0 /\ vmn * k \in Nat
  BY <1>2
<1>5. vmn + 0 * n + 0 = vmn
  BY <1>2, <1>4
<1>6. Place(k, n, m, v, 0, 0, 0) = vmn * k
  BY <1>3, <1>4, <1>5
<1> QED BY <1>6 DEF vmn
(***************************************************************************)
(* The two orders of the pages of a line.                                  *)
(***************************************************************************)
LEMMA GeometryTypes ==
    ASSUME NEW g \in Geometries
    PROVE  /\ g.nchs \in Nat \ {0} /\ g.luns_per_ch \in Nat \ {0} /\ g.pgs_per_flashpg \in Nat \ {0}
           /\ g.flashpgs_per_oneshot \in Nat \ {0} /\ g.oneshotpgs_per_blk \in Nat \ {0}
           /\ pgs_per_oneshotpg(g) \in Nat \ {0} /\ flashpgs_per_blk(g) \in Nat \ {0}
           /\ pgs_per_blk(g) \in Nat \ {0} /\ tt_luns(g) \in Nat \ {0}
           /\ pgs_per_blk(g) = g.oneshotpgs_per_blk * pgs_per_oneshotpg(g)
           /\ pgs_per_blk(g) = flashpgs_per_blk(g) * g.pgs_per_flashpg
           /\ pgs_per_line(g) = (g.oneshotpgs_per_blk * (g.luns_per_ch * g.nchs)) * pgs_per_oneshotpg(g)
           /\ pgs_per_line(g) = (flashpgs_per_blk(g) * (g.nchs * g.luns_per_ch)) * g.pgs_per_flashpg
<1> DEFINE n == g.nchs
           m == g.luns_per_ch
           p == g.pgs_per_flashpg
           f == g.flashpgs_per_oneshot
           o == g.oneshotpgs_per_blk
<1>1. n \in Nat \ {0} /\ m \in Nat \ {0} /\ p \in Nat \ {0} /\ f \in Nat \ {0} /\ o \in Nat \ {0}
  BY GeometryAssumption
<1>2. /\ pgs_per_oneshotpg(g) = p * f /\ flashpgs_per_blk(g) = f * o
      /\ pgs_per_blk(g) = (p * f) * o /\ tt_luns(g) = m * n /\ pgs_per_line(g) = (m * n) * ((p * f) * o)
  BY DEF pgs_per_oneshotpg, flashpgs_per_blk, pgs_per_blk, tt_luns, pgs_per_line
<1> HIDE DEF n, m, p, f, o
<1>3. ASSUME NEW a \in Nat \ {0}, NEW b \in Nat \ {0}
      PROVE  a * b \in Nat \ {0}
  OBVIOUS
<1>4. p * f \in Nat \ {0} /\ f * o \in Nat \ {0} /\ m * n \in Nat \ {0}
  BY <1>1, <1>3
<1>5. (p * f) * o \in Nat \ {0}
  BY <1>1, <1>3, <1>4
<1>6. (p * f) * o = o * (p * f) /\ (p * f) * o = (f * o) * p
  BY <1>1
<1>7. (m * n) * ((p * f) * o) = (o * (m * n)) * (p * f)
  BY <1>1
<1>8. (m * n) * ((p * f) * o) = ((f * o) * (n * m)) * p
  BY <1>1
<1> QED BY <1>1, <1>2, <1>4, <1>5, <1>6, <1>7, <1>8 DEF n, m, p, f, o

\* where the page with these digits comes in the order of the writes, in the
\* order of the collector, and the page itself in both
WriteAt(g, w, l, c, r) == Place(pgs_per_oneshotpg(g), g.nchs, g.luns_per_ch, w, l, c, r)
CleanAt(g, f, c, l, s) == Place(g.pgs_per_flashpg, g.luns_per_ch, g.nchs, f, c, l, s)
PageAt(k, w, l, c, r) == [ch |-> c, lun |-> l, pg |-> w * k + r]

\* a number of pages in groups of k
LEMMA Groups ==
    ASSUME NEW k \in Nat \ {0}, NEW v \in Nat, NEW w \in Nat, NEW r \in 0 .. k - 1
    PROVE  w < v <=> w * k + r < v * k
<1> DEFINE x == w * k
           y == v * k
<1>1. (w < v => w * k + k <= v * k) /\ (v <= w => v * k <= w * k) /\ w * k \in Int /\ v * k \in Int
  BY MulOrder
<1>2. (w < v => x + k <= y) /\ (v <= w => y <= x) /\ x \in Int /\ y \in Int
  BY <1>1
<1> HIDE DEF x, y
<1>3. w < v <=> x + r < y
  BY <1>2
<1> QED BY <1>3 DEF x, y

LEMMA PageForms ==
    ASSUME NEW g \in Geometries, NEW k \in Nat \ {0}, NEW v \in Nat, pgs_per_blk(g) = v * k,
           NEW w \in 0 .. v - 1, NEW l \in 0 .. g.luns_per_ch - 1, NEW c \in 0 .. g.nchs - 1,
           NEW r \in 0 .. k - 1
    PROVE  PageAt(k, w, l, c, r) \in PagesOf(g)
<1>1. w * k + r < v * k
  BY Groups
<1>2. w * k + r \in Nat /\ v * k \in Nat
  OBVIOUS
<1> DEFINE x == w * k + r
           y == v * k
<1> HIDE DEF x, y
<1>3. x \in 0 .. y - 1
  BY <1>1, <1>2 DEF x, y
<1>4. y = pgs_per_blk(g)
  BY DEF y
<1> QED BY <1>3, <1>4 DEF PageAt, PagesOf, x

\* a block is v groups of k pages
BlockHas(g, v, k) == pgs_per_blk(g) = v * k

LEMMA PageDigits ==
    ASSUME NEW g \in Geometries, NEW k \in Nat \ {0}, NEW v \in Nat, BlockHas(g, v, k),
           NEW p \in PagesOf(g)
    PROVE  \E w \in 0 .. v - 1, r \in 0 .. k - 1 : p = PageAt(k, w, p.lun, p.ch, r)
<1>1. p.pg \in 0 .. pgs_per_blk(g) - 1 /\ p = [ch |-> p.ch, lun |-> p.lun, pg |-> p.pg]
  BY DEF PagesOf
<1>2. p.pg \in Nat /\ pgs_per_blk(g) \in Nat /\ p.pg < pgs_per_blk(g)
  BY <1>1, GeometryTypes
<1> DEFINE x == p.pg
<1> HIDE DEF x
<1>3. PICK w \in Nat : \E r \in 0 .. k - 1 : w = x \div k /\ r = x % k /\ x = w * k + r
  BY <1>2, Division DEF x
<1>4. PICK r \in 0 .. k - 1 : x = w * k + r
  BY <1>3
<1>5. w < v
  <2>1. pgs_per_blk(g) = v * k
    BY DEF BlockHas
  <2> QED BY <1>2, <1>4, <2>1, Groups DEF x
<1> QED BY <1>1, <1>4, <1>5 DEF PageAt, x

\* different digits are different pages
LEMMA PageUnique ==
    ASSUME NEW k \in Nat \ {0}, NEW w \in Nat, NEW r \in 0 .. k - 1, NEW v \in Nat, NEW s \in 0 .. k - 1,
           NEW l, NEW c, NEW l2, NEW c2, PageAt(k, w, l, c, r) = PageAt(k, v, l2, c2, s)
    PROVE  w = v /\ r = s /\ l = l2 /\ c = c2
<1>1. w * k + r = v * k + s /\ l = l2 /\ c = c2
  BY DEF PageAt
<1>2. (w * k + r) \div k = w /\ (w * k + r) % k = r /\ (v * k + s) \div k = v /\ (v * k + s) % k = s
  BY DivMod
<1> QED BY <1>1, <1>2

LEMMA WriteForms ==
    ASSUME NEW g \in Geometries, NEW w \in 0 .. g.oneshotpgs_per_blk - 1,
           NEW l \in 0 .. g.luns_per_ch - 1, NEW c \in 0 .. g.nchs - 1,
           NEW r \in 0 .. pgs_per_oneshotpg(g) - 1
    PROVE  /\ WriteAt(g, w, l, c, r) \in 0 .. pgs_per_line(g) - 1
           /\ WritePage(g, WriteAt(g, w, l, c, r)) = PageAt(pgs_per_oneshotpg(g), w, l, c, r)
           /\ WriteOffset(g, PageAt(pgs_per_oneshotpg(g), w, l, c, r)) = WriteAt(g, w, l, c, r)
           /\ PageAt(pgs_per_oneshotpg(g), w, l, c, r) \in PagesOf(g)
<1> DEFINE k == pgs_per_oneshotpg(g)
           n == g.nchs
           m == g.luns_per_ch
           v == g.oneshotpgs_per_blk
           i == WriteAt(g, w, l, c, r)
           p == PageAt(k, w, l, c, r)
<1>1. k \in Nat \ {0} /\ n \in Nat \ {0} /\ m \in Nat \ {0} /\ v \in Nat \ {0} /\ w \in Nat
  BY GeometryTypes
<1>2. i = Place(k, n, m, w, l, c, r) /\ pgs_per_line(g) = (v * (m * n)) * k /\ tt_luns(g) = m * n
  BY GeometryTypes DEF WriteAt, tt_luns
<1>3. l \in 0 .. m - 1 /\ c \in 0 .. n - 1 /\ r \in 0 .. k - 1 /\ w < v
  BY <1>1
<1> HIDE DEF k, n, m, v, i
<1>4. i \in Nat /\ i % k = r /\ i \div k = Mixed(n, m, w, l, c)
      /\ (w * k + r) \div k = w /\ (w * k + r) % k = r
  BY <1>1, <1>2, <1>3, PlaceDigits
<1>5. i < pgs_per_line(g) /\ pgs_per_line(g) \in Nat
  <2>1. /\ w < v <=> Place(k, n, m, w, l, c, r) < (v * (m * n)) * k
        /\ (v * (m * n)) * k \in Nat
    BY <1>1, <1>3, PlaceOrder
  <2> QED BY <1>2, <1>3, <2>1
<1>6. Mixed(n, m, w, l, c) % n = c /\ (Mixed(n, m, w, l, c) \div n) % m = l /\ Mixed(n, m, w, l, c) \div (m * n) = w
  BY <1>1, <1>3, MixedDigits
<1>7. WritePage(g, i) = p
  <2>1. WritePage(g, i) = [ch |-> (i \div k) % n, lun |-> ((i \div k) \div n) % m,
                           pg |-> ((i \div k) \div (m * n)) * k + (i % k)]
    BY <1>2 DEF WritePage, k, n, m
  <2> QED BY <1>4, <1>6, <2>1 DEF PageAt
<1>8. WriteOffset(g, p) = i
  <2>1. p.pg = w * k + r /\ p.lun = l /\ p.ch = c
    BY DEF PageAt
  <2>2. WriteOffset(g, p) = ((p.pg \div k) * (m * n) + p.lun * n + p.ch) * k + (p.pg % k)
    BY <1>2 DEF WriteOffset, k, n
  <2>3. WriteOffset(g, p) = (w * (m * n) + l * n + c) * k + r
    BY <1>4, <2>1, <2>2
  <2> QED BY <1>2, <2>3 DEF Place, Mixed
<1>9. p \in PagesOf(g)
  <2>1. pgs_per_blk(g) = v * k
    BY GeometryTypes DEF v, k
  <2>2. w \in 0 .. v - 1
    BY <1>1, <1>3
  <2> QED BY <1>1, <1>3, <2>1, <2>2, PageForms DEF n, m
<1> QED BY <1>4, <1>5, <1>7, <1>8, <1>9 DEF k, i

LEMMA WriteDigits ==
    ASSUME NEW g \in Geometries, NEW i \in 0 .. pgs_per_line(g) - 1
    PROVE  \E w \in 0 .. g.oneshotpgs_per_blk - 1, l \in 0 .. g.luns_per_ch - 1, c \in 0 .. g.nchs - 1,
              r \in 0 .. pgs_per_oneshotpg(g) - 1 : i = WriteAt(g, w, l, c, r)
<1> DEFINE k == pgs_per_oneshotpg(g)
           n == g.nchs
           m == g.luns_per_ch
           v == g.oneshotpgs_per_blk
<1>1. k \in Nat \ {0} /\ n \in Nat \ {0} /\ m \in Nat \ {0} /\ v \in Nat \ {0}
      /\ pgs_per_line(g) = (v * (m * n)) * k
  BY GeometryTypes
<1> HIDE DEF k, n, m, v
<1>2. i \in Nat
  OBVIOUS
<1>3. PICK w \in Nat, l \in 0 .. m - 1, c \in 0 .. n - 1, r \in 0 .. k - 1 : i = Place(k, n, m, w, l, c, r)
  BY <1>1, <1>2, PlaceExists
<1>4. /\ w < v <=> Place(k, n, m, w, l, c, r) < (v * (m * n)) * k
      /\ (v * (m * n)) * k \in Nat
  BY <1>1, PlaceOrder
<1>5. w \in 0 .. v - 1
  <2>1. i < pgs_per_line(g)
    BY <1>1, <1>4
  <2> QED BY <1>1, <1>3, <1>4, <2>1
<1> QED BY <1>3, <1>5 DEF WriteAt, k, n, m, v

LEMMA CleanForms ==
    ASSUME NEW g \in Geometries, NEW f \in 0 .. flashpgs_per_blk(g) - 1,
           NEW c \in 0 .. g.nchs - 1, NEW l \in 0 .. g.luns_per_ch - 1,
           NEW s \in 0 .. g.pgs_per_flashpg - 1
    PROVE  /\ CleanAt(g, f, c, l, s) \in 0 .. pgs_per_line(g) - 1
           /\ GCPage(g, CleanAt(g, f, c, l, s)) = PageAt(g.pgs_per_flashpg, f, l, c, s)
           /\ PageAt(g.pgs_per_flashpg, f, l, c, s) \in PagesOf(g)
<1> DEFINE k == g.pgs_per_flashpg
           n == g.luns_per_ch
           m == g.nchs
           v == flashpgs_per_blk(g)
           i == CleanAt(g, f, c, l, s)
           p == PageAt(k, f, l, c, s)
<1>1. k \in Nat \ {0} /\ n \in Nat \ {0} /\ m \in Nat \ {0} /\ v \in Nat \ {0} /\ f \in Nat
  BY GeometryTypes
<1>2. i = Place(k, n, m, f, c, l, s) /\ pgs_per_line(g) = (v * (m * n)) * k /\ tt_luns(g) = m * n
  BY GeometryTypes DEF CleanAt, tt_luns
<1>3. c \in 0 .. m - 1 /\ l \in 0 .. n - 1 /\ s \in 0 .. k - 1 /\ f < v
  BY <1>1
<1> HIDE DEF k, n, m, v, i
<1>4. i \in Nat /\ i % k = s /\ i \div k = Mixed(n, m, f, c, l)
  BY <1>1, <1>2, <1>3, PlaceDigits
<1>5. i < pgs_per_line(g) /\ pgs_per_line(g) \in Nat
  <2>1. /\ f < v <=> Place(k, n, m, f, c, l, s) < (v * (m * n)) * k
        /\ (v * (m * n)) * k \in Nat
    BY <1>1, <1>3, PlaceOrder
  <2> QED BY <1>2, <1>3, <2>1
<1>6. Mixed(n, m, f, c, l) % n = l /\ (Mixed(n, m, f, c, l) \div n) % m = c /\ Mixed(n, m, f, c, l) \div (m * n) = f
  BY <1>1, <1>3, MixedDigits
<1>7. GCPage(g, i) = p
  <2>1. GCPage(g, i) = [ch |-> ((i \div k) \div n) % m, lun |-> (i \div k) % n,
                        pg |-> ((i \div k) \div (m * n)) * k + (i % k)]
    BY <1>2 DEF GCPage, k, n, m
  <2> QED BY <1>4, <1>6, <2>1 DEF PageAt
<1>8. p \in PagesOf(g)
  <2>1. pgs_per_blk(g) = v * k
    BY GeometryTypes DEF v, k
  <2>2. f \in 0 .. v - 1
    BY <1>1, <1>3
  <2> QED BY <1>1, <1>3, <2>1, <2>2, PageForms DEF n, m
<1> QED BY <1>4, <1>5, <1>7, <1>8 DEF k, i

LEMMA CleanDigits ==
    ASSUME NEW g \in Geometries, NEW i \in 0 .. pgs_per_line(g) - 1
    PROVE  \E f \in 0 .. flashpgs_per_blk(g) - 1, c \in 0 .. g.nchs - 1, l \in 0 .. g.luns_per_ch - 1,
              s \in 0 .. g.pgs_per_flashpg - 1 : i = CleanAt(g, f, c, l, s)
<1> DEFINE k == g.pgs_per_flashpg
           n == g.luns_per_ch
           m == g.nchs
           v == flashpgs_per_blk(g)
<1>1. k \in Nat \ {0} /\ n \in Nat \ {0} /\ m \in Nat \ {0} /\ v \in Nat \ {0}
      /\ pgs_per_line(g) = (v * (m * n)) * k
  BY GeometryTypes
<1> HIDE DEF k, n, m, v
<1>2. i \in Nat
  OBVIOUS
<1>3. PICK f \in Nat, c \in 0 .. m - 1, l \in 0 .. n - 1, s \in 0 .. k - 1 : i = Place(k, n, m, f, c, l, s)
  BY <1>1, <1>2, PlaceExists
<1>4. /\ f < v <=> Place(k, n, m, f, c, l, s) < (v * (m * n)) * k
      /\ (v * (m * n)) * k \in Nat
  BY <1>1, PlaceOrder
<1>5. f \in 0 .. v - 1
  <2>1. i < pgs_per_line(g)
    BY <1>1, <1>4
  <2> QED BY <1>1, <1>3, <1>4, <2>1
<1> QED BY <1>3, <1>5 DEF CleanAt, k, n, m, v

\* Each page comes once in either order.
LEMMA OrdersOneToOne ==
    ASSUME NEW g \in Geometries
    PROVE  /\ \A i \in 0 .. pgs_per_line(g) - 1 : /\ WritePage(g, i) \in PagesOf(g)
                                                  /\ WriteOffset(g, WritePage(g, i)) = i
                                                  /\ GCPage(g, i) \in PagesOf(g)
           /\ \A p \in PagesOf(g) : /\ WriteOffset(g, p) \in 0 .. pgs_per_line(g) - 1
                                    /\ WritePage(g, WriteOffset(g, p)) = p
                                    /\ \E i \in 0 .. pgs_per_line(g) - 1 : GCPage(g, i) = p
           /\ \A i, j \in 0 .. pgs_per_line(g) - 1 : GCPage(g, i) = GCPage(g, j) => i = j
<1>1. ASSUME NEW i \in 0 .. pgs_per_line(g) - 1
      PROVE  /\ WritePage(g, i) \in PagesOf(g)
             /\ WriteOffset(g, WritePage(g, i)) = i
             /\ GCPage(g, i) \in PagesOf(g)
  <2>1. PICK w \in 0 .. g.oneshotpgs_per_blk - 1, l \in 0 .. g.luns_per_ch - 1, c \in 0 .. g.nchs - 1,
             r \in 0 .. pgs_per_oneshotpg(g) - 1 : i = WriteAt(g, w, l, c, r)
    BY WriteDigits
  <2>2. PICK f \in 0 .. flashpgs_per_blk(g) - 1, cc \in 0 .. g.nchs - 1, ll \in 0 .. g.luns_per_ch - 1,
             s \in 0 .. g.pgs_per_flashpg - 1 : i = CleanAt(g, f, cc, ll, s)
    BY CleanDigits
  <2>3. WritePage(g, i) \in PagesOf(g) /\ WriteOffset(g, WritePage(g, i)) = i
    BY <2>1, WriteForms
  <2>4. GCPage(g, i) \in PagesOf(g)
    BY <2>2, CleanForms
  <2> QED BY <2>3, <2>4
<1>2. ASSUME NEW p \in PagesOf(g)
      PROVE  /\ WriteOffset(g, p) \in 0 .. pgs_per_line(g) - 1
             /\ WritePage(g, WriteOffset(g, p)) = p
             /\ \E i \in 0 .. pgs_per_line(g) - 1 : GCPage(g, i) = p
  <2>1. p.lun \in 0 .. g.luns_per_ch - 1 /\ p.ch \in 0 .. g.nchs - 1
    BY DEF PagesOf
  <2>2. PICK w \in 0 .. g.oneshotpgs_per_blk - 1, r \in 0 .. pgs_per_oneshotpg(g) - 1 :
                p = PageAt(pgs_per_oneshotpg(g), w, p.lun, p.ch, r)
    <3>1. /\ pgs_per_oneshotpg(g) \in Nat \ {0} /\ g.oneshotpgs_per_blk \in Nat
          /\ BlockHas(g, g.oneshotpgs_per_blk, pgs_per_oneshotpg(g))
      BY GeometryTypes DEF BlockHas
    <3> QED BY <3>1, PageDigits
  <2>3. PICK f \in 0 .. flashpgs_per_blk(g) - 1, s \in 0 .. g.pgs_per_flashpg - 1 :
                p = PageAt(g.pgs_per_flashpg, f, p.lun, p.ch, s)
    <3>1. /\ g.pgs_per_flashpg \in Nat \ {0} /\ flashpgs_per_blk(g) \in Nat
          /\ BlockHas(g, flashpgs_per_blk(g), g.pgs_per_flashpg)
      BY GeometryTypes DEF BlockHas
    <3> QED BY <3>1, PageDigits
  <2>4. WriteOffset(g, p) \in 0 .. pgs_per_line(g) - 1 /\ WritePage(g, WriteOffset(g, p)) = p
    BY <2>1, <2>2, WriteForms
  <2>5. GCPage(g, CleanAt(g, f, p.ch, p.lun, s)) = p /\ CleanAt(g, f, p.ch, p.lun, s) \in 0 .. pgs_per_line(g) - 1
    BY <2>1, <2>3, CleanForms
  <2> QED BY <2>4, <2>5
<1>3. ASSUME NEW i \in 0 .. pgs_per_line(g) - 1, NEW j \in 0 .. pgs_per_line(g) - 1, GCPage(g, i) = GCPage(g, j)
      PROVE  i = j
  <2>1. PICK f \in 0 .. flashpgs_per_blk(g) - 1, c \in 0 .. g.nchs - 1, l \in 0 .. g.luns_per_ch - 1,
             s \in 0 .. g.pgs_per_flashpg - 1 : i = CleanAt(g, f, c, l, s)
    BY CleanDigits
  <2>2. PICK f2 \in 0 .. flashpgs_per_blk(g) - 1, c2 \in 0 .. g.nchs - 1, l2 \in 0 .. g.luns_per_ch - 1,
             s2 \in 0 .. g.pgs_per_flashpg - 1 : j = CleanAt(g, f2, c2, l2, s2)
    BY CleanDigits
  <2>3. PageAt(g.pgs_per_flashpg, f, l, c, s) = PageAt(g.pgs_per_flashpg, f2, l2, c2, s2)
    <3>1. GCPage(g, i) = PageAt(g.pgs_per_flashpg, f, l, c, s)
      BY <2>1, CleanForms
    <3>2. GCPage(g, j) = PageAt(g.pgs_per_flashpg, f2, l2, c2, s2)
      BY <2>2, CleanForms
    <3> QED BY <1>3, <3>1, <3>2
  <2>4. f \in Nat /\ f2 \in Nat /\ g.pgs_per_flashpg \in Nat \ {0}
    BY GeometryTypes
  <2>5. f = f2 /\ s = s2 /\ l = l2 /\ c = c2
    BY <2>3, <2>4, PageUnique
  <2> QED BY <2>1, <2>2, <2>5
<1> QED BY <1>1, <1>2, <1>3

(***************************************************************************)
(* The inductive invariant of the walks over a line.                       *)
(***************************************************************************)
\* how far the write pointer has come
FillInv ==
    /\ geo \in Geometries /\ phase \in {"fill", "clean", "done"}
    /\ wpp \in PagesOf(geo) /\ written \in Seq(PagesOf(geo))
    /\ \A i \in 1 .. Len(written) : written[i] = WritePage(geo, i - 1)
    /\ phase = "fill" => Len(written) < pgs_per_line(geo) /\ wpp = WritePage(geo, Len(written))
    /\ phase # "fill" => Len(written) = pgs_per_line(geo)

\* the digits of a page in the order of the writes and what the counters of
\* advance_write_pointer() say of them
WriteDigitsOf(w, l, c, r) ==
    /\ w \in 0 .. geo.oneshotpgs_per_blk - 1 /\ l \in 0 .. geo.luns_per_ch - 1
    /\ c \in 0 .. geo.nchs - 1 /\ r \in 0 .. pgs_per_oneshotpg(geo) - 1
    /\ wpp.ch = c /\ wpp.lun = l /\ wpp.pg = w * pgs_per_oneshotpg(geo) + r
    /\ Len(written) = WriteAt(geo, w, l, c, r)

LEMMA PointerDigits ==
    ASSUME FillInv, phase = "fill"
    PROVE  \E w, l, c, r : WriteDigitsOf(w, l, c, r)
<1>1. Len(written) \in 0 .. pgs_per_line(geo) - 1 /\ geo \in Geometries
  <2>1. Len(written) \in Nat /\ pgs_per_line(geo) \in Nat
    <3>1. Len(written) \in Nat
      BY DEF FillInv
    <3>2. pgs_per_line(geo) = tt_luns(geo) * pgs_per_blk(geo) /\ tt_luns(geo) \in Nat /\ pgs_per_blk(geo) \in Nat
      BY GeometryTypes DEF pgs_per_line, FillInv
    <3> QED BY <3>1, <3>2
  <2> QED BY <2>1 DEF FillInv
<1>2. PICK w \in 0 .. geo.oneshotpgs_per_blk - 1, l \in 0 .. geo.luns_per_ch - 1, c \in 0 .. geo.nchs - 1,
           r \in 0 .. pgs_per_oneshotpg(geo) - 1 : Len(written) = WriteAt(geo, w, l, c, r)
  BY <1>1, WriteDigits
<1>3. WritePage(geo, Len(written)) = PageAt(pgs_per_oneshotpg(geo), w, l, c, r)
  BY <1>1, <1>2, WriteForms
<1>4. wpp = PageAt(pgs_per_oneshotpg(geo), w, l, c, r)
  BY <1>3 DEF FillInv
<1>5. wpp.ch = c /\ wpp.lun = l /\ wpp.pg = w * pgs_per_oneshotpg(geo) + r
  BY <1>4 DEF PageAt
<1>6. WriteDigitsOf(w, l, c, r)
  BY <1>2, <1>5 DEF WriteDigitsOf
<1> QED BY <1>6

\* the tests of advance_write_pointer()
LEMMA PointerTests ==
    ASSUME NEW w, NEW l, NEW c, NEW r, WriteDigitsOf(w, l, c, r), geo \in Geometries
    PROVE  /\ wordline_not_full <=> r + 1 \in 0 .. pgs_per_oneshotpg(geo) - 1
           /\ ~ wordline_not_full => /\ r = pgs_per_oneshotpg(geo) - 1
                                     /\ wordline_start = w * pgs_per_oneshotpg(geo) + 0
                                     /\ wpp.pg + 1 = (w + 1) * pgs_per_oneshotpg(geo) + 0
           /\ last_channel <=> c = geo.nchs - 1
           /\ last_lun <=> l = geo.luns_per_ch - 1
           /\ ~ wordline_not_full => (last_wordline <=> w = geo.oneshotpgs_per_blk - 1)
<1> DEFINE k == pgs_per_oneshotpg(geo)
           v == geo.oneshotpgs_per_blk
<1>1. k \in Nat \ {0} /\ v \in Nat \ {0} /\ geo.nchs \in Nat /\ geo.luns_per_ch \in Nat /\ pgs_per_blk(geo) = v * k
  BY GeometryTypes
<1>2. w \in Nat /\ w < v /\ r \in 0 .. k - 1 /\ wpp.pg = w * k + r
  BY <1>1 DEF WriteDigitsOf
<1>3. /\ wordline_not_full <=> (wpp.pg + 1) % k # 0
      /\ wordline_start = wpp.pg + 1 - k
      /\ last_wordline <=> wpp.pg + 1 = v * k
  BY <1>1 DEF wordline_not_full, wordline_start, last_wordline
<1> HIDE DEF k, v
<1> DEFINE wk == w * k
           vk == v * k
<1>4. wk \in Nat /\ vk \in Nat /\ (w + 1) * k = wk + k /\ (w + 1 < v => wk + k < vk)
  <2>1. wk \in Nat /\ vk \in Nat /\ (w + 1) * k = wk + k
    BY <1>1, <1>2
  <2>2. w + 1 < v => (w + 1) * k + k <= v * k
    BY <1>1, <1>2, MulOrder
  <2> HIDE DEF wk
  <2>3. w + 1 < v => (wk + k) + k <= vk
    BY <2>1, <2>2
  <2> HIDE DEF vk
  <2> QED BY <1>1, <2>1, <2>3
<1>5. CASE r + 1 \in 0 .. k - 1
  <2>1. (w * k + (r + 1)) % k = r + 1
    BY <1>1, <1>2, <1>5, DivMod
  <2>2. wpp.pg + 1 = w * k + (r + 1)
    <3> HIDE DEF wk
    <3>1. wk + r + 1 = wk + (r + 1)
      BY <1>2, <1>4
    <3> QED BY <1>2, <3>1 DEF wk
  <2>3. wordline_not_full
    BY <1>2, <1>3, <2>1, <2>2
  <2>4. (last_channel <=> c = geo.nchs - 1) /\ (last_lun <=> l = geo.luns_per_ch - 1)
    BY <1>1 DEF last_channel, last_lun, WriteDigitsOf
  <2> QED BY <1>5, <2>3, <2>4 DEF k
<1>6. CASE r + 1 \notin 0 .. k - 1
  <2>1. r = k - 1
    BY <1>1, <1>2, <1>6
  <2>2. wpp.pg + 1 = wk + k
    <3> HIDE DEF wk
    <3>1. wk + r + 1 = wk + k
      BY <1>1, <1>4, <2>1
    <3> QED BY <1>2, <3>1 DEF wk
  <2>3. (w + 1) * k + 0 = wk + k
    <3> HIDE DEF wk
    <3> QED BY <1>1, <1>4
  <2>4. ((w + 1) * k + 0) % k = 0
    <3>1. w + 1 \in Nat /\ 0 \in 0 .. k - 1
      BY <1>1, <1>2
    <3> QED BY <1>1, <3>1, DivMod
  <2>5. ~ wordline_not_full
    BY <1>3, <2>2, <2>3, <2>4
  <2>6. wordline_start = wk + 0
    <3> HIDE DEF wk
    <3>1. (wk + r) + (1 - k) = wk + 0
      BY <1>1, <1>4, <2>1
    <3>2. wordline_start = wpp.pg + (1 - k)
      BY <1>3
    <3>3. wpp.pg = wk + r
      BY <1>2 DEF wk
    <3> QED BY <3>1, <3>2, <3>3
  <2>7. last_wordline <=> w = v - 1
    <3>1. w = v - 1 => wk + k = vk
      <4>1. w = v - 1 => (w + 1) = v
        BY <1>1, <1>2
      <4> QED BY <1>4, <4>1
    <3>2. w # v - 1 => wk + k # vk
      <4>1. w # v - 1 => w + 1 < v
        BY <1>1, <1>2
      <4> HIDE DEF wk, vk
      <4> QED BY <1>1, <1>4, <4>1
    <3>3. last_wordline <=> wk + k = vk
      BY <1>3, <2>2
    <3> QED BY <3>1, <3>2, <3>3
  <2>8. (last_channel <=> c = geo.nchs - 1) /\ (last_lun <=> l = geo.luns_per_ch - 1)
    BY <1>1 DEF last_channel, last_lun, WriteDigitsOf
  <2> QED BY <1>6, <2>1, <2>2, <2>3, <2>5, <2>6, <2>7, <2>8 DEF k, v
<1> QED BY <1>5, <1>6

LEMMA PageRecord ==
    ASSUME NEW g, wpp \in PagesOf(g), NEW x
    PROVE  [wpp EXCEPT !.pg = x] = [ch |-> wpp.ch, lun |-> wpp.lun, pg |-> x]
<1>1. wpp = [ch |-> wpp.ch, lun |-> wpp.lun, pg |-> wpp.pg]
  BY DEF PagesOf
<1> DEFINE a == wpp.ch
           b == wpp.lun
           d == wpp.pg
<1>2. wpp = [ch |-> a, lun |-> b, pg |-> d]
  BY <1>1
<1> HIDE DEF a, b, d
<1>3. [wpp EXCEPT !.pg = x] = [ch |-> a, lun |-> b, pg |-> x]
  BY <1>2
<1> QED BY <1>3 DEF a, b

LEMMA PointerStep ==
    ASSUME FillInv, phase = "fill"
    PROVE  /\ next_pg_in_wordline \/ next_channel \/ next_lun \/ next_wordline =>
                 Len(written) + 1 < pgs_per_line(geo) /\ wpp' = WritePage(geo, Len(written) + 1)
           /\ line_used_up => Len(written) + 1 = pgs_per_line(geo)
<1>1. geo \in Geometries /\ wpp \in PagesOf(geo)
  BY DEF FillInv
<1>2. PICK w, l, c, r : WriteDigitsOf(w, l, c, r)
  BY PointerDigits
<1> DEFINE k == pgs_per_oneshotpg(geo)
           n == geo.nchs
           m == geo.luns_per_ch
           v == geo.oneshotpgs_per_blk
           i == Len(written)
<1>3. k \in Nat \ {0} /\ n \in Nat \ {0} /\ m \in Nat \ {0} /\ v \in Nat \ {0}
      /\ pgs_per_line(geo) = (v * (m * n)) * k
  BY <1>1, GeometryTypes
<1>4. w \in 0 .. v - 1 /\ l \in 0 .. m - 1 /\ c \in 0 .. n - 1 /\ r \in 0 .. k - 1
      /\ wpp.ch = c /\ wpp.lun = l /\ wpp.pg = w * k + r /\ i = WriteAt(geo, w, l, c, r)
  BY <1>2 DEF WriteDigitsOf
<1>5. /\ wordline_not_full <=> r + 1 \in 0 .. k - 1
      /\ ~ wordline_not_full => /\ r = k - 1
                                /\ wordline_start = w * k + 0
                                /\ wpp.pg + 1 = (w + 1) * k + 0
      /\ last_channel <=> c = n - 1
      /\ last_lun <=> l = m - 1
      /\ ~ wordline_not_full => (last_wordline <=> w = v - 1)
  BY <1>1, <1>2, PointerTests
<1>6. /\ WriteAt(geo, w, l, c, r + 1) = i + 1
      /\ r = k - 1 => WriteAt(geo, w, l, c + 1, 0) = i + 1
      /\ r = k - 1 /\ c = n - 1 => WriteAt(geo, w, l + 1, 0, 0) = i + 1
      /\ r = k - 1 /\ c = n - 1 /\ l = m - 1 => WriteAt(geo, w + 1, 0, 0, 0) = i + 1
  <2>1. /\ k \in Nat \ {0} /\ n \in Nat \ {0} /\ m \in Nat \ {0} /\ w \in Nat
        /\ l \in 0 .. m - 1 /\ c \in 0 .. n - 1 /\ r \in 0 .. k - 1
    BY <1>3, <1>4
  <2>2. i = Place(k, n, m, w, l, c, r)
    BY <1>4 DEF WriteAt
  <2> HIDE DEF k, n, m, v, i
  <2>3. NextPlaces(k, n, m, w, l, c, r)
    BY <2>1, PlaceNext
  <2> QED BY <2>2, <2>3 DEF NextPlaces, WriteAt, k, n, m
<1>7. ASSUME NEW ww \in 0 .. v - 1, NEW ll \in 0 .. m - 1, NEW cc \in 0 .. n - 1, NEW rr \in 0 .. k - 1,
             WriteAt(geo, ww, ll, cc, rr) = i + 1, wpp' = [ch |-> cc, lun |-> ll, pg |-> ww * k + rr]
      PROVE  i + 1 < pgs_per_line(geo) /\ wpp' = WritePage(geo, i + 1)
  <2>1. /\ WriteAt(geo, ww, ll, cc, rr) \in 0 .. pgs_per_line(geo) - 1
        /\ WritePage(geo, WriteAt(geo, ww, ll, cc, rr)) = PageAt(k, ww, ll, cc, rr)
    BY <1>1, WriteForms
  <2>2. i + 1 \in 0 .. pgs_per_line(geo) - 1
    BY <1>7, <2>1
  <2>3. pgs_per_line(geo) \in Nat
    <3>1. pgs_per_line(geo) = tt_luns(geo) * pgs_per_blk(geo) /\ tt_luns(geo) \in Nat /\ pgs_per_blk(geo) \in Nat
      BY <1>1, GeometryTypes DEF pgs_per_line
    <3> QED BY <3>1
  <2>4. i + 1 < pgs_per_line(geo)
    BY <2>2, <2>3
  <2> QED BY <1>7, <2>1, <2>4 DEF PageAt
<1>8. CASE next_pg_in_wordline
  <2>1. r + 1 \in 0 .. k - 1
    BY <1>5, <1>8 DEF next_pg_in_wordline
  <2>2. wpp' = [ch |-> c, lun |-> l, pg |-> wpp.pg + 1]
    BY <1>1, <1>4, <1>8, PageRecord DEF next_pg_in_wordline
  <2>3. wpp.pg + 1 = w * k + (r + 1)
    <3> HIDE DEF k
    <3> DEFINE wk == w * k
    <3>1. wk \in Nat
      BY <1>3, <1>4
    <3> HIDE DEF wk
    <3>2. (wk + r) + 1 = wk + (r + 1)
      BY <1>3, <1>4, <3>1
    <3> QED BY <1>4, <3>2 DEF wk
  <2>4. i + 1 < pgs_per_line(geo) /\ wpp' = WritePage(geo, i + 1)
    BY <1>4, <1>6, <1>7, <2>1, <2>2, <2>3
  <2> QED BY <1>8, <2>1, <2>4, <1>5 DEF line_used_up
<1>9. CASE next_channel
  <2>1. r = k - 1 /\ wordline_start = w * k + 0 /\ c # n - 1
    BY <1>5, <1>9 DEF next_channel
  <2>2. c + 1 \in 0 .. n - 1 /\ 0 \in 0 .. k - 1
    <3>1. k \in Nat \ {0} /\ n \in Nat \ {0} /\ m \in Nat \ {0} /\ v \in Nat \ {0}
      BY <1>3
    <3>2. w \in 0 .. v - 1 /\ l \in 0 .. m - 1 /\ c \in 0 .. n - 1 /\ r \in 0 .. k - 1
      BY <1>4
    <3> HIDE DEF k, n, m, v
    <3> QED BY <2>1, <3>1, <3>2
  <2>3. wpp' = [ch |-> c + 1, lun |-> l, pg |-> w * k + 0]
    BY <1>4, <1>9, <2>1 DEF next_channel
  <2>4. i + 1 < pgs_per_line(geo) /\ wpp' = WritePage(geo, i + 1)
    BY <1>4, <1>6, <1>7, <2>1, <2>2, <2>3
  <2> QED BY <1>9, <2>4 DEF line_used_up, next_channel
<1>10. CASE next_lun
  <2>1. r = k - 1 /\ wordline_start = w * k + 0 /\ c = n - 1 /\ l # m - 1
    BY <1>5, <1>10 DEF next_lun
  <2>2. l + 1 \in 0 .. m - 1 /\ 0 \in 0 .. k - 1 /\ 0 \in 0 .. n - 1
    <3>1. k \in Nat \ {0} /\ n \in Nat \ {0} /\ m \in Nat \ {0} /\ v \in Nat \ {0}
      BY <1>3
    <3>2. w \in 0 .. v - 1 /\ l \in 0 .. m - 1 /\ c \in 0 .. n - 1 /\ r \in 0 .. k - 1
      BY <1>4
    <3> HIDE DEF k, n, m, v
    <3> QED BY <2>1, <3>1, <3>2
  <2>3. wpp' = [ch |-> 0, lun |-> l + 1, pg |-> w * k + 0]
    BY <1>4, <1>10, <2>1 DEF next_lun
  <2>4. i + 1 < pgs_per_line(geo) /\ wpp' = WritePage(geo, i + 1)
    BY <1>4, <1>6, <1>7, <2>1, <2>2, <2>3
  <2> QED BY <1>10, <2>4 DEF line_used_up, next_lun
<1>11. CASE next_wordline
  <2>1. r = k - 1 /\ wpp.pg + 1 = (w + 1) * k + 0 /\ c = n - 1 /\ l = m - 1 /\ w # v - 1
    BY <1>5, <1>11 DEF next_wordline
  <2>2. w + 1 \in 0 .. v - 1 /\ 0 \in 0 .. k - 1 /\ 0 \in 0 .. n - 1 /\ 0 \in 0 .. m - 1
    <3>1. k \in Nat \ {0} /\ n \in Nat \ {0} /\ m \in Nat \ {0} /\ v \in Nat \ {0}
      BY <1>3
    <3>2. w \in 0 .. v - 1 /\ l \in 0 .. m - 1 /\ c \in 0 .. n - 1 /\ r \in 0 .. k - 1
      BY <1>4
    <3> HIDE DEF k, n, m, v
    <3> QED BY <2>1, <3>1, <3>2
  <2>3. wpp' = [ch |-> 0, lun |-> 0, pg |-> (w + 1) * k + 0]
    BY <1>11, <2>1 DEF next_wordline
  <2>4. i + 1 < pgs_per_line(geo) /\ wpp' = WritePage(geo, i + 1)
    BY <1>6, <1>7, <2>1, <2>2, <2>3
  <2> QED BY <1>11, <2>4 DEF line_used_up, next_wordline
<1>12. CASE line_used_up
  <2>1. r = k - 1 /\ c = n - 1 /\ l = m - 1 /\ w = v - 1
    BY <1>5, <1>12 DEF line_used_up
  <2>2. i + 1 = WriteAt(geo, w + 1, 0, 0, 0) /\ w + 1 = v
    BY <1>3, <1>4, <1>6, <2>1
  <2>3. i + 1 = Place(k, n, m, v, 0, 0, 0)
    BY <2>2 DEF WriteAt
  <2> HIDE DEF k, n, m, v, i
  <2>4. Place(k, n, m, v, 0, 0, 0) = (v * (m * n)) * k
    BY <1>3, PlaceStart
  <2>5. i + 1 = pgs_per_line(geo)
    BY <1>3, <2>3, <2>4
  <2> QED BY <1>12, <2>5 DEF i, line_used_up, next_pg_in_wordline, next_channel, next_lun, next_wordline
<1> QED BY <1>8, <1>9, <1>10, <1>11, <1>12

LEMMA FillStep ==
    ASSUME FillInv, NextLine
    PROVE  FillInv'
<1>1. CASE do_gc
  <2>1. phase # "fill" /\ phase' # "fill" /\ phase' \in {"clean", "done"} /\ UNCHANGED <<geo, wpp, written>>
    BY <1>1 DEF do_gc, clean_next_page, finish_flashpg
  <2> QED BY <2>1 DEF FillInv
<1>2. CASE advance_write_pointer
  <2>1. phase = "fill" /\ geo' = geo /\ written' = Append(written, wpp)
    BY <1>2 DEF advance_write_pointer
  <2>2. geo \in Geometries /\ wpp \in PagesOf(geo) /\ written \in Seq(PagesOf(geo)) /\ Len(written) \in Nat
    BY DEF FillInv
  <2>3. written' \in Seq(PagesOf(geo)) /\ Len(written') = Len(written) + 1
        /\ \A i \in 1 .. Len(written) : written'[i] = written[i]
        /\ written'[Len(written) + 1] = wpp
    BY <2>1, <2>2
  <2>4. \A i \in 1 .. Len(written') : written'[i] = WritePage(geo, i - 1)
    <3> SUFFICES ASSUME NEW i \in 1 .. Len(written')
                 PROVE  written'[i] = WritePage(geo, i - 1)
      OBVIOUS
    <3>1. CASE i \in 1 .. Len(written)
      BY <2>3, <3>1 DEF FillInv
    <3>2. CASE i = Len(written) + 1
      <4>1. i - 1 = Len(written)
        BY <2>2, <3>2
      <4> QED BY <2>1, <2>3, <3>2, <4>1 DEF FillInv
    <3> QED BY <2>2, <2>3, <3>1, <3>2
  <2>5. CASE (next_pg_in_wordline \/ next_channel \/ next_lun \/ next_wordline) /\ phase' = "fill"
    <3>1. Len(written) + 1 < pgs_per_line(geo) /\ wpp' = WritePage(geo, Len(written) + 1)
      BY <2>1, <2>5, PointerStep
    <3>2. Len(written) + 1 \in 0 .. pgs_per_line(geo) - 1
      <4>1. pgs_per_line(geo) = tt_luns(geo) * pgs_per_blk(geo) /\ tt_luns(geo) \in Nat /\ pgs_per_blk(geo) \in Nat
        BY <2>2, GeometryTypes DEF pgs_per_line
      <4>2. pgs_per_line(geo) \in Nat
        BY <4>1
      <4> QED BY <2>2, <3>1, <4>2
    <3>3. wpp' \in PagesOf(geo)
      BY <2>2, <3>1, <3>2, OrdersOneToOne
    <3> QED BY <2>1, <2>2, <2>3, <2>4, <2>5, <3>1, <3>3 DEF FillInv
  <2>6. CASE line_used_up /\ phase' = "clean"
    <3>1. Len(written) + 1 = pgs_per_line(geo)
      BY <2>1, <2>6, PointerStep
    <3>2. wpp' \in PagesOf(geo)
      <4>1. geo.nchs \in Nat \ {0} /\ geo.luns_per_ch \in Nat \ {0} /\ pgs_per_blk(geo) \in Nat \ {0}
        BY <2>2, GeometryTypes
      <4>2. wpp' = [ch |-> 0, lun |-> 0, pg |-> 0]
        BY <2>6 DEF line_used_up
      <4>3. 0 \in 0 .. geo.nchs - 1 /\ 0 \in 0 .. geo.luns_per_ch - 1 /\ 0 \in 0 .. pgs_per_blk(geo) - 1
        BY <4>1
      <4> QED BY <4>2, <4>3 DEF PagesOf
    <3> QED BY <2>1, <2>2, <2>3, <2>4, <2>6, <3>1, <3>2 DEF FillInv
  <2> QED BY <1>2, <2>5, <2>6 DEF advance_write_pointer
<1> QED BY <1>1, <1>2 DEF NextLine

LEMMA FirstPlaces ==
    ASSUME NEW g \in Geometries
    PROVE  /\ pgs_per_line(g) \in Nat \ {0}
           /\ [ch |-> 0, lun |-> 0, pg |-> 0] \in PagesOf(g)
           /\ WritePage(g, 0) = [ch |-> 0, lun |-> 0, pg |-> 0]
           /\ CleanAt(g, 0, 0, 0, 0) = 0
<1> DEFINE k == pgs_per_oneshotpg(g)
<1>1. /\ 0 \in 0 .. g.oneshotpgs_per_blk - 1 /\ 0 \in 0 .. g.luns_per_ch - 1 /\ 0 \in 0 .. g.nchs - 1
      /\ 0 \in 0 .. k - 1 /\ k \in Nat \ {0} /\ g.luns_per_ch \in Nat \ {0} /\ g.nchs \in Nat \ {0}
      /\ g.pgs_per_flashpg \in Nat \ {0}
  BY GeometryTypes
<1>2. pgs_per_line(g) \in Nat \ {0}
  <2>1. pgs_per_line(g) = tt_luns(g) * pgs_per_blk(g) /\ tt_luns(g) \in Nat \ {0} /\ pgs_per_blk(g) \in Nat \ {0}
    BY GeometryTypes DEF pgs_per_line
  <2> QED BY <2>1
<1>3. ASSUME NEW a \in Nat, NEW b \in Nat, NEW d \in Nat
      PROVE  Place(d, a, b, 0, 0, 0, 0) = 0
  <2>1. b * a \in Nat /\ 0 * a = 0
    OBVIOUS
  <2>2. 0 * (b * a) = 0
    BY <2>1
  <2>3. Mixed(a, b, 0, 0, 0) = 0
    BY <2>1, <2>2 DEF Mixed
  <2> QED BY <2>3 DEF Place
<1>4. WriteAt(g, 0, 0, 0, 0) = 0 /\ CleanAt(g, 0, 0, 0, 0) = 0
  BY <1>1, <1>3 DEF WriteAt, CleanAt
<1>5. PageAt(k, 0, 0, 0, 0) = [ch |-> 0, lun |-> 0, pg |-> 0]
  <2> HIDE DEF k
  <2>1. 0 * k + 0 = 0
    BY <1>1
  <2> QED BY <2>1 DEF PageAt
<1>6. WritePage(g, 0) = PageAt(k, 0, 0, 0, 0) /\ PageAt(k, 0, 0, 0, 0) \in PagesOf(g)
  BY <1>1, <1>4, WriteForms
<1> QED BY <1>2, <1>4, <1>5, <1>6

LEMMA FillInit == InitLine => FillInv
<1> SUFFICES ASSUME InitLine PROVE FillInv
  OBVIOUS
<1>1. geo \in Geometries /\ written = <<>> /\ wpp = [ch |-> 0, lun |-> 0, pg |-> 0] /\ phase = "fill"
  BY DEF InitLine
<1>2. Len(written) = 0 /\ written \in Seq(PagesOf(geo))
  BY <1>1
<1> QED BY <1>1, <1>2, FirstPlaces DEF FillInv

LEMMA IndexPlace ==
    ASSUME NEW g \in Geometries, NEW b \in 0 .. 2, NEW p \in PagesOf(g)
    PROVE  ppa2pgidx(g, 3, b, p) = Place(pgs_per_blk(g), 3, g.luns_per_ch, p.ch, p.lun, b, p.pg)
<1> DEFINE k == pgs_per_blk(g)
           m == g.luns_per_ch
           x == p.ch
           y == p.lun
           z == p.pg
<1>1. k \in Nat /\ m \in Nat /\ x \in Nat /\ y \in Nat /\ z \in Nat
  BY GeometryTypes DEF PagesOf
<1>2. ppa2pgidx(g, 3, b, p) = x * ((k * 3) * m) + y * (k * 3) + b * k + z
  BY DEF ppa2pgidx
<1> HIDE DEF k, m, x, y, z
<1>3. (x * (m * 3) + y * 3 + b) * k = x * ((k * 3) * m) + y * (k * 3) + b * k
  BY <1>1
<1>4. Place(k, 3, m, x, y, b, z) = (x * (m * 3) + y * 3 + b) * k + z
  BY DEF Place, Mixed
<1> QED BY <1>2, <1>3, <1>4 DEF k, m, x, y, z

LEMMA IndicesDiffer ==
    ASSUME geo \in Geometries
    PROVE  IndexInjective
<1> DEFINE k == pgs_per_blk(geo)
           m == geo.luns_per_ch
           n == geo.nchs
<1>1. k \in Nat \ {0} /\ m \in Nat \ {0} /\ n \in Nat \ {0} /\ 3 \in Nat \ {0}
  BY GeometryTypes
<1>2. ASSUME NEW p \in PagesOf(geo)
      PROVE  /\ p.ch \in 0 .. n - 1 /\ p.lun \in 0 .. m - 1 /\ p.pg \in 0 .. k - 1 /\ p.ch \in Nat
             /\ p = [ch |-> p.ch, lun |-> p.lun, pg |-> p.pg]
  BY <1>1 DEF PagesOf
<1>3. ASSUME NEW b \in 0 .. 2, NEW p \in PagesOf(geo)
      PROVE  /\ ppa2pgidx(geo, 3, b, p) % k = p.pg
             /\ (ppa2pgidx(geo, 3, b, p) \div k) % 3 = b
             /\ ((ppa2pgidx(geo, 3, b, p) \div k) \div 3) % m = p.lun
             /\ (ppa2pgidx(geo, 3, b, p) \div k) \div (m * 3) = p.ch
             /\ ppa2pgidx(geo, 3, b, p) < 3 * pgs_per_line(geo)
  <2> DEFINE x == p.ch
             y == p.lun
             z == p.pg
             i == ppa2pgidx(geo, 3, b, p)
  <2>1. x \in Nat /\ x < n /\ y \in 0 .. m - 1 /\ z \in 0 .. k - 1
    BY <1>1, <1>2
  <2>2. i = Place(k, 3, m, x, y, b, z)
    BY IndexPlace
  <2>3. pgs_per_line(geo) = (m * n) * k
    BY DEF pgs_per_line, tt_luns
  <2> DEFINE e == 3
  <2>9. e \in Nat \ {0} /\ b \in 0 .. e - 1 /\ i = Place(k, e, m, x, y, b, z)
    BY <2>2
  <2> HIDE DEF k, m, n, x, y, z, i, e
  <2>4. i % k = z /\ i \div k = Mixed(e, m, x, y, b)
    BY <1>1, <2>1, <2>2, <2>9, PlaceDigits
  <2>5. Mixed(e, m, x, y, b) % e = b /\ (Mixed(e, m, x, y, b) \div e) % m = y /\ Mixed(e, m, x, y, b) \div (m * e) = x
    BY <1>1, <2>1, <2>9, MixedDigits
  <2>6. x < n <=> Place(k, e, m, x, y, b, z) < (n * (m * e)) * k
    BY <1>1, <2>1, <2>9, PlaceOrder
  <2>7. (n * (m * e)) * k = 3 * ((m * n) * k)
    BY <1>1 DEF e
  <2>8. i < 3 * pgs_per_line(geo)
    BY <2>1, <2>3, <2>6, <2>7, <2>9
  <2> QED BY <2>4, <2>5, <2>8 DEF i, x, y, z, e
<1>4. ASSUME NEW b \in 0 .. 2, NEW c \in 0 .. 2, NEW p \in PagesOf(geo), NEW q \in PagesOf(geo),
             ppa2pgidx(geo, 3, b, p) = ppa2pgidx(geo, 3, c, q)
      PROVE  b = c /\ p = q
  <2> DEFINE i == ppa2pgidx(geo, 3, b, p)
  <2>1. i % k = p.pg /\ (i \div k) % 3 = b /\ ((i \div k) \div 3) % m = p.lun /\ (i \div k) \div (m * 3) = p.ch
    BY <1>3
  <2>2. i % k = q.pg /\ (i \div k) % 3 = c /\ ((i \div k) \div 3) % m = q.lun /\ (i \div k) \div (m * 3) = q.ch
    BY <1>3, <1>4
  <2> HIDE DEF i, k, m
  <2>3. b = c /\ p.pg = q.pg /\ p.lun = q.lun /\ p.ch = q.ch
    BY <2>1, <2>2
  <2> QED BY <1>2, <2>3
<1> QED BY <1>3, <1>4 DEF IndexInjective

\* the pages of a wordline come one after the other
LEMMA WordlineTogether ==
    ASSUME NEW g \in Geometries, NEW i \in 1 .. pgs_per_line(g),
           WritePage(g, i - 1).pg % pgs_per_oneshotpg(g) = pgs_per_oneshotpg(g) - 1
    PROVE  /\ i - pgs_per_oneshotpg(g) + 1 \in 1 .. i
           /\ {q \in PagesOf(g) : /\ q.ch = WritePage(g, i - 1).ch /\ q.lun = WritePage(g, i - 1).lun
                                  /\ q.pg \div pgs_per_oneshotpg(g)
                                       = WritePage(g, i - 1).pg \div pgs_per_oneshotpg(g)}
              = {WritePage(g, j - 1) : j \in (i - pgs_per_oneshotpg(g) + 1) .. i}
<1> DEFINE k == pgs_per_oneshotpg(g)
           n == g.nchs
           m == g.luns_per_ch
           v == g.oneshotpgs_per_blk
           p == WritePage(g, i - 1)
<1>1. k \in Nat \ {0} /\ n \in Nat \ {0} /\ m \in Nat \ {0} /\ v \in Nat \ {0} /\ pgs_per_line(g) \in Nat
      /\ i - 1 \in 0 .. pgs_per_line(g) - 1 /\ i \in Nat
  BY GeometryTypes, FirstPlaces
<1>2. PICK w \in 0 .. v - 1, l \in 0 .. m - 1, c \in 0 .. n - 1, r \in 0 .. k - 1 :
              i - 1 = WriteAt(g, w, l, c, r)
  BY <1>1, WriteDigits
<1>3. p = PageAt(k, w, l, c, r)
  BY <1>2, WriteForms
<1>4. \A t \in 0 .. k - 1 : /\ (w * k + t) \div k = w /\ (w * k + t) % k = t
                            /\ WriteAt(g, w, l, c, t) = Mixed(n, m, w, l, c) * k + t
                            /\ WritePage(g, WriteAt(g, w, l, c, t)) = PageAt(k, w, l, c, t)
                            /\ PageAt(k, w, l, c, t) \in PagesOf(g)
  <2> SUFFICES ASSUME NEW t \in 0 .. k - 1
               PROVE  /\ (w * k + t) \div k = w /\ (w * k + t) % k = t
                      /\ WriteAt(g, w, l, c, t) = Mixed(n, m, w, l, c) * k + t
                      /\ WritePage(g, WriteAt(g, w, l, c, t)) = PageAt(k, w, l, c, t)
                      /\ PageAt(k, w, l, c, t) \in PagesOf(g)
    OBVIOUS
  <2>1. WriteAt(g, w, l, c, t) = Mixed(n, m, w, l, c) * k + t
    BY DEF WriteAt, Place
  <2>2. WritePage(g, WriteAt(g, w, l, c, t)) = PageAt(k, w, l, c, t) /\ PageAt(k, w, l, c, t) \in PagesOf(g)
    BY WriteForms
  <2>3. w \in Nat
    BY <1>1
  <2> HIDE DEF k
  <2>4. (w * k + t) \div k = w /\ (w * k + t) % k = t
    BY <1>1, <2>3, DivMod
  <2> QED BY <2>1, <2>2, <2>4
<1>5. p.pg = w * k + r /\ p.ch = c /\ p.lun = l /\ p.pg % k = k - 1
  BY <1>3 DEF PageAt
<1>6. r = k - 1 /\ p.pg \div k = w
  BY <1>4, <1>5
<1> DEFINE x == Mixed(n, m, w, l, c) * k
<1>7. x \in Nat /\ i - 1 = x + (k - 1)
  <2>1. w \in Nat
    BY <1>1
  <2>2. Mixed(n, m, w, l, c) \in Nat
    BY <1>1, <2>1, MixedDigits
  <2>3. x \in Nat
    <3> DEFINE y == Mixed(n, m, w, l, c)
    <3> HIDE DEF y, k
    <3>1. y * k \in Nat
      BY <1>1, <2>2 DEF y
    <3> QED BY <3>1 DEF y
  <2> QED BY <1>2, <1>4, <1>6, <2>3
<1> DEFINE a == i - k + 1
<1>8. a = x + 1 /\ i = x + k
  <2> HIDE DEF k, x
  <2> QED BY <1>1, <1>7
<1>9. a \in 1 .. i
  <2> HIDE DEF k, x, a
  <2> QED BY <1>1, <1>7, <1>8
<1> DEFINE W == {q \in PagesOf(g) : q.ch = p.ch /\ q.lun = p.lun /\ q.pg \div k = p.pg \div k}
           R == {WritePage(g, j - 1) : j \in a .. i}
<1>10. ASSUME NEW q \in W PROVE q \in R
  <2>1. q \in PagesOf(g) /\ q.ch = c /\ q.lun = l /\ q.pg \div k = w
    BY <1>5, <1>6
  <2>2. PICK w2 \in 0 .. v - 1, t \in 0 .. k - 1 : q = PageAt(k, w2, q.lun, q.ch, t)
    <3>1. BlockHas(g, v, k)
      BY GeometryTypes DEF BlockHas
    <3>2. k \in Nat \ {0} /\ v \in Nat /\ q \in PagesOf(g)
      BY <1>1, <2>1
    <3> HIDE DEF k, v
    <3> QED BY <3>1, <3>2, PageDigits
  <2>3. q.pg = w2 * k + t
    BY <2>2 DEF PageAt
  <2>4. w2 = w
    <3>1. w2 \in Nat
      BY <1>1
    <3> HIDE DEF k
    <3>2. (w2 * k + t) \div k = w2
      BY <1>1, <2>2, <3>1, DivMod
    <3> QED BY <2>1, <2>3, <3>2
  <2>5. q = WritePage(g, x + t)
    BY <1>4, <2>1, <2>2, <2>4
  <2> DEFINE j == x + t + 1
  <2>6. j \in a .. i /\ j - 1 = x + t
    <3> HIDE DEF k, x, a
    <3> QED BY <1>1, <1>7, <1>8, <2>2
  <2> HIDE DEF j
  <2> QED BY <2>5, <2>6
<1>11. ASSUME NEW q \in R PROVE q \in W
  <2>1. PICK j \in a .. i : q = WritePage(g, j - 1)
    OBVIOUS
  <2> DEFINE t == j - 1 - x
  <2>2. t \in 0 .. k - 1 /\ j - 1 = x + t
    <3> HIDE DEF k, x, a
    <3> QED BY <1>1, <1>7, <1>8
  <2> HIDE DEF t
  <2>3. q = PageAt(k, w, l, c, t) /\ q \in PagesOf(g)
    BY <1>4, <2>1, <2>2
  <2>4. q.pg = w * k + t /\ q.ch = c /\ q.lun = l
    BY <2>3 DEF PageAt
  <2>5. q.pg \div k = w
    BY <1>4, <2>2, <2>4
  <2> QED BY <1>5, <1>6, <2>3, <2>4, <2>5
<1>12. W = R
  BY <1>10, <1>11
<1> QED BY <1>9, <1>12

\* the last page of a block in the order of the collector
LastClean(b) == CleanAt(geo, flashpgs_per_blk(geo) - 1, b[1], b[2], geo.pgs_per_flashpg - 1)

\* how far the collector has come, and what it has erased
CleanInv ==
    /\ geo \in Geometries /\ phase \in {"fill", "clean", "done"}
    /\ cleaned \in Seq(PagesOf(geo)) /\ Len(cleaned) <= pgs_per_line(geo)
    /\ freed \in Seq(BlocksOfLine(geo))
    /\ \A i \in 1 .. Len(cleaned) : cleaned[i] = GCPage(geo, i - 1)
    /\ phase # "done" =>
          /\ cur \in [flashpg : 0 .. flashpgs_per_blk(geo) - 1, ch : 0 .. geo.nchs - 1,
                      lun : 0 .. geo.luns_per_ch - 1, i : 0 .. geo.pgs_per_flashpg - 1]
          /\ Len(cleaned) = CleanAt(geo, cur.flashpg, cur.ch, cur.lun, cur.i)
    /\ phase = "done" => Len(cleaned) = pgs_per_line(geo)
    /\ \A b \in BlocksOfLine(geo) : b \in ToSet(freed) <=> LastClean(b) < Len(cleaned)
    /\ \A i, j \in DOMAIN freed : freed[i] = freed[j] => i = j

LEMMA CleanInit == InitLine => CleanInv
<1> SUFFICES ASSUME InitLine PROVE CleanInv
  OBVIOUS
<1>1. /\ geo \in Geometries /\ cleaned = <<>> /\ freed = <<>> /\ phase = "fill"
      /\ cur = [flashpg |-> 0, ch |-> 0, lun |-> 0, i |-> 0]
  BY DEF InitLine
<1>2. Len(cleaned) = 0 /\ cleaned \in Seq(PagesOf(geo)) /\ freed \in Seq(BlocksOfLine(geo)) /\ DOMAIN freed = {}
      /\ ToSet(freed) = {}
  BY <1>1 DEF ToSet
<1>3. pgs_per_line(geo) \in Nat \ {0} /\ CleanAt(geo, 0, 0, 0, 0) = 0
  BY <1>1, FirstPlaces
<1>4. /\ geo.nchs \in Nat \ {0} /\ geo.luns_per_ch \in Nat \ {0} /\ geo.pgs_per_flashpg \in Nat \ {0}
      /\ flashpgs_per_blk(geo) \in Nat \ {0}
  BY <1>1, GeometryTypes
<1>5. cur \in [flashpg : 0 .. flashpgs_per_blk(geo) - 1, ch : 0 .. geo.nchs - 1,
               lun : 0 .. geo.luns_per_ch - 1, i : 0 .. geo.pgs_per_flashpg - 1]
  BY <1>1, <1>4
<1>6. Len(cleaned) = CleanAt(geo, cur.flashpg, cur.ch, cur.lun, cur.i)
  BY <1>1, <1>2, <1>3
<1>7. \A b \in BlocksOfLine(geo) : ~ (LastClean(b) < 0)
  <2> SUFFICES ASSUME NEW b \in BlocksOfLine(geo) PROVE ~ (LastClean(b) < 0)
    OBVIOUS
  <2> DEFINE f == flashpgs_per_blk(geo) - 1
             s == geo.pgs_per_flashpg - 1
  <2>1. b[1] \in 0 .. geo.nchs - 1 /\ b[2] \in 0 .. geo.luns_per_ch - 1
    BY DEF BlocksOfLine
  <2>2. f \in 0 .. flashpgs_per_blk(geo) - 1 /\ s \in 0 .. geo.pgs_per_flashpg - 1
    BY <1>4
  <2> HIDE DEF f, s
  <2>3. CleanAt(geo, f, b[1], b[2], s) \in 0 .. pgs_per_line(geo) - 1
    BY <1>1, <2>1, <2>2, CleanForms
  <2>4. LastClean(b) \in 0 .. pgs_per_line(geo) - 1
    BY <2>3 DEF LastClean, f, s
  <2> QED BY <1>3, <2>4
<1> QED BY <1>1, <1>2, <1>3, <1>5, <1>6, <1>7 DEF CleanInv

\* the page in hand
LEMMA PageInHand ==
    ASSUME CleanInv, phase = "clean"
    PROVE  /\ Len(cleaned) \in 0 .. pgs_per_line(geo) - 1
           /\ gc_page = GCPage(geo, Len(cleaned)) /\ gc_page \in PagesOf(geo)
<1>1. /\ geo \in Geometries /\ Len(cleaned) = CleanAt(geo, cur.flashpg, cur.ch, cur.lun, cur.i)
      /\ cur.flashpg \in 0 .. flashpgs_per_blk(geo) - 1 /\ cur.ch \in 0 .. geo.nchs - 1
      /\ cur.lun \in 0 .. geo.luns_per_ch - 1 /\ cur.i \in 0 .. geo.pgs_per_flashpg - 1
  BY DEF CleanInv
<1>2. gc_page = PageAt(geo.pgs_per_flashpg, cur.flashpg, cur.lun, cur.ch, cur.i)
  BY DEF gc_page, PageAt
<1> QED BY <1>1, <1>2, CleanForms

\* the sequence of the pages cleaned grows by that page
LEMMA OneMoreCleaned ==
    ASSUME CleanInv, phase = "clean", geo' = geo, cleaned' = Append(cleaned, gc_page)
    PROVE  /\ cleaned' \in Seq(PagesOf(geo)) /\ Len(cleaned) \in Nat /\ Len(cleaned') = Len(cleaned) + 1
           /\ Len(cleaned') <= pgs_per_line(geo)
           /\ \A i \in 1 .. Len(cleaned') : cleaned'[i] = GCPage(geo, i - 1)
<1>1. Len(cleaned) \in 0 .. pgs_per_line(geo) - 1 /\ gc_page = GCPage(geo, Len(cleaned)) /\ gc_page \in PagesOf(geo)
  BY PageInHand
<1>2. cleaned \in Seq(PagesOf(geo)) /\ Len(cleaned) \in Nat /\ pgs_per_line(geo) \in Nat
  BY FirstPlaces DEF CleanInv
<1>3. cleaned' \in Seq(PagesOf(geo)) /\ Len(cleaned') = Len(cleaned) + 1
      /\ \A i \in 1 .. Len(cleaned) : cleaned'[i] = cleaned[i]
      /\ cleaned'[Len(cleaned) + 1] = gc_page
  BY <1>1, <1>2
<1>4. Len(cleaned') <= pgs_per_line(geo)
  BY <1>1, <1>2, <1>3
<1>5. \A i \in 1 .. Len(cleaned') : cleaned'[i] = GCPage(geo, i - 1)
  <2> SUFFICES ASSUME NEW i \in 1 .. Len(cleaned')
               PROVE  cleaned'[i] = GCPage(geo, i - 1)
    OBVIOUS
  <2>1. CASE i \in 1 .. Len(cleaned)
    BY <1>3, <2>1 DEF CleanInv
  <2>2. CASE i = Len(cleaned) + 1
    <3>1. i - 1 = Len(cleaned)
      BY <1>2, <2>2
    <3> QED BY <1>1, <1>3, <2>2, <3>1
  <2> QED BY <1>2, <1>3, <2>1, <2>2
<1> QED BY <1>2, <1>3, <1>4, <1>5

\* a block's last page has its own place
LEMMA LastCleanUnique ==
    ASSUME CleanInv, phase = "clean", NEW b \in BlocksOfLine(geo)
    PROVE  /\ LastClean(b) \in Nat
           /\ LastClean(b) = Len(cleaned) <=>
                /\ cur.flashpg = flashpgs_per_blk(geo) - 1 /\ cur.i = geo.pgs_per_flashpg - 1
                /\ b = <<cur.ch, cur.lun>>
<1> DEFINE f == flashpgs_per_blk(geo) - 1
           s == geo.pgs_per_flashpg - 1
           k == geo.pgs_per_flashpg
<1>1. /\ geo \in Geometries /\ Len(cleaned) = CleanAt(geo, cur.flashpg, cur.ch, cur.lun, cur.i)
      /\ cur.flashpg \in 0 .. flashpgs_per_blk(geo) - 1 /\ cur.ch \in 0 .. geo.nchs - 1
      /\ cur.lun \in 0 .. geo.luns_per_ch - 1 /\ cur.i \in 0 .. geo.pgs_per_flashpg - 1
  BY DEF CleanInv
<1>2. b[1] \in 0 .. geo.nchs - 1 /\ b[2] \in 0 .. geo.luns_per_ch - 1 /\ b = <<b[1], b[2]>>
  BY DEF BlocksOfLine
<1>3. flashpgs_per_blk(geo) \in Nat \ {0} /\ k \in Nat \ {0} /\ pgs_per_line(geo) \in Nat
  BY <1>1, GeometryTypes, FirstPlaces
<1>4. f \in 0 .. flashpgs_per_blk(geo) - 1 /\ s \in 0 .. geo.pgs_per_flashpg - 1 /\ f \in Nat /\ cur.flashpg \in Nat
  BY <1>1, <1>3
<1>5. LastClean(b) = CleanAt(geo, f, b[1], b[2], s)
  BY DEF LastClean
<1> HIDE DEF f, s
<1>6. CleanAt(geo, f, b[1], b[2], s) \in 0 .. pgs_per_line(geo) - 1
      /\ GCPage(geo, CleanAt(geo, f, b[1], b[2], s)) = PageAt(k, f, b[2], b[1], s)
  BY <1>1, <1>2, <1>4, CleanForms
<1>7. GCPage(geo, Len(cleaned)) = PageAt(k, cur.flashpg, cur.lun, cur.ch, cur.i)
  BY <1>1, CleanForms
<1>8. LastClean(b) \in Nat
  BY <1>3, <1>5, <1>6
<1>9. ASSUME LastClean(b) = Len(cleaned)
      PROVE  cur.flashpg = f /\ cur.i = s /\ b = <<cur.ch, cur.lun>>
  <2>1. PageAt(k, f, b[2], b[1], s) = PageAt(k, cur.flashpg, cur.lun, cur.ch, cur.i)
    BY <1>5, <1>6, <1>7, <1>9
  <2>2. f = cur.flashpg /\ s = cur.i /\ b[2] = cur.lun /\ b[1] = cur.ch
    <3>1. k \in Nat \ {0} /\ f \in Nat /\ s \in 0 .. k - 1 /\ cur.flashpg \in Nat /\ cur.i \in 0 .. k - 1
      BY <1>1, <1>3, <1>4
    <3> HIDE DEF k
    <3> QED BY <2>1, <3>1, PageUnique
  <2> QED BY <1>2, <2>2
<1>10. ASSUME cur.flashpg = f, cur.i = s, b = <<cur.ch, cur.lun>>
       PROVE  LastClean(b) = Len(cleaned)
  BY <1>1, <1>5, <1>10
<1> QED BY <1>8, <1>9, <1>10 DEF f, s

LEMMA SameErased ==
    ASSUME CleanInv, phase = "clean", geo' = geo, freed' = freed, Len(cleaned') = Len(cleaned) + 1,
           ~ (cur.flashpg = flashpgs_per_blk(geo) - 1 /\ cur.i = geo.pgs_per_flashpg - 1)
    PROVE  /\ \A b \in BlocksOfLine(geo) : b \in ToSet(freed') <=> LastClean(b) < Len(cleaned')
           /\ freed' \in Seq(BlocksOfLine(geo))
           /\ \A i, j \in DOMAIN freed' : freed'[i] = freed'[j] => i = j
<1>1. ASSUME NEW b \in BlocksOfLine(geo)
      PROVE  b \in ToSet(freed') <=> LastClean(b) < Len(cleaned')
  <2>1. LastClean(b) \in Nat /\ LastClean(b) # Len(cleaned)
    BY LastCleanUnique
  <2>2. Len(cleaned) \in Nat
    BY DEF CleanInv
  <2>3. LastClean(b) < Len(cleaned) <=> LastClean(b) < Len(cleaned')
    BY <2>1, <2>2
  <2>4. b \in ToSet(freed) <=> LastClean(b) < Len(cleaned)
    BY DEF CleanInv
  <2> QED BY <2>3, <2>4
<1> QED BY <1>1 DEF CleanInv

LEMMA AppendedSet ==
    ASSUME NEW S, NEW s \in Seq(S), NEW e \in S
    PROVE  ToSet(Append(s, e)) = ToSet(s) \cup {e}
<1> DEFINE t == Append(s, e)
           n == Len(s)
<1>1. /\ n \in Nat /\ DOMAIN s = 1 .. n /\ DOMAIN t = 1 .. n + 1
      /\ \A i \in 1 .. n : t[i] = s[i]
      /\ t[n + 1] = e
  OBVIOUS
<1> HIDE DEF t, n
<1>2. n + 1 \in DOMAIN t /\ (\A i \in DOMAIN t : i \in 1 .. n \/ i = n + 1) /\ (\A i \in 1 .. n : i \in DOMAIN t)
  BY <1>1
<1>3. ASSUME NEW x \in ToSet(t) PROVE x \in ToSet(s) \cup {e}
  <2>1. PICK i \in DOMAIN t : x = t[i]
    BY DEF ToSet
  <2> QED BY <1>1, <1>2, <2>1 DEF ToSet
<1>4. ASSUME NEW x \in ToSet(s) PROVE x \in ToSet(t)
  <2>1. PICK i \in 1 .. n : x = s[i]
    BY <1>1 DEF ToSet
  <2> QED BY <1>1, <1>2, <2>1 DEF ToSet
<1>5. e \in ToSet(t)
  BY <1>1, <1>2 DEF ToSet
<1>6. ToSet(t) = ToSet(s) \cup {e}
  BY <1>3, <1>4, <1>5
<1> QED BY <1>6 DEF t

LEMMA OneMoreErased ==
    ASSUME CleanInv, phase = "clean", geo' = geo, freed' = Append(freed, <<cur.ch, cur.lun>>),
           Len(cleaned') = Len(cleaned) + 1,
           cur.flashpg = flashpgs_per_blk(geo) - 1, cur.i = geo.pgs_per_flashpg - 1
    PROVE  /\ \A b \in BlocksOfLine(geo) : b \in ToSet(freed') <=> LastClean(b) < Len(cleaned')
           /\ freed' \in Seq(BlocksOfLine(geo))
           /\ \A i, j \in DOMAIN freed' : freed'[i] = freed'[j] => i = j
<1> DEFINE e == <<cur.ch, cur.lun>>
<1>1. e \in BlocksOfLine(geo) /\ freed \in Seq(BlocksOfLine(geo)) /\ Len(freed) \in Nat /\ DOMAIN freed = 1 .. Len(freed)
  BY DEF CleanInv, BlocksOfLine
<1>2. freed' = Append(freed, e)
  OBVIOUS
<1> HIDE DEF e
<1>3. freed' \in Seq(BlocksOfLine(geo)) /\ Len(freed') = Len(freed) + 1 /\ DOMAIN freed' = 1 .. Len(freed) + 1
      /\ \A i \in 1 .. Len(freed) : freed'[i] = freed[i]
      /\ freed'[Len(freed) + 1] = e
  BY <1>1, <1>2
<1>4. ToSet(freed') = ToSet(freed) \cup {e}
  BY <1>1, <1>2, AppendedSet
<1>5. ASSUME NEW b \in BlocksOfLine(geo)
      PROVE  b \in ToSet(freed') <=> LastClean(b) < Len(cleaned')
  <2>1. LastClean(b) \in Nat /\ (LastClean(b) = Len(cleaned) <=> b = e)
    BY LastCleanUnique DEF e
  <2>2. Len(cleaned) \in Nat
    BY DEF CleanInv
  <2>3. LastClean(b) < Len(cleaned') <=> LastClean(b) < Len(cleaned) \/ b = e
    BY <2>1, <2>2
  <2>4. b \in ToSet(freed) <=> LastClean(b) < Len(cleaned)
    BY DEF CleanInv
  <2> QED BY <1>4, <2>3, <2>4
<1>6. e \notin ToSet(freed)
  <2>1. LastClean(e) = Len(cleaned)
    BY <1>1, LastCleanUnique DEF e
  <2>2. Len(cleaned) \in Nat
    BY DEF CleanInv
  <2>3. ~ (LastClean(e) < Len(cleaned))
    BY <2>1, <2>2
  <2> QED BY <1>1, <2>3 DEF CleanInv
<1>7. ASSUME NEW i \in DOMAIN freed', NEW j \in DOMAIN freed', freed'[i] = freed'[j]
      PROVE  i = j
  <2>1. \A x \in 1 .. Len(freed) : freed'[x] \in ToSet(freed)
    BY <1>1, <1>3 DEF ToSet
  <2>2. \A x \in 1 .. Len(freed) : freed'[x] # e
    BY <1>6, <2>1
  <2>3. CASE i \in 1 .. Len(freed) /\ j \in 1 .. Len(freed)
    <3>1. freed[i] = freed[j]
      BY <1>3, <1>7, <2>3
    <3> QED BY <1>1, <2>3, <3>1 DEF CleanInv
  <2>4. CASE i = Len(freed) + 1 \/ j = Len(freed) + 1
    <3>1. (i \in 1 .. Len(freed) \/ i = Len(freed) + 1) /\ (j \in 1 .. Len(freed) \/ j = Len(freed) + 1)
      BY <1>1, <1>3
    <3> QED BY <1>3, <1>7, <2>2, <2>4, <3>1
  <2> QED BY <1>1, <1>3, <2>3, <2>4
<1> QED BY <1>3, <1>5, <1>7

\* the counters after the page in hand
LEMMA CountersStep ==
    ASSUME CleanInv, phase = "clean"
    PROVE  /\ cur.i + 1 < geo.pgs_per_flashpg =>
                CleanAt(geo, cur.flashpg, cur.ch, cur.lun, cur.i + 1) = Len(cleaned) + 1
           /\ cur.i + 1 = geo.pgs_per_flashpg =>
                /\ next_loop_counters \in [flashpg : 0 .. flashpgs_per_blk(geo), ch : 0 .. geo.nchs - 1,
                                           lun : 0 .. geo.luns_per_ch - 1, i : 0 .. geo.pgs_per_flashpg - 1]
                /\ CleanAt(geo, next_loop_counters.flashpg, next_loop_counters.ch,
                           next_loop_counters.lun, next_loop_counters.i) = Len(cleaned) + 1
                /\ next_loop_counters.flashpg = flashpgs_per_blk(geo) => Len(cleaned) + 1 = pgs_per_line(geo)
<1> DEFINE k == geo.pgs_per_flashpg
           n == geo.luns_per_ch
           m == geo.nchs
           v == flashpgs_per_blk(geo)
           f == cur.flashpg
           c == cur.ch
           l == cur.lun
           s == cur.i
           N == next_loop_counters
<1>1. k \in Nat \ {0} /\ n \in Nat \ {0} /\ m \in Nat \ {0} /\ v \in Nat \ {0}
      /\ pgs_per_line(geo) = (v * (m * n)) * k
  BY GeometryTypes DEF CleanInv
<1>2. f \in 0 .. v - 1 /\ c \in 0 .. m - 1 /\ l \in 0 .. n - 1 /\ s \in 0 .. k - 1
      /\ cur = [flashpg |-> f, ch |-> c, lun |-> l, i |-> s]
      /\ Len(cleaned) = Place(k, n, m, f, c, l, s)
  BY DEF CleanInv, CleanAt
<1>3. f \in Nat
  BY <1>1, <1>2
<1>4. \A ff, cc, ll, ss : CleanAt(geo, ff, cc, ll, ss) = Place(k, n, m, ff, cc, ll, ss)
  BY DEF CleanAt
<1>5. N = IF l + 1 < n THEN [flashpg |-> f, ch |-> c, lun |-> l + 1, i |-> 0]
          ELSE IF c + 1 < m THEN [flashpg |-> f, ch |-> c + 1, lun |-> 0, i |-> 0]
          ELSE [flashpg |-> f + 1, ch |-> 0, lun |-> 0, i |-> 0]
  BY DEF next_loop_counters
<1> HIDE DEF k, n, m, v, f, c, l, s, N
<1>6. NextPlaces(k, n, m, f, c, l, s)
  BY <1>1, <1>2, <1>3, PlaceNext
<1>7. Place(k, n, m, f, c, l, s + 1) = Len(cleaned) + 1
  BY <1>2, <1>6 DEF NextPlaces
<1>8. ASSUME s + 1 = k
      PROVE  /\ N \in [flashpg : 0 .. v, ch : 0 .. m - 1, lun : 0 .. n - 1, i : 0 .. k - 1]
             /\ Place(k, n, m, N.flashpg, N.ch, N.lun, N.i) = Len(cleaned) + 1
             /\ N.flashpg = v => Len(cleaned) + 1 = pgs_per_line(geo)
  <2>1. s = k - 1 /\ 0 \in 0 .. k - 1 /\ 0 \in 0 .. n - 1 /\ 0 \in 0 .. m - 1 /\ f \in 0 .. v /\ f + 1 \in 0 .. v /\ f # v
    BY <1>1, <1>2, <1>8
  <2>2. CASE l + 1 < n
    <3>1. N = [flashpg |-> f, ch |-> c, lun |-> l + 1, i |-> 0] /\ l + 1 \in 0 .. n - 1
      BY <1>1, <1>2, <1>5, <2>2
    <3>2. Place(k, n, m, f, c, l + 1, 0) = Len(cleaned) + 1
      BY <1>2, <1>6, <2>1 DEF NextPlaces
    <3> QED BY <1>2, <2>1, <3>1, <3>2
  <2>3. CASE ~ (l + 1 < n) /\ c + 1 < m
    <3>1. N = [flashpg |-> f, ch |-> c + 1, lun |-> 0, i |-> 0] /\ c + 1 \in 0 .. m - 1 /\ l = n - 1
      BY <1>1, <1>2, <1>5, <2>3
    <3>2. Place(k, n, m, f, c + 1, 0, 0) = Len(cleaned) + 1
      BY <1>2, <1>6, <2>1, <3>1 DEF NextPlaces
    <3> QED BY <1>2, <2>1, <3>1, <3>2
  <2>4. CASE ~ (l + 1 < n) /\ ~ (c + 1 < m)
    <3>1. N = [flashpg |-> f + 1, ch |-> 0, lun |-> 0, i |-> 0] /\ c = m - 1 /\ l = n - 1
      BY <1>1, <1>2, <1>5, <2>4
    <3>2. Place(k, n, m, f + 1, 0, 0, 0) = Len(cleaned) + 1
      BY <1>2, <1>6, <2>1, <3>1 DEF NextPlaces
    <3>3. Place(k, n, m, v, 0, 0, 0) = pgs_per_line(geo)
      BY <1>1, PlaceStart
    <3>4. N.flashpg = f + 1 /\ N.ch = 0 /\ N.lun = 0 /\ N.i = 0
      BY <3>1
    <3> QED BY <1>2, <2>1, <3>1, <3>2, <3>3, <3>4
  <2> QED BY <2>2, <2>3, <2>4
<1> QED BY <1>4, <1>7, <1>8 DEF k, n, m, v, f, c, l, s, N

LEMMA CleanStep ==
    ASSUME CleanInv, NextLine
    PROVE  CleanInv'
<1>1. CASE advance_write_pointer
  <2>1. phase = "fill" /\ phase' \in {"fill", "clean"} /\ geo' = geo /\ cur' = cur /\ cleaned' = cleaned /\ freed' = freed
    BY <1>1 DEF advance_write_pointer
  <2>2. \A b : LastClean(b)' = LastClean(b')
    BY <2>1 DEF LastClean
  <2> QED BY <2>1 DEF CleanInv, LastClean
<1>2. CASE clean_next_page
  <2>1. /\ phase = "clean" /\ phase' = "clean" /\ geo' = geo /\ freed' = freed
        /\ cur.i + 1 < geo.pgs_per_flashpg /\ cleaned' = Append(cleaned, gc_page)
        /\ cur' = [cur EXCEPT !.i = cur.i + 1]
    BY <1>2 DEF clean_next_page
  <2>2. /\ cleaned' \in Seq(PagesOf(geo)) /\ Len(cleaned) \in Nat /\ Len(cleaned') = Len(cleaned) + 1
        /\ Len(cleaned') <= pgs_per_line(geo)
        /\ \A i \in 1 .. Len(cleaned') : cleaned'[i] = GCPage(geo, i - 1)
    BY <2>1, OneMoreCleaned
  <2>3. /\ cur'.flashpg = cur.flashpg /\ cur'.ch = cur.ch /\ cur'.lun = cur.lun /\ cur'.i = cur.i + 1
        /\ cur' \in [flashpg : 0 .. flashpgs_per_blk(geo) - 1, ch : 0 .. geo.nchs - 1,
                     lun : 0 .. geo.luns_per_ch - 1, i : 0 .. geo.pgs_per_flashpg - 1]
    <3>1. cur \in [flashpg : 0 .. flashpgs_per_blk(geo) - 1, ch : 0 .. geo.nchs - 1,
                   lun : 0 .. geo.luns_per_ch - 1, i : 0 .. geo.pgs_per_flashpg - 1]
      BY <2>1 DEF CleanInv
    <3>2. geo.pgs_per_flashpg \in Nat
      BY GeometryTypes DEF CleanInv
    <3>3. cur.i + 1 \in 0 .. geo.pgs_per_flashpg - 1
      BY <2>1, <3>1, <3>2
    <3> QED BY <2>1, <3>1, <3>3
  <2>4. Len(cleaned') = CleanAt(geo, cur'.flashpg, cur'.ch, cur'.lun, cur'.i)
    BY <2>1, <2>2, <2>3, CountersStep
  <2>5. ~ (cur.i = geo.pgs_per_flashpg - 1)
    <3>1. geo.pgs_per_flashpg \in Nat
      BY GeometryTypes DEF CleanInv
    <3> QED BY <2>1, <3>1
  <2>6. /\ \A b \in BlocksOfLine(geo) : b \in ToSet(freed') <=> LastClean(b) < Len(cleaned')
        /\ freed' \in Seq(BlocksOfLine(geo))
        /\ \A i, j \in DOMAIN freed' : freed'[i] = freed'[j] => i = j
    BY <2>1, <2>2, <2>5, SameErased
  <2> QED BY <2>1, <2>2, <2>3, <2>4, <2>6 DEF CleanInv, LastClean
<1>3. CASE finish_flashpg
  <2>1. /\ phase = "clean" /\ geo' = geo
        /\ cur.i + 1 = geo.pgs_per_flashpg /\ cleaned' = Append(cleaned, gc_page)
        /\ freed' = IF cur.flashpg = flashpgs_per_blk(geo) - 1
                    THEN Append(freed, <<cur.ch, cur.lun>>) ELSE freed
        /\ cur' = next_loop_counters
        /\ phase' = IF cur'.flashpg = flashpgs_per_blk(geo) THEN "done" ELSE "clean"
    BY <1>3 DEF finish_flashpg
  <2>2. /\ cleaned' \in Seq(PagesOf(geo)) /\ Len(cleaned) \in Nat /\ Len(cleaned') = Len(cleaned) + 1
        /\ Len(cleaned') <= pgs_per_line(geo)
        /\ \A i \in 1 .. Len(cleaned') : cleaned'[i] = GCPage(geo, i - 1)
    BY <2>1, OneMoreCleaned
  <2>3. /\ cur' \in [flashpg : 0 .. flashpgs_per_blk(geo), ch : 0 .. geo.nchs - 1,
                     lun : 0 .. geo.luns_per_ch - 1, i : 0 .. geo.pgs_per_flashpg - 1]
        /\ CleanAt(geo, cur'.flashpg, cur'.ch, cur'.lun, cur'.i) = Len(cleaned')
        /\ cur'.flashpg = flashpgs_per_blk(geo) => Len(cleaned') = pgs_per_line(geo)
    BY <2>1, <2>2, CountersStep
  <2>4. phase' # "done" => cur' \in [flashpg : 0 .. flashpgs_per_blk(geo) - 1, ch : 0 .. geo.nchs - 1,
                                     lun : 0 .. geo.luns_per_ch - 1, i : 0 .. geo.pgs_per_flashpg - 1]
    <3> SUFFICES ASSUME phase' # "done"
                 PROVE  cur' \in [flashpg : 0 .. flashpgs_per_blk(geo) - 1, ch : 0 .. geo.nchs - 1,
                                  lun : 0 .. geo.luns_per_ch - 1, i : 0 .. geo.pgs_per_flashpg - 1]
      OBVIOUS
    <3>1. flashpgs_per_blk(geo) \in Nat
      BY GeometryTypes DEF CleanInv
    <3>2. cur'.flashpg # flashpgs_per_blk(geo)
      BY <2>1
    <3>3. cur'.flashpg \in 0 .. flashpgs_per_blk(geo)
      BY <2>3
    <3>4. cur'.flashpg \in 0 .. flashpgs_per_blk(geo) - 1
      BY <3>1, <3>2, <3>3
    <3> QED BY <2>3, <3>4
  <2>5. cur.i = geo.pgs_per_flashpg - 1
    <3>1. geo.pgs_per_flashpg \in Nat /\ cur.i \in 0 .. geo.pgs_per_flashpg - 1
      BY <2>1, GeometryTypes DEF CleanInv
    <3> QED BY <2>1, <3>1
  <2>6. /\ \A b \in BlocksOfLine(geo) : b \in ToSet(freed') <=> LastClean(b) < Len(cleaned')
        /\ freed' \in Seq(BlocksOfLine(geo))
        /\ \A i, j \in DOMAIN freed' : freed'[i] = freed'[j] => i = j
    <3>1. CASE cur.flashpg = flashpgs_per_blk(geo) - 1
      <4>1. freed' = Append(freed, <<cur.ch, cur.lun>>)
        BY <2>1, <3>1
      <4> QED BY <2>1, <2>2, <2>5, <3>1, <4>1, OneMoreErased
    <3>2. CASE cur.flashpg # flashpgs_per_blk(geo) - 1
      <4>1. freed' = freed
        BY <2>1, <3>2
      <4> QED BY <2>1, <2>2, <3>2, <4>1, SameErased
    <3> QED BY <3>1, <3>2
  <2>7. phase' \in {"clean", "done"} /\ (phase' = "done" => cur'.flashpg = flashpgs_per_blk(geo))
    BY <2>1
  <2> QED BY <2>1, <2>2, <2>3, <2>4, <2>6, <2>7 DEF CleanInv, LastClean
<1> QED BY <1>1, <1>2, <1>3 DEF NextLine, do_gc

LineInv == FillInv /\ CleanInv

LEMMA LineInvariant == LineSpec => []LineInv
<1>1. InitLine => LineInv
  BY FillInit, CleanInit DEF LineInv
<1>2. LineInv /\ [NextLine]_lineVars => LineInv'
  <2> SUFFICES ASSUME LineInv, [NextLine]_lineVars PROVE LineInv'
    OBVIOUS
  <2>1. CASE NextLine
    BY <2>1, FillStep, CleanStep DEF LineInv
  <2>2. CASE UNCHANGED lineVars
    BY <2>2 DEF LineInv, FillInv, CleanInv, LastClean, lineVars
  <2> QED BY <2>1, <2>2
<1> QED BY <1>1, <1>2, PTL DEF LineSpec

\* advance_write_pointer() hands out the pages of a line each once, wordline by
\* wordline, in the order of the closed form WritePage, and goes on to the next
\* line when all have been handed out, for every geometry.
THEOREM WritesFillLines == LineSpec => []WriteOrderExact
<1>1. ASSUME LineInv PROVE WriteOrderExact
  <2>1. /\ geo \in Geometries /\ phase \in {"fill", "clean", "done"} /\ wpp \in PagesOf(geo)
        /\ written \in Seq(PagesOf(geo)) /\ cleaned \in Seq(PagesOf(geo)) /\ freed \in Seq(BlocksOfLine(geo))
        /\ Len(written) \in Nat /\ DOMAIN written = 1 .. Len(written)
        /\ pgs_per_line(geo) \in Nat
    BY <1>1, FirstPlaces DEF LineInv, FillInv, CleanInv
  <2>2. LineTypeOK
    BY <2>1 DEF LineTypeOK, ToSet
  <2>3. Len(written) <= pgs_per_line(geo)
    BY <1>1, <2>1 DEF LineInv, FillInv
  <2>4. \A i \in DOMAIN written : written[i] = WritePage(geo, i - 1) /\ WriteOffset(geo, written[i]) = i - 1
    <3> SUFFICES ASSUME NEW i \in DOMAIN written
                 PROVE  written[i] = WritePage(geo, i - 1) /\ WriteOffset(geo, written[i]) = i - 1
      OBVIOUS
    <3>1. written[i] = WritePage(geo, i - 1)
      BY <1>1, <2>1 DEF LineInv, FillInv
    <3>2. i - 1 \in 0 .. pgs_per_line(geo) - 1
      BY <2>1, <2>3
    <3>3. WriteOffset(geo, WritePage(geo, i - 1)) = i - 1
      BY <2>1, <3>2, OrdersOneToOne
    <3> QED BY <3>1, <3>3
  <2>5. phase = "fill" <=> Len(written) < pgs_per_line(geo)
    BY <1>1, <2>1 DEF LineInv, FillInv
  <2>6. phase # "fill" => ToSet(written) = PagesOf(geo)
    <3> SUFFICES ASSUME phase # "fill" PROVE ToSet(written) = PagesOf(geo)
      OBVIOUS
    <3>1. Len(written) = pgs_per_line(geo)
      BY <1>1 DEF LineInv, FillInv
    <3>2. ToSet(written) \subseteq PagesOf(geo)
      BY <2>2 DEF LineTypeOK
    <3>3. ASSUME NEW p \in PagesOf(geo) PROVE p \in ToSet(written)
      <4> DEFINE i == WriteOffset(geo, p) + 1
      <4>1. WriteOffset(geo, p) \in 0 .. pgs_per_line(geo) - 1 /\ WritePage(geo, WriteOffset(geo, p)) = p
        BY <2>1, OrdersOneToOne
      <4>2. i \in DOMAIN written /\ i - 1 = WriteOffset(geo, p)
        BY <2>1, <3>1, <4>1
      <4> HIDE DEF i
      <4>3. written[i] = p
        BY <2>4, <4>1, <4>2
      <4> QED BY <4>2, <4>3 DEF ToSet
    <3> QED BY <3>2, <3>3
  <2>7. IndexInjective
    BY <2>1, IndicesDiffer
  <2>8. ASSUME NEW i \in DOMAIN written, written[i].pg % pgs_per_oneshotpg(geo) = pgs_per_oneshotpg(geo) - 1
        PROVE  {q \in PagesOf(geo) : /\ q.ch = written[i].ch /\ q.lun = written[i].lun
                                     /\ q.pg \div pgs_per_oneshotpg(geo) = written[i].pg \div pgs_per_oneshotpg(geo)}
               = {written[j] : j \in (i - pgs_per_oneshotpg(geo) + 1) .. i}
    <3> DEFINE a == i - pgs_per_oneshotpg(geo) + 1
               p == WritePage(geo, i - 1)
               W == {q \in PagesOf(geo) : /\ q.ch = p.ch /\ q.lun = p.lun
                                          /\ q.pg \div pgs_per_oneshotpg(geo) = p.pg \div pgs_per_oneshotpg(geo)}
    <3>1. i \in 1 .. pgs_per_line(geo) /\ written[i] = p
      BY <2>1, <2>3, <2>4
    <3>2. a \in 1 .. i /\ W = {WritePage(geo, j - 1) : j \in a .. i}
      BY <2>1, <2>8, <3>1, WordlineTogether
    <3> HIDE DEF a
    <3>3. \A j \in a .. i : written[j] = WritePage(geo, j - 1)
      <4>1. \A j \in a .. i : j \in DOMAIN written
        BY <2>1, <3>2
      <4> QED BY <2>4, <4>1
    <3>4. {WritePage(geo, j - 1) : j \in a .. i} = {written[j] : j \in a .. i}
      BY <3>3
    <3> QED BY <3>1, <3>2, <3>4 DEF a
  <2> QED BY <2>2, <2>4, <2>5, <2>6, <2>7, <2>8 DEF WriteOrderExact
<1> QED BY <1>1, LineInvariant, PTL

\* do_gc() looks at every page of a line once and erases a block once, after and
\* as soon as all its pages have been looked at, for every geometry.
THEOREM ErasedAfterCleaned == LineSpec => []CleanedThenErased
<1>1. ASSUME LineInv PROVE CleanedThenErased
  <2>1. /\ geo \in Geometries /\ cleaned \in Seq(PagesOf(geo))
        /\ Len(cleaned) \in Nat /\ DOMAIN cleaned = 1 .. Len(cleaned)
        /\ pgs_per_line(geo) \in Nat /\ Len(cleaned) <= pgs_per_line(geo)
        /\ \A i \in 1 .. Len(cleaned) : cleaned[i] = GCPage(geo, i - 1)
    BY <1>1, FirstPlaces DEF LineInv, CleanInv
  <2>2. ASSUME NEW i \in 0 .. pgs_per_line(geo) - 1
        PROVE  GCPage(geo, i) \in ToSet(cleaned) <=> i < Len(cleaned)
    <3>1. ASSUME i < Len(cleaned) PROVE GCPage(geo, i) \in ToSet(cleaned)
      <4> DEFINE j == i + 1
      <4>1. j \in DOMAIN cleaned /\ j - 1 = i
        BY <2>1, <3>1
      <4> HIDE DEF j
      <4>2. cleaned[j] = GCPage(geo, i)
        BY <2>1, <4>1
      <4> QED BY <4>1, <4>2 DEF ToSet
    <3>2. ASSUME GCPage(geo, i) \in ToSet(cleaned) PROVE i < Len(cleaned)
      <4>1. PICK j \in 1 .. Len(cleaned) : cleaned[j] = GCPage(geo, i)
        BY <2>1, <3>2 DEF ToSet
      <4>2. j - 1 \in 0 .. pgs_per_line(geo) - 1 /\ GCPage(geo, j - 1) = GCPage(geo, i)
        BY <2>1, <4>1
      <4>3. j - 1 = i
        BY <2>1, <4>2, OrdersOneToOne
      <4> QED BY <2>1, <4>3
    <3> QED BY <3>1, <3>2
  <2>3. ASSUME phase = "done"
        PROVE  Len(cleaned) = pgs_per_line(geo) /\ ToSet(cleaned) = PagesOf(geo)
    <3>1. Len(cleaned) = pgs_per_line(geo)
      BY <1>1, <2>3 DEF LineInv, CleanInv
    <3>2. ToSet(cleaned) \subseteq PagesOf(geo)
      BY <2>1 DEF ToSet
    <3>3. ASSUME NEW p \in PagesOf(geo) PROVE p \in ToSet(cleaned)
      <4>1. PICK i \in 0 .. pgs_per_line(geo) - 1 : GCPage(geo, i) = p
        BY <2>1, OrdersOneToOne
      <4>2. i < Len(cleaned)
        BY <2>1, <3>1
      <4> QED BY <2>2, <4>1, <4>2
    <3> QED BY <3>1, <3>2, <3>3
  <2>4. ASSUME NEW b \in BlocksOfLine(geo)
        PROVE  b \in ToSet(freed) <=> \A p \in PagesOf(geo) : <<p.ch, p.lun>> = b => p \in ToSet(cleaned)
    <3> DEFINE k == geo.pgs_per_flashpg
               n == geo.luns_per_ch
               m == geo.nchs
               v == flashpgs_per_blk(geo)
               f == v - 1
               s == k - 1
    <3>1. /\ k \in Nat \ {0} /\ v \in Nat \ {0} /\ n \in Nat \ {0} /\ m \in Nat \ {0}
          /\ pgs_per_blk(geo) = v * k
      BY <2>1, GeometryTypes
    <3>2. b[1] \in 0 .. m - 1 /\ b[2] \in 0 .. n - 1 /\ b = <<b[1], b[2]>>
      BY DEF BlocksOfLine
    <3>3. f \in 0 .. v - 1 /\ s \in 0 .. k - 1 /\ f \in Nat
      BY <3>1
    <3>4. LastClean(b) = CleanAt(geo, f, b[1], b[2], s)
      BY DEF LastClean
    <3> HIDE DEF f, s
    <3>5. /\ LastClean(b) \in 0 .. pgs_per_line(geo) - 1
          /\ GCPage(geo, LastClean(b)) = PageAt(k, f, b[2], b[1], s) /\ PageAt(k, f, b[2], b[1], s) \in PagesOf(geo)
      BY <2>1, <3>2, <3>3, <3>4, CleanForms
    <3>6. b \in ToSet(freed) <=> LastClean(b) < Len(cleaned)
      BY <1>1 DEF LineInv, CleanInv
    <3>7. ASSUME \A p \in PagesOf(geo) : <<p.ch, p.lun>> = b => p \in ToSet(cleaned)
          PROVE  LastClean(b) < Len(cleaned)
      <4> DEFINE p == PageAt(k, f, b[2], b[1], s)
      <4>1. <<p.ch, p.lun>> = b
        BY <3>2 DEF PageAt
      <4>2. p \in ToSet(cleaned)
        BY <3>5, <3>7, <4>1
      <4> QED BY <2>2, <3>5, <4>2
    <3>8. ASSUME LastClean(b) < Len(cleaned), NEW p \in PagesOf(geo), <<p.ch, p.lun>> = b
          PROVE  p \in ToSet(cleaned)
      <4>1. p.ch = b[1] /\ p.lun = b[2]
        BY <3>2, <3>8
      <4>2. PICK w \in 0 .. v - 1, r \in 0 .. k - 1 : p = PageAt(k, w, p.lun, p.ch, r)
        <5>1. k \in Nat \ {0} /\ v \in Nat /\ BlockHas(geo, v, k)
          BY <3>1 DEF BlockHas
        <5> HIDE DEF k, v
        <5> QED BY <2>1, <5>1, PageDigits
      <4>3. /\ CleanAt(geo, w, b[1], b[2], r) \in 0 .. pgs_per_line(geo) - 1
            /\ GCPage(geo, CleanAt(geo, w, b[1], b[2], r)) = p
        BY <2>1, <3>2, <4>1, <4>2, CleanForms
      <4>4. CleanAt(geo, w, b[1], b[2], r) <= LastClean(b)
        <5>1. w \in Nat /\ w <= f
          BY <3>1 DEF f
        <5>2. CleanAt(geo, w, b[1], b[2], r) = Place(k, n, m, w, b[1], b[2], r)
              /\ LastClean(b) = Place(k, n, m, f, b[1], b[2], k - 1)
          BY <3>4 DEF CleanAt, s
        <5> HIDE DEF k, n, m, v
        <5>3. w <= f => Place(k, n, m, w, b[1], b[2], r) <= Place(k, n, m, f, b[1], b[2], k - 1)
          BY <3>1, <3>2, <3>3, <5>1, PlaceOrder
        <5> QED BY <5>1, <5>2, <5>3
      <4>5. CleanAt(geo, w, b[1], b[2], r) < Len(cleaned)
        BY <2>1, <3>5, <3>8, <4>3, <4>4
      <4> QED BY <2>2, <4>3, <4>5
    <3> QED BY <3>6, <3>7, <3>8
  <2>5. \A i, j \in DOMAIN freed : freed[i] = freed[j] => i = j
    BY <1>1 DEF LineInv, CleanInv
  <2> QED BY <2>1, <2>3, <2>4, <2>5 DEF CleanedThenErased
<1> QED BY <1>1, LineInvariant, PTL
=============================================================================
