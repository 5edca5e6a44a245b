---------------------------- MODULE VictimQueue ----------------------------
(***************************************************************************)
(* The binary heap of src/pqueue/pqueue.c as src/conv_ftl.c uses it for    *)
(* lm->victim_line_pq: priority = line->vpc (least first), position kept   *)
(* in line->pos, 0 meaning "not queued".  An operation changes the array   *)
(* and then moves one line up or down to where it belongs: each round of   *)
(* these loops is a step, and no operation starts before the last has      *)
(* ended (the heap has one user, the dispatcher).                          *)
(***************************************************************************)
EXTENDS Integers, FiniteSets

CONSTANTS
    Lines,        \* lm->tt_lines lines, and the capacity pqueue_init() is given
    PgsPerLine,
    NULL

ASSUME LinesAssumption == IsFiniteSet(Lines) /\ NULL \notin Lines
ASSUME PgsPerLineAssumption == PgsPerLine \in Nat \ {0}

VARIABLES
    q_d,          \* q->d; what lies at size and behind is left over
    q_size,       \* q->size, one more than the number of lines queued
    line_pos,     \* line->pos
    vpc,          \* line->vpc
    sift          \* the loop of bubble_up() or percolate_down()

heapVars == <<q_d, q_size, line_pos, vpc, sift>>

Capacity == Cardinality(Lines)
HeapSlots == 1 .. Capacity

\* dir is the way moving_node goes, i the hole it has left, out the line that
\* select_victim_line() has taken
NoSift == [dir |-> "none", i |-> 0, moving_node |-> NULL, out |-> NULL]

parent(i) == i \div 2
left(i) == 2 * i

\* victim_line_cmp_pri(next, curr)
cmppri(next, curr) == next > curr

bubble_up(i, l) == sift' = [dir |-> "up", i |-> i, moving_node |-> l, out |-> NULL]
percolate_down(i, l, victim) ==
    sift' = [dir |-> "down", i |-> i, moving_node |-> l, out |-> victim]

maxchild(i) ==
    LET c == left(i)
    IN  IF c >= q_size THEN 0
        ELSE IF c + 1 < q_size /\ cmppri(vpc[q_d[c]], vpc[q_d[c + 1]])
             THEN c + 1 ELSE c

(***************************************************************************)
(* The operations.                                                         *)
(***************************************************************************)
pqueue_insert(l) ==
    /\ q_d' = [q_d EXCEPT ![q_size] = l]
    /\ q_size' = q_size + 1
    /\ bubble_up(q_size, l)

\* mutant: the comparison is turned round
pqueue_change_priority_reversed(new_pri, l) ==
    /\ vpc' = [vpc EXCEPT ![l] = new_pri]
    /\ IF cmppri(new_pri, vpc[l])
       THEN bubble_up(line_pos[l], q_d[line_pos[l]])
       ELSE percolate_down(line_pos[l], q_d[line_pos[l]], NULL)

pqueue_change_priority(new_pri, l) ==
    /\ vpc' = [vpc EXCEPT ![l] = new_pri]
    /\ IF cmppri(vpc[l], new_pri)
       THEN bubble_up(line_pos[l], q_d[line_pos[l]])
       ELSE percolate_down(line_pos[l], q_d[line_pos[l]], NULL)

pqueue_peek == IF q_size = 1 THEN NULL ELSE q_d[1]

\* the first element is replaced by the last; the popped line's pos is still
\* that of its last place
pqueue_pop ==
    /\ q_d' = [q_d EXCEPT ![1] = q_d[q_size - 1]]
    /\ q_size' = q_size - 1
    /\ percolate_down(1, q_d[q_size - 1], q_d[1])

(***************************************************************************)
(* A round of the loops, and their ends.                                   *)
(***************************************************************************)
goes_up ==
    /\ sift.i > 1
    /\ cmppri(vpc[q_d[parent(sift.i)]], vpc[sift.moving_node])

goes_down ==
    /\ maxchild(sift.i) # 0
    /\ cmppri(vpc[sift.moving_node], vpc[q_d[maxchild(sift.i)]])

\* the line in slot j moves to the hole
fill_hole_from(j) ==
    /\ q_d' = [q_d EXCEPT ![sift.i] = q_d[j]]
    /\ line_pos' = [line_pos EXCEPT ![q_d[j]] = sift.i]
    /\ sift' = [dir |-> sift.dir, i |-> j, moving_node |-> sift.moving_node, out |-> sift.out]
    /\ UNCHANGED <<q_size, vpc>>

bubble_up_round == sift.dir = "up" /\ goes_up /\ fill_hole_from(parent(sift.i))
percolate_down_round == sift.dir = "down" /\ goes_down /\ fill_hole_from(maxchild(sift.i))

\* moving_node is placed; select_victim_line() then sets the victim's pos to 0
settle ==
    /\ \/ sift.dir = "up" /\ ~ goes_up
       \/ sift.dir = "down" /\ ~ goes_down
    /\ q_d' = [q_d EXCEPT ![sift.i] = sift.moving_node]
    /\ line_pos' = [l \in Lines |-> IF l = sift.out THEN 0
                                    ELSE IF l = sift.moving_node THEN sift.i ELSE line_pos[l]]
    /\ sift' = NoSift
    /\ UNCHANGED <<q_size, vpc>>

(***************************************************************************)
(* The users.                                                              *)
(***************************************************************************)
InitHeap ==
    /\ q_d = [i \in HeapSlots |-> NULL]
    /\ q_size = 1
    /\ line_pos = [l \in Lines |-> 0]
    /\ vpc = [l \in Lines |-> 0]
    /\ sift = NoSift

\* advance_write_pointer() or mark_page_invalid() queues a closed line; its
\* counter was brought to v while it was open or full
enter_victim_queue(l, v) ==
    /\ sift = NoSift
    /\ line_pos[l] = 0
    /\ vpc' = [vpc EXCEPT ![l] = v]
    /\ pqueue_insert(l)
    /\ UNCHANGED line_pos

\* mark_page_invalid() of a page of a queued line ("if (line->pos)")
mark_page_invalid(l) ==
    /\ sift = NoSift
    /\ line_pos[l] # 0
    /\ vpc[l] > 0
    /\ pqueue_change_priority(vpc[l] - 1, l)
    /\ UNCHANGED <<q_d, q_size, line_pos>>

\* select_victim_line(), with force = true as foreground_gc() calls it
select_victim_line(l) ==
    /\ sift = NoSift
    /\ l = pqueue_peek
    /\ pqueue_pop
    /\ UNCHANGED <<line_pos, vpc>>

NextHeap ==
    \/ \E l \in Lines :
          \/ \E v \in 0 .. PgsPerLine - 1 : enter_victim_queue(l, v)
          \/ mark_page_invalid(l)
          \/ select_victim_line(l)
    \/ bubble_up_round
    \/ percolate_down_round
    \/ settle

HeapSpec == InitHeap /\ [][NextHeap]_heapVars

(***************************************************************************)
(* Properties.                                                             *)
(***************************************************************************)
\* the lines in the heap: the hole is the place of the moving one
line_in == [j \in 1 .. q_size - 1 |-> IF j = sift.i THEN sift.moving_node ELSE q_d[j]]
HeapLines == {line_in[j] : j \in 1 .. q_size - 1}

\* The heap stays inside the array pqueue_init() allocated (pqueue_insert()
\* only prints "Need more space in pqueue" and then writes past its end), and
\* its slots hold lines.
HeapTypeOK ==
    /\ q_size \in 1 .. Capacity + 1
    /\ q_d \in [HeapSlots -> Lines \cup {NULL}]
    /\ \A i \in 1 .. q_size - 1 : q_d[i] \in Lines
    /\ line_pos \in [Lines -> 0 .. Capacity]
    /\ vpc \in [Lines -> 0 .. PgsPerLine - 1]

\* line->pos and the heap array describe the same thing: a queued line is at
\* the place its pos names and nowhere else, and a line taken out of the queue
\* has pos 0, so mark_page_invalid()'s test `if (line->pos)' is right about it.
\* No line has fewer valid pages than its parent, although priorities change
\* while lines are queued (pqueue_is_valid()).
HeapConsistent ==
    /\ HeapTypeOK
    /\ \A i \in 1 .. q_size - 1 : line_pos[q_d[i]] = i
    /\ \A l \in Lines : line_pos[l] # 0 => line_pos[l] < q_size /\ q_d[line_pos[l]] = l
    /\ \A i \in 2 .. q_size - 1 : vpc[q_d[parent(i)]] <= vpc[q_d[i]]

\* The heap implements the set of VictimSet: select_victim_line() takes a line
\* with the least number of valid pages, and no operation loses a line; and
\* every operation leaves it consistent.
Abstract == INSTANCE VictimSet WITH queued <- HeapLines
ImplementsVictimSet == Abstract!Spec /\ [][sift' = NoSift => HeapConsistent']_heapVars
============================================================================
