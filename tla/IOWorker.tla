------------------------------ MODULE IOWorker ------------------------------
(***************************************************************************)
(* The work queue between the dispatcher thread and one I/O worker thread  *)
(* of src/io.c.  Entries of a static array are chained into a free list    *)
(* and a list of requests; there is no lock.  The dispatcher is the only   *)
(* writer of the chains, the worker the only one that marks an entry       *)
(* copied or completed.  A step is what one thread does between two reads  *)
(* or writes the other thread can observe; x86 keeps the order of a        *)
(* thread's stores.                                                        *)
(*                                                                         *)
(* A request is a number; `due' is the ret->nsecs_target the FTL gave it.  *)
(***************************************************************************)
EXTENDS Integers, FiniteSets

CONSTANTS
    NR_MAX_PARALLEL_IO,   \* entries of the work queue
    MaxReqs,              \* bound: requests made in a behaviour
    MaxTime,              \* bound: the clock stops here
    PromptWorker          \* TRUE: the worker leaves an entry before the
                          \* dispatcher has cycled through all the others

ASSUME SizeAssumption ==
    /\ NR_MAX_PARALLEL_IO \in Nat \ {0, 1}
    /\ MaxReqs \in Nat
    /\ MaxTime \in Nat
    /\ PromptWorker \in BOOLEAN

NIL == -1
Entries == 0 .. NR_MAX_PARALLEL_IO - 1
Index == Entries \cup {NIL}
\* 0 is what a zeroed, never used entry names
Reqs == 1 .. MaxReqs
Times == 0 .. MaxTime

VARIABLES
    work_queue,     \* worker->work_queue
    free_seq, free_seq_end, io_seq, io_seq_end,
    latest_nsecs,   \* worker->latest_nsecs
    now,            \* the wall clock
    disp,           \* dispatcher [pc, req, internal, entry, curr]
    wk,             \* worker [pc, curr, nsecs]
    due,            \* [Reqs -> Times]
    accepted,       \* requests that got an entry
    dropped,        \* requests that found the free list exhausted
    copied,         \* requests whose data was copied
    posted,         \* how often __fill_cq_result() ran for a request
    released        \* how often buffer_release() ran for a request

lists == <<free_seq, free_seq_end, io_seq, io_seq_end>>
history == <<due, accepted, dropped>>
effects == <<copied, posted, released>>
vars == <<work_queue, lists, latest_nsecs, now, disp, wk, history, effects>>

\* how many requests have been made
made == Cardinality(accepted) + Cardinality(dropped)

NVMEV_IO_WORKER_INIT ==
    /\ work_queue = [i \in Entries |->
          [req |-> 0, buf |-> 0, nsecs_target |-> 0,
           is_completed |-> FALSE, is_copied |-> FALSE, is_internal |-> FALSE,
           next |-> IF i = NR_MAX_PARALLEL_IO - 1 THEN NIL ELSE i + 1,
           prev |-> i - 1]]
    /\ free_seq = 0
    /\ free_seq_end = NR_MAX_PARALLEL_IO - 1
    /\ io_seq = NIL
    /\ io_seq_end = NIL
    /\ latest_nsecs = 0

Init ==
    /\ NVMEV_IO_WORKER_INIT
    /\ now = 0
    /\ disp = [pc |-> "idle", req |-> 0, internal |-> FALSE, entry |-> NIL,
               curr |-> NIL]
    /\ wk = [pc |-> "sweep", curr |-> NIL, nsecs |-> 0]
    /\ due = [r \in Reqs |-> 0]
    /\ accepted = {} /\ dropped = {} /\ copied = {}
    /\ posted = [r \in 0 .. MaxReqs |-> 0]
    /\ released = [r \in 0 .. MaxReqs |-> 0]

dispatcher_keeps == <<latest_nsecs, now, wk, effects>>

(***************************************************************************)
(* Dispatcher: __enqueue_io_req() and, from inside the FTL,                *)
(* schedule_internal_operation().                                          *)
(***************************************************************************)
\* __allocate_work_queue_entry() is left with the last free entry
almost_full == work_queue[free_seq].next = NIL

allocate(internal, target) ==
    /\ disp.pc = "idle" /\ made < MaxReqs
    /\ ~almost_full
    /\ PromptWorker => wk.curr # free_seq
    /\ free_seq' = work_queue[free_seq].next
    /\ disp' = [disp EXCEPT !.pc = "init", !.req = made + 1,
                            !.internal = internal, !.entry = free_seq]
    /\ due' = [due EXCEPT ![made + 1] = target]
    /\ accepted' = accepted \cup {made + 1}
    /\ UNCHANGED <<work_queue, free_seq_end, io_seq, io_seq_end, dropped,
                   dispatcher_keeps>>

\* "IO queue is almost full": the request is given up without a completion
drop(internal) ==
    /\ disp.pc = "idle" /\ made < MaxReqs
    /\ almost_full
    /\ dropped' = dropped \cup {made + 1}
    /\ disp' = [disp EXCEPT !.pc = IF internal THEN "idle" ELSE "reclaim"]
    /\ UNCHANGED <<work_queue, lists, due, accepted, dispatcher_keeps>>

\* the fields up to is_completed.  An internal operation leaves command_id and
\* cqid, an I/O request write_buffer, as the entry's last user left them.
init_request ==
    /\ disp.pc = "init"
    /\ work_queue' = [work_queue EXCEPT
          ![disp.entry].req = IF disp.internal THEN @ ELSE disp.req,
          ![disp.entry].nsecs_target = due[disp.req],
          ![disp.entry].is_completed = FALSE]
    /\ disp' = [disp EXCEPT !.pc = "init_copied"]
    /\ UNCHANGED <<lists, history, dispatcher_keeps>>

init_copied ==
    /\ disp.pc = "init_copied"
    /\ work_queue' = [work_queue EXCEPT ![disp.entry].is_copied = disp.internal,
                                        ![disp.entry].prev = NIL,
                                        ![disp.entry].next = NIL]
    /\ disp' = [disp EXCEPT !.pc = "init_internal"]
    /\ UNCHANGED <<lists, history, dispatcher_keeps>>

init_internal ==
    /\ disp.pc = "init_internal"
    /\ work_queue' = [work_queue EXCEPT
          ![disp.entry].is_internal = disp.internal,
          ![disp.entry].buf = IF disp.internal THEN disp.req ELSE @]
    /\ disp' = [disp EXCEPT !.pc = "insert"]
    /\ UNCHANGED <<lists, history, dispatcher_keeps>>

\* __enqueue_io_req() is followed by __reclaim_completed_reqs()
inserted == [disp EXCEPT !.pc = IF disp.internal THEN "idle" ELSE "reclaim",
                         !.entry = NIL, !.curr = NIL]

(***************************************************************************)
(* Dispatcher: __insert_req_sorted().                                      *)
(***************************************************************************)
insert_first ==
    /\ disp.pc = "insert" /\ io_seq = NIL
    /\ io_seq' = disp.entry
    /\ io_seq_end' = disp.entry
    /\ disp' = inserted
    /\ UNCHANGED <<work_queue, free_seq, free_seq_end, history, dispatcher_keeps>>

insert_search ==
    /\ disp.pc = "insert" /\ io_seq # NIL
    /\ disp' = [disp EXCEPT !.pc = "search", !.curr = io_seq_end]
    /\ UNCHANGED <<work_queue, lists, history, dispatcher_keeps>>

\* the two breaks of the search loop
goes_behind(curr) ==
    \/ work_queue[curr].nsecs_target <= latest_nsecs
    \/ work_queue[curr].nsecs_target <= due[disp.req]

search_on ==
    /\ disp.pc = "search" /\ disp.curr # NIL
    /\ disp' = IF goes_behind(disp.curr)
               THEN [disp EXCEPT !.pc = "link"]
               ELSE [disp EXCEPT !.curr = work_queue[disp.curr].prev]
    /\ UNCHANGED <<work_queue, lists, history, dispatcher_keeps>>

insert_head ==
    /\ disp.pc = "search" /\ disp.curr = NIL
    /\ work_queue' = [work_queue EXCEPT ![io_seq].prev = disp.entry,
                                        ![disp.entry].next = io_seq]
    /\ io_seq' = disp.entry
    /\ disp' = inserted
    /\ UNCHANGED <<free_seq, free_seq_end, io_seq_end, history, dispatcher_keeps>>

\* everything but the last store, which makes the entry reachable
insert_link ==
    /\ disp.pc = "link"
    /\ LET curr == disp.curr
           e == disp.entry
           n == work_queue[curr].next
       IN  IF n = NIL
           THEN /\ work_queue' = [work_queue EXCEPT ![e].prev = curr]
                /\ io_seq_end' = e
           ELSE /\ work_queue' = [work_queue EXCEPT ![e].prev = curr,
                                                    ![e].next = n,
                                                    ![n].prev = e]
                /\ UNCHANGED io_seq_end
    /\ disp' = [disp EXCEPT !.pc = "publish"]
    /\ UNCHANGED <<free_seq, free_seq_end, io_seq, history, dispatcher_keeps>>

insert_publish ==
    /\ disp.pc = "publish"
    /\ work_queue' = [work_queue EXCEPT ![disp.curr].next = disp.entry]
    /\ disp' = inserted
    /\ UNCHANGED <<lists, history, dispatcher_keeps>>

(***************************************************************************)
(* Dispatcher: __reclaim_completed_reqs().                                 *)
(***************************************************************************)
reclaimable(e) ==
    /\ work_queue[e].is_completed /\ work_queue[e].is_copied
    /\ work_queue[e].nsecs_target <= latest_nsecs

\* the entries from i on: the least set that holds i and, with each entry, the
\* one behind it
ChainFrom(i) ==
    LET closed == {S \in SUBSET Entries :
                      /\ i = NIL \/ i \in S
                      /\ \A e \in S : work_queue[e].next = NIL \/ work_queue[e].next \in S}
    IN  {e \in Entries : \A S \in closed : e \in S}

\* e is the last entry of the reclaimable prefix of the list
is_last_entry(e) ==
    /\ \A x \in ChainFrom(io_seq) \ (ChainFrom(e) \ {e}) : reclaimable(x)
    /\ LET n == work_queue[e].next IN n = NIL \/ ~reclaimable(n)

nothing_to_reclaim ==
    /\ disp.pc = "reclaim"
    /\ io_seq = NIL \/ ~reclaimable(io_seq)
    /\ disp' = [disp EXCEPT !.pc = "idle"]
    /\ UNCHANGED <<work_queue, lists, history, dispatcher_keeps>>

\* the list begins behind last_entry; disp.entry keeps first_entry
reclaim_detach ==
    /\ disp.pc = "reclaim"
    /\ io_seq # NIL /\ reclaimable(io_seq)
    /\ \E last \in {e \in ChainFrom(io_seq) : is_last_entry(e)} :
          /\ io_seq' = work_queue[last].next
          /\ work_queue' = [i \in Entries |->
                IF i = last THEN [work_queue[i] EXCEPT !.next = NIL]
                ELSE IF i = work_queue[last].next THEN [work_queue[i] EXCEPT !.prev = NIL]
                ELSE work_queue[i]]
          /\ disp' = [disp EXCEPT !.pc = "append", !.entry = io_seq, !.curr = last]
    /\ UNCHANGED <<free_seq, free_seq_end, io_seq_end, history, dispatcher_keeps>>

\* mutant: free_seq_end is not moved
reclaim_append_stale_end ==
    /\ disp.pc = "append"
    /\ work_queue' = [work_queue EXCEPT ![disp.entry].prev = free_seq_end,
                                        ![free_seq_end].next = disp.entry]
    /\ disp' = [disp EXCEPT !.pc = "idle", !.entry = NIL, !.curr = NIL]
    /\ UNCHANGED <<lists, history, dispatcher_keeps>>

reclaim_append ==
    /\ disp.pc = "append"
    /\ work_queue' = [work_queue EXCEPT ![disp.entry].prev = free_seq_end,
                                        ![free_seq_end].next = disp.entry]
    /\ free_seq_end' = disp.curr
    /\ disp' = [disp EXCEPT !.pc = "idle", !.entry = NIL, !.curr = NIL]
    /\ UNCHANGED <<free_seq, io_seq, io_seq_end, history, dispatcher_keeps>>

(***************************************************************************)
(* Worker: one step per observable part of nvmev_io_worker()'s inner loop. *)
(***************************************************************************)
worker_keeps == <<lists, now, disp, history>>
w == work_queue[wk.curr]

\* mutant: the sweep starts at the wrong end
start_sweep_at_end ==
    /\ wk.pc = "sweep" /\ io_seq # NIL
    /\ wk' = [wk EXCEPT !.pc = "visit", !.curr = io_seq_end]
    /\ UNCHANGED <<work_queue, latest_nsecs, worker_keeps, effects>>

start_sweep ==
    /\ wk.pc = "sweep" /\ io_seq # NIL
    /\ wk' = [wk EXCEPT !.pc = "visit", !.curr = io_seq]
    /\ UNCHANGED <<work_queue, latest_nsecs, worker_keeps, effects>>

visit ==
    /\ wk.pc = "visit"
    /\ latest_nsecs' = now
    /\ wk' = [wk EXCEPT !.nsecs = now,
                        !.pc = IF w.is_completed THEN "advance" ELSE "copy"]
    /\ UNCHANGED <<work_queue, worker_keeps, effects>>

copy ==
    /\ wk.pc = "copy"
    /\ copied' = IF ~w.is_copied /\ ~w.is_internal THEN copied \cup {w.req} ELSE copied
    /\ work_queue' = [work_queue EXCEPT ![wk.curr].is_copied = TRUE]
    /\ wk' = [wk EXCEPT !.pc = "due"]
    /\ UNCHANGED <<latest_nsecs, worker_keeps, posted, released>>

not_yet_due ==
    /\ wk.pc = "due" /\ w.nsecs_target > wk.nsecs
    /\ wk' = [wk EXCEPT !.pc = "advance"]
    /\ UNCHANGED <<work_queue, latest_nsecs, worker_keeps, effects>>

\* buffer_release() or __fill_cq_result()
complete ==
    /\ wk.pc = "due" /\ w.nsecs_target <= wk.nsecs
    /\ posted' = IF w.is_internal THEN posted ELSE [posted EXCEPT ![w.req] = @ + 1]
    /\ released' = IF w.is_internal THEN [released EXCEPT ![w.buf] = @ + 1] ELSE released
    /\ wk' = [wk EXCEPT !.pc = "mark"]
    /\ UNCHANGED <<work_queue, latest_nsecs, worker_keeps, copied>>

\* mutant: the entry is never marked
mark_completed_forgotten ==
    /\ wk.pc = "mark"
    /\ wk' = [wk EXCEPT !.pc = "advance"]
    /\ UNCHANGED <<work_queue, latest_nsecs, worker_keeps, effects>>

mark_completed ==
    /\ wk.pc = "mark"
    /\ work_queue' = [work_queue EXCEPT ![wk.curr].is_completed = TRUE]
    /\ wk' = [wk EXCEPT !.pc = "advance"]
    /\ UNCHANGED <<latest_nsecs, worker_keeps, effects>>

\* curr = w->next; the entry may have left the list since
advance ==
    /\ wk.pc = "advance"
    /\ wk' = [wk EXCEPT !.curr = w.next,
                        !.pc = IF w.next = NIL THEN "sweep" ELSE "visit"]
    /\ UNCHANGED <<work_queue, latest_nsecs, worker_keeps, effects>>

tick ==
    /\ now < MaxTime
    /\ now' = now + 1
    /\ UNCHANGED <<work_queue, lists, latest_nsecs, disp, wk, history, effects>>

Dispatcher ==
    \/ init_request \/ init_copied \/ init_internal
    \/ insert_first \/ insert_search \/ search_on
    \/ insert_head \/ insert_link \/ insert_publish
    \/ nothing_to_reclaim \/ reclaim_detach \/ reclaim_append

Submit == \E internal \in BOOLEAN :
    \/ \E target \in now .. MaxTime : allocate(internal, target)
    \/ drop(internal)

nvmev_io_worker ==
    \/ start_sweep \/ visit \/ copy \/ not_yet_due \/ complete
    \/ mark_completed \/ advance

Next == Submit \/ Dispatcher \/ nvmev_io_worker \/ tick

Spec == Init /\ [][Next]_vars

\* Both threads run, each bound to its own CPU, and time passes.
FairSpec == Spec /\ WF_vars(Dispatcher) /\ WF_vars(nvmev_io_worker) /\ WF_vars(tick)

(***************************************************************************)
(* Properties.                                                             *)
(***************************************************************************)
Work == [req : 0 .. MaxReqs, buf : 0 .. MaxReqs, nsecs_target : Times,
         is_completed : BOOLEAN, is_copied : BOOLEAN, is_internal : BOOLEAN,
         next : Index, prev : Index]

\* Every variable has the type its declaration gives it, and the BUG_ON in
\* __allocate_work_queue_entry() holds: free_seq is never exhausted.
TypeOK ==
    /\ work_queue \in [Entries -> Work]
    /\ free_seq \in Entries /\ free_seq_end \in Entries
    /\ io_seq \in Index /\ io_seq_end \in Index
    /\ latest_nsecs \in Times /\ now \in Times
    /\ disp.entry \in Index /\ disp.curr \in Index
    /\ wk.curr \in Index /\ wk.nsecs \in Times

\* entries out of both lists: in the hands of the dispatcher
InHand ==
    IF disp.pc \in {"init", "init_copied", "init_internal", "insert", "search",
                    "link", "publish"} THEN {disp.entry}
    ELSE IF disp.pc = "append" THEN ChainFrom(disp.entry)
    ELSE {}

\* "Requests are placed in @work_queue sorted by their target time": behind an
\* entry the clock of the worker has not passed, no entry is due earlier
SortedAhead ==
    \A e \in ChainFrom(io_seq) :
        LET n == work_queue[e].next
        IN  n # NIL /\ work_queue[e].nsecs_target > latest_nsecs =>
               work_queue[e].nsecs_target <= work_queue[n].nsecs_target

\* The two chains and what the dispatcher holds are disjoint and make up the
\* whole array: an entry is never lost nor handed out while a request still
\* occupies it, each chain ends where its end index says, and backward links
\* mirror the forward links whenever __insert_req_sorted() walks them.  Ahead of
\* the worker's clock the list is sorted by target time.
ChainsIntact ==
    LET free == ChainFrom(free_seq)
        io == ChainFrom(io_seq)
    IN  /\ TypeOK
        /\ free \cap io = {} /\ free \cap InHand = {} /\ io \cap InHand = {}
        /\ free \cup io \cup InHand = Entries
        /\ free_seq_end \in free /\ work_queue[free_seq_end].next = NIL
        /\ io_seq # NIL /\ disp.pc # "publish" =>
              io_seq_end \in io /\ work_queue[io_seq_end].next = NIL
        /\ disp.pc = "search" =>
              /\ work_queue[io_seq].prev = NIL
              /\ \A e \in io :
                    work_queue[e].next # NIL => work_queue[work_queue[e].next].prev = e
        /\ SortedAhead

\* A request is completed once: one completion entry per command, one release
\* per buffer reservation, and none for a request never made.  The host is told
\* of it only after the data is in place and not before the time the
\* performance model computed.
CompletedOnce ==
    /\ posted[0] = 0 /\ released[0] = 0
    /\ \A r \in Reqs :
          /\ posted[r] + released[r] <= 1
          /\ posted[r] + released[r] > 0 => due[r] <= now
          /\ posted[r] > 0 => r \in copied

\* "IO worker shall see the updated w at once": the worker never works on an
\* entry the dispatcher is still filling in.
UpdatedAtOnce ==
    ~ /\ disp.pc \in {"init", "init_copied", "init_internal"}
      /\ wk.pc \in {"copy", "due", "mark"}
      /\ wk.curr = disp.entry

\* Every request that got an entry is completed in the end, wherever the worker
\* stood when it was inserted.  (Requests are bounded: were one of them left
\* behind, there would be a time after which some are always outstanding.)
AcceptedCompletes == []<>(\A r \in accepted : posted[r] + released[r] > 0)
=============================================================================
