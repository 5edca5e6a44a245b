------------------------------- MODULE KvFTL --------------------------------
(***************************************************************************)
(* The key-value SSD (kv_ftl.c, append_only.c).  Pairs are found through a *)
(* table of slots: a key starts at its hash slot and follows next_slot;    *)
(* new keys take the next free slot after the end of that chain.  Values   *)
(* lie in storage handed out by the append-only allocator, and stay where  *)
(* they are when a key is stored again.                                    *)
(*                                                                         *)
(* Commands are performed by the I/O workers, without a lock; a store is   *)
(* four steps here, between which other workers run.  A batch is the       *)
(* stores of its parts, one after the other.  Retrieve and exist change    *)
(* nothing and are operators, which the properties use.  Values are        *)
(* stamped with the number of the store that wrote them, one stamp per     *)
(* unit of storage.                                                        *)
(***************************************************************************)
EXTENDS Integers, FiniteSets, FiniteSetsExt

CONSTANTS
    Keys,       \* keys
    Hash,       \* [Keys -> Slots]: get_hash_slot()
    NSlots,     \* hash_slots
    Lengths,    \* lengths of values, in units of storage
    SmallLength,\* SMALL_LENGTH: lengths above it are never changed in the table
    Cells,      \* bound: units of storage (the allocator itself has no limit)
    MaxStores,  \* bound: stores
    Workers,    \* I/O workers
    Ops,        \* commands the host uses: "store", "batch", "delete", "iter"
    Resize,     \* how the host changes lengths: "shrink" (by single stores, never
                \* above the length with which the key was new) or "any"
    Handles,    \* iterator handles
    Uninitialised, \* those of them that kv_init_namespace() leaves as kmalloc() gave
                \* them: handle 16 of 1 to 16
    MaxPerRead  \* keys that fit into the answer of one iterator read

Slots == 0 .. NSlots - 1
NoKey == "none"

ASSUME KvAssumption ==
    /\ IsFiniteSet(Keys) /\ NoKey \notin Keys
    /\ NSlots \in Nat /\ NSlots > Cardinality(Keys)
    /\ Hash \in [Keys -> Slots]
    /\ Lengths \subseteq Nat \ {0} /\ SmallLength \in Nat /\ Cells \in Nat /\ MaxStores \in Nat
    /\ Resize \in {"shrink", "any"}
    /\ Handles \subseteq Nat /\ Uninitialised \subseteq Handles /\ MaxPerRead \in Nat \ {0}

VARIABLES
    table,      \* kv_mapping_table
    latest,     \* the allocator: storage below it is taken
    storage,    \* the stamps in storage
    w,          \* what every worker is doing
    iter,       \* iter_handle
    stores,     \* stores so far
    last,       \* by key: what the host stored last and the length for which
                \* storage was allocated
    cut,        \* keys stored before a key in front of them in their chain was deleted
    fresh       \* by handle: slots unchanged since it was opened, and slots read

vars == <<table, latest, storage, w, iter, stores, last, cut, fresh>>

Empty == [key |-> NoKey, off |-> -1, len |-> -1, next |-> -1]
Idle == [st |-> "idle", op |-> "none", key |-> NoKey, len |-> 0, ver |-> 0, off |-> -1,
         slot |-> -1, prev |-> -1, resized |-> FALSE]
NoPair == [ver |-> 0, len |-> 0, first |-> 0]
Closed == [open |-> FALSE, pos |-> 0, want |-> {}]
\* a pointer nobody set: not NULL, so that the handle counts as taken
Stray == [open |-> TRUE, pos |-> 0, want |-> {}]

Init ==
    /\ table = [s \in Slots |-> Empty]
    /\ latest = 0
    /\ storage = [c \in 0 .. Cells - 1 |-> 0]
    /\ w = [x \in Workers |-> Idle]
    /\ iter \in [Handles -> {Closed, Stray}]
    /\ \A h \in Handles \ Uninitialised : iter[h] = Closed
    /\ stores = 0
    /\ last = [k \in Keys |-> NoPair]
    /\ cut = {}
    /\ fresh = [h \in Handles |-> [kept |-> {}, read |-> {}]]

(***************************************************************************)
(* The table.                                                              *)
(***************************************************************************)
\* where a search for k goes on from each slot; -1 where it ends
links(k) == [s \in Slots |->
    IF table[s].key = k \/ table[s].next = -1 \/ table[table[s].next].off = -1 THEN -1
    ELSE table[s].next]

\* the slots that are met from s on: s, and where a slot among them leads to
reached(link, s) ==
    LET closed == {C \in SUBSET Slots : s \in C /\ \A c \in C : link[c] \in C \cup {-1}}
    IN  {t \in Slots : \A C \in closed : t \in C}

\* the slots a search for k visits
path(k) == IF table[Hash[k]].off = -1 THEN {} ELSE reached(links(k), Hash[k])

\* the slot of k, or -1: the loop of get_mapping_entry().  (ChainsEnd says that the
\* loop ends)
get_mapping_entry(k) ==
    LET found == {s \in path(k) : table[s].key = k}
    IN  IF found = {} THEN -1 ELSE CHOOSE s \in found : TRUE

\* nvme_cmd_kv_exist: whether the answer is something else than
\* KV_ERR_KEY_NOT_EXIST
exist(k) == get_mapping_entry(k) # -1

\* nvme_cmd_kv_retrieve of a key that exists, into a buffer that is long enough:
\* the bytes copied from storage
retrieve(k) ==
    LET e == table[get_mapping_entry(k)]
    IN  [c \in 0 .. e.len - 1 |-> storage[e.off + c]]

\* the last slot in use of the chain from s; no key stops this walk
chain_end(s) ==
    LET link == links(NoKey) IN CHOOSE t \in reached(link, s) : link[t] = -1

Free == {s \in Slots : table[s].off = -1}

\* the first free slot from s on
free_from(s) == CHOOSE f \in Free : \A g \in Free : (f - s) % NSlots <= (g - s) % NSlots

\* where a new key goes: its hash slot, or behind the end of the chain there
find_next_slot(k) ==
    IF table[Hash[k]].off = -1 THEN [slot |-> Hash[k], prev |-> -1]
    ELSE LET e == chain_end(Hash[k]) IN [slot |-> free_from(e), prev |-> e]

\* Mutants of linked: without the link; with the new entry put before the rest
\* of the chain
linked_unchained(e) ==
    [table EXCEPT ![e.slot].key = e.key, ![e.slot].off = e.off, ![e.slot].len = e.len]

linked_before_rest(e) ==
    LET put == [table EXCEPT ![e.slot].key = e.key, ![e.slot].off = e.off, ![e.slot].len = e.len]
    IN  IF e.prev = -1 THEN put
        ELSE [put EXCEPT ![e.slot].next = table[e.prev].next, ![e.prev].next = e.slot]

\* the table with the new entry linked in; its next_slot is not written
linked(e) ==
    LET put == [table EXCEPT ![e.slot].key = e.key, ![e.slot].off = e.off, ![e.slot].len = e.len]
    IN  IF e.prev = -1 THEN put ELSE [put EXCEPT ![e.prev].next = e.slot]

\* slots that changed are no longer fresh for any iterator
touched(S) == fresh' = [h \in Handles |-> [fresh[h] EXCEPT !.kept = @ \ S]]

(***************************************************************************)
(* Store, alone or as a part of a batch.                                   *)
(***************************************************************************)
Fits(op, k, n) ==
    \/ ~ exist(k)
    \/ Resize = "any"
    \/ Resize = "shrink" /\ op = "store" /\ n <= last[k].first
    \/ n = last[k].len

\* Mutant of append_only_allocate: the last unit is given out twice
append_only_allocate_short(n) == latest + n - 1

\* the allocator's mark after a request
append_only_allocate(n) == latest + n

\* allocate_mem_offset(): the value goes where the mark was
allocate_mem_offset(n) ==
    /\ latest + n <= Cells
    /\ latest' = append_only_allocate(n)

\* whether the new length is to go into the table: a length above SMALL_LENGTH, old
\* or new, is reported and otherwise ignored
resized(n, slot) ==
    /\ slot # -1 /\ n # table[slot].len
    /\ n <= SmallLength /\ table[slot].len <= SmallLength

\* the value of k goes to off; slot is the one of k, or -1
job(op, k, n, off, slot) ==
    [st |-> "copy", op |-> op, key |-> k, len |-> n, ver |-> stores + 1, off |-> off,
     slot |-> slot, prev |-> -1, resized |-> resized(n, slot)]

\* The host keeps one command per key outstanding.  The key is looked up and,
\* if it is new, storage is allocated
lookup(x, op, k, n) ==
    /\ w[x] = Idle /\ \A y \in Workers : w[y].key # k
    /\ stores < MaxStores /\ Fits(op, k, n)
    /\ LET s == get_mapping_entry(k)
       IN  IF s = -1
           THEN /\ allocate_mem_offset(n)
                /\ w' = [w EXCEPT ![x] = job(op, k, n, latest, -1)]
           ELSE /\ table[s].off + n <= Cells
                /\ w' = [w EXCEPT ![x] = job(op, k, n, table[s].off, s)]
                /\ UNCHANGED latest
    /\ stores' = stores + 1
    /\ UNCHANGED <<table, storage, iter, last, cut, fresh>>

\* __do_perform_kv_io() for a store
kv_store(x, k, n) == "store" \in Ops /\ lookup(x, "store", k, n)

\* __do_perform_kv_batched_io(), for every part of a batch
kv_batched_store(x, k, n) == "batch" \in Ops /\ lookup(x, "batch", k, n)

\* the store is over: this is what the host may expect from now on
stored(x) ==
    /\ last' = [last EXCEPT ![w[x].key] =
                [ver |-> w[x].ver, len |-> w[x].len,
                 first |-> IF w[x].st = "link" THEN w[x].len ELSE @.first]]
    /\ cut' = cut \ {w[x].key}

\* the value is copied to storage
write_value(j) ==
    storage' = [c \in DOMAIN storage |->
                   IF c \in j.off .. j.off + j.len - 1 THEN j.ver ELSE storage[c]]

go_on(x, st) == w' = [w EXCEPT ![x].st = st] /\ UNCHANGED <<last, cut>>
finish(x) == w' = [w EXCEPT ![x] = Idle] /\ stored(x)

\* an old key of the same length is done after the copy
copy(x) ==
    /\ w[x].st = "copy" /\ w[x].op = "store"
    /\ write_value(w[x])
    /\ IF w[x].slot = -1 THEN go_on(x, "find")
       ELSE IF w[x].resized THEN go_on(x, "resize")
       ELSE finish(x)
    /\ UNCHANGED <<table, latest, iter, stores, fresh>>

\* in a batch the mapping of an old key is never updated
copy_batched(x) ==
    /\ w[x].st = "copy" /\ w[x].op = "batch"
    /\ write_value(w[x])
    /\ IF w[x].slot = -1 THEN go_on(x, "find") ELSE finish(x)
    /\ UNCHANGED <<table, latest, iter, stores, fresh>>

\* update_mapping_entry(): only the length changes
update_mapping_entry(x) ==
    /\ w[x].st = "resize"
    /\ LET s == get_mapping_entry(w[x].key)
       IN  table' = IF s = -1 THEN table ELSE [table EXCEPT ![s].len = w[x].len]
    /\ w' = [w EXCEPT ![x] = Idle]
    /\ stored(x)
    /\ UNCHANGED <<latest, storage, iter, stores, fresh>>

\* new_mapping_entry(): a slot is looked for
find_slot(x) ==
    /\ w[x].st = "find" /\ Free # {}
    /\ w' = [w EXCEPT ![x] = [@ EXCEPT !.st = "link", !.slot = find_next_slot(w[x].key).slot,
                                       !.prev = find_next_slot(w[x].key).prev]]
    /\ UNCHANGED <<table, latest, storage, iter, stores, last, cut, fresh>>

\* and filled
new_mapping_entry(x) ==
    /\ w[x].st = "link"
    /\ table' = linked(w[x])
    /\ w' = [w EXCEPT ![x] = Idle]
    /\ stored(x)
    /\ touched({w[x].slot})
    /\ UNCHANGED <<latest, storage, iter, stores>>

(***************************************************************************)
(* Delete: the entry is wiped, its link too.  A key that is not there is   *)
(* reported and nothing changes.                                           *)
(***************************************************************************)
delete_mapping_entry(x, k) ==
    /\ w[x] = Idle /\ \A y \in Workers : w[y].key # k
    /\ LET s == get_mapping_entry(k)
       IN  /\ s # -1
           /\ table' = [table EXCEPT ![s] = Empty]
           /\ touched({s})
           /\ cut' = (cut \cup {j \in Keys : last[j].ver # 0 /\ s \in path(j)}) \ {k}
    /\ last' = [last EXCEPT ![k] = NoPair]
    /\ UNCHANGED <<latest, storage, w, iter, stores>>

(***************************************************************************)
(* Iterators.                                                              *)
(***************************************************************************)
\* the lowest free handle; want is the set of keys under the prefix and mask
kv_iter_open(want) ==
    /\ \E h \in Handles : ~ iter[h].open
    /\ LET h == Min({g \in Handles : ~ iter[g].open})
       IN  /\ iter' = [iter EXCEPT ![h] = [open |-> TRUE, pos |-> 0, want |-> want]]
           /\ fresh' = [fresh EXCEPT ![h] = [kept |-> Slots \ Free, read |-> {}]]
    /\ UNCHANGED <<table, latest, storage, w, stores, last, cut>>

\* the host uses the handles it was given
given(h) == iter[h].open /\ iter[h] # Stray

kv_iter_close(h) ==
    /\ given(h)
    /\ iter' = [iter EXCEPT ![h] = Closed]
    /\ fresh' = [fresh EXCEPT ![h] = [kept |-> {}, read |-> {}]]
    /\ UNCHANGED <<table, latest, storage, w, stores, last, cut>>

Hits(h, from) == {s \in Slots : s >= from /\ table[s].off # -1 /\ table[s].key \in iter[h].want}

\* Mutant of stop_at: the key that did not fit is skipped
stop_at_after(h) ==
    LET over == {s \in Hits(h, iter[h].pos) :
                    Cardinality({t \in Hits(h, iter[h].pos) : t < s}) = MaxPerRead}
    IN  IF over = {} THEN NSlots ELSE Min(over) + 1

\* where a read stops: at the first hit that does not fit, or at the end
stop_at(h) ==
    LET over == {s \in Hits(h, iter[h].pos) :
                    Cardinality({t \in Hits(h, iter[h].pos) : t < s}) = MaxPerRead}
    IN  IF over = {} THEN NSlots ELSE Min(over)

kv_iter_read(h) ==
    /\ given(h)
    /\ iter' = [iter EXCEPT ![h].pos = stop_at(h)]
    /\ fresh' = [fresh EXCEPT ![h].read =
                    @ \cup {s \in Hits(h, iter[h].pos) :
                              Cardinality({t \in Hits(h, iter[h].pos) : t < s}) < MaxPerRead}]
    /\ UNCHANGED <<table, latest, storage, w, stores, last, cut>>

Next ==
    \/ \E x \in Workers :
        \/ \E k \in Keys, n \in Lengths : kv_store(x, k, n) \/ kv_batched_store(x, k, n)
        \/ copy(x) \/ copy_batched(x) \/ update_mapping_entry(x) \/ find_slot(x) \/ new_mapping_entry(x)
        \/ "delete" \in Ops /\ \E k \in Keys : delete_mapping_entry(x, k)
    \/ /\ "iter" \in Ops
       /\ \/ \E want \in SUBSET Keys \ {{}} : kv_iter_open(want)
          \/ \E h \in Handles : kv_iter_close(h) \/ kv_iter_read(h)

Spec == Init /\ [][Next]_vars

(***************************************************************************)
(* Properties.                                                             *)
(***************************************************************************)
\* offsets and links stay inside storage and table
TypeOK ==
    /\ \A s \in Slots : /\ table[s].key \in Keys \cup {NoKey}
                        /\ table[s].off \in -1 .. Cells - 1
                        /\ table[s].next \in Slots \cup {-1}
    /\ latest \in 0 .. Cells
    /\ storage \in [0 .. Cells - 1 -> 0 .. MaxStores]
    /\ \A x \in Workers : w[x].st \in {"idle", "copy", "resize", "find", "link"}
    /\ \A h \in Handles : iter[h].pos \in 0 .. NSlots

Quiet == \A x \in Workers : w[x] = Idle

\* between commands, retrieve and exist find exactly the keys that were stored
\* and not deleted since, but for keys that stood behind a deleted one in their
\* chain and were not stored again
FoundUnlessCut == Quiet => \A k \in Keys \ cut : exist(k) = (last[k].ver # 0)

\* kv_retrieve and kv_exist of an existing key find it: the same for all keys
StoredKeysFound == Quiet => \A k \in Keys : exist(k) = (last[k].ver # 0)

\* a retrieve gets the whole value of the last store, and nothing behind it if the
\* key was new with at most SMALL_LENGTH (a longer value that is stored again
\* shorter keeps its old length, and a retrieve gets the end of the old value too)
ValueIntact == Quiet => \A k \in Keys : exist(k) /\ last[k].ver # 0 =>
    /\ \A c \in 0 .. last[k].len - 1 : c \in DOMAIN retrieve(k) /\ retrieve(k)[c] = last[k].ver
    /\ last[k].first <= SmallLength => DOMAIN retrieve(k) = 0 .. last[k].len - 1

\* following next_slot comes to an end from every slot, so that every search
\* does, whatever was deleted and reused: no set of slots leads only to itself;
\* and a slot that is not in use has no
\* link, so that a new entry ends its chain
ChainsEnd ==
    /\ TypeOK
    /\ \A S \in SUBSET Slots : S # {} => \E s \in S : table[s].off = -1 \/ table[s].next \notin S
    /\ \A s \in Slots : table[s].off = -1 => table[s].next = -1

\* an iterator has read every slot it has passed whose entry it should return
\* and that has not changed since it was opened
IteratorMissesNone == \A h \in Handles : iter[h].open =>
    \A s \in fresh[h].kept : s < iter[h].pos /\ table[s].key \in iter[h].want => s \in fresh[h].read
=============================================================================
