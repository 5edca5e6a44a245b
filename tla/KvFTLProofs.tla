---------------------------- MODULE KvFTLProofs -----------------------------
(***************************************************************************)
(* Proofs about the key-value table (KvFTL), for any number of keys, slots *)
(* and stores, any hash function and any lengths of values.  Nothing locks *)
(* the table: what is said about searches and values holds with one worker *)
(* that performs the commands, what is said about iterators with any       *)
(* number.                                                                 *)
(***************************************************************************)
EXTENDS KvFTL, FiniteSetTheorems, WellFoundedInduction, TLAPS

\* the commands of the device are performed by one worker
OneWorker == \A x, y \in Workers : x = y

(***************************************************************************)
(* The inductive invariant: the table and what the worker has found in it. *)
(***************************************************************************)
Entries == [key : Keys \cup {NoKey}, off : -1 .. Cells - 1, len : Int, next : Slots \cup {-1}]
Jobs == [st : {"copy", "resize", "find", "link"}, op : {"store", "batch"}, key : Keys,
         len : Nat \ {0}, ver : 1 .. MaxStores, off : 0 .. Cells - 1, slot : Slots \cup {-1},
         prev : Slots \cup {-1}, resized : BOOLEAN]

Types ==
    /\ table \in [Slots -> Entries]
    /\ latest \in 0 .. Cells
    /\ storage \in [0 .. Cells - 1 -> 0 .. MaxStores]
    /\ w \in [Workers -> Jobs \cup {Idle}]
    /\ stores \in 0 .. MaxStores
    /\ last \in [Keys -> [ver : 0 .. MaxStores, len : Nat, first : Nat]]
    /\ cut \subseteq Keys

\* a slot is in use with a key, or empty and without a link
Shape == \A s \in Slots : IF table[s].off = -1 THEN table[s].next = -1 ELSE table[s].key \in Keys

\* no set of slots leads only to itself
NoTrap == \A S \in SUBSET Slots : S # {} => \E s \in S : table[s].next \notin S

\* a key is found exactly if it was stored, not deleted and not cut off
Found == \A k \in Keys : exist(k) <=> last[k].ver # 0 /\ k \notin cut

\* what was found for the key of a job is still so
JobRight == \A x \in Workers, k \in Keys : w[x].key = k =>
    /\ w[x].off + w[x].len <= Cells
    /\ w[x].st = "copy" => w[x].slot = get_mapping_entry(k)
    /\ w[x].st = "resize" => w[x].slot = get_mapping_entry(k) /\ w[x].slot # -1
    /\ w[x].st \in {"find", "link"} => ~ exist(k)
    /\ w[x].st = "link" =>
          /\ w[x].slot \in Free
          /\ IF table[Hash[k]].off = -1
             THEN w[x].slot = Hash[k] /\ w[x].prev = -1
             ELSE w[x].prev = chain_end(Hash[k])

TableInv == Types /\ Shape /\ NoTrap /\ Found /\ JobRight

(***************************************************************************)
(* The inductive invariant: storage.                                       *)
(***************************************************************************)
at(k) == table[get_mapping_entry(k)]

\* the length in the table: the one stored last, but for a value that was new above
\* SMALL_LENGTH, whose length never changes
TableLength(p) == IF p.first <= SmallLength THEN p.len ELSE p.first

\* the storage of different keys is disjoint, and their values fit
Placed == \A k \in Keys : exist(k) =>
    /\ at(k).len = TableLength(last[k]) /\ last[k].len <= last[k].first
    /\ at(k).off + last[k].first <= latest
    /\ \A j \in Keys : exist(j) /\ j # k =>
          at(k).off + last[k].first <= at(j).off \/ at(j).off + last[j].first <= at(k).off

\* what a key holds, but for one whose store is half done
Intact == \A k \in Keys :
    exist(k) /\ (\A x \in Workers : ~ (w[x].key = k /\ w[x].st = "resize")) =>
        \A c \in at(k).off .. at(k).off + last[k].len - 1 : storage[c] = last[k].ver

\* a store of another length changes the length in the table, if it may change
Resized(e, p) ==
    /\ e.op = "batch" \/ ~ e.resized => e.len = p.len \/ p.first > SmallLength
    /\ e.resized => p.first <= SmallLength
    /\ e.st = "resize" => e.resized

\* where the value of a job goes, and that it is there after the copy
JobPlaced == \A x \in Workers, k \in Keys : w[x].key = k =>
    LET e == w[x]
        new == (e.st = "copy" /\ e.slot = -1) \/ e.st \in {"find", "link"}
    IN  /\ new => /\ e.off + e.len <= latest
                  /\ \A j \in Keys : exist(j) => at(j).off + last[j].first <= e.off
        /\ ~ new => /\ e.off = at(k).off /\ e.len <= last[k].first
                    /\ Resized(e, last[k])
        /\ e.st # "copy" => \A c \in e.off .. e.off + e.len - 1 : storage[c] = e.ver

ValueInv == Placed /\ Intact /\ JobPlaced

(***************************************************************************)
(* Walks: the least set of slots that holds the first one and is closed    *)
(* under a function to the next.                                           *)
(***************************************************************************)
Links == [Slots -> Slots \cup {-1}]

\* A walk holds its first slot and what its slots lead to.
LEMMA Walk ==
    ASSUME NEW N \in Links, NEW s \in Slots
    PROVE  /\ reached(N, s) \in SUBSET Slots
           /\ s \in reached(N, s)
           /\ \A t \in reached(N, s) : N[t] \in reached(N, s) \cup {-1}
<1>1. reached(N, s) \in SUBSET Slots /\ s \in reached(N, s)
  BY DEF reached
<1>2. SUFFICES ASSUME NEW t \in reached(N, s), N[t] # -1 PROVE N[t] \in reached(N, s)
  BY <1>1
<1>3. t \in Slots /\ N[t] \in Slots
  BY <1>1, <1>2 DEF Links
<1>4. SUFFICES ASSUME NEW C \in SUBSET Slots, s \in C, \A c \in C : N[c] \in C \cup {-1}
      PROVE  N[t] \in C
  BY <1>3 DEF reached
<1>5. t \in C
  BY <1>4 DEF reached
<1> QED BY <1>2, <1>4, <1>5

\* It holds no more than any set with these two properties.
LEMMA WalkLeast ==
    ASSUME NEW N \in Links, NEW s \in Slots, NEW C \in SUBSET Slots, s \in C,
           \A c \in C : N[c] \in C \cup {-1}
    PROVE  reached(N, s) \subseteq C
BY DEF reached

\* From the second slot on it is the walk from there.
LEMMA WalkFrom ==
    ASSUME NEW N \in Links, NEW s \in Slots, N[s] # -1
    PROVE  reached(N, s) \subseteq {s} \cup reached(N, N[s])
<1>1. N[s] \in Slots
  BY DEF Links
<1>2. /\ reached(N, N[s]) \in SUBSET Slots /\ N[s] \in reached(N, N[s])
      /\ \A t \in reached(N, N[s]) : N[t] \in reached(N, N[s]) \cup {-1}
  BY <1>1, Walk
<1> DEFINE C == {s} \cup reached(N, N[s])
<1>3. C \in SUBSET Slots /\ s \in C /\ \A c \in C : N[c] \in C \cup {-1}
  BY <1>2
<1> HIDE DEF C
<1>4. reached(N, s) \subseteq C
  BY <1>3, WalkLeast
<1> QED BY <1>4 DEF C

\* Of two slots of a walk, one is reached from the other: a walk ends in one slot.
LEMMA OneEnd ==
    ASSUME NEW N \in Links, NEW s \in Slots, NEW a \in reached(N, s), NEW b \in reached(N, s),
           N[a] = -1, N[b] = -1
    PROVE  a = b
<1> DEFINE R == reached(N, s)
           C == {t \in R : \A u \in R : u \in reached(N, t) \/ t \in reached(N, u)}
<1>1. R \in SUBSET Slots /\ s \in R /\ \A t \in R : N[t] \in R \cup {-1}
  BY Walk
<1>2. \A t \in Slots : t \in reached(N, t) /\ \A v \in reached(N, t) : N[v] \in reached(N, t) \cup {-1}
  BY Walk
<1>3. s \in C
  BY <1>1
<1>4. ASSUME NEW t \in C, N[t] # -1 PROVE N[t] \in C
  <2>1. t \in Slots /\ N[t] \in R /\ N[t] \in Slots
    BY <1>1, <1>4
  <2>2. ASSUME NEW u \in R PROVE u \in reached(N, N[t]) \/ N[t] \in reached(N, u)
    <3>1. CASE u \in reached(N, t)
      <4>1. reached(N, t) \subseteq {t} \cup reached(N, N[t])
        BY <1>4, <2>1, WalkFrom
      <4>2. u = t => N[t] \in reached(N, u)
        BY <1>2, <1>4, <2>1
      <4> QED BY <3>1, <4>1, <4>2
    <3>2. CASE t \in reached(N, u)
      BY <1>1, <1>2, <1>4, <3>2
    <3> QED BY <1>4, <2>2, <3>1, <3>2
  <2> QED BY <2>1, <2>2
<1>5. R \subseteq C
  <2>1. C \in SUBSET Slots /\ \A c \in C : N[c] \in C \cup {-1}
    BY <1>1, <1>4
  <2> QED BY <1>3, <2>1, WalkLeast
<1>6. \A t \in Slots : N[t] = -1 => reached(N, t) \subseteq {t}
  <2>1. SUFFICES ASSUME NEW t \in Slots, N[t] = -1 PROVE reached(N, t) \subseteq {t}
    OBVIOUS
  <2>2. {t} \in SUBSET Slots /\ t \in {t} /\ \A c \in {t} : N[c] \in {t} \cup {-1}
    BY <2>1
  <2> QED BY <2>2, WalkLeast
<1>7. a \in Slots /\ b \in Slots /\ (b \in reached(N, a) \/ a \in reached(N, b))
  BY <1>1, <1>5
<1> QED BY <1>6, <1>7

\* A function that agrees with another on a walk has the same walk.
LEMMA SameWalk ==
    ASSUME NEW N \in Links, NEW M \in Links, NEW s \in Slots,
           \A t \in reached(N, s) : M[t] = N[t]
    PROVE  reached(M, s) = reached(N, s)
<1>1. /\ reached(N, s) \in SUBSET Slots /\ s \in reached(N, s)
      /\ \A t \in reached(N, s) : N[t] \in reached(N, s) \cup {-1}
  BY Walk
<1>2. /\ reached(M, s) \in SUBSET Slots /\ s \in reached(M, s)
      /\ \A t \in reached(M, s) : M[t] \in reached(M, s) \cup {-1}
  BY Walk
<1>3. \A t \in reached(N, s) : M[t] \in reached(N, s) \cup {-1}
  BY <1>1
<1>4. reached(M, s) \subseteq reached(N, s)
  BY <1>1, <1>3, WalkLeast
<1>5. \A t \in reached(M, s) : N[t] \in reached(M, s) \cup {-1}
  BY <1>2, <1>4
<1>6. reached(N, s) \subseteq reached(M, s)
  BY <1>2, <1>5, WalkLeast
<1> QED BY <1>4, <1>6

\* A walk whose end is given a new end goes one slot further.
LEMMA LongerWalk ==
    ASSUME NEW N \in Links, NEW M \in Links, NEW s \in Slots,
           NEW e \in reached(N, s), NEW g \in Slots, N[e] = -1, M[e] = g, M[g] = -1,
           \A t \in reached(N, s) : t # e => M[t] = N[t]
    PROVE  reached(M, s) = reached(N, s) \cup {g}
<1>1. /\ reached(N, s) \in SUBSET Slots /\ s \in reached(N, s)
      /\ \A t \in reached(N, s) : N[t] \in reached(N, s) \cup {-1}
  BY Walk
<1>2. /\ reached(M, s) \in SUBSET Slots /\ s \in reached(M, s)
      /\ \A t \in reached(M, s) : M[t] \in reached(M, s) \cup {-1}
  BY Walk
<1> DEFINE C == reached(N, s) \cup {g}
           D == reached(N, s) \cap reached(M, s)
<1>3. C \in SUBSET Slots /\ s \in C /\ \A c \in C : M[c] \in C \cup {-1}
  BY <1>1
<1>4. D \in SUBSET Slots /\ s \in D /\ \A c \in D : N[c] \in D \cup {-1}
  BY <1>1, <1>2
<1> HIDE DEF C, D
<1>5. reached(M, s) \subseteq C
  BY <1>3, WalkLeast
<1>6. reached(N, s) \subseteq D
  BY <1>4, WalkLeast
<1>7. e \in reached(M, s) /\ -1 \notin Slots
  BY <1>6 DEF D, Slots
<1>8. g \in reached(M, s)
  BY <1>2, <1>7
<1> QED BY <1>5, <1>6, <1>8 DEF C, D

(***************************************************************************)
(* Searches in a table.                                                    *)
(***************************************************************************)
Tables == table \in [Slots -> Entries]

\* The links a search follows lead to slots in use.
LEMMA LinksType ==
    ASSUME Tables, NEW k
    PROVE  /\ links(k) \in Links /\ -1 \notin Slots
           /\ \A s \in Slots : links(k)[s] # -1 =>
                 /\ links(k)[s] = table[s].next /\ links(k)[s] \in Slots
                 /\ table[links(k)[s]].off # -1 /\ table[s].key # k
<1>1. \A s \in Slots : table[s].next \in Slots \cup {-1}
  BY DEF Tables, Entries
<1> QED BY <1>1 DEF links, Links, Slots

\* A search visits slots in use; the slot of the key is among them, or the key does
\* not exist.
LEMMA Search ==
    ASSUME Tables, NEW k \in Keys
    PROVE  /\ path(k) \in SUBSET Slots /\ \A s \in path(k) : table[s].off # -1
           /\ exist(k) => /\ get_mapping_entry(k) \in path(k) /\ get_mapping_entry(k) \in Slots
                          /\ table[get_mapping_entry(k)].key = k
                          /\ table[get_mapping_entry(k)].off # -1
           /\ ~ exist(k) => \A s \in path(k) : table[s].key # k
           /\ \A s \in path(k) : table[s].key = k => get_mapping_entry(k) = s /\ exist(k)
<1>1. Hash[k] \in Slots
  BY KvAssumption
<1>2. /\ links(k) \in Links /\ -1 \notin Slots
      /\ \A s \in Slots : links(k)[s] # -1 =>
            /\ links(k)[s] = table[s].next /\ links(k)[s] \in Slots
            /\ table[links(k)[s]].off # -1 /\ table[s].key # k
  BY LinksType
<1>3. path(k) \in SUBSET Slots
  BY <1>1, <1>2, Walk DEF path
<1>4. \A s \in path(k) : table[s].off # -1
  <2>1. CASE table[Hash[k]].off = -1
    BY <2>1 DEF path
  <2>2. CASE table[Hash[k]].off # -1
    <3> DEFINE C == {s \in Slots : table[s].off # -1}
    <3>1. C \in SUBSET Slots /\ Hash[k] \in C /\ \A c \in C : links(k)[c] \in C \cup {-1}
      BY <1>1, <1>2, <2>2
    <3>2. reached(links(k), Hash[k]) \subseteq C
      BY <1>1, <1>2, <3>1, WalkLeast
    <3> QED BY <2>2, <3>2 DEF path
  <2> QED BY <2>1, <2>2
<1>5. ASSUME NEW s \in path(k), NEW t \in path(k), table[s].key = k, table[t].key = k PROVE s = t
  <2>1. table[Hash[k]].off # -1 /\ path(k) = reached(links(k), Hash[k])
    BY <1>5 DEF path
  <2>2. links(k)[s] = -1 /\ links(k)[t] = -1
    BY <1>2, <1>3, <1>5
  <2> QED BY <1>1, <1>2, <1>5, <2>1, <2>2, OneEnd
<1> DEFINE found == {s \in path(k) : table[s].key = k}
<1>6. get_mapping_entry(k) = IF found = {} THEN -1 ELSE CHOOSE s \in found : TRUE
  BY DEF get_mapping_entry
<1>7. found # {} => get_mapping_entry(k) \in found
  BY <1>6
<1>8. exist(k) <=> found # {}
  BY <1>2, <1>3, <1>6, <1>7 DEF exist
<1>9. \A s \in path(k) : table[s].key = k => get_mapping_entry(k) = s /\ exist(k)
  BY <1>5, <1>7, <1>8
<1>10. exist(k) => /\ get_mapping_entry(k) \in path(k) /\ get_mapping_entry(k) \in Slots
                   /\ table[get_mapping_entry(k)].key = k
                   /\ table[get_mapping_entry(k)].off # -1
  BY <1>3, <1>4, <1>7, <1>8
<1>11. ~ exist(k) => \A s \in path(k) : table[s].key # k
  BY <1>8
<1> QED BY <1>3, <1>4, <1>9, <1>10, <1>11

Searched == \A k \in Keys :
    /\ links(k) \in Links
    /\ path(k) \in SUBSET Slots /\ \A s \in path(k) : table[s].off # -1
    /\ exist(k) => /\ get_mapping_entry(k) \in path(k) /\ get_mapping_entry(k) \in Slots
                   /\ table[get_mapping_entry(k)].key = k
                   /\ table[get_mapping_entry(k)].off # -1
    /\ \A s \in path(k) : table[s].key = k => get_mapping_entry(k) = s /\ exist(k)

\* The same after a step.
LEMMA SearchNext == Tables' => Searched'
<1>1. Tables => Searched
  BY LinksType, Search DEF Searched
<1> QED BY <1>1, PTL

\* A search that finds nothing visits the whole chain, up to the slot that the chain
\* ends in.
LEMMA WholeChain ==
    ASSUME Tables, Shape, NoTrap, NEW k \in Keys, ~ exist(k),
           table[Hash[k]].off # -1
    PROVE  /\ chain_end(Hash[k]) \in path(k) /\ links(k)[chain_end(Hash[k])] = -1
           /\ links(NoKey)[chain_end(Hash[k])] = -1
           /\ \A s \in path(k) : links(k)[s] = -1 => s = chain_end(Hash[k])
<1> DEFINE h == Hash[k]
           N == links(k)
           L == links(NoKey)
<1>1. h \in Slots /\ NoKey \notin Keys
  BY KvAssumption
<1>2. /\ N \in Links /\ L \in Links /\ -1 \notin Slots
      /\ \A s \in Slots : L[s] # -1 => L[s] = table[s].next
  BY LinksType
<1>3. path(k) = reached(N, h) /\ path(k) \in SUBSET Slots /\ \A s \in path(k) : table[s].off # -1
  BY Search DEF path
<1>4. \A s \in path(k) : table[s].key # k /\ table[s].key # NoKey
  <2>1. \A s \in path(k) : table[s].key # k
    BY Search
  <2> QED BY <1>1, <1>3, <2>1 DEF Shape
<1>5. \A s \in path(k) : L[s] = N[s]
  BY <1>3, <1>4 DEF links
<1> HIDE DEF N, L, h
<1>6. reached(L, h) = reached(N, h)
  BY <1>1, <1>2, <1>3, <1>5, SameWalk
<1>7. /\ h \in reached(L, h) /\ reached(L, h) \in SUBSET Slots
      /\ \A t \in reached(L, h) : L[t] \in reached(L, h) \cup {-1}
  BY <1>1, <1>2, Walk
<1>8. \E t \in reached(L, h) : L[t] = -1
  <2>1. PICK t \in reached(L, h) : table[t].next \notin reached(L, h)
    BY <1>7 DEF NoTrap
  <2>2. L[t] # -1 => L[t] = table[t].next
    BY <1>2, <1>7, <2>1
  <2> QED BY <1>7, <2>1, <2>2
<1>9. chain_end(h) \in reached(L, h) /\ L[chain_end(h)] = -1
  BY <1>8 DEF chain_end, L
<1>10. \A s \in path(k) : N[s] = -1 => s = chain_end(h)
  <2>1. SUFFICES ASSUME NEW s \in path(k), N[s] = -1 PROVE s = chain_end(h)
    OBVIOUS
  <2>2. s \in reached(L, h) /\ L[s] = -1
    BY <1>3, <1>5, <1>6, <2>1
  <2> QED BY <1>1, <1>2, <1>9, <2>2, OneEnd
<1> QED BY <1>3, <1>5, <1>6, <1>9, <1>10 DEF N, L, h

(***************************************************************************)
(* A new entry.                                                            *)
(***************************************************************************)
\* slot g, which was not in use, now holds key j, and the end p of a chain leads to it
Added(g, p, j) ==
    /\ Tables'
    /\ g \in Slots /\ table[g].off = -1 /\ p # g
    /\ table'[g].key = j /\ table'[g].off # -1 /\ table'[g].next = -1
    /\ p \in Slots => table[p].off # -1 /\ links(NoKey)[p] = -1
    /\ \A s \in Slots \ {g} : /\ table'[s].key = table[s].key /\ table'[s].off = table[s].off
                              /\ table'[s].len = table[s].len
                              /\ table'[s].next = IF s = p THEN g ELSE table[s].next

\* Searches meet the same links as before, but may go on from an end to the new slot.
LEMMA AddedLinks ==
    ASSUME Tables, Shape, NEW g \in Slots, NEW p, NEW j \in Keys, Added(g, p, j),
           NEW k \in Keys
    PROVE  /\ links(k)' \in Links /\ links(k)'[g] = -1
           /\ \A s \in Slots \ {g} : table[s].off # -1 =>
                 /\ links(k)[s] # -1 => s # p /\ links(k)'[s] = links(k)[s]
                 /\ table[s].key = k => links(k)'[s] = -1
                 /\ links(k)'[s] \in {links(k)[s], g}
                 /\ s = p /\ table[s].key # k => links(k)'[s] = g
<1>1. /\ links(k) \in Links /\ -1 \notin Slots
      /\ \A s \in Slots : links(k)[s] # -1 =>
            /\ links(k)[s] = table[s].next /\ links(k)[s] \in Slots
            /\ table[links(k)[s]].off # -1 /\ table[s].key # k
  BY LinksType
<1>2. links(k)' \in Links
  BY SearchNext DEF Added, Searched
<1>3. \A s \in Slots : links(k)'[s] =
         IF table'[s].key = k \/ table'[s].next = -1 \/ table'[table'[s].next].off = -1 THEN -1
         ELSE table'[s].next
  BY DEF links
<1>4. \A s \in Slots : links(k)[s] =
         IF table[s].key = k \/ table[s].next = -1 \/ table[table[s].next].off = -1 THEN -1
         ELSE table[s].next
  BY DEF links
<1>5. links(k)'[g] = -1
  BY <1>3 DEF Added
<1>6. SUFFICES ASSUME NEW s \in Slots \ {g}, table[s].off # -1
      PROVE  /\ links(k)[s] # -1 => s # p /\ links(k)'[s] = links(k)[s]
             /\ table[s].key = k => links(k)'[s] = -1
             /\ links(k)'[s] \in {links(k)[s], g}
             /\ s = p /\ table[s].key # k => links(k)'[s] = g
  BY <1>2, <1>5
<1>7. table'[s].key = table[s].key /\ table'[s].next = IF s = p THEN g ELSE table[s].next
  BY DEF Added
<1>8. table[s].key = k => links(k)'[s] = -1
  BY <1>3, <1>7
<1>9. s = p => links(k)[s] = -1
  <2>1. SUFFICES ASSUME s = p PROVE links(k)[s] = -1
    OBVIOUS
  <2>2. links(NoKey)[s] = -1 /\ table[s].key # NoKey
    BY <1>6, <2>1, KvAssumption DEF Added, Shape
  <2>3. table[s].next = -1 \/ table[table[s].next].off = -1
    BY <2>2, <1>6 DEF links
  <2> QED BY <1>4, <2>3
<1>10. s = p /\ table[s].key # k => links(k)'[s] = g
  BY <1>1, <1>3, <1>7 DEF Added
<1>11. ASSUME s # p PROVE links(k)'[s] = links(k)[s] \/ (links(k)[s] = -1 /\ links(k)'[s] = g)
  <2>1. table'[s].next = table[s].next /\ table[s].next \in Slots \cup {-1}
    BY <1>7, <1>11 DEF Tables, Entries
  <2>2. CASE table[s].next = g
    BY <1>1, <1>3, <1>4, <1>7, <2>1, <2>2 DEF Added
  <2>3. CASE table[s].next # g /\ table[s].next # -1
    <3>1. table'[table[s].next].off = table[table[s].next].off
      BY <2>1, <2>3 DEF Added
    <3> QED BY <1>3, <1>4, <1>7, <2>1, <3>1
  <2>4. CASE table[s].next = -1
    BY <1>3, <1>4, <2>1, <2>4
  <2> QED BY <2>2, <2>3, <2>4
<1>12. links(k)'[s] \in {links(k)[s], g}
  <2>1. CASE s = p /\ table[s].key # k
    BY <1>10, <2>1
  <2>2. CASE s = p /\ table[s].key = k
    BY <1>8, <1>9, <2>2
  <2> QED BY <1>11, <2>1, <2>2
<1>13. links(k)[s] # -1 => s # p /\ links(k)'[s] = links(k)[s]
  BY <1>9, <1>11
<1> QED BY <1>8, <1>10, <1>12, <1>13

\* Another key is found where it was found before, or still not found.
LEMMA AddedOthers ==
    ASSUME Tables, Shape, NEW g \in Slots, NEW p, NEW j \in Keys, Added(g, p, j),
           NEW k \in Keys, k # j
    PROVE  /\ exist(k)' <=> exist(k)
           /\ exist(k) => get_mapping_entry(k)' = get_mapping_entry(k)
<1> DEFINE h == Hash[k]
<1>1. h \in Slots
  BY KvAssumption
<1>2. /\ links(k) \in Links /\ links(k)' \in Links /\ links(k)'[g] = -1
      /\ \A s \in Slots \ {g} : table[s].off # -1 =>
            /\ links(k)[s] # -1 => s # p /\ links(k)'[s] = links(k)[s]
            /\ table[s].key = k => links(k)'[s] = -1
            /\ links(k)'[s] \in {links(k)[s], g}
            /\ s = p /\ table[s].key # k => links(k)'[s] = g
  BY LinksType, AddedLinks
<1>3. /\ path(k) \in SUBSET Slots /\ \A s \in path(k) : table[s].off # -1
      /\ exist(k) => /\ get_mapping_entry(k) \in path(k) /\ get_mapping_entry(k) \in Slots
                     /\ table[get_mapping_entry(k)].key = k
                     /\ table[get_mapping_entry(k)].off # -1
      /\ ~ exist(k) => \A s \in path(k) : table[s].key # k
      /\ \A s \in path(k) : table[s].key = k => get_mapping_entry(k) = s /\ exist(k)
  BY Search
<1>4. /\ path(k)' \in SUBSET Slots
      /\ exist(k)' => get_mapping_entry(k)' \in path(k)' /\ table'[get_mapping_entry(k)'].key = k
      /\ \A s \in path(k)' : table'[s].key = k => get_mapping_entry(k)' = s /\ exist(k)'
  BY SearchNext DEF Added, Searched
<1>5. path(k)' = IF table'[h].off = -1 THEN {} ELSE reached(links(k)', h)
  BY DEF path
<1>6. \A s \in Slots \ {g} : table'[s].key = table[s].key /\ table'[s].off = table[s].off
  BY DEF Added
<1>7. CASE exist(k)
  <2> DEFINE t == get_mapping_entry(k)
  <2>1. table[h].off # -1 /\ path(k) = reached(links(k), h) /\ h # g
    BY <1>3, <1>7 DEF path, Added
  <2>2. t \in path(k) /\ table[t].key = k /\ t # g /\ t \in Slots
    BY <1>3, <1>7 DEF Added
  <2>3. links(k)[t] = -1
    BY <2>2 DEF links
  <2>4. \A s \in path(k) : links(k)[s] = -1 => s = t
    BY <1>1, <1>2, <2>1, <2>2, <2>3, OneEnd
  <2>5. \A s \in path(k) : links(k)'[s] = links(k)[s]
    <3>1. \A s \in path(k) : s \in Slots \ {g} /\ table[s].off # -1
      BY <1>3 DEF Added
    <3> QED BY <1>2, <2>2, <2>3, <2>4, <3>1
  <2>6. reached(links(k)', h) = reached(links(k), h)
    BY <1>1, <1>2, <2>1, <2>5, SameWalk
  <2>7. path(k)' = path(k)
    BY <1>1, <1>5, <1>6, <2>1, <2>6
  <2>8. t \in path(k)' /\ table'[t].key = k
    BY <1>6, <2>2, <2>7
  <2>9. get_mapping_entry(k)' = t /\ exist(k)'
    BY <1>4, <2>8
  <2> QED BY <1>7, <2>9
<1>8. CASE ~ exist(k)
  <2>1. path(k)' \subseteq path(k) \cup {g}
    <3>1. CASE table'[h].off = -1
      BY <1>5, <3>1
    <3>2. CASE table'[h].off # -1
      <4> DEFINE C == path(k) \cup {g}
      <4>1. C \in SUBSET Slots /\ h \in C
        <5>1. CASE h = g
          BY <1>3, <5>1
        <5>2. CASE h # g
          <6>1. table[h].off # -1
            BY <1>1, <1>6, <3>2, <5>2
          <6>2. h \in path(k)
            BY <1>1, <1>2, <6>1, Walk DEF path
          <6> QED BY <1>3, <6>2
        <5> QED BY <5>1, <5>2
      <4>2. \A c \in C : links(k)'[c] \in C \cup {-1}
        <5>1. SUFFICES ASSUME NEW c \in path(k) PROVE links(k)'[c] \in C \cup {-1}
          BY <1>2
        <5>2. c \in Slots \ {g} /\ table[c].off # -1
          BY <1>3 DEF Added
        <5>3. links(k)[c] \in path(k) \cup {-1}
          <6>1. table[h].off # -1 /\ path(k) = reached(links(k), h)
            BY <5>1 DEF path
          <6> QED BY <1>1, <1>2, <6>1, Walk
        <5> QED BY <1>2, <5>2, <5>3
      <4> HIDE DEF C
      <4>3. reached(links(k)', h) \subseteq C
        BY <1>1, <1>2, <4>1, <4>2, WalkLeast
      <4> QED BY <1>5, <3>2, <4>3 DEF C
    <3> QED BY <3>1, <3>2
  <2>2. \A s \in path(k)' : table'[s].key # k
    <3>1. table'[g].key # k
      BY DEF Added
    <3>2. \A s \in path(k) : s # g => table'[s].key # k
      BY <1>3, <1>6, <1>8
    <3> QED BY <2>1, <3>1, <3>2
  <2> QED BY <1>4, <1>8, <2>2
<1> QED BY <1>7, <1>8

\* The new key is found in the new slot.
LEMMA AddedKey ==
    ASSUME Tables, Shape, NoTrap, NEW g \in Slots, NEW p, NEW j \in Keys, Added(g, p, j),
           ~ exist(j),
           IF table[Hash[j]].off = -1 THEN g = Hash[j] ELSE p = chain_end(Hash[j])
    PROVE  exist(j)' /\ get_mapping_entry(j)' = g
<1> DEFINE h == Hash[j]
<1>1. h \in Slots
  BY KvAssumption
<1>2. /\ links(j) \in Links /\ links(j)' \in Links /\ links(j)'[g] = -1
      /\ \A s \in Slots \ {g} : table[s].off # -1 =>
            /\ links(j)[s] # -1 => s # p /\ links(j)'[s] = links(j)[s]
            /\ table[s].key = j => links(j)'[s] = -1
            /\ links(j)'[s] \in {links(j)[s], g}
            /\ s = p /\ table[s].key # j => links(j)'[s] = g
  BY LinksType, AddedLinks
<1>3. \A s \in path(j)' : table'[s].key = j => get_mapping_entry(j)' = s /\ exist(j)'
  BY SearchNext DEF Added, Searched
<1>4. path(j)' = IF table'[h].off = -1 THEN {} ELSE reached(links(j)', h)
  BY DEF path
<1>5. table'[g].key = j /\ table'[g].off # -1
  BY DEF Added
<1>6. CASE table[h].off = -1
  <2>1. g \in path(j)'
    BY <1>2, <1>4, <1>5, <1>6, Walk
  <2> QED BY <1>3, <1>5, <2>1
<1>7. CASE table[h].off # -1
  <2>1. /\ p \in path(j) /\ links(j)[p] = -1
        /\ \A s \in path(j) : links(j)[s] = -1 => s = p
    BY <1>7, WholeChain
  <2>2. /\ path(j) = reached(links(j), h) /\ path(j) \in SUBSET Slots
        /\ \A s \in path(j) : table[s].off # -1 /\ table[s].key # j
    BY <1>7, Search DEF path
  <2>3. \A s \in path(j) : s \in Slots \ {g}
    BY <2>2 DEF Added
  <2>4. links(j)'[p] = g
    BY <1>2, <2>1, <2>2, <2>3
  <2>5. \A t \in path(j) : t # p => links(j)'[t] = links(j)[t]
    BY <1>2, <2>1, <2>2, <2>3
  <2>6. reached(links(j)', h) = reached(links(j), h) \cup {g}
    BY <1>1, <1>2, <2>1, <2>2, <2>4, <2>5, LongerWalk
  <2>7. table'[h].off # -1
    BY <1>1, <1>5, <1>7 DEF Added
  <2>8. g \in path(j)'
    BY <1>4, <2>6, <2>7
  <2> QED BY <1>3, <1>5, <2>8
<1> QED BY <1>6, <1>7

\* The table keeps its shape, and every chain still ends.
LEMMA AddedShape ==
    ASSUME Tables, Shape, NoTrap, NEW g \in Slots, NEW p, NEW j \in Keys, Added(g, p, j)
    PROVE  Shape' /\ NoTrap'
<1>1. Shape'
  <2>1. SUFFICES ASSUME NEW s \in Slots
        PROVE IF table'[s].off = -1 THEN table'[s].next = -1 ELSE table'[s].key \in Keys
    BY DEF Shape
  <2>2. CASE s = g
    BY <2>2 DEF Added
  <2>3. CASE s # g
    BY <2>3 DEF Added, Shape
  <2> QED BY <2>2, <2>3
<1>2. ASSUME NEW S \in SUBSET Slots, S # {} PROVE \E s \in S : table'[s].next \notin S
  <2>0. -1 \notin Slots
    BY DEF Slots
  <2>1. CASE g \in S
    BY <1>2, <2>0, <2>1 DEF Added
  <2>2. CASE g \notin S
    <3>1. PICK s \in S : table[s].next \notin S
      BY <1>2 DEF NoTrap
    <3>2. table'[s].next = IF s = p THEN g ELSE table[s].next
      BY <2>2, <3>1 DEF Added
    <3> QED BY <2>2, <3>1, <3>2
  <2> QED BY <2>1, <2>2
<1> QED BY <1>1, <1>2 DEF NoTrap

(***************************************************************************)
(* A deleted entry.                                                        *)
(***************************************************************************)
\* slot d, which was in use, is wiped
Removed(d) ==
    /\ Tables'
    /\ d \in Slots /\ table[d].off # -1 /\ table'[d].off = -1 /\ table'[d].next = -1
    /\ \A s \in Slots \ {d} : table'[s] = table[s]

\* Searches meet the same links as before, but for those to the wiped slot.
LEMMA RemovedLinks ==
    ASSUME Tables, NEW d \in Slots, Removed(d), NEW k \in Keys
    PROVE  \A s \in Slots \ {d} : links(k)'[s] = IF links(k)[s] = d THEN -1 ELSE links(k)[s]
<1>1. SUFFICES ASSUME NEW s \in Slots \ {d}
      PROVE  links(k)'[s] = IF links(k)[s] = d THEN -1 ELSE links(k)[s]
  OBVIOUS
<1>2. links(k)'[s] =
         IF table'[s].key = k \/ table'[s].next = -1 \/ table'[table'[s].next].off = -1 THEN -1
         ELSE table'[s].next
  BY DEF links
<1>3. links(k)[s] =
         IF table[s].key = k \/ table[s].next = -1 \/ table[table[s].next].off = -1 THEN -1
         ELSE table[s].next
  BY DEF links
<1>4. table'[s] = table[s] /\ table[s].next \in Slots \cup {-1} /\ -1 \notin Slots
  BY DEF Removed, Tables, Entries, Slots
<1>5. CASE table[s].next = d
  BY <1>2, <1>3, <1>4, <1>5 DEF Removed
<1>6. CASE table[s].next # d
  <2>1. table[s].next # -1 => table'[table[s].next] = table[table[s].next]
    BY <1>4, <1>6 DEF Removed
  <2> QED BY <1>2, <1>3, <1>4, <1>6, <2>1
<1> QED BY <1>5, <1>6

\* A search that does not pass the wiped slot is as before; one that does, or is for
\* the deleted key, finds nothing any more.
LEMMA RemovedSearch ==
    ASSUME Tables, NEW j \in Keys, exist(j), NEW d \in Slots, d = get_mapping_entry(j), Removed(d),
           NEW k \in Keys
    PROVE  /\ exist(k)' <=> exist(k) /\ d \notin path(k)
           /\ exist(k)' => get_mapping_entry(k)' = get_mapping_entry(k)
<1> DEFINE h == Hash[k]
<1>1. h \in Slots /\ -1 \notin Slots
  BY KvAssumption DEF Slots
<1>2. /\ links(k) \in Links /\ links(k)' \in Links
      /\ \A s \in Slots \ {d} : links(k)'[s] = IF links(k)[s] = d THEN -1 ELSE links(k)[s]
  BY LinksType, SearchNext, RemovedLinks DEF Removed, Searched
<1>3. /\ path(k) \in SUBSET Slots /\ \A s \in path(k) : table[s].off # -1
      /\ exist(k) => /\ get_mapping_entry(k) \in path(k) /\ get_mapping_entry(k) \in Slots
                     /\ table[get_mapping_entry(k)].key = k
                     /\ table[get_mapping_entry(k)].off # -1
      /\ ~ exist(k) => \A s \in path(k) : table[s].key # k
      /\ \A s \in path(k) : table[s].key = k => get_mapping_entry(k) = s /\ exist(k)
  BY Search
<1>4. /\ path(k)' \in SUBSET Slots /\ \A s \in path(k)' : table'[s].off # -1
      /\ exist(k)' => /\ get_mapping_entry(k)' \in path(k)'
                      /\ table'[get_mapping_entry(k)'].key = k
      /\ \A s \in path(k)' : table'[s].key = k => get_mapping_entry(k)' = s /\ exist(k)'
  BY SearchNext DEF Removed, Searched
<1>5. path(k)' = IF table'[h].off = -1 THEN {} ELSE reached(links(k)', h)
  BY DEF path
<1>6. table[d].key = j /\ d \notin path(k)'
  BY <1>4, Search DEF Removed
<1>7. \A s \in Slots \ {d} : table'[s] = table[s]
  BY DEF Removed
<1>8. ASSUME table'[h].off # -1
      PROVE  h # d /\ table[h].off # -1 /\ path(k) = reached(links(k), h) /\ path(k)' = reached(links(k)', h)
  BY <1>1, <1>5, <1>7, <1>8 DEF path, Removed
<1>9. CASE d \notin path(k)
  <2>1. path(k)' = path(k)
    <3>1. CASE table'[h].off = -1
      <4>1. h = d => table[h].off # -1 /\ h \in path(k)
        BY <1>1, <1>2, Walk DEF path, Removed
      <4>2. h # d => table[h].off = -1
        BY <1>1, <1>7, <3>1
      <4> QED BY <1>5, <1>9, <3>1, <4>1, <4>2 DEF path
    <3>2. CASE table'[h].off # -1
      <4>1. \A t \in path(k) : links(k)[t] \in path(k) \cup {-1}
        BY <1>1, <1>2, <1>8, <3>2, Walk
      <4>2. \A t \in path(k) : links(k)'[t] = links(k)[t]
        BY <1>1, <1>2, <1>3, <1>9, <4>1
      <4> QED BY <1>1, <1>2, <1>8, <3>2, <4>2, SameWalk
    <3> QED BY <3>1, <3>2
  <2>2. \A s \in path(k) : table'[s] = table[s]
    BY <1>3, <1>7, <1>9
  <2>3. CASE exist(k)
    <3>1. get_mapping_entry(k) \in path(k)' /\ table'[get_mapping_entry(k)].key = k
      BY <1>3, <2>1, <2>2, <2>3
    <3> QED BY <1>4, <1>9, <2>3, <3>1
  <2>4. CASE ~ exist(k)
    <3>1. ~ exist(k)'
      BY <1>3, <1>4, <2>1, <2>2, <2>4
    <3> QED BY <2>4, <3>1
  <2> QED BY <2>3, <2>4
<1>10. CASE d \in path(k)
  <2>1. SUFFICES ASSUME exist(k)' PROVE FALSE
    BY <1>10
  <2> DEFINE t == get_mapping_entry(k)'
  <2>2. t \in path(k)' /\ table'[t].key = k /\ t # d /\ t \in Slots
    BY <1>4, <1>6, <2>1
  <2>3. table'[h].off # -1
    BY <1>5, <2>2
  <2>4. h # d /\ table[h].off # -1 /\ path(k) = reached(links(k), h) /\ path(k)' = reached(links(k)', h)
    BY <1>8, <2>3
  <2>5. links(k)'[t] = -1 /\ links(k)[t] # d
    <3>1. table[t].key = k
      BY <1>7, <2>2
    <3> QED BY <1>1, <2>2, <3>1 DEF links
  <2> HIDE DEF t, h
  <2>6. h \in path(k)' /\ \A c \in path(k)' : links(k)'[c] \in path(k)' \cup {-1}
    BY <1>1, <1>2, <2>4, Walk
  <2>7. \A c \in path(k)' : links(k)[c] \in path(k)' \cup {-1}
    <3>1. SUFFICES ASSUME NEW c \in path(k)' PROVE links(k)[c] \in path(k)' \cup {-1}
      OBVIOUS
    <3>2. c \in Slots \ {d}
      BY <1>4, <1>6, <3>1
    <3>3. links(k)[c] # d
      <4>1. SUFFICES ASSUME links(k)[c] = d PROVE FALSE
        OBVIOUS
      <4>2. links(k)'[c] = -1
        BY <1>2, <3>2, <4>1
      <4>3. c \in reached(links(k)', h) /\ t \in reached(links(k)', h) /\ links(k)'[t] = -1
        BY <2>2, <2>4, <2>5, <3>1
      <4>4. c = t
        BY <1>1, <1>2, <4>2, <4>3, OneEnd
      <4> QED BY <2>5, <4>1, <4>4
    <3> QED BY <1>2, <2>6, <3>2, <3>3
  <2>8. reached(links(k), h) \subseteq path(k)'
    BY <1>1, <1>2, <1>4, <2>6, <2>7, WalkLeast
  <2> QED BY <1>6, <1>10, <2>4, <2>8
<1> QED BY <1>9, <1>10

\* The table keeps its shape, and every chain still ends.
LEMMA RemovedShape ==
    ASSUME Tables, Shape, NoTrap, NEW d \in Slots, Removed(d)
    PROVE  Shape' /\ NoTrap'
<1>1. Shape'
  BY DEF Shape, Removed
<1>2. ASSUME NEW S \in SUBSET Slots, S # {} PROVE \E s \in S : table'[s].next \notin S
  <2>0. -1 \notin Slots
    BY DEF Slots
  <2>1. CASE d \in S
    BY <2>0, <2>1 DEF Removed
  <2>2. CASE d \notin S
    <3>1. PICK s \in S : table[s].next \notin S
      BY <1>2 DEF NoTrap
    <3> QED BY <2>2, <3>1 DEF Removed
  <2> QED BY <2>1, <2>2
<1> QED BY <1>1, <1>2 DEF NoTrap

(***************************************************************************)
(* A changed length.                                                       *)
(***************************************************************************)
\* nothing but lengths changes
SameKeys ==
    /\ Tables'
    /\ \A s \in Slots : /\ table'[s].key = table[s].key /\ table'[s].off = table[s].off
                        /\ table'[s].next = table[s].next

\* Searches do not see lengths.
LEMMA SameSearch ==
    ASSUME Tables, SameKeys
    PROVE  /\ \A k \in Keys : exist(k)' <=> exist(k)
           /\ \A k \in Keys : get_mapping_entry(k)' = get_mapping_entry(k)
           /\ Shape => Shape'
           /\ NoTrap => NoTrap'
<1>1. ASSUME NEW k \in Keys
      PROVE  (exist(k)' <=> exist(k)) /\ get_mapping_entry(k)' = get_mapping_entry(k)
  <2>1. \A s \in Slots : table[s].next \in Slots \cup {-1}
    BY DEF Tables, Entries
  <2>2. links(k)' = links(k)
    BY <2>1 DEF links, SameKeys
  <2>3. path(k)' = path(k) /\ path(k) \in SUBSET Slots
    BY <2>2, Search, KvAssumption DEF path, SameKeys
  <2>4. {s \in path(k) : table'[s].key = k} = {s \in path(k) : table[s].key = k}
    BY <2>3 DEF SameKeys
  <2> DEFINE pick(F) == IF F = {} THEN -1 ELSE CHOOSE s \in F : TRUE
  <2>5. get_mapping_entry(k) = pick({s \in path(k) : table[s].key = k})
    BY DEF get_mapping_entry
  <2>6. get_mapping_entry(k)' = pick({s \in path(k)' : table'[s].key = k})
    BY DEF get_mapping_entry
  <2>7. {s \in path(k)' : table'[s].key = k} = {s \in path(k) : table[s].key = k}
    BY <2>3, <2>4
  <2> HIDE DEF pick
  <2>8. get_mapping_entry(k)' = get_mapping_entry(k)
    BY <2>5, <2>6, <2>7
  <2> QED BY <2>8 DEF exist
<1>2. Shape => Shape'
  BY DEF Shape, SameKeys
<1>3. NoTrap => NoTrap'
  BY DEF NoTrap, SameKeys
<1> QED BY <1>1, <1>2, <1>3

(***************************************************************************)
(* The steps of the worker: the table.                                     *)
(***************************************************************************)
\* A set of naturals has a least element.
LEMMA LeastNumber ==
    ASSUME NEW S \in SUBSET Nat, S # {}
    PROVE  \E m \in S : \A n \in S : m <= n
<1> DEFINE R == OpToRel(<, Nat)
<1>1. IsWellFoundedOn(R, Nat)
  BY NatLessThanWellFounded
<1>2. \A m, n \in Nat : n < m => <<n, m>> \in R
  BY DEF OpToRel
<1> HIDE DEF R
<1>3. PICK m \in S : \A n \in S : ~ (<<n, m>> \in R)
  BY <1>1, WFMin
<1>4. \A n \in S : ~ (n < m)
  BY <1>2, <1>3
<1> QED BY <1>4

\* The search for a free slot from any slot on finds one, if there is one.
LEMMA FreeFound ==
    ASSUME NEW s \in Int, Free # {}
    PROVE  free_from(s) \in Free
<1>1. NSlots \in Nat /\ NSlots > 0 /\ Free \subseteq Int
  <2>1. Cardinality(Keys) \in Nat
    BY KvAssumption, FS_CardinalityType
  <2> QED BY <2>1, KvAssumption DEF Free, Slots
<1> DEFINE d(f) == (f - s) % NSlots
           D == {d(f) : f \in Free}
<1>2. \A f \in Free : d(f) \in Nat
  BY <1>1
<1>3. D \in SUBSET Nat /\ D # {}
  BY <1>2
<1> HIDE DEF d
<1>4. PICK m \in D : \A n \in D : m <= n
  BY <1>3, LeastNumber
<1>5. PICK f \in Free : m = d(f)
  BY <1>4
<1>6. \A g \in Free : d(f) <= d(g)
  BY <1>4, <1>5
<1> QED BY <1>5, <1>6 DEF free_from, d

\* A step that leaves the table and what is expected of it alone.
LEMMA TableKept ==
    ASSUME TableInv, table' = table, last' = last, cut' = cut
    PROVE  /\ Tables' /\ Shape' /\ NoTrap' /\ Found'
           /\ \A k \in Keys : exist(k)' <=> exist(k)
           /\ \A k \in Keys : get_mapping_entry(k)' = get_mapping_entry(k)
<1>1. Tables /\ SameKeys
  BY DEF TableInv, Types, Tables, SameKeys
<1>2. /\ \A k \in Keys : exist(k)' <=> exist(k)
      /\ \A k \in Keys : get_mapping_entry(k)' = get_mapping_entry(k)
      /\ Shape' /\ NoTrap'
  BY <1>1, SameSearch DEF TableInv
<1>3. Found'
  BY <1>2 DEF TableInv, Found
<1> QED BY <1>1, <1>2, <1>3 DEF SameKeys

\* The key is looked up.
LEMMA LookupTable ==
    ASSUME TableInv, OneWorker, NEW x \in Workers, NEW op \in {"store", "batch"}, NEW k \in Keys,
           NEW n \in Lengths, lookup(x, op, k, n)
    PROVE  TableInv'
<1> DEFINE s == get_mapping_entry(k)
           J == w'[x]
<1>0. /\ n \in Nat \ {0} /\ Cells \in Nat /\ MaxStores \in Nat /\ stores \in 0 .. MaxStores
      /\ latest \in 0 .. Cells /\ DOMAIN w = Workers
  BY KvAssumption DEF TableInv, Types
<1>1. /\ table' = table /\ last' = last /\ cut' = cut /\ storage' = storage
      /\ stores' = stores + 1 /\ stores < MaxStores
  BY DEF lookup
<1>2. /\ Tables' /\ Shape' /\ NoTrap' /\ Found' /\ (\A j \in Keys : exist(j)' <=> exist(j))
      /\ \A j \in Keys : get_mapping_entry(j)' = get_mapping_entry(j)
  BY <1>1, TableKept
<1>3. s # -1 => s \in Slots /\ table[s].off \in 0 .. Cells - 1
  <2>1. SUFFICES ASSUME s # -1 PROVE s \in Slots /\ table[s].off \in 0 .. Cells - 1
    OBVIOUS
  <2>2. Tables /\ exist(k)
    BY <2>1 DEF exist, TableInv, Types, Tables
  <2>3. s \in Slots /\ table[s].off # -1
    BY <2>2, Search
  <2> QED BY <1>0, <2>2, <2>3 DEF Tables, Entries
<1>4. /\ J \in Jobs /\ J.off + J.len <= Cells /\ J.st = "copy" /\ J.slot = s /\ J.key = k
      /\ w' = [w EXCEPT ![x] = J] /\ latest' \in 0 .. Cells
  <2>1. CASE s = -1
    <3>1. /\ latest + n <= Cells /\ latest' = latest + n
          /\ w' = [w EXCEPT ![x] = job(op, k, n, latest, -1)]
      BY <2>1 DEF lookup, allocate_mem_offset, append_only_allocate
    <3>2. J = job(op, k, n, latest, -1)
      BY <1>0, <3>1
    <3>3. /\ J \in Jobs /\ J.off = latest /\ J.len = n /\ J.st = "copy" /\ J.slot = -1
          /\ J.key = k
      <4>1. resized(n, -1) \in BOOLEAN
        BY DEF resized
      <4> QED BY <1>0, <1>1, <3>1, <3>2, <4>1 DEF job, Jobs
    <3> QED BY <1>0, <1>1, <2>1, <3>1, <3>3
  <2>2. CASE s # -1
    <3> DEFINE o == table[s].off
               b == n # table[s].len
    <3>1. /\ o + n <= Cells /\ latest' = latest
          /\ w' = [w EXCEPT ![x] = job(op, k, n, o, s)]
      BY <2>2 DEF lookup
    <3>2. o \in 0 .. Cells - 1 /\ s \in Slots
      BY <1>3, <2>2
    <3> HIDE DEF o, s
    <3>3. J = job(op, k, n, o, s)
      BY <1>0, <3>1
    <3>4. /\ J \in Jobs /\ J.off = o /\ J.len = n /\ J.st = "copy" /\ J.slot = s /\ J.key = k
      <4>1. resized(n, s) \in BOOLEAN
        BY DEF resized
      <4> QED BY <1>0, <1>1, <3>1, <3>2, <3>3, <4>1 DEF job, Jobs
    <3> QED BY <1>0, <1>1, <2>2, <3>1, <3>2, <3>4
  <2> QED BY <2>1, <2>2
<1> HIDE DEF J
<1>5. Types'
  <2>1. w' \in [Workers -> Jobs \cup {Idle}]
    BY <1>4 DEF TableInv, Types
  <2>2. stores' \in 0 .. MaxStores
    BY <1>0, <1>1
  <2> QED BY <1>1, <1>2, <1>4, <2>1, <2>2 DEF TableInv, Types, Tables
<1>6. JobRight'
  <2>1. SUFFICES ASSUME NEW y \in Workers, NEW j \in Keys, w'[y].key = j
        PROVE  /\ w'[y].off + w'[y].len <= Cells
               /\ w'[y].slot = get_mapping_entry(j)'
               /\ w'[y].st = "copy"
    BY DEF JobRight
  <2>2. y = x
    BY DEF OneWorker
  <2> QED BY <1>2, <1>4, <2>1, <2>2 DEF J
<1> QED BY <1>2, <1>5, <1>6 DEF TableInv

\* A worker that is not idle has a job.
LEMMA JobType ==
    ASSUME TableInv, NEW x \in Workers, w[x].st # "idle"
    PROVE  w[x] \in Jobs /\ w[x].key \in Keys /\ w[x] # Idle
BY DEF TableInv, Types, Jobs, Idle

\* What a job holds.
LEMMA JobFields ==
    ASSUME NEW j \in Jobs
    PROVE  /\ j.key \in Keys /\ j.len \in Nat \ {0} /\ j.ver \in 1 .. MaxStores
           /\ j.off \in 0 .. Cells - 1 /\ j.prev \in Slots \cup {-1}
BY DEF Jobs

\* The end of a store of a key that is now found.
LEMMA FinishTable ==
    ASSUME TableInv, OneWorker, NEW x \in Workers, w[x] \in Jobs, finish(x),
           Tables', Shape', NoTrap', latest' = latest, stores' = stores,
           storage' \in [0 .. Cells - 1 -> 0 .. MaxStores],
           \A k \in Keys : IF k = w[x].key THEN exist(k)' ELSE exist(k)' <=> exist(k)
    PROVE  TableInv'
<1> DEFINE q == w[x].key
           r == [ver |-> w[x].ver, len |-> w[x].len,
                 first |-> IF w[x].st = "link" THEN w[x].len ELSE last[q].first]
<1>0. /\ q \in Keys /\ w[x].ver \in 1 .. MaxStores /\ w[x].len \in Nat
      /\ w \in [Workers -> Jobs \cup {Idle}] /\ cut \subseteq Keys
      /\ last \in [Keys -> [ver : 0 .. MaxStores, len : Nat, first : Nat]] /\ MaxStores \in Nat
  BY KvAssumption DEF TableInv, Types, Jobs
<1>1. last' = [last EXCEPT ![q] = r] /\ cut' = cut \ {q} /\ w' = [w EXCEPT ![x] = Idle]
  BY DEF finish, stored
<1>2. r \in [ver : 0 .. MaxStores, len : Nat, first : Nat] /\ r.ver # 0
  BY <1>0
<1> HIDE DEF r
<1>3. last' \in [Keys -> [ver : 0 .. MaxStores, len : Nat, first : Nat]]
  BY <1>0, <1>1, <1>2
<1>4. Types'
  BY <1>0, <1>1, <1>3 DEF TableInv, Types, Tables
<1>5. Found'
  <2>1. SUFFICES ASSUME NEW k \in Keys PROVE exist(k)' <=> last'[k].ver # 0 /\ k \notin cut'
    BY DEF Found
  <2>2. CASE k = q
    BY <1>0, <1>1, <1>2, <2>2
  <2>3. CASE k # q
    BY <1>0, <1>1, <2>3 DEF TableInv, Found
  <2> QED BY <2>2, <2>3
<1>6. JobRight'
  <2>1. \A y \in Workers : w'[y].key \notin Keys
    BY <1>0, <1>1, KvAssumption DEF OneWorker, Idle
  <2> QED BY <2>1 DEF JobRight
<1> QED BY <1>4, <1>5, <1>6 DEF TableInv

\* The value is copied: storage stays what it is, and the job goes on.
LEMMA WriteType ==
    ASSUME TableInv, NEW x \in Workers, w[x] \in Jobs, write_value(w[x])
    PROVE  storage' \in [0 .. Cells - 1 -> 0 .. MaxStores]
<1>1. w[x].ver \in 0 .. MaxStores /\ storage \in [0 .. Cells - 1 -> 0 .. MaxStores]
  BY KvAssumption DEF TableInv, Types, Jobs
<1> QED BY <1>1 DEF write_value

\* A job that goes on.
LEMMA GoOnTable ==
    ASSUME TableInv, OneWorker, NEW x \in Workers, w[x] \in Jobs, NEW st \in {"find", "resize"},
           go_on(x, st), table' = table, latest' = latest, stores' = stores,
           storage' \in [0 .. Cells - 1 -> 0 .. MaxStores],
           w[x].slot = get_mapping_entry(w[x].key), st = "resize" <=> w[x].slot # -1
    PROVE  TableInv'
<1> DEFINE J == [w[x] EXCEPT !.st = st]
<1>0. w \in [Workers -> Jobs \cup {Idle}] /\ w[x].key \in Keys
  BY DEF TableInv, Types, Jobs
<1>1. w' = [w EXCEPT ![x] = J] /\ last' = last /\ cut' = cut
  BY DEF go_on
<1>2. J \in Jobs /\ J.st = st /\ J.key = w[x].key /\ J.slot = w[x].slot /\ J.off = w[x].off
      /\ J.len = w[x].len
  BY DEF Jobs
<1> HIDE DEF J
<1>3. w' \in [Workers -> Jobs \cup {Idle}] /\ w'[x] = J
  BY <1>0, <1>1, <1>2
<1>4. /\ Tables' /\ Shape' /\ NoTrap' /\ Found' /\ (\A j \in Keys : exist(j)' <=> exist(j))
      /\ \A j \in Keys : get_mapping_entry(j)' = get_mapping_entry(j)
  BY <1>1, TableKept
<1>5. Types'
  BY <1>1, <1>3 DEF TableInv, Types
<1>6. JobRight'
  <2>1. w[x].off + w[x].len <= Cells
    BY <1>0 DEF TableInv, JobRight
  <2>2. SUFFICES ASSUME NEW y \in Workers, NEW k \in Keys, w'[y].key = k
        PROVE  /\ w'[y].off + w'[y].len <= Cells
               /\ w'[y].st \notin {"copy", "link"}
               /\ w'[y].st = "resize" => w'[y].slot = get_mapping_entry(k)' /\ w'[y].slot # -1
               /\ w'[y].st = "find" => ~ exist(k)'
    BY DEF JobRight
  <2>3. w'[y] = J /\ k = w[x].key
    BY <1>2, <1>3, <2>2 DEF OneWorker
  <2>4. J.st = "find" => ~ exist(k)
    BY <1>2, <2>3 DEF exist
  <2> QED BY <1>2, <1>4, <2>1, <2>3, <2>4
<1> QED BY <1>4, <1>5, <1>6 DEF TableInv

\* The copy of a single store and of a part of a batch.
LEMMA CopyTable ==
    ASSUME TableInv, OneWorker, NEW x \in Workers, copy(x) \/ copy_batched(x)
    PROVE  TableInv'
<1>1. /\ w[x].st = "copy" /\ table' = table /\ latest' = latest /\ stores' = stores
      /\ write_value(w[x])
  BY DEF copy, copy_batched
<1>2. w[x] \in Jobs /\ w[x].key \in Keys
  BY <1>1, JobType
<1>3. storage' \in [0 .. Cells - 1 -> 0 .. MaxStores]
  BY <1>1, <1>2, WriteType
<1>4. w[x].slot = get_mapping_entry(w[x].key)
  BY <1>1, <1>2 DEF TableInv, JobRight
<1>5. CASE w[x].slot = -1
  <2>1. go_on(x, "find")
    BY <1>5 DEF copy, copy_batched
  <2> QED BY <1>1, <1>2, <1>3, <1>4, <1>5, <2>1, GoOnTable
<1>6. CASE w[x].slot # -1 /\ go_on(x, "resize")
  BY <1>1, <1>2, <1>3, <1>4, <1>6, GoOnTable
<1>7. CASE w[x].slot # -1 /\ finish(x)
  <2>1. Tables /\ SameKeys
    BY <1>1 DEF TableInv, Types, Tables, SameKeys
  <2>2. Tables' /\ Shape' /\ NoTrap' /\ \A k \in Keys : exist(k)' <=> exist(k)
    BY <2>1, SameSearch DEF TableInv, SameKeys
  <2>3. exist(w[x].key)
    BY <1>4, <1>7 DEF exist
  <2>4. \A k \in Keys : IF k = w[x].key THEN exist(k)' ELSE exist(k)' <=> exist(k)
    BY <2>2, <2>3
  <2> QED BY <1>1, <1>2, <1>3, <1>7, <2>2, <2>4, FinishTable
<1> QED BY <1>5, <1>6, <1>7 DEF copy, copy_batched

\* The length of a value is changed.
LEMMA ResizeTable ==
    ASSUME TableInv, OneWorker, NEW x \in Workers, update_mapping_entry(x)
    PROVE  TableInv'
<1> DEFINE q == w[x].key
           s == w[x].slot
           n == w[x].len
<1>1. w[x].st = "resize" /\ latest' = latest /\ stores' = stores /\ storage' = storage /\ finish(x)
  BY DEF update_mapping_entry, finish
<1>2. w[x] \in Jobs /\ q \in Keys /\ n \in Int
  BY <1>1, JobType DEF Jobs
<1>3. s = get_mapping_entry(q) /\ s # -1 /\ s \in Slots
  BY <1>1, <1>2 DEF TableInv, JobRight, Jobs
<1>4. table' = [table EXCEPT ![s] = [table[s] EXCEPT !.len = n]]
  BY <1>3 DEF update_mapping_entry
<1>5. Tables /\ storage' \in [0 .. Cells - 1 -> 0 .. MaxStores]
  BY <1>1 DEF TableInv, Types, Tables
<1>6. SameKeys
  <2>1. [table[s] EXCEPT !.len = n] \in Entries
    BY <1>2, <1>3, <1>5 DEF Tables, Entries
  <2>2. Tables'
    BY <1>3, <1>4, <1>5, <2>1 DEF Tables
  <2>3. \A t \in Slots : table[t] \in Entries
    BY <1>5 DEF Tables
  <2>4. \A t \in Slots : table'[t] = IF t = s THEN [table[s] EXCEPT !.len = n] ELSE table[t]
    BY <1>3, <1>4, <1>5 DEF Tables
  <2> QED BY <2>2, <2>3, <2>4 DEF SameKeys, Entries
<1>7. Tables' /\ Shape' /\ NoTrap' /\ \A k \in Keys : exist(k)' <=> exist(k)
  BY <1>5, <1>6, SameSearch DEF TableInv, SameKeys
<1>8. \A k \in Keys : IF k = q THEN exist(k)' ELSE exist(k)' <=> exist(k)
  BY <1>3, <1>7 DEF exist
<1> QED BY <1>1, <1>2, <1>5, <1>7, <1>8, FinishTable

\* A slot is looked for.
LEMMA FindTable ==
    ASSUME TableInv, OneWorker, NEW x \in Workers, find_slot(x)
    PROVE  TableInv'
<1> DEFINE q == w[x].key
           h == Hash[q]
           f == find_next_slot(q)
           J == [w[x] EXCEPT !.st = "link", !.slot = f.slot, !.prev = f.prev]
<1>1. /\ w[x].st = "find" /\ Free # {} /\ table' = table /\ latest' = latest /\ stores' = stores
      /\ storage' = storage /\ last' = last /\ cut' = cut
  BY DEF find_slot
<1>2. w[x] \in Jobs /\ q \in Keys /\ w \in [Workers -> Jobs \cup {Idle}]
  BY <1>1, JobType DEF TableInv, Types
<1>3. h \in Slots /\ Slots \subseteq Int /\ Tables /\ ~ exist(q)
  BY <1>1, <1>2, KvAssumption DEF Slots, TableInv, Types, Tables, JobRight
<1>4. /\ f.slot \in Free /\ f.slot \in Slots /\ f.prev \in Slots \cup {-1}
      /\ IF table[h].off = -1 THEN f.slot = h /\ f.prev = -1 ELSE f.prev = chain_end(h)
  <2>1. CASE table[h].off = -1
    <3>1. f = [slot |-> h, prev |-> -1]
      BY <2>1 DEF find_next_slot
    <3>2. f.slot = h /\ f.prev = -1
      BY <3>1
    <3> QED BY <1>3, <2>1, <3>2 DEF Free
  <2>2. CASE table[h].off # -1
    <3>1. f = [slot |-> free_from(chain_end(h)), prev |-> chain_end(h)]
      BY <2>2 DEF find_next_slot
    <3>2. f.slot = free_from(chain_end(h)) /\ f.prev = chain_end(h)
      BY <3>1
    <3>3. chain_end(h) \in path(q) /\ path(q) \in SUBSET Slots
      BY <1>2, <1>3, <2>2, WholeChain, Search DEF TableInv
    <3>4. chain_end(h) \in Slots
      BY <3>3
    <3>5. free_from(chain_end(h)) \in Free
      BY <1>1, <1>3, <3>4, FreeFound
    <3> QED BY <2>2, <3>2, <3>4, <3>5 DEF Free
  <2> QED BY <2>1, <2>2
<1>5. w' = [w EXCEPT ![x] = J]
  BY DEF find_slot
<1> HIDE DEF f
<1>6. /\ J \in Jobs /\ J.st = "link" /\ J.slot = f.slot /\ J.prev = f.prev /\ J.key = q
      /\ J.off = w[x].off /\ J.len = w[x].len
  BY <1>2, <1>4 DEF Jobs
<1> HIDE DEF J
<1>7. w' \in [Workers -> Jobs \cup {Idle}] /\ w'[x] = J
  BY <1>2, <1>5, <1>6
<1>8. /\ Tables' /\ Shape' /\ NoTrap' /\ Found' /\ \A j \in Keys : exist(j)' <=> exist(j)
  BY <1>1, TableKept
<1>9. Types'
  BY <1>1, <1>7 DEF TableInv, Types
<1>10. JobRight'
  <2>1. w[x].off + w[x].len <= Cells
    BY <1>2 DEF TableInv, JobRight
  <2>2. ASSUME NEW k \in Keys PROVE chain_end(Hash[k])' = chain_end(Hash[k])
    <3>1. links(NoKey)' = links(NoKey)
      BY <1>1 DEF links
    <3> QED BY <3>1 DEF chain_end
  <2>3. Free' = Free
    BY <1>1 DEF Free
  <2>4. SUFFICES ASSUME NEW y \in Workers, NEW k \in Keys, w'[y].key = k
        PROVE  /\ w'[y].off + w'[y].len <= Cells
               /\ w'[y].st = "link"
               /\ ~ exist(k)'
               /\ w'[y].slot \in Free'
               /\ IF table'[Hash[k]].off = -1
                  THEN w'[y].slot = Hash[k] /\ w'[y].prev = -1
                  ELSE w'[y].prev = chain_end(Hash[k])'
    BY DEF JobRight
  <2>5. w'[y] = J /\ k = q
    BY <1>6, <1>7, <2>4 DEF OneWorker
  <2>6. w'[y].off + w'[y].len <= Cells /\ w'[y].st = "link" /\ ~ exist(k)' /\ w'[y].slot \in Free'
    BY <1>2, <1>3, <1>4, <1>6, <1>8, <2>1, <2>3, <2>5
  <2>7. chain_end(Hash[k])' = chain_end(h)
    BY <2>2, <2>5
  <2>8. IF table'[Hash[k]].off = -1
        THEN w'[y].slot = Hash[k] /\ w'[y].prev = -1
        ELSE w'[y].prev = chain_end(Hash[k])'
    BY <1>1, <1>4, <1>6, <2>5, <2>7
  <2> QED BY <2>6, <2>8
<1> QED BY <1>8, <1>9, <1>10 DEF TableInv

\* The slot is filled.
LEMMA LinkTable ==
    ASSUME TableInv, OneWorker, NEW x \in Workers, new_mapping_entry(x)
    PROVE  /\ TableInv'
           /\ Added(w[x].slot, w[x].prev, w[x].key)
           /\ table'[w[x].slot].off = w[x].off /\ table'[w[x].slot].len = w[x].len
           /\ \A k \in Keys : k = w[x].key => exist(k)' /\ get_mapping_entry(k)' = w[x].slot
<1> DEFINE q == w[x].key
           g == w[x].slot
           p == w[x].prev
           h == Hash[q]
           n == w[x].len
           o == w[x].off
           N == [table[g] EXCEPT !.key = q, !.off = o, !.len = n]
           put == [table EXCEPT ![g].key = q, ![g].off = o, ![g].len = n]
<1>1. /\ w[x].st = "link" /\ latest' = latest /\ stores' = stores /\ storage' = storage
      /\ finish(x) /\ table' = IF p = -1 THEN put ELSE [put EXCEPT ![p].next = g]
  BY DEF new_mapping_entry, finish, linked
<1>2. /\ w[x] \in Jobs /\ q \in Keys /\ n \in Int /\ o \in 0 .. Cells - 1 /\ p \in Slots \cup {-1}
      /\ h \in Slots /\ -1 \notin Slots
  <2>1. w[x].st # "idle"
    BY <1>1
  <2>2. w[x] \in Jobs
    BY <2>1, JobType
  <2>3. /\ q \in Keys /\ n \in Nat \ {0} /\ o \in 0 .. Cells - 1 /\ p \in Slots \cup {-1}
    BY <2>2, JobFields
  <2>4. h \in Slots /\ -1 \notin Slots
    BY <2>3, KvAssumption DEF Slots
  <2> QED BY <2>2, <2>3, <2>4
<1>3. /\ Tables /\ Shape /\ NoTrap /\ ~ exist(q) /\ g \in Slots /\ table[g].off = -1
      /\ IF table[h].off = -1 THEN g = h /\ p = -1 ELSE p = chain_end(h)
  BY <1>1, <1>2 DEF TableInv, Types, Tables, JobRight, Free
<1>4. p # -1 => table[h].off # -1 /\ p \in path(q) /\ links(NoKey)[p] = -1 /\ table[p].off # -1
  <2>1. SUFFICES ASSUME p # -1
        PROVE  table[h].off # -1 /\ p \in path(q) /\ links(NoKey)[p] = -1 /\ table[p].off # -1
    OBVIOUS
  <2>2. table[h].off # -1 /\ p = chain_end(h)
    BY <1>3, <2>1
  <2>3. chain_end(h) \in path(q) /\ links(NoKey)[chain_end(h)] = -1
    BY <1>2, <1>3, <2>2, WholeChain
  <2> QED BY <1>2, <1>3, <2>2, <2>3, Search
<1>5. table[g].next = -1 /\ table[g] \in Entries
  BY <1>3 DEF Shape, Tables
<1>6. put = [table EXCEPT ![g] = N]
  BY <1>3, <1>5 DEF Tables
<1>7. N \in Entries /\ N.key = q /\ N.off = o /\ N.len = n /\ N.next = -1
  <2>1. o \in -1 .. Cells - 1
    BY <1>2, KvAssumption
  <2> QED BY <1>2, <1>5, <2>1 DEF Entries
<1> HIDE DEF N
<1>8. put \in [Slots -> Entries] /\ \A s \in Slots : put[s] = IF s = g THEN N ELSE table[s]
  BY <1>3, <1>6, <1>7 DEF Tables
<1> HIDE DEF put
<1>9. /\ Tables'
      /\ \A s \in Slots : /\ table'[s].key = put[s].key /\ table'[s].off = put[s].off
                          /\ table'[s].len = put[s].len
                          /\ table'[s].next = IF s = p THEN g ELSE put[s].next
  <2>1. CASE p = -1
    BY <1>1, <1>2, <1>8, <2>1 DEF Tables
  <2>2. CASE p # -1
    <3>1. p \in Slots /\ table' = [put EXCEPT ![p] = [put[p] EXCEPT !.next = g]] /\ put[p] \in Entries
      BY <1>1, <1>2, <1>8, <2>2
    <3> DEFINE E == [put[p] EXCEPT !.next = g]
    <3>2. E \in Entries /\ E.key = put[p].key /\ E.off = put[p].off /\ E.len = put[p].len /\ E.next = g
      BY <1>3, <3>1 DEF Entries
    <3> HIDE DEF E
    <3>3. table' = [put EXCEPT ![p] = E]
      BY <3>1 DEF E
    <3>4. \A s \in Slots : table'[s] = IF s = p THEN E ELSE put[s]
      BY <1>8, <3>1, <3>3
    <3> QED BY <1>8, <3>1, <3>2, <3>3, <3>4 DEF Tables
  <2> QED BY <2>1, <2>2
<1>10. Added(g, p, q)
  <2>1. p # g
    BY <1>2, <1>3, <1>4
  <2>2. table'[g].key = q /\ table'[g].off # -1 /\ table'[g].next = -1
    BY <1>2, <1>3, <1>7, <1>8, <1>9, <2>1
  <2>3. p \in Slots => table[p].off # -1 /\ links(NoKey)[p] = -1
    BY <1>2, <1>4
  <2>4. \A s \in Slots \ {g} : /\ table'[s].key = table[s].key /\ table'[s].off = table[s].off
                               /\ table'[s].len = table[s].len
                               /\ table'[s].next = IF s = p THEN g ELSE table[s].next
    BY <1>8, <1>9
  <2> QED BY <1>3, <1>9, <2>1, <2>2, <2>3, <2>4 DEF Added
<1>11. \A k \in Keys : k = q => exist(k)' /\ get_mapping_entry(k)' = g
  <2>1. SUFFICES ASSUME NEW k \in Keys, k = q PROVE exist(k)' /\ get_mapping_entry(k)' = g
    OBVIOUS
  <2>2. /\ Added(g, p, k) /\ ~ exist(k)
        /\ IF table[Hash[k]].off = -1 THEN g = Hash[k] ELSE p = chain_end(Hash[k])
    BY <1>3, <1>10, <2>1
  <2> QED BY <1>3, <2>2, AddedKey
<1>12. \A k \in Keys : IF k = q THEN exist(k)' ELSE exist(k)' <=> exist(k)
  BY <1>2, <1>3, <1>10, <1>11, AddedOthers
<1>13. Shape' /\ NoTrap' /\ storage' \in [0 .. Cells - 1 -> 0 .. MaxStores]
  BY <1>1, <1>2, <1>3, <1>10, AddedShape DEF TableInv, Types
<1>14. TableInv'
  BY <1>1, <1>2, <1>9, <1>12, <1>13, FinishTable
<1>15. table'[g].off = o /\ table'[g].len = n
  BY <1>3, <1>7, <1>8, <1>9
<1> QED BY <1>10, <1>11, <1>14, <1>15

\* An entry is deleted.
LEMMA DeleteTable ==
    ASSUME TableInv, OneWorker, NEW x \in Workers, NEW k \in Keys, delete_mapping_entry(x, k)
    PROVE  /\ TableInv'
           /\ exist(k) /\ Removed(get_mapping_entry(k))
<1> DEFINE d == get_mapping_entry(k)
<1>1. /\ w[x] = Idle /\ w' = w /\ latest' = latest /\ storage' = storage /\ stores' = stores
      /\ last' = [last EXCEPT ![k] = NoPair]
      /\ d # -1 /\ table' = [table EXCEPT ![d] = Empty]
      /\ cut' = (cut \cup {j \in Keys : last[j].ver # 0 /\ d \in path(j)}) \ {k}
  BY DEF delete_mapping_entry
<1>2. Tables /\ Shape /\ NoTrap /\ exist(k)
  BY <1>1 DEF exist, TableInv, Types, Tables
<1>3. d \in Slots /\ d \in path(k) /\ table[d].off # -1
  BY <1>2, Search
<1> HIDE DEF d
<1>4. Empty \in Entries /\ Empty.off = -1 /\ Empty.next = -1
  BY KvAssumption DEF Empty, Entries
<1>5. Removed(d)
  <2>1. Tables'
    BY <1>1, <1>2, <1>3, <1>4 DEF Tables
  <2>2. table'[d] = Empty /\ \A s \in Slots \ {d} : table'[s] = table[s]
    BY <1>1, <1>2, <1>3 DEF Tables
  <2> QED BY <1>3, <1>4, <2>1, <2>2 DEF Removed
<1>6. \A j \in Keys : exist(j)' <=> exist(j) /\ d \notin path(j)
  BY <1>2, <1>3, <1>5, RemovedSearch DEF d
<1>7. Shape' /\ NoTrap'
  BY <1>2, <1>3, <1>5, RemovedShape
<1>8. /\ last \in [Keys -> [ver : 0 .. MaxStores, len : Nat, first : Nat]] /\ cut \subseteq Keys
      /\ NoPair \in [ver : 0 .. MaxStores, len : Nat, first : Nat] /\ NoPair.ver = 0
  BY KvAssumption DEF TableInv, Types, NoPair
<1>9. Types'
  <2>1. cut' \subseteq Keys /\ last' \in [Keys -> [ver : 0 .. MaxStores, len : Nat, first : Nat]]
    BY <1>1, <1>8
  <2>2. Tables'
    BY <1>5 DEF Removed
  <2> QED BY <1>1, <2>1, <2>2 DEF TableInv, Types, Tables
<1>10. Found'
  <2>1. SUFFICES ASSUME NEW j \in Keys PROVE exist(j)' <=> last'[j].ver # 0 /\ j \notin cut'
    BY DEF Found
  <2>2. CASE j = k
    <3>1. ~ exist(j)'
      BY <1>3, <1>6, <2>2
    <3>2. last'[j].ver = 0
      BY <1>1, <1>8, <2>2
    <3> QED BY <3>1, <3>2
  <2>3. CASE j # k
    <3>1. last'[j] = last[j]
      BY <1>1, <1>8, <2>3
    <3>2. exist(j) <=> last[j].ver # 0 /\ j \notin cut
      BY DEF TableInv, Found
    <3>3. j \in cut' <=> j \in cut \/ (last[j].ver # 0 /\ d \in path(j))
      BY <1>1, <2>3
    <3> QED BY <1>6, <3>1, <3>2, <3>3
  <2> QED BY <2>2, <2>3
<1>11. JobRight'
  <2>1. \A y \in Workers : w'[y].key \notin Keys
    BY <1>1, KvAssumption DEF OneWorker, Idle
  <2> QED BY <2>1 DEF JobRight
<1> QED BY <1>2, <1>5, <1>7, <1>9, <1>10, <1>11 DEF TableInv, d

\* A step of an iterator, or none, changes nothing here.
LEMMA OtherTable ==
    ASSUME TableInv, UNCHANGED <<table, latest, storage, w, stores, last, cut>>
    PROVE  TableInv'
<1>1. /\ Tables' /\ Shape' /\ NoTrap' /\ Found' /\ (\A k \in Keys : exist(k)' <=> exist(k))
      /\ \A k \in Keys : get_mapping_entry(k)' = get_mapping_entry(k)
  BY TableKept
<1>2. ASSUME NEW k \in Keys PROVE chain_end(Hash[k])' = chain_end(Hash[k])
  <2>1. links(NoKey)' = links(NoKey)
    BY DEF links
  <2> QED BY <2>1 DEF chain_end
<1>3. Free' = Free
  BY DEF Free
<1>4. Types'
  BY DEF TableInv, Types
<1>5. JobRight'
  BY <1>1, <1>2, <1>3 DEF TableInv, JobRight
<1> QED BY <1>1, <1>4, <1>5 DEF TableInv

\* The empty table.
LEMMA InitTable == Init => TableInv
<1>1. SUFFICES ASSUME Init PROVE TableInv
  OBVIOUS
<1>2. /\ Empty \in Entries /\ Empty.off = -1 /\ Empty.next = -1 /\ -1 \notin Slots
      /\ NoPair \in [ver : 0 .. MaxStores, len : Nat, first : Nat] /\ NoPair.ver = 0
      /\ Idle.key \notin Keys
  BY KvAssumption DEF Empty, Entries, NoPair, Idle, Slots
<1>3. \A s \in Slots : table[s] = Empty
  BY <1>1 DEF Init
<1>4. Types
  <2>1. table \in [Slots -> Entries] /\ w \in [Workers -> Jobs \cup {Idle}]
    BY <1>1, <1>2 DEF Init
  <2>2. storage \in [0 .. Cells - 1 -> 0 .. MaxStores] /\ latest \in 0 .. Cells /\ stores \in 0 .. MaxStores
    BY <1>1, KvAssumption DEF Init
  <2>3. last \in [Keys -> [ver : 0 .. MaxStores, len : Nat, first : Nat]] /\ cut \subseteq Keys
    BY <1>1, <1>2 DEF Init
  <2> QED BY <2>1, <2>2, <2>3 DEF Types
<1>5. Shape
  BY <1>2, <1>3 DEF Shape
<1>6. NoTrap
  <2>1. SUFFICES ASSUME NEW S \in SUBSET Slots, S # {} PROVE \E s \in S : table[s].next \notin S
    BY DEF NoTrap
  <2>2. PICK s \in S : TRUE
    BY <2>1
  <2>3. table[s].next = -1
    BY <1>2, <1>3, <2>2
  <2> QED BY <1>2, <2>2, <2>3
<1>7. Found
  <2>1. SUFFICES ASSUME NEW k \in Keys PROVE ~ exist(k) /\ last[k].ver = 0
    BY DEF Found
  <2>2. table[Hash[k]].off = -1
    BY <1>2, <1>3, KvAssumption
  <2>3. path(k) = {}
    BY <2>2 DEF path
  <2>4. ~ exist(k)
    BY <2>3 DEF exist, get_mapping_entry
  <2> QED BY <1>1, <1>2, <2>4 DEF Init
<1>8. JobRight
  BY <1>1, <1>2 DEF Init, JobRight
<1> QED BY <1>4, <1>5, <1>6, <1>7, <1>8 DEF TableInv

\* Every step with one worker.
LEMMA StepTable ==
    ASSUME TableInv, OneWorker, [Next]_vars
    PROVE  TableInv'
<1>1. ASSUME NEW x \in Workers, NEW k \in Keys, NEW n \in Lengths,
             kv_store(x, k, n) \/ kv_batched_store(x, k, n)
      PROVE  TableInv'
  <2>1. CASE lookup(x, "store", k, n)
    BY <2>1, LookupTable
  <2>2. CASE lookup(x, "batch", k, n)
    BY <2>2, LookupTable
  <2> QED BY <1>1, <2>1, <2>2 DEF kv_store, kv_batched_store
<1>2. ASSUME NEW x \in Workers, copy(x) \/ copy_batched(x) PROVE TableInv'
  BY <1>2, CopyTable
<1>3. ASSUME NEW x \in Workers, update_mapping_entry(x) PROVE TableInv'
  BY <1>3, ResizeTable
<1>4. ASSUME NEW x \in Workers, find_slot(x) PROVE TableInv'
  BY <1>4, FindTable
<1>5. ASSUME NEW x \in Workers, new_mapping_entry(x) PROVE TableInv'
  BY <1>5, LinkTable
<1>6. ASSUME NEW x \in Workers, NEW k \in Keys, delete_mapping_entry(x, k) PROVE TableInv'
  BY <1>6, DeleteTable
<1>7. ASSUME NEW want \in SUBSET Keys, kv_iter_open(want) PROVE TableInv'
  BY <1>7, OtherTable DEF kv_iter_open
<1>8. ASSUME NEW h \in Handles, kv_iter_close(h) \/ kv_iter_read(h) PROVE TableInv'
  BY <1>8, OtherTable DEF kv_iter_close, kv_iter_read
<1>9. CASE UNCHANGED vars
  BY <1>9, OtherTable DEF vars
<1> QED BY <1>1, <1>2, <1>3, <1>4, <1>5, <1>6, <1>7, <1>8, <1>9 DEF Next

(***************************************************************************)
(* Iterators, with any number of workers: nothing is assumed about what    *)
(* stores and deletes that run at the same time leave in the table, but    *)
(* that they leave the slots alone that they do not write.                 *)
(***************************************************************************)
Fields == {"key", "off", "len", "next"}
Records == DOMAIN table = Slots /\ \A s \in Slots : DOMAIN table[s] = Fields

IterTypes ==
    /\ iter \in [Handles -> [open : BOOLEAN, pos : 0 .. NSlots, want : SUBSET Keys]]
    /\ fresh \in [Handles -> [kept : SUBSET Slots, read : SUBSET Slots]]

\* a slot that has not changed since is still in use
KeptUsed == \A h \in Handles : \A s \in fresh[h].kept : table[s].off # -1

IterInv == Records /\ IterTypes /\ KeptUsed /\ IteratorMissesNone

\* The smallest of a set of numbers is one of them.
LEMMA LeastIn ==
    ASSUME NEW S \in SUBSET Nat, S # {}
    PROVE  Min(S) \in S /\ \A n \in S : Min(S) <= n
<1>1. PICK m \in S : \A n \in S : m <= n
  BY LeastNumber
<1> QED BY <1>1 DEF Min

\* A set of slots is finite; one that is not empty has a last one.
LEMMA FiniteSlots ==
    ASSUME NEW S \in SUBSET Slots
    PROVE  IsFiniteSet(S) /\ Cardinality(S) \in Nat /\ (S # {} => \E m \in S : \A s \in S : s <= m)
<1>1. NSlots \in Nat /\ Slots \subseteq Nat
  BY KvAssumption DEF Slots
<1>2. IsFiniteSet(Slots)
  BY <1>1, FS_Interval DEF Slots
<1>3. IsFiniteSet(S) /\ Cardinality(S) \in Nat
  BY <1>2, FS_Subset, FS_CardinalityType
<1>4. ASSUME S # {} PROVE \E m \in S : \A s \in S : s <= m
  <2> DEFINE D == {NSlots - s : s \in S}
  <2>0. \A s \in S : s \in Nat /\ NSlots - s \in Nat
    BY <1>1 DEF Slots
  <2>1. D \in SUBSET Nat /\ D # {}
    BY <1>4, <2>0
  <2>2. PICK e \in D : \A n \in D : e <= n
    BY <2>1, LeastNumber
  <2>3. PICK m \in S : e = NSlots - m
    BY <2>2
  <2>4. m \in Nat /\ \A s \in S : NSlots - m <= NSlots - s
    BY <2>0, <2>2, <2>3
  <2>5. \A s \in S : s <= m
    BY <1>1, <2>0, <2>4
  <2> QED BY <2>5
<1> QED BY <1>3, <1>4

\* Of the slots of a set, the first with more than a number of slots before it has that
\* number before it.
LEMMA Overflow ==
    ASSUME NEW H \in SUBSET Slots, NEW n \in Nat \ {0}, NEW s \in H,
           Cardinality({t \in H : t < s}) >= n
    PROVE  \E u \in H : u <= s /\ Cardinality({t \in H : t < u}) = n
<1> DEFINE before(u) == {t \in H : t < u}
           big == {u \in H : Cardinality(before(u)) >= n}
<1>1. Slots \subseteq Nat
  BY DEF Slots
<1>2. big \in SUBSET Nat /\ s \in big
  BY <1>1
<1>3. PICK u \in big : \A v \in big : u <= v
  BY <1>2, LeastNumber
<1>4. u \in H /\ u \in Nat /\ Cardinality(before(u)) >= n /\ u <= s
  BY <1>1, <1>2, <1>3
<1>5. Cardinality(before(u)) \in Nat /\ IsFiniteSet(before(u))
  BY FiniteSlots
<1>6. SUFFICES ASSUME Cardinality(before(u)) # n PROVE FALSE
  BY <1>4
<1>7. before(u) # {}
  BY <1>4, FS_EmptySet
<1>8. PICK m \in before(u) : \A t \in before(u) : t <= m
  <2>1. before(u) \in SUBSET Slots
    OBVIOUS
  <2> QED BY <1>7, <2>1, FiniteSlots
<1>9. before(m) = before(u) \ {m}
  <2>1. \A t \in H : t \in Nat
    BY <1>1
  <2>2. m \in H /\ m < u /\ \A t \in H : t < u => t <= m
    BY <1>8
  <2>3. \A t \in H : t < m <=> t < u /\ t # m
    BY <1>4, <2>1, <2>2
  <2> QED BY <2>3
<1>10. Cardinality(before(u) \ {m}) = Cardinality(before(u)) - 1
  BY <1>5, <1>8, FS_RemoveElement
<1>11. m \in big /\ m < u
  BY <1>4, <1>5, <1>6, <1>8, <1>9, <1>10
<1> QED BY <1>1, <1>3, <1>4, <1>8, <1>11

\* Where a read stops: every hit before that is in the answer.
LEMMA ReadAll ==
    ASSUME NEW h \in Handles, IterTypes
    PROVE  /\ stop_at(h) \in 0 .. NSlots
           /\ \A s \in Hits(h, iter[h].pos) :
                 s < stop_at(h) => Cardinality({t \in Hits(h, iter[h].pos) : t < s}) < MaxPerRead
<1> DEFINE H == Hits(h, iter[h].pos)
           before(s) == {t \in H : t < s}
           over == {s \in H : Cardinality(before(s)) = MaxPerRead}
<1>1. NSlots \in Nat /\ Slots \subseteq Nat /\ (\A s \in Slots : s <= NSlots) /\ MaxPerRead \in Nat \ {0}
  BY KvAssumption DEF Slots
<1>2. H \in SUBSET Slots
  BY DEF Hits
<1>3. stop_at(h) = IF over = {} THEN NSlots ELSE Min(over)
  BY DEF stop_at
<1>4. over \in SUBSET Nat
  BY <1>1, <1>2
<1> HIDE DEF H
<1>5. over # {} => Min(over) \in over /\ \A n \in over : Min(over) <= n
  BY <1>4, LeastIn
<1>6. stop_at(h) \in 0 .. NSlots
  <2>1. over # {} => Min(over) \in Slots
    BY <1>2, <1>5
  <2> HIDE DEF over
  <2>2. over # {} => Min(over) \in Nat /\ Min(over) <= NSlots
    BY <1>1, <2>1
  <2> QED BY <1>1, <1>3, <2>2
<1>7. ASSUME NEW s \in H, s < stop_at(h), ~ (Cardinality(before(s)) < MaxPerRead) PROVE FALSE
  <2>1. Cardinality(before(s)) \in Nat
    BY <1>2, FiniteSlots
  <2>2. Cardinality({t \in H : t < s}) >= MaxPerRead
    BY <1>1, <1>7, <2>1
  <2>3. PICK u \in H : u <= s /\ Cardinality({t \in H : t < u}) = MaxPerRead
    BY <1>1, <1>2, <2>2, Overflow
  <2>4. u \in over /\ u \in Nat /\ s \in Nat
    BY <1>1, <1>2, <2>3
  <2>5. stop_at(h) <= u
    BY <1>3, <1>5, <2>4
  <2> QED BY <1>6, <1>7, <2>3, <2>4, <2>5
<1> QED BY <1>6, <1>7 DEF H

\* A step that changes no slot that an iterator still counts on.
LEMMA IterKept ==
    ASSUME IterInv, Records', iter' = iter,
           fresh' \in [Handles -> [kept : SUBSET Slots, read : SUBSET Slots]],
           \A h \in Handles :
              /\ fresh'[h].read = fresh[h].read
              /\ \A s \in fresh'[h].kept :
                    s \in fresh[h].kept /\ table'[s].key = table[s].key /\ table'[s].off = table[s].off
    PROVE  IterInv'
<1>1. IterTypes'
  BY DEF IterInv, IterTypes
<1>2. KeptUsed'
  BY DEF IterInv, KeptUsed
<1>3. IteratorMissesNone'
  BY DEF IterInv, IteratorMissesNone
<1> QED BY <1>1, <1>2, <1>3 DEF IterInv

\* The slots a step writes are taken from every iterator.
LEMMA Touched ==
    ASSUME IterTypes, NEW S, touched(S)
    PROVE  /\ fresh' \in [Handles -> [kept : SUBSET Slots, read : SUBSET Slots]]
           /\ \A h \in Handles : fresh'[h].read = fresh[h].read /\ fresh'[h].kept = fresh[h].kept \ S
<1>1. \A h \in Handles : fresh[h] \in [kept : SUBSET Slots, read : SUBSET Slots]
  BY DEF IterTypes
<1>2. \A h \in Handles : fresh'[h] = [fresh[h] EXCEPT !.kept = @ \ S]
  BY DEF touched
<1>3. \A h \in Handles : /\ fresh'[h] \in [kept : SUBSET Slots, read : SUBSET Slots]
                         /\ fresh'[h].read = fresh[h].read /\ fresh'[h].kept = fresh[h].kept \ S
  <2>1. SUFFICES ASSUME NEW h \in Handles
        PROVE  /\ fresh'[h] \in [kept : SUBSET Slots, read : SUBSET Slots]
               /\ fresh'[h].read = fresh[h].read /\ fresh'[h].kept = fresh[h].kept \ S
    OBVIOUS
  <2> DEFINE K == fresh[h].kept \ S
  <2>2. fresh'[h] = [fresh[h] EXCEPT !.kept = K]
    BY <1>2
  <2>3. fresh[h] \in [kept : SUBSET Slots, read : SUBSET Slots] /\ K \in SUBSET Slots
    BY <1>1
  <2> HIDE DEF K
  <2>4. /\ fresh'[h] \in [kept : SUBSET Slots, read : SUBSET Slots]
        /\ fresh'[h].read = fresh[h].read /\ fresh'[h].kept = K
    BY <2>2, <2>3
  <2> QED BY <2>4 DEF K
<1> QED BY <1>3 DEF touched

\* The steps of a worker.
LEMMA StoreIter ==
    ASSUME IterInv, UNCHANGED <<table, iter, fresh>>
    PROVE  IterInv'
BY DEF IterInv, Records, IterTypes, KeptUsed, IteratorMissesNone

LEMMA ResizeIter ==
    ASSUME IterInv, NEW x \in Workers, update_mapping_entry(x)
    PROVE  IterInv'
<1> DEFINE s == get_mapping_entry(w[x].key)
           n == w[x].len
<1>1. /\ iter' = iter /\ fresh' = fresh
      /\ table' = IF s = -1 THEN table ELSE [table EXCEPT ![s].len = n]
  BY DEF update_mapping_entry
<1>2. Records
  BY DEF IterInv
<1> HIDE DEF s, n
<1>3. Records' /\ \A t \in Slots : table'[t].key = table[t].key /\ table'[t].off = table[t].off
  <2>1. DOMAIN table' = Slots
    BY <1>1, <1>2 DEF Records
  <2>2. ASSUME NEW t \in Slots PROVE table'[t] = table[t] \/ table'[t] = [table[t] EXCEPT !.len = n]
    BY <1>1, <1>2 DEF Records
  <2>3. ASSUME NEW t \in Slots
        PROVE  /\ DOMAIN table'[t] = Fields
               /\ table'[t].key = table[t].key /\ table'[t].off = table[t].off
    BY <1>2, <2>2 DEF Records, Fields
  <2> QED BY <2>1, <2>3 DEF Records
<1>4. /\ fresh' \in [Handles -> [kept : SUBSET Slots, read : SUBSET Slots]]
      /\ \A h \in Handles : fresh'[h].kept \subseteq Slots
  BY <1>1 DEF IterInv, IterTypes
<1> QED BY <1>1, <1>3, <1>4, IterKept

LEMMA LinkIter ==
    ASSUME IterInv, NEW x \in Workers, new_mapping_entry(x)
    PROVE  IterInv'
<1> DEFINE g == w[x].slot
           p == w[x].prev
           q == w[x].key
           o == w[x].off
           n == w[x].len
           N == [table[g] EXCEPT !.key = q, !.off = o, !.len = n]
           put == [table EXCEPT ![g].key = q, ![g].off = o, ![g].len = n]
<1>1. iter' = iter /\ touched({g}) /\ table' = IF p = -1 THEN put ELSE [put EXCEPT ![p].next = g]
  BY DEF new_mapping_entry, linked
<1>2. Records /\ IterTypes
  BY DEF IterInv
<1> HIDE DEF g, p, q, o, n
<1>3. DOMAIN put = Slots /\ \A s \in Slots : put[s] = IF s = g THEN N ELSE table[s]
  BY <1>2 DEF Records
<1>4. \A s \in Slots : DOMAIN put[s] = Fields
  BY <1>2, <1>3 DEF Records, Fields
<1> HIDE DEF put, N
<1>5. DOMAIN table' = Slots
  BY <1>1, <1>3
<1>6. ASSUME NEW s \in Slots PROVE table'[s] = put[s] \/ table'[s] = [put[s] EXCEPT !.next = g]
  BY <1>1, <1>3
<1>7. \A s \in Slots : /\ DOMAIN table'[s] = Fields
                       /\ table'[s].key = put[s].key /\ table'[s].off = put[s].off
  BY <1>4, <1>6 DEF Fields
<1>8. Records'
  BY <1>5, <1>7 DEF Records
<1>9. /\ fresh' \in [Handles -> [kept : SUBSET Slots, read : SUBSET Slots]]
      /\ \A h \in Handles : fresh'[h].read = fresh[h].read /\ fresh'[h].kept = fresh[h].kept \ {g}
  BY <1>1, <1>2, Touched
<1>10. \A h \in Handles : \A s \in fresh'[h].kept :
          s \in fresh[h].kept /\ table'[s].key = table[s].key /\ table'[s].off = table[s].off
  BY <1>3, <1>7, <1>9
<1> QED BY <1>1, <1>8, <1>9, <1>10, IterKept

LEMMA DeleteIter ==
    ASSUME IterInv, NEW x \in Workers, NEW k \in Keys, delete_mapping_entry(x, k)
    PROVE  IterInv'
<1> DEFINE d == get_mapping_entry(k)
<1>1. iter' = iter /\ touched({d}) /\ table' = [table EXCEPT ![d] = Empty]
  BY DEF delete_mapping_entry
<1>2. Records /\ IterTypes
  BY DEF IterInv
<1> HIDE DEF d
<1>3. DOMAIN table' = Slots /\ \A s \in Slots : table'[s] = IF s = d THEN Empty ELSE table[s]
  BY <1>1, <1>2 DEF Records
<1>4. DOMAIN Empty = Fields
  BY DEF Empty, Fields
<1>5. Records'
  BY <1>2, <1>3, <1>4 DEF Records
<1>6. /\ fresh' \in [Handles -> [kept : SUBSET Slots, read : SUBSET Slots]]
      /\ \A h \in Handles : fresh'[h].read = fresh[h].read /\ fresh'[h].kept = fresh[h].kept \ {d}
  BY <1>1, <1>2, Touched
<1>7. \A h \in Handles : \A s \in fresh'[h].kept :
          s \in fresh[h].kept /\ table'[s].key = table[s].key /\ table'[s].off = table[s].off
  BY <1>3, <1>6
<1> QED BY <1>1, <1>5, <1>6, <1>7, IterKept

\* An iterator is opened or closed: nothing is behind it yet, or it is not open.
LEMMA OpenIter ==
    ASSUME IterInv, NEW h \in Handles, NEW r \in [open : BOOLEAN, pos : {0}, want : SUBSET Keys],
           NEW f \in [kept : SUBSET (Slots \ Free), read : {{}}],
           table' = table, iter' = [iter EXCEPT ![h] = r], fresh' = [fresh EXCEPT ![h] = f]
    PROVE  IterInv'
<1>1. NSlots \in Nat /\ Slots \subseteq Nat
  BY KvAssumption DEF Slots
<1>2. /\ r \in [open : BOOLEAN, pos : 0 .. NSlots, want : SUBSET Keys] /\ r.pos = 0
      /\ f \in [kept : SUBSET Slots, read : SUBSET Slots] /\ f.kept \subseteq Slots \ Free
  BY <1>1
<1>3. Records'
  BY DEF IterInv, Records
<1>4. IterTypes'
  BY <1>2 DEF IterInv, IterTypes
<1>5. \A g \in Handles : /\ iter'[g] = IF g = h THEN r ELSE iter[g]
                         /\ fresh'[g] = IF g = h THEN f ELSE fresh[g]
  BY DEF IterInv, IterTypes
<1>6. \A s \in f.kept : table[s].off # -1 /\ s \in Nat
  BY <1>1, <1>2 DEF Free
<1>7. KeptUsed'
  <2>1. SUFFICES ASSUME NEW g \in Handles, NEW s \in fresh'[g].kept PROVE table[s].off # -1
    BY DEF KeptUsed
  <2>2. CASE g = h
    BY <1>5, <1>6, <2>2
  <2>3. CASE g # h
    <3>1. s \in fresh[g].kept
      BY <1>5, <2>3
    <3> QED BY <3>1 DEF IterInv, KeptUsed
  <2> QED BY <2>2, <2>3
<1>8. IteratorMissesNone'
  <2>1. SUFFICES ASSUME NEW g \in Handles, iter'[g].open, NEW s \in fresh'[g].kept,
                        s < iter'[g].pos, table[s].key \in iter'[g].want
                 PROVE  s \in fresh'[g].read
    BY DEF IteratorMissesNone
  <2>2. CASE g = h
    BY <1>2, <1>5, <1>6, <2>1, <2>2
  <2>3. CASE g # h
    BY <1>5, <2>1, <2>3 DEF IterInv, IteratorMissesNone
  <2> QED BY <2>2, <2>3
<1> QED BY <1>3, <1>4, <1>7, <1>8 DEF IterInv

\* An iterator is read.
LEMMA ReadIter ==
    ASSUME IterInv, NEW h \in Handles, kv_iter_read(h)
    PROVE  IterInv'
<1> DEFINE H == Hits(h, iter[h].pos)
           A == {s \in H : Cardinality({t \in H : t < s}) < MaxPerRead}
           e == stop_at(h)
           R == fresh[h].read \cup A
           r == [iter[h] EXCEPT !.pos = e]
           f == [fresh[h] EXCEPT !.read = R]
<1>1. table' = table /\ iter' = [iter EXCEPT ![h] = r] /\ fresh' = [fresh EXCEPT ![h] = f] /\ iter[h].open
  BY DEF kv_iter_read, given
<1>2. IterTypes /\ Slots \subseteq Nat /\ NSlots \in Nat
  BY KvAssumption DEF IterInv, Slots
<1>3. /\ iter[h] \in [open : BOOLEAN, pos : 0 .. NSlots, want : SUBSET Keys]
      /\ fresh[h] \in [kept : SUBSET Slots, read : SUBSET Slots]
  BY <1>2 DEF IterTypes
<1>4. e \in 0 .. NSlots /\ \A s \in H : s < e => s \in A
  BY <1>2, ReadAll
<1>5. R \in SUBSET Slots /\ H = {s \in Slots : /\ s >= iter[h].pos /\ table[s].off # -1
                                              /\ table[s].key \in iter[h].want}
  BY <1>3 DEF Hits
<1>6. A \subseteq R /\ fresh[h].read \subseteq R
  OBVIOUS
<1> HIDE DEF R, A, H, e
<1>7. /\ r \in [open : BOOLEAN, pos : 0 .. NSlots, want : SUBSET Keys]
      /\ r.pos = e /\ r.want = iter[h].want /\ r.open = iter[h].open
      /\ f \in [kept : SUBSET Slots, read : SUBSET Slots]
      /\ f.kept = fresh[h].kept /\ f.read = R
  BY <1>3, <1>4, <1>5
<1> HIDE DEF r, f
<1>8. Records'
  BY <1>1 DEF IterInv, Records
<1>9. IterTypes'
  BY <1>1, <1>7 DEF IterInv, IterTypes
<1>10. \A g \in Handles : /\ iter'[g] = IF g = h THEN r ELSE iter[g]
                          /\ fresh'[g] = IF g = h THEN f ELSE fresh[g]
  BY <1>1 DEF IterInv, IterTypes
<1>11. KeptUsed'
  <2>1. \A g \in Handles : fresh'[g].kept = fresh[g].kept
    BY <1>7, <1>10
  <2> QED BY <1>1, <2>1 DEF IterInv, KeptUsed
<1>12. IteratorMissesNone'
  <2>1. SUFFICES ASSUME NEW g \in Handles, iter'[g].open, NEW s \in fresh'[g].kept,
                        s < iter'[g].pos, table[s].key \in iter'[g].want
                 PROVE  s \in fresh'[g].read
    BY <1>1 DEF IteratorMissesNone
  <2>2. CASE g # h
    BY <1>10, <2>1, <2>2 DEF IterInv, IteratorMissesNone
  <2>3. CASE g = h
    <3>1. s \in fresh[h].kept /\ s < e /\ table[s].key \in iter[h].want /\ s \in Slots
      BY <1>3, <1>7, <1>10, <2>1, <2>3
    <3>2. table[s].off # -1
      BY <3>1 DEF IterInv, KeptUsed
    <3>3. CASE s < iter[h].pos
      <4>1. s \in fresh[h].read
        BY <1>1, <3>1, <3>3 DEF IterInv, IteratorMissesNone
      <4> QED BY <1>6, <1>7, <1>10, <2>3, <4>1
    <3>4. CASE s >= iter[h].pos
      <4>1. s \in H
        BY <1>5, <3>1, <3>2, <3>4
      <4>2. s \in A
        BY <1>4, <3>1, <4>1
      <4> QED BY <1>6, <1>7, <1>10, <2>3, <4>2
    <3> QED BY <1>2, <1>3, <3>1, <3>3, <3>4
  <2> QED BY <2>2, <2>3
<1> QED BY <1>8, <1>9, <1>11, <1>12 DEF IterInv

LEMMA InitIter == Init => IterInv
<1>1. SUFFICES ASSUME Init PROVE IterInv
  OBVIOUS
<1>2. Records
  BY <1>1 DEF Init, Records, Empty, Fields
<1>3. NSlots \in Nat /\ Slots \subseteq Nat
  BY KvAssumption DEF Slots
<1>4. IterTypes /\ \A h \in Handles : fresh[h].kept = {}
  <2>1. {Closed, Stray} \subseteq [open : BOOLEAN, pos : 0 .. NSlots, want : SUBSET Keys]
    BY <1>3 DEF Closed, Stray
  <2>2. iter \in [Handles -> {Closed, Stray}]
    BY <1>1 DEF Init
  <2>3. iter \in [Handles -> [open : BOOLEAN, pos : 0 .. NSlots, want : SUBSET Keys]]
    BY <2>1, <2>2
  <2> QED BY <1>1, <2>3 DEF Init, IterTypes
<1> QED BY <1>2, <1>4 DEF IterInv, KeptUsed, IteratorMissesNone

LEMMA StepIter ==
    ASSUME IterInv, [Next]_vars
    PROVE  IterInv'
<1>1. ASSUME NEW x \in Workers, NEW k \in Keys, NEW n \in Lengths,
             kv_store(x, k, n) \/ kv_batched_store(x, k, n)
      PROVE  IterInv'
  BY <1>1, StoreIter DEF kv_store, kv_batched_store, lookup
<1>2. ASSUME NEW x \in Workers, copy(x) \/ copy_batched(x) \/ find_slot(x) PROVE IterInv'
  BY <1>2, StoreIter DEF copy, copy_batched, find_slot
<1>3. ASSUME NEW x \in Workers, update_mapping_entry(x) PROVE IterInv'
  BY <1>3, ResizeIter
<1>4. ASSUME NEW x \in Workers, new_mapping_entry(x) PROVE IterInv'
  BY <1>4, LinkIter
<1>5. ASSUME NEW x \in Workers, NEW k \in Keys, delete_mapping_entry(x, k) PROVE IterInv'
  BY <1>5, DeleteIter
<1>6. ASSUME NEW want \in SUBSET Keys, kv_iter_open(want) PROVE IterInv'
  <2> DEFINE F == {g \in Handles : ~ iter[g].open}
             r == [open |-> TRUE, pos |-> 0, want |-> want]
             f == [kept |-> Slots \ Free, read |-> {}]
  <2>1. F \in SUBSET Nat /\ F # {}
    BY <1>6, KvAssumption DEF kv_iter_open
  <2>2. Min(F) \in F
    BY <2>1, LeastIn
  <2>3. /\ table' = table
        /\ iter' = [iter EXCEPT ![Min(F)] = r] /\ fresh' = [fresh EXCEPT ![Min(F)] = f]
    BY <1>6 DEF kv_iter_open
  <2>4. /\ r \in [open : BOOLEAN, pos : {0}, want : SUBSET Keys]
        /\ f \in [kept : SUBSET (Slots \ Free), read : {{}}]
    OBVIOUS
  <2>5. Min(F) \in Handles
    BY <2>2
  <2> HIDE DEF r, f, F
  <2> QED BY <2>3, <2>4, <2>5, OpenIter
<1>7. ASSUME NEW h \in Handles, kv_iter_close(h) PROVE IterInv'
  <2> DEFINE f == [kept |-> {}, read |-> {}]
  <2>1. table' = table /\ iter' = [iter EXCEPT ![h] = Closed] /\ fresh' = [fresh EXCEPT ![h] = f]
    BY <1>7 DEF kv_iter_close
  <2>2. /\ Closed \in [open : BOOLEAN, pos : {0}, want : SUBSET Keys]
        /\ f \in [kept : SUBSET (Slots \ Free), read : {{}}]
    BY DEF Closed
  <2> HIDE DEF f
  <2> QED BY <2>1, <2>2, OpenIter
<1>8. ASSUME NEW h \in Handles, kv_iter_read(h) PROVE IterInv'
  BY <1>8, ReadIter
<1>9. CASE UNCHANGED vars
  BY <1>9, StoreIter DEF vars
<1> QED BY <1>1, <1>2, <1>3, <1>4, <1>5, <1>6, <1>7, <1>8, <1>9 DEF Next

(***************************************************************************)
(* The theorems about the table.                                           *)
(***************************************************************************)
\* With one worker, whatever is stored and deleted, following next_slot comes to an end
\* from every slot: no search loops, and a slot not in use has no link.
THEOREM SearchesEnd == ASSUME OneWorker PROVE Spec => []ChainsEnd
<1>1. Init => TableInv /\ IterInv
  BY InitTable, InitIter
<1>2. TableInv /\ IterInv /\ [Next]_vars => TableInv' /\ IterInv'
  BY StepTable, StepIter
<1>3. TableInv /\ IterInv => ChainsEnd
  <2>1. SUFFICES ASSUME TableInv, IterInv PROVE ChainsEnd
    OBVIOUS
  <2>2. TypeOK
    <3>1. \A s \in Slots : table[s] \in Entries
      BY <2>1 DEF TableInv, Types
    <3>2. \A x \in Workers : w[x].st \in {"idle", "copy", "resize", "find", "link"}
      BY <2>1 DEF TableInv, Types, Jobs, Idle
    <3>3. \A h \in Handles : iter[h].pos \in 0 .. NSlots
      BY <2>1 DEF IterInv, IterTypes
    <3> QED BY <2>1, <3>1, <3>2, <3>3 DEF TableInv, Types, TypeOK, Entries
  <2>3. \A S \in SUBSET Slots : S # {} => \E s \in S : table[s].off = -1 \/ table[s].next \notin S
    BY <2>1 DEF TableInv, NoTrap
  <2> QED BY <2>1, <2>2, <2>3 DEF TableInv, Shape, ChainsEnd
<1> QED BY <1>1, <1>2, <1>3, PTL DEF Spec

\* With one worker, kv_retrieve and kv_exist find exactly the keys that were stored, not
\* deleted since and not cut off by the delete of a key in front of them.
THEOREM StoredFound == ASSUME OneWorker PROVE Spec => []FoundUnlessCut
<1>1. Init => TableInv
  BY InitTable
<1>2. TableInv /\ [Next]_vars => TableInv'
  BY StepTable
<1>3. TableInv => FoundUnlessCut
  <2>1. SUFFICES ASSUME TableInv, NEW k \in Keys \ cut PROVE exist(k) = (last[k].ver # 0)
    BY DEF FoundUnlessCut
  <2>2. exist(k) <=> last[k].ver # 0
    BY <2>1 DEF TableInv, Found
  <2>3. exist(k) \in BOOLEAN
    BY DEF exist
  <2> QED BY <2>2, <2>3
<1> QED BY <1>1, <1>2, <1>3, PTL DEF Spec

\* With any number of workers, stores and deletes while an iterator is read do not make
\* it miss an entry that was there when it was opened and has not changed since.
THEOREM IteratorComplete == Spec => []IteratorMissesNone
<1>1. Init => IterInv
  BY InitIter
<1>2. IterInv /\ [Next]_vars => IterInv'
  BY StepIter
<1>3. IterInv => IteratorMissesNone
  BY DEF IterInv
<1> QED BY <1>1, <1>2, <1>3, PTL DEF Spec

(***************************************************************************)
(* The steps of the worker: values.                                        *)
(***************************************************************************)
Pairs == [ver : 0 .. MaxStores, len : Nat, first : Nat]

\* Where values may lie and how long they may be.
LEMMA ValueTypes ==
    ASSUME TableInv
    PROVE  /\ Cells \in Nat /\ MaxStores \in Nat /\ latest \in Nat
           /\ \A k \in Keys : last[k] \in Pairs /\ last[k].len \in Nat /\ last[k].first \in Nat
           /\ \A k \in Keys : exist(k) => /\ get_mapping_entry(k) \in Slots /\ at(k) \in Entries
                                          /\ at(k).off \in Nat /\ at(k).len \in Int
<1>1. Cells \in Nat /\ MaxStores \in Nat /\ latest \in Nat
  BY KvAssumption DEF TableInv, Types
<1>2. \A k \in Keys : last[k] \in Pairs
  BY DEF TableInv, Types, Pairs
<1>3. \A k \in Keys : last[k].len \in Nat /\ last[k].first \in Nat
  BY <1>2 DEF Pairs
<1>4. ASSUME NEW k \in Keys, exist(k)
      PROVE  /\ get_mapping_entry(k) \in Slots /\ at(k) \in Entries
             /\ at(k).off \in Nat /\ at(k).len \in Int
  <2>1. Tables
    BY DEF TableInv, Types, Tables
  <2>2. get_mapping_entry(k) \in Slots /\ table[get_mapping_entry(k)].off # -1
    BY <1>4, <2>1, Search
  <2>3. at(k) \in Entries /\ at(k).off # -1
    BY <2>1, <2>2 DEF Tables, at
  <2> QED BY <1>1, <2>2, <2>3 DEF Entries
<1> QED BY <1>1, <1>2, <1>3, <1>4

\* The storage of the keys stays where it is.
LEMMA KeptPlaced ==
    ASSUME TableInv, Placed, latest <= latest', latest' \in Nat,
           \A k \in Keys : exist(k)' =>
              /\ exist(k) /\ at(k)'.off = at(k).off /\ last'[k].first = last[k].first
              /\ at(k)'.len = TableLength(last'[k]) /\ last'[k].len <= last'[k].first
    PROVE  Placed'
<1>1. SUFFICES ASSUME NEW k \in Keys, exist(k)'
      PROVE  /\ at(k)'.len = TableLength(last'[k]) /\ last'[k].len <= last'[k].first
             /\ at(k)'.off + last'[k].first <= latest'
             /\ \A j \in Keys : exist(j)' /\ j # k =>
                   \/ at(k)'.off + last'[k].first <= at(j)'.off
                   \/ at(j)'.off + last'[j].first <= at(k)'.off
  BY DEF Placed
<1>2. exist(k) /\ at(k)'.off = at(k).off /\ last'[k].first = last[k].first
  BY <1>1
<1>3. at(k).off \in Nat /\ last[k].first \in Nat /\ latest \in Nat
  BY <1>2, ValueTypes
<1>4. at(k).off + last[k].first <= latest
  BY <1>2 DEF Placed
<1>5. at(k)'.off + last'[k].first <= latest'
  BY <1>2, <1>3, <1>4
<1>6. ASSUME NEW j \in Keys, exist(j)', j # k
      PROVE  \/ at(k)'.off + last'[k].first <= at(j)'.off
             \/ at(j)'.off + last'[j].first <= at(k)'.off
  <2>1. exist(j) /\ at(j)'.off = at(j).off /\ last'[j].first = last[j].first
    BY <1>6
  <2>2. at(k).off + last[k].first <= at(j).off \/ at(j).off + last[j].first <= at(k).off
    BY <1>2, <1>6, <2>1 DEF Placed
  <2> QED BY <1>2, <2>1, <2>2
<1> QED BY <1>1, <1>5, <1>6

\* A table that stays as it is.
LEMMA SameAt ==
    ASSUME TableInv, table' = table
    PROVE  \A k \in Keys : (exist(k)' <=> exist(k)) /\ at(k)' = at(k)
<1>1. Tables /\ SameKeys
  BY DEF TableInv, Types, Tables, SameKeys
<1>2. /\ \A k \in Keys : exist(k)' <=> exist(k)
      /\ \A k \in Keys : get_mapping_entry(k)' = get_mapping_entry(k)
  BY <1>1, SameSearch
<1> QED BY <1>2 DEF at

\* Two ranges, one behind the other.
LEMMA Behind ==
    ASSUME NEW a \in Nat, NEW l \in Nat, NEW o \in Nat, NEW n \in Nat, a + l <= o \/ o + n <= a
    PROVE  \A c \in a .. a + l - 1 : c \notin o .. o + n - 1
OBVIOUS

\* The bytes of the keys that exist lie where no job for another key writes.
LEMMA Apart ==
    ASSUME TableInv, Placed, JobPlaced, NEW x \in Workers, w[x] \in Jobs, NEW k \in Keys, exist(k),
           w[x].key # k
    PROVE  \A c \in at(k).off .. at(k).off + last[k].len - 1 : c \notin w[x].off .. w[x].off + w[x].len - 1
<1> DEFINE q == w[x].key
           e == w[x]
           new == (e.st = "copy" /\ e.slot = -1) \/ e.st \in {"find", "link"}
<1>1. q \in Keys /\ e.off \in Nat /\ e.len \in Nat
  BY KvAssumption DEF Jobs
<1>2. /\ at(k).off \in Nat /\ last[k].len \in Nat /\ last[k].first \in Nat
      /\ last[k].len <= last[k].first
  BY ValueTypes DEF Placed
<1>3. /\ new => \A j \in Keys : exist(j) => at(j).off + last[j].first <= e.off
      /\ ~ new => e.off = at(q).off /\ e.len <= last[q].first
  BY <1>1 DEF JobPlaced
<1>4. CASE new
  <2>1. at(k).off + last[k].first <= e.off
    BY <1>3, <1>4
  <2>2. at(k).off + last[k].len <= e.off
    BY <1>1, <1>2, <2>1
  <2> QED BY <1>1, <1>2, <2>2, Behind
<1>5. CASE ~ new
  <2>1. e.off = at(q).off /\ e.len <= last[q].first
    BY <1>3, <1>5
  <2>2. exist(q)
    BY <1>1, <1>5 DEF TableInv, JobRight, exist, Jobs
  <2>3. at(q).off \in Nat /\ last[q].first \in Nat
    BY <1>1, <2>2, ValueTypes
  <2>4. at(k).off + last[k].first <= at(q).off \/ at(q).off + last[q].first <= at(k).off
    BY <1>1, <2>2 DEF Placed
  <2>5. at(k).off + last[k].len <= e.off \/ e.off + e.len <= at(k).off
    BY <1>1, <1>2, <2>1, <2>3, <2>4
  <2> QED BY <1>1, <1>2, <2>5, Behind
<1> QED BY <1>4, <1>5

\* With an idle worker nothing is half done.
LEMMA IdleValue ==
    ASSUME OneWorker, NEW x \in Workers, w[x] = Idle
    PROVE  /\ \A y \in Workers : w[y] = Idle /\ w[y].key \notin Keys
           /\ Intact => \A k \in Keys : exist(k) =>
                 \A c \in at(k).off .. at(k).off + last[k].len - 1 : storage[c] = last[k].ver
<1>1. \A y \in Workers : w[y] = Idle /\ w[y].key \notin Keys
  BY KvAssumption DEF OneWorker, Idle
<1> QED BY <1>1 DEF Intact

\* The key is looked up: a new key gets storage behind all others, an old one keeps its
\* own, which is long enough for lengths up to the first.
LEMMA LookupValue ==
    ASSUME TableInv, ValueInv, OneWorker, Resize = "shrink", NEW x \in Workers,
           NEW op \in {"store", "batch"}, NEW k \in Keys, NEW n \in Lengths, lookup(x, op, k, n)
    PROVE  ValueInv'
<1> DEFINE s == get_mapping_entry(k)
<1>1. /\ table' = table /\ last' = last /\ storage' = storage /\ w[x] = Idle /\ Fits(op, k, n)
      /\ DOMAIN w = Workers /\ n \in Nat
  BY KvAssumption DEF lookup, TableInv, Types
<1>2. \A j \in Keys : (exist(j)' <=> exist(j)) /\ at(j)' = at(j)
  BY <1>1, SameAt
<1>3. latest \in Nat /\ latest' \in Nat /\ latest <= latest'
  BY <1>1, ValueTypes DEF lookup, allocate_mem_offset, append_only_allocate
<1>4. Placed'
  BY <1>1, <1>2, <1>3, KeptPlaced DEF ValueInv, Placed
<1>5. Intact'
  BY <1>1, <1>2, IdleValue DEF ValueInv, Intact
<1>6. JobPlaced'
  <2>1. exist(k) <=> s # -1
    BY DEF exist
  <2>2. CASE s = -1
    <3> DEFINE J == job(op, k, n, latest, -1)
    <3>1. w' = [w EXCEPT ![x] = J] /\ latest' = latest + n
      BY <2>2 DEF lookup, allocate_mem_offset, append_only_allocate
    <3>2. J.st = "copy" /\ J.slot = -1 /\ J.key = k /\ J.off = latest /\ J.len = n
      BY DEF job
    <3> HIDE DEF J
    <3>3. w'[x] = J
      BY <1>1, <3>1
    <3>4. SUFFICES ASSUME NEW y \in Workers, NEW i \in Keys, w'[y].key = i
          PROVE  /\ w'[y].st = "copy" /\ w'[y].slot = -1
                 /\ w'[y].off + w'[y].len <= latest'
                 /\ \A j \in Keys : exist(j)' => at(j)'.off + last'[j].first <= w'[y].off
      BY DEF JobPlaced
    <3>5. w'[y] = J
      BY <3>3 DEF OneWorker
    <3>6. \A j \in Keys : exist(j) => at(j).off + last[j].first <= latest
      BY DEF ValueInv, Placed
    <3> QED BY <1>1, <1>2, <1>3, <3>1, <3>2, <3>5, <3>6
  <2>3. CASE s # -1
    <3> DEFINE o == table[s].off
               J == job(op, k, n, o, s)
    <3>1. w' = [w EXCEPT ![x] = J]
      BY <2>3 DEF lookup
    <3>2. /\ J.st = "copy" /\ J.slot = s /\ J.key = k /\ J.off = o /\ J.len = n /\ J.op = op
          /\ J.resized <=> n # table[s].len /\ n <= SmallLength /\ table[s].len <= SmallLength
      BY <2>3 DEF job, resized
    <3> HIDE DEF J
    <3>3. w'[x] = J
      BY <1>1, <3>1
    <3>4. at(k).off = o /\ at(k).len = table[s].len
      BY DEF at
    <3>5. at(k).len = TableLength(last[k]) /\ last[k].len <= last[k].first
      BY <2>1, <2>3 DEF ValueInv, Placed
    <3>6. n <= last[k].first /\ (op = "batch" => n = last[k].len)
      BY <1>1, <2>1, <2>3, <3>5, ValueTypes DEF Fits
    <3>7. SUFFICES ASSUME NEW y \in Workers, NEW i \in Keys, w'[y].key = i
          PROVE  /\ w'[y].st = "copy" /\ w'[y].slot # -1
                 /\ w'[y].off = at(i)'.off /\ w'[y].len <= last'[i].first
                 /\ Resized(w'[y], last'[i])
      BY DEF JobPlaced
    <3>8. w'[y] = J /\ i = k
      BY <3>2, <3>3, <3>7 DEF OneWorker
    <3>9. last[k].len \in Nat /\ last[k].first \in Nat /\ SmallLength \in Nat
      BY KvAssumption, ValueTypes
    <3>10. Resized(J, last[k])
      BY <1>1, <3>2, <3>4, <3>5, <3>6, <3>9 DEF Resized, TableLength
    <3> QED BY <1>1, <1>2, <2>3, <3>2, <3>4, <3>6, <3>8, <3>10
  <2> QED BY <2>2, <2>3
<1> QED BY <1>4, <1>5, <1>6 DEF ValueInv

\* The value is in storage after the copy, and no other value is touched.
LEMMA WriteValue ==
    ASSUME TableInv, ValueInv, OneWorker, NEW x \in Workers, w[x] \in Jobs, w[x].st = "copy",
           write_value(w[x])
    PROVE  /\ \A c \in w[x].off .. w[x].off + w[x].len - 1 : storage'[c] = w[x].ver
           /\ \A k \in Keys : exist(k) /\ k # w[x].key =>
                 \A c \in at(k).off .. at(k).off + last[k].len - 1 : storage'[c] = last[k].ver
<1> DEFINE a == w[x].off
           n == w[x].len
           v == w[x].ver
<1>1. a \in Nat /\ n \in Nat /\ Cells \in Nat /\ w[x].key \in Keys
  BY KvAssumption DEF Jobs
<1>2. a + n <= Cells /\ DOMAIN storage = 0 .. Cells - 1
  BY <1>1 DEF TableInv, JobRight, Types
<1>3. \A c \in 0 .. Cells - 1 : storage'[c] = IF c \in a .. a + n - 1 THEN v ELSE storage[c]
  BY <1>2 DEF write_value
<1> HIDE DEF a, n, v
<1>4. \A c \in a .. a + n - 1 : c \in 0 .. Cells - 1
  BY <1>1, <1>2
<1>5. ASSUME NEW k \in Keys, exist(k), k # w[x].key,
             NEW c \in at(k).off .. at(k).off + last[k].len - 1
      PROVE  storage'[c] = last[k].ver
  <2>1. storage[c] = last[k].ver
    <3>1. \A y \in Workers : ~ (w[y].key = k /\ w[y].st = "resize")
      BY <1>5 DEF OneWorker
    <3> QED BY <1>5, <3>1 DEF ValueInv, Intact
  <2>2. c \notin a .. a + n - 1
    BY <1>5, Apart DEF ValueInv, a, n
  <2>3. c \in 0 .. Cells - 1
    <3>1. /\ at(k).off \in Nat /\ last[k].len \in Nat /\ last[k].first \in Nat
          /\ last[k].len <= last[k].first /\ at(k).off + last[k].first <= latest
      BY <1>5, ValueTypes DEF ValueInv, Placed
    <3>2. latest \in 0 .. Cells
      BY DEF TableInv, Types
    <3> QED BY <1>1, <1>5, <3>1, <3>2
  <2> QED BY <1>3, <2>1, <2>2, <2>3
<1> QED BY <1>3, <1>4, <1>5 DEF a, n, v

\* The copy of a single store and of a part of a batch.
LEMMA CopyValue ==
    ASSUME TableInv, ValueInv, OneWorker, NEW x \in Workers, copy(x) \/ copy_batched(x)
    PROVE  ValueInv'
<1> DEFINE q == w[x].key
           e == w[x]
<1>1. table' = table /\ latest' = latest /\ e.st = "copy" /\ write_value(w[x])
  BY DEF copy, copy_batched
<1>2. /\ w[x] \in Jobs /\ q \in Keys /\ e.off \in Nat /\ e.len \in Nat
      /\ w \in [Workers -> Jobs \cup {Idle}]
  <2>1. w[x] \in Jobs /\ w \in [Workers -> Jobs \cup {Idle}]
    BY <1>1, JobType DEF TableInv, Types
  <2> QED BY <2>1, JobFields
<1>3. /\ \A c \in e.off .. e.off + e.len - 1 : storage'[c] = e.ver
      /\ \A k \in Keys : exist(k) /\ k # q =>
            \A c \in at(k).off .. at(k).off + last[k].len - 1 : storage'[c] = last[k].ver
  BY <1>1, <1>2, WriteValue
<1>4. \A k \in Keys : (exist(k)' <=> exist(k)) /\ at(k)' = at(k)
  BY <1>1, SameAt
<1>5. latest \in Nat /\ latest' \in Nat /\ latest <= latest'
  BY <1>1, ValueTypes
<1>6. e.slot = -1 <=> ~ exist(q)
  BY <1>1, <1>2 DEF TableInv, JobRight, exist
<1>7. /\ e.slot = -1 => /\ e.off + e.len <= latest
                        /\ \A j \in Keys : exist(j) => at(j).off + last[j].first <= e.off
      /\ e.slot # -1 => /\ e.off = at(q).off /\ e.len <= last[q].first
                        /\ Resized(e, last[q])
  BY <1>1, <1>2 DEF ValueInv, JobPlaced
<1>8. ASSUME NEW st \in {"find", "resize"}, go_on(x, st), st = "find" <=> e.slot = -1,
             st = "resize" => e.resized
      PROVE  ValueInv'
  <2> DEFINE J == [w[x] EXCEPT !.st = st]
  <2>1. w' = [w EXCEPT ![x] = J] /\ last' = last
    BY <1>8 DEF go_on
  <2>2. /\ J.st = st /\ J.key = q /\ J.slot = e.slot /\ J.off = e.off /\ J.len = e.len
        /\ J.ver = e.ver /\ J.op = e.op /\ J.resized = e.resized
    BY <1>2 DEF Jobs
  <2> HIDE DEF J
  <2>3. w'[x] = J /\ \A y \in Workers : w'[y] = J
    BY <1>2, <2>1 DEF OneWorker
  <2>4. Placed'
    BY <1>4, <1>5, <2>1, KeptPlaced DEF ValueInv, Placed
  <2>5. Intact'
    <3>1. SUFFICES ASSUME NEW k \in Keys, exist(k)',
                          \A y \in Workers : ~ (w'[y].key = k /\ w'[y].st = "resize")
                   PROVE  \A c \in at(k)'.off .. at(k)'.off + last'[k].len - 1 :
                             storage'[c] = last'[k].ver
      BY DEF Intact
    <3>2. exist(k) /\ k # q
      BY <1>4, <1>6, <1>8, <2>2, <2>3, <3>1
    <3> QED BY <1>3, <1>4, <2>1, <3>2
  <2>6. JobPlaced'
    <3>1. ASSUME NEW y \in Workers, NEW k \in Keys, w'[y].key = k
          PROVE  w'[y] = J /\ k = q
      BY <2>2, <2>3, <3>1
    <3>2. CASE st = "find"
      <4>1. SUFFICES ASSUME NEW y \in Workers, NEW k \in Keys, w'[y].key = k
            PROVE  /\ w'[y].st = "find" /\ w'[y].off + w'[y].len <= latest'
                   /\ \A j \in Keys : exist(j)' => at(j)'.off + last'[j].first <= w'[y].off
                   /\ \A c \in w'[y].off .. w'[y].off + w'[y].len - 1 : storage'[c] = w'[y].ver
        BY DEF JobPlaced
      <4> QED BY <1>1, <1>3, <1>4, <1>7, <1>8, <2>1, <2>2, <3>1, <3>2, <4>1
    <3>3. CASE st = "resize"
      <4>1. SUFFICES ASSUME NEW y \in Workers, NEW k \in Keys, w'[y].key = k
            PROVE  /\ w'[y].st = "resize"
                   /\ w'[y].off = at(k)'.off /\ w'[y].len <= last'[k].first
                   /\ Resized(w'[y], last'[k])
                   /\ \A c \in w'[y].off .. w'[y].off + w'[y].len - 1 : storage'[c] = w'[y].ver
        BY DEF JobPlaced
      <4>2. Resized(J, last[q])
        BY <1>7, <1>8, <2>2, <3>3 DEF Resized
      <4> QED BY <1>1, <1>3, <1>4, <1>7, <1>8, <2>1, <2>2, <3>1, <3>3, <4>1, <4>2
    <3> QED BY <3>2, <3>3
  <2> QED BY <2>4, <2>5, <2>6 DEF ValueInv
<1>9. ASSUME finish(x), e.slot # -1, e.op = "batch" \/ ~ e.resized PROVE ValueInv'
  <2> DEFINE r == [ver |-> e.ver, len |-> e.len,
                   first |-> IF e.st = "link" THEN e.len ELSE last[q].first]
  <2>1. last' = [last EXCEPT ![q] = r] /\ w' = [w EXCEPT ![x] = Idle]
    BY <1>9 DEF finish, stored
  <2>2. r.ver = e.ver /\ r.len = e.len /\ r.first = last[q].first
    BY <1>1
  <2> HIDE DEF r
  <2>3. \A k \in Keys : last'[k] = IF k = q THEN r ELSE last[k]
    BY <1>2, <2>1 DEF TableInv, Types
  <2>4. \A y \in Workers : w'[y].key \notin Keys
    BY <1>2, <2>1, KvAssumption DEF OneWorker, Idle
  <2>5. /\ e.len = last[q].len \/ last[q].first > SmallLength
        /\ e.off = at(q).off /\ e.len <= last[q].first
    BY <1>7, <1>9 DEF Resized
  <2>51. TableLength(r) = TableLength(last[q])
    <3>1. last[q].first \in Nat /\ SmallLength \in Nat
      BY <1>2, KvAssumption, ValueTypes
    <3> QED BY <2>2, <2>5, <3>1 DEF TableLength
  <2>6. Placed'
    <3>1. \A k \in Keys : exist(k)' =>
            /\ exist(k) /\ at(k)'.off = at(k).off /\ last'[k].first = last[k].first
            /\ at(k)'.len = TableLength(last'[k]) /\ last'[k].len <= last'[k].first
      BY <1>2, <1>4, <2>2, <2>3, <2>5, <2>51 DEF ValueInv, Placed
    <3> QED BY <1>5, <3>1, KeptPlaced DEF ValueInv
  <2>7. Intact'
    <3>1. SUFFICES ASSUME NEW k \in Keys, exist(k)'
                   PROVE  \A c \in at(k)'.off .. at(k)'.off + last'[k].len - 1 :
                             storage'[c] = last'[k].ver
      BY DEF Intact
    <3>2. CASE k = q
      BY <1>3, <1>4, <2>2, <2>3, <2>5, <3>2
    <3>3. CASE k # q
      BY <1>3, <1>4, <2>3, <3>1, <3>3
    <3> QED BY <3>2, <3>3
  <2>8. JobPlaced'
    BY <2>4 DEF JobPlaced
  <2> QED BY <2>6, <2>7, <2>8 DEF ValueInv
<1>10. \/ go_on(x, "find") /\ e.slot = -1
       \/ go_on(x, "resize") /\ e.slot # -1 /\ e.resized
       \/ finish(x) /\ e.slot # -1 /\ (e.op = "batch" \/ ~ e.resized)
  BY DEF copy, copy_batched
<1> QED BY <1>8, <1>9, <1>10

\* The length of a value is changed.
LEMMA ResizeValue ==
    ASSUME TableInv, ValueInv, OneWorker, NEW x \in Workers, update_mapping_entry(x)
    PROVE  ValueInv'
<1> DEFINE q == w[x].key
           e == w[x]
           s == w[x].slot
           n == w[x].len
           r == [ver |-> e.ver, len |-> e.len,
                 first |-> IF e.st = "link" THEN e.len ELSE last[q].first]
<1>1. /\ e.st = "resize" /\ latest' = latest /\ storage' = storage
      /\ last' = [last EXCEPT ![q] = r] /\ w' = [w EXCEPT ![x] = Idle]
  BY DEF update_mapping_entry, stored
<1>2. /\ w[x] \in Jobs /\ q \in Keys /\ n \in Nat /\ w \in [Workers -> Jobs \cup {Idle}]
  <2>1. w[x] \in Jobs /\ w \in [Workers -> Jobs \cup {Idle}]
    BY <1>1, JobType DEF TableInv, Types
  <2> QED BY <2>1, JobFields
<1>3. s = get_mapping_entry(q) /\ s # -1 /\ s \in Slots /\ exist(q)
  BY <1>1, <1>2 DEF TableInv, JobRight, Jobs, exist
<1>4. table' = [table EXCEPT ![s] = [table[s] EXCEPT !.len = n]]
  BY <1>3 DEF update_mapping_entry
<1>5. /\ Tables /\ \A t \in Slots : table[t] \in Entries
      /\ \A t \in Slots : table'[t] = IF t = s THEN [table[s] EXCEPT !.len = n] ELSE table[t]
  BY <1>3, <1>4 DEF TableInv, Types, Tables
<1>6. r.ver = e.ver /\ r.len = n /\ r.first = last[q].first
  BY <1>1
<1>7. /\ e.off = at(q).off /\ n <= last[q].first
      /\ \A c \in e.off .. e.off + n - 1 : storage[c] = e.ver
      /\ last[q].first <= SmallLength
  BY <1>1, <1>2 DEF ValueInv, JobPlaced, Resized
<1> HIDE DEF r, q, s, n
<1>8. /\ \A k \in Keys : last'[k] = IF k = q THEN r ELSE last[k]
      /\ \A y \in Workers : w'[y].key \notin Keys
  BY <1>1, <1>2, KvAssumption DEF TableInv, Types, OneWorker, Idle
<1>9. SameKeys
  <2>1. [table[s] EXCEPT !.len = n] \in Entries
    BY <1>2, <1>3, <1>5 DEF Entries
  <2>2. Tables'
    BY <1>3, <1>4, <1>5, <2>1 DEF Tables
  <2> QED BY <1>5, <2>2 DEF SameKeys, Entries
<1>10. /\ \A k \in Keys : exist(k)' <=> exist(k)
       /\ \A k \in Keys : get_mapping_entry(k)' = get_mapping_entry(k)
  BY <1>5, <1>9, SameSearch
<1>11. table[s].key = q
  BY <1>2, <1>3, <1>5, Search
<1>12. ASSUME NEW k \in Keys, exist(k)
       PROVE  at(k)'.off = at(k).off /\ at(k)'.len = IF k = q THEN n ELSE at(k).len
  <2>1. at(k)' = table'[get_mapping_entry(k)] /\ at(k) = table[get_mapping_entry(k)]
    BY <1>10 DEF at
  <2>2. get_mapping_entry(k) \in Slots /\ table[get_mapping_entry(k)].key = k
    BY <1>5, <1>12, Search
  <2>3. CASE k = q
    BY <1>3, <1>5, <2>1, <2>3 DEF Entries
  <2>4. CASE k # q
    BY <1>5, <1>11, <2>1, <2>2, <2>4
  <2> QED BY <2>3, <2>4
<1>13. Placed'
  <2>1. \A k \in Keys : exist(k)' =>
            /\ exist(k) /\ at(k)'.off = at(k).off /\ last'[k].first = last[k].first
            /\ at(k)'.len = TableLength(last'[k]) /\ last'[k].len <= last'[k].first
    BY <1>6, <1>7, <1>8, <1>10, <1>12 DEF ValueInv, Placed, TableLength
  <2> QED BY <1>1, <2>1, KeptPlaced, ValueTypes DEF ValueInv
<1>14. Intact'
  <2>1. SUFFICES ASSUME NEW k \in Keys, exist(k)'
                 PROVE  \A c \in at(k)'.off .. at(k)'.off + last'[k].len - 1 : storage[c] = last'[k].ver
    BY <1>1 DEF Intact
  <2>2. exist(k)
    BY <1>10, <2>1
  <2>3. CASE k = q
    BY <1>6, <1>7, <1>8, <1>12, <2>2, <2>3
  <2>4. CASE k # q
    <3>1. \A y \in Workers : ~ (w[y].key = k /\ w[y].st = "resize")
      BY <2>4 DEF OneWorker, q
    <3>2. \A c \in at(k).off .. at(k).off + last[k].len - 1 : storage[c] = last[k].ver
      BY <2>2, <3>1 DEF ValueInv, Intact
    <3> QED BY <1>8, <1>12, <2>2, <2>4, <3>2
  <2> QED BY <2>3, <2>4
<1>15. JobPlaced'
  BY <1>8 DEF JobPlaced
<1> QED BY <1>13, <1>14, <1>15 DEF ValueInv

\* A slot is looked for.
LEMMA FindValue ==
    ASSUME TableInv, ValueInv, OneWorker, NEW x \in Workers, find_slot(x)
    PROVE  ValueInv'
<1> DEFINE q == w[x].key
           e == w[x]
           f == find_next_slot(q).slot
           g == find_next_slot(q).prev
           J == [w[x] EXCEPT !.st = "link", !.slot = f, !.prev = g]
<1>1. /\ e.st = "find" /\ table' = table /\ latest' = latest /\ storage' = storage /\ last' = last
      /\ w' = [w EXCEPT ![x] = J]
  BY DEF find_slot
<1>2. w[x] \in Jobs /\ q \in Keys /\ w \in [Workers -> Jobs \cup {Idle}]
  BY <1>1, JobType DEF TableInv, Types
<1> HIDE DEF f, g
<1>3. J.st = "link" /\ J.key = q /\ J.off = e.off /\ J.len = e.len /\ J.ver = e.ver
  BY <1>2 DEF Jobs
<1> HIDE DEF J
<1>4. \A y \in Workers : w'[y] = J /\ w[y] = w[x]
  BY <1>1, <1>2 DEF OneWorker
<1>5. \A k \in Keys : (exist(k)' <=> exist(k)) /\ at(k)' = at(k)
  BY <1>1, SameAt
<1>6. /\ e.off + e.len <= latest
      /\ \A j \in Keys : exist(j) => at(j).off + last[j].first <= e.off
      /\ \A c \in e.off .. e.off + e.len - 1 : storage[c] = e.ver
  BY <1>1, <1>2 DEF ValueInv, JobPlaced
<1>7. Placed'
  BY <1>1, <1>5 DEF ValueInv, Placed
<1>8. Intact'
  BY <1>1, <1>4, <1>5 DEF ValueInv, Intact
<1>9. JobPlaced'
  <2>1. SUFFICES ASSUME NEW y \in Workers, NEW k \in Keys, w'[y].key = k
        PROVE  /\ w'[y].st = "link" /\ w'[y].off + w'[y].len <= latest'
               /\ \A j \in Keys : exist(j)' => at(j)'.off + last'[j].first <= w'[y].off
               /\ \A c \in w'[y].off .. w'[y].off + w'[y].len - 1 : storage'[c] = w'[y].ver
    BY DEF JobPlaced
  <2> QED BY <1>1, <1>3, <1>4, <1>5, <1>6
<1> QED BY <1>7, <1>8, <1>9 DEF ValueInv

\* The slot is filled: the new key has the storage behind all others.
LEMMA LinkValue ==
    ASSUME TableInv, ValueInv, OneWorker, NEW x \in Workers, new_mapping_entry(x)
    PROVE  ValueInv'
<1> DEFINE q == w[x].key
           e == w[x]
           g == w[x].slot
           p == w[x].prev
           r == [ver |-> e.ver, len |-> e.len,
                 first |-> IF e.st = "link" THEN e.len ELSE last[q].first]
<1>1. /\ e.st = "link" /\ latest' = latest /\ storage' = storage
      /\ last' = [last EXCEPT ![q] = r] /\ w' = [w EXCEPT ![x] = Idle]
  BY DEF new_mapping_entry, stored
<1>2. /\ w[x] \in Jobs /\ q \in Keys /\ e.off \in Nat /\ e.len \in Nat
      /\ w \in [Workers -> Jobs \cup {Idle}]
  <2>1. e.st # "idle"
    BY <1>1
  <2>2. w[x] \in Jobs
    BY <2>1, JobType
  <2>3. q \in Keys /\ e.off \in 0 .. Cells - 1 /\ e.len \in Nat \ {0}
    BY <2>2, JobFields
  <2>4. e.off \in Nat /\ e.len \in Nat
    BY <2>3
  <2>5. w \in [Workers -> Jobs \cup {Idle}]
    BY DEF TableInv, Types
  <2> QED BY <2>2, <2>3, <2>4, <2>5
<1>3. /\ Added(g, p, q) /\ table'[g].off = e.off /\ table'[g].len = e.len
      /\ \A k \in Keys : k = q => exist(k)' /\ get_mapping_entry(k)' = g
  BY LinkTable
<1>4. Tables /\ Shape /\ g \in Slots /\ table[g].off = -1
  BY <1>3 DEF TableInv, Types, Tables, Added
<1>5. r.ver = e.ver /\ r.len = e.len /\ r.first = e.len
  BY <1>1
<1>6. /\ e.off + e.len <= latest
      /\ \A j \in Keys : exist(j) => at(j).off + last[j].first <= e.off
      /\ \A c \in e.off .. e.off + e.len - 1 : storage[c] = e.ver
  BY <1>1, <1>2 DEF ValueInv, JobPlaced
<1> HIDE DEF r
<1>7. /\ \A k \in Keys : last'[k] = IF k = q THEN r ELSE last[k]
      /\ \A y \in Workers : w'[y].key \notin Keys
  BY <1>1, <1>2, KvAssumption DEF TableInv, Types, OneWorker, Idle
<1>8. ASSUME NEW k \in Keys, k # q
      PROVE  /\ exist(k)' <=> exist(k)
             /\ exist(k) => at(k)'.off = at(k).off /\ at(k)'.len = at(k).len
  <2>1. /\ exist(k)' <=> exist(k)
        /\ exist(k) => get_mapping_entry(k)' = get_mapping_entry(k)
    BY <1>2, <1>3, <1>4, <1>8, AddedOthers
  <2>2. ASSUME exist(k) PROVE at(k)'.off = at(k).off /\ at(k)'.len = at(k).len
    <3>1. get_mapping_entry(k) \in Slots /\ table[get_mapping_entry(k)].off # -1
      BY <1>4, <2>2, Search
    <3>2. get_mapping_entry(k) \in Slots \ {g}
      BY <1>4, <3>1
    <3> QED BY <1>3, <2>1, <2>2, <3>2 DEF Added, at
  <2> QED BY <2>1, <2>2
<1>9. \A k \in Keys : k = q => at(k)'.off = e.off /\ at(k)'.len = e.len
  BY <1>3 DEF at
<1>10. Placed'
  <2>1. SUFFICES ASSUME NEW k \in Keys, exist(k)'
        PROVE  /\ at(k)'.len = TableLength(last'[k]) /\ last'[k].len <= last'[k].first
               /\ at(k)'.off + last'[k].first <= latest'
               /\ \A j \in Keys : exist(j)' /\ j # k =>
                     \/ at(k)'.off + last'[k].first <= at(j)'.off
                     \/ at(j)'.off + last'[j].first <= at(k)'.off
    BY DEF Placed
  <2>2. CASE k = q
    <3>1. /\ at(k)'.len = TableLength(last'[k]) /\ last'[k].len <= last'[k].first
          /\ at(k)'.off + last'[k].first <= latest'
      BY <1>1, <1>2, <1>5, <1>6, <1>7, <1>9, <2>2 DEF TableLength
    <3>2. ASSUME NEW j \in Keys, exist(j)', j # k
          PROVE  at(j)'.off + last'[j].first <= at(k)'.off
      BY <1>6, <1>7, <1>8, <1>9, <2>2, <3>2
    <3> QED BY <3>1, <3>2
  <2>3. CASE k # q
    <3>1. exist(k) /\ at(k)'.off = at(k).off /\ at(k)'.len = at(k).len /\ last'[k] = last[k]
      BY <1>7, <1>8, <2>1, <2>3
    <3>2. ASSUME NEW j \in Keys, exist(j)', j # k
          PROVE  \/ at(k)'.off + last'[k].first <= at(j)'.off
                 \/ at(j)'.off + last'[j].first <= at(k)'.off
      <4>1. CASE j = q
        BY <1>6, <1>9, <3>1, <4>1
      <4>2. CASE j # q
        <5>1. exist(j) /\ at(j)'.off = at(j).off /\ last'[j] = last[j]
          BY <1>7, <1>8, <3>2, <4>2
        <5> QED BY <3>1, <3>2, <5>1 DEF ValueInv, Placed
      <4> QED BY <4>1, <4>2
    <3>3. /\ at(k).len = TableLength(last[k]) /\ last[k].len <= last[k].first
          /\ at(k).off + last[k].first <= latest
      BY <3>1 DEF ValueInv, Placed
    <3> QED BY <1>1, <3>1, <3>2, <3>3
  <2> QED BY <2>2, <2>3
<1>11. Intact'
  <2>1. SUFFICES ASSUME NEW k \in Keys, exist(k)'
                 PROVE  \A c \in at(k)'.off .. at(k)'.off + last'[k].len - 1 : storage[c] = last'[k].ver
    BY <1>1 DEF Intact
  <2>2. CASE k = q
    BY <1>5, <1>6, <1>7, <1>9, <2>2
  <2>3. CASE k # q
    <3>1. \A y \in Workers : ~ (w[y].key = k /\ w[y].st = "resize")
      BY <2>3 DEF OneWorker
    <3>2. exist(k) /\ at(k)'.off = at(k).off /\ last'[k] = last[k]
      BY <1>7, <1>8, <2>1, <2>3
    <3>3. \A c \in at(k).off .. at(k).off + last[k].len - 1 : storage[c] = last[k].ver
      BY <3>1, <3>2 DEF ValueInv, Intact
    <3> QED BY <3>2, <3>3
  <2> QED BY <2>2, <2>3
<1>12. JobPlaced'
  BY <1>7 DEF JobPlaced
<1> QED BY <1>10, <1>11, <1>12 DEF ValueInv

\* An entry is deleted.
LEMMA DeleteValue ==
    ASSUME TableInv, ValueInv, OneWorker, NEW x \in Workers, NEW k \in Keys,
           delete_mapping_entry(x, k)
    PROVE  ValueInv'
<1> DEFINE d == get_mapping_entry(k)
<1>1. /\ w[x] = Idle /\ w' = w /\ latest' = latest /\ storage' = storage
      /\ last' = [last EXCEPT ![k] = NoPair]
  BY DEF delete_mapping_entry
<1>2. exist(k) /\ Removed(d)
  BY DeleteTable
<1>3. Tables /\ d \in Slots /\ d \in path(k)
  BY <1>2, Search DEF TableInv, Types, Tables
<1> HIDE DEF d
<1>4. ASSUME NEW j \in Keys, exist(j)'
      PROVE  exist(j) /\ j # k /\ at(j)' = at(j) /\ last'[j] = last[j]
  <2>1. exist(j) /\ d \notin path(j) /\ get_mapping_entry(j)' = get_mapping_entry(j)
    BY <1>2, <1>3, <1>4, RemovedSearch DEF d
  <2>2. j # k
    BY <1>3, <2>1
  <2>3. get_mapping_entry(j) \in Slots \ {d}
    BY <1>3, <2>1, Search
  <2>4. at(j)' = at(j)
    BY <1>2, <2>1, <2>3 DEF Removed, at
  <2> QED BY <1>1, <2>1, <2>2, <2>4 DEF TableInv, Types
<1>5. Placed'
  BY <1>1, <1>4, KeptPlaced, ValueTypes DEF ValueInv, Placed
<1>6. Intact'
  BY <1>1, <1>4, IdleValue DEF ValueInv, Intact
<1>7. JobPlaced'
  BY <1>1, IdleValue DEF JobPlaced
<1> QED BY <1>5, <1>6, <1>7 DEF ValueInv

LEMMA OtherValue ==
    ASSUME TableInv, ValueInv, UNCHANGED <<table, latest, storage, w, last>>
    PROVE  ValueInv'
<1>1. \A k \in Keys : (exist(k)' <=> exist(k)) /\ at(k)' = at(k)
  BY SameAt
<1>2. Placed'
  BY <1>1 DEF ValueInv, Placed
<1>3. Intact'
  BY <1>1 DEF ValueInv, Intact
<1>4. JobPlaced'
  BY <1>1 DEF ValueInv, JobPlaced
<1> QED BY <1>2, <1>3, <1>4 DEF ValueInv

LEMMA InitValue == Init => ValueInv
<1>1. SUFFICES ASSUME Init PROVE ValueInv
  OBVIOUS
<1>2. \A k \in Keys : ~ exist(k)
  <2>1. Found /\ \A k \in Keys : last[k].ver = 0
    BY <1>1, InitTable DEF TableInv, Init, NoPair
  <2> QED BY <2>1 DEF Found
<1>3. \A x \in Workers : w[x].key \notin Keys
  BY <1>1, KvAssumption DEF Init, Idle
<1> QED BY <1>2, <1>3 DEF ValueInv, Placed, Intact, JobPlaced

LEMMA StepValue ==
    ASSUME TableInv, ValueInv, OneWorker, Resize = "shrink", [Next]_vars
    PROVE  ValueInv'
<1>1. ASSUME NEW x \in Workers, NEW k \in Keys, NEW n \in Lengths,
             kv_store(x, k, n) \/ kv_batched_store(x, k, n)
      PROVE  ValueInv'
  <2>1. CASE lookup(x, "store", k, n)
    BY <2>1, LookupValue
  <2>2. CASE lookup(x, "batch", k, n)
    BY <2>2, LookupValue
  <2> QED BY <1>1, <2>1, <2>2 DEF kv_store, kv_batched_store
<1>2. ASSUME NEW x \in Workers, copy(x) \/ copy_batched(x) PROVE ValueInv'
  BY <1>2, CopyValue
<1>3. ASSUME NEW x \in Workers, update_mapping_entry(x) PROVE ValueInv'
  BY <1>3, ResizeValue
<1>4. ASSUME NEW x \in Workers, find_slot(x) PROVE ValueInv'
  BY <1>4, FindValue
<1>5. ASSUME NEW x \in Workers, new_mapping_entry(x) PROVE ValueInv'
  BY <1>5, LinkValue
<1>6. ASSUME NEW x \in Workers, NEW k \in Keys, delete_mapping_entry(x, k) PROVE ValueInv'
  BY <1>6, DeleteValue
<1>7. ASSUME NEW want \in SUBSET Keys, kv_iter_open(want) PROVE ValueInv'
  BY <1>7, OtherValue DEF kv_iter_open
<1>8. ASSUME NEW h \in Handles, kv_iter_close(h) \/ kv_iter_read(h) PROVE ValueInv'
  BY <1>8, OtherValue DEF kv_iter_close, kv_iter_read
<1>9. CASE UNCHANGED vars
  BY <1>9, OtherValue DEF vars
<1> QED BY <1>1, <1>2, <1>3, <1>4, <1>5, <1>6, <1>7, <1>8, <1>9 DEF Next

\* With one worker and lengths within what was allocated, a retrieve gets the whole value
\* of the last store, and nothing else if the key was new with at most SMALL_LENGTH,
\* whatever other keys were stored, shortened and deleted in between.
THEOREM ValuesIntact == ASSUME OneWorker, Resize = "shrink" PROVE Spec => []ValueIntact
<1>1. Init => TableInv /\ ValueInv
  BY InitTable, InitValue
<1>2. TableInv /\ ValueInv /\ [Next]_vars => TableInv' /\ ValueInv'
  BY StepTable, StepValue
<1>3. TableInv /\ ValueInv => ValueIntact
  <2>1. SUFFICES ASSUME TableInv, ValueInv, Quiet, NEW k \in Keys, exist(k)
                 PROVE  /\ \A c \in 0 .. last[k].len - 1 :
                              c \in DOMAIN retrieve(k) /\ retrieve(k)[c] = last[k].ver
                        /\ last[k].first <= SmallLength => DOMAIN retrieve(k) = 0 .. last[k].len - 1
    BY DEF ValueIntact
  <2> DEFINE o == at(k).off
             l == at(k).len
             n == last[k].len
             v == last[k].ver
  <2>2. /\ o \in Nat /\ n \in Nat /\ l \in Int /\ n <= l
        /\ last[k].first <= SmallLength => l = n
    BY <2>1, ValueTypes DEF ValueInv, Placed, TableLength
  <2>3. retrieve(k) = [c \in 0 .. l - 1 |-> storage[o + c]]
    BY DEF retrieve, at
  <2>4. \A x \in Workers : ~ (w[x].key = k /\ w[x].st = "resize")
    BY <2>1 DEF Quiet, Idle
  <2>5. \A c \in o .. o + n - 1 : storage[c] = v
    BY <2>1, <2>4 DEF ValueInv, Intact
  <2> HIDE DEF o, l, n, v
  <2>6. \A c \in 0 .. n - 1 : storage[o + c] = v /\ c \in 0 .. l - 1
    BY <2>2, <2>5
  <2>7. DOMAIN retrieve(k) = 0 .. l - 1 /\ \A c \in 0 .. n - 1 : retrieve(k)[c] = v
    BY <2>3, <2>6
  <2> QED BY <2>2, <2>6, <2>7 DEF n, v
<1> QED BY <1>1, <1>2, <1>3, PTL DEF Spec

=============================================================================
