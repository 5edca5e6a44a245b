--------------------------- MODULE IOWorkerProofs ---------------------------
(***************************************************************************)
(* Proofs about the work queue of IOWorker, for every number of entries,   *)
(* requests and instants.                                                  *)
(*                                                                         *)
(* The chains are least sets closed under `next', so everything about them *)
(* follows from naming the right closed set; a chain that reaches an end   *)
(* has no cycle and no two ways into an entry.  With that the invariant    *)
(* says, for each step of the dispatcher, where its entry stands between   *)
(* the two chains, and what the worker may find at its own place.          *)
(***************************************************************************)
EXTENDS IOWorker, FiniteSetTheorems, WellFoundedInduction, TLAPS

(***************************************************************************)
(* The inductive invariant: the chains.                                    *)
(***************************************************************************)
FreeList == ChainFrom(free_seq)
IoList == ChainFrom(io_seq)

Filling == {"init", "init_copied", "init_internal", "insert", "search", "link", "publish"}
Linking == {"insert", "search", "link", "publish"}

Types ==
    /\ work_queue \in [Entries -> Work]
    /\ free_seq \in Entries /\ free_seq_end \in Entries
    /\ io_seq \in Index /\ io_seq_end \in Index
    /\ now \in Times /\ latest_nsecs \in 0 .. now
    /\ disp \in [pc : Filling \cup {"idle", "reclaim", "append"}, req : 0 .. MaxReqs,
                 internal : BOOLEAN, entry : Index, curr : Index]
    /\ wk \in [pc : {"sweep", "visit", "copy", "due", "mark", "advance"}, curr : Index,
               nsecs : 0 .. now]
    /\ wk.pc # "sweep" => wk.curr \in Entries
    /\ due \in [Reqs -> Times]
    /\ accepted \in SUBSET Reqs /\ dropped \in SUBSET Reqs
    /\ copied \in SUBSET (0 .. MaxReqs)
    /\ posted \in [0 .. MaxReqs -> Nat] /\ released \in [0 .. MaxReqs -> Nat]

\* the requests made so far are numbered in order
Numbered == accepted \cap dropped = {} /\ accepted \cup dropped = 1 .. made

Partition ==
    /\ FreeList \cap IoList = {} /\ FreeList \cap InHand = {} /\ IoList \cap InHand = {}
    /\ FreeList \cup IoList \cup InHand = Entries

EndOf(e, list) == e \in list /\ work_queue[e].next = NIL

Ends ==
    /\ EndOf(free_seq_end, FreeList)
    /\ io_seq # NIL /\ disp.pc # "publish" => EndOf(io_seq_end, IoList)

\* backward links mirror the forward links; the entry behind disp.curr already
\* names the new one before that is published
Mirrored == io_seq # NIL =>
    /\ work_queue[io_seq].prev = NIL
    /\ \A e \in IoList : LET n == work_queue[e].next IN
          n # NIL => work_queue[n].prev = IF disp.pc = "publish" /\ e = disp.curr
                                          THEN disp.entry ELSE e

\* the entries behind disp.curr are due later than the new request
PassedLater(n) == n # NIL => work_queue[n].nsecs_target > due[disp.req]

\* where the dispatcher stands
HandByStep ==
    LET e == work_queue[disp.entry]
        c == work_queue[disp.curr]
    IN  /\ disp.pc \in Filling => disp.entry \in Entries /\ disp.req \in Reqs
        /\ disp.pc \in Filling \ {"init"} => e.nsecs_target = due[disp.req]
        /\ disp.pc \in {"init_internal", "insert", "search", "link"} =>
              e.next = NIL /\ e.prev = NIL
        /\ disp.pc = "search" =>
              /\ io_seq # NIL /\ disp.curr \in IoList \cup {NIL}
              /\ PassedLater(IF disp.curr = NIL THEN io_seq ELSE c.next)
        /\ disp.pc \in {"link", "publish"} =>
              /\ io_seq # NIL /\ disp.curr \in IoList
              /\ c.nsecs_target > latest_nsecs => c.nsecs_target <= due[disp.req]
              /\ PassedLater(c.next)
        /\ disp.pc = "publish" =>
              /\ e.prev = disp.curr /\ e.next = c.next
              /\ IF c.next = NIL THEN io_seq_end = disp.entry ELSE EndOf(io_seq_end, IoList)
        /\ disp.pc = "append" => disp.entry \in Entries /\ EndOf(disp.curr, InHand)

ChainInv == Types /\ Numbered /\ Partition /\ Ends /\ Mirrored /\ HandByStep /\ SortedAhead

(***************************************************************************)
(* The inductive invariant: requests and their entries.                    *)
(***************************************************************************)
Done(r) == posted[r] + released[r]

\* the request an entry of the list stands for
owner(e) == IF work_queue[e].is_internal THEN work_queue[e].buf ELSE work_queue[e].req

Owned ==
    /\ \A e \in IoList : /\ owner(e) \in accepted
                         /\ work_queue[e].nsecs_target = due[owner(e)]
                         /\ work_queue[e].is_copied /\ ~ work_queue[e].is_internal =>
                               owner(e) \in copied
    /\ \A e, x \in IoList : owner(e) = owner(x) => e = x

OwnedInHand == disp.pc \in Filling =>
    /\ disp.req \in accepted /\ Done(disp.req) = 0
    /\ \A e \in IoList : owner(e) # disp.req
    /\ disp.pc # "init" => ~ work_queue[disp.entry].is_completed
                           /\ (disp.internal \/ work_queue[disp.entry].req = disp.req)
    /\ disp.pc \in {"init_internal"} \cup Linking =>
          work_queue[disp.entry].is_copied = disp.internal
    /\ disp.pc \in Linking => /\ work_queue[disp.entry].is_internal = disp.internal
                              /\ owner(disp.entry) = disp.req

\* what the worker has begun but not marked
Begun(e) == wk.pc = "mark" /\ wk.curr = e

NotYet ==
    /\ \A e \in IoList : ~ work_queue[e].is_completed /\ ~ Begun(e) => Done(owner(e)) = 0
    /\ \A r \in Reqs \ accepted : Done(r) = 0

Completed(S) == \A e \in S : work_queue[e].is_completed

\* the worker works on an entry of the list that is not completed; passing by, it
\* may be left on reclaimed entries, all of them completed
WorkerPlace ==
    /\ wk.pc \in {"copy", "due", "mark"} =>
          wk.curr \in IoList /\ ~ work_queue[wk.curr].is_completed
    /\ wk.pc \in {"due", "mark"} => work_queue[wk.curr].is_copied
    /\ wk.pc \in {"visit", "advance"} =>
          \/ wk.curr \in IoList
          \/ /\ wk.curr \in Entries \ IoList
             /\ disp.pc \in Filling => wk.curr # disp.entry
             /\ Completed(ChainFrom(wk.curr))
    /\ disp.pc = "append" => Completed(InHand)

OwnerInv == Owned /\ OwnedInHand /\ NotYet /\ WorkerPlace /\ CompletedOnce

IInv == ChainInv /\ OwnerInv

(***************************************************************************)
(* Chains of any function from entries to entries or NIL.                  *)
(***************************************************************************)
Closed(f, i) == {S \in SUBSET Entries : /\ i = NIL \/ i \in S
                                        /\ \A e \in S : f[e] = NIL \/ f[e] \in S}
Chain(f, i) == {e \in Entries : \A S \in Closed(f, i) : e \in S}
Links == [Entries -> Index]

\* NIL is no entry.
LEMMA NilApart == NIL \notin Entries /\ Index = Entries \cup {NIL} /\ NIL \in Index
BY SizeAssumption DEF NIL, Entries, Index

\* A chain is a closed set, and the least one.
LEMMA Least ==
    ASSUME NEW f \in Links, NEW i \in Index
    PROVE  /\ Chain(f, i) \subseteq Entries
           /\ i \in Entries => i \in Chain(f, i)
           /\ \A e \in Chain(f, i) : f[e] = NIL \/ f[e] \in Chain(f, i)
           /\ \A S \in SUBSET Entries :
                 (i = NIL \/ i \in S) /\ (\A e \in S : f[e] = NIL \/ f[e] \in S)
                 => Chain(f, i) \subseteq S
<1>1. Chain(f, i) \subseteq Entries
  BY DEF Chain
<1>2. i \in Entries => i \in Chain(f, i)
  BY NilApart DEF Chain, Closed
<1>3. ASSUME NEW e \in Chain(f, i), f[e] # NIL
      PROVE  f[e] \in Chain(f, i)
  <2>1. e \in Entries /\ f[e] \in Entries
    BY <1>1, <1>3, NilApart DEF Links
  <2>2. ASSUME NEW S \in Closed(f, i) PROVE f[e] \in S
    <3>1. e \in S
      BY DEF Chain
    <3> QED BY <1>3, <3>1 DEF Closed
  <2> QED BY <2>1, <2>2 DEF Chain
<1>4. ASSUME NEW S \in SUBSET Entries, i = NIL \/ i \in S,
             \A e \in S : f[e] = NIL \/ f[e] \in S
      PROVE  Chain(f, i) \subseteq S
  BY <1>4 DEF Chain, Closed
<1> QED BY <1>1, <1>2, <1>3, <1>4

\* An empty chain, and a chain by its first entry.
LEMMA Unfold ==
    ASSUME NEW f \in Links
    PROVE  /\ Chain(f, NIL) = {}
           /\ \A i \in Entries : /\ f[i] \in Index
                                 /\ Chain(f, i) = {i} \cup Chain(f, f[i])
<1>1. Chain(f, NIL) = {}
  <2>1. {} \in Closed(f, NIL)
    BY DEF Closed
  <2> QED BY <2>1 DEF Chain
<1>2. ASSUME NEW i \in Entries
      PROVE  f[i] \in Index /\ Chain(f, i) = {i} \cup Chain(f, f[i])
  <2>1. f[i] \in Index /\ i \in Index
    BY NilApart DEF Links
  <2>2. {i} \cup Chain(f, f[i]) \subseteq Chain(f, i)
    <3>1. i \in Chain(f, i) /\ Chain(f, i) \in SUBSET Entries
      BY <2>1, Least
    <3>2. \A e \in Chain(f, i) : f[e] = NIL \/ f[e] \in Chain(f, i)
      BY <2>1, Least
    <3>3. Chain(f, f[i]) \subseteq Chain(f, i)
      BY <2>1, <3>1, <3>2, Least
    <3> QED BY <3>1, <3>3
  <2>3. Chain(f, i) \subseteq {i} \cup Chain(f, f[i])
    <3> DEFINE S == {i} \cup Chain(f, f[i])
    <3>1. S \in SUBSET Entries
      BY <2>1, Least
    <3>2. f[i] = NIL \/ f[i] \in Chain(f, f[i])
      BY <2>1, Least, NilApart
    <3>3. \A e \in Chain(f, f[i]) : f[e] = NIL \/ f[e] \in Chain(f, f[i])
      BY <2>1, Least
    <3>4. \A e \in S : f[e] = NIL \/ f[e] \in S
      BY <3>2, <3>3
    <3> HIDE DEF S
    <3>5. i \in S
      BY DEF S
    <3>6. Chain(f, i) \subseteq S
      BY <2>1, <3>1, <3>4, <3>5, Least
    <3> QED BY <3>6 DEF S
  <2> QED BY <2>1, <2>2, <2>3
<1> QED BY <1>1, <1>2

\* From an entry of a chain on, one stays in the chain.
LEMMA Suffix ==
    ASSUME NEW f \in Links, NEW i \in Index, NEW e \in Chain(f, i)
    PROVE  e \in Entries /\ Chain(f, e) \subseteq Chain(f, i)
<1>1. Chain(f, i) \in SUBSET Entries /\ e \in Entries /\ e \in Index
  BY Least, NilApart
<1>2. \A x \in Chain(f, i) : f[x] = NIL \/ f[x] \in Chain(f, i)
  BY Least
<1> QED BY <1>1, <1>2, Least

\* Of two entries of a chain one is behind the other.
LEMMA InLine ==
    ASSUME NEW f \in Links, NEW i \in Index, NEW a \in Chain(f, i), NEW b \in Chain(f, i)
    PROVE  a \in Chain(f, b) \/ b \in Chain(f, a)
<1> DEFINE S == {x \in Chain(f, i) : x \in Chain(f, b) \/ b \in Chain(f, x)}
<1>1. S \in SUBSET Entries
  BY Least
<1>2. i = NIL \/ i \in S
  BY Least, NilApart
<1>3. ASSUME NEW x \in S, f[x] # NIL PROVE f[x] \in S
  <2>1. x \in Entries /\ b \in Entries /\ b \in Index
    BY Suffix, NilApart
  <2>2. f[x] \in Chain(f, i) /\ f[x] \in Entries
    BY <1>3, Least
  <2>3. CASE x \in Chain(f, b)
    <3>1. f[x] \in Chain(f, b)
      BY <1>3, <2>1, <2>3, Least
    <3> QED BY <2>2, <3>1
  <2>4. CASE b \in Chain(f, x) /\ x # b
    <3>1. b \in Chain(f, f[x])
      BY <2>1, <2>4, Unfold
    <3> QED BY <2>2, <3>1
  <2>5. CASE x = b
    <3>1. b \in Chain(f, b)
      BY <2>1, Least
    <3> QED BY <2>3, <2>5, <3>1
  <2> QED BY <2>3, <2>4, <2>5
<1>4. \A x \in S : f[x] = NIL \/ f[x] \in S
  BY <1>3
<1> HIDE DEF S
<1>5. Chain(f, i) \subseteq S
  BY <1>1, <1>2, <1>4, Least
<1> QED BY <1>5 DEF S

(***************************************************************************)
(* Chains that end.                                                        *)
(***************************************************************************)
\* e is the end of the chain from i
Ending(f, i, e) == e \in Chain(f, i) /\ f[e] = NIL

\* A chain has one end, which every entry of it reaches.
LEMMA OneEnd ==
    ASSUME NEW f \in Links, NEW i \in Index, NEW e, Ending(f, i, e)
    PROVE  /\ \A x \in Chain(f, i) : Ending(f, x, e)
           /\ \A x \in Chain(f, i) : f[x] = NIL => x = e
<1>1. e \in Chain(f, i) /\ f[e] = NIL /\ e \in Entries
  BY Least DEF Ending
<1>2. Chain(f, e) = {e}
  BY <1>1, Unfold
<1>3. ASSUME NEW x \in Chain(f, i) PROVE e \in Chain(f, x)
  <2>1. x \in Entries /\ x \in Chain(f, x)
    BY Least, Suffix, NilApart
  <2>2. e \in Chain(f, x) \/ x \in Chain(f, e)
    BY <1>1, InLine
  <2> QED BY <1>2, <2>1, <2>2
<1>4. ASSUME NEW x \in Chain(f, i), f[x] = NIL PROVE x = e
  <2>1. Chain(f, x) = {x}
    BY <1>4, Suffix, Unfold
  <2> QED BY <1>3, <2>1
<1> QED BY <1>1, <1>3, <1>4 DEF Ending

\* Nothing leads back to the head of a chain that ends.
LEMMA HeadFirst ==
    ASSUME NEW f \in Links, NEW i \in Entries, NEW e, Ending(f, i, e),
           NEW x \in Chain(f, i)
    PROVE  f[x] # i
<1> SUFFICES ASSUME f[x] = i PROVE FALSE
  OBVIOUS
<1> DEFINE S == {y \in Chain(f, i) : x \in Chain(f, y)}
<1>0. i \in Index /\ i # NIL
  BY NilApart
<1>1. S \in SUBSET Entries /\ i \in S
  BY <1>0, Least
<1>2. ASSUME NEW y \in S, f[y] # NIL PROVE f[y] \in S
  <2>1. y \in Entries /\ f[y] \in Chain(f, i)
    BY <1>0, <1>2, Least
  <2>2. CASE y = x
    BY <1>1, <2>2
  <2>3. CASE y # x
    <3>1. x \in Chain(f, f[y])
      BY <2>1, <2>3, Unfold
    <3> QED BY <2>1, <3>1
  <2> QED BY <2>2, <2>3
<1>3. \A y \in S : f[y] = NIL \/ f[y] \in S
  BY <1>2
<1> HIDE DEF S
<1>4. Chain(f, i) \subseteq S
  BY <1>0, <1>1, <1>3, Least
<1>5. e \in Chain(f, i) /\ f[e] = NIL /\ e \in Entries
  BY <1>0, Least DEF Ending
<1>6. x \in Chain(f, e)
  BY <1>4, <1>5 DEF S
<1>7. x = e
  BY <1>5, <1>6, Unfold
<1> QED BY <1>0, <1>5, <1>7

\* An entry that is not the head has one before it.
LEMMA Before ==
    ASSUME NEW f \in Links, NEW i \in Index, NEW y \in Chain(f, i), y # i
    PROVE  \E x \in Chain(f, i) : f[x] = y
<1> SUFFICES ASSUME \A x \in Chain(f, i) : f[x] # y PROVE FALSE
  OBVIOUS
<1> DEFINE S == Chain(f, i) \ {y}
<1>1. S \in SUBSET Entries /\ (i = NIL \/ i \in S)
  BY Least, NilApart
<1>2. \A x \in S : f[x] = NIL \/ f[x] \in S
  BY Least
<1> HIDE DEF S
<1>3. Chain(f, i) \subseteq S
  BY <1>1, <1>2, Least
<1> QED BY <1>3 DEF S

\* No entry is behind itself, and no two entries have the same one behind them.
LEMMA NoCycle ==
    ASSUME NEW f \in Links, NEW i \in Index, NEW e, Ending(f, i, e)
    PROVE  /\ \A x \in Chain(f, i) : x \notin Chain(f, f[x])
           /\ \A x, y \in Chain(f, i) : f[x] = f[y] /\ f[x] # NIL => x = y
<1>1. ASSUME NEW x \in Chain(f, i), x \in Chain(f, f[x]) PROVE FALSE
  <2>1. x \in Entries /\ Ending(f, x, e) /\ f[x] \in Index
    BY Suffix, OneEnd, Unfold
  <2>2. Chain(f, x) = {x} \cup Chain(f, f[x])
    BY <2>1, Unfold
  <2>3. \A y \in Chain(f, x) : f[y] # x
    BY <2>1, HeadFirst
  <2>4. x # f[x]
    BY <2>2, <2>3
  <2>5. \E y \in Chain(f, f[x]) : f[y] = x
    BY <1>1, <2>1, <2>4, Before
  <2> QED BY <2>2, <2>3, <2>5
<1>2. ASSUME NEW x \in Chain(f, i), NEW y \in Chain(f, i), f[x] = f[y], f[x] # NIL, x # y
      PROVE  FALSE
  <2>1. x \in Entries /\ y \in Entries
    BY Suffix
  <2>2. Chain(f, x) = {x} \cup Chain(f, f[x]) /\ Chain(f, y) = {y} \cup Chain(f, f[y])
    BY <2>1, Unfold
  <2>3. y \in Chain(f, x) \/ x \in Chain(f, y)
    BY InLine
  <2>4. y \in Chain(f, f[y]) \/ x \in Chain(f, f[x])
    BY <1>2, <2>2, <2>3
  <2> QED BY <1>1, <2>4
<1> QED BY <1>1, <1>2

\* A chain depends only on the links of its own entries.
LEMMA SameChain ==
    ASSUME NEW f \in Links, NEW g \in Links, NEW i \in Index,
           \A x \in Chain(f, i) : g[x] = f[x]
    PROVE  Chain(g, i) = Chain(f, i)
<1>1. /\ Chain(f, i) \in SUBSET Entries /\ (i = NIL \/ i \in Chain(f, i))
      /\ \A x \in Chain(f, i) : f[x] = NIL \/ f[x] \in Chain(f, i)
  BY Least, NilApart
<1>2. \A x \in Chain(f, i) : g[x] = NIL \/ g[x] \in Chain(f, i)
  BY <1>1
<1>3. Chain(g, i) \subseteq Chain(f, i)
  BY <1>1, <1>2, Least
<1>4. /\ Chain(g, i) \in SUBSET Entries /\ (i = NIL \/ i \in Chain(g, i))
      /\ \A x \in Chain(g, i) : g[x] = NIL \/ g[x] \in Chain(g, i)
  BY Least, NilApart
<1>5. \A x \in Chain(g, i) : f[x] = NIL \/ f[x] \in Chain(g, i)
  BY <1>3, <1>4
<1>6. Chain(f, i) \subseteq Chain(g, i)
  BY <1>4, <1>5, Least
<1> QED BY <1>3, <1>6

\* __insert_req_sorted(): a new entry e between c and the entry behind c, and a
\* new head.
LEMMA InsertBehind ==
    ASSUME NEW f \in Links, NEW g \in Links, NEW i \in Index, NEW c \in Chain(f, i),
           NEW e \in Entries \ Chain(f, i), g[e] = f[c], g[c] = e,
           \A x \in Chain(f, i) \ {c} : g[x] = f[x]
    PROVE  Chain(g, i) = Chain(f, i) \cup {e}
<1> DEFINE C == Chain(f, i)
           D == Chain(g, i)
<1>1. /\ C \in SUBSET Entries /\ (i = NIL \/ i \in C)
      /\ \A x \in C : f[x] = NIL \/ f[x] \in C
  BY Least, NilApart
<1>2. /\ D \in SUBSET Entries /\ (i = NIL \/ i \in D)
      /\ \A x \in D : g[x] = NIL \/ g[x] \in D
  BY Least, NilApart
<1>3. c \in C /\ c \in Entries /\ e \notin C /\ e \in Entries /\ e # NIL /\ c # e
  BY <1>1, NilApart
<1>4. \A S \in SUBSET Entries :
         (i = NIL \/ i \in S) /\ (\A x \in S : g[x] = NIL \/ g[x] \in S) => D \subseteq S
  BY Least
<1>5. \A S \in SUBSET Entries :
         (i = NIL \/ i \in S) /\ (\A x \in S : f[x] = NIL \/ f[x] \in S) => C \subseteq S
  BY Least
<1>6. \A x \in C \ {c} : g[x] = f[x]
  OBVIOUS
<1> HIDE DEF C, D
<1>7. D \subseteq C \cup {e}
  <2> DEFINE S == C \cup {e}
  <2>1. S \in SUBSET Entries /\ (i = NIL \/ i \in S)
    BY <1>1, <1>3
  <2>2. \A x \in S : g[x] = NIL \/ g[x] \in S
    BY <1>1, <1>3, <1>6
  <2> HIDE DEF S
  <2>3. D \subseteq S
    BY <1>4, <2>1, <2>2
  <2> QED BY <2>3 DEF S
<1>8. C \subseteq D
  <2> DEFINE S == D \ {e}
  <2>1. S \in SUBSET Entries /\ (i = NIL \/ i \in S)
    BY <1>1, <1>2, <1>3
  <2>2. ASSUME NEW x \in S PROVE f[x] = NIL \/ f[x] \in S
    <3>1. x \in C /\ x \in D
      BY <1>7
    <3>2. f[x] = NIL \/ (f[x] \in C /\ f[x] # e)
      BY <1>1, <1>3, <3>1
    <3>3. CASE x = c
      <4>1. e \in D
        BY <1>2, <1>3, <3>1, <3>3
      <4>2. f[c] = NIL \/ f[c] \in D
        BY <1>2, <4>1
      <4> QED BY <3>2, <3>3, <4>2
    <3>4. CASE x # c
      BY <1>2, <1>6, <3>1, <3>2, <3>4
    <3> QED BY <3>3, <3>4
  <2>3. \A x \in S : f[x] = NIL \/ f[x] \in S
    BY <2>2
  <2> HIDE DEF S
  <2>4. C \subseteq S
    BY <1>5, <2>1, <2>3
  <2> QED BY <2>4 DEF S
<1>9. e \in D
  BY <1>2, <1>3, <1>8
<1> QED BY <1>7, <1>8, <1>9 DEF C, D

\* One chain behind the end of another: __reclaim_completed_reqs() appends to the
\* free list.
LEMMA Appended ==
    ASSUME NEW f \in Links, NEW g \in Links, NEW i \in Index, NEW c, Ending(f, i, c),
           NEW j \in Entries, Chain(f, i) \cap Chain(f, j) = {}, g[c] = j,
           \A x \in (Chain(f, i) \cup Chain(f, j)) \ {c} : g[x] = f[x]
    PROVE  /\ Chain(g, i) = Chain(f, i) \cup Chain(f, j)
           /\ Chain(g, j) = Chain(f, j)
<1>0. j \in Index /\ j # NIL /\ c \in Chain(f, i) /\ c \in Entries /\ f[c] = NIL
  BY NilApart, Least DEF Ending
<1>1. Chain(g, j) = Chain(f, j)
  BY <1>0, SameChain
<1> DEFINE C == Chain(f, i)
           D == Chain(g, i)
           J == Chain(f, j)
<1>2. /\ C \in SUBSET Entries /\ (i = NIL \/ i \in C)
      /\ \A x \in C : f[x] = NIL \/ f[x] \in C
      /\ \A S \in SUBSET Entries :
           (i = NIL \/ i \in S) /\ (\A x \in S : f[x] = NIL \/ f[x] \in S) => C \subseteq S
  BY Least, NilApart
<1>3. /\ D \in SUBSET Entries /\ (i = NIL \/ i \in D)
      /\ \A x \in D : g[x] = NIL \/ g[x] \in D
      /\ \A S \in SUBSET Entries :
           (i = NIL \/ i \in S) /\ (\A x \in S : g[x] = NIL \/ g[x] \in S) => D \subseteq S
  BY Least, NilApart
<1>4. /\ J \in SUBSET Entries /\ j \in J
      /\ \A x \in J : g[x] = NIL \/ g[x] \in J
      /\ \A S \in SUBSET Entries :
           (j = NIL \/ j \in S) /\ (\A x \in S : g[x] = NIL \/ g[x] \in S) => J \subseteq S
  BY <1>0, <1>1, Least, NilApart
<1>5. C \cap J = {} /\ c \in C /\ c \notin J /\ \A x \in C \ {c} : g[x] = f[x]
  BY <1>0
<1> HIDE DEF C, D, J
<1>6. D \subseteq C \cup J
  <2> DEFINE S == C \cup J
  <2>1. S \in SUBSET Entries /\ (i = NIL \/ i \in S)
    BY <1>2, <1>4
  <2>2. \A x \in S : g[x] = NIL \/ g[x] \in S
    BY <1>2, <1>4, <1>5
  <2> HIDE DEF S
  <2>3. D \subseteq S
    BY <1>3, <2>1, <2>2
  <2> QED BY <2>3 DEF S
<1>7. C \subseteq D
  <2> DEFINE S == D \cap C
  <2>1. S \in SUBSET Entries /\ (i = NIL \/ i \in S)
    BY <1>2, <1>3
  <2>2. \A x \in S : f[x] = NIL \/ f[x] \in S
    BY <1>0, <1>2, <1>3, <1>5
  <2> HIDE DEF S
  <2>3. C \subseteq S
    BY <1>2, <2>1, <2>2
  <2> QED BY <2>3 DEF S
<1>8. j \in D
  BY <1>0, <1>3, <1>5, <1>7
<1>9. J \subseteq D
  BY <1>3, <1>4, <1>8
<1> QED BY <1>1, <1>6, <1>7, <1>9 DEF C, D, J

\* The first part of a chain, up to an entry, cut off: what
\* __reclaim_completed_reqs() takes out of the list.
LEMMA Detached ==
    ASSUME NEW f \in Links, NEW g \in Links, NEW i \in Entries, NEW e, Ending(f, i, e),
           NEW last \in Chain(f, i), g[last] = NIL,
           \A x \in Chain(f, i) \ {last} : g[x] = f[x]
    PROVE  /\ Chain(g, i) = Chain(f, i) \ Chain(f, f[last])
           /\ Chain(g, f[last]) = Chain(f, f[last])
           /\ Chain(f, f[last]) = Chain(f, last) \ {last}
           /\ Chain(f, f[last]) \subseteq Chain(f, i)
           /\ f[last] \in Index /\ last \notin Chain(f, f[last])
           /\ Ending(g, i, last)
<1>0. i \in Index /\ i # NIL /\ last \in Entries /\ f[last] \in Index
  BY NilApart, Suffix, Unfold
<1>1. Chain(f, last) = {last} \cup Chain(f, f[last]) /\ last \notin Chain(f, f[last])
  BY <1>0, Unfold, NoCycle
<1>2. Chain(f, f[last]) \subseteq Chain(f, i)
  BY <1>0, <1>1, Suffix
<1>3. Chain(g, f[last]) = Chain(f, f[last])
  BY <1>0, <1>1, <1>2, SameChain
<1> DEFINE C == Chain(f, i)
           D == Chain(g, i)
           N == Chain(f, f[last])
<1>4. /\ C \in SUBSET Entries /\ i \in C
      /\ \A x \in C : f[x] = NIL \/ f[x] \in C
      /\ \A S \in SUBSET Entries :
           (i = NIL \/ i \in S) /\ (\A x \in S : f[x] = NIL \/ f[x] \in S) => C \subseteq S
  BY <1>0, Least
<1>5. /\ D \in SUBSET Entries /\ i \in D
      /\ \A x \in D : g[x] = NIL \/ g[x] \in D
      /\ \A S \in SUBSET Entries :
           (i = NIL \/ i \in S) /\ (\A x \in S : g[x] = NIL \/ g[x] \in S) => D \subseteq S
  BY <1>0, Least
<1>6. /\ N \in SUBSET C /\ last \notin N /\ last \in C
      /\ f[last] = NIL \/ f[last] \in N
      /\ \A x \in N : f[x] = NIL \/ f[x] \in N
  BY <1>0, <1>1, <1>2, Least, NilApart
<1>7. \A y \in N : y # f[last] => \E x \in N : f[x] = y
  BY <1>0, Before
<1>8. \A x \in C : f[x] # i
  BY <1>0, HeadFirst
<1>9. \A x, y \in C : f[x] = f[y] /\ f[x] # NIL => x = y
  BY <1>0, NoCycle
<1>10. \A x \in C \ {last} : g[x] = f[x]
  OBVIOUS
<1> HIDE DEF C, D, N
<1>11. i \notin N
  BY <1>6, <1>7, <1>8
<1>12. D \subseteq C \ N
  <2> DEFINE S == C \ N
  <2>1. S \in SUBSET Entries /\ i \in S
    BY <1>4, <1>11
  <2>2. ASSUME NEW x \in S, g[x] # NIL PROVE g[x] \in S
    <3>1. x \in C /\ x \notin N /\ x # last /\ g[x] = f[x] /\ f[x] \in C
      BY <1>4, <1>10, <2>2
    <3>2. ASSUME f[x] \in N PROVE FALSE
      <4>1. CASE f[x] = f[last]
        BY <1>6, <1>9, <2>2, <3>1, <4>1
      <4>2. CASE f[x] # f[last]
        <5>1. PICK y \in N : f[y] = f[x]
          BY <1>7, <3>2, <4>2
        <5>2. y = x
          BY <1>6, <1>9, <2>2, <3>1, <5>1
        <5> QED BY <3>1, <5>2
      <4> QED BY <4>1, <4>2
    <3> QED BY <3>1, <3>2
  <2>3. \A x \in S : g[x] = NIL \/ g[x] \in S
    BY <2>2
  <2> HIDE DEF S
  <2>4. D \subseteq S
    BY <1>5, <2>1, <2>3
  <2> QED BY <2>4 DEF S
<1>13. C \subseteq D \cup N
  <2> DEFINE S == D \cup N
  <2>1. S \in SUBSET Entries /\ i \in S
    BY <1>4, <1>5, <1>6
  <2>2. \A x \in S : f[x] = NIL \/ f[x] \in S
    BY <1>5, <1>6, <1>10, <1>12
  <2> HIDE DEF S
  <2>3. C \subseteq S
    BY <1>4, <2>1, <2>2
  <2> QED BY <2>3 DEF S
<1>14. last \in D
  BY <1>6, <1>13
<1> QED BY <1>0, <1>1, <1>2, <1>3, <1>12, <1>13, <1>14 DEF C, D, N, Ending

(***************************************************************************)
(* The lists of the work queue as chains.                                  *)
(***************************************************************************)
links == [e \in Entries |-> work_queue[e].next]

\* A chain through the entries is a chain of their forward links.
LEMMA ChainOfLinks ==
    ASSUME NEW wq, NEW i
    PROVE  LET closed == {S \in SUBSET Entries :
                             /\ i = NIL \/ i \in S
                             /\ \A e \in S : wq[e].next = NIL \/ wq[e].next \in S}
           IN  {e \in Entries : \A S \in closed : e \in S}
                  = Chain([e \in Entries |-> wq[e].next], i)
<1> DEFINE f == [e \in Entries |-> wq[e].next]
           closed == {S \in SUBSET Entries :
                         /\ i = NIL \/ i \in S
                         /\ \A e \in S : wq[e].next = NIL \/ wq[e].next \in S}
<1>1. \A e \in Entries : f[e] = wq[e].next
  OBVIOUS
<1> HIDE DEF f
<1>2. closed = Closed(f, i)
  BY <1>1 DEF Closed
<1>3. {e \in Entries : \A S \in closed : e \in S} = Chain(f, i)
  BY <1>2 DEF Chain
<1> QED BY <1>3 DEF f

\* The types of an entry's fields.
LEMMA Fields ==
    ASSUME work_queue \in [Entries -> Work]
    PROVE  /\ links \in Links
           /\ \A e \in Entries :
                 /\ links[e] = work_queue[e].next
                 /\ work_queue[e].next \in Index /\ work_queue[e].prev \in Index
                 /\ work_queue[e].nsecs_target \in Times
                 /\ work_queue[e].req \in 0 .. MaxReqs /\ work_queue[e].buf \in 0 .. MaxReqs
BY DEF links, Links, Work

\* The two lists, and what the dispatcher holds.
LEMMA Lists ==
    ASSUME ChainInv
    PROVE  /\ links \in Links
           /\ FreeList = Chain(links, free_seq) /\ IoList = Chain(links, io_seq)
           /\ FreeList \subseteq Entries /\ IoList \subseteq Entries /\ InHand \subseteq Entries
           /\ free_seq \in FreeList /\ (io_seq # NIL => io_seq \in IoList)
           /\ (io_seq = NIL => IoList = {})
           /\ Ending(links, free_seq, free_seq_end)
           /\ (io_seq # NIL => \E e : Ending(links, io_seq, e))
           /\ (io_seq # NIL /\ disp.pc # "publish" => Ending(links, io_seq, io_seq_end))
           /\ (disp.pc \in Filling => InHand = {disp.entry})
           /\ (disp.pc = "append" => /\ InHand = Chain(links, disp.entry)
                                     /\ Ending(links, disp.entry, disp.curr)
                                     /\ disp.entry \in InHand)
           /\ (disp.pc \in {"idle", "reclaim"} => InHand = {})
           /\ \A e \in Entries : links[e] = work_queue[e].next
<1>1. links \in Links /\ \A e \in Entries : links[e] = work_queue[e].next
  BY Fields DEF ChainInv, Types
<1>2. free_seq \in Entries /\ free_seq \in Index /\ io_seq \in Index
  BY NilApart DEF ChainInv, Types
<1>3. FreeList = Chain(links, free_seq) /\ IoList = Chain(links, io_seq)
  BY ChainOfLinks DEF FreeList, IoList, ChainFrom, links
<1>4. FreeList \subseteq Entries /\ IoList \subseteq Entries /\ free_seq \in FreeList
      /\ (io_seq # NIL => io_seq \in IoList)
  BY <1>1, <1>2, <1>3, Least, NilApart
<1>5. io_seq = NIL => IoList = {}
  BY <1>1, <1>3, Unfold
<1>6. Ending(links, free_seq, free_seq_end)
  BY <1>1, <1>3, <1>4 DEF ChainInv, Ends, EndOf, Ending
<1>7. io_seq # NIL /\ disp.pc # "publish" => Ending(links, io_seq, io_seq_end)
  BY <1>1, <1>3, <1>4 DEF ChainInv, Ends, EndOf, Ending
<1>8. io_seq # NIL => \E e : Ending(links, io_seq, e)
  <2>1. CASE disp.pc = "publish"
    <3>1. disp.curr \in IoList
      BY <2>1 DEF ChainInv, HandByStep
    <3>2. CASE work_queue[disp.curr].next = NIL
      <4>1. Ending(links, io_seq, disp.curr)
        BY <1>1, <1>3, <1>4, <3>1, <3>2 DEF Ending
      <4> QED BY <4>1
    <3>3. CASE work_queue[disp.curr].next # NIL
      <4>1. EndOf(io_seq_end, IoList)
        BY <2>1, <3>3 DEF ChainInv, HandByStep
      <4>2. Ending(links, io_seq, io_seq_end)
        BY <1>1, <1>3, <1>4, <4>1 DEF EndOf, Ending
      <4> QED BY <4>2
    <3> QED BY <3>2, <3>3
  <2> QED BY <1>7, <2>1
<1>9. disp.pc \in Filling => InHand = {disp.entry} /\ disp.entry \in Entries
  BY DEF InHand, Filling, ChainInv, HandByStep
<1>10. disp.pc = "append" => /\ InHand = Chain(links, disp.entry) /\ InHand \subseteq Entries
                             /\ Ending(links, disp.entry, disp.curr)
                             /\ disp.entry \in InHand
  <2> SUFFICES ASSUME disp.pc = "append"
               PROVE  /\ InHand = Chain(links, disp.entry) /\ InHand \subseteq Entries
                      /\ Ending(links, disp.entry, disp.curr)
                      /\ disp.entry \in InHand
    OBVIOUS
  <2>1. InHand = Chain(links, disp.entry)
    BY ChainOfLinks DEF InHand, ChainFrom, links
  <2>2. disp.entry \in Entries /\ disp.entry \in Index /\ EndOf(disp.curr, InHand)
    BY NilApart DEF ChainInv, HandByStep
  <2>3. InHand \subseteq Entries /\ disp.entry \in InHand
    BY <1>1, <2>1, <2>2, Least
  <2> QED BY <1>1, <2>1, <2>2, <2>3 DEF EndOf, Ending
<1>11. disp.pc \in {"idle", "reclaim"} => InHand = {}
  BY DEF InHand
<1>12. InHand \subseteq Entries
  BY <1>9, <1>10, <1>11 DEF ChainInv, Types
<1> QED BY <1>1, <1>3, <1>4, <1>5, <1>6, <1>7, <1>8, <1>9, <1>10, <1>11, <1>12

\* The same of the next state.
LEMMA ListsAfter ==
    ASSUME work_queue' \in [Entries -> Work]
    PROVE  /\ links' \in Links
           /\ FreeList' = Chain(links', free_seq') /\ IoList' = Chain(links', io_seq')
           /\ ChainFrom(disp.entry)' = Chain(links', disp'.entry)
           /\ ChainFrom(wk.curr)' = Chain(links', wk'.curr)
           /\ \A e \in Entries : links'[e] = work_queue'[e].next
<1>1. links' \in Links /\ \A e \in Entries : links'[e] = work_queue'[e].next
  BY DEF links, Links, Work
<1> QED BY <1>1, ChainOfLinks DEF FreeList, IoList, ChainFrom, links

\* A step that leaves heads and forward links of the lists alone leaves the lists.
LEMMA SameLists ==
    ASSUME ChainInv, work_queue' \in [Entries -> Work], UNCHANGED <<free_seq, io_seq>>,
           \A e \in FreeList \cup IoList : work_queue'[e].next = work_queue[e].next
    PROVE  FreeList' = FreeList /\ IoList' = IoList
<1>1. /\ links \in Links /\ links' \in Links
      /\ FreeList = Chain(links, free_seq) /\ FreeList' = Chain(links', free_seq)
      /\ IoList = Chain(links, io_seq) /\ IoList' = Chain(links', io_seq)
      /\ free_seq \in Index /\ io_seq \in Index
  BY Lists, ListsAfter, NilApart DEF ChainInv, Types
<1>2. \A e \in FreeList \cup IoList : links'[e] = links[e]
  BY Lists, ListsAfter
<1> QED BY <1>1, <1>2, SameChain

\* What the worker and the clock leave alone.
Aside ==
    /\ UNCHANGED <<free_seq, free_seq_end, io_seq, io_seq_end, disp, due, accepted, dropped>>
    /\ \A e \in Entries : /\ work_queue'[e].next = work_queue[e].next
                          /\ work_queue'[e].prev = work_queue[e].prev
                          /\ work_queue'[e].nsecs_target = work_queue[e].nsecs_target
    /\ latest_nsecs' >= latest_nsecs

\* A step that only marks entries or moves the clocks keeps the chains.
LEMMA AsideKeeps ==
    ASSUME ChainInv, Types', Aside
    PROVE  /\ ChainInv'
           /\ FreeList' = FreeList /\ IoList' = IoList /\ InHand' = InHand /\ links' = links
<1>1. FreeList' = FreeList /\ IoList' = IoList
  BY SameLists, Lists DEF Aside, Types
<1>2. links' = links
  BY DEF Aside, links
<1>3. InHand' = InHand
  <2>1. ChainFrom(disp.entry)' = ChainFrom(disp.entry)
    BY <1>2, ListsAfter, ChainOfLinks DEF Types, ChainFrom, links, Aside
  <2> QED BY <2>1 DEF InHand, Aside
<1>4. FreeList \subseteq Entries /\ IoList \subseteq Entries
      /\ latest_nsecs \in Int /\ latest_nsecs' \in Int
  BY Lists DEF Types, ChainInv, Times
<1>5. Numbered'
  BY DEF ChainInv, Numbered, made, Aside
<1>6. Partition'
  BY <1>1, <1>3 DEF ChainInv, Partition
<1>7. Ends'
  BY <1>1, <1>4 DEF ChainInv, Ends, EndOf, Aside, Types
<1>8. Mirrored'
  <2>1. \A x \in IoList : work_queue[x].next # NIL => work_queue[x].next \in Entries
    BY <1>4, NilApart DEF ChainInv, Types, Work
  <2>2. io_seq # NIL => io_seq \in Entries
    BY NilApart DEF ChainInv, Types
  <2> QED BY <1>1, <1>4, <2>1, <2>2 DEF ChainInv, Mirrored, Aside
<1>9. HandByStep'
  <2> DEFINE e == work_queue[disp.entry]
             c == work_queue[disp.curr]
  <2>1. disp.pc \in Filling => disp.entry \in Entries /\ disp.req \in Reqs
    BY DEF ChainInv, HandByStep
  <2>2. disp.pc \in Filling => /\ e.next = e'.next /\ e.prev = e'.prev
                               /\ e.nsecs_target = e'.nsecs_target
    BY <2>1 DEF Aside
  <2>3. disp.curr \in Entries => c.next = c'.next /\ c.nsecs_target = c'.nsecs_target
    BY DEF Aside
  <2>4. disp.curr \in IoList \cup InHand => disp.curr \in Entries
    BY Lists
  <2>5. \A n \in Index : PassedLater(n) => PassedLater(n)'
    BY NilApart DEF PassedLater, Aside
  <2>6. disp.curr \in Entries => c.next \in Index
    BY DEF ChainInv, Types, Work
  <2>7. \A x \in IoList \cup InHand : EndOf(x, IoList) => EndOf(x, IoList)'
    BY <1>1, Lists DEF EndOf, Aside
  <2>8. \A x \in IoList \cup InHand : EndOf(x, InHand) => EndOf(x, InHand)'
    BY <1>3, Lists DEF EndOf, Aside
  <2>9. disp.pc \in Filling \ {"init"} => e'.nsecs_target = due'[disp'.req]
    BY <2>2 DEF ChainInv, HandByStep, Aside, Filling
  <2>10. disp.pc \in {"init_internal", "insert", "search", "link"} => e'.next = NIL /\ e'.prev = NIL
    BY <2>2 DEF ChainInv, HandByStep, Filling
  <2>11. disp.pc = "search" =>
              /\ io_seq # NIL /\ disp.curr \in IoList \cup {NIL}
              /\ PassedLater(IF disp.curr = NIL THEN io_seq ELSE c.next)'
    BY <2>3, <2>4, <2>5, <2>6 DEF ChainInv, HandByStep, Types, Aside, PassedLater
  <2>12. disp.pc \in {"link", "publish"} =>
              /\ io_seq # NIL /\ disp.curr \in IoList
              /\ c'.nsecs_target > latest_nsecs' => c'.nsecs_target <= due'[disp'.req]
              /\ PassedLater(c.next)'
    <3> SUFFICES ASSUME disp.pc \in {"link", "publish"}
                 PROVE  /\ io_seq # NIL /\ disp.curr \in IoList
                        /\ c'.nsecs_target > latest_nsecs' => c'.nsecs_target <= due'[disp'.req]
                        /\ PassedLater(c.next)'
      OBVIOUS
    <3>1. /\ io_seq # NIL /\ disp.curr \in IoList
          /\ c.nsecs_target > latest_nsecs => c.nsecs_target <= due[disp.req]
          /\ PassedLater(c.next)
      BY DEF ChainInv, HandByStep
    <3>2. disp.curr \in Entries /\ c.nsecs_target \in Int
      BY <3>1, <2>4 DEF ChainInv, Types, Work, Times
    <3>3. c'.nsecs_target > latest_nsecs' => c'.nsecs_target <= due'[disp'.req]
      BY <1>4, <2>3, <3>1, <3>2 DEF Aside
    <3>4. c.next \in Index /\ c'.next = c.next
      BY <2>3, <2>6, <3>2
    <3> QED BY <2>5, <3>1, <3>3, <3>4 DEF PassedLater, Aside
  <2>13. disp.pc = "publish" =>
              /\ e'.prev = disp.curr /\ e'.next = c'.next
              /\ IF c'.next = NIL THEN io_seq_end = disp.entry ELSE EndOf(io_seq_end, IoList)'
    BY <2>2, <2>3, <2>4, <2>7 DEF ChainInv, HandByStep, Aside, Filling, EndOf
  <2>14. disp.pc = "append" => disp.entry \in Entries /\ EndOf(disp.curr, InHand)'
    BY <2>8 DEF ChainInv, HandByStep, Aside, EndOf
  <2> HIDE DEF e, c
  <2>15. disp' = disp /\ io_seq' = io_seq /\ io_seq_end' = io_seq_end
    BY DEF Aside
  <2> QED BY <1>1, <2>1, <2>9, <2>10, <2>11, <2>12, <2>13, <2>14, <2>15
          DEF HandByStep, e, c
<1>10. SortedAhead'
  <2>1. \A x \in IoList : work_queue[x].nsecs_target \in Int
    BY <1>4 DEF ChainInv, Types, Work, Times
  <2>2. \A x \in IoList : work_queue[x].next # NIL => work_queue[x].next \in Entries
    BY <1>4, NilApart DEF ChainInv, Types, Work
  <2> QED BY <1>1, <1>4, <2>1, <2>2 DEF ChainInv, SortedAhead, Aside, IoList
<1> QED BY <1>1, <1>2, <1>3, <1>5, <1>6, <1>7, <1>8, <1>9, <1>10 DEF ChainInv

(***************************************************************************)
(* The steps and the chains.                                               *)
(***************************************************************************)
\* The worker marks entries and moves on, the clock moves on.
LEMMA WorkerAside ==
    ASSUME ChainInv, nvmev_io_worker \/ tick
    PROVE  Types' /\ Aside
<1> USE DEF worker_keeps, lists, history, effects
<1>0. /\ Types /\ work_queue \in [Entries -> Work] /\ latest_nsecs \in 0 .. now /\ now \in Times
      /\ wk \in [pc : {"sweep", "visit", "copy", "due", "mark", "advance"}, curr : Index,
                 nsecs : 0 .. now]
      /\ wk.pc # "sweep" => wk.curr \in Entries
      /\ now \in Nat /\ latest_nsecs \in Int
      /\ posted \in [0 .. MaxReqs -> Nat] /\ released \in [0 .. MaxReqs -> Nat]
      /\ copied \in SUBSET (0 .. MaxReqs)
  BY DEF ChainInv, Types, Times
<1>1. wk.pc # "sweep" => /\ w.next \in Index /\ w.req \in 0 .. MaxReqs /\ w.buf \in 0 .. MaxReqs
  BY <1>0 DEF w, Work
<1>2. CASE start_sweep
  <2>1. io_seq \in Entries
    BY <1>2, NilApart DEF start_sweep, ChainInv, Types
  <2>2. wk' \in [pc : {"sweep", "visit", "copy", "due", "mark", "advance"}, curr : Index,
                  nsecs : 0 .. now]
        /\ wk'.curr \in Entries
    BY <1>0, <1>2, <2>1, NilApart DEF start_sweep
  <2>3. Aside
    BY <1>0, <1>2 DEF start_sweep, Aside
  <2> QED BY <1>0, <1>2, <2>2, <2>3 DEF start_sweep, Types
<1>3. CASE visit
  <2>1. wk' \in [pc : {"sweep", "visit", "copy", "due", "mark", "advance"}, curr : Index,
                  nsecs : 0 .. now]
        /\ wk'.curr = wk.curr /\ wk.curr \in Entries
    <3>1. PICK p \in {"advance", "copy"} : wk' = [wk EXCEPT !.nsecs = now, !.pc = p]
      BY <1>3 DEF visit
    <3>2. now \in 0 .. now /\ wk.pc = "visit" /\ wk.curr \in Entries
      BY <1>0, <1>3 DEF visit
    <3> QED BY <1>0, <3>1, <3>2
  <2>2. Aside
    BY <1>0, <1>3 DEF visit, Aside
  <2> QED BY <1>0, <1>3, <2>1, <2>2 DEF visit, Types
<1>4. CASE copy
  <2>1. work_queue' \in [Entries -> Work]
    BY <1>0, <1>4 DEF copy, Work
  <2>2. copied' \in SUBSET (0 .. MaxReqs)
    BY <1>0, <1>1, <1>4 DEF copy
  <2>3. Aside
    BY <1>0, <1>4 DEF copy, Aside, Work
  <2> QED BY <1>0, <1>4, <2>1, <2>2, <2>3 DEF copy, Types
<1>5. CASE not_yet_due
  BY <1>0, <1>5 DEF not_yet_due, Types, Aside
<1>6. CASE complete
  <2>1. posted' \in [0 .. MaxReqs -> Nat] /\ released' \in [0 .. MaxReqs -> Nat]
    BY <1>0, <1>1, <1>6 DEF complete
  <2>2. wk' \in [pc : {"sweep", "visit", "copy", "due", "mark", "advance"}, curr : Index,
                  nsecs : 0 .. now]
        /\ wk'.curr = wk.curr /\ wk.curr \in Entries
    BY <1>0, <1>6 DEF complete
  <2>3. Aside
    BY <1>0, <1>6 DEF complete, Aside
  <2> QED BY <1>0, <1>6, <2>1, <2>2, <2>3 DEF complete, Types
<1>7. CASE mark_completed
  <2>1. work_queue' \in [Entries -> Work]
    BY <1>0, <1>7 DEF mark_completed, Work
  <2>2. Aside
    BY <1>0, <1>7 DEF mark_completed, Aside, Work
  <2> QED BY <1>0, <1>7, <2>1, <2>2 DEF mark_completed, Types
<1>8. CASE advance
  <2>1. wk'.pc # "sweep" => wk'.curr \in Entries
    BY <1>0, <1>1, <1>8, NilApart DEF advance
  <2>2. wk' \in [pc : {"sweep", "visit", "copy", "due", "mark", "advance"}, curr : Index,
                  nsecs : 0 .. now]
    BY <1>0, <1>1, <1>8 DEF advance
  <2>3. Aside
    BY <1>0, <1>8 DEF advance, Aside
  <2> QED BY <1>0, <1>8, <2>1, <2>2, <2>3 DEF advance, Types
<1>9. CASE tick
  <2>1. now' \in Times /\ latest_nsecs' \in 0 .. now'
    BY <1>0, <1>9, SizeAssumption DEF tick, Times
  <2>2. wk' \in [pc : {"sweep", "visit", "copy", "due", "mark", "advance"}, curr : Index,
                 nsecs : 0 .. now']
    BY <1>0, <1>9, SizeAssumption DEF tick, Times
  <2>3. Aside
    BY <1>0, <1>9 DEF tick, Aside
  <2> QED BY <1>0, <1>9, <2>1, <2>2, <2>3 DEF tick, Types
<1> QED BY <1>2, <1>3, <1>4, <1>5, <1>6, <1>7, <1>8, <1>9 DEF nvmev_io_worker

\* Requests are numbered in order, so the next number is new.
LEMMA NextNumber ==
    ASSUME Types, Numbered, made < MaxReqs
    PROVE  /\ made \in Nat /\ made + 1 \in Reqs /\ made + 1 \notin accepted \cup dropped
           /\ Cardinality(accepted \cup {made + 1}) + Cardinality(dropped) = made + 1
           /\ Cardinality(accepted) + Cardinality(dropped \cup {made + 1}) = made + 1
<1>1. IsFiniteSet(Reqs)
  BY SizeAssumption, FS_Interval DEF Reqs
<1>2. IsFiniteSet(accepted) /\ IsFiniteSet(dropped)
  BY <1>1, FS_Subset DEF Types
<1>3. Cardinality(accepted) \in Nat /\ Cardinality(dropped) \in Nat
  BY <1>2, FS_CardinalityType
<1>4. made \in Nat
  BY <1>3 DEF made
<1>5. made + 1 \in Reqs /\ made + 1 \notin accepted \cup dropped
  BY <1>4, SizeAssumption DEF Reqs, Numbered
<1>6. /\ Cardinality(accepted \cup {made + 1}) = Cardinality(accepted) + 1
      /\ Cardinality(dropped \cup {made + 1}) = Cardinality(dropped) + 1
  BY <1>2, <1>5, FS_AddElement
<1> QED BY <1>3, <1>4, <1>5, <1>6 DEF made

\* A request that finds no entry is only counted.
LEMMA DropChain ==
    ASSUME ChainInv, NEW internal \in BOOLEAN, drop(internal)
    PROVE  ChainInv' /\ IoList' = IoList
<1> USE DEF dispatcher_keeps, lists, effects
<1>0. Types /\ Numbered /\ made < MaxReqs /\ disp.pc = "idle"
  BY DEF ChainInv, drop
<1>1. Types'
  BY <1>0, NextNumber DEF drop, Types
<1>2. FreeList' = FreeList /\ IoList' = IoList
  BY SameLists DEF drop, ChainInv, Types
<1>3. disp.pc = "idle" /\ disp'.pc \in {"idle", "reclaim"}
  BY DEF drop, ChainInv, Types
<1>4. InHand = {} /\ InHand' = {}
  BY <1>3 DEF InHand
<1>5. Numbered'
  <2>1. made' = made + 1
    BY <1>0, NextNumber DEF drop, made
  <2>2. made \in Nat /\ made + 1 \notin accepted \cup dropped
    BY <1>0, NextNumber
  <2> QED BY <1>0, <2>1, <2>2 DEF drop, Numbered
<1>6. Partition'
  BY <1>2, <1>4 DEF ChainInv, Partition
<1>7. Ends'
  BY <1>2, <1>3 DEF ChainInv, Ends, EndOf, drop
<1>8. Mirrored'
  BY <1>2, <1>3 DEF ChainInv, Mirrored, drop
<1>9. HandByStep'
  BY <1>3 DEF HandByStep, Filling
<1>10. SortedAhead'
  BY <1>2 DEF ChainInv, SortedAhead, drop, IoList
<1> QED BY <1>1, <1>2, <1>5, <1>6, <1>7, <1>8, <1>9, <1>10 DEF ChainInv

\* Nothing to reclaim.
LEMMA NothingChain ==
    ASSUME ChainInv, nothing_to_reclaim
    PROVE  ChainInv' /\ IoList' = IoList
<1> USE DEF dispatcher_keeps, lists, effects, history
<1>1. Types'
  BY DEF nothing_to_reclaim, Types, ChainInv
<1>2. FreeList' = FreeList /\ IoList' = IoList
  BY SameLists DEF nothing_to_reclaim, ChainInv, Types
<1>3. disp.pc = "reclaim" /\ disp'.pc = "idle"
  BY DEF nothing_to_reclaim, ChainInv, Types
<1>4. InHand = {} /\ InHand' = {}
  BY <1>3 DEF InHand
<1>5. Numbered'
  BY DEF ChainInv, Numbered, made, nothing_to_reclaim
<1>6. Partition'
  BY <1>2, <1>4 DEF ChainInv, Partition
<1>7. Ends'
  BY <1>2, <1>3 DEF ChainInv, Ends, EndOf, nothing_to_reclaim
<1>8. Mirrored'
  BY <1>2, <1>3 DEF ChainInv, Mirrored, nothing_to_reclaim
<1>9. HandByStep'
  BY <1>3 DEF HandByStep, Filling
<1>10. SortedAhead'
  BY <1>2 DEF ChainInv, SortedAhead, nothing_to_reclaim, IoList
<1> QED BY <1>1, <1>2, <1>5, <1>6, <1>7, <1>8, <1>9, <1>10 DEF ChainInv

\* __allocate_work_queue_entry() takes the head of the free list, never its end.
LEMMA AllocateChain ==
    ASSUME ChainInv, NEW internal \in BOOLEAN, NEW target \in Times, allocate(internal, target)
    PROVE  /\ ChainInv' /\ IoList' = IoList
           /\ FreeList = {free_seq} \cup FreeList' /\ free_seq \notin FreeList'
<1> USE DEF dispatcher_keeps, lists, effects, history
<1>0. Types /\ Numbered /\ made < MaxReqs /\ disp.pc = "idle" /\ ~almost_full
  BY DEF ChainInv, allocate
<1>a. made \in Nat /\ made + 1 \in Reqs /\ made + 1 \notin accepted \cup dropped
  BY <1>0, NextNumber
<1>b. disp' = [disp EXCEPT !.pc = "init", !.req = made + 1,
                           !.internal = internal, !.entry = free_seq]
  BY DEF allocate
<1>c. free_seq' \in Entries /\ free_seq \in Entries /\ free_seq' = links[free_seq]
  BY <1>0, NilApart, Lists DEF allocate, almost_full, Types, Work
<1>d. made + 1 \in 0 .. MaxReqs
  BY <1>a, SizeAssumption DEF Reqs
<1>e. disp' \in [pc : Filling \cup {"idle", "reclaim", "append"}, req : 0 .. MaxReqs,
                 internal : BOOLEAN, entry : Index, curr : Index]
      /\ disp'.pc = "init" /\ disp'.entry = free_seq /\ disp'.req = made + 1
  BY <1>0, <1>b, <1>c, <1>d, NilApart DEF Types, Filling
<1>1. Types'
  <2>1. due' \in [Reqs -> Times] /\ accepted' \in SUBSET Reqs
    BY <1>0, <1>a DEF allocate, Types
  <2> QED BY <1>0, <1>c, <1>e, <2>1 DEF allocate, Types
<1>2. /\ links \in Links /\ FreeList = Chain(links, free_seq) /\ IoList = Chain(links, io_seq)
      /\ Ending(links, free_seq, free_seq_end)
  BY Lists
<1>3. links' = links
  BY DEF links, allocate
<1>4. FreeList' = Chain(links, links[free_seq]) /\ IoList' = IoList
  BY <1>1, <1>2, <1>3, <1>c, ListsAfter DEF Types, allocate
<1>5. FreeList = {free_seq} \cup FreeList' /\ free_seq \notin FreeList'
  BY <1>2, <1>4, <1>c, Unfold, NoCycle, NilApart, Lists
<1>6. InHand = {} /\ InHand' = {free_seq}
  BY <1>0, <1>e DEF InHand
<1>7. Numbered'
  <2>1. made' = made + 1
    BY <1>0, NextNumber DEF allocate, made
  <2> QED BY <1>0, <1>a, <2>1 DEF allocate, Numbered
<1>8. Partition'
  BY <1>4, <1>5, <1>6 DEF ChainInv, Partition
<1>9. Ends'
  <2>1. free_seq_end # free_seq
    BY <1>0 DEF almost_full, ChainInv, Ends, EndOf
  <2> QED BY <1>0, <1>4, <1>5, <1>e, <2>1 DEF ChainInv, Ends, EndOf, allocate
<1>10. Mirrored'
  BY <1>0, <1>4, <1>e DEF ChainInv, Mirrored, allocate
<1>11. HandByStep'
  BY <1>a, <1>c, <1>e DEF HandByStep, Filling
<1>12. SortedAhead'
  BY <1>4 DEF ChainInv, SortedAhead, allocate, IoList
<1> QED BY <1>1, <1>4, <1>5, <1>7, <1>8, <1>9, <1>10, <1>11, <1>12 DEF ChainInv

\* The entry behind an entry of the list is in the list.
LEMMA Behind ==
    ASSUME ChainInv
    PROVE  \A e \in IoList : /\ e \in Entries /\ work_queue[e].next \in Index
                             /\ work_queue[e].next # NIL => work_queue[e].next \in IoList
<1>1. \A e \in IoList : e \in Entries /\ links[e] = work_queue[e].next
  BY Lists
<1>2. \A e \in IoList : links[e] = NIL \/ links[e] \in IoList
  BY Lists, Least DEF ChainInv, Types
<1>3. \A e \in IoList : work_queue[e].next \in Index
  BY <1>1 DEF ChainInv, Types, Work
<1> QED BY <1>1, <1>2, <1>3

\* What the dispatcher does to the entry in its hand before it links it.
Prepares ==
    /\ disp.pc \in Filling \ {"publish"} /\ disp'.pc \in Filling \ {"publish"}
    /\ disp'.entry = disp.entry
    /\ \A e \in Entries \ {disp.entry} : work_queue'[e] = work_queue[e]
    /\ UNCHANGED <<free_seq, free_seq_end, io_seq, io_seq_end, due, accepted, dropped, latest_nsecs>>

\* Preparing an entry does not disturb the lists.
LEMMA PreparesKeeps ==
    ASSUME ChainInv, Types', Prepares, HandByStep'
    PROVE  ChainInv' /\ FreeList' = FreeList /\ IoList' = IoList
<1>1. /\ disp.entry \in Entries /\ disp.entry \notin FreeList \cup IoList
      /\ InHand = {disp.entry} /\ FreeList \subseteq Entries /\ IoList \subseteq Entries
  BY Lists DEF ChainInv, Partition, Prepares, HandByStep
<1>2. \A e \in FreeList \cup IoList : work_queue'[e] = work_queue[e]
  BY <1>1 DEF Prepares
<1>3. FreeList' = FreeList /\ IoList' = IoList
  BY <1>2, SameLists DEF Prepares, Types
<1>4. InHand' = {disp.entry}
  BY DEF InHand, Prepares, Filling
<1>5. Numbered'
  BY DEF ChainInv, Numbered, made, Prepares
<1>6. Partition'
  BY <1>1, <1>3, <1>4 DEF ChainInv, Partition
<1>7. Ends'
  BY <1>2, <1>3 DEF ChainInv, Ends, EndOf, Prepares, Filling
<1>8. Mirrored'
  <2>1. io_seq # NIL => io_seq \in IoList
    BY Lists
  <2>2. disp.pc # "publish" /\ disp'.pc # "publish"
    BY DEF Prepares
  <2> QED BY <1>2, <1>3, <2>1, <2>2, Behind DEF ChainInv, Mirrored, Prepares
<1>9. SortedAhead'
  BY <1>2, <1>3, Behind DEF ChainInv, SortedAhead, Prepares, IoList
<1> QED BY <1>3, <1>5, <1>6, <1>7, <1>8, <1>9 DEF ChainInv

\* Writing the fields of a new request, in the three steps a worker could see.
LEMMA InitChain ==
    ASSUME ChainInv, init_request \/ init_copied \/ init_internal
    PROVE  ChainInv' /\ FreeList' = FreeList /\ IoList' = IoList
<1> USE DEF dispatcher_keeps, lists, effects, history
<1>0. /\ Types /\ work_queue \in [Entries -> Work]
      /\ disp \in [pc : Filling \cup {"idle", "reclaim", "append"}, req : 0 .. MaxReqs,
                   internal : BOOLEAN, entry : Index, curr : Index]
      /\ disp.entry \in Entries /\ disp.req \in Reqs /\ due \in [Reqs -> Times]
      /\ disp.pc \in {"init", "init_copied", "init_internal"}
  BY DEF ChainInv, Types, HandByStep, init_request, init_copied, init_internal, Filling
<1>1. CASE init_request
  <2>1. /\ work_queue' \in [Entries -> Work]
        /\ work_queue'[disp.entry].nsecs_target = due[disp.req]
        /\ \A e \in Entries \ {disp.entry} : work_queue'[e] = work_queue[e]
    <3> DEFINE old == work_queue[disp.entry]
               r == IF disp.internal THEN old.req ELSE disp.req
    <3>1. work_queue' = [work_queue EXCEPT ![disp.entry].req = r,
             ![disp.entry].nsecs_target = due[disp.req], ![disp.entry].is_completed = FALSE]
      BY <1>1 DEF init_request
    <3>2. old \in Work /\ due[disp.req] \in Times
      BY <1>0
    <3>3. r \in 0 .. MaxReqs
      BY <1>0, <3>2 DEF Work
    <3> HIDE DEF r
    <3> QED BY <1>0, <3>1, <3>2, <3>3 DEF Work
  <2>2. /\ disp' \in [pc : Filling \cup {"idle", "reclaim", "append"}, req : 0 .. MaxReqs,
                      internal : BOOLEAN, entry : Index, curr : Index]
        /\ disp'.pc = "init_copied" /\ disp'.entry = disp.entry /\ disp'.req = disp.req
    BY <1>0, <1>1 DEF init_request, Filling
  <2>3. Types'
    BY <1>0, <1>1, <2>1, <2>2 DEF Types, init_request
  <2>4. Prepares
    BY <1>0, <1>1, <2>1, <2>2 DEF Prepares, init_request, Filling
  <2>5. HandByStep'
    BY <1>0, <1>1, <2>1, <2>2 DEF HandByStep, init_request, Filling
  <2> QED BY <2>3, <2>4, <2>5, PreparesKeeps
<1>2. CASE init_copied
  <2>1. /\ work_queue' \in [Entries -> Work]
        /\ work_queue'[disp.entry].nsecs_target = work_queue[disp.entry].nsecs_target
        /\ work_queue'[disp.entry].next = NIL /\ work_queue'[disp.entry].prev = NIL
        /\ \A e \in Entries \ {disp.entry} : work_queue'[e] = work_queue[e]
    <3> DEFINE old == work_queue[disp.entry]
               b == disp.internal
    <3>1. work_queue' = [work_queue EXCEPT ![disp.entry].is_copied = b,
             ![disp.entry].prev = NIL, ![disp.entry].next = NIL]
      BY <1>2 DEF init_copied
    <3>2. old \in Work /\ b \in BOOLEAN
      BY <1>0
    <3> HIDE DEF b
    <3> QED BY <1>0, <3>1, <3>2, NilApart DEF Work
  <2>2. /\ disp' \in [pc : Filling \cup {"idle", "reclaim", "append"}, req : 0 .. MaxReqs,
                      internal : BOOLEAN, entry : Index, curr : Index]
        /\ disp'.pc = "init_internal" /\ disp'.entry = disp.entry /\ disp'.req = disp.req
    BY <1>0, <1>2 DEF init_copied, Filling
  <2>3. Types'
    BY <1>0, <1>2, <2>1, <2>2 DEF Types, init_copied
  <2>4. Prepares
    BY <1>0, <1>2, <2>1, <2>2 DEF Prepares, init_copied, Filling
  <2>5. work_queue[disp.entry].nsecs_target = due[disp.req]
    BY <1>2 DEF ChainInv, HandByStep, init_copied, Filling
  <2>6. HandByStep'
    BY <1>0, <1>2, <2>1, <2>2, <2>5 DEF HandByStep, init_copied, Filling
  <2> QED BY <2>3, <2>4, <2>6, PreparesKeeps
<1>3. CASE init_internal
  <2>1. /\ work_queue' \in [Entries -> Work]
        /\ work_queue'[disp.entry].nsecs_target = work_queue[disp.entry].nsecs_target
        /\ work_queue'[disp.entry].next = work_queue[disp.entry].next
        /\ work_queue'[disp.entry].prev = work_queue[disp.entry].prev
        /\ \A e \in Entries \ {disp.entry} : work_queue'[e] = work_queue[e]
    <3> DEFINE old == work_queue[disp.entry]
               b == disp.internal
               r == IF disp.internal THEN disp.req ELSE old.buf
    <3>1. work_queue' = [work_queue EXCEPT ![disp.entry].is_internal = b,
                                            ![disp.entry].buf = r]
      BY <1>3 DEF init_internal
    <3>2. old \in Work /\ b \in BOOLEAN
      BY <1>0
    <3>3. r \in 0 .. MaxReqs
      BY <1>0, <3>2 DEF Work
    <3> HIDE DEF b, r
    <3> QED BY <1>0, <3>1, <3>2, <3>3 DEF Work
  <2>2. /\ disp' \in [pc : Filling \cup {"idle", "reclaim", "append"}, req : 0 .. MaxReqs,
                      internal : BOOLEAN, entry : Index, curr : Index]
        /\ disp'.pc = "insert" /\ disp'.entry = disp.entry /\ disp'.req = disp.req
    BY <1>0, <1>3 DEF init_internal, Filling
  <2>3. Types'
    BY <1>0, <1>3, <2>1, <2>2 DEF Types, init_internal
  <2>4. Prepares
    BY <1>0, <1>3, <2>1, <2>2 DEF Prepares, init_internal, Filling
  <2>5. /\ work_queue[disp.entry].nsecs_target = due[disp.req]
        /\ work_queue[disp.entry].next = NIL /\ work_queue[disp.entry].prev = NIL
    BY <1>3 DEF ChainInv, HandByStep, init_internal, Filling
  <2>6. HandByStep'
    BY <1>0, <1>3, <2>1, <2>2, <2>5 DEF HandByStep, init_internal, Filling
  <2> QED BY <2>3, <2>4, <2>6, PreparesKeeps
<1> QED BY <1>1, <1>2, <1>3

\* The search from the end of the list for the place of the new request.
LEMMA SearchChain ==
    ASSUME ChainInv, insert_search \/ search_on
    PROVE  ChainInv' /\ FreeList' = FreeList /\ IoList' = IoList
<1> USE DEF dispatcher_keeps, lists, effects, history
<1>0. /\ Types /\ work_queue \in [Entries -> Work]
      /\ disp \in [pc : Filling \cup {"idle", "reclaim", "append"}, req : 0 .. MaxReqs,
                   internal : BOOLEAN, entry : Index, curr : Index]
      /\ disp.entry \in Entries /\ disp.req \in Reqs /\ due \in [Reqs -> Times]
      /\ disp.pc \in {"insert", "search"} /\ io_seq_end \in Index /\ io_seq # NIL
      /\ work_queue[disp.entry].next = NIL /\ work_queue[disp.entry].prev = NIL
      /\ work_queue[disp.entry].nsecs_target = due[disp.req]
      /\ work_queue' = work_queue /\ IoList \subseteq Entries /\ io_seq \in IoList
  BY Lists DEF ChainInv, Types, HandByStep, insert_search, search_on, Filling
<1>1. CASE insert_search
  <2>1. disp.pc = "insert" /\ EndOf(io_seq_end, IoList)
    BY <1>0, <1>1 DEF ChainInv, Ends, insert_search
  <2>2. /\ disp' \in [pc : Filling \cup {"idle", "reclaim", "append"}, req : 0 .. MaxReqs,
                      internal : BOOLEAN, entry : Index, curr : Index]
        /\ disp'.pc = "search" /\ disp'.entry = disp.entry /\ disp'.req = disp.req
        /\ disp'.curr = io_seq_end
    BY <1>0, <1>1 DEF insert_search, Filling
  <2>3. Types'
    BY <1>0, <1>1, <2>2 DEF Types, insert_search
  <2>4. Prepares
    BY <1>0, <1>1, <2>2 DEF Prepares, insert_search, Filling
  <2>5. IoList' = IoList
    BY <1>0, <2>4, SameLists DEF Prepares
  <2>6. HandByStep'
    BY <1>0, <1>1, <2>1, <2>2, <2>5, NilApart DEF HandByStep, insert_search, Filling, EndOf, PassedLater
  <2> QED BY <2>3, <2>4, <2>6, PreparesKeeps
<1>2. CASE search_on
  <2>1. /\ disp.pc = "search" /\ disp.curr \in IoList /\ disp.curr \in Entries /\ disp.curr # NIL
        /\ PassedLater(work_queue[disp.curr].next)
    BY <1>0, <1>2 DEF ChainInv, HandByStep, search_on
  <2> DEFINE c == work_queue[disp.curr]
  <2>2. c \in Work
    BY <1>0, <2>1
  <2>3. CASE goes_behind(disp.curr)
    <3>1. disp' = [disp EXCEPT !.pc = "link"]
      BY <1>2, <2>3 DEF search_on
    <3>2. /\ disp' \in [pc : Filling \cup {"idle", "reclaim", "append"}, req : 0 .. MaxReqs,
                        internal : BOOLEAN, entry : Index, curr : Index]
          /\ disp'.pc = "link" /\ disp'.entry = disp.entry /\ disp'.req = disp.req
          /\ disp'.curr = disp.curr
      BY <1>0, <3>1 DEF Filling
    <3>3. Types'
      BY <1>0, <1>2, <3>2 DEF Types, search_on
    <3>4. Prepares
      BY <1>0, <1>2, <3>2 DEF Prepares, search_on, Filling
    <3>5. IoList' = IoList
      BY <1>0, <3>4, SameLists DEF Prepares
    <3>6. c.nsecs_target > latest_nsecs => c.nsecs_target <= due[disp.req]
      <4>1. c.nsecs_target \in Int
        BY <2>2 DEF Work, Times
      <4>2. latest_nsecs \in Int /\ due[disp.req] \in Int
        BY <1>0 DEF Types, Times
      <4> QED BY <2>3, <4>1, <4>2 DEF goes_behind
    <3>7. HandByStep'
      BY <1>0, <1>2, <2>1, <3>2, <3>5, <3>6 DEF HandByStep, search_on, Filling, PassedLater
    <3> QED BY <3>3, <3>4, <3>7, PreparesKeeps
  <2>4. CASE ~ goes_behind(disp.curr)
    <3>1. disp' = [disp EXCEPT !.curr = c.prev] /\ c.prev \in Index
      BY <1>2, <2>2, <2>4 DEF search_on, Work
    <3>2. /\ disp' \in [pc : Filling \cup {"idle", "reclaim", "append"}, req : 0 .. MaxReqs,
                        internal : BOOLEAN, entry : Index, curr : Index]
          /\ disp'.pc = "search" /\ disp'.entry = disp.entry /\ disp'.req = disp.req
          /\ disp'.curr = c.prev
      BY <1>0, <2>1, <3>1 DEF Filling
    <3>3. Types'
      BY <1>0, <1>2, <3>2 DEF Types, search_on
    <3>4. Prepares
      BY <1>0, <1>2, <2>1, <3>2 DEF Prepares, search_on, Filling
    <3>5. IoList' = IoList
      BY <1>0, <3>4, SameLists DEF Prepares
    <3>6. c.nsecs_target > due[disp.req]
      <4>1. c.nsecs_target \in Int /\ due[disp.req] \in Int
        BY <1>0, <2>2 DEF Work, Times
      <4> QED BY <2>4, <4>1 DEF goes_behind
    <3>7. IF c.prev = NIL THEN disp.curr = io_seq
          ELSE c.prev \in IoList /\ work_queue[c.prev].next = disp.curr
      <4>1. CASE disp.curr = io_seq
        BY <1>0, <4>1 DEF ChainInv, Mirrored
      <4>2. CASE disp.curr # io_seq
        <5>1. PICK x \in IoList : work_queue[x].next = disp.curr
          BY <1>0, <2>1, <4>2, Lists, Before DEF Types
        <5>2. c.prev = x
          BY <1>0, <2>1, <5>1 DEF ChainInv, Mirrored
        <5> QED BY <1>0, <5>1, <5>2, NilApart
      <4> QED BY <4>1, <4>2
    <3>8. PassedLater(IF c.prev = NIL THEN io_seq ELSE work_queue[c.prev].next)
      BY <3>6, <3>7 DEF PassedLater
    <3>9. HandByStep'
      BY <1>0, <1>2, <2>1, <3>2, <3>5, <3>7, <3>8 DEF HandByStep, search_on, Filling, PassedLater
    <3> QED BY <3>3, <3>4, <3>9, PreparesKeeps
  <2> QED BY <2>3, <2>4
<1> QED BY <1>1, <1>2

\* What holds while __insert_req_sorted() has the entry in its hand.
LEMMA InsertFacts ==
    ASSUME ChainInv, disp.pc \in Linking
    PROVE  /\ Types /\ work_queue \in [Entries -> Work] /\ disp.entry \in Entries
           /\ disp \in [pc : Filling \cup {"idle", "reclaim", "append"}, req : 0 .. MaxReqs,
                        internal : BOOLEAN, entry : Index, curr : Index]
           /\ disp.entry # NIL /\ disp.entry \notin FreeList \cup IoList
           /\ FreeList \cup IoList \cup {disp.entry} = Entries /\ FreeList \cap IoList = {}
           /\ work_queue[disp.entry].nsecs_target = due[disp.req]
           /\ FreeList \subseteq Entries /\ IoList \subseteq Entries
           /\ free_seq \in FreeList /\ (io_seq # NIL => io_seq \in IoList)
           /\ disp.pc \in Filling
           /\ due[disp.req] \in Int
           /\ \A e \in Entries : work_queue[e].nsecs_target \in Int
<1>1. disp.pc \in Filling
  BY DEF Linking, Filling
<1>2. /\ disp.entry \in Entries /\ InHand = {disp.entry} /\ Types
      /\ work_queue[disp.entry].nsecs_target = due[disp.req]
  BY <1>1, Lists DEF ChainInv, HandByStep, Linking, Filling
<1>3. disp.req \in Reqs /\ due \in [Reqs -> Times]
  BY <1>1 DEF ChainInv, HandByStep, Types
<1>4. \A e \in Entries : work_queue[e].nsecs_target \in Int
  BY <1>2 DEF Types, Work, Times
<1>5. due[disp.req] \in Int
  BY <1>3 DEF Times
<1>6. disp.entry # NIL
  BY <1>2, NilApart
<1>7. /\ disp.entry \notin FreeList \cup IoList
      /\ FreeList \cup IoList \cup {disp.entry} = Entries /\ FreeList \cap IoList = {}
  BY <1>2 DEF ChainInv, Partition
<1>8. /\ FreeList \subseteq Entries /\ IoList \subseteq Entries
      /\ free_seq \in FreeList /\ (io_seq # NIL => io_seq \in IoList)
  BY Lists
<1> QED BY <1>1, <1>2, <1>4, <1>5, <1>6, <1>7, <1>8 DEF Types

\* The dispatcher after an insertion.
LEMMA InsertedHand ==
    ASSUME disp \in [pc : Filling \cup {"idle", "reclaim", "append"}, req : 0 .. MaxReqs,
                     internal : BOOLEAN, entry : Index, curr : Index],
           disp' = inserted
    PROVE  /\ disp' \in [pc : Filling \cup {"idle", "reclaim", "append"}, req : 0 .. MaxReqs,
                         internal : BOOLEAN, entry : Index, curr : Index]
           /\ disp'.pc \in {"idle", "reclaim"} /\ disp'.pc \notin Filling
           /\ InHand' = {} /\ HandByStep'
<1>1. PICK p \in {"idle", "reclaim"} :
         disp' = [disp EXCEPT !.pc = p, !.entry = NIL, !.curr = NIL]
  BY DEF inserted
<1>2. /\ disp' \in [pc : Filling \cup {"idle", "reclaim", "append"}, req : 0 .. MaxReqs,
                    internal : BOOLEAN, entry : Index, curr : Index]
      /\ disp'.pc \in {"idle", "reclaim"} /\ disp'.pc \notin Filling
  BY <1>1, NilApart DEF Filling
<1>3. InHand' = {} /\ HandByStep'
  BY <1>2 DEF InHand, HandByStep, Filling
<1> QED BY <1>2, <1>3

\* __insert_req_sorted() into an empty list.
LEMMA FirstChain ==
    ASSUME ChainInv, insert_first
    PROVE  /\ ChainInv' /\ FreeList' = FreeList /\ IoList' = IoList \cup {disp.entry}
           /\ disp'.pc \in {"idle", "reclaim"}
<1> USE DEF dispatcher_keeps, lists, effects, history
<1>0. disp.pc = "insert" /\ disp.pc \in Linking /\ io_seq = NIL /\ disp' = inserted
  BY DEF insert_first, Linking
<1> DEFINE e == disp.entry
<1>1. /\ Types /\ e \in Entries /\ e # NIL /\ e \notin FreeList \cup IoList
      /\ FreeList \cup IoList \cup {e} = Entries /\ FreeList \cap IoList = {}
      /\ disp \in [pc : Filling \cup {"idle", "reclaim", "append"}, req : 0 .. MaxReqs,
                   internal : BOOLEAN, entry : Index, curr : Index]
  BY <1>0, InsertFacts
<1>2. /\ disp' \in [pc : Filling \cup {"idle", "reclaim", "append"}, req : 0 .. MaxReqs,
                    internal : BOOLEAN, entry : Index, curr : Index]
      /\ disp'.pc \in {"idle", "reclaim"} /\ InHand' = {} /\ HandByStep'
  BY <1>0, <1>1, InsertedHand
<1>3. work_queue[e].next = NIL /\ work_queue[e].prev = NIL
  BY <1>0 DEF ChainInv, HandByStep
<1>4. Types'
  BY <1>1, <1>2, NilApart DEF insert_first, Types
<1>5. links' = links /\ io_seq' = e /\ io_seq_end' = e /\ free_seq' = free_seq
      /\ work_queue' = work_queue
  BY DEF links, insert_first
<1>6. FreeList' = FreeList /\ IoList' = Chain(links, e) /\ IoList = {} /\ links \in Links
  BY <1>0, <1>4, <1>5, Lists, ListsAfter DEF Types
<1>7. IoList' = {e}
  BY <1>1, <1>3, <1>6, Unfold, Lists
<1>8. Numbered'
  BY DEF ChainInv, Numbered, made, insert_first
<1>9. Partition'
  BY <1>1, <1>2, <1>6, <1>7 DEF Partition
<1>10. Ends'
  BY <1>1, <1>3, <1>5, <1>6, <1>7 DEF ChainInv, Ends, EndOf, insert_first
<1>11. Mirrored'
  BY <1>3, <1>5, <1>7 DEF Mirrored
<1>12. SortedAhead'
  BY <1>3, <1>5, <1>7 DEF SortedAhead, IoList
<1> QED BY <1>2, <1>4, <1>6, <1>7, <1>8, <1>9, <1>10, <1>11, <1>12 DEF ChainInv

\* __insert_req_sorted() before the head of the list.
LEMMA HeadChain ==
    ASSUME ChainInv, insert_head
    PROVE  /\ ChainInv' /\ FreeList' = FreeList /\ IoList' = IoList \cup {disp.entry}
           /\ disp'.pc \in {"idle", "reclaim"}
<1> USE DEF dispatcher_keeps, lists, effects, history
<1>0. disp.pc = "search" /\ disp.pc \in Linking /\ disp.curr = NIL /\ disp' = inserted
  BY DEF insert_head, Linking
<1> DEFINE e == disp.entry
<1>1. /\ Types /\ work_queue \in [Entries -> Work]
      /\ e \in Entries /\ e # NIL /\ e \notin FreeList \cup IoList
      /\ FreeList \cup IoList \cup {e} = Entries /\ FreeList \cap IoList = {}
      /\ FreeList \subseteq Entries /\ IoList \subseteq Entries
      /\ work_queue[e].nsecs_target = due[disp.req]
      /\ disp \in [pc : Filling \cup {"idle", "reclaim", "append"}, req : 0 .. MaxReqs,
                   internal : BOOLEAN, entry : Index, curr : Index]
  BY <1>0, InsertFacts
<1>2. /\ disp' \in [pc : Filling \cup {"idle", "reclaim", "append"}, req : 0 .. MaxReqs,
                    internal : BOOLEAN, entry : Index, curr : Index]
      /\ disp'.pc \in {"idle", "reclaim"} /\ InHand' = {} /\ HandByStep'
  BY <1>0, <1>1, InsertedHand
<1>3. /\ work_queue[e].next = NIL /\ work_queue[e].prev = NIL /\ io_seq # NIL
      /\ PassedLater(io_seq)
  BY <1>0 DEF ChainInv, HandByStep
<1>4. io_seq \in IoList /\ io_seq \in Entries /\ io_seq # e /\ io_seq \in Index /\ e \in Index
  BY <1>1, <1>3, Lists, NilApart
<1>5. /\ work_queue' \in [Entries -> Work]
      /\ work_queue'[e].next = io_seq /\ work_queue'[e].prev = NIL
      /\ work_queue'[io_seq].prev = e /\ work_queue'[io_seq].next = work_queue[io_seq].next
      /\ \A x \in Entries \ {e, io_seq} : work_queue'[x] = work_queue[x]
      /\ \A x \in Entries : work_queue'[x].nsecs_target = work_queue[x].nsecs_target
  BY <1>1, <1>3, <1>4, NilApart DEF insert_head, Work
<1>6. io_seq' = e /\ io_seq_end' = io_seq_end /\ free_seq' = free_seq
      /\ free_seq_end' = free_seq_end /\ latest_nsecs' = latest_nsecs
  BY DEF insert_head
<1>7. Types'
  BY <1>1, <1>2, <1>4, <1>5, <1>6 DEF insert_head, Types
<1>8. \A x \in FreeList \cup IoList : x \in Entries /\ links'[x] = links[x]
  BY <1>1, <1>4, <1>5, Lists, ListsAfter
<1>9. /\ links \in Links /\ links' \in Links /\ FreeList' = Chain(links', free_seq)
      /\ IoList' = Chain(links', e) /\ links'[e] = io_seq
      /\ FreeList = Chain(links, free_seq) /\ IoList = Chain(links, io_seq)
      /\ free_seq \in Index /\ io_seq \in Index
  BY <1>1, <1>4, <1>5, <1>6, Lists, ListsAfter, NilApart DEF Types
<1>10. FreeList' = FreeList /\ Chain(links', io_seq) = IoList
  BY <1>8, <1>9, SameChain
<1>11. IoList' = IoList \cup {e}
  BY <1>1, <1>9, <1>10, Unfold
<1>12. Numbered'
  BY DEF ChainInv, Numbered, made, insert_head
<1>13. Partition'
  BY <1>1, <1>2, <1>10, <1>11 DEF Partition
<1>14. EndOf(io_seq_end, IoList) /\ EndOf(free_seq_end, FreeList)
  BY <1>0, <1>3 DEF ChainInv, Ends
<1>15. \A x \in FreeList \cup IoList : work_queue'[x].next = work_queue[x].next
  BY <1>8, <1>5, ListsAfter, Lists
<1>16. Ends'
  BY <1>6, <1>10, <1>11, <1>14, <1>15 DEF Ends, EndOf
<1>17. Mirrored'
  <2>1. \A x \in IoList : work_queue[x].next # io_seq
    BY <1>4, <1>9, HeadFirst, Lists
  <2>2. \A x \in IoList : LET n == work_queue[x].next IN
           n # NIL => n \in IoList /\ work_queue[n].prev = x
    BY <1>0, <1>3, Behind DEF ChainInv, Mirrored
  <2>3. \A x \in IoList : LET n == work_queue'[x].next IN
           n # NIL => work_queue'[n].prev = x
    BY <1>1, <1>5, <1>15, <2>1, <2>2
  <2> QED BY <1>2, <1>5, <1>6, <1>11, <2>3 DEF Mirrored
<1>18. SortedAhead'
  <2>1. \A x \in IoList : LET n == work_queue[x].next IN
           n # NIL /\ work_queue[x].nsecs_target > latest_nsecs =>
              work_queue[x].nsecs_target <= work_queue[n].nsecs_target
    BY DEF ChainInv, SortedAhead, IoList
  <2>2. \A x \in IoList : work_queue[x].next # NIL => work_queue[x].next \in Entries
    BY <1>1, Behind
  <2>3. \A x \in IoList : LET n == work_queue'[x].next IN
           n # NIL /\ work_queue'[x].nsecs_target > latest_nsecs =>
              work_queue'[x].nsecs_target <= work_queue'[n].nsecs_target
    BY <1>1, <1>5, <1>15, <2>1, <2>2
  <2>4. work_queue'[e].nsecs_target <= work_queue'[io_seq].nsecs_target
    BY <1>0, <1>1, <1>3, <1>4, <1>5, InsertFacts DEF PassedLater
  <2> QED BY <1>5, <1>6, <1>11, <2>3, <2>4 DEF SortedAhead, IoList
<1> QED BY <1>2, <1>7, <1>10, <1>11, <1>12, <1>13, <1>16, <1>17, <1>18 DEF ChainInv

\* The links of the new entry and the backward link to it, before it can be
\* reached.
LEMMA LinkChain ==
    ASSUME ChainInv, insert_link
    PROVE  ChainInv' /\ FreeList' = FreeList /\ IoList' = IoList
<1> USE DEF dispatcher_keeps, lists, effects, history
<1>0. disp.pc = "link" /\ disp.pc \in Linking
  BY DEF insert_link, Linking
<1> DEFINE e == disp.entry
           c == disp.curr
           n == work_queue[c].next
<1>1. /\ Types /\ work_queue \in [Entries -> Work]
      /\ e \in Entries /\ e # NIL /\ e \notin FreeList \cup IoList
      /\ FreeList \cup IoList \cup {e} = Entries /\ FreeList \cap IoList = {}
      /\ FreeList \subseteq Entries /\ IoList \subseteq Entries
      /\ work_queue[e].nsecs_target = due[disp.req]
      /\ disp \in [pc : Filling \cup {"idle", "reclaim", "append"}, req : 0 .. MaxReqs,
                   internal : BOOLEAN, entry : Index, curr : Index]
  BY <1>0, InsertFacts
<1>2. /\ disp' = [disp EXCEPT !.pc = "publish"]
      /\ disp' \in [pc : Filling \cup {"idle", "reclaim", "append"}, req : 0 .. MaxReqs,
                    internal : BOOLEAN, entry : Index, curr : Index]
      /\ disp'.pc = "publish" /\ disp'.entry = e /\ disp'.curr = c /\ disp'.req = disp.req
  BY <1>1 DEF insert_link, Filling
<1>3. /\ work_queue[e].next = NIL /\ work_queue[e].prev = NIL /\ io_seq # NIL /\ c \in IoList
      /\ work_queue[c].nsecs_target > latest_nsecs => work_queue[c].nsecs_target <= due[disp.req]
      /\ PassedLater(n) /\ disp.req \in Reqs
  BY <1>0, InsertFacts DEF ChainInv, HandByStep
<1>4. /\ c \in Entries /\ c # e /\ n \in Index /\ (n # NIL => n \in IoList /\ n \in Entries /\ n # e)
      /\ io_seq \in IoList /\ io_seq \in Entries /\ c \in Index /\ e \in Index
  BY <1>1, <1>3, Behind, Lists, NilApart
<1>5. /\ work_queue' \in [Entries -> Work] /\ io_seq_end' \in Index
      /\ work_queue'[e].next = n /\ work_queue'[e].prev = c
      /\ n # NIL => work_queue'[n].prev = e
      /\ \A x \in Entries \ {e, n} : work_queue'[x] = work_queue[x]
      /\ \A x \in Entries \ {e} : work_queue'[x].next = work_queue[x].next
      /\ \A x \in Entries : work_queue'[x].nsecs_target = work_queue[x].nsecs_target
      /\ IF n = NIL THEN io_seq_end' = e ELSE io_seq_end' = io_seq_end
  <2>1. CASE n = NIL
    <3>1. work_queue' = [work_queue EXCEPT ![e].prev = c] /\ io_seq_end' = e
      BY <2>1 DEF insert_link
    <3> QED BY <1>1, <1>3, <1>4, <2>1, <3>1 DEF Work
  <2>2. CASE n # NIL
    <3>1. /\ work_queue' = [work_queue EXCEPT ![e].prev = c, ![e].next = n, ![n].prev = e]
          /\ io_seq_end' = io_seq_end
      BY <2>2 DEF insert_link
    <3>2. io_seq_end \in Index /\ n \in Entries /\ n # e
      BY <1>1, <1>4, <2>2 DEF Types
    <3> HIDE DEF n
    <3>3. /\ work_queue'[e] = [work_queue[e] EXCEPT !.prev = c, !.next = n]
          /\ work_queue'[n] = [work_queue[n] EXCEPT !.prev = e]
          /\ \A x \in Entries \ {e, n} : work_queue'[x] = work_queue[x]
          /\ work_queue' = [x \in Entries |-> work_queue'[x]]
      BY <1>1, <3>1, <3>2
    <3>4. work_queue[e] \in Work /\ work_queue[n] \in Work
      BY <1>1, <3>2
    <3>5. work_queue'[e] \in Work /\ work_queue'[n] \in Work
      BY <1>4, <3>3, <3>4 DEF Work
    <3>6. work_queue' \in [Entries -> Work]
      BY <1>1, <3>3, <3>5
    <3>7. /\ work_queue'[e].next = n /\ work_queue'[e].prev = c /\ work_queue'[n].prev = e
          /\ work_queue'[n].next = work_queue[n].next
          /\ work_queue'[n].nsecs_target = work_queue[n].nsecs_target
          /\ work_queue'[e].nsecs_target = work_queue[e].nsecs_target
      BY <3>3, <3>4 DEF Work
    <3> QED BY <2>2, <3>1, <3>2, <3>3, <3>6, <3>7
  <2> QED BY <2>1, <2>2
<1>6. Types'
  BY <1>1, <1>2, <1>5 DEF insert_link, Types
<1> HIDE DEF n
<1>7. FreeList' = FreeList /\ IoList' = IoList
  BY <1>1, <1>5, SameLists DEF insert_link
<1>8. InHand' = {e}
  BY <1>2 DEF InHand
<1>9. Numbered'
  BY DEF ChainInv, Numbered, made, insert_link
<1>10. Partition'
  BY <1>1, <1>7, <1>8 DEF Partition
<1>11. EndOf(free_seq_end, FreeList) /\ EndOf(io_seq_end, IoList)
  BY <1>0, <1>3 DEF ChainInv, Ends
<1>12. Ends'
  BY <1>1, <1>2, <1>5, <1>7, <1>11 DEF Ends, EndOf, insert_link
<1>13. \A x \in IoList : work_queue[x].next # NIL =>
          /\ work_queue[x].next \in IoList /\ work_queue[x].next # io_seq
          /\ work_queue[work_queue[x].next].prev = x
          /\ (work_queue[x].next = n => x = c)
  <2>1. \A x \in IoList : work_queue[x].next # io_seq
    BY <1>4, HeadFirst, Lists
  <2>2. \A x \in IoList : work_queue[x].next # NIL =>
           work_queue[x].next \in IoList /\ work_queue[work_queue[x].next].prev = x
    BY <1>0, <1>3, Behind DEF ChainInv, Mirrored
  <2>3. \A x, y \in IoList : work_queue[x].next = work_queue[y].next /\ work_queue[x].next # NIL
                             => x = y
    BY <2>2
  <2> QED BY <1>3, <2>1, <2>2, <2>3 DEF n
<1>14. Mirrored'
  <2>1. work_queue'[io_seq].prev = NIL
    <3>1. io_seq # n /\ io_seq # e
      BY <1>1, <1>3, <1>4, <1>13 DEF n
    <3> QED BY <1>3, <1>4, <1>5, <3>1 DEF ChainInv, Mirrored
  <2>2. ASSUME NEW x \in IoList, work_queue'[x].next # NIL
        PROVE  work_queue'[work_queue'[x].next].prev = IF x = c THEN e ELSE x
    <3>1. work_queue'[x].next = work_queue[x].next
      BY <1>1, <1>5
    <3>2. CASE x = c
      BY <1>4, <1>5, <2>2, <3>1, <3>2 DEF n
    <3>3. CASE x # c
      <4>1. work_queue[x].next # n /\ work_queue[x].next # e /\ work_queue[x].next \in Entries
        BY <1>1, <1>13, <2>2, <3>1, <3>3
      <4> QED BY <1>5, <1>13, <2>2, <3>1, <3>3, <4>1
    <3> QED BY <3>2, <3>3
  <2> QED BY <1>2, <1>7, <2>1, <2>2 DEF Mirrored, insert_link
<1>15. HandByStep'
  <2>1. work_queue'[c].next = n /\ work_queue'[c].nsecs_target = work_queue[c].nsecs_target
    BY <1>1, <1>4, <1>5 DEF n
  <2>2. PassedLater(n)'
    BY <1>2, <1>3, <1>4, <1>5 DEF PassedLater, insert_link, n
  <2>3. due' = due /\ latest_nsecs' = latest_nsecs /\ io_seq' = io_seq
    BY DEF insert_link
  <2>4. n # NIL => EndOf(io_seq_end, IoList)'
    BY <1>1, <1>5, <1>7, <1>11 DEF EndOf
  <2>5. work_queue'[e].nsecs_target = due'[disp.req] /\ disp'.req \in Reqs
    BY <1>1, <1>2, <1>3, <1>5, <2>3
  <2>6. n' = work_queue'[c].next
    BY <1>2 DEF n
  <2>7. PassedLater(work_queue[disp.curr].next)'
    BY <1>2, <2>1, <2>2, <2>6 DEF PassedLater, n
  <2> QED BY <1>1, <1>2, <1>3, <1>5, <1>7, <2>1, <2>3, <2>4, <2>5, <2>7 DEF HandByStep, Filling
<1>16. SortedAhead'
  <2>1. \A x \in IoList : LET m == work_queue[x].next IN
           m # NIL /\ work_queue[x].nsecs_target > latest_nsecs =>
              work_queue[x].nsecs_target <= work_queue[m].nsecs_target
    BY DEF ChainInv, SortedAhead, IoList
  <2>2. \A x \in IoList : work_queue[x].next # NIL => work_queue[x].next \in Entries
    BY <1>1, Behind
  <2> QED BY <1>1, <1>5, <1>7, <2>1, <2>2 DEF SortedAhead, IoList, insert_link
<1> QED BY <1>6, <1>7, <1>9, <1>10, <1>12, <1>14, <1>15, <1>16 DEF ChainInv

\* The store that makes the new entry reachable.
LEMMA PublishChain ==
    ASSUME ChainInv, insert_publish
    PROVE  /\ ChainInv' /\ FreeList' = FreeList /\ IoList' = IoList \cup {disp.entry}
           /\ disp'.pc \in {"idle", "reclaim"}
<1> USE DEF dispatcher_keeps, lists, effects, history
<1>0. disp.pc = "publish" /\ disp.pc \in Linking /\ disp' = inserted
  BY DEF insert_publish, Linking
<1> DEFINE e == disp.entry
           c == disp.curr
           n == work_queue[c].next
<1>1. /\ Types /\ work_queue \in [Entries -> Work]
      /\ e \in Entries /\ e # NIL /\ e \notin FreeList \cup IoList
      /\ FreeList \cup IoList \cup {e} = Entries /\ FreeList \cap IoList = {}
      /\ FreeList \subseteq Entries /\ IoList \subseteq Entries
      /\ work_queue[e].nsecs_target = due[disp.req]
      /\ disp \in [pc : Filling \cup {"idle", "reclaim", "append"}, req : 0 .. MaxReqs,
                   internal : BOOLEAN, entry : Index, curr : Index]
  BY <1>0, InsertFacts
<1>2. /\ disp' \in [pc : Filling \cup {"idle", "reclaim", "append"}, req : 0 .. MaxReqs,
                    internal : BOOLEAN, entry : Index, curr : Index]
      /\ disp'.pc \in {"idle", "reclaim"} /\ InHand' = {} /\ HandByStep'
  BY <1>0, <1>1, InsertedHand
<1>3. /\ io_seq # NIL /\ c \in IoList /\ work_queue[e].prev = c /\ work_queue[e].next = n
      /\ work_queue[c].nsecs_target > latest_nsecs => work_queue[c].nsecs_target <= due[disp.req]
      /\ PassedLater(n)
      /\ IF n = NIL THEN io_seq_end = e ELSE EndOf(io_seq_end, IoList)
  BY <1>0 DEF ChainInv, HandByStep
<1>4. /\ c \in Entries /\ c # e /\ n \in Index /\ (n # NIL => n \in IoList /\ n \in Entries /\ n # e)
      /\ io_seq \in IoList /\ io_seq \in Entries /\ c \in Index /\ e \in Index
      /\ free_seq \in Index /\ io_seq \in Index
  BY <1>1, <1>3, Behind, Lists, NilApart DEF Types
<1>5. /\ work_queue' \in [Entries -> Work] /\ work_queue'[c].next = e
      /\ \A x \in Entries \ {c} : work_queue'[x].next = work_queue[x].next
      /\ \A x \in Entries : /\ work_queue'[x].nsecs_target = work_queue[x].nsecs_target
                            /\ work_queue'[x].prev = work_queue[x].prev
  BY <1>1, <1>4 DEF insert_publish, Work
<1>6. Types'
  BY <1>1, <1>2, <1>5 DEF insert_publish, Types
<1> HIDE DEF n
<1>7. UNCHANGED <<free_seq, free_seq_end, io_seq, io_seq_end, latest_nsecs>>
  BY DEF insert_publish
<1>8. FreeList' = FreeList
  <2>1. \A x \in FreeList : links'[x] = links[x]
    BY <1>1, <1>3, <1>5, Lists, ListsAfter
  <2> QED BY <1>4, <1>5, <1>7, <2>1, Lists, ListsAfter, SameChain
<1>9. IoList' = IoList \cup {e}
  <2>1. links \in Links /\ links' \in Links /\ IoList = Chain(links, io_seq)
        /\ IoList' = Chain(links', io_seq)
    BY <1>5, <1>7, Lists, ListsAfter
  <2>2. links'[e] = links[c] /\ links'[c] = e
    BY <1>1, <1>3, <1>4, <1>5, Lists, ListsAfter DEF n
  <2>3. \A x \in IoList \ {c} : links'[x] = links[x]
    BY <1>1, <1>5, Lists, ListsAfter
  <2> QED BY <1>1, <1>3, <1>4, <2>1, <2>2, <2>3, InsertBehind
<1>10. Numbered'
  BY DEF ChainInv, Numbered, made, insert_publish
<1>11. Partition'
  BY <1>1, <1>2, <1>8, <1>9 DEF Partition
<1>12. Ends'
  <2>1. EndOf(free_seq_end, FreeList)'
    BY <1>1, <1>3, <1>5, <1>7, <1>8 DEF ChainInv, Ends, EndOf
  <2>2. EndOf(io_seq_end, IoList)'
    BY <1>1, <1>3, <1>4, <1>5, <1>7, <1>9 DEF EndOf, n
  <2> QED BY <2>1, <2>2 DEF Ends
<1>13. \A x \in IoList : work_queue[x].next # NIL =>
          /\ work_queue[x].next \in IoList
          /\ work_queue[work_queue[x].next].prev = IF x = c THEN e ELSE x
  BY <1>0, <1>3, Behind DEF ChainInv, Mirrored
<1>14. Mirrored'
  <2>1. work_queue'[io_seq].prev = NIL
    BY <1>3, <1>4, <1>5 DEF ChainInv, Mirrored
  <2>2. ASSUME NEW x \in IoList \cup {e}, work_queue'[x].next # NIL
        PROVE  work_queue'[work_queue'[x].next].prev = x
    <3>1. CASE x = c
      BY <1>1, <1>3, <1>5, <3>1
    <3>2. CASE x = e
      BY <1>1, <1>3, <1>4, <1>5, <1>13, <2>2, <3>2 DEF n
    <3>3. CASE x # c /\ x # e
      BY <1>1, <1>5, <1>13, <2>2, <3>3
    <3> QED BY <3>1, <3>2, <3>3
  <2> QED BY <1>2, <1>7, <1>9, <2>1, <2>2 DEF Mirrored
<1>15. SortedAhead'
  <2>1. \A x \in IoList : LET m == work_queue[x].next IN
           m # NIL /\ work_queue[x].nsecs_target > latest_nsecs =>
              work_queue[x].nsecs_target <= work_queue[m].nsecs_target
    BY DEF ChainInv, SortedAhead, IoList
  <2>2. ASSUME NEW x \in IoList \cup {e}, work_queue'[x].next # NIL,
               work_queue'[x].nsecs_target > latest_nsecs'
        PROVE  work_queue'[x].nsecs_target <= work_queue'[work_queue'[x].next].nsecs_target
    <3>1. CASE x = c
      BY <1>1, <1>3, <1>4, <1>5, <1>7, <2>2, <3>1
    <3>2. CASE x = e
      BY <1>0, <1>1, <1>3, <1>4, <1>5, <2>2, <3>2, InsertFacts DEF PassedLater
    <3>3. CASE x # c /\ x # e
      BY <1>1, <1>5, <1>7, <1>13, <2>1, <2>2, <3>3
    <3> QED BY <3>1, <3>2, <3>3
  <2> QED BY <1>9, <2>2 DEF SortedAhead, IoList
<1> QED BY <1>2, <1>6, <1>8, <1>9, <1>10, <1>11, <1>12, <1>14, <1>15 DEF ChainInv

\* __reclaim_completed_reqs() takes the reclaimable part off the list; the rest
\* keeps its end.
LEMMA DetachChain ==
    ASSUME ChainInv, reclaim_detach
    PROVE  /\ ChainInv' /\ FreeList' = FreeList
           /\ IoList' \cup InHand' = IoList /\ IoList' \cap InHand' = {}
           /\ disp'.pc = "append"
           /\ \A x \in InHand' : reclaimable(x)
           /\ \A x \in Entries :
                 /\ work_queue'[x].is_completed = work_queue[x].is_completed
                 /\ work_queue'[x].is_copied = work_queue[x].is_copied
                 /\ work_queue'[x].is_internal = work_queue[x].is_internal
                 /\ work_queue'[x].req = work_queue[x].req /\ work_queue'[x].buf = work_queue[x].buf
                 /\ work_queue'[x].nsecs_target = work_queue[x].nsecs_target
<1> USE DEF dispatcher_keeps, lists, effects, history
<1>0. disp.pc = "reclaim" /\ io_seq # NIL /\ InHand = {}
  BY Lists DEF reclaim_detach
<1>1. PICK last \in ChainFrom(io_seq) :
         /\ is_last_entry(last)
         /\ io_seq' = work_queue[last].next
         /\ work_queue' = [i \in Entries |->
               IF i = last THEN [work_queue[i] EXCEPT !.next = NIL]
               ELSE IF i = work_queue[last].next THEN [work_queue[i] EXCEPT !.prev = NIL]
               ELSE work_queue[i]]
         /\ disp' = [disp EXCEPT !.pc = "append", !.entry = io_seq, !.curr = last]
  BY DEF reclaim_detach
<1> DEFINE n == work_queue[last].next
<1>2. /\ Types /\ work_queue \in [Entries -> Work] /\ last \in IoList /\ last \in Entries
      /\ n \in Index /\ (n # NIL => n \in IoList /\ n \in Entries) /\ n = links[last]
      /\ io_seq \in IoList /\ io_seq \in Entries /\ io_seq \in Index
      /\ IoList \subseteq Entries /\ FreeList \subseteq Entries
      /\ links \in Links /\ IoList = Chain(links, io_seq)
      /\ Ending(links, io_seq, io_seq_end)
  BY <1>0, <1>1, Lists, Behind, NilApart DEF ChainInv, IoList, Types
<1>3. \A x \in Entries :
         /\ x = last => work_queue'[x] = [work_queue[x] EXCEPT !.next = NIL]
         /\ x # last /\ x = n => work_queue'[x] = [work_queue[x] EXCEPT !.prev = NIL]
         /\ x # last /\ x # n => work_queue'[x] = work_queue[x]
  BY <1>1
<1>4. \A x \in Entries :
         /\ work_queue'[x].is_completed = work_queue[x].is_completed
         /\ work_queue'[x].is_copied = work_queue[x].is_copied
         /\ work_queue'[x].is_internal = work_queue[x].is_internal
         /\ work_queue'[x].req = work_queue[x].req /\ work_queue'[x].buf = work_queue[x].buf
         /\ work_queue'[x].nsecs_target = work_queue[x].nsecs_target
         /\ work_queue'[x].next = IF x = last THEN NIL ELSE work_queue[x].next
         /\ work_queue'[x].prev = IF x # last /\ x = n THEN NIL ELSE work_queue[x].prev
  <2> TAKE x \in Entries
  <2>1. work_queue[x] \in Work
    BY <1>2
  <2> HIDE DEF n
  <2>2. CASE x = last
    BY <1>3, <2>1, <2>2 DEF Work
  <2>3. CASE x # last /\ x = n
    BY <1>3, <2>1, <2>3 DEF Work
  <2>4. CASE x # last /\ x # n
    BY <1>3, <2>4
  <2> QED BY <2>2, <2>3, <2>4
<1>5. work_queue' \in [Entries -> Work]
  <2>1. ASSUME NEW x \in Entries PROVE work_queue'[x] \in Work
    <3>1. work_queue[x] \in Work
      BY <1>2
    <3> HIDE DEF n
    <3>2. CASE x = last
      BY <1>3, <3>1, <3>2, NilApart DEF Work
    <3>3. CASE x # last /\ x = n
      BY <1>3, <3>1, <3>3, NilApart DEF Work
    <3>4. CASE x # last /\ x # n
      BY <1>3, <3>1, <3>4
    <3> QED BY <3>2, <3>3, <3>4
  <2> QED BY <1>1, <2>1
<1>6. /\ disp' \in [pc : Filling \cup {"idle", "reclaim", "append"}, req : 0 .. MaxReqs,
                    internal : BOOLEAN, entry : Index, curr : Index]
      /\ disp'.pc = "append" /\ disp'.entry = io_seq /\ disp'.curr = last
  BY <1>1, <1>2, NilApart DEF Types
<1>7. Types'
  BY <1>1, <1>2, <1>5, <1>6 DEF reclaim_detach, Types
<1>8. UNCHANGED <<free_seq, free_seq_end, io_seq_end, latest_nsecs, due, accepted, dropped>>
      /\ io_seq' = n
  BY <1>1 DEF reclaim_detach
<1> HIDE DEF n
<1>9. /\ links' \in Links /\ FreeList' = Chain(links', free_seq) /\ IoList' = Chain(links', n)
      /\ InHand' = Chain(links', io_seq)
      /\ \A x \in Entries : links'[x] = IF x = last THEN NIL ELSE links[x]
  <2>1. InHand' = ChainFrom(disp.entry)'
    BY <1>6 DEF InHand
  <2> QED BY <1>4, <1>5, <1>6, <1>8, <2>1, ListsAfter, Lists
<1>10. /\ InHand' = IoList \ Chain(links, n) /\ IoList' = Chain(links, n)
       /\ Chain(links, n) = Chain(links, last) \ {last}
       /\ Chain(links, n) \subseteq IoList
       /\ Ending(links', io_seq, last)
  BY <1>2, <1>9, Detached
<1>11. IoList' \cup InHand' = IoList /\ IoList' \cap InHand' = {}
  BY <1>10
<1>12. \A x \in InHand' : reclaimable(x)
  <2>1. ChainFrom(io_seq) = IoList /\ ChainFrom(last) = Chain(links, last)
    BY ChainOfLinks DEF IoList, ChainFrom, links
  <2> QED BY <1>1, <1>10, <2>1 DEF is_last_entry
<1>13. FreeList' = FreeList
  <2>1. \A x \in FreeList : links'[x] = links[x]
    BY <1>2, <1>9 DEF ChainInv, Partition
  <2>2. free_seq \in Index /\ FreeList = Chain(links, free_seq)
    BY <1>2, Lists, NilApart DEF Types
  <2> QED BY <1>2, <1>9, <2>1, <2>2, SameChain
<1>14. Numbered'
  BY <1>8 DEF ChainInv, Numbered, made
<1>15. Partition'
  BY <1>0, <1>10, <1>11, <1>13 DEF ChainInv, Partition
<1>16. n # NIL => io_seq_end \in IoList' /\ links'[io_seq_end] = NIL
  <2> SUFFICES ASSUME n # NIL PROVE io_seq_end \in IoList' /\ links'[io_seq_end] = NIL
    OBVIOUS
  <2>1. io_seq_end \in IoList /\ links[io_seq_end] = NIL
    BY <1>2 DEF Ending
  <2>2. links'[io_seq_end] = NIL /\ io_seq_end # last
    BY <1>2, <1>9, <2>1 DEF n
  <2>3. io_seq_end \notin InHand'
    BY <1>2, <1>9, <1>10, <2>2, OneEnd
  <2> QED BY <1>11, <2>1, <2>2, <2>3
<1>17. Ends'
  <2>1. EndOf(free_seq_end, FreeList)'
    BY <1>2, <1>4, <1>8, <1>13 DEF ChainInv, Ends, EndOf
  <2>2. io_seq' # NIL => EndOf(io_seq_end, IoList)'
    BY <1>2, <1>5, <1>8, <1>11, <1>16, ListsAfter DEF EndOf
  <2> QED BY <2>1, <2>2 DEF Ends
<1>18. \A x \in IoList' : /\ x \in IoList /\ x \in Entries /\ x # last
                          /\ work_queue'[x].next = work_queue[x].next
                          /\ work_queue[x].next # NIL => work_queue[x].next \in IoList'
                          /\ work_queue[x].next # NIL => work_queue[x].next # n
  <2>1. \A x \in IoList' : x \in IoList /\ x \in Entries /\ x # last
    BY <1>2, <1>10
  <2>2. \A x \in IoList' : work_queue'[x].next = work_queue[x].next
    BY <1>4, <2>1
  <2>3. \A x \in IoList' : links'[x] = NIL \/ links'[x] \in IoList'
    BY <1>2, <1>9, Least
  <2>4. n # NIL => \A x \in IoList' : links'[x] # n
    <3> SUFFICES ASSUME n # NIL PROVE \A x \in IoList' : links'[x] # n
      OBVIOUS
    <3>1. Ending(links', n, io_seq_end)
      BY <1>9, <1>16 DEF Ending
    <3> QED BY <1>2, <1>9, <3>1, HeadFirst
  <2> QED BY <1>5, <2>1, <2>2, <2>3, <2>4, ListsAfter
<1>19. Mirrored'
  <2>1. n # NIL => work_queue'[n].prev = NIL
    <3>1. n # NIL => n \in Chain(links, n)
      BY <1>2, Least
    <3>2. n # NIL => n \in Entries /\ n # last
      BY <1>2, <1>10, <3>1
    <3> QED BY <1>4, <3>2
  <2>2. ASSUME NEW x \in IoList', work_queue'[x].next # NIL
        PROVE  work_queue'[work_queue'[x].next].prev = x
    <3>1. /\ work_queue'[x].next = work_queue[x].next /\ x \in IoList
          /\ work_queue[x].next \in Entries /\ work_queue[x].next # n
      BY <1>18, <2>2
    <3>2. work_queue[work_queue[x].next].prev = x
      BY <1>0, <2>2, <3>1 DEF ChainInv, Mirrored
    <3> QED BY <1>4, <3>1, <3>2
  <2> QED BY <1>6, <1>8, <2>1, <2>2 DEF Mirrored
<1>20. HandByStep'
  <2>1. EndOf(last, InHand)'
    BY <1>2, <1>5, <1>9, <1>10, ListsAfter DEF EndOf, Ending
  <2>2. EndOf(disp.curr, InHand)'
    BY <1>6, <2>1 DEF EndOf
  <2> QED BY <1>2, <1>6, <2>2 DEF HandByStep, Filling
<1>21. SortedAhead'
  <2>1. \A x \in IoList : LET m == work_queue[x].next IN
           m # NIL /\ work_queue[x].nsecs_target > latest_nsecs =>
              work_queue[x].nsecs_target <= work_queue[m].nsecs_target
    BY DEF ChainInv, SortedAhead, IoList
  <2>2. \A x \in IoList' : work_queue[x].next # NIL => work_queue[x].next \in Entries
    BY <1>18
  <2>3. \A x \in IoList' : LET m == work_queue'[x].next IN
           m # NIL /\ work_queue'[x].nsecs_target > latest_nsecs' =>
              work_queue'[x].nsecs_target <= work_queue'[m].nsecs_target
    BY <1>4, <1>8, <1>18, <2>1, <2>2
  <2> QED BY <2>3 DEF SortedAhead, IoList
<1> QED BY <1>4, <1>6, <1>7, <1>11, <1>12, <1>13, <1>14, <1>15, <1>17, <1>19, <1>20, <1>21
        DEF ChainInv

\* __reclaim_completed_reqs() puts it behind the end of the free list.
LEMMA AppendChain ==
    ASSUME ChainInv, reclaim_append
    PROVE  /\ ChainInv' /\ IoList' = IoList /\ FreeList' = FreeList \cup InHand
           /\ disp'.pc = "idle"
           /\ \A x \in FreeList : Chain(links', x) \subseteq Chain(links, x) \cup InHand
           /\ \A x \in InHand : Chain(links', x) \subseteq InHand
           /\ \A x \in Entries :
                 /\ work_queue'[x].is_completed = work_queue[x].is_completed
                 /\ work_queue'[x].is_copied = work_queue[x].is_copied
                 /\ work_queue'[x].is_internal = work_queue[x].is_internal
                 /\ work_queue'[x].req = work_queue[x].req /\ work_queue'[x].buf = work_queue[x].buf
                 /\ work_queue'[x].nsecs_target = work_queue[x].nsecs_target
<1> USE DEF dispatcher_keeps, lists, effects, history
<1> DEFINE e == disp.entry
           f == free_seq_end
<1>0. disp.pc = "append" /\ disp.pc \notin Filling
  BY DEF reclaim_append, Filling
<1>1. /\ Types /\ work_queue \in [Entries -> Work] /\ links \in Links
      /\ InHand = Chain(links, e) /\ Ending(links, e, disp.curr) /\ e \in InHand
      /\ FreeList = Chain(links, free_seq) /\ IoList = Chain(links, io_seq)
      /\ Ending(links, free_seq, f)
      /\ FreeList \subseteq Entries /\ IoList \subseteq Entries /\ InHand \subseteq Entries
      /\ FreeList \cap IoList = {} /\ FreeList \cap InHand = {} /\ IoList \cap InHand = {}
      /\ FreeList \cup IoList \cup InHand = Entries
  BY <1>0, Lists DEF ChainInv, Types, Partition
<1>2. /\ e \in Entries /\ f \in FreeList /\ f \in Entries /\ e # f /\ e \in Index /\ f \in Index
      /\ disp.curr \in InHand /\ disp.curr \in Entries /\ disp.curr # f /\ disp.curr \in Index
      /\ free_seq \in Index /\ io_seq \in Index /\ links[disp.curr] = NIL
  BY <1>1, NilApart DEF Ending, Types
<1>3. /\ work_queue' = [work_queue EXCEPT ![e].prev = f, ![f].next = e]
      /\ disp' = [disp EXCEPT !.pc = "idle", !.entry = NIL, !.curr = NIL]
      /\ UNCHANGED <<free_seq, io_seq, io_seq_end, latest_nsecs, due, accepted, dropped>>
      /\ free_seq_end' = disp.curr
  BY DEF reclaim_append
<1>4. /\ work_queue'[e] = [work_queue[e] EXCEPT !.prev = f]
      /\ work_queue'[f] = [work_queue[f] EXCEPT !.next = e]
      /\ \A x \in Entries \ {e, f} : work_queue'[x] = work_queue[x]
      /\ work_queue' = [x \in Entries |-> work_queue'[x]]
  BY <1>1, <1>2, <1>3
<1>5. \A x \in Entries :
         /\ work_queue'[x].is_completed = work_queue[x].is_completed
         /\ work_queue'[x].is_copied = work_queue[x].is_copied
         /\ work_queue'[x].is_internal = work_queue[x].is_internal
         /\ work_queue'[x].req = work_queue[x].req /\ work_queue'[x].buf = work_queue[x].buf
         /\ work_queue'[x].nsecs_target = work_queue[x].nsecs_target
         /\ work_queue'[x].next = IF x = f THEN e ELSE work_queue[x].next
         /\ work_queue'[x].prev = IF x = e THEN f ELSE work_queue[x].prev
  BY <1>1, <1>2, <1>4 DEF Work
<1>6. work_queue' \in [Entries -> Work]
  <2>1. work_queue[e] \in Work /\ work_queue[f] \in Work
    BY <1>1, <1>2
  <2>2. work_queue'[e] \in Work /\ work_queue'[f] \in Work
    BY <1>2, <1>4, <2>1 DEF Work
  <2> QED BY <1>1, <1>4, <2>2
<1>7. /\ disp' \in [pc : Filling \cup {"idle", "reclaim", "append"}, req : 0 .. MaxReqs,
                    internal : BOOLEAN, entry : Index, curr : Index]
      /\ disp'.pc = "idle"
  BY <1>1, <1>3, NilApart DEF Types
<1>8. Types'
  BY <1>1, <1>2, <1>3, <1>6, <1>7 DEF reclaim_append, Types
<1>9. /\ links' \in Links /\ \A x \in Entries : links'[x] = IF x = f THEN e ELSE links[x]
      /\ FreeList' = Chain(links', free_seq) /\ IoList' = Chain(links', io_seq)
  BY <1>3, <1>5, <1>6, ListsAfter, Lists
<1>10. \A x \in (FreeList \cup InHand) \ {f} : links'[x] = links[x]
  BY <1>1, <1>9
<1>11. FreeList' = FreeList \cup InHand /\ Chain(links', e) = InHand
  BY <1>1, <1>2, <1>9, <1>10, Appended
<1>12. IoList' = IoList
  <2>1. \A x \in IoList : links'[x] = links[x]
    BY <1>1, <1>2, <1>9
  <2> QED BY <1>1, <1>2, <1>9, <2>1, SameChain
<1>13. \A x \in FreeList : Chain(links', x) \subseteq Chain(links, x) \cup InHand
  <2> TAKE x \in FreeList
  <2>1. /\ x \in Entries /\ x \in Index /\ Ending(links, x, f) /\ Chain(links, x) \subseteq FreeList
    BY <1>1, <1>2, OneEnd, Suffix, NilApart
  <2>2. Chain(links, x) \cap Chain(links, e) = {}
    BY <1>1, <2>1
  <2>3. \A y \in (Chain(links, x) \cup Chain(links, e)) \ {f} : links'[y] = links[y]
    BY <1>1, <1>10, <2>1
  <2>4. links'[f] = e
    BY <1>2, <1>9
  <2>5. Chain(links', x) = Chain(links, x) \cup Chain(links, e)
    BY <1>1, <1>2, <1>9, <2>1, <2>2, <2>3, <2>4, Appended
  <2> QED BY <1>1, <2>5
<1>14. \A x \in InHand : Chain(links', x) \subseteq InHand
  BY <1>2, <1>9, <1>11, Suffix
<1>15. Numbered'
  BY <1>3 DEF ChainInv, Numbered, made
<1>16. InHand' = {}
  BY <1>7 DEF InHand
<1>17. Partition'
  BY <1>1, <1>11, <1>12, <1>16 DEF Partition
<1>18. Ends'
  <2>1. EndOf(free_seq_end, FreeList)'
    BY <1>2, <1>3, <1>5, <1>11, Lists DEF EndOf
  <2>2. io_seq # NIL => EndOf(io_seq_end, IoList)'
    BY <1>0, <1>1, <1>2, <1>3, <1>5, <1>12 DEF ChainInv, Ends, EndOf
  <2> QED BY <1>3, <2>1, <2>2 DEF Ends
<1>19. \A x \in IoList : /\ x \in Entries /\ x # e /\ x # f
                         /\ work_queue[x].next # NIL => work_queue[x].next \in IoList
  BY <1>1, <1>2, Behind
<1>20. Mirrored'
  <2>1. io_seq # NIL => io_seq \in IoList
    BY Lists
  <2>2. \A x \in IoList : work_queue'[x].next = work_queue[x].next
                         /\ work_queue'[x].prev = work_queue[x].prev
    BY <1>5, <1>19
  <2>3. io_seq # NIL => work_queue'[io_seq].prev = NIL
    BY <2>1, <2>2 DEF ChainInv, Mirrored
  <2>4. \A x \in IoList : work_queue[x].next # NIL => work_queue[work_queue[x].next].prev = x
    BY <1>0, <2>1, Lists DEF ChainInv, Mirrored
  <2>5. \A x \in IoList : work_queue'[x].next # NIL => work_queue'[work_queue'[x].next].prev = x
    BY <1>19, <2>2, <2>4
  <2> QED BY <1>3, <1>7, <1>12, <2>3, <2>5 DEF Mirrored
<1>21. HandByStep'
  BY <1>7 DEF HandByStep, Filling
<1>22. SortedAhead'
  <2>1. \A x \in IoList : LET m == work_queue[x].next IN
           m # NIL /\ work_queue[x].nsecs_target > latest_nsecs =>
              work_queue[x].nsecs_target <= work_queue[m].nsecs_target
    BY DEF ChainInv, SortedAhead, IoList
  <2>2. \A x \in IoList' : LET m == work_queue'[x].next IN
           m # NIL /\ work_queue'[x].nsecs_target > latest_nsecs' =>
              work_queue'[x].nsecs_target <= work_queue'[m].nsecs_target
    <3>1. \A x \in IoList : work_queue'[x].next = work_queue[x].next
                           /\ work_queue'[x].nsecs_target = work_queue[x].nsecs_target
      BY <1>5, <1>19
    <3>2. \A x \in IoList : work_queue'[x].next # NIL =>
             LET m == work_queue'[x].next
             IN  m = work_queue[x].next /\ m \in IoList
                 /\ work_queue'[m].nsecs_target = work_queue[m].nsecs_target
      BY <1>19, <3>1
    <3> QED BY <1>3, <1>12, <2>1, <3>1, <3>2
  <2> QED BY <2>2 DEF SortedAhead, IoList
<1> QED BY <1>5, <1>7, <1>8, <1>11, <1>12, <1>13, <1>14, <1>15, <1>17, <1>18, <1>20, <1>21, <1>22
        DEF ChainInv

(***************************************************************************)
(* The start, and the theorem about the chains.                            *)
(***************************************************************************)
\* A set of naturals has a least element.
LEMMA LeastNumber ==
    ASSUME NEW T \in SUBSET Nat, T # {}
    PROVE  \E x \in T : \A y \in T : x <= y
<1> DEFINE R == OpToRel(<, Nat)
<1>1. IsWellFoundedOn(R, Nat)
  BY NatLessThanWellFounded
<1>2. \A x, y \in Nat : y < x => <<y, x>> \in R
  BY DEF OpToRel
<1> HIDE DEF R
<1>3. PICK x \in T : \A y \in T : ~ (<<y, x>> \in R)
  BY <1>1, WFMin
<1>4. \A y \in T : ~ (y < x)
  BY <1>2, <1>3
<1> QED BY <1>4

\* NVMEV_IO_WORKER_INIT() chains all entries into the free list.
LEMMA InitChains ==
    ASSUME Init
    PROVE  ChainInv /\ IoList = {}
<1> DEFINE N == NR_MAX_PARALLEL_IO
<1>0. N \in Nat /\ N > 1 /\ MaxReqs \in Nat /\ MaxTime \in Nat
      /\ Entries = 0 .. N - 1 /\ Index = Entries \cup {NIL} /\ NIL = -1
  BY SizeAssumption DEF Entries, Index, NIL
<1>1. /\ work_queue = [i \in Entries |->
            [req |-> 0, buf |-> 0, nsecs_target |-> 0,
             is_completed |-> FALSE, is_copied |-> FALSE, is_internal |-> FALSE,
             next |-> IF i = N - 1 THEN NIL ELSE i + 1,
             prev |-> i - 1]]
      /\ free_seq = 0 /\ free_seq_end = N - 1 /\ io_seq = NIL /\ io_seq_end = NIL
      /\ latest_nsecs = 0 /\ now = 0
      /\ disp = [pc |-> "idle", req |-> 0, internal |-> FALSE, entry |-> NIL, curr |-> NIL]
      /\ wk = [pc |-> "sweep", curr |-> NIL, nsecs |-> 0]
      /\ due = [r \in Reqs |-> 0] /\ accepted = {} /\ dropped = {} /\ copied = {}
      /\ posted = [r \in 0 .. MaxReqs |-> 0] /\ released = [r \in 0 .. MaxReqs |-> 0]
  BY DEF Init, NVMEV_IO_WORKER_INIT
<1>2. work_queue \in [Entries -> Work]
  <2>1. ASSUME NEW i \in Entries
        PROVE  /\ 0 \in 0 .. MaxReqs /\ 0 \in Times /\ i - 1 \in Index
               /\ (IF i = N - 1 THEN NIL ELSE i + 1) \in Index
    BY <1>0, <2>1 DEF Times
  <2> QED BY <1>1, <2>1 DEF Work
<1>3. Types
  <2>1. free_seq \in Entries /\ free_seq_end \in Entries /\ NIL \in Index /\ now \in Times
    BY <1>0, <1>1 DEF Times
  <2>2. due \in [Reqs -> Times] /\ posted \in [0 .. MaxReqs -> Nat]
        /\ released \in [0 .. MaxReqs -> Nat]
    BY <1>0, <1>1 DEF Times
  <2>3. 0 \in 0 .. MaxReqs /\ 0 \in 0 .. now
    BY <1>0, <1>1
  <2> QED BY <1>1, <1>2, <2>1, <2>2, <2>3 DEF Types
<1>4. links \in Links /\ \A i \in Entries : links[i] = IF i = N - 1 THEN NIL ELSE i + 1
  BY <1>1, <1>2, Fields
<1>5. FreeList = Chain(links, 0) /\ IoList = Chain(links, NIL)
  <2>1. FreeList = Chain(links, free_seq) /\ IoList = Chain(links, io_seq)
    BY ChainOfLinks DEF FreeList, IoList, ChainFrom, links
  <2>2. free_seq = 0 /\ io_seq = NIL
    BY <1>1
  <2> QED BY <2>1, <2>2
<1>6. IoList = {}
  BY <1>4, <1>5, Unfold
<1>7. FreeList = Entries
  <2>1. 0 \in Entries /\ 0 \in Index
    BY <1>0
  <2>2. FreeList \subseteq Entries /\ 0 \in FreeList
    BY <1>4, <1>5, <2>1, Least
  <2> DEFINE T == Entries \ FreeList
  <2>3. ASSUME T # {} PROVE FALSE
    <3>1. PICK x \in T : \A y \in T : x <= y
      <4>1. T \in SUBSET Nat
        BY <1>0
      <4> QED BY <2>3, <4>1, LeastNumber
    <3>2. x \in Entries /\ x # 0 /\ x - 1 \in Entries /\ x - 1 # N - 1
      BY <1>0, <2>2, <3>1
    <3>3. x - 1 \in FreeList
      BY <1>0, <3>1, <3>2
    <3>4. links[x - 1] = x
      BY <1>0, <1>4, <3>2
    <3>5. links[x - 1] \in FreeList
      BY <1>0, <1>4, <1>5, <2>1, <3>2, <3>3, <3>4, NilApart, Least
    <3> QED BY <3>1, <3>4, <3>5
  <2> QED BY <2>2, <2>3
<1>8. Numbered
  <2>1. made = 0
    BY <1>1, FS_EmptySet DEF made
  <2> QED BY <1>1, <2>1 DEF Numbered
<1>9. InHand = {}
  BY <1>1 DEF InHand
<1>10. Partition
  BY <1>6, <1>7, <1>9 DEF Partition
<1>11. Ends
  <2>1. N - 1 \in Entries /\ work_queue[N - 1].next = NIL
    BY <1>0, <1>1
  <2> QED BY <1>1, <1>7, <2>1 DEF Ends, EndOf
<1>12. Mirrored
  BY <1>1 DEF Mirrored
<1>13. HandByStep
  BY <1>1 DEF HandByStep, Filling
<1>14. SortedAhead
  BY <1>6 DEF SortedAhead, IoList
<1> QED BY <1>3, <1>6, <1>8, <1>10, <1>11, <1>12, <1>13, <1>14 DEF ChainInv

\* Every step of the dispatcher, the worker and the clock keeps the chains.
LEMMA StepChain ==
    ASSUME ChainInv, [Next]_vars
    PROVE  ChainInv'
<1>1. CASE Submit
  <2>1. PICK internal \in BOOLEAN :
           \/ \E target \in now .. MaxTime : allocate(internal, target)
           \/ drop(internal)
    BY <1>1 DEF Submit
  <2>2. now .. MaxTime \subseteq Times
    BY SizeAssumption DEF ChainInv, Types, Times
  <2> QED BY <2>1, <2>2, AllocateChain, DropChain
<1>2. CASE Dispatcher
  BY <1>2, InitChain, SearchChain, FirstChain, HeadChain, LinkChain, PublishChain,
     NothingChain, DetachChain, AppendChain DEF Dispatcher
<1>3. CASE nvmev_io_worker \/ tick
  BY <1>3, WorkerAside, AsideKeeps
<1>4. CASE UNCHANGED vars
  <2>1. Types'
    BY <1>4 DEF vars, lists, history, effects, ChainInv, Types
  <2>2. Aside
    BY <1>4 DEF vars, lists, history, Aside, ChainInv, Types
  <2> QED BY <2>1, <2>2, AsideKeeps
<1> QED BY <1>1, <1>2, <1>3, <1>4 DEF Next

\* The chains of nvmev_io_worker() and the dispatcher: the inductive invariant.
THEOREM Invariance == Spec => []ChainInv
<1>1. Init => ChainInv
  BY InitChains
<1>2. ChainInv /\ [Next]_vars => ChainInv'
  BY StepChain
<1> QED BY <1>1, <1>2, PTL DEF Spec

\* Without any lock the free list, the list of requests and what the dispatcher
\* holds make up the array, each entry once, for any number of entries and any
\* interleaving with a worker however slow: __allocate_work_queue_entry(),
\* __insert_req_sorted() and __reclaim_completed_reqs() never lose an entry nor hand
\* one out twice, and ahead of the worker's clock the list is sorted.
THEOREM ChainsStayIntact == Spec => []ChainsIntact
<1>1. ChainInv => ChainsIntact
  <2> SUFFICES ASSUME ChainInv PROVE ChainsIntact
    OBVIOUS
  <2>1. TypeOK
    <3>1. /\ work_queue \in [Entries -> Work]
          /\ free_seq \in Entries /\ free_seq_end \in Entries
          /\ io_seq \in Index /\ io_seq_end \in Index
          /\ disp.entry \in Index /\ disp.curr \in Index /\ wk.curr \in Index
          /\ now \in Times /\ latest_nsecs \in 0 .. now /\ wk.nsecs \in 0 .. now
      BY DEF ChainInv, Types
    <3>2. 0 .. now \subseteq Times
      BY <3>1, SizeAssumption DEF Times
    <3> QED BY <3>1, <3>2 DEF TypeOK
  <2>2. /\ FreeList \cap IoList = {} /\ FreeList \cap InHand = {} /\ IoList \cap InHand = {}
        /\ FreeList \cup IoList \cup InHand = Entries
    BY DEF ChainInv, Partition
  <2>3. free_seq_end \in FreeList /\ work_queue[free_seq_end].next = NIL
        /\ (io_seq # NIL /\ disp.pc # "publish" =>
               io_seq_end \in IoList /\ work_queue[io_seq_end].next = NIL)
    BY DEF ChainInv, Ends, EndOf
  <2>4. disp.pc = "search" =>
           /\ work_queue[io_seq].prev = NIL
           /\ \A e \in IoList :
                 work_queue[e].next # NIL => work_queue[work_queue[e].next].prev = e
    BY DEF ChainInv, Mirrored, HandByStep
  <2> QED BY <2>1, <2>2, <2>3, <2>4 DEF ChainsIntact, FreeList, IoList, ChainInv
<1> QED BY <1>1, Invariance, PTL

(***************************************************************************)
(* Requests and their entries: what any step of the dispatcher keeps.      *)
(***************************************************************************)
\* all but the links of the entry is as it was
SameWork(e) ==
    /\ work_queue'[e].is_completed = work_queue[e].is_completed
    /\ work_queue'[e].is_copied = work_queue[e].is_copied
    /\ work_queue'[e].is_internal = work_queue[e].is_internal
    /\ work_queue'[e].req = work_queue[e].req /\ work_queue'[e].buf = work_queue[e].buf
    /\ work_queue'[e].nsecs_target = work_queue[e].nsecs_target

\* the entry the dispatcher may make reachable
Ready == IF disp.pc \in Linking THEN {disp.entry} ELSE {}

\* An entry ready to be inserted has an owner of its own, not yet completed.
LEMMA ReadyOwned ==
    ASSUME ChainInv, OwnerInv, NEW e \in IoList \cup Ready
    PROVE  /\ e \in Entries
           /\ owner(e) \in accepted
           /\ work_queue[e].nsecs_target = due[owner(e)]
           /\ work_queue[e].is_copied /\ ~ work_queue[e].is_internal => owner(e) \in copied
           /\ e \notin IoList => ~ work_queue[e].is_completed /\ Done(owner(e)) = 0
           /\ \A x \in IoList \cup Ready : owner(e) = owner(x) => e = x
<1>1. CASE e \in IoList
  <2>1. e \in Entries
    BY <1>1, Lists
  <2>2. ASSUME NEW x \in Ready, owner(e) = owner(x) PROVE FALSE
    <3>1. disp.pc \in Linking /\ disp.pc \in Filling /\ x = disp.entry
      BY DEF Ready, Linking, Filling
    <3>2. owner(x) = disp.req /\ owner(e) # disp.req
      BY <1>1, <3>1 DEF OwnerInv, OwnedInHand
    <3> QED BY <2>2, <3>2
  <2>3. /\ owner(e) \in accepted
        /\ work_queue[e].nsecs_target = due[owner(e)]
        /\ work_queue[e].is_copied /\ ~ work_queue[e].is_internal => owner(e) \in copied
        /\ \A x \in IoList : owner(e) = owner(x) => e = x
    BY <1>1 DEF OwnerInv, Owned
  <2> QED BY <1>1, <2>1, <2>2, <2>3
<1>2. CASE e \in Ready
  <2>1. disp.pc \in Linking /\ disp.pc \in Filling /\ e = disp.entry /\ Ready = {e}
    BY <1>2 DEF Ready, Linking, Filling
  <2>2. /\ e \in Entries /\ e \notin IoList /\ work_queue[e].nsecs_target = due[disp.req]
    BY <2>1, InsertFacts
  <2>3. /\ disp.req \in accepted /\ Done(disp.req) = 0 /\ owner(e) = disp.req
        /\ \A x \in IoList : owner(x) # disp.req
    BY <2>1 DEF OwnerInv, OwnedInHand
  <2>4. /\ ~ work_queue[e].is_completed
        /\ work_queue[e].is_copied = disp.internal /\ work_queue[e].is_internal = disp.internal
    <3>1. disp.pc # "init"
      BY <2>1 DEF Linking
    <3> QED BY <2>1, <3>1 DEF OwnerInv, OwnedInHand
  <2>5. work_queue[e].is_copied /\ ~ work_queue[e].is_internal => owner(e) \in copied
    BY <2>4
  <2>6. \A x \in IoList \cup Ready : owner(e) = owner(x) => e = x
    BY <2>1, <2>3
  <2> HIDE DEF Ready
  <2> QED BY <2>2, <2>3, <2>4, <2>5, <2>6
<1> QED BY <1>1, <1>2

\* Insertions, removals and new requests keep the owners apart and their
\* completions counted.
LEMMA OwnersKept ==
    ASSUME ChainInv, OwnerInv, ChainInv',
           UNCHANGED <<wk, copied, posted, released, now>>,
           accepted \subseteq accepted',
           \A r \in accepted : due'[r] = due[r],
           IoList' \subseteq IoList \cup Ready,
           \A e \in IoList' : SameWork(e)
    PROVE  Owned' /\ NotYet' /\ CompletedOnce'
<1>1. \A r : Done(r)' = Done(r)
  BY DEF Done
<1>2. \A e \in IoList' : owner(e)' = owner(e)
  BY DEF owner, SameWork
<1>3. Owned'
  <2>1. ASSUME NEW e \in IoList'
        PROVE  /\ owner(e)' \in accepted'
               /\ work_queue'[e].nsecs_target = due'[owner(e)']
               /\ work_queue'[e].is_copied /\ ~ work_queue'[e].is_internal =>
                     owner(e)' \in copied'
    <3>1. /\ owner(e) \in accepted /\ work_queue[e].nsecs_target = due[owner(e)]
          /\ work_queue[e].is_copied /\ ~ work_queue[e].is_internal => owner(e) \in copied
      BY ReadyOwned
    <3>2. owner(e)' = owner(e) /\ SameWork(e)
      BY <1>2
    <3> QED BY <3>1, <3>2 DEF SameWork
  <2>2. ASSUME NEW e \in IoList', NEW x \in IoList', owner(e)' = owner(x)' PROVE e = x
    <3>1. owner(e) = owner(x)
      BY <1>2, <2>2
    <3> QED BY <3>1, ReadyOwned
  <2> QED BY <2>1, <2>2 DEF Owned
<1>4. NotYet'
  <2>1. ASSUME NEW e \in IoList', ~ work_queue'[e].is_completed, ~ Begun(e)'
        PROVE  Done(owner(e))' = 0
    <3>1. owner(e)' = owner(e) /\ SameWork(e) /\ ~ Begun(e)
      BY <1>2, <2>1 DEF Begun
    <3>2. Done(owner(e)) = 0
      <4>1. CASE e \in IoList
        BY <2>1, <3>1, <4>1 DEF OwnerInv, NotYet, SameWork
      <4>2. CASE e \notin IoList
        BY <4>2, ReadyOwned
      <4> QED BY <4>1, <4>2
    <3> QED BY <3>1, <3>2 DEF Done
  <2>2. \A r \in Reqs \ accepted' : Done(r)' = 0
    BY <1>1 DEF OwnerInv, NotYet
  <2> QED BY <2>1, <2>2 DEF NotYet
<1>5. CompletedOnce'
  <2>1. ASSUME NEW r \in Reqs, Done(r) > 0 PROVE due'[r] = due[r]
    <3>1. r \in accepted
      BY <2>1 DEF OwnerInv, NotYet
    <3> QED BY <3>1
  <2> QED BY <2>1 DEF OwnerInv, CompletedOnce, Done
<1> QED BY <1>3, <1>4, <1>5

\* A worker that was left behind stands in the free list, whatever is inserted.
LEMMA PlaceKept ==
    ASSUME ChainInv, OwnerInv, ChainInv', UNCHANGED wk,
           disp.pc # "append", disp'.pc # "append",
           IoList \subseteq IoList', \A e \in IoList : SameWork(e),
           \A e \in FreeList : work_queue'[e] = work_queue[e],
           wk.curr \in FreeList => wk.curr \in FreeList'
    PROVE  WorkerPlace'
<1>1. /\ wk.pc \in {"copy", "due", "mark"} =>
            wk.curr \in IoList' /\ ~ work_queue'[wk.curr].is_completed
      /\ wk.pc \in {"due", "mark"} => work_queue'[wk.curr].is_copied
  BY DEF OwnerInv, WorkerPlace, SameWork
<1>2. ASSUME wk.pc \in {"visit", "advance"}, wk.curr \notin IoList'
      PROVE  /\ wk.curr \in Entries \ IoList'
             /\ disp'.pc \in Filling => wk.curr # disp'.entry
             /\ Completed(ChainFrom(wk.curr))'
  <2>1. /\ wk.curr \in Entries \ IoList /\ Completed(ChainFrom(wk.curr))
        /\ disp.pc \in Filling => wk.curr # disp.entry
    BY <1>2 DEF OwnerInv, WorkerPlace
  <2>2. wk.curr \in FreeList
    <3>1. wk.curr \notin InHand
      BY <2>1, Lists DEF InHand, Filling
    <3> QED BY <2>1, <3>1 DEF ChainInv, Partition
  <2>3. wk.curr \in FreeList' /\ wk.curr \notin InHand'
    BY <2>2 DEF ChainInv, Partition
  <2>4. disp'.pc \in Filling => wk.curr # disp'.entry
    BY <2>3 DEF InHand, Filling
  <2>5. /\ links \in Links /\ FreeList = Chain(links, free_seq) /\ free_seq \in Index
        /\ FreeList \subseteq Entries /\ wk.curr \in Index
    BY <2>1, Lists, NilApart DEF ChainInv, Types
  <2>6. ChainFrom(wk.curr) = Chain(links, wk.curr)
    BY ChainOfLinks DEF ChainFrom, links
  <2>7. Chain(links, wk.curr) \subseteq FreeList
    BY <2>2, <2>5, Suffix
  <2>8. /\ links' \in Links /\ ChainFrom(wk.curr)' = Chain(links', wk.curr)
        /\ \A e \in Entries : links'[e] = work_queue'[e].next
    BY ListsAfter DEF ChainInv, Types
  <2>9. \A e \in Entries : links[e] = work_queue[e].next
    BY DEF links
  <2>10. \A x \in Chain(links, wk.curr) : links'[x] = links[x]
    BY <2>5, <2>7, <2>8, <2>9
  <2>11. Chain(links', wk.curr) = Chain(links, wk.curr)
    BY <2>5, <2>8, <2>10, SameChain
  <2>12. \A x \in Chain(links, wk.curr) : work_queue'[x].is_completed
    BY <2>1, <2>6, <2>7 DEF Completed
  <2>13. Completed(ChainFrom(wk.curr))'
    BY <2>8, <2>11, <2>12 DEF Completed
  <2> QED BY <1>2, <2>1, <2>4, <2>13
<1> QED BY <1>1, <1>2 DEF WorkerPlace

(***************************************************************************)
(* Requests and their entries: the dispatcher.                             *)
(***************************************************************************)
\* A request without an entry owns none.
LEMMA DropOwner ==
    ASSUME IInv, NEW internal \in BOOLEAN, drop(internal)
    PROVE  OwnerInv'
<1> USE DEF dispatcher_keeps, lists, effects, history
<1>1. ChainInv /\ OwnerInv /\ ChainInv' /\ IoList' = IoList
  BY DropChain DEF IInv
<1>2. /\ disp.pc = "idle" /\ disp'.pc \in {"idle", "reclaim"} /\ disp'.pc \notin Filling
      /\ UNCHANGED <<work_queue, free_seq, wk, copied, posted, released, now, accepted, due>>
  BY <1>1 DEF drop, ChainInv, Types, Filling
<1>3. \A e : SameWork(e)
  BY <1>2 DEF SameWork
<1>4. Owned' /\ NotYet' /\ CompletedOnce'
  BY <1>1, <1>2, <1>3, OwnersKept
<1>5. FreeList' = FreeList
  BY <1>2 DEF FreeList, ChainFrom
<1>6. WorkerPlace'
  BY <1>1, <1>2, <1>3, <1>5, PlaceKept
<1> QED BY <1>2, <1>4, <1>6 DEF OwnerInv, OwnedInHand

\* Nothing to reclaim: nothing changes hands.
LEMMA NothingOwner ==
    ASSUME IInv, nothing_to_reclaim
    PROVE  OwnerInv'
<1> USE DEF dispatcher_keeps, lists, effects, history
<1>1. ChainInv /\ OwnerInv /\ ChainInv' /\ IoList' = IoList
  BY NothingChain DEF IInv
<1>2. /\ disp.pc = "reclaim" /\ disp'.pc = "idle" /\ disp'.pc \notin Filling
      /\ UNCHANGED <<work_queue, free_seq, wk, copied, posted, released, now, accepted, due>>
  BY <1>1 DEF nothing_to_reclaim, ChainInv, Types, Filling
<1>3. \A e : SameWork(e)
  BY <1>2 DEF SameWork
<1>4. Owned' /\ NotYet' /\ CompletedOnce'
  BY <1>1, <1>2, <1>3, OwnersKept
<1>5. FreeList' = FreeList
  BY <1>2 DEF FreeList, ChainFrom
<1>6. WorkerPlace'
  BY <1>1, <1>2, <1>3, <1>5, PlaceKept
<1> QED BY <1>2, <1>4, <1>6 DEF OwnerInv, OwnedInHand

\* A new request is owned by no entry and was never completed; its entry is not
\* where a prompt worker stands.
LEMMA AllocateOwner ==
    ASSUME PromptWorker, IInv, NEW internal \in BOOLEAN, NEW target \in Times,
           allocate(internal, target)
    PROVE  OwnerInv'
<1> USE DEF dispatcher_keeps, lists, effects, history
<1>1. /\ ChainInv /\ OwnerInv /\ ChainInv' /\ IoList' = IoList
      /\ FreeList = {free_seq} \cup FreeList' /\ free_seq \notin FreeList'
  BY AllocateChain DEF IInv
<1>2. /\ made + 1 \in Reqs /\ made + 1 \notin accepted
  BY <1>1, NextNumber DEF ChainInv, allocate
<1>3. /\ disp.pc = "idle" /\ disp'.pc = "init" /\ disp'.req = made + 1
      /\ accepted' = accepted \cup {made + 1} /\ wk.curr # free_seq
      /\ due' = [due EXCEPT ![made + 1] = target]
      /\ UNCHANGED <<work_queue, wk, copied, posted, released, now>>
  BY <1>1 DEF allocate, ChainInv, Types
<1>4. \A e : SameWork(e)
  BY <1>3 DEF SameWork
<1>5. \A r \in accepted : due'[r] = due[r]
  BY <1>1, <1>2, <1>3 DEF ChainInv, Types
<1>6. accepted \subseteq accepted' /\ IoList' \subseteq IoList \cup Ready
  BY <1>1, <1>3
<1>7. Owned' /\ NotYet' /\ CompletedOnce'
  BY <1>1, <1>3, <1>4, <1>5, <1>6, OwnersKept
<1>8. OwnedInHand'
  <2>1. Done(made + 1) = 0 /\ \A e \in IoList : owner(e) # made + 1
    BY <1>1, <1>2 DEF OwnerInv, NotYet, Owned
  <2>2. Done(disp.req)' = 0 /\ \A e \in IoList' : owner(e)' # disp'.req
    BY <1>1, <1>3, <2>1 DEF Done, owner
  <2> QED BY <1>3, <2>2 DEF OwnedInHand, Linking, Filling
<1>9. WorkerPlace'
  <2>1. wk.curr \in FreeList => wk.curr \in FreeList'
    BY <1>1, <1>3
  <2> QED BY <1>1, <1>3, <1>4, <2>1, PlaceKept
<1> QED BY <1>7, <1>8, <1>9 DEF OwnerInv

\* A step that only touches the entry in hand disturbs neither owners nor worker.
LEMMA PreparesOwner ==
    ASSUME IInv, ChainInv', IoList' = IoList, FreeList' = FreeList,
           disp.pc \in Filling, disp'.pc \in Filling,
           UNCHANGED <<wk, copied, posted, released, now, accepted, due>>,
           \A e \in FreeList : work_queue'[e] = work_queue[e],
           \A e \in IoList : SameWork(e)
    PROVE  Owned' /\ NotYet' /\ CompletedOnce' /\ WorkerPlace'
<1>1. ChainInv /\ OwnerInv
  BY DEF IInv
<1>2. disp.pc # "append" /\ disp'.pc # "append"
  BY DEF Filling
<1>3. Owned' /\ NotYet' /\ CompletedOnce'
  BY <1>1, OwnersKept
<1>4. WorkerPlace'
  BY <1>1, <1>2, PlaceKept
<1> QED BY <1>3, <1>4

\* What the hand of the dispatcher has to do with the requests, step by step.
LEMMA HandFacts ==
    ASSUME IInv, disp.pc \in Filling
    PROVE  /\ work_queue \in [Entries -> Work] /\ disp.entry \in Entries
           /\ disp.req \in 0 .. MaxReqs /\ disp.internal \in BOOLEAN
           /\ disp.entry \notin FreeList \cup IoList
           /\ FreeList \subseteq Entries /\ IoList \subseteq Entries
           /\ disp.req \in accepted /\ Done(disp.req) = 0
           /\ \A e \in IoList : owner(e) # disp.req
<1>1. InHand = {disp.entry} /\ FreeList \subseteq Entries /\ IoList \subseteq Entries
  BY Lists DEF IInv
<1>2. disp.entry \in Entries /\ disp.entry \notin FreeList \cup IoList
  BY <1>1 DEF IInv, ChainInv, Partition, HandByStep
<1>3. /\ disp.req \in accepted /\ Done(disp.req) = 0
      /\ \A e \in IoList : owner(e) # disp.req
  BY DEF IInv, OwnerInv, OwnedInHand
<1>4. /\ work_queue \in [Entries -> Work]
      /\ disp.req \in 0 .. MaxReqs /\ disp.internal \in BOOLEAN
  BY DEF IInv, ChainInv, Types
<1> QED BY <1>1, <1>2, <1>3, <1>4

\* The fields of a new request, one step after the other.
LEMMA InitOwner ==
    ASSUME IInv, init_request \/ init_copied \/ init_internal
    PROVE  OwnerInv'
<1> USE DEF dispatcher_keeps, lists, effects, history
<1>0. ChainInv /\ ChainInv' /\ FreeList' = FreeList /\ IoList' = IoList
  BY InitChain DEF IInv
<1>1. /\ disp.pc \in {"init", "init_copied", "init_internal"}
      /\ disp'.pc \in Filling /\ disp.pc \in Filling
      /\ disp'.entry = disp.entry /\ disp'.req = disp.req /\ disp'.internal = disp.internal
      /\ UNCHANGED <<wk, copied, posted, released, now, accepted, due>>
  BY <1>0 DEF init_request, init_copied, init_internal, ChainInv, Types, Filling
<1>2. /\ work_queue \in [Entries -> Work] /\ disp.entry \in Entries
      /\ disp.req \in 0 .. MaxReqs /\ disp.internal \in BOOLEAN
      /\ disp.entry \notin FreeList \cup IoList
      /\ FreeList \subseteq Entries /\ IoList \subseteq Entries
      /\ disp.req \in accepted /\ Done(disp.req) = 0
      /\ \A e \in IoList : owner(e) # disp.req
  BY <1>1, HandFacts
<1>3. \A e \in FreeList \cup IoList : work_queue'[e] = work_queue[e]
  BY <1>2 DEF init_request, init_copied, init_internal
<1>4. \A e \in IoList : SameWork(e)
  BY <1>3 DEF SameWork
<1>5. Owned' /\ NotYet' /\ CompletedOnce' /\ WorkerPlace'
  BY <1>0, <1>1, <1>3, <1>4, PreparesOwner
<1>6. /\ disp'.req \in accepted' /\ Done(disp.req)' = 0
      /\ \A e \in IoList' : owner(e)' # disp'.req
  <2>1. Done(disp.req)' = Done(disp.req)
    BY <1>1 DEF Done
  <2>2. \A e \in IoList' : owner(e)' = owner(e)
    BY <1>0, <1>3 DEF owner
  <2> QED BY <1>0, <1>1, <1>2, <2>1, <2>2
<1>7. CASE init_request
  <2> DEFINE old == work_queue[disp.entry]
             r == IF disp.internal THEN old.req ELSE disp.req
             t == due[disp.req]
  <2>1. work_queue' = [work_queue EXCEPT ![disp.entry].req = r,
           ![disp.entry].nsecs_target = t, ![disp.entry].is_completed = FALSE]
    BY <1>7 DEF init_request
  <2>2. old \in Work
    BY <1>2
  <2>3. disp.internal \/ r = disp.req
    OBVIOUS
  <2> HIDE DEF r, t
  <2>4. work_queue'[disp.entry].req = r /\ work_queue'[disp.entry].is_completed = FALSE
    BY <1>2, <2>1, <2>2 DEF Work
  <2>5. disp'.pc = "init_copied"
    BY <1>7, <1>0 DEF init_request, ChainInv, Types
  <2>6. OwnedInHand'
    BY <1>1, <1>6, <2>3, <2>4, <2>5 DEF OwnedInHand, Linking
  <2> QED BY <1>5, <2>6 DEF OwnerInv
<1>8. CASE init_copied
  <2> DEFINE old == work_queue[disp.entry]
             b == disp.internal
  <2>1. work_queue' = [work_queue EXCEPT ![disp.entry].is_copied = b,
           ![disp.entry].prev = NIL, ![disp.entry].next = NIL]
    BY <1>8 DEF init_copied
  <2>2. old \in Work /\ b \in BOOLEAN
    BY <1>2
  <2>3. disp.pc = "init_copied" /\ disp'.pc = "init_internal"
    BY <1>8, <1>0 DEF init_copied, ChainInv, Types
  <2>4. ~ old.is_completed /\ (disp.internal \/ old.req = disp.req)
    BY <1>1, <2>3 DEF IInv, OwnerInv, OwnedInHand
  <2>5. b = disp'.internal
    BY <1>1
  <2> HIDE DEF b
  <2>6. /\ work_queue'[disp.entry].is_copied = b
        /\ work_queue'[disp.entry].is_completed = old.is_completed
        /\ work_queue'[disp.entry].req = old.req
    BY <1>2, <2>1, <2>2 DEF Work
  <2>7. OwnedInHand'
    BY <1>1, <1>6, <2>3, <2>4, <2>5, <2>6 DEF OwnedInHand, Linking
  <2> QED BY <1>5, <2>7 DEF OwnerInv
<1>9. CASE init_internal
  <2> DEFINE old == work_queue[disp.entry]
             b == disp.internal
             r == IF disp.internal THEN disp.req ELSE old.buf
  <2>1. work_queue' = [work_queue EXCEPT ![disp.entry].is_internal = b,
                                          ![disp.entry].buf = r]
    BY <1>9 DEF init_internal
  <2>2. old \in Work /\ b \in BOOLEAN
    BY <1>2
  <2>3. disp.pc = "init_internal" /\ disp'.pc = "insert"
    BY <1>9, <1>0 DEF init_internal, ChainInv, Types
  <2>4. /\ ~ old.is_completed /\ (disp.internal \/ old.req = disp.req)
        /\ old.is_copied = disp.internal
    BY <1>1, <2>3 DEF IInv, OwnerInv, OwnedInHand
  <2>5. b = disp'.internal /\ b = disp.internal /\ (disp.internal => r = disp.req)
    BY <1>1
  <2> HIDE DEF b, r
  <2>6. /\ work_queue'[disp.entry].is_internal = b
        /\ work_queue'[disp.entry].is_copied = old.is_copied
        /\ work_queue'[disp.entry].is_completed = old.is_completed
        /\ work_queue'[disp.entry].req = old.req
        /\ work_queue'[disp.entry].buf = r
    BY <1>2, <2>1, <2>2 DEF Work
  <2>7. owner(disp.entry)' = disp'.req
    BY <1>1, <2>4, <2>5, <2>6 DEF owner
  <2>8. OwnedInHand'
    BY <1>1, <1>6, <2>3, <2>4, <2>5, <2>6, <2>7 DEF OwnedInHand, Linking
  <2> QED BY <1>5, <2>8 DEF OwnerInv
<1> QED BY <1>7, <1>8, <1>9

\* Entries are linked: of the array only links change, and none in the free list.
LEMMA LinksOnly ==
    ASSUME IInv, insert_head \/ insert_link \/ insert_publish
    PROVE  /\ \A x \in Entries : SameWork(x)
           /\ \A x \in FreeList : work_queue'[x] = work_queue[x]
<1>1. disp.pc \in Linking /\ ChainInv
  BY DEF insert_head, insert_link, insert_publish, Linking, IInv
<1> DEFINE e == disp.entry
           c == disp.curr
<1>2. /\ work_queue \in [Entries -> Work] /\ e \in Entries /\ e \notin FreeList \cup IoList
      /\ FreeList \cap IoList = {} /\ FreeList \subseteq Entries /\ IoList \subseteq Entries
  BY <1>1, InsertFacts
<1>3. CASE insert_head
  <2>1. io_seq \in IoList /\ io_seq # e
    BY <1>1, <1>2, <1>3, Lists DEF ChainInv, HandByStep, insert_head
  <2>2. work_queue' = [work_queue EXCEPT ![io_seq].prev = e, ![e].next = io_seq]
    BY <1>3 DEF insert_head
  <2>3. /\ work_queue'[e] = [work_queue[e] EXCEPT !.next = io_seq]
        /\ work_queue'[io_seq] = [work_queue[io_seq] EXCEPT !.prev = e]
        /\ \A x \in Entries \ {e, io_seq} : work_queue'[x] = work_queue[x]
    BY <1>2, <2>1, <2>2
  <2>4. SameWork(e) /\ SameWork(io_seq)
    <3>1. work_queue[e] \in Work /\ work_queue[io_seq] \in Work
      BY <1>2, <2>1
    <3> QED BY <2>3, <3>1 DEF SameWork, Work
  <2>5. \A x \in Entries \ {e, io_seq} : SameWork(x)
    BY <2>3 DEF SameWork
  <2> QED BY <1>2, <2>1, <2>3, <2>4, <2>5
<1>4. CASE insert_link
  <2> DEFINE n == work_queue[c].next
  <2>1. c \in IoList /\ n \in Index /\ (n # NIL => n \in IoList /\ n # e)
    BY <1>1, <1>2, <1>4, Behind DEF ChainInv, HandByStep, insert_link
  <2>2. CASE n = NIL
    <3>1. work_queue' = [work_queue EXCEPT ![e].prev = c]
      BY <1>4, <2>2 DEF insert_link
    <3>2. /\ work_queue'[e] = [work_queue[e] EXCEPT !.prev = c]
          /\ \A x \in Entries \ {e} : work_queue'[x] = work_queue[x]
      BY <1>2, <3>1
    <3>3. SameWork(e)
      <4>1. work_queue[e] \in Work
        BY <1>2
      <4> QED BY <3>2, <4>1 DEF SameWork, Work
    <3>4. \A x \in Entries \ {e} : SameWork(x)
      BY <3>2 DEF SameWork
    <3> QED BY <1>2, <3>2, <3>3, <3>4
  <2>3. CASE n # NIL
    <3>1. work_queue' = [work_queue EXCEPT ![e].prev = c, ![e].next = n, ![n].prev = e]
      BY <1>4, <2>3 DEF insert_link
    <3>2. n \in Entries /\ n \in IoList /\ n # e
      BY <1>2, <2>1, <2>3
    <3> HIDE DEF n
    <3>3. /\ work_queue'[e] = [work_queue[e] EXCEPT !.prev = c, !.next = n]
          /\ work_queue'[n] = [work_queue[n] EXCEPT !.prev = e]
          /\ \A x \in Entries \ {e, n} : work_queue'[x] = work_queue[x]
      BY <1>2, <3>1, <3>2
    <3>4. SameWork(e) /\ SameWork(n)
      <4>1. work_queue[e] \in Work /\ work_queue[n] \in Work
        BY <1>2, <3>2
      <4> QED BY <3>3, <4>1 DEF SameWork, Work
    <3>5. \A x \in Entries \ {e, n} : SameWork(x)
      BY <3>3 DEF SameWork
    <3> QED BY <1>2, <3>2, <3>3, <3>4, <3>5
  <2> QED BY <2>2, <2>3
<1>5. CASE insert_publish
  <2>1. c \in IoList /\ c \in Entries
    BY <1>2, <1>5 DEF IInv, ChainInv, HandByStep, insert_publish
  <2>2. work_queue' = [work_queue EXCEPT ![c].next = e]
    BY <1>5 DEF insert_publish
  <2>3. /\ work_queue'[c] = [work_queue[c] EXCEPT !.next = e]
        /\ \A x \in Entries \ {c} : work_queue'[x] = work_queue[x]
    BY <1>2, <2>1, <2>2
  <2>4. SameWork(c)
    <3>1. work_queue[c] \in Work
      BY <1>2, <2>1
    <3> QED BY <2>3, <3>1 DEF SameWork, Work
  <2>5. \A x \in Entries \ {c} : SameWork(x)
    BY <2>3 DEF SameWork
  <2> QED BY <1>2, <2>1, <2>3, <2>4, <2>5
<1> QED BY <1>3, <1>4, <1>5

\* Looking for the place and linking keep the entry in the hand of its owner.
LEMMA SearchOwner ==
    ASSUME IInv, insert_search \/ search_on \/ insert_link
    PROVE  OwnerInv'
<1> USE DEF dispatcher_keeps, lists, effects, history
<1>1. ChainInv /\ ChainInv' /\ FreeList' = FreeList /\ IoList' = IoList
  BY SearchChain, LinkChain DEF IInv
<1>2. /\ disp.pc \in Linking /\ disp'.pc \in Linking /\ disp.pc \in Filling /\ disp'.pc \in Filling
      /\ disp.pc # "init" /\ disp'.pc # "init"
      /\ disp'.entry = disp.entry /\ disp'.req = disp.req /\ disp'.internal = disp.internal
      /\ UNCHANGED <<wk, copied, posted, released, now, accepted, due>>
  BY <1>1 DEF insert_search, search_on, insert_link, ChainInv, Types, Filling, Linking
<1>3. /\ disp.entry \in Entries /\ FreeList \subseteq Entries /\ IoList \subseteq Entries
      /\ disp.req \in accepted /\ Done(disp.req) = 0
      /\ \A e \in IoList : owner(e) # disp.req
  BY <1>2, HandFacts
<1>4. /\ \A x \in Entries : SameWork(x)
      /\ \A x \in FreeList : work_queue'[x] = work_queue[x]
  <2>1. CASE insert_link
    BY <2>1, LinksOnly
  <2>2. CASE insert_search \/ search_on
    BY <2>2 DEF insert_search, search_on, SameWork
  <2> QED BY <2>1, <2>2
<1>5. Owned' /\ NotYet' /\ CompletedOnce' /\ WorkerPlace'
  BY <1>1, <1>2, <1>3, <1>4, PreparesOwner
<1>6. Done(disp.req)' = 0
  BY <1>2, <1>3 DEF Done
<1>7. \A e \in Entries : owner(e)' = owner(e)
  BY <1>4 DEF owner, SameWork
<1>8. /\ ~ work_queue[disp.entry].is_completed
      /\ disp.internal \/ work_queue[disp.entry].req = disp.req
      /\ work_queue[disp.entry].is_copied = disp.internal
      /\ work_queue[disp.entry].is_internal = disp.internal
      /\ owner(disp.entry) = disp.req
  BY <1>2 DEF IInv, OwnerInv, OwnedInHand
<1>9. SameWork(disp.entry) /\ owner(disp.entry)' = disp'.req
  BY <1>2, <1>3, <1>4, <1>7, <1>8
<1>10. \A e \in IoList' : owner(e)' # disp'.req
  BY <1>1, <1>2, <1>3, <1>7
<1>11. OwnedInHand'
  BY <1>2, <1>3, <1>6, <1>8, <1>9, <1>10 DEF OwnedInHand, SameWork
<1> QED BY <1>5, <1>11 DEF OwnerInv

\* Three ways to make the entry of the new request reachable.
LEMMA InsertOwner ==
    ASSUME IInv, insert_first \/ insert_head \/ insert_publish
    PROVE  OwnerInv'
<1> USE DEF dispatcher_keeps, lists, effects, history
<1>1. /\ ChainInv /\ OwnerInv /\ ChainInv' /\ FreeList' = FreeList
      /\ IoList' = IoList \cup {disp.entry} /\ disp'.pc \in {"idle", "reclaim"}
  BY FirstChain, HeadChain, PublishChain DEF IInv
<1>2. /\ disp.pc \in Linking /\ disp.pc # "append"
      /\ disp'.pc # "append" /\ disp'.pc \notin Filling
      /\ UNCHANGED <<wk, copied, posted, released, now, accepted, due>>
  BY <1>1 DEF insert_first, insert_head, insert_publish, Filling, Linking
<1>3. /\ disp.entry \in Entries /\ FreeList \subseteq Entries /\ IoList \subseteq Entries
  BY <1>1, <1>2, InsertFacts
<1>4. /\ \A x \in Entries : SameWork(x)
      /\ \A x \in FreeList : work_queue'[x] = work_queue[x]
  <2>1. CASE insert_first
    BY <2>1 DEF insert_first, SameWork
  <2> QED BY <2>1, LinksOnly
<1>5. /\ IoList' \subseteq IoList \cup Ready /\ IoList \subseteq IoList'
      /\ \A x \in IoList' : SameWork(x)
  BY <1>1, <1>2, <1>3, <1>4 DEF Ready
<1>6. Owned' /\ NotYet' /\ CompletedOnce'
  BY <1>1, <1>2, <1>5, OwnersKept
<1>7. WorkerPlace'
  BY <1>1, <1>2, <1>3, <1>4, <1>5, PlaceKept
<1> QED BY <1>2, <1>6, <1>7 DEF OwnerInv, OwnedInHand

\* What is taken off the list is completed, so the worker is not at work on it.
LEMMA DetachOwner ==
    ASSUME IInv, reclaim_detach
    PROVE  OwnerInv'
<1> USE DEF dispatcher_keeps, lists, effects, history
<1>1. /\ ChainInv /\ OwnerInv /\ ChainInv' /\ FreeList' = FreeList
      /\ IoList' \cup InHand' = IoList /\ IoList' \cap InHand' = {} /\ disp'.pc = "append"
      /\ \A x \in InHand' : reclaimable(x)
  BY DetachChain DEF IInv
<1>2. \A x \in Entries : SameWork(x)
  BY <1>1, DetachChain DEF SameWork
<1>3. /\ disp.pc = "reclaim" /\ disp'.pc \notin Filling /\ disp.pc \notin Filling
      /\ UNCHANGED <<wk, copied, posted, released, now, accepted, due>>
  BY <1>1 DEF reclaim_detach, Filling
<1>4. IoList \subseteq Entries /\ FreeList \subseteq Entries /\ InHand = {}
  BY <1>1, <1>3, Lists
<1>5. Owned' /\ NotYet' /\ CompletedOnce'
  <2>1. \A e \in IoList' : SameWork(e)
    BY <1>1, <1>2, <1>4
  <2> QED BY <1>1, <1>3, <2>1, OwnersKept
<1>6. Completed(InHand)'
  BY <1>1, <1>2, <1>4 DEF Completed, reclaimable, SameWork
<1>7. /\ wk.pc \in {"copy", "due", "mark"} =>
            wk.curr \in IoList' /\ ~ work_queue'[wk.curr].is_completed
      /\ wk.pc \in {"due", "mark"} => work_queue'[wk.curr].is_copied
  <2>1. ASSUME wk.pc \in {"copy", "due", "mark"}
        PROVE  wk.curr \in IoList' /\ ~ work_queue'[wk.curr].is_completed
    <3>1. wk.curr \in IoList /\ ~ work_queue[wk.curr].is_completed
      BY <1>1, <2>1 DEF OwnerInv, WorkerPlace
    <3>2. wk.curr \notin InHand'
      BY <1>1, <3>1 DEF reclaimable
    <3> QED BY <1>1, <1>2, <1>4, <3>1, <3>2 DEF SameWork
  <2>2. ASSUME wk.pc \in {"due", "mark"} PROVE work_queue'[wk.curr].is_copied
    <3>1. wk.curr \in IoList /\ work_queue[wk.curr].is_copied
      BY <1>1, <2>2 DEF OwnerInv, WorkerPlace
    <3> QED BY <1>2, <1>4, <3>1 DEF SameWork
  <2> QED BY <2>1, <2>2
<1>8. /\ links' \in Links /\ ChainFrom(wk.curr)' = Chain(links', wk.curr)
      /\ InHand' = Chain(links', disp'.entry) /\ disp'.entry \in Index
      /\ \A e \in Entries : links'[e] = work_queue'[e].next
  <2>1. work_queue' \in [Entries -> Work] /\ disp'.entry \in Index
    BY <1>1 DEF ChainInv, Types
  <2>2. ChainFrom(disp.entry)' = Chain(links', disp'.entry)
    BY <2>1, ListsAfter
  <2>3. InHand' = ChainFrom(disp.entry)'
    BY <1>1 DEF InHand
  <2> QED BY <1>3, <2>1, <2>2, <2>3, ListsAfter
<1>9. ASSUME wk.pc \in {"visit", "advance"}, wk.curr \notin IoList'
      PROVE  wk.curr \in Entries \ IoList' /\ Completed(ChainFrom(wk.curr))'
  <2>1. CASE wk.curr \in IoList
    <3>1. wk.curr \in InHand'
      BY <1>1, <1>9, <2>1
    <3>2. Chain(links', wk.curr) \subseteq InHand'
      BY <1>8, <3>1, Suffix
    <3> QED BY <1>4, <1>6, <1>8, <1>9, <2>1, <3>2 DEF Completed
  <2>2. CASE wk.curr \notin IoList
    <3>1. wk.curr \in Entries /\ Completed(ChainFrom(wk.curr))
      BY <1>1, <1>9, <2>2 DEF OwnerInv, WorkerPlace
    <3>2. wk.curr \in FreeList
      BY <1>1, <1>4, <2>2, <3>1 DEF ChainInv, Partition
    <3>3. /\ links \in Links /\ FreeList = Chain(links, free_seq) /\ free_seq \in Index
          /\ wk.curr \in Index
      BY <1>1, <3>1, Lists, NilApart DEF ChainInv, Types
    <3>4. ChainFrom(wk.curr) = Chain(links, wk.curr)
      BY ChainOfLinks DEF ChainFrom, links
    <3>5. Chain(links, wk.curr) \subseteq FreeList
      BY <3>2, <3>3, Suffix
    <3>6. \A x \in FreeList : work_queue'[x] = work_queue[x]
      <4>1. PICK last \in ChainFrom(io_seq) :
               work_queue' = [i \in Entries |->
                  IF i = last THEN [work_queue[i] EXCEPT !.next = NIL]
                  ELSE IF i = work_queue[last].next THEN [work_queue[i] EXCEPT !.prev = NIL]
                  ELSE work_queue[i]]
        BY DEF reclaim_detach
      <4>2. last \in IoList
        BY <4>1 DEF IoList
      <4>3. work_queue[last].next = NIL \/ work_queue[last].next \in IoList
        BY <1>1, <4>2, Behind
      <4>4. FreeList \cap IoList = {} /\ NIL \notin FreeList
        BY <1>1, <1>4, NilApart DEF ChainInv, Partition
      <4>5. \A x \in FreeList : x # last /\ x # work_queue[last].next
        BY <4>2, <4>3, <4>4
      <4> QED BY <1>4, <4>1, <4>5
    <3>7. \A e \in Entries : links[e] = work_queue[e].next
      BY DEF links
    <3>8. \A x \in Chain(links, wk.curr) : links'[x] = links[x]
      BY <1>4, <1>8, <3>5, <3>6, <3>7
    <3>9. Chain(links', wk.curr) = Chain(links, wk.curr)
      BY <1>8, <3>3, <3>8, SameChain
    <3>10. \A x \in Chain(links, wk.curr) : work_queue'[x].is_completed
      BY <3>1, <3>4, <3>5, <3>6 DEF Completed
    <3>11. Completed(ChainFrom(wk.curr))'
      BY <1>8, <3>9, <3>10 DEF Completed
    <3> QED BY <1>9, <3>1, <3>11
  <2> QED BY <2>1, <2>2
<1>10. WorkerPlace'
  BY <1>3, <1>6, <1>7, <1>9 DEF WorkerPlace
<1> QED BY <1>3, <1>5, <1>10 DEF OwnerInv, OwnedInHand

\* The free list grows by completed entries: a worker left behind on either finds
\* only completed ones.
LEMMA AppendOwner ==
    ASSUME IInv, reclaim_append
    PROVE  OwnerInv'
<1> USE DEF dispatcher_keeps, lists, effects, history
<1>1. /\ ChainInv /\ OwnerInv /\ ChainInv' /\ IoList' = IoList
      /\ FreeList' = FreeList \cup InHand /\ disp'.pc = "idle"
      /\ \A x \in FreeList : Chain(links', x) \subseteq Chain(links, x) \cup InHand
      /\ \A x \in InHand : Chain(links', x) \subseteq InHand
  BY AppendChain DEF IInv
<1>2. \A x \in Entries : SameWork(x)
  BY <1>1, AppendChain DEF SameWork
<1>3. /\ disp.pc = "append" /\ disp'.pc \notin Filling /\ disp.pc \notin Filling
      /\ UNCHANGED <<wk, copied, posted, released, now, accepted, due>>
  BY <1>1 DEF reclaim_append, Filling
<1>4. IoList \subseteq Entries /\ FreeList \subseteq Entries /\ InHand \subseteq Entries
  BY <1>1, Lists
<1>5. Owned' /\ NotYet' /\ CompletedOnce'
  <2>1. \A e \in IoList' : SameWork(e)
    BY <1>1, <1>2, <1>4
  <2> QED BY <1>1, <1>3, <2>1, OwnersKept
<1>6. /\ wk.pc \in {"copy", "due", "mark"} =>
            wk.curr \in IoList' /\ ~ work_queue'[wk.curr].is_completed
      /\ wk.pc \in {"due", "mark"} => work_queue'[wk.curr].is_copied
  <2>1. wk.pc \in {"copy", "due", "mark"} => SameWork(wk.curr)
    BY <1>1, <1>2, <1>4 DEF OwnerInv, WorkerPlace
  <2> QED BY <1>1, <2>1 DEF OwnerInv, WorkerPlace, SameWork
<1>7. links' \in Links /\ ChainFrom(wk.curr)' = Chain(links', wk.curr)
  BY <1>1, <1>3, ListsAfter DEF ChainInv, Types
<1>8. Completed(InHand)
  BY <1>1, <1>3 DEF OwnerInv, WorkerPlace
<1>9. ASSUME wk.pc \in {"visit", "advance"}, wk.curr \notin IoList'
      PROVE  wk.curr \in Entries \ IoList' /\ Completed(ChainFrom(wk.curr))'
  <2>1. wk.curr \in Entries \ IoList /\ Completed(ChainFrom(wk.curr))
    BY <1>1, <1>9 DEF OwnerInv, WorkerPlace
  <2>2. ChainFrom(wk.curr) = Chain(links, wk.curr)
    BY ChainOfLinks DEF ChainFrom, links
  <2>3. Chain(links', wk.curr) \subseteq Chain(links, wk.curr) \cup InHand
    BY <1>1, <2>1 DEF ChainInv, Partition
  <2>4. \A x \in Chain(links, wk.curr) \cup InHand :
           x \in Entries /\ work_queue[x].is_completed
    BY <1>4, <1>8, <2>1, <2>2 DEF Completed, Chain
  <2>5. \A x \in Chain(links', wk.curr) : work_queue'[x].is_completed
    BY <1>2, <2>3, <2>4 DEF SameWork
  <2> QED BY <1>1, <1>7, <2>1, <2>5 DEF Completed
<1>10. WorkerPlace'
  BY <1>1, <1>3, <1>6, <1>9 DEF WorkerPlace
<1> QED BY <1>3, <1>5, <1>10 DEF OwnerInv, OwnedInHand

(***************************************************************************)
(* Requests and their entries: the worker and the clock.                   *)
(***************************************************************************)
\* What stays when the worker or the clock moves.
LEMMA WorkerFacts ==
    ASSUME IInv, nvmev_io_worker \/ tick
    PROVE  /\ ChainInv /\ OwnerInv /\ ChainInv'
           /\ FreeList' = FreeList /\ IoList' = IoList /\ InHand' = InHand /\ links' = links
           /\ UNCHANGED <<disp, due, accepted>>
           /\ IoList \subseteq Entries /\ work_queue \in [Entries -> Work]
           /\ work_queue' \in [Entries -> Work]
           /\ wk \in [pc : {"sweep", "visit", "copy", "due", "mark", "advance"}, curr : Index,
                      nsecs : 0 .. now]
           /\ wk.pc # "sweep" => wk.curr \in Entries
           /\ disp.pc \in Filling => disp.entry \notin IoList
           /\ ChainFrom(wk.curr) = Chain(links, wk.curr)
           /\ ChainFrom(wk.curr)' = Chain(links, wk'.curr)
<1>1. ChainInv /\ OwnerInv /\ Types' /\ Aside
  BY WorkerAside DEF IInv
<1>2. /\ ChainInv' /\ FreeList' = FreeList /\ IoList' = IoList /\ InHand' = InHand
      /\ links' = links
  BY <1>1, AsideKeeps
<1>3. UNCHANGED <<disp, due, accepted>>
  BY <1>1 DEF Aside
<1>4. disp.pc \in Filling => disp.entry \notin IoList
  BY HandFacts
<1>5. ChainFrom(wk.curr) = Chain(links, wk.curr)
  BY ChainOfLinks DEF ChainFrom, links
<1>6. ChainFrom(wk.curr)' = Chain(links, wk'.curr)
  BY <1>1, <1>2, ListsAfter DEF Types
<1>7. IoList \subseteq Entries
  BY <1>1, Lists
<1>8. /\ work_queue \in [Entries -> Work] /\ work_queue' \in [Entries -> Work]
      /\ wk \in [pc : {"sweep", "visit", "copy", "due", "mark", "advance"}, curr : Index,
                 nsecs : 0 .. now]
      /\ wk.pc # "sweep" => wk.curr \in Entries
  BY <1>1 DEF ChainInv, Types
<1> QED BY <1>1, <1>2, <1>3, <1>4, <1>5, <1>6, <1>7, <1>8

\* A step that completes nothing and marks nothing leaves the owners alone.
LEMMA QuietWorker ==
    ASSUME IInv, nvmev_io_worker \/ tick, UNCHANGED <<work_queue, copied, posted, released>>,
           wk.pc # "mark" \/ UNCHANGED wk, now' >= now
    PROVE  Owned' /\ OwnedInHand' /\ NotYet' /\ CompletedOnce'
<1>1. /\ ChainInv /\ OwnerInv /\ IoList' = IoList
      /\ UNCHANGED <<disp, due, accepted>>
  BY WorkerFacts
<1>2. \A r : Done(r)' = Done(r)
  BY DEF Done
<1>3. \A e : owner(e)' = owner(e)
  BY DEF owner
<1>4. Owned'
  BY <1>1, <1>3 DEF OwnerInv, Owned
<1>5. OwnedInHand'
  <2>1. Done(disp.req)' = Done(disp.req) /\ owner(disp.entry)' = owner(disp.entry)
    BY <1>1 DEF Done, owner
  <2> QED BY <1>1, <1>3, <2>1 DEF OwnerInv, OwnedInHand
<1>6. NotYet'
  <2>1. ASSUME NEW e \in IoList', ~ work_queue'[e].is_completed, ~ Begun(e)'
        PROVE  Done(owner(e))' = 0
    <3>1. ~ Begun(e)
      BY <2>1 DEF Begun
    <3>2. Done(owner(e)) = 0
      BY <1>1, <2>1, <3>1 DEF OwnerInv, NotYet
    <3> QED BY <3>2 DEF Done, owner
  <2>2. \A r \in Reqs \ accepted' : Done(r)' = 0
    BY <1>1, <1>2 DEF OwnerInv, NotYet
  <2> QED BY <2>1, <2>2 DEF NotYet
<1>7. CompletedOnce'
  <2>1. \A r \in Reqs : due'[r] = due[r] /\ due[r] \in Int
    BY <1>1 DEF ChainInv, Types, Times
  <2>2. now \in Int /\ now' \in Int
    BY <1>1, WorkerFacts DEF ChainInv, Types, Times
  <2>3. \A r \in Reqs : due[r] <= now => due'[r] <= now'
    BY <2>1, <2>2
  <2> QED BY <2>3 DEF IInv, OwnerInv, CompletedOnce
<1> QED BY <1>4, <1>5, <1>6, <1>7

\* A sweep, a visit and a step on: the worker is on the list or left behind where
\* all is completed.
LEMMA MoveOwner ==
    ASSUME IInv, start_sweep \/ visit \/ not_yet_due \/ advance \/ tick
    PROVE  OwnerInv'
<1> USE DEF worker_keeps, lists, history, effects
<1>0. nvmev_io_worker \/ tick
  BY DEF nvmev_io_worker
<1>1. /\ ChainInv /\ OwnerInv /\ ChainInv'
      /\ IoList' = IoList /\ InHand' = InHand /\ UNCHANGED disp
      /\ IoList \subseteq Entries /\ work_queue \in [Entries -> Work]
      /\ wk \in [pc : {"sweep", "visit", "copy", "due", "mark", "advance"}, curr : Index,
                 nsecs : 0 .. now]
      /\ wk.pc # "sweep" => wk.curr \in Entries
      /\ disp.pc \in Filling => disp.entry \notin IoList
      /\ ChainFrom(wk.curr) = Chain(links, wk.curr)
      /\ ChainFrom(wk.curr)' = Chain(links, wk'.curr)
  BY <1>0, WorkerFacts
<1>2. UNCHANGED <<work_queue, copied, posted, released>>
  BY DEF start_sweep, visit, not_yet_due, advance, tick
<1>3. now \in Int /\ now' >= now
  BY <1>1 DEF start_sweep, visit, not_yet_due, advance, tick, ChainInv, Types, Times
<1>4. wk.pc # "mark" \/ UNCHANGED wk
  BY DEF start_sweep, visit, not_yet_due, advance, tick
<1>5. Owned' /\ OwnedInHand' /\ NotYet' /\ CompletedOnce'
  BY <1>0, <1>2, <1>3, <1>4, QuietWorker
<1>6. disp'.pc = "append" => Completed(InHand)'
  BY <1>1, <1>2 DEF OwnerInv, WorkerPlace, Completed
<1>7. CASE start_sweep
  <2>1. wk'.pc = "visit" /\ wk'.curr = io_seq /\ io_seq \in IoList
    BY <1>1, <1>7, Lists DEF start_sweep
  <2> QED BY <1>1, <1>5, <1>6, <2>1 DEF OwnerInv, WorkerPlace
<1>8. CASE visit
  <2>1. wk.pc = "visit" /\ wk'.curr = wk.curr /\ wk.curr \in Entries
    BY <1>1, <1>8 DEF visit
  <2>2. wk'.pc = IF work_queue[wk.curr].is_completed THEN "advance" ELSE "copy"
    BY <1>1, <1>8 DEF visit, w
  <2>3. CASE wk.curr \in IoList
    BY <1>1, <1>2, <1>5, <1>6, <2>1, <2>2, <2>3 DEF OwnerInv, WorkerPlace
  <2>4. CASE wk.curr \notin IoList
    <3>1. Completed(ChainFrom(wk.curr)) /\ (disp.pc \in Filling => wk.curr # disp.entry)
      BY <1>1, <2>1, <2>4 DEF OwnerInv, WorkerPlace
    <3>2. links \in Links /\ wk.curr \in Index
      BY <1>1, <2>1, Lists, NilApart
    <3>3. wk.curr \in Chain(links, wk.curr)
      BY <2>1, <3>2, Least
    <3>4. work_queue[wk.curr].is_completed
      BY <1>1, <3>1, <3>3 DEF Completed
    <3>5. wk'.pc = "advance"
      BY <2>2, <3>4
    <3>6. Completed(ChainFrom(wk.curr))'
      BY <1>1, <1>2, <2>1, <3>1 DEF Completed
    <3> QED BY <1>1, <1>5, <1>6, <2>1, <2>4, <3>1, <3>5, <3>6 DEF OwnerInv, WorkerPlace
  <2> QED BY <2>3, <2>4
<1>9. CASE not_yet_due
  <2>1. wk.pc = "due" /\ wk'.pc = "advance" /\ wk'.curr = wk.curr
    BY <1>1, <1>9 DEF not_yet_due
  <2>2. wk.curr \in IoList
    BY <1>1, <2>1 DEF OwnerInv, WorkerPlace
  <2> QED BY <1>1, <1>5, <1>6, <2>1, <2>2 DEF OwnerInv, WorkerPlace
<1>10. CASE advance
  <2> DEFINE n == work_queue[wk.curr].next
  <2>1. /\ wk.pc = "advance" /\ wk.curr \in Entries /\ wk'.curr = n
        /\ wk'.pc = IF n = NIL THEN "sweep" ELSE "visit"
    BY <1>1, <1>10 DEF advance, w
  <2>2. CASE n = NIL
    BY <1>1, <1>5, <1>6, <2>1, <2>2 DEF OwnerInv, WorkerPlace
  <2>3. CASE n # NIL /\ wk.curr \in IoList
    <3>1. n \in IoList
      BY <1>1, <2>3, Behind
    <3> QED BY <1>1, <1>5, <1>6, <2>1, <2>3, <3>1 DEF OwnerInv, WorkerPlace
  <2>4. CASE n # NIL /\ wk.curr \notin IoList
    <3>1. Completed(ChainFrom(wk.curr)) /\ (disp.pc \in Filling => wk.curr # disp.entry)
      BY <1>1, <2>1, <2>4 DEF OwnerInv, WorkerPlace
    <3>2. links \in Links /\ wk.curr \in Index /\ links[wk.curr] = n /\ n \in Entries /\ n \in Index
      BY <1>1, <2>1, <2>4, Lists, Fields, NilApart
    <3>3. Chain(links, wk.curr) = {wk.curr} \cup Chain(links, n)
      BY <2>1, <3>2, Unfold
    <3> HIDE DEF n
    <3>4. \A x \in Chain(links, n) : work_queue'[x].is_completed
      BY <1>1, <1>2, <3>1, <3>3 DEF Completed
    <3>5. Completed(ChainFrom(wk.curr))'
      BY <1>1, <2>1, <3>4 DEF Completed
    <3>6. n \in FreeList \cup InHand /\ (disp.pc \in Filling => n \in FreeList)
      <4>1. /\ FreeList = Chain(links, free_seq) /\ free_seq \in Index
            /\ (disp.pc \in Filling => InHand = {disp.entry})
            /\ (disp.pc = "append" => InHand = Chain(links, disp.entry) /\ disp.entry \in Index)
            /\ (disp.pc \in {"idle", "reclaim"} => InHand = {})
            /\ disp.pc \in Filling \cup {"idle", "reclaim", "append"}
        BY <1>1, Lists, NilApart DEF ChainInv, Types
      <4>2. wk.curr \in FreeList \cup InHand
        BY <1>1, <2>1, <2>4 DEF ChainInv, Partition
      <4>3. CASE wk.curr \in FreeList
        BY <2>4, <3>2, <4>1, <4>3, Least DEF n
      <4>4. CASE wk.curr \in InHand
        <5>1. disp.pc = "append"
          BY <3>1, <4>1, <4>4
        <5>2. n \in InHand
          BY <2>4, <3>2, <4>1, <4>4, <5>1, Least DEF n
        <5> QED BY <5>1, <5>2 DEF Filling
      <4> QED BY <4>2, <4>3, <4>4
    <3>7. n \notin IoList /\ (disp.pc \in Filling => n # disp.entry)
      <4>1. FreeList \cap IoList = {} /\ IoList \cap InHand = {} /\ FreeList \cap InHand = {}
        BY <1>1 DEF ChainInv, Partition
      <4>2. disp.pc \in Filling => InHand = {disp.entry}
        BY <1>1, Lists
      <4> QED BY <3>6, <4>1, <4>2
    <3> QED BY <1>1, <1>5, <1>6, <2>1, <2>4, <3>2, <3>5, <3>7 DEF OwnerInv, WorkerPlace
  <2> QED BY <2>2, <2>3, <2>4
<1>11. CASE tick
  <2>1. wk' = wk
    BY <1>11 DEF tick
  <2>2. Completed(ChainFrom(wk.curr)) => Completed(ChainFrom(wk.curr))'
    BY <1>1, <1>2, <2>1 DEF Completed
  <2> QED BY <1>1, <1>2, <1>5, <1>6, <2>1, <2>2 DEF OwnerInv, WorkerPlace
<1> QED BY <1>7, <1>8, <1>9, <1>10, <1>11

\* The data of the request is copied; the entry is still its own.
LEMMA CopyOwner ==
    ASSUME IInv, copy
    PROVE  OwnerInv'
<1> USE DEF worker_keeps, lists, history, effects
<1>0. nvmev_io_worker \/ tick
  BY DEF nvmev_io_worker
<1> DEFINE c == wk.curr
<1>1. /\ ChainInv /\ OwnerInv /\ ChainInv'
      /\ IoList' = IoList /\ InHand' = InHand /\ UNCHANGED <<disp, due, accepted>>
      /\ IoList \subseteq Entries /\ work_queue \in [Entries -> Work]
      /\ wk \in [pc : {"sweep", "visit", "copy", "due", "mark", "advance"}, curr : Index,
                 nsecs : 0 .. now]
      /\ disp.pc \in Filling => disp.entry \notin IoList
  BY <1>0, WorkerFacts
<1>2. wk.pc = "copy" /\ wk'.pc = "due" /\ wk'.curr = c /\ UNCHANGED <<now, posted, released>>
  BY <1>1 DEF copy
<1>3. c \in IoList /\ c \in Entries /\ ~ work_queue[c].is_completed
  BY <1>1, <1>2 DEF OwnerInv, WorkerPlace
<1>4. /\ work_queue'[c] = [work_queue[c] EXCEPT !.is_copied = TRUE]
      /\ \A x \in Entries \ {c} : work_queue'[x] = work_queue[x]
  BY <1>1, <1>3 DEF copy
<1>5. /\ work_queue'[c].is_copied
      /\ work_queue'[c].is_completed = work_queue[c].is_completed
      /\ work_queue'[c].is_internal = work_queue[c].is_internal
      /\ work_queue'[c].req = work_queue[c].req /\ work_queue'[c].buf = work_queue[c].buf
      /\ work_queue'[c].nsecs_target = work_queue[c].nsecs_target
  <2>1. work_queue[c] \in Work
    BY <1>1, <1>3
  <2> QED BY <1>4, <2>1 DEF Work
<1>6. \A x \in Entries : /\ owner(x)' = owner(x)
                         /\ work_queue'[x].nsecs_target = work_queue[x].nsecs_target
                         /\ work_queue'[x].is_completed = work_queue[x].is_completed
  BY <1>4, <1>5 DEF owner
<1>7. \A r : Done(r)' = Done(r)
  BY <1>2 DEF Done
<1>8. /\ copied \subseteq copied'
      /\ ~ work_queue[c].is_copied /\ ~ work_queue[c].is_internal => owner(c) \in copied'
  BY DEF copy, w, owner
<1>9. Owned'
  <2>1. ASSUME NEW e \in IoList
        PROVE  work_queue'[e].is_copied /\ ~ work_queue'[e].is_internal => owner(e) \in copied'
    <3>1. CASE e = c
      BY <1>1, <1>3, <1>5, <1>8, <3>1 DEF OwnerInv, Owned
    <3>2. CASE e # c
      BY <1>1, <1>4, <1>8, <3>2 DEF OwnerInv, Owned
    <3> QED BY <3>1, <3>2
  <2>2. \A e \in IoList : owner(e) \in accepted /\ work_queue[e].nsecs_target = due[owner(e)]
    BY <1>1 DEF OwnerInv, Owned
  <2>3. \A e, x \in IoList : owner(e) = owner(x) => e = x
    BY <1>1 DEF OwnerInv, Owned
  <2>4. \A e \in IoList : /\ owner(e)' = owner(e) /\ e \in Entries
                          /\ work_queue'[e].nsecs_target = work_queue[e].nsecs_target
    BY <1>1, <1>6
  <2>5. ASSUME NEW e \in IoList'
        PROVE  /\ owner(e)' \in accepted' /\ work_queue'[e].nsecs_target = due'[owner(e)']
               /\ work_queue'[e].is_copied /\ ~ work_queue'[e].is_internal =>
                     owner(e)' \in copied'
    BY <1>1, <2>1, <2>2, <2>4
  <2>6. \A e, x \in IoList' : owner(e)' = owner(x)' => e = x
    BY <1>1, <2>3, <2>4
  <2> QED BY <2>5, <2>6 DEF Owned
<1>10. OwnedInHand'
  <2>1. disp.pc \in Filling => work_queue'[disp.entry] = work_queue[disp.entry]
    BY <1>1, <1>3, <1>4, HandFacts
  <2>2. disp.pc \in Filling => owner(disp.entry)' = owner(disp.entry)
    BY <1>1, <2>1 DEF owner
  <2>3. Done(disp.req)' = Done(disp.req)
    BY <1>1, <1>2 DEF Done
  <2>4. \A e \in IoList' : owner(e)' = owner(e)
    BY <1>1, <1>6
  <2> QED BY <1>1, <2>1, <2>2, <2>3, <2>4 DEF OwnerInv, OwnedInHand, Linking, Filling
<1>11. NotYet'
  <2>1. ASSUME NEW e \in IoList', ~ work_queue'[e].is_completed
        PROVE  Done(owner(e))' = 0
    <3>1. ~ work_queue[e].is_completed /\ ~ Begun(e) /\ owner(e)' = owner(e)
      BY <1>1, <1>2, <1>6, <2>1 DEF Begun
    <3>2. Done(owner(e)) = 0
      BY <1>1, <3>1 DEF OwnerInv, NotYet
    <3> QED BY <1>2, <3>1, <3>2 DEF Done
  <2>2. \A r \in Reqs \ accepted' : Done(r)' = 0
    BY <1>1, <1>7 DEF OwnerInv, NotYet
  <2> QED BY <2>1, <2>2 DEF NotYet
<1>12. CompletedOnce'
  BY <1>1, <1>2, <1>8 DEF OwnerInv, CompletedOnce
<1>13. WorkerPlace'
  <2>1. disp'.pc = "append" => Completed(InHand)'
    BY <1>1, <1>6, Lists DEF OwnerInv, WorkerPlace, Completed
  <2> QED BY <1>1, <1>2, <1>3, <1>5, <2>1 DEF WorkerPlace
<1> QED BY <1>9, <1>10, <1>11, <1>12, <1>13 DEF OwnerInv

\* buffer_release() or __fill_cq_result() runs for a request it never ran for.
LEMMA CompleteOwner ==
    ASSUME IInv, complete
    PROVE  OwnerInv'
<1> USE DEF worker_keeps, lists, history, effects
<1>0. nvmev_io_worker \/ tick
  BY DEF nvmev_io_worker
<1> DEFINE c == wk.curr
           o == owner(c)
<1>1. /\ ChainInv /\ OwnerInv /\ ChainInv'
      /\ IoList' = IoList /\ InHand' = InHand /\ UNCHANGED <<disp, due, accepted>>
      /\ IoList \subseteq Entries /\ work_queue \in [Entries -> Work]
      /\ wk \in [pc : {"sweep", "visit", "copy", "due", "mark", "advance"}, curr : Index,
                 nsecs : 0 .. now]
  BY <1>0, WorkerFacts
<1>2. /\ wk.pc = "due" /\ wk'.pc = "mark" /\ wk'.curr = c
      /\ UNCHANGED <<work_queue, now, copied>>
  BY <1>1 DEF complete
<1>3. c \in IoList /\ c \in Entries /\ ~ work_queue[c].is_completed /\ work_queue[c].is_copied
  BY <1>1, <1>2 DEF OwnerInv, WorkerPlace
<1>4. /\ o \in accepted /\ work_queue[c].nsecs_target = due[o]
      /\ ~ work_queue[c].is_internal => o \in copied
      /\ \A x \in IoList : owner(x) = o => x = c
  BY <1>1, <1>3 DEF OwnerInv, Owned
<1>5. Done(o) = 0
  BY <1>1, <1>2, <1>3 DEF OwnerInv, NotYet, Begun
<1>6. /\ posted \in [0 .. MaxReqs -> Nat] /\ released \in [0 .. MaxReqs -> Nat]
      /\ accepted \subseteq Reqs /\ Reqs \subseteq 0 .. MaxReqs /\ 0 \in 0 .. MaxReqs
      /\ 0 \notin Reqs
  <2>1. /\ posted \in [0 .. MaxReqs -> Nat] /\ released \in [0 .. MaxReqs -> Nat]
        /\ accepted \subseteq Reqs
    BY <1>1 DEF ChainInv, Types
  <2>2. Reqs \subseteq 0 .. MaxReqs /\ 0 \in 0 .. MaxReqs /\ 0 \notin Reqs
    BY SizeAssumption DEF Reqs
  <2> QED BY <2>1, <2>2
<1>7. due[o] <= now
  <2>1. w.nsecs_target <= wk.nsecs /\ w.nsecs_target = due[o]
    BY <1>4 DEF complete, w
  <2>2. due[o] \in Times /\ wk.nsecs \in 0 .. now /\ now \in Times
    <3>1. o \in Reqs /\ due \in [Reqs -> Times]
      BY <1>1, <1>4, <1>6 DEF ChainInv, Types
    <3> HIDE DEF o
    <3> QED BY <1>1, <3>1 DEF ChainInv, Types
  <2>3. Times \subseteq Int
    BY SizeAssumption DEF Times
  <2> HIDE DEF o
  <2>4. due[o] <= wk.nsecs
    BY <2>1
  <2>5. due[o] \in Int /\ now \in Int
    BY <2>2, <2>3
  <2>6. wk.nsecs \in Int /\ wk.nsecs <= now
    BY <2>2, <2>5
  <2> QED BY <2>4, <2>5, <2>6
<1>8. /\ \/ work_queue[c].is_internal /\ posted' = posted /\ released' = [released EXCEPT ![o] = @ + 1]
         \/ ~ work_queue[c].is_internal /\ posted' = [posted EXCEPT ![o] = @ + 1] /\ released' = released
  BY DEF complete, w, owner
<1> HIDE DEF o
<1>9. /\ o \in 0 .. MaxReqs /\ o # 0
      /\ \A r \in (0 .. MaxReqs) \ {o} : posted'[r] = posted[r] /\ released'[r] = released[r]
  BY <1>4, <1>6, <1>8
<1>10. /\ posted'[o] + released'[o] = 1
       /\ posted'[o] > 0 => o \in copied
  <2>1. posted[o] = 0 /\ released[o] = 0
    <3>1. posted[o] \in Nat /\ released[o] \in Nat /\ posted[o] + released[o] = 0
      BY <1>5, <1>6, <1>9 DEF Done
    <3> QED BY <3>1
  <2>2. CASE work_queue[c].is_internal
    <3>1. released' = [released EXCEPT ![o] = @ + 1] /\ posted' = posted
      BY <1>8, <2>2
    <3>2. released'[o] = 1 /\ posted'[o] = 0
      BY <1>6, <1>9, <2>1, <3>1
    <3> QED BY <3>2
  <2>3. CASE ~ work_queue[c].is_internal
    <3>1. posted' = [posted EXCEPT ![o] = @ + 1] /\ released' = released
      BY <1>8, <2>3
    <3>2. posted'[o] = 1 /\ released'[o] = 0
      BY <1>6, <1>9, <2>1, <3>1
    <3> QED BY <1>4, <2>3, <3>2
  <2> QED BY <2>2, <2>3
<1>11. \A r \in (0 .. MaxReqs) \ {o} : Done(r)' = Done(r)
  BY <1>9 DEF Done
<1>12. \A e : owner(e)' = owner(e)
  BY <1>2 DEF owner
<1>13. Owned'
  BY <1>1, <1>2, <1>12 DEF OwnerInv, Owned
<1>14. OwnedInHand'
  <2>1. ASSUME disp.pc \in Filling PROVE Done(disp.req)' = 0
    <3>1. disp.req \in accepted /\ Done(disp.req) = 0 /\ disp.req # o
      BY <1>1, <1>3, <2>1 DEF OwnerInv, OwnedInHand, o
    <3>2. disp.req \in (0 .. MaxReqs) \ {o}
      BY <1>6, <3>1
    <3> QED BY <1>1, <1>9, <3>1, <3>2 DEF Done
  <2>2. owner(disp.entry)' = owner(disp.entry)
    BY <1>1, <1>2 DEF owner
  <2> QED BY <1>1, <1>2, <1>12, <2>1, <2>2 DEF OwnerInv, OwnedInHand
<1>15. NotYet'
  <2>1. ASSUME NEW e \in IoList', ~ work_queue'[e].is_completed, ~ Begun(e)'
        PROVE  Done(owner(e))' = 0
    <3>1. e # c /\ e \in IoList /\ ~ work_queue[e].is_completed /\ ~ Begun(e)
      BY <1>1, <1>2, <2>1 DEF Begun
    <3>2. Done(owner(e)) = 0 /\ owner(e) # o /\ owner(e) \in accepted
      BY <1>1, <1>4, <3>1 DEF OwnerInv, NotYet, Owned, o
    <3>3. owner(e) \in (0 .. MaxReqs) \ {o} /\ owner(e)' = owner(e)
      BY <1>6, <1>12, <3>2
    <3> QED BY <1>9, <3>2, <3>3 DEF Done
  <2>2. ASSUME NEW r \in Reqs \ accepted' PROVE Done(r)' = 0
    <3>1. r \in (0 .. MaxReqs) \ {o} /\ Done(r) = 0
      BY <1>1, <1>4, <1>6 DEF OwnerInv, NotYet
    <3> QED BY <1>11, <3>1
  <2> QED BY <2>1, <2>2 DEF NotYet
<1>16. CompletedOnce'
  <2>1. posted'[0] = 0 /\ released'[0] = 0
    BY <1>1, <1>6, <1>9 DEF OwnerInv, CompletedOnce
  <2>2. ASSUME NEW r \in Reqs
        PROVE  /\ posted'[r] + released'[r] <= 1
               /\ posted'[r] + released'[r] > 0 => due'[r] <= now'
               /\ posted'[r] > 0 => r \in copied'
    <3>1. CASE r = o
      BY <1>1, <1>2, <1>7, <1>10, <3>1
    <3>2. CASE r # o
      <4>1. posted'[r] = posted[r] /\ released'[r] = released[r]
        BY <1>6, <1>9, <3>2
      <4> QED BY <1>1, <1>2, <4>1 DEF OwnerInv, CompletedOnce
    <3> QED BY <3>1, <3>2
  <2> QED BY <2>1, <2>2 DEF CompletedOnce
<1>17. WorkerPlace'
  <2>1. disp'.pc = "append" => Completed(InHand)'
    BY <1>1, <1>2 DEF OwnerInv, WorkerPlace, Completed
  <2> QED BY <1>1, <1>2, <1>3, <2>1 DEF WorkerPlace
<1> QED BY <1>13, <1>14, <1>15, <1>16, <1>17 DEF OwnerInv

\* The entry is marked: its owner was completed in the step before.
LEMMA MarkOwner ==
    ASSUME IInv, mark_completed
    PROVE  OwnerInv'
<1> USE DEF worker_keeps, lists, history, effects
<1>0. nvmev_io_worker \/ tick
  BY DEF nvmev_io_worker
<1> DEFINE c == wk.curr
<1>1. /\ ChainInv /\ OwnerInv /\ ChainInv'
      /\ IoList' = IoList /\ InHand' = InHand /\ UNCHANGED <<disp, due, accepted>>
      /\ IoList \subseteq Entries /\ work_queue \in [Entries -> Work]
      /\ wk \in [pc : {"sweep", "visit", "copy", "due", "mark", "advance"}, curr : Index,
                 nsecs : 0 .. now]
      /\ disp.pc \in Filling => disp.entry \notin IoList
  BY <1>0, WorkerFacts
<1>2. /\ wk.pc = "mark" /\ wk'.pc = "advance" /\ wk'.curr = c
      /\ UNCHANGED <<now, posted, released, copied>>
  BY <1>1 DEF mark_completed
<1>3. c \in IoList /\ c \in Entries
  BY <1>1, <1>2 DEF OwnerInv, WorkerPlace
<1>4. /\ work_queue'[c] = [work_queue[c] EXCEPT !.is_completed = TRUE]
      /\ \A x \in Entries \ {c} : work_queue'[x] = work_queue[x]
  BY <1>1, <1>3 DEF mark_completed
<1>5. /\ work_queue'[c].is_completed
      /\ work_queue'[c].is_copied = work_queue[c].is_copied
      /\ work_queue'[c].is_internal = work_queue[c].is_internal
      /\ work_queue'[c].req = work_queue[c].req /\ work_queue'[c].buf = work_queue[c].buf
      /\ work_queue'[c].nsecs_target = work_queue[c].nsecs_target
  <2>1. work_queue[c] \in Work
    BY <1>1, <1>3
  <2> QED BY <1>4, <2>1 DEF Work
<1>6. \A x \in Entries : /\ owner(x)' = owner(x)
                         /\ work_queue'[x].nsecs_target = work_queue[x].nsecs_target
                         /\ work_queue'[x].is_copied = work_queue[x].is_copied
                         /\ work_queue'[x].is_internal = work_queue[x].is_internal
                         /\ work_queue[x].is_completed => work_queue'[x].is_completed
  BY <1>4, <1>5 DEF owner
<1>7. \A r : Done(r)' = Done(r)
  BY <1>2 DEF Done
<1>8. Owned'
  <2>1. \A e \in IoList : /\ owner(e) \in accepted /\ work_queue[e].nsecs_target = due[owner(e)]
                          /\ work_queue[e].is_copied /\ ~ work_queue[e].is_internal =>
                                owner(e) \in copied
    BY <1>1 DEF OwnerInv, Owned
  <2>2. \A e, x \in IoList : owner(e) = owner(x) => e = x
    BY <1>1 DEF OwnerInv, Owned
  <2>3. \A e \in IoList : /\ owner(e)' = owner(e)
                          /\ work_queue'[e].nsecs_target = work_queue[e].nsecs_target
                          /\ work_queue'[e].is_copied = work_queue[e].is_copied
                          /\ work_queue'[e].is_internal = work_queue[e].is_internal
    BY <1>1, <1>6
  <2>4. ASSUME NEW e \in IoList'
        PROVE  /\ owner(e)' \in accepted' /\ work_queue'[e].nsecs_target = due'[owner(e)']
               /\ work_queue'[e].is_copied /\ ~ work_queue'[e].is_internal =>
                     owner(e)' \in copied'
    BY <1>1, <1>2, <2>1, <2>3
  <2>5. \A e, x \in IoList' : owner(e)' = owner(x)' => e = x
    BY <1>1, <2>2, <2>3
  <2> QED BY <2>4, <2>5 DEF Owned
<1>9. OwnedInHand'
  <2>1. disp.pc \in Filling => work_queue'[disp.entry] = work_queue[disp.entry]
    BY <1>1, <1>3, <1>4, HandFacts
  <2>2. disp.pc \in Filling => owner(disp.entry)' = owner(disp.entry)
    BY <1>1, <2>1 DEF owner
  <2>3. Done(disp.req)' = Done(disp.req)
    BY <1>1, <1>2 DEF Done
  <2>4. \A e \in IoList' : owner(e)' = owner(e)
    BY <1>1, <1>6
  <2> QED BY <1>1, <2>1, <2>2, <2>3, <2>4 DEF OwnerInv, OwnedInHand, Linking, Filling
<1>10. NotYet'
  <2>1. ASSUME NEW e \in IoList', ~ work_queue'[e].is_completed
        PROVE  Done(owner(e))' = 0
    <3>1. e # c /\ e \in Entries
      BY <1>1, <1>5, <2>1
    <3>2. ~ work_queue[e].is_completed /\ ~ Begun(e) /\ owner(e)' = owner(e)
      BY <1>4, <1>6, <2>1, <3>1 DEF Begun
    <3>3. Done(owner(e)) = 0
      BY <1>1, <3>2 DEF OwnerInv, NotYet
    <3> QED BY <1>2, <3>2, <3>3 DEF Done
  <2>2. \A r \in Reqs \ accepted' : Done(r)' = 0
    BY <1>1, <1>7 DEF OwnerInv, NotYet
  <2> QED BY <2>1, <2>2 DEF NotYet
<1>11. CompletedOnce'
  BY <1>1, <1>2 DEF OwnerInv, CompletedOnce
<1>12. WorkerPlace'
  <2>1. disp'.pc = "append" => Completed(InHand)'
    BY <1>1, <1>6, Lists DEF OwnerInv, WorkerPlace, Completed
  <2> QED BY <1>1, <1>2, <1>3, <2>1 DEF WorkerPlace
<1> QED BY <1>8, <1>9, <1>10, <1>11, <1>12 DEF OwnerInv

(***************************************************************************)
(* Completion, when the worker is prompt.                                  *)
(***************************************************************************)
\* At the start no request was made and none is completed.
LEMMA StartOwner ==
    ASSUME Init
    PROVE  IInv
<1>1. ChainInv /\ IoList = {}
  BY InitChains
<1>2. /\ disp.pc = "idle" /\ disp.pc \notin Filling /\ wk.pc = "sweep" /\ accepted = {}
      /\ posted = [r \in 0 .. MaxReqs |-> 0] /\ released = [r \in 0 .. MaxReqs |-> 0]
      /\ 0 \in 0 .. MaxReqs /\ Reqs \subseteq 0 .. MaxReqs
  BY SizeAssumption DEF Init, Filling, Reqs
<1>3. posted[0] = 0 /\ released[0] = 0 /\ \A r \in Reqs : posted[r] = 0 /\ released[r] = 0
  BY <1>2
<1>4. Owned /\ OwnedInHand /\ WorkerPlace
  BY <1>1, <1>2 DEF Owned, OwnedInHand, WorkerPlace
<1>5. NotYet /\ CompletedOnce
  BY <1>1, <1>3 DEF NotYet, CompletedOnce, Done
<1> QED BY <1>1, <1>4, <1>5 DEF IInv, OwnerInv

\* With a prompt worker every step keeps each entry with its request.
LEMMA StepOwner ==
    ASSUME PromptWorker, IInv, [Next]_vars
    PROVE  IInv'
<1>0. ChainInv'
  BY StepChain DEF IInv
<1>1. CASE Submit
  <2>1. PICK internal \in BOOLEAN :
           \/ \E target \in now .. MaxTime : allocate(internal, target)
           \/ drop(internal)
    BY <1>1 DEF Submit
  <2>2. now .. MaxTime \subseteq Times
    BY SizeAssumption DEF IInv, ChainInv, Types, Times
  <2>3. OwnerInv'
    BY <2>1, <2>2, AllocateOwner, DropOwner
  <2> QED BY <1>0, <2>3 DEF IInv
<1>2. CASE Dispatcher
  <2>1. OwnerInv'
    BY <1>2, InitOwner, SearchOwner, InsertOwner, NothingOwner, DetachOwner, AppendOwner
       DEF Dispatcher
  <2> QED BY <1>0, <2>1 DEF IInv
<1>3. CASE nvmev_io_worker \/ tick
  <2>1. OwnerInv'
    BY <1>3, MoveOwner, CopyOwner, CompleteOwner, MarkOwner DEF nvmev_io_worker
  <2> QED BY <1>0, <2>1 DEF IInv
<1>4. CASE UNCHANGED vars
  <2>1. UNCHANGED <<work_queue, free_seq, io_seq, disp, wk, due, accepted, copied, posted,
                    released, now>>
    BY <1>4 DEF vars, lists, history, effects
  <2>2. IoList' = IoList /\ InHand' = InHand /\ ChainFrom(wk.curr)' = ChainFrom(wk.curr)
    BY <2>1 DEF IoList, InHand, ChainFrom
  <2>3. Owned' /\ OwnedInHand' /\ NotYet' /\ CompletedOnce'
    BY <2>1, <2>2 DEF IInv, OwnerInv, Owned, OwnedInHand, NotYet, CompletedOnce, owner, Done, Begun
  <2>4. WorkerPlace'
    BY <2>1, <2>2 DEF IInv, OwnerInv, WorkerPlace, Completed
  <2> QED BY <1>0, <2>3, <2>4 DEF IInv, OwnerInv
<1> QED BY <1>1, <1>2, <1>3, <1>4 DEF Next

\* When the worker leaves an entry before the dispatcher has cycled through all the
\* others, __fill_cq_result() or buffer_release() runs at most once for each request,
\* never for one that was not made, never before its nsecs_target and only after its
\* data was copied.
THEOREM RequestsCompletedOnce ==
    ASSUME PromptWorker
    PROVE  Spec => []CompletedOnce
<1>1. Init => IInv
  BY StartOwner
<1>2. IInv /\ [Next]_vars => IInv'
  BY StepOwner
<1>3. IInv => CompletedOnce
  BY DEF IInv, OwnerInv
<1> QED BY <1>1, <1>2, <1>3, PTL DEF Spec

\* "IO worker shall see the updated w at once": true of a prompt worker, which never
\* is at work on an entry that __enqueue_io_req() or schedule_internal_operation() is
\* still filling in.
THEOREM PromptSeesUpdates ==
    ASSUME PromptWorker
    PROVE  Spec => []UpdatedAtOnce
<1>1. Init => IInv
  BY StartOwner
<1>2. IInv /\ [Next]_vars => IInv'
  BY StepOwner
<1>3. IInv => UpdatedAtOnce
  <2> SUFFICES ASSUME IInv, disp.pc \in {"init", "init_copied", "init_internal"},
                      wk.pc \in {"copy", "due", "mark"}
               PROVE  wk.curr # disp.entry
    BY DEF UpdatedAtOnce
  <2>1. wk.curr \in IoList
    BY DEF IInv, OwnerInv, WorkerPlace
  <2>2. disp.entry \notin IoList
    BY HandFacts DEF Filling
  <2> QED BY <2>1, <2>2
<1> QED BY <1>1, <1>2, <1>3, PTL DEF Spec

=============================================================================
