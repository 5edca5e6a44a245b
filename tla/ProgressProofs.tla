--------------------------- MODULE ProgressProofs ---------------------------
(***************************************************************************)
(* Proofs about the two parts of the run `progress': the times of the      *)
(* conventional FTL (ConvTiming), for any number of partitions, dies,      *)
(* pages and commands, any latencies and any delays of the channels, and   *)
(* loading and unloading the module (Lifecycle), for any number of         *)
(* workers.  And about two structures of the run `structures': the heap of *)
(* victim lines (VictimQueue), for any number of lines and pages, and the  *)
(* ring of credits of a channel (ChannelModel), for any length of the ring *)
(* and any bandwidth.                                                      *)
(***************************************************************************)
EXTENDS ConvTiming, Lifecycle, VictimQueue, ChannelModel, FiniteSetTheorems, WellFoundedInduction, TLAPS

(***************************************************************************)
(* The inductive invariant.  A flush only looks at the dies, so every      *)
(* program operation must end before some die is idle; and only a write    *)
(* has operations of its own.                                              *)
(***************************************************************************)
Releases == [time : Nat, of : {"this", "flush", "other"}]
ReadFields == {"op", "stime", "latest", "late"}

\* what the proofs need of the command that is handled: the times of a write
CmdShape ==
    \/ cmd = NoCmd
    \/ /\ cmd \in [op : {"write"}, stime : Int, latest : Int, late : Int, lpn : Parts,
                   left : Int, gc : BOOLEAN]
    \/ /\ cmd.op = "read" /\ cmd.stime \in Int
       /\ DOMAIN cmd = ReadFields /\ cmd = [f \in ReadFields |-> cmd[f]]

Types ==
    /\ next_lun_avail_time \in [Luns -> Int]
    /\ wp_lun \in [Parts -> 0 .. LunsPerPart - 1]
    /\ BagToSet(releases) \subseteq Releases
    /\ flushed \in Nat
    /\ CmdShape

\* with these times of the dies, one of them is busy until r is done
Busy(times, r) == \E l \in Luns : r.time <= later(times[l], 0)

DiesCover == \A r \in BagToSet(releases) : Busy(next_lun_avail_time, r)

OwnOnlyInWrite == \A r \in BagToSet(releases) : r.of = "this" => cmd.op = "write"

IInv == Types /\ DiesCover /\ OwnOnlyInWrite /\ AcksCoverPrograms

(***************************************************************************)
(* The later of two times, and the latest of finitely many.                *)
(***************************************************************************)
LEMMA Later ==
    ASSUME NEW a \in Int, NEW b \in Int
    PROVE  later(a, b) = IF a >= b THEN a ELSE b
<1>1. \E x \in {a, b} : \A y \in {a, b} : x >= y
  OBVIOUS
<1> QED BY <1>1 DEF later, Max

\* A set of naturals has a least element.
LEMMA LeastNumber ==
    ASSUME NEW T \in SUBSET Nat, T # {}
    PROVE  \E x \in T : \A y \in T : x <= y
<1> DEFINE R == OpToRel(<, Nat)
<1>1. IsWellFoundedOn(R, Nat)
  BY NatLessThanWellFounded
<1>2. \A x, y \in Nat : y < x => <<y, x>> \in R
  BY DEF OpToRel
<1> HIDE DEF R
<1>3. PICK x \in T : \A y \in T : ~ (<<y, x>> \in R)
  BY <1>1, WFMin
<1>4. \A y \in T : ~ (y < x)
  BY <1>2, <1>3
<1> QED BY <1>4

\* Finitely many integers have an upper bound.
LEMMA Bounded ==
    ASSUME NEW S, IsFiniteSet(S), S \subseteq Int
    PROVE  \E b \in Int : \A x \in S : x <= b
<1> DEFINE Fails == {n \in Nat : \E f \in [1 .. n -> Int] : ~ \E b \in Int : \A i \in 1 .. n : f[i] <= b}
<1>1. Fails = {}
  <2>1. SUFFICES ASSUME Fails # {} PROVE FALSE
    OBVIOUS
  <2>2. PICK n \in Fails : \A m \in Fails : n <= m
    BY <2>1, LeastNumber
  <2>3. PICK f \in [1 .. n -> Int] : ~ \E b \in Int : \A i \in 1 .. n : f[i] <= b
    BY <2>2
  <2>4. n # 0
    <3>1. SUFFICES ASSUME n = 0 PROVE FALSE
      OBVIOUS
    <3>2. \A i \in 1 .. n : f[i] <= 0
      BY <3>1
    <3> QED BY <2>3, <3>2
  <2>5. n - 1 \in Nat /\ n - 1 \notin Fails
    <3>1. n \in Nat /\ \A m \in Fails : n <= m
      BY <2>2
    <3> HIDE DEF Fails
    <3> QED BY <2>4, <3>1
  <2> DEFINE g == [i \in 1 .. n - 1 |-> f[i]]
  <2>6. g \in [1 .. n - 1 -> Int]
    BY <2>2, <2>3
  <2>7. PICK b \in Int : \A i \in 1 .. n - 1 : g[i] <= b
    BY <2>5, <2>6
  <2>8. f[n] \in Int /\ \A i \in 1 .. n - 1 : f[i] <= b /\ f[i] \in Int
    <3>1. n \in Nat /\ n \in 1 .. n /\ \A i \in 1 .. n - 1 : i \in 1 .. n
      BY <2>2, <2>4
    <3>2. \A i \in 1 .. n - 1 : f[i] <= b
      BY <2>7
    <3> QED BY <2>3, <3>1, <3>2
  <2>9. PICK c \in Int : b <= c /\ f[n] <= c
    <3>1. ASSUME NEW x \in Int, NEW y \in Int PROVE \E z \in Int : x <= z /\ y <= z
      <4>1. x <= x /\ y <= y /\ (x <= y \/ y <= x)
        OBVIOUS
      <4> QED BY <4>1
    <3> QED BY <2>7, <2>8, <3>1
  <2>10. \A i \in 1 .. n : f[i] <= c
    <3>1. \A i \in 1 .. n : i = n \/ i \in 1 .. n - 1
      BY <2>2
    <3>2. ASSUME NEW i \in 1 .. n PROVE f[i] <= c
      <4>1. CASE i = n
        BY <2>9, <4>1
      <4>2. CASE i \in 1 .. n - 1
        BY <2>7, <2>8, <2>9, <4>2
      <4> QED BY <3>1, <4>1, <4>2
    <3> QED BY <3>2
  <2> QED BY <2>3, <2>9, <2>10
<1>2. PICK f : f \in Bijection(1 .. Cardinality(S), S)
  BY FS_CardinalityType DEF ExistsBijection
<1> DEFINE n == Cardinality(S)
<1>3. n \in Nat /\ f \in [1 .. n -> Int] /\ \A x \in S : \E i \in 1 .. n : f[i] = x
  BY <1>2, FS_CardinalityType DEF Bijection, Surjection
<1> HIDE DEF n
<1>4. PICK b \in Int : \A i \in 1 .. n : f[i] <= b
  BY <1>1, <1>3
<1> QED BY <1>3, <1>4

\* Max() of finitely many integers is one of them, and none is later.
LEMMA Latest ==
    ASSUME NEW S, IsFiniteSet(S), S \subseteq Int, S # {}
    PROVE  Max(S) \in S /\ \A x \in S : x <= Max(S)
<1>1. PICK b \in Int : \A x \in S : x <= b
  BY Bounded
<1> DEFINE T == {b - x : x \in S}
<1>2. T \in SUBSET Nat /\ T # {}
  <2>1. \A x \in S : x \in Int /\ b - x \in Nat
    BY <1>1
  <2> QED BY <2>1
<1>3. PICK t \in T : \A u \in T : t <= u
  BY <1>2, LeastNumber
<1>4. PICK x \in S : t = b - x
  BY <1>3
<1>5. \A y \in S : x >= y
  <2>1. SUFFICES ASSUME NEW y \in S PROVE x >= y
    OBVIOUS
  <2>2. b - x <= b - y
    BY <1>3, <1>4
  <2> QED BY <2>2
<1>6. \A y \in S : Max(S) >= y
  BY <1>4, <1>5 DEF Max
<1>7. Max(S) \in S
  BY <1>4, <1>5 DEF Max
<1> QED BY <1>6, <1>7

\* ssd_next_idle_time(): no die is busy for longer.
LEMMA IdleTime ==
    ASSUME Types
    PROVE  /\ ssd_next_idle_time \in Nat
           /\ \A l \in Luns : later(next_lun_avail_time[l], 0) <= ssd_next_idle_time
<1> DEFINE S == {next_lun_avail_time[l] : l \in Luns} \cup {0}
<1>1. IsFiniteSet(Luns)
  <2>1. IsFiniteSet(0 .. NrParts - 1) /\ IsFiniteSet(0 .. LunsPerPart - 1)
    BY TimingAssumption, FS_Interval
  <2> QED BY <2>1, FS_Product DEF Luns, Parts
<1>2. IsFiniteSet(S) /\ S \subseteq Int /\ S # {}
  <2> DEFINE I == {next_lun_avail_time[l] : l \in Luns}
  <2>1. next_lun_avail_time \in Surjection(Luns, I)
    BY DEF Surjection, Types
  <2>2. IsFiniteSet(I)
    BY <1>1, <2>1, FS_Surjection
  <2>3. IsFiniteSet(I \cup {0})
    BY <2>2, FS_AddElement
  <2> QED BY <2>3 DEF Types
<1>3. Max(S) \in S /\ \A x \in S : x <= Max(S)
  BY <1>2, Latest
<1>4. ssd_next_idle_time = Max(S)
  BY DEF ssd_next_idle_time
<1>5. 0 \in S /\ \A l \in Luns : next_lun_avail_time[l] \in S /\ next_lun_avail_time[l] \in Int
  BY DEF Types
<1> HIDE DEF S
<1>6. Max(S) \in Int /\ 0 <= Max(S)
  BY <1>2, <1>3, <1>5
<1>7. ASSUME NEW l \in Luns PROVE later(next_lun_avail_time[l], 0) <= Max(S)
  BY <1>3, <1>5, <1>6, Later
<1> QED BY <1>4, <1>6, <1>7

(***************************************************************************)
(* The dies.                                                               *)
(***************************************************************************)
\* An operation ends no earlier than the die was busy before.
LEMMA NandTimes ==
    ASSUME Types, NEW l \in Luns, NEW stime \in Int,
           NEW time \in NAND_READ(l, stime) \cup NAND_WRITE(l, stime)
                          \cup NAND_ERASE(l, stime) \cup NAND_NOP(l, stime)
    PROVE  time \in Int /\ time >= next_lun_avail_time[l]
<1> DEFINE n == next_lun_avail_time[l]
           s == nand_stime(l, stime)
<1>1. n \in Int
  BY DEF Types
<1> HIDE DEF n
<1>2. s \in Int /\ s >= n
  BY <1>1, Later DEF nand_stime, n
<1> HIDE DEF s
<1>3. \A x \in Int : \A e \in xfer_ends(x) : e \in Int /\ e >= x
  BY TimingAssumption DEF xfer_ends
<1>4. RdLat \in Nat /\ WrLat \in Nat /\ ErLat \in Nat
  BY TimingAssumption
<1>5. CASE time \in NAND_READ(l, stime)
  <2>1. time \in xfer_ends(s + RdLat) /\ s + RdLat \in Int
    BY <1>2, <1>4, <1>5 DEF NAND_READ, s
  <2> QED BY <1>1, <1>2, <1>3, <1>4, <2>1 DEF n
<1>6. CASE time \in NAND_WRITE(l, stime)
  <2>1. PICK e \in xfer_ends(s) : time = e + WrLat
    BY <1>6 DEF NAND_WRITE, s
  <2>2. e \in Int /\ e >= s
    BY <1>2, <1>3
  <2>3. time \in Int /\ time >= n
    BY <1>1, <1>2, <1>4, <2>1, <2>2
  <2> QED BY <2>3 DEF n
<1>7. CASE time \in NAND_ERASE(l, stime) \cup NAND_NOP(l, stime)
  <2>1. time \in {s + ErLat, s}
    BY <1>7 DEF NAND_ERASE, NAND_NOP, s
  <2>2. time \in Int /\ time >= n
    BY <1>1, <1>2, <1>4, <2>1
  <2> QED BY <2>2 DEF n
<1> QED BY <1>5, <1>6, <1>7

\* A die that is kept busy for longer covers what it covered before.
LEMMA BusyLonger ==
    ASSUME Types, NEW l \in Luns, NEW time \in Int, time >= next_lun_avail_time[l],
           busy_until(l, time)
    PROVE  /\ next_lun_avail_time' \in [Luns -> Int]
           /\ next_lun_avail_time'[l] = time
           /\ \A r \in Releases : Busy(next_lun_avail_time, r) => Busy(next_lun_avail_time', r)
<1>1. /\ next_lun_avail_time' = [next_lun_avail_time EXCEPT ![l] = time]
      /\ next_lun_avail_time \in [Luns -> Int]
  BY DEF busy_until, Types
<1>2. /\ next_lun_avail_time' \in [Luns -> Int] /\ next_lun_avail_time'[l] = time
      /\ \A m \in Luns : /\ next_lun_avail_time[m] \in Int /\ next_lun_avail_time'[m] \in Int
                         /\ next_lun_avail_time[m] <= next_lun_avail_time'[m]
  BY <1>1
<1>3. ASSUME NEW m \in Luns
      PROVE  /\ later(next_lun_avail_time[m], 0) \in Int /\ later(next_lun_avail_time'[m], 0) \in Int
             /\ later(next_lun_avail_time[m], 0) <= later(next_lun_avail_time'[m], 0)
  <2> DEFINE a == next_lun_avail_time[m]
             b == next_lun_avail_time'[m]
  <2>1. a \in Int /\ b \in Int /\ a <= b
    BY <1>2
  <2> HIDE DEF a, b
  <2>2. later(a, 0) \in Int /\ later(b, 0) \in Int /\ later(a, 0) <= later(b, 0)
    BY <2>1, Later
  <2> QED BY <2>2 DEF a, b
<1>4. ASSUME NEW r \in Releases, Busy(next_lun_avail_time, r) PROVE Busy(next_lun_avail_time', r)
  <2>1. PICK m \in Luns : r.time <= later(next_lun_avail_time[m], 0)
    BY <1>4 DEF Busy
  <2>2. r.time \in Int
    BY DEF Releases
  <2>3. r.time <= later(next_lun_avail_time'[m], 0)
    BY <1>3, <2>1, <2>2
  <2> QED BY <2>3 DEF Busy
<1> QED BY <1>2, <1>4

(***************************************************************************)
(* The internal operations that wait.                                      *)
(***************************************************************************)
LEMMA Scheduled ==
    ASSUME NEW time \in Int, schedule_release(time)
    PROVE  BagToSet(releases)' \subseteq BagToSet(releases) \cup {[time |-> later(time, 0), of |-> "this"]}
BY DEF schedule_release, BagToSet, SetToBag, (+)

LEMMA Renamed ==
    ASSUME NEW old, NEW new, Types
    PROVE  \A q \in BagToSet(reassigned(old, new)) : \E r \in BagToSet(releases) :
             /\ q.time = r.time
             /\ q.of = IF r.of \in old THEN new ELSE r.of
             /\ q = [time |-> r.time, of |-> IF r.of \in old THEN new ELSE r.of]
<1>1. SUFFICES ASSUME NEW q \in BagToSet(reassigned(old, new))
      PROVE  \E r \in BagToSet(releases) :
             /\ q.time = r.time
             /\ q.of = IF r.of \in old THEN new ELSE r.of
             /\ q = [time |-> r.time, of |-> IF r.of \in old THEN new ELSE r.of]
  OBVIOUS
<1>2. PICK r \in BagToSet(releases) : q = IF r.of \in old THEN [r EXCEPT !.of = new] ELSE r
  BY DEF reassigned, BagOfAll, BagToSet
<1>3. r \in [time : Nat, of : {"this", "flush", "other"}]
  BY DEF Types, Releases
<1>4. q = [time |-> r.time, of |-> IF r.of \in old THEN new ELSE r.of]
  BY <1>2, <1>3
<1> QED BY <1>4

LEMMA Older ==
    ASSUME Types,
           releases' = BagOfAll(LAMBDA r : [r EXCEPT !.time = later(@ - 1, 0)], releases)
    PROVE  \A q \in BagToSet(releases)' : \E r \in BagToSet(releases) :
             q = [time |-> later(r.time - 1, 0), of |-> r.of]
<1>1. SUFFICES ASSUME NEW q \in BagToSet(releases)'
      PROVE  \E r \in BagToSet(releases) : q = [time |-> later(r.time - 1, 0), of |-> r.of]
  OBVIOUS
<1>2. PICK r \in BagToSet(releases) : q = [r EXCEPT !.time = later(@ - 1, 0)]
  BY DEF BagOfAll, BagToSet
<1>3. r \in [time : Nat, of : {"this", "flush", "other"}]
  BY DEF Types, Releases
<1> QED BY <1>2, <1>3

(***************************************************************************)
(* The steps.                                                              *)
(***************************************************************************)
\* the times of a release and of a flush are not before the present
LEMMA Times ==
    ASSUME Types
    PROVE  /\ \A r \in BagToSet(releases) : r \in Releases /\ r.time \in Nat
           /\ flushed \in Nat
           /\ cmd.op = "write" => cmd.latest \in Int /\ cmd.stime \in Int /\ cmd.lpn \in Parts
                                    /\ DOMAIN cmd = {"op", "stime", "latest", "late", "lpn", "left", "gc"}
           /\ cmd # NoCmd => cmd.op \in {"write", "read"} /\ "op" \in DOMAIN cmd
<1>1. \A r \in BagToSet(releases) : r \in Releases /\ r.time \in Nat
  BY DEF Types, Releases
<1>2. NoCmd.op # "write"
  BY DEF NoCmd
<1>3. cmd.op = "write" => cmd \in [op : {"write"}, stime : Int, latest : Int, late : Int, lpn : Parts,
                                   left : Int, gc : BOOLEAN]
  BY <1>2 DEF Types, CmdShape
<1>4. cmd.op = "write" => cmd.latest \in Int /\ cmd.stime \in Int /\ cmd.lpn \in Parts
                            /\ DOMAIN cmd = {"op", "stime", "latest", "late", "lpn", "left", "gc"}
  BY <1>3
<1>5. cmd # NoCmd => cmd.op \in {"write", "read"} /\ "op" \in DOMAIN cmd
  BY DEF Types, CmdShape, ReadFields
<1> QED BY <1>1, <1>4, <1>5 DEF Types

\* conv_write(): the command has no operations yet.
LEMMA StartWrite ==
    ASSUME IInv, NEW c \in Writes, conv_write(c)
    PROVE  IInv'
<1>1. /\ cmd = NoCmd
      /\ UNCHANGED <<next_lun_avail_time, releases, wp_lun, flushed>>
  BY DEF conv_write, Accepting
<1>2. \A r \in BagToSet(releases) : r.of # "this"
  BY <1>1 DEF IInv, OwnOnlyInWrite, NoCmd
<1>3. cmd' = cmd \/ cmd' \in [op : {"write"}, stime : Int, latest : Int, late : Int, lpn : Parts,
                              left : Int, gc : BOOLEAN]
  <2>1. CASE cmd' = cmd
    BY <2>1
  <2>2. ASSUME NEW e \in xfer_ends(0),
               cmd' = [op |-> "write", stime |-> e, latest |-> e, late |-> 0,
                       lpn |-> start_lpn(c) % NrParts, left |-> pages(c), gc |-> FALSE]
        PROVE  cmd' \in [op : {"write"}, stime : Int, latest : Int, late : Int, lpn : Parts,
                         left : Int, gc : BOOLEAN]
    <3>1. e \in Int
      BY TimingAssumption DEF xfer_ends
    <3>2. c.lba \in Nat /\ c.nr \in Nat
      BY DEF Writes
    <3>3. start_lpn(c) \in Int /\ end_lpn(c) \in Int
      <4>1. SecsPerPg \in Nat /\ SecsPerPg > 0 /\ c.lba \in Int /\ c.lba + c.nr - 1 \in Int
        BY <3>2, TimingAssumption
      <4>2. \A x \in Int : x \div SecsPerPg \in Int
        BY <4>1
      <4> QED BY <4>1, <4>2 DEF start_lpn, end_lpn
    <3>4. pages(c) \in Int
      BY <3>3 DEF pages
    <3>5. \A x \in Int : x % NrParts \in 0 .. NrParts - 1
      BY TimingAssumption
    <3>6. start_lpn(c) % NrParts \in Parts
      BY <3>3, <3>5 DEF Parts
    <3> QED BY <2>2, <3>1, <3>4, <3>6
  <2> QED BY <2>1, <2>2 DEF conv_write
<1>4. Types'
  BY <1>1, <1>3 DEF IInv, Types, CmdShape
<1>5. DiesCover' /\ OwnOnlyInWrite' /\ AcksCoverPrograms'
  BY <1>1, <1>2 DEF IInv, DiesCover, OwnOnlyInWrite, AcksCoverPrograms
<1> QED BY <1>4, <1>5 DEF IInv

\* One page of a write: the program operation it may start ends when its die is
\* idle again, and not after the command.
LEMMA PageInv ==
    ASSUME IInv, write_page
    PROVE  IInv'
<1> DEFINE part == cmd.lpn
           lun == <<part, wp_lun[part]>>
           next == [cmd EXCEPT !.lpn = (@ + 1) % NrParts, !.left = @ - 1, !.gc = TRUE]
           W == [op : {"write"}, stime : Int, latest : Int, late : Int, lpn : Parts,
                 left : Int, gc : BOOLEAN]
<1>1. cmd.op = "write" /\ flushed' = flushed
  BY DEF write_page
<1>2. /\ cmd \in W /\ cmd.latest \in Int /\ cmd.stime \in Int /\ part \in Parts
      /\ wp_lun \in [Parts -> 0 .. LunsPerPart - 1]
  BY <1>1, Times DEF IInv, Types, CmdShape, NoCmd
<1>3. lun \in Luns
  BY <1>2 DEF Luns
<1>4. next \in W /\ next.latest = cmd.latest
  <2>1. \A x \in Parts : (x + 1) % NrParts \in Parts
    BY TimingAssumption DEF Parts
  <2> DEFINE to == (cmd.lpn + 1) % NrParts
             less == cmd.left - 1
  <2>2. to \in Parts /\ less \in Int
    BY <1>2, <2>1
  <2>3. next = [[[cmd EXCEPT !.lpn = to] EXCEPT !.left = less] EXCEPT !.gc = TRUE]
    BY <1>2
  <2> HIDE DEF to, less, next
  <2> QED BY <1>2, <2>2, <2>3
<1>5. CASE last_pg_in_wordline(part)
  <2>1. PICK time \in NAND_WRITE(lun, cmd.stime) :
          /\ busy_until(lun, time) /\ schedule_release(time)
          /\ cmd' = [next EXCEPT !.latest = latest_of(@, time)]
          /\ wp_lun' = [wp_lun EXCEPT ![part] = (@ + 1) % LunsPerPart]
    BY <1>5 DEF write_page
  <2> HIDE DEF part, lun, next
  <2>2. time \in Int /\ time >= next_lun_avail_time[lun]
    BY <1>2, <1>3, <2>1, NandTimes DEF IInv
  <2>3. /\ next_lun_avail_time' \in [Luns -> Int] /\ next_lun_avail_time'[lun] = time
        /\ \A r \in Releases : Busy(next_lun_avail_time, r) => Busy(next_lun_avail_time', r)
    BY <1>3, <2>1, <2>2, BusyLonger DEF IInv
  <2> DEFINE new == [time |-> later(time, 0), of |-> "this"]
  <2>4. BagToSet(releases)' \subseteq BagToSet(releases) \cup {new}
    BY <2>1, <2>2, Scheduled
  <2>5. /\ later(time, 0) \in Nat /\ latest_of(cmd.latest, time) \in Int
        /\ cmd.latest <= latest_of(cmd.latest, time) /\ time <= latest_of(cmd.latest, time)
    BY <1>2, <2>2, Later DEF latest_of
  <2>6. new \in Releases /\ Busy(next_lun_avail_time', new)
    <3>1. new.time = later(next_lun_avail_time'[lun], 0) /\ new.time \in Int
      BY <2>3, <2>5
    <3>2. new.time <= later(next_lun_avail_time'[lun], 0)
      BY <3>1
    <3> QED BY <1>3, <2>5, <3>2 DEF Busy, Releases
  <2>7. cmd' \in W /\ cmd'.latest = latest_of(cmd.latest, time) /\ cmd'.op = "write"
    BY <1>4, <2>1, <2>5
  <2>8. wp_lun' \in [Parts -> 0 .. LunsPerPart - 1]
    <3>1. \A x \in 0 .. LunsPerPart - 1 : (x + 1) % LunsPerPart \in 0 .. LunsPerPart - 1
      BY TimingAssumption
    <3> QED BY <1>2, <2>1, <3>1
  <2>9. Types'
    BY <1>1, <2>3, <2>4, <2>6, <2>7, <2>8 DEF IInv, Types, CmdShape
  <2>10. DiesCover' /\ OwnOnlyInWrite'
    BY <2>3, <2>4, <2>6, <2>7 DEF IInv, DiesCover, OwnOnlyInWrite, Types
  <2>11. ASSUME NEW r \in BagToSet(releases)'
         PROVE  /\ r.of = "flush" => r.time <= flushed'
                /\ r.of = "this" => r.time <= later(cmd'.latest, 0)
    <3> DEFINE u == latest_of(cmd.latest, time)
    <3>1. u \in Int /\ cmd.latest <= u /\ time <= u /\ cmd.latest \in Int /\ cmd'.latest = u
      BY <1>2, <2>5, <2>7
    <3> HIDE DEF u
    <3>2. later(cmd.latest, 0) <= later(u, 0) /\ later(time, 0) <= later(u, 0)
          /\ later(cmd.latest, 0) \in Int /\ later(u, 0) \in Int
      BY <2>2, <3>1, Later
    <3>3. CASE r \in BagToSet(releases)
      <4>1. r.time \in Nat /\ (r.of = "flush" => r.time <= flushed)
            /\ (r.of = "this" => r.time <= later(cmd.latest, 0))
        BY <3>3, Times DEF IInv, AcksCoverPrograms
      <4> QED BY <1>1, <3>1, <3>2, <4>1
    <3>4. CASE r = new
      <4>1. r.of = "this" /\ r.time = later(time, 0)
        BY <3>4
      <4> QED BY <3>1, <3>2, <4>1
    <3> QED BY <2>4, <3>3, <3>4
  <2>12. AcksCoverPrograms'
    BY <2>11 DEF AcksCoverPrograms
  <2> QED BY <2>9, <2>10, <2>12 DEF IInv
<1>6. CASE ~ last_pg_in_wordline(part)
  <2>1. cmd' = next /\ UNCHANGED <<next_lun_avail_time, releases, wp_lun, flushed>>
    BY <1>6 DEF write_page
  <2> HIDE DEF next
  <2>2. cmd' \in W /\ cmd'.latest = cmd.latest /\ cmd'.op = "write"
    BY <1>4, <2>1
  <2>3. Types'
    BY <2>1, <2>2 DEF IInv, Types, CmdShape
  <2>4. DiesCover' /\ OwnOnlyInWrite' /\ AcksCoverPrograms'
    BY <2>1, <2>2 DEF IInv, DiesCover, OwnOnlyInWrite, AcksCoverPrograms
  <2> QED BY <2>3, <2>4 DEF IInv
<1> QED BY <1>5, <1>6

\* garbage collection only keeps dies busy for longer
LEMMA GcInv ==
    ASSUME IInv, NEW l \in Luns, gc_nand(l)
    PROVE  IInv'
<1>1. PICK time \in NAND_READ(l, 0) \cup NAND_WRITE(l, 0)
                     \cup NAND_ERASE(l, 0) \cup NAND_NOP(l, 0) : busy_until(l, time)
  BY DEF gc_nand
<1>2. UNCHANGED <<releases, wp_lun, cmd, flushed>>
  BY DEF gc_nand
<1>3. time \in Int /\ time >= next_lun_avail_time[l]
  BY <1>1, NandTimes DEF IInv
<1>4. /\ next_lun_avail_time' \in [Luns -> Int]
      /\ \A r \in Releases : Busy(next_lun_avail_time, r) => Busy(next_lun_avail_time', r)
  BY <1>1, <1>3, BusyLonger DEF IInv
<1>5. Types'
  BY <1>2, <1>4 DEF IInv, Types, CmdShape
<1>6. DiesCover' /\ OwnOnlyInWrite' /\ AcksCoverPrograms'
  BY <1>2, <1>4 DEF IInv, DiesCover, OwnOnlyInWrite, AcksCoverPrograms, Types
<1> QED BY <1>5, <1>6 DEF IInv

\* A write that is done has no operations of its own any more.
LEMMA DoneInv ==
    ASSUME IInv, write_done
    PROVE  IInv'
<1>1. /\ cmd' = NoCmd /\ releases' = reassigned({"this"}, "other")
      /\ UNCHANGED <<next_lun_avail_time, wp_lun, flushed>>
  BY DEF write_done
<1>2. ASSUME NEW q \in BagToSet(releases)'
      PROVE  q \in Releases /\ Busy(next_lun_avail_time, q) /\ q.of # "this"
             /\ (q.of = "flush" => q.time <= flushed)
  <2>1. PICK r \in BagToSet(releases) :
             /\ q.time = r.time
             /\ q.of = IF r.of \in {"this"} THEN "other" ELSE r.of
             /\ q = [time |-> r.time, of |-> IF r.of \in {"this"} THEN "other" ELSE r.of]
    BY <1>1, Renamed DEF IInv
  <2>2. r \in Releases /\ Busy(next_lun_avail_time, r) /\ (r.of = "flush" => r.time <= flushed)
    BY Times DEF IInv, DiesCover, AcksCoverPrograms
  <2> QED BY <2>1, <2>2 DEF Releases, Busy
<1>3. Types'
  BY <1>1, <1>2 DEF IInv, Types, CmdShape
<1>4. DiesCover' /\ OwnOnlyInWrite' /\ AcksCoverPrograms'
  BY <1>1, <1>2 DEF DiesCover, OwnOnlyInWrite, AcksCoverPrograms
<1> QED BY <1>3, <1>4 DEF IInv

\* a worker takes an operation away
LEMMA ReleaseInv ==
    ASSUME IInv, buffer_release
    PROVE  IInv'
<1>1. BagToSet(releases)' \subseteq BagToSet(releases)
  BY DEF buffer_release, BagToSet, (-)
<1>2. UNCHANGED <<next_lun_avail_time, wp_lun, cmd, flushed>>
  BY DEF buffer_release
<1>3. Types'
  BY <1>1, <1>2 DEF IInv, Types, CmdShape
<1>4. DiesCover' /\ OwnOnlyInWrite' /\ AcksCoverPrograms'
  BY <1>1, <1>2 DEF IInv, DiesCover, OwnOnlyInWrite, AcksCoverPrograms
<1> QED BY <1>3, <1>4 DEF IInv

\* conv_flush(): whatever was scheduled ends before the latest die is idle.
LEMMA FlushInv ==
    ASSUME IInv, conv_flush
    PROVE  IInv'
<1>1. /\ cmd = NoCmd /\ releases' = reassigned({"other"}, "flush") /\ flushed' = ssd_next_idle_time
      /\ UNCHANGED <<next_lun_avail_time, wp_lun, cmd>>
  BY DEF conv_flush, Accepting
<1>2. /\ ssd_next_idle_time \in Nat
      /\ \A l \in Luns : later(next_lun_avail_time[l], 0) <= ssd_next_idle_time
                         /\ later(next_lun_avail_time[l], 0) \in Int
  <2>1. \A l \in Luns : later(next_lun_avail_time[l], 0) \in Int
    BY Later DEF IInv, Types
  <2> QED BY <2>1, IdleTime DEF IInv
<1>3. ASSUME NEW q \in BagToSet(releases)'
      PROVE  q \in Releases /\ Busy(next_lun_avail_time, q) /\ q.of # "this"
             /\ q.time <= flushed'
  <2>1. PICK r \in BagToSet(releases) :
             /\ q.time = r.time
             /\ q.of = IF r.of \in {"other"} THEN "flush" ELSE r.of
             /\ q = [time |-> r.time, of |-> IF r.of \in {"other"} THEN "flush" ELSE r.of]
    BY <1>1, Renamed DEF IInv
  <2>2. r \in Releases /\ r.time \in Nat /\ Busy(next_lun_avail_time, r) /\ r.of # "this"
    BY <1>1, Times DEF IInv, DiesCover, OwnOnlyInWrite, NoCmd
  <2>3. PICK l \in Luns : r.time <= later(next_lun_avail_time[l], 0)
    BY <2>2 DEF Busy
  <2>4. r.time <= ssd_next_idle_time
    BY <1>2, <2>2, <2>3
  <2>5. q \in Releases /\ q.of # "this" /\ q.time <= flushed'
    BY <1>1, <2>1, <2>2, <2>4 DEF Releases
  <2>6. Busy(next_lun_avail_time, q)
    BY <2>1, <2>2 DEF Busy
  <2> QED BY <2>5, <2>6
<1>4. Types'
  BY <1>1, <1>2, <1>3 DEF IInv, Types, CmdShape
<1>5. DiesCover' /\ OwnOnlyInWrite' /\ AcksCoverPrograms'
  BY <1>1, <1>3 DEF DiesCover, OwnOnlyInWrite, AcksCoverPrograms
<1> QED BY <1>4, <1>5 DEF IInv

\* A read has no program operations.
LEMMA StartRead ==
    ASSUME IInv, NEW first, NEW n, conv_read(first, n)
    PROVE  IInv'
<1>1. /\ cmd = NoCmd /\ UNCHANGED <<next_lun_avail_time, releases, wp_lun, flushed>>
      /\ cmd' = [op |-> "read", stime |-> 0, latest |-> 0, late |-> 0]
  BY DEF conv_read, Accepting
<1>2. \A q \in BagToSet(releases) : q.of # "this"
  BY <1>1 DEF IInv, OwnOnlyInWrite, NoCmd
<1>3. cmd'.op = "read" /\ cmd'.stime \in Int
      /\ DOMAIN cmd' = ReadFields /\ cmd' = [f \in ReadFields |-> cmd'[f]]
  BY <1>1 DEF ReadFields
<1>4. Types'
  BY <1>1, <1>3 DEF IInv, Types, CmdShape
<1>5. DiesCover' /\ OwnOnlyInWrite' /\ AcksCoverPrograms'
  BY <1>1, <1>2 DEF IInv, DiesCover, OwnOnlyInWrite, AcksCoverPrograms
<1> QED BY <1>4, <1>5 DEF IInv

\* Nor has the reading of a flash page.
LEMMA FlashReadInv ==
    ASSUME IInv, cmd.op = "read", NEW found, read_flashpg(found), UNCHANGED <<releases, wp_lun, flushed>>
    PROVE  IInv'
<1> DEFINE lun == lun_of(cur_part, rd.prev)
<1>1. cmd.op = "read" /\ UNCHANGED <<releases, wp_lun, flushed>>
  OBVIOUS
<1>0. CASE rd.xfer = 0
  <2>1. UNCHANGED <<next_lun_avail_time, cmd>>
    BY <1>0 DEF read_flashpg
  <2> QED BY <1>1, <2>1 DEF IInv, Types, CmdShape, DiesCover, OwnOnlyInWrite, AcksCoverPrograms
<1>a. SUFFICES ASSUME rd.xfer # 0 PROVE IInv'
  BY <1>0
<1>2. PICK nand \in NAND_READ(lun, cmd.stime) : \E pcie \in xfer_ends(nand) :
             /\ busy_until(lun, nand)
             /\ cmd' = [cmd EXCEPT !.latest = latest_of(@, pcie)]
  BY <1>a DEF read_flashpg
<1> HIDE DEF lun
<1>3. \A q \in BagToSet(releases) : q.of # "this"
  BY <1>1 DEF IInv, OwnOnlyInWrite
<1>4. cmd.stime \in Int /\ DOMAIN cmd = ReadFields /\ cmd = [f \in ReadFields |-> cmd[f]]
  BY <1>1 DEF IInv, Types, CmdShape, NoCmd
<1>5. cmd'.op = "read" /\ cmd'.stime \in Int
      /\ DOMAIN cmd' = ReadFields /\ cmd' = [f \in ReadFields |-> cmd'[f]]
  BY <1>1, <1>2, <1>4 DEF ReadFields
<1>6. /\ next_lun_avail_time' \in [Luns -> Int]
      /\ \A q \in Releases : Busy(next_lun_avail_time, q) => Busy(next_lun_avail_time', q)
  <2>1. CASE lun \in Luns
    <3>1. nand \in Int /\ nand >= next_lun_avail_time[lun]
      BY <1>2, <1>4, <2>1, NandTimes DEF IInv
    <3> QED BY <1>2, <2>1, <3>1, BusyLonger DEF IInv
  <2>2. CASE lun \notin Luns
    <3>1. next_lun_avail_time' = next_lun_avail_time
      BY <1>2, <2>2 DEF busy_until, IInv, Types
    <3> QED BY <3>1 DEF IInv, Types
  <2> QED BY <2>1, <2>2
<1>7. Types'
  BY <1>1, <1>5, <1>6 DEF IInv, Types, CmdShape
<1>8. DiesCover' /\ OwnOnlyInWrite' /\ AcksCoverPrograms'
  BY <1>1, <1>3, <1>6 DEF IInv, DiesCover, OwnOnlyInWrite, AcksCoverPrograms, Types
<1> QED BY <1>7, <1>8 DEF IInv

LEMMA ReadInv ==
    ASSUME IInv, read_page \/ read_rest
    PROVE  IInv'
<1>1. cmd.op = "read" /\ UNCHANGED <<releases, wp_lun, flushed>>
  BY DEF read_page, read_rest
<1>2. UNCHANGED <<next_lun_avail_time, cmd>> \/ \E found : read_flashpg(found)
  BY DEF read_page, read_rest
<1>3. CASE UNCHANGED <<next_lun_avail_time, cmd>>
  BY <1>1, <1>3 DEF IInv, Types, CmdShape, DiesCover, OwnOnlyInWrite, AcksCoverPrograms
<1> QED BY <1>1, <1>2, <1>3, FlashReadInv

\* A read stays one.
LEMMA ReadGoesOn ==
    ASSUME IInv, read_page \/ read_rest
    PROVE  cmd'.op = "read"
<1>1. cmd.op = "read"
  BY DEF read_page, read_rest
<1>2. cmd' = cmd \/ \E found : read_flashpg(found)
  BY DEF read_page, read_rest
<1>3. CASE \E found : read_flashpg(found)
  <2>1. cmd' = cmd \/ \E y : cmd' = [cmd EXCEPT !.latest = y]
    BY <1>3 DEF read_flashpg
  <2>2. DOMAIN cmd = ReadFields
    BY <1>1 DEF IInv, Types, CmdShape, NoCmd
  <2> QED BY <1>1, <2>1, <2>2 DEF ReadFields
<1> QED BY <1>1, <1>2, <1>3

LEMMA ReadDone ==
    ASSUME IInv, read_done
    PROVE  IInv'
<1>1. /\ cmd.op = "read" /\ cmd' = NoCmd /\ UNCHANGED <<next_lun_avail_time, releases, wp_lun, flushed>>
  BY DEF read_done
<1>2. \A q \in BagToSet(releases) : q.of # "this"
  BY <1>1 DEF IInv, OwnOnlyInWrite
<1>3. Types'
  BY <1>1 DEF IInv, Types, CmdShape
<1>4. DiesCover' /\ OwnOnlyInWrite' /\ AcksCoverPrograms'
  BY <1>1, <1>2 DEF IInv, DiesCover, OwnOnlyInWrite, AcksCoverPrograms
<1> QED BY <1>3, <1>4 DEF IInv

\* When a slot passes, all times come nearer alike.
LEMMA TickInv ==
    ASSUME IInv, tick
    PROVE  IInv'
<1> DEFINE W == [op : {"write"}, stime : Int, latest : Int, late : Int, lpn : Parts,
                 left : Int, gc : BOOLEAN]
<1>1. /\ next_lun_avail_time' = [l \in Luns |-> later(next_lun_avail_time[l] - 1, - MaxLate)]
      /\ releases' = BagOfAll(LAMBDA r : [r EXCEPT !.time = later(@ - 1, 0)], releases)
      /\ flushed' = later(flushed - 1, 0)
      /\ cmd' = IF cmd = NoCmd THEN cmd
                ELSE [cmd EXCEPT !.stime = @ - 1, !.latest = @ - 1, !.late = @ + 1]
      /\ wp_lun' = wp_lun
  BY DEF tick
<1>2. \A a, b \in Int : a <= later(b, 0) /\ a >= 0 =>
         later(a - 1, 0) <= later(b - 1, 0) /\ later(a - 1, 0) <= later(later(b - 1, - MaxLate), 0)
  <2>1. SUFFICES ASSUME NEW a \in Int, NEW b \in Int, a <= later(b, 0), a >= 0
        PROVE  later(a - 1, 0) <= later(b - 1, 0) /\ later(a - 1, 0) <= later(later(b - 1, - MaxLate), 0)
    OBVIOUS
  <2> DEFINE c == later(b - 1, - MaxLate)
  <2>2. MaxLate \in Nat
    BY TimingAssumption
  <2>3. c \in Int /\ c >= b - 1
    BY <2>2, Later
  <2> HIDE DEF c
  <2>4. a <= b \/ a <= 0
    BY <2>1, Later
  <2>5. later(a - 1, 0) <= later(b - 1, 0) /\ later(a - 1, 0) <= later(c, 0)
    BY <2>1, <2>3, <2>4, Later
  <2> QED BY <2>5 DEF c
<1>3. next_lun_avail_time' \in [Luns -> Int]
  <2>1. \A l \in Luns : later(next_lun_avail_time[l] - 1, - MaxLate) \in Int
    BY Later, TimingAssumption DEF IInv, Types
  <2> QED BY <1>1, <2>1
<1>4. flushed' \in Nat
  <2>1. flushed \in Nat
    BY DEF IInv, Types
  <2>2. flushed - 1 \in Int /\ 0 \in Int
    BY <2>1
  <2>3. later(flushed - 1, 0) \in Int /\ later(flushed - 1, 0) >= 0
    BY <2>2, Later
  <2> QED BY <1>1, <2>3
<1>6. cmd.op = "write" => cmd' \in W /\ cmd'.latest = cmd.latest - 1
  <2>1. SUFFICES ASSUME cmd.op = "write" PROVE cmd' \in W /\ cmd'.latest = cmd.latest - 1
    OBVIOUS
  <2>2. cmd \in W /\ cmd # NoCmd
    BY <2>1 DEF IInv, Types, CmdShape, NoCmd
  <2> DEFINE s == cmd.stime - 1
             u == cmd.latest - 1
             v == cmd.late + 1
  <2>3. s \in Int /\ u \in Int /\ v \in Int
    BY <2>2
  <2>4. cmd' = [[[cmd EXCEPT !.stime = s] EXCEPT !.latest = u] EXCEPT !.late = v]
    BY <1>1, <2>2
  <2> HIDE DEF s, u, v
  <2>5. cmd' \in W /\ cmd'.latest = u
    BY <2>2, <2>3, <2>4
  <2> QED BY <2>5 DEF u
<1>7. cmd # NoCmd /\ cmd.op # "write" =>
         /\ cmd'.op = "read" /\ cmd'.stime \in Int
         /\ DOMAIN cmd' = ReadFields /\ cmd' = [f \in ReadFields |-> cmd'[f]]
  <2>1. SUFFICES ASSUME cmd # NoCmd, cmd.op # "write"
        PROVE  /\ cmd'.op = "read" /\ cmd'.stime \in Int
               /\ DOMAIN cmd' = ReadFields /\ cmd' = [f \in ReadFields |-> cmd'[f]]
    OBVIOUS
  <2>2. /\ cmd.op = "read" /\ cmd.stime \in Int
        /\ DOMAIN cmd = ReadFields /\ cmd = [f \in ReadFields |-> cmd[f]]
    BY <2>1 DEF IInv, Types, CmdShape
  <2>3. cmd' = [cmd EXCEPT !.stime = @ - 1, !.latest = @ - 1, !.late = @ + 1]
    BY <1>1, <2>1
  <2> DEFINE s == cmd.stime - 1
             u == cmd.latest - 1
             v == cmd.late + 1
  <2>4. s \in Int
    BY <2>2
  <2>5. cmd' = [[[cmd EXCEPT !.stime = s] EXCEPT !.latest = u] EXCEPT !.late = v]
    BY <2>3
  <2> HIDE DEF s, u, v
  <2>6. DOMAIN cmd' = ReadFields /\ cmd' = [f \in ReadFields |-> cmd'[f]]
    BY <2>2, <2>5
  <2>7. cmd'.op = "read" /\ cmd'.stime = s
    BY <2>2, <2>5 DEF ReadFields
  <2> QED BY <2>4, <2>6, <2>7
<1>8. CmdShape'
  BY <1>1, <1>6, <1>7 DEF CmdShape
<1>9. cmd'.op = cmd.op
  BY <1>1, <1>6, <1>7, Times DEF IInv
<1>10. ASSUME NEW q \in BagToSet(releases)'
       PROVE  /\ q \in Releases /\ Busy(next_lun_avail_time', q)
              /\ q.of = "this" => cmd'.op = "write"
              /\ q.of = "flush" => q.time <= flushed'
              /\ q.of = "this" => q.time <= later(cmd'.latest, 0)
  <2>1. PICK r \in BagToSet(releases) : q = [time |-> later(r.time - 1, 0), of |-> r.of]
    BY <1>1, Older DEF IInv
  <2>2. r \in Releases /\ r.time \in Int /\ r.time >= 0 /\ r.time \in Nat
    BY Times DEF IInv
  <2>3. q.of = r.of /\ q.time = later(r.time - 1, 0) /\ q.time \in Nat /\ q \in Releases
    BY <2>1, <2>2, Later DEF Releases
  <2>4. Busy(next_lun_avail_time', q)
    <3>1. PICK l \in Luns : r.time <= later(next_lun_avail_time[l], 0)
      BY DEF IInv, DiesCover, Busy
    <3>2. next_lun_avail_time[l] \in Int
      BY DEF IInv, Types
    <3>3. later(r.time - 1, 0) <= later(later(next_lun_avail_time[l] - 1, - MaxLate), 0)
      BY <1>2, <2>2, <3>1, <3>2
    <3>4. q.time <= later(next_lun_avail_time'[l], 0)
      BY <1>1, <2>3, <3>3
    <3> QED BY <3>4 DEF Busy
  <2>5. q.of = "this" => cmd'.op = "write"
    BY <1>9, <2>3 DEF IInv, OwnOnlyInWrite
  <2>6. ASSUME q.of = "flush" PROVE q.time <= flushed'
    <3>1. r.time <= flushed /\ flushed \in Nat
      BY <2>3, <2>6, Times DEF IInv, AcksCoverPrograms
    <3>2. r.time <= later(flushed, 0) /\ flushed \in Int
      BY <2>2, <3>1, Later
    <3> QED BY <1>1, <1>2, <2>2, <2>3, <3>2
  <2>7. ASSUME q.of = "this" PROVE q.time <= later(cmd'.latest, 0)
    <3>1. r.of = "this" /\ cmd.op = "write" /\ r.time <= later(cmd.latest, 0)
      BY <2>3, <2>7 DEF IInv, AcksCoverPrograms, OwnOnlyInWrite
    <3>2. cmd.latest \in Int /\ cmd'.latest = cmd.latest - 1
      BY <1>6, <3>1, Times DEF IInv
    <3> QED BY <1>2, <2>2, <2>3, <3>1, <3>2
  <2> QED BY <2>3, <2>4, <2>5, <2>6, <2>7
<1>11. Types'
  BY <1>1, <1>3, <1>4, <1>8, <1>10 DEF IInv, Types
<1>12. DiesCover' /\ OwnOnlyInWrite' /\ AcksCoverPrograms'
  BY <1>10 DEF DiesCover, OwnOnlyInWrite, AcksCoverPrograms
<1> QED BY <1>11, <1>12 DEF IInv

\* No operation waits at first.
LEMMA InitInv ==
    ASSUME Init PROVE IInv
<1>1. BagToSet(releases) = {}
  BY DEF Init, EmptyBag, SetToBag, BagToSet
<1>2. next_lun_avail_time \in [Luns -> Int] /\ wp_lun \in [Parts -> 0 .. LunsPerPart - 1]
      /\ flushed \in Nat
  BY TimingAssumption DEF Init
<1> QED BY <1>1, <1>2 DEF Init, IInv, Types, CmdShape, DiesCover, OwnOnlyInWrite, AcksCoverPrograms

\* Every step keeps the invariant.
LEMMA NextInv ==
    ASSUME IInv, [Next]_vars PROVE IInv'
<1>1. CASE \E c \in Writes : conv_write(c)
  BY <1>1, StartWrite
<1>2. CASE go_on
  BY <1>2, PageInv, DoneInv, ReadInv, ReadDone DEF go_on
<1>3. CASE \E l \in Luns : gc_nand(l)
  BY <1>3, GcInv
<1>4. CASE buffer_release
  BY <1>4, ReleaseInv
<1>5. CASE \E first \in Parts, n \in 1 .. MaxRead : conv_read(first, n)
  BY <1>5, StartRead
<1>6. CASE conv_flush
  BY <1>6, FlushInv
<1>7. CASE tick
  BY <1>7, TickInv
<1>8. CASE UNCHANGED vars
  <2>1. UNCHANGED <<next_lun_avail_time, releases, wp_lun, cmd, flushed>>
    BY <1>8 DEF vars
  <2> QED BY <2>1 DEF IInv, Types, CmdShape, DiesCover, OwnOnlyInWrite, AcksCoverPrograms
<1> QED BY <1>1, <1>2, <1>3, <1>4, <1>5, <1>6, <1>7, <1>8 DEF Next

\* A flush is not answered before the program operations issued ahead of it have
\* ended, on every die of every partition, and a write that waits for the flash
\* not before its own, for any geometry, latencies and delays.
THEOREM AcksWaitForPrograms == Spec => []AcksCoverPrograms
<1>1. Init => IInv
  BY InitInv
<1>2. IInv /\ [Next]_vars => IInv'
  BY NextInv
<1>3. IInv => AcksCoverPrograms
  BY DEF IInv
<1> QED BY <1>1, <1>2, <1>3, PTL DEF Spec

(***************************************************************************)
(* Sums.  SumFunctionOnSet() adds up f over the elements of S, which it    *)
(* picks in an order of its own.                                           *)
(***************************************************************************)
Pick(s) == CHOOSE x \in s : TRUE
Added(f, h, s) == IF s = {} THEN 0 ELSE f[Pick(s)] + h[s \ {Pick(s)}]
Sums(f, S, h) == h = [s \in SUBSET S |-> Added(f, h, s)]

\* the function h of the sums over the subsets of S
SumsTo(f, S, h) ==
    /\ h \in [SUBSET S -> Int]
    /\ SumFunctionOnSet(f, S) = h[S]
    /\ \A s \in SUBSET S : h[s] = Added(f, h, s)

\* The element picked from a finite set, and the set without it.
LEMMA Picked ==
    ASSUME NEW S, IsFiniteSet(S), NEW s \in SUBSET S, s # {}
    PROVE  /\ Pick(s) \in s /\ Pick(s) \in S /\ s \ {Pick(s)} \in SUBSET S
           /\ IsFiniteSet(s) /\ Cardinality(s) \in Nat \ {0}
           /\ Cardinality(s \ {Pick(s)}) = Cardinality(s) - 1
<1>1. Pick(s) \in s
  BY DEF Pick
<1>2. IsFiniteSet(s)
  BY FS_Subset
<1>3. Cardinality(s) \in Nat /\ Cardinality(s) # 0
  BY <1>2, FS_CardinalityType, FS_EmptySet
<1>4. Cardinality(s \ {Pick(s)}) = Cardinality(s) - 1
  BY <1>1, <1>2, FS_RemoveElement
<1> QED BY <1>1, <1>2, <1>3, <1>4

\* Induction over the subsets of a finite set, in the order of the sum.
LEMMA SubsetInduction ==
    ASSUME NEW S, IsFiniteSet(S), NEW P, {} \in P,
           \A s \in SUBSET S : s # {} /\ s \ {Pick(s)} \in P => s \in P
    PROVE  SUBSET S \subseteq P
<1> DEFINE Fails == {n \in Nat : \E s \in SUBSET S : Cardinality(s) = n /\ s \notin P}
<1>1. SUFFICES ASSUME NEW t \in SUBSET S, t \notin P PROVE FALSE
  OBVIOUS
<1>2. Fails \in SUBSET Nat /\ Fails # {}
  <2>1. t # {}
    BY <1>1
  <2>2. Cardinality(t) \in Nat
    BY <2>1, Picked
  <2> QED BY <1>1, <2>2
<1>3. PICK n \in Fails : \A m \in Fails : n <= m
  BY <1>2, LeastNumber
<1>4. PICK s \in SUBSET S : Cardinality(s) = n /\ s \notin P
  BY <1>3
<1>5. s # {}
  BY <1>4
<1>6. s \ {Pick(s)} \in SUBSET S /\ Cardinality(s \ {Pick(s)}) = n - 1 /\ n \in Nat \ {0}
  BY <1>4, <1>5, Picked
<1>7. s \ {Pick(s)} \notin P
  BY <1>4, <1>5
<1>8. n - 1 \in Fails
  <2>1. n - 1 \in Nat
    BY <1>6
  <2> QED BY <1>6, <1>7, <2>1
<1> HIDE DEF Fails
<1>9. n <= n - 1
  BY <1>3, <1>8
<1> QED BY <1>6, <1>9

\* The function with the partial sums exists.
LEMMA SumsExist ==
    ASSUME NEW S, IsFiniteSet(S), NEW f \in [S -> Int]
    PROVE  \E h : Sums(f, S, h)
<1> DEFINE Good(n, h) == \A s \in SUBSET S : Cardinality(s) <= n => h[s] = Added(f, h, s)
           Fails == {n \in Nat : ~ \E h \in [SUBSET S -> Int] : Good(n, h)}
<1>1. \A s \in SUBSET S : s # {} =>
        /\ Pick(s) \in s /\ Pick(s) \in S /\ s \ {Pick(s)} \in SUBSET S
        /\ Cardinality(s) \in Nat \ {0} /\ Cardinality(s \ {Pick(s)}) = Cardinality(s) - 1
  BY Picked
<1>2. \A h \in [SUBSET S -> Int] : \A s \in SUBSET S : Added(f, h, s) \in Int
  <2>1. SUFFICES ASSUME NEW h \in [SUBSET S -> Int], NEW s \in SUBSET S PROVE Added(f, h, s) \in Int
    OBVIOUS
  <2>2. CASE s = {}
    BY <2>2 DEF Added
  <2>3. CASE s # {}
    <3>1. Pick(s) \in S /\ s \ {Pick(s)} \in SUBSET S
      BY <1>1, <2>3
    <3>2. f[Pick(s)] \in Int /\ h[s \ {Pick(s)}] \in Int
      BY <3>1
    <3> QED BY <2>3, <3>2 DEF Added
  <2> QED BY <2>2, <2>3
<1>3. Fails = {}
  <2>1. SUFFICES ASSUME Fails # {} PROVE FALSE
    OBVIOUS
  <2>2. PICK n \in Fails : \A m \in Fails : n <= m
    <3>1. Fails \in SUBSET Nat
      OBVIOUS
    <3> HIDE DEF Fails
    <3> QED BY <2>1, <3>1, LeastNumber
  <2>3. n \in Nat /\ \A h \in [SUBSET S -> Int] : ~ Good(n, h)
    BY <2>2
  <2>4. n # 0
    <3>1. SUFFICES ASSUME n = 0 PROVE FALSE
      OBVIOUS
    <3> DEFINE z == [s \in SUBSET S |-> 0]
    <3>2. z \in [SUBSET S -> Int]
      OBVIOUS
    <3>3. ASSUME NEW s \in SUBSET S, Cardinality(s) <= 0 PROVE z[s] = Added(f, z, s)
      <4>1. s = {}
        <5>1. SUFFICES ASSUME s # {} PROVE FALSE
          OBVIOUS
        <5>2. Cardinality(s) \in Nat \ {0}
          BY <1>1, <5>1
        <5> QED BY <3>3, <5>2
      <4> QED BY <4>1 DEF Added
    <3> HIDE DEF z
    <3>4. Good(0, z)
      BY <3>3
    <3> QED BY <2>3, <3>1, <3>2, <3>4
  <2>5. n - 1 \in Nat /\ n - 1 \notin Fails
    <3>1. n - 1 \in Nat /\ ~ (n <= n - 1)
      BY <2>3, <2>4
    <3> HIDE DEF Fails
    <3> QED BY <2>2, <3>1
  <2>6. PICK g \in [SUBSET S -> Int] : Good(n - 1, g)
    BY <2>5
  <2> DEFINE h == [s \in SUBSET S |-> Added(f, g, s)]
  <2>7. h \in [SUBSET S -> Int] /\ \A s \in SUBSET S : h[s] = Added(f, g, s)
    BY <1>2, <2>6
  <2> HIDE DEF h
  <2>8. ASSUME NEW s \in SUBSET S, Cardinality(s) <= n PROVE h[s] = Added(f, h, s)
    <3>1. CASE s = {}
      BY <2>7, <3>1 DEF Added
    <3>2. CASE s # {}
      <4> DEFINE t == s \ {Pick(s)}
      <4>1. t \in SUBSET S /\ Cardinality(t) <= n - 1
        <5>1. t \in SUBSET S /\ Cardinality(s) \in Nat /\ Cardinality(t) = Cardinality(s) - 1
          BY <1>1, <3>2
        <5> HIDE DEF t
        <5> QED BY <2>3, <2>8, <5>1
      <4> HIDE DEF t
      <4>2. g[t] = Added(f, g, t) /\ h[t] = Added(f, g, t)
        BY <2>6, <2>7, <4>1
      <4>3. h[s] = f[Pick(s)] + g[t]
        BY <2>7, <3>2 DEF Added, t
      <4>4. Added(f, h, s) = f[Pick(s)] + h[t]
        BY <3>2 DEF Added, t
      <4> QED BY <4>2, <4>3, <4>4
    <3> QED BY <3>1, <3>2
  <2>9. Good(n, h)
    BY <2>8
  <2> QED BY <2>3, <2>7, <2>9
<1> DEFINE N == Cardinality(S)
<1>4. N \in Nat /\ \A s \in SUBSET S : Cardinality(s) <= N
  BY FS_CardinalityType, FS_Subset
<1> HIDE DEF N
<1>5. PICK h \in [SUBSET S -> Int] : Good(N, h)
  BY <1>3, <1>4
<1>6. \A s \in SUBSET S : h[s] = Added(f, h, s)
  BY <1>4, <1>5
<1>7. h = [s \in SUBSET S |-> Added(f, h, s)]
  BY <1>5, <1>6
<1> QED BY <1>7 DEF Sums

\* A sum is the value of a function of partial sums.
LEMMA PartialSums ==
    ASSUME NEW S, IsFiniteSet(S), NEW f \in [S -> Int]
    PROVE  \E h : SumsTo(f, S, h)
<1> DEFINE h == CHOOSE g : Sums(f, S, g)
<1>1. SumFunctionOnSet(f, S) = h[S]
  BY DEF SumFunctionOnSet, FoldFunctionOnSet, MapThenFoldSet, Pick, Sums, Added
<1>2. Sums(f, S, h)
  BY SumsExist
<1> HIDE DEF h
<1>3. DOMAIN h = SUBSET S /\ \A s \in SUBSET S : h[s] = Added(f, h, s)
  BY <1>2 DEF Sums
<1> DEFINE P == {s \in SUBSET S : h[s] \in Int}
<1>4. {} \in P
  <2>1. {} \in SUBSET S /\ Added(f, h, {}) = 0
    BY DEF Added
  <2> QED BY <1>3, <2>1
<1>5. ASSUME NEW s \in SUBSET S, s # {}, s \ {Pick(s)} \in P PROVE s \in P
  <2>1. Pick(s) \in S
    BY <1>5, Picked
  <2> QED BY <1>3, <1>5, <2>1 DEF Added
<1> HIDE DEF P
<1>6. SUBSET S \subseteq P
  BY <1>4, <1>5, SubsetInduction
<1>7. h \in [SUBSET S -> Int]
  <2>1. \A s \in SUBSET S : h[s] \in Int
    BY <1>6 DEF P
  <2>2. h = [s \in SUBSET S |-> h[s]]
    BY <1>2, <1>3 DEF Sums
  <2> QED BY <2>1, <2>2
<1> QED BY <1>1, <1>3, <1>7 DEF SumsTo

\* A sum changes by as much as the one value that changes.
LEMMA SumChanges ==
    ASSUME NEW S, IsFiniteSet(S), NEW f \in [S -> Int], NEW g \in [S -> Int], NEW q \in S,
           \A x \in S : x # q => g[x] = f[x]
    PROVE  /\ SumFunctionOnSet(f, S) \in Int /\ SumFunctionOnSet(g, S) \in Int
           /\ SumFunctionOnSet(g, S) = SumFunctionOnSet(f, S) + g[q] - f[q]
<1>1. PICK a : SumsTo(f, S, a)
  BY PartialSums
<1>2. PICK b : SumsTo(g, S, b)
  BY PartialSums
<1>0. /\ a \in [SUBSET S -> Int] /\ b \in [SUBSET S -> Int]
      /\ SumFunctionOnSet(f, S) = a[S] /\ SumFunctionOnSet(g, S) = b[S]
      /\ \A s \in SUBSET S : a[s] = Added(f, a, s) /\ b[s] = Added(g, b, s)
  BY <1>1, <1>2 DEF SumsTo
<1> DEFINE P == {s \in SUBSET S : b[s] = IF q \in s THEN a[s] + g[q] - f[q] ELSE a[s]}
<1>3. {} \in P
  <2>1. {} \in SUBSET S /\ Added(f, a, {}) = 0 /\ Added(g, b, {}) = 0
    BY DEF Added
  <2> QED BY <1>0, <2>1
<1>4. ASSUME NEW s \in SUBSET S, s # {}, s \ {Pick(s)} \in P PROVE s \in P
  <2> DEFINE x == Pick(s)
             t == s \ {x}
  <2>1. x \in s /\ x \in S /\ t \in SUBSET S
    BY <1>4, Picked
  <2>2. a[s] = f[x] + a[t] /\ b[s] = g[x] + b[t]
    BY <1>0, <1>4 DEF Added
  <2>3. b[t] = IF q \in t THEN a[t] + g[q] - f[q] ELSE a[t]
    BY <1>4
  <2>4. (q \in s <=> q \in t \/ q = x) /\ x \notin t
    BY <2>1
  <2>5. f[x] \in Int /\ g[x] \in Int /\ f[q] \in Int /\ g[q] \in Int /\ a[t] \in Int /\ b[t] \in Int
    BY <1>0, <2>1
  <2> HIDE DEF x, t
  <2>6. CASE q = x
    BY <2>2, <2>3, <2>4, <2>5, <2>6
  <2>7. CASE q # x
    <3>1. g[x] = f[x]
      BY <2>1, <2>7
    <3> QED BY <2>2, <2>3, <2>4, <2>5, <2>7, <3>1
  <2> QED BY <2>6, <2>7
<1>5. S \in P
  <2> HIDE DEF P
  <2>1. SUBSET S \subseteq P
    BY <1>3, <1>4, SubsetInduction
  <2> QED BY <2>1
<1>6. b[S] = a[S] + g[q] - f[q] /\ a[S] \in Int /\ b[S] \in Int
  BY <1>0, <1>5
<1> QED BY <1>0, <1>6

\* A sum of zeros.
LEMMA SumOfZeros ==
    ASSUME NEW S, IsFiniteSet(S), NEW f \in [S -> Int], \A x \in S : f[x] = 0
    PROVE  SumFunctionOnSet(f, S) = 0
<1>1. PICK a : SumsTo(f, S, a)
  BY PartialSums
<1>0. /\ a \in [SUBSET S -> Int] /\ SumFunctionOnSet(f, S) = a[S]
      /\ \A s \in SUBSET S : a[s] = Added(f, a, s)
  BY <1>1 DEF SumsTo
<1> DEFINE P == {s \in SUBSET S : a[s] = 0}
<1>2. {} \in P
  <2>1. {} \in SUBSET S /\ Added(f, a, {}) = 0
    BY DEF Added
  <2> QED BY <1>0, <2>1
<1>3. ASSUME NEW s \in SUBSET S, s # {}, s \ {Pick(s)} \in P PROVE s \in P
  <2>1. Pick(s) \in S
    BY <1>3, Picked
  <2> QED BY <1>0, <1>3, <2>1 DEF Added
<1> HIDE DEF P
<1>4. SUBSET S \subseteq P
  BY <1>2, <1>3, SubsetInduction
<1> QED BY <1>0, <1>4 DEF P


\* Any element may be added last.
LEMMA SumAnyOrder ==
    ASSUME NEW S, IsFiniteSet(S), NEW f \in [S -> Int], NEW h, SumsTo(f, S, h),
           NEW s \in SUBSET S, NEW x \in s
    PROVE  h[s] = f[x] + h[s \ {x}]
<1> DEFINE Wrong(t) == \E y \in t : h[t] # f[y] + h[t \ {y}]
           Fails == {n \in Nat : \E t \in SUBSET S : Cardinality(t) = n /\ Wrong(t)}
<1>1. h \in [SUBSET S -> Int] /\ \A t \in SUBSET S : h[t] = Added(f, h, t)
  BY DEF SumsTo
<1>2. SUFFICES ASSUME Wrong(s) PROVE FALSE
  OBVIOUS
<1>3. Fails \in SUBSET Nat /\ Fails # {}
  <2>1. Cardinality(s) \in Nat
    BY Picked
  <2> QED BY <1>2, <2>1
<1>4. PICK n \in Fails : \A m \in Fails : n <= m
  <2> HIDE DEF Fails
  <2> QED BY <1>3, LeastNumber
<1>5. PICK t \in SUBSET S : Cardinality(t) = n /\ Wrong(t)
  BY <1>4
<1>6. PICK y \in t : h[t] # f[y] + h[t \ {y}]
  BY <1>5
<1> DEFINE p == Pick(t)
           a == t \ {p}
           b == t \ {y}
           c == t \ {p, y}
<1>7. /\ t # {} /\ p \in t /\ p \in S /\ a \in SUBSET S /\ Cardinality(a) = n - 1
      /\ n \in Nat \ {0} /\ IsFiniteSet(t)
  <2>1. t # {}
    BY <1>6
  <2> QED BY <1>5, <2>1, Picked
<1>8. b \in SUBSET S /\ Cardinality(b) = n - 1
  <2>1. Cardinality(t \ {y}) = Cardinality(t) - 1
    BY <1>6, <1>7, FS_RemoveElement
  <2> QED BY <1>5, <2>1
<1>9. ~ Wrong(a) /\ ~ Wrong(b)
  <2>1. n - 1 \in Nat /\ ~ (n <= n - 1)
    BY <1>7
  <2>2. n - 1 \notin Fails
    <3> HIDE DEF Fails
    <3> QED BY <1>4, <2>1
  <2> HIDE DEF Wrong, a, b
  <2> QED BY <1>7, <1>8, <2>1, <2>2
<1>10. h[t] = f[p] + h[a]
  BY <1>1, <1>7 DEF Added
<1>11. p # y
  BY <1>6, <1>10
<1>12. y \in a /\ a \ {y} = c /\ p \in b /\ b \ {p} = c /\ c \in SUBSET S
  BY <1>6, <1>7, <1>11
<1>13. h[a] = f[y] + h[c] /\ h[b] = f[p] + h[c]
  <2>1. h[a] = f[y] + h[a \ {y}] /\ h[b] = f[p] + h[b \ {p}]
    <3> HIDE DEF a, b, c
    <3> QED BY <1>9, <1>12
  <2> QED BY <1>12, <2>1
<1>14. f[p] \in Int /\ f[y] \in Int /\ h[c] \in Int
  BY <1>1, <1>5, <1>6, <1>7, <1>12
<1> HIDE DEF a, c, p
<1>15. h[t] = f[y] + h[b]
  BY <1>10, <1>13, <1>14
<1> QED BY <1>6, <1>15

\* Functions that agree on a set have the same sum over it.
LEMMA SumAgree ==
    ASSUME NEW T, IsFiniteSet(T), NEW S \in SUBSET T, NEW f \in [S -> Int], NEW g \in [T -> Int],
           \A x \in S : g[x] = f[x], NEW k, SumsTo(g, T, k)
    PROVE  SumFunctionOnSet(f, S) = k[S] /\ k[S] \in Int
<1>1. IsFiniteSet(S)
  BY FS_Subset
<1>2. PICK h : SumsTo(f, S, h)
  BY <1>1, PartialSums
<1>3. /\ h \in [SUBSET S -> Int] /\ \A s \in SUBSET S : h[s] = Added(f, h, s)
      /\ k \in [SUBSET T -> Int] /\ \A s \in SUBSET T : k[s] = Added(g, k, s)
      /\ SumFunctionOnSet(f, S) = h[S]
  BY <1>2 DEF SumsTo
<1> DEFINE P == {s \in SUBSET S : h[s] = k[s]}
<1>4. {} \in P
  <2>1. {} \in SUBSET S /\ {} \in SUBSET T /\ Added(f, h, {}) = 0 /\ Added(g, k, {}) = 0
    BY DEF Added
  <2> QED BY <1>3, <2>1
<1>5. ASSUME NEW s \in SUBSET S, s # {}, s \ {Pick(s)} \in P PROVE s \in P
  <2> DEFINE x == Pick(s)
             t == s \ {x}
  <2>1. x \in S /\ t \in SUBSET S
    BY <1>1, <1>5, Picked
  <2>2. h[s] = f[x] + h[t] /\ k[s] = g[x] + k[t]
    <3>1. s \in SUBSET T
      OBVIOUS
    <3> QED BY <1>3, <1>5, <3>1 DEF Added
  <2>3. g[x] = f[x] /\ h[t] = k[t]
    BY <1>5, <2>1
  <2> HIDE DEF x, t
  <2> QED BY <2>2, <2>3
<1>6. S \in P
  <2> HIDE DEF P
  <2>1. SUBSET S \subseteq P
    BY <1>1, <1>4, <1>5, SubsetInduction
  <2> QED BY <2>1
<1>7. k[S] \in Int
  BY <1>3
<1> QED BY <1>3, <1>6, <1>7

\* A sum with one more element.
LEMMA SumMore ==
    ASSUME NEW T, IsFiniteSet(T), NEW x \in T, NEW S, S = T \ {x}, NEW f \in [S -> Int],
           NEW g \in [T -> Int], \A y \in S : g[y] = f[y]
    PROVE  /\ SumFunctionOnSet(f, S) \in Int
           /\ SumFunctionOnSet(g, T) = SumFunctionOnSet(f, S) + g[x]
<1>1. PICK k : SumsTo(g, T, k)
  BY PartialSums
<1>2. S \in SUBSET T /\ T \in SUBSET T
  OBVIOUS
<1>3. SumFunctionOnSet(f, S) = k[S] /\ k[S] \in Int
  BY <1>1, <1>2, SumAgree
<1>4. k[T] = g[x] + k[S]
  BY <1>1, <1>2, SumAnyOrder
<1>5. SumFunctionOnSet(g, T) = k[T] /\ g[x] \in Int
  BY <1>1 DEF SumsTo
<1> QED BY <1>3, <1>4, <1>5

\* A sum of natural numbers, one of them positive.
LEMMA SumPositive ==
    ASSUME NEW S, IsFiniteSet(S), NEW f \in [S -> Nat], NEW x \in S, f[x] > 0
    PROVE  SumFunctionOnSet(f, S) \in Nat /\ SumFunctionOnSet(f, S) > 0
<1>1. f \in [S -> Int]
  OBVIOUS
<1>2. PICK h : SumsTo(f, S, h)
  BY <1>1, PartialSums
<1>3. /\ h \in [SUBSET S -> Int] /\ \A s \in SUBSET S : h[s] = Added(f, h, s)
      /\ SumFunctionOnSet(f, S) = h[S]
  BY <1>2 DEF SumsTo
<1> DEFINE P == {s \in SUBSET S : h[s] \in Nat}
<1>4. {} \in P
  <2>1. {} \in SUBSET S /\ Added(f, h, {}) = 0
    BY DEF Added
  <2> QED BY <1>3, <2>1
<1>5. ASSUME NEW s \in SUBSET S, s # {}, s \ {Pick(s)} \in P PROVE s \in P
  <2>1. Pick(s) \in S
    BY <1>5, Picked
  <2> QED BY <1>3, <1>5, <2>1 DEF Added
<1>6. \A s \in SUBSET S : h[s] \in Nat
  <2>1. SUBSET S \subseteq P
    <3> HIDE DEF P
    <3> QED BY <1>4, <1>5, SubsetInduction
  <2> QED BY <2>1
<1>7. h[S] = f[x] + h[S \ {x}]
  <2>1. S \in SUBSET S
    OBVIOUS
  <2> QED BY <1>1, <1>2, <2>1, SumAnyOrder
<1>8. S \ {x} \in SUBSET S /\ f[x] \in Nat
  OBVIOUS
<1> QED BY <1>3, <1>6, <1>7, <1>8

(***************************************************************************)
(* Bags.                                                                   *)
(***************************************************************************)
FiniteBag(B) == IsABag(B) /\ IsFiniteSet(DOMAIN B)

\* The cardinality of a bag is the sum of its copies.
LEMMA BagCount ==
    ASSUME NEW B
    PROVE  BagCardinality(B) = SumFunctionOnSet(B, DOMAIN B)
BY DEF BagCardinality, SumFunctionOnSet, FoldFunctionOnSet, MapThenFoldSet

\* The copies in a bag are counted by natural numbers.
LEMMA BagFacts ==
    ASSUME NEW B, FiniteBag(B)
    PROVE  /\ B \in [DOMAIN B -> Int] /\ \A e \in DOMAIN B : B[e] \in Nat /\ B[e] > 0
           /\ BagCardinality(B) \in Int
<1>1. B \in [DOMAIN B -> Int] /\ \A e \in DOMAIN B : B[e] \in Nat /\ B[e] > 0
  BY DEF FiniteBag, IsABag
<1>2. PICK h : SumsTo(B, DOMAIN B, h)
  BY <1>1, PartialSums DEF FiniteBag
<1>3. SumFunctionOnSet(B, DOMAIN B) \in Int
  BY <1>2 DEF SumsTo
<1> QED BY <1>1, <1>3, BagCount

\* One copy more.
LEMMA BagOneMore ==
    ASSUME NEW B, FiniteBag(B), NEW r, NEW C, C = B (+) SetToBag({r})
    PROVE  FiniteBag(C) /\ BagCardinality(C) = BagCardinality(B) + 1
<1> DEFINE D == DOMAIN B
           T == D \cup {r}
<1>1. C = [e \in T |-> (IF e \in D THEN B[e] ELSE 0) + (IF e \in {r} THEN 1 ELSE 0)]
  <2>1. DOMAIN SetToBag({r}) = {r} /\ \A e \in {r} : SetToBag({r})[e] = 1
    BY DEF SetToBag
  <2> QED BY <2>1 DEF (+)
<1>2. B \in [D -> Int] /\ \A e \in D : B[e] \in Nat /\ B[e] > 0
  BY BagFacts
<1>3. /\ DOMAIN C = T /\ C \in [T -> Int] /\ \A e \in T : C[e] \in Nat /\ C[e] > 0
      /\ \A e \in D : e # r => C[e] = B[e]
      /\ C[r] = (IF r \in D THEN B[r] ELSE 0) + 1
  <2>1. DOMAIN C = T /\ \A e \in T : C[e] = (IF e \in D THEN B[e] ELSE 0) + (IF e \in {r} THEN 1 ELSE 0)
    BY <1>1
  <2>2. \A e \in T : C[e] \in Nat /\ C[e] > 0
    BY <1>2, <2>1
  <2>3. C \in [T -> Int]
    BY <1>1, <2>1, <2>2
  <2>4. \A e \in D : e # r => C[e] = B[e]
    BY <1>2, <2>1
  <2>5. C[r] = (IF r \in D THEN B[r] ELSE 0) + 1
    BY <2>1
  <2> QED BY <2>1, <2>2, <2>3, <2>4, <2>5
<1>4. IsFiniteSet(D) /\ IsFiniteSet(T)
  BY FS_AddElement DEF FiniteBag
<1>5. FiniteBag(C)
  BY <1>3, <1>4 DEF FiniteBag, IsABag
<1>6. BagCardinality(C) = SumFunctionOnSet(C, T) /\ BagCardinality(B) = SumFunctionOnSet(B, D)
  BY <1>3, BagCount
<1>7. CASE r \in D
  <2>1. T = D
    BY <1>7
  <2>2. C \in [D -> Int] /\ \A e \in D : e # r => C[e] = B[e]
    BY <1>3, <2>1
  <2>3. /\ SumFunctionOnSet(B, D) \in Int
        /\ SumFunctionOnSet(C, D) = SumFunctionOnSet(B, D) + C[r] - B[r]
    <3> HIDE DEF D
    <3> QED BY <1>2, <1>4, <1>7, <2>2, SumChanges
  <2>4. C[r] = B[r] + 1 /\ B[r] \in Int
    BY <1>2, <1>3, <1>7
  <2>5. SumFunctionOnSet(C, D) = SumFunctionOnSet(B, D) + 1
    <3> DEFINE x == SumFunctionOnSet(B, D)
               y == SumFunctionOnSet(C, D)
    <3>1. x \in Int /\ y = x + C[r] - B[r]
      BY <2>3
    <3> HIDE DEF x, y
    <3>2. y = x + 1
      BY <2>4, <3>1
    <3> QED BY <3>2 DEF x, y
  <2> QED BY <1>5, <1>6, <2>1, <2>5
<1>8. CASE r \notin D
  <2>1. D = T \ {r} /\ r \in T
    BY <1>8
  <2>2. \A e \in D : C[e] = B[e]
    BY <1>3, <1>8
  <2>3. C[r] = 1
    BY <1>3, <1>8
  <2>4. SumFunctionOnSet(C, T) = SumFunctionOnSet(B, D) + C[r]
    <3>1. C \in [T -> Int]
      BY <1>3
    <3> HIDE DEF D, T
    <3> QED BY <1>2, <1>4, <2>1, <2>2, <3>1, SumMore
  <2> QED BY <1>5, <1>6, <2>3, <2>4
<1> QED BY <1>7, <1>8

\* One copy less.
LEMMA BagOneLess ==
    ASSUME NEW B, FiniteBag(B), NEW r \in DOMAIN B, NEW C, C = B (-) SetToBag({r})
    PROVE  FiniteBag(C) /\ BagCardinality(C) = BagCardinality(B) - 1
<1> DEFINE D == DOMAIN B
           T == {d \in D : d # r \/ B[r] > 1}
<1>1. B \in [D -> Int] /\ \A e \in D : B[e] \in Nat /\ B[e] > 0
  BY BagFacts
<1>2. /\ DOMAIN C = T /\ \A e \in T : C[e] = IF e = r THEN B[e] - 1 ELSE B[e]
  <2> DEFINE A == [e \in D |-> IF e \in {r} THEN B[e] - 1 ELSE B[e]]
  <2>1. C = [e \in {d \in DOMAIN A : A[d] > 0} |-> A[e]]
    <3>1. DOMAIN SetToBag({r}) = {r} /\ \A e \in {r} : SetToBag({r})[e] = 1
      BY DEF SetToBag
    <3> QED BY <3>1 DEF (-)
  <2>2. DOMAIN A = D /\ \A d \in D : A[d] = IF d = r THEN B[d] - 1 ELSE B[d]
    OBVIOUS
  <2> HIDE DEF A
  <2>3. {d \in DOMAIN A : A[d] > 0} = T
    BY <1>1, <2>2
  <2> QED BY <2>1, <2>2, <2>3
<1>3. \A e \in T : e \in D /\ C[e] \in Nat /\ C[e] > 0
  <2>1. SUFFICES ASSUME NEW e \in T PROVE e \in D /\ C[e] \in Nat /\ C[e] > 0
    OBVIOUS
  <2>2. e \in D /\ B[e] \in Nat /\ B[e] > 0 /\ (e = r => B[e] > 1)
    BY <1>1
  <2>3. C[e] = IF e = r THEN B[e] - 1 ELSE B[e]
    BY <1>2
  <2> QED BY <2>2, <2>3
<1>4. C \in [T -> Int]
  <2>1. C = [e \in T |-> C[e]]
    BY <1>2 DEF (-)
  <2> QED BY <1>3, <2>1
<1>5. IsFiniteSet(D) /\ IsFiniteSet(T)
  <2>1. T \in SUBSET D
    OBVIOUS
  <2> QED BY <2>1, FS_Subset DEF FiniteBag
<1>6. FiniteBag(C)
  BY <1>2, <1>3, <1>4, <1>5 DEF FiniteBag, IsABag
<1>7. BagCardinality(C) = SumFunctionOnSet(C, T) /\ BagCardinality(B) = SumFunctionOnSet(B, D)
  BY <1>2, BagCount
<1>8. B[r] \in Nat /\ B[r] > 0
  BY <1>1
<1>9. CASE B[r] > 1
  <2>1. T = D
    BY <1>9
  <2>2. C \in [D -> Int] /\ \A e \in D : e # r => C[e] = B[e]
    BY <1>2, <1>4, <2>1
  <2>3. /\ SumFunctionOnSet(B, D) \in Int
        /\ SumFunctionOnSet(C, D) = SumFunctionOnSet(B, D) + C[r] - B[r]
    <3>1. r \in D
      OBVIOUS
    <3> HIDE DEF D
    <3> QED BY <1>1, <1>5, <2>2, <3>1, SumChanges
  <2>4. C[r] = B[r] - 1
    BY <1>2, <2>1
  <2>5. SumFunctionOnSet(C, D) = SumFunctionOnSet(B, D) - 1
    <3> DEFINE x == SumFunctionOnSet(B, D)
               y == SumFunctionOnSet(C, D)
    <3>1. x \in Int /\ y = x + C[r] - B[r]
      BY <2>3
    <3> HIDE DEF x, y
    <3>2. y = x - 1
      BY <1>8, <2>4, <3>1
    <3> QED BY <3>2 DEF x, y
  <2> QED BY <1>6, <1>7, <2>1, <2>5
<1>10. CASE B[r] = 1
  <2>1. T = D \ {r} /\ r \in D
    BY <1>10
  <2>2. \A e \in T : B[e] = C[e]
    BY <1>2, <2>1
  <2>3. SumFunctionOnSet(C, T) \in Int /\ SumFunctionOnSet(B, D) = SumFunctionOnSet(C, T) + B[r]
    <3> HIDE DEF D, T
    <3> QED BY <1>1, <1>4, <1>5, <2>1, <2>2, SumMore
  <2>4. SumFunctionOnSet(C, T) = SumFunctionOnSet(B, D) - 1
    <3> DEFINE x == SumFunctionOnSet(B, D)
               y == SumFunctionOnSet(C, T)
    <3>1. y \in Int /\ x = y + 1
      BY <1>10, <2>3
    <3> HIDE DEF x, y
    <3>2. y = x - 1
      BY <3>1
    <3> QED BY <3>2 DEF x, y
  <2> QED BY <1>6, <1>7, <2>4
<1> QED BY <1>8, <1>9, <1>10

\* the copies of the elements that m takes to e, and the bag of all images
Sent(B, m, e) == [d \in DOMAIN B |-> IF m[d] = e THEN B[d] ELSE 0]
Moved(B, m) == [e \in {m[d] : d \in DOMAIN B} |-> BagCardinality(Sent(B, m, e))]

\* A bag and its image have equally many elements.
LEMMA BagMoved ==
    ASSUME NEW B, FiniteBag(B), NEW m, NEW C, C = Moved(B, m)
    PROVE  FiniteBag(C) /\ BagCardinality(C) = BagCardinality(B)
<1> DEFINE D == DOMAIN B
           E == {m[d] : d \in D}
           H == [e \in E |-> CHOOSE h : SumsTo(Sent(B, m, e), D, h)]
           G(s) == [e \in E |-> H[e][s]]
<1>1. IsFiniteSet(D) /\ B \in [D -> Int] /\ \A d \in D : B[d] \in Nat /\ B[d] > 0
  BY BagFacts DEF FiniteBag
<1>2. IsFiniteSet(E)
  <2> DEFINE f == [d \in D |-> m[d]]
  <2>1. f \in Surjection(D, E)
    BY DEF Surjection
  <2> HIDE DEF f, D, E
  <2> QED BY <1>1, <2>1, FS_Surjection
<1>3. ASSUME NEW e
      PROVE  /\ Sent(B, m, e) \in [D -> Nat] /\ Sent(B, m, e) \in [D -> Int]
             /\ \A d \in D : Sent(B, m, e)[d] = IF m[d] = e THEN B[d] ELSE 0
  BY <1>1 DEF Sent
<1>4. ASSUME NEW e \in E PROVE SumsTo(Sent(B, m, e), D, H[e])
  <2>1. \E h : SumsTo(Sent(B, m, e), D, h)
    BY <1>1, <1>3, PartialSums
  <2>2. H[e] = CHOOSE h : SumsTo(Sent(B, m, e), D, h)
    OBVIOUS
  <2> HIDE DEF H
  <2> QED BY <2>1, <2>2
<1> HIDE DEF H
<1>5. DOMAIN C = E /\ \A e \in E : C[e] = BagCardinality(Sent(B, m, e))
  BY DEF Moved
<1>6. ASSUME NEW e \in E
      PROVE  /\ H[e] \in [SUBSET D -> Int] /\ C[e] = H[e][D]
             /\ \A s \in SUBSET D : H[e][s] = Added(Sent(B, m, e), H[e], s)
             /\ C[e] = SumFunctionOnSet(Sent(B, m, e), D)
  <2>1. DOMAIN Sent(B, m, e) = D
    BY DEF Sent
  <2>2. C[e] = SumFunctionOnSet(Sent(B, m, e), D)
    BY <1>5, <2>1, BagCount
  <2> HIDE DEF D, E
  <2> QED BY <1>4, <2>2 DEF SumsTo
<1>7. \A e \in E : C[e] \in Nat /\ C[e] > 0
  <2>1. SUFFICES ASSUME NEW e \in E PROVE C[e] \in Nat /\ C[e] > 0
    OBVIOUS
  <2>2. PICK d \in D : m[d] = e
    BY <2>1
  <2>3. Sent(B, m, e)[d] > 0
    BY <1>1, <1>3, <2>2
  <2>4. Sent(B, m, e) \in [D -> Nat]
    BY <1>3
  <2>5. SumFunctionOnSet(Sent(B, m, e), D) \in Nat /\ SumFunctionOnSet(Sent(B, m, e), D) > 0
    <3> HIDE DEF D
    <3> QED BY <1>1, <2>2, <2>3, <2>4, SumPositive
  <2> QED BY <1>6, <2>5
<1>8. C \in [E -> Int] /\ FiniteBag(C)
  <2>1. C = [e \in E |-> C[e]]
    BY <1>5 DEF Moved
  <2> HIDE DEF E
  <2> QED BY <1>2, <1>5, <1>7, <2>1 DEF FiniteBag, IsABag
<1>9. C = G(D)
  <2>1. C = [e \in E |-> C[e]]
    BY <1>5 DEF Moved
  <2>2. \A e \in E : C[e] = H[e][D]
    BY <1>6
  <2> HIDE DEF E
  <2> QED BY <2>1, <2>2
<1>10. PICK k : SumsTo(B, D, k)
  BY <1>1, PartialSums
<1>11. /\ k \in [SUBSET D -> Int] /\ SumFunctionOnSet(B, D) = k[D]
       /\ \A s \in SUBSET D : k[s] = Added(B, k, s)
  BY <1>10 DEF SumsTo
<1>12. \A s \in SUBSET D : G(s) \in [E -> Int] /\ \A e \in E : G(s)[e] = H[e][s]
  BY <1>6
<1> DEFINE P == {s \in SUBSET D : SumFunctionOnSet(G(s), E) = k[s]}
<1>13. {} \in P
  <2>1. {} \in SUBSET D /\ k[{}] = 0
    BY <1>11 DEF Added
  <2>2. \A e \in E : H[e][{}] = 0
    <3>1. SUFFICES ASSUME NEW e \in E PROVE H[e][{}] = 0
      OBVIOUS
    <3>2. H[e][{}] = Added(Sent(B, m, e), H[e], {})
      BY <1>6, <2>1
    <3> QED BY <3>2 DEF Added
  <2> DEFINE g == G({})
  <2>3. g \in [E -> Int] /\ \A e \in E : g[e] = 0
    BY <1>12, <2>1, <2>2
  <2> HIDE DEF g, E
  <2>4. SumFunctionOnSet(g, E) = 0
    BY <1>2, <2>3, SumOfZeros
  <2> QED BY <2>1, <2>4 DEF g, E
<1>14. ASSUME NEW s \in SUBSET D, s # {}, s \ {Pick(s)} \in P PROVE s \in P
  <2> DEFINE x == Pick(s)
             t == s \ {x}
             f == G(t)
             g == G(s)
  <2>1. x \in D /\ t \in SUBSET D
    BY <1>1, <1>14, Picked
  <2>2. k[s] = B[x] + k[t] /\ B[x] \in Int
    BY <1>1, <1>11, <1>14, <2>1 DEF Added
  <2>3. SumFunctionOnSet(f, E) = k[t]
    BY <1>14
  <2>4. f \in [E -> Int] /\ g \in [E -> Int]
    BY <1>12, <2>1
  <2>5. ASSUME NEW e \in E PROVE g[e] = (IF m[x] = e THEN B[x] ELSE 0) + f[e] /\ f[e] \in Int
    <3>1. H[e][s] = Sent(B, m, e)[x] + H[e][t] /\ H[e][t] \in Int
      BY <1>6, <1>14, <2>1 DEF Added
    <3>2. Sent(B, m, e)[x] = IF m[x] = e THEN B[x] ELSE 0
      BY <1>3, <2>1
    <3>3. g[e] = H[e][s] /\ f[e] = H[e][t]
      BY <1>12, <2>1
    <3> HIDE DEF x, t, f, g
    <3> QED BY <3>1, <3>2, <3>3
  <2>6. m[x] \in E
    BY <2>1
  <2> DEFINE q == m[x]
  <2> HIDE DEF E, f, g, x, t
  <2>7. /\ q \in E /\ \A e \in E : e # q => g[e] = f[e]
        /\ g[q] = B[x] + f[q] /\ f[q] \in Int
    BY <2>2, <2>5, <2>6
  <2> HIDE DEF q
  <2>8. SumFunctionOnSet(f, E) \in Int /\ SumFunctionOnSet(g, E) = SumFunctionOnSet(f, E) + g[q] - f[q]
    BY <1>2, <2>4, <2>7, SumChanges
  <2>9. SumFunctionOnSet(g, E) = k[s]
    <3> DEFINE a == SumFunctionOnSet(f, E)
               b == SumFunctionOnSet(g, E)
    <3>1. a \in Int /\ b = a + g[q] - f[q] /\ a = k[t]
      BY <2>3, <2>8
    <3> HIDE DEF a, b
    <3>2. b = k[s]
      BY <2>2, <2>7, <3>1
    <3> QED BY <3>2 DEF b
  <2> QED BY <2>9 DEF g, E
<1>15. D \in P
  <2> HIDE DEF P
  <2>1. SUBSET D \subseteq P
    BY <1>1, <1>13, <1>14, SubsetInduction
  <2> QED BY <2>1
<1>16. SumFunctionOnSet(C, E) = SumFunctionOnSet(B, D)
  BY <1>9, <1>11, <1>15
<1>17. BagCardinality(C) = SumFunctionOnSet(C, E) /\ BagCardinality(B) = SumFunctionOnSet(B, D)
  BY <1>5, BagCount
<1> QED BY <1>8, <1>16, <1>17

(***************************************************************************)
(* The balance of the write buffer.                                        *)
(***************************************************************************)
\* sectors of the pages the command has still to place
Held == IF cmd.op = "write" THEN cmd.left * SecsPerPg ELSE 0

\* the sectors are all accounted for
InBalance ==
    remaining + PgsPerOneshot * SecsPerPg * BagCardinality(releases)
      + SecsPerPg * SumFunctionOnSet(open_pgs, Parts) + Held = BufSize + gained - lost

BufferInv ==
    /\ FiniteBag(releases)
    /\ remaining \in Nat /\ gained \in 0 .. MaxGained /\ lost \in Nat
    /\ open_pgs \in [Parts -> 0 .. PgsPerOneshot - 1]
    /\ InBalance

\* The parameters, as numbers.
LEMMA Sizes ==
    /\ SecsPerPg \in Nat /\ SecsPerPg > 0 /\ PgsPerOneshot \in Nat /\ PgsPerOneshot > 0
    /\ NrParts \in Nat /\ NrParts > 0 /\ MaxGained \in Nat /\ BufSize \in Nat /\ IsFiniteSet(Parts)
<1>1. /\ SecsPerPg \in Nat /\ SecsPerPg > 0 /\ PgsPerOneshot \in Nat /\ PgsPerOneshot > 0
      /\ NrParts \in Nat /\ NrParts > 0 /\ MaxGained \in Nat /\ BufSize \in Nat
  BY TimingAssumption
<1>2. IsFiniteSet(0 .. NrParts - 1)
  BY <1>1, FS_Interval
<1> QED BY <1>1, <1>2 DEF Parts

\* Division with remainder.
LEMMA Division ==
    ASSUME NEW n \in Nat \ {0}, NEW a \in Nat
    PROVE  \E d \in Nat : \E m \in 0 .. n - 1 : d = a \div n /\ a = d * n + m
<1> DEFINE d == a \div n
           m == a % n
<1>1. d \in Nat /\ m \in 0 .. n - 1 /\ d = a \div n /\ m = a % n
  OBVIOUS
<1> HIDE DEF d, m
<1>2. a = d * n + m
  BY <1>1
<1> QED BY <1>1, <1>2

\* The pages of a write hold its sectors.
LEMMA PagesHold ==
    ASSUME NEW w \in Writes
    PROVE  pages(w) \in Int /\ w.nr \in Nat /\ partial(w) \in Nat /\ partial(w) = pages(w) * SecsPerPg - w.nr
<1> DEFINE S == SecsPerPg
           a == w.lba
           b == w.lba + w.nr - 1
<1>1. a \in Nat /\ b \in Nat /\ w.nr \in Nat /\ b = a + w.nr - 1
  <2>1. w.lba \in Nat /\ w.nr \in Nat /\ w.nr >= 1
    BY DEF Writes
  <2> QED BY <2>1
<1>2. S \in Nat \ {0}
  BY Sizes
<1>3. start_lpn(w) = a \div S /\ end_lpn(w) = b \div S
  BY DEF start_lpn, end_lpn
<1> HIDE DEF a, b, S
<1>4. PICK c \in Nat : \E m \in 0 .. S - 1 : c = a \div S /\ a = c * S + m
  BY <1>1, <1>2, Division
<1>5. PICK r \in 0 .. S - 1 : c = a \div S /\ a = c * S + r
  BY <1>4
<1>6. PICK d \in Nat : \E m \in 0 .. S - 1 : d = b \div S /\ b = d * S + m
  BY <1>1, <1>2, Division
<1>7. PICK t \in 0 .. S - 1 : d = b \div S /\ b = d * S + t
  BY <1>6
<1>8. (d - c + 1) * S = d * S - c * S + S /\ c * S \in Int /\ d * S \in Int
  BY <1>2
<1> DEFINE x == c * S
           y == d * S
           z == (d - c + 1) * S
<1>9. z = y - x + S /\ x \in Int /\ y \in Int /\ a = x + r /\ b = y + t
  BY <1>5, <1>7, <1>8
<1> HIDE DEF x, y, z
<1>10. z - w.nr \in Nat
  BY <1>1, <1>2, <1>9
<1>11. pages(w) = d - c + 1 /\ pages(w) \in Int
  BY <1>3, <1>5, <1>7 DEF pages
<1>12. partial(w) = z - w.nr
  BY <1>11 DEF partial, z, S
<1> QED BY <1>1, <1>10, <1>11, <1>12 DEF partial

\* What is counted is a number.
LEMMA BufferFacts ==
    ASSUME IInv, BufferInv
    PROVE  /\ BagCardinality(releases) \in Int /\ SumFunctionOnSet(open_pgs, Parts) \in Int
           /\ remaining \in Nat /\ gained \in Nat /\ lost \in Nat /\ Held \in Int
           /\ cmd.op = "write" => cmd.left \in Int
<1>1. BagCardinality(releases) \in Int
  BY BagFacts DEF BufferInv
<1>2. SumFunctionOnSet(open_pgs, Parts) \in Int
  <2>1. open_pgs \in [Parts -> Int]
    BY Sizes DEF BufferInv
  <2>2. PICK h : SumsTo(open_pgs, Parts, h)
    BY <2>1, Sizes, PartialSums
  <2> QED BY <2>2 DEF SumsTo
<1>3. cmd.op = "write" => cmd.left \in Int
  BY DEF IInv, Types, CmdShape, NoCmd
<1>4. Held \in Int
  BY <1>3, Sizes DEF Held
<1> QED BY <1>1, <1>2, <1>3, <1>4 DEF BufferInv

\* The steps that neither allocate, place nor release a page.
LEMMA BufferQuiet ==
    ASSUME IInv, BufferInv, UNCHANGED <<remaining, open_pgs, gained, lost>>,
           FiniteBag(releases'), BagCardinality(releases') = BagCardinality(releases), Held' = Held
    PROVE  BufferInv'
BY DEF BufferInv, InBalance

\* Operations that only change their kind or come nearer stay as many.
LEMMA SameReleases ==
    ASSUME BufferInv,
           \/ releases' = releases
           \/ \E old, new : releases' = reassigned(old, new)
           \/ releases' = BagOfAll(LAMBDA r : [r EXCEPT !.time = later(@ - 1, 0)], releases)
    PROVE  FiniteBag(releases') /\ BagCardinality(releases') = BagCardinality(releases)
<1>1. FiniteBag(releases)
  BY DEF BufferInv
<1>2. CASE releases' = releases
  BY <1>1, <1>2
<1>3. ASSUME NEW old, NEW new, releases' = reassigned(old, new)
      PROVE  FiniteBag(releases') /\ BagCardinality(releases') = BagCardinality(releases)
  <2> DEFINE D == DOMAIN releases
             F(r) == IF r.of \in old THEN [r EXCEPT !.of = new] ELSE r
             m == [r \in D |-> F(r)]
  <2>1. releases' = [e \in {F(d) : d \in D} |->
                       BagCardinality([d \in D |-> IF F(d) = e THEN releases[d] ELSE 0])]
    BY <1>3 DEF reassigned, BagOfAll, BagToSet, BagCardinality
  <2>2. \A d \in D : m[d] = F(d)
    OBVIOUS
  <2> HIDE DEF F, m
  <2>3. {m[d] : d \in D} = {F(d) : d \in D}
    BY <2>2
  <2>4. \A e : Sent(releases, m, e) = [d \in D |-> IF F(d) = e THEN releases[d] ELSE 0]
    BY <2>2 DEF Sent
  <2>5. releases' = Moved(releases, m)
    BY <2>1, <2>3, <2>4 DEF Moved
  <2> QED BY <1>1, <2>5, BagMoved
<1>4. CASE releases' = BagOfAll(LAMBDA r : [r EXCEPT !.time = later(@ - 1, 0)], releases)
  <2> DEFINE D == DOMAIN releases
             F(r) == [r EXCEPT !.time = later(@ - 1, 0)]
             m == [r \in D |-> F(r)]
  <2>1. releases' = [e \in {F(d) : d \in D} |->
                       BagCardinality([d \in D |-> IF F(d) = e THEN releases[d] ELSE 0])]
    BY <1>4 DEF BagOfAll, BagToSet, BagCardinality
  <2>2. \A d \in D : m[d] = F(d)
    OBVIOUS
  <2> HIDE DEF F, m
  <2>3. {m[d] : d \in D} = {F(d) : d \in D}
    BY <2>2
  <2>4. \A e : Sent(releases, m, e) = [d \in D |-> IF F(d) = e THEN releases[d] ELSE 0]
    BY <2>2 DEF Sent
  <2>5. releases' = Moved(releases, m)
    BY <2>1, <2>3, <2>4 DEF Moved
  <2> QED BY <1>1, <2>5, BagMoved
<1> QED BY <1>2, <1>3, <1>4

\* conv_write(): the sectors are allocated, the rest of their pages is gained.
LEMMA BufferStart ==
    ASSUME IInv, BufferInv, NEW w \in Writes, conv_write(w)
    PROVE  BufferInv'
<1>1. /\ cmd = NoCmd /\ gained + partial(w) <= MaxGained
      /\ UNCHANGED <<next_lun_avail_time, releases, open_pgs, wp_lun, flushed, lost>>
  BY DEF conv_write, Accepting
<1>3. CASE /\ buffer_allocate(w) /\ remaining' = remaining - w.nr /\ gained' = gained + partial(w)
           /\ \E e \in xfer_ends(0) :
               cmd' = [op |-> "write", stime |-> e, latest |-> e, late |-> 0,
                       lpn |-> start_lpn(w) % NrParts, left |-> pages(w), gc |-> FALSE]
  <2>1. Held = 0 /\ Held' = pages(w) * SecsPerPg
    BY <1>1, <1>3 DEF Held, NoCmd
  <2>2. /\ w.nr \in Nat /\ partial(w) \in Nat /\ partial(w) = pages(w) * SecsPerPg - w.nr
        /\ pages(w) \in Int
    BY PagesHold
  <2>3. /\ BagCardinality(releases) \in Int /\ SumFunctionOnSet(open_pgs, Parts) \in Int
        /\ remaining \in Nat /\ gained \in Nat /\ lost \in Nat
    BY BufferFacts
  <2>4. remaining' \in Nat /\ gained' \in 0 .. MaxGained /\ lost' = lost /\ lost \in Nat
    BY <1>1, <1>3, <2>2, <2>3, Sizes DEF buffer_allocate
  <2> DEFINE a == PgsPerOneshot * SecsPerPg * BagCardinality(releases)
             b == SecsPerPg * SumFunctionOnSet(open_pgs, Parts)
             c == pages(w) * SecsPerPg
  <2>5. a \in Int /\ b \in Int /\ c \in Int /\ remaining + a + b + 0 = BufSize + gained - lost
    BY <2>1, <2>2, <2>3, Sizes DEF BufferInv, InBalance
  <2>6. Held' = c /\ partial(w) = c - w.nr
    BY <2>1, <2>2
  <2> HIDE DEF a, b, c
  <2> DEFINE p == partial(w)
             n == w.nr
  <2>61. /\ remaining' = remaining - n /\ gained' = gained + p /\ lost' = lost /\ Held' = c /\ p = c - n
         /\ n \in Nat /\ p \in Nat /\ lost \in Nat /\ BufSize \in Nat
    BY <1>3, <2>2, <2>4, <2>6, Sizes
  <2> HIDE DEF p, n
  <2>7. remaining' + a + b + Held' = BufSize + gained' - lost'
    BY <2>3, <2>5, <2>61
  <2>8. InBalance'
    BY <1>1, <2>7 DEF InBalance, a, b
  <2> QED BY <1>1, <2>4, <2>8 DEF BufferInv
<1> QED BY <1>3 DEF conv_write

\* One page of a write is placed; with the last of a wordline, the sectors of
\* the whole wordline wait for their release.
LEMMA BufferPage ==
    ASSUME IInv, BufferInv, write_page
    PROVE  BufferInv'
<1> DEFINE part == cmd.lpn
           next == [cmd EXCEPT !.lpn = (@ + 1) % NrParts, !.left = @ - 1, !.gc = TRUE]
           S == SecsPerPg
           P == PgsPerOneshot
           c == BagCardinality(releases)
           o == SumFunctionOnSet(open_pgs, Parts)
           l == cmd.left
<1>1. cmd.op = "write" /\ UNCHANGED <<remaining, gained>>
  BY DEF write_page
<1>2. /\ cmd \in [op : {"write"}, stime : Int, latest : Int, late : Int, lpn : Parts,
                  left : Int, gc : BOOLEAN]
      /\ part \in Parts /\ l \in Int
  BY <1>1 DEF IInv, Types, CmdShape, NoCmd
<1>3. next.op = "write" /\ next.left = l - 1
  BY <1>2
<1>4. c \in Int /\ o \in Int /\ remaining \in Nat /\ gained \in Nat /\ lost \in Nat
  BY BufferFacts
<1>5. S \in Nat /\ S > 0 /\ P \in Nat /\ P > 0 /\ BufSize \in Nat
  BY Sizes
<1>6. remaining + P * S * c + S * o + l * S = BufSize + gained - lost
  BY <1>1 DEF BufferInv, InBalance, Held
<1>7. open_pgs \in [Parts -> 0 .. P - 1] /\ open_pgs \in [Parts -> Int] /\ open_pgs[part] \in 0 .. P - 1
  BY <1>2, <1>5 DEF BufferInv
<1>8. CASE last_pg_in_wordline(part)
  <2>1. PICK time \in NAND_WRITE(<<part, wp_lun[part]>>, cmd.stime) :
          schedule_release(time) /\ cmd' = [next EXCEPT !.latest = latest_of(@, time)]
    BY <1>8 DEF write_page
  <2>2. open_pgs' = [open_pgs EXCEPT ![part] = 0]
    BY <1>8 DEF write_page
  <2>3. open_pgs[part] = P - 1
    BY <1>7, <1>8, <1>5 DEF last_pg_in_wordline
  <2>4. cmd'.op = "write" /\ cmd'.left = l - 1
    BY <1>2, <1>3, <2>1
  <2>5. /\ FiniteBag(releases') /\ BagCardinality(releases') \in Int /\ lost' \in Nat
        /\ \/ BagCardinality(releases') = c + 1 /\ lost' = lost
           \/ BagCardinality(releases') = c /\ lost' = lost + P * S
    <3>1. CASE /\ releases' = releases (+) SetToBag({[time |-> later(time, 0), of |-> "this"]})
               /\ lost' = lost
      <4>1. FiniteBag(releases') /\ BagCardinality(releases') = c + 1
        BY <3>1, BagOneMore DEF BufferInv
      <4> QED BY <1>4, <3>1, <4>1
    <3>2. CASE releases' = releases /\ lost' = lost + P * S
      <4>1. lost' \in Nat
        BY <1>4, <1>5, <3>2
      <4> QED BY <1>4, <3>2, <4>1 DEF BufferInv
    <3> QED BY <2>1, <3>1, <3>2 DEF schedule_release
  <2>6. /\ open_pgs' \in [Parts -> 0 .. P - 1] /\ open_pgs' \in [Parts -> Int]
        /\ open_pgs'[part] = 0 /\ \A p \in Parts : p # part => open_pgs'[p] = open_pgs[p]
    BY <1>2, <1>5, <1>7, <2>2
  <2>7. SumFunctionOnSet(open_pgs', Parts) = o - (P - 1)
    <3> DEFINE n == SumFunctionOnSet(open_pgs', Parts)
    <3> HIDE DEF part
    <3>1. n = o + open_pgs'[part] - open_pgs[part]
      BY <1>2, <1>7, <2>6, Sizes, SumChanges
    <3> HIDE DEF n, o
    <3>2. n = o - (P - 1)
      BY <1>4, <1>5, <2>3, <2>6, <3>1
    <3> QED BY <3>2 DEF n
  <2>8. Held' = (l - 1) * S
    BY <2>4 DEF Held
  <2>9. /\ P * S * (c + 1) = P * S * c + P * S /\ S * (o - (P - 1)) = S * o - P * S + S
        /\ (l - 1) * S = l * S - S
        /\ P * S * c \in Int /\ P * S \in Int /\ S * o \in Int /\ l * S \in Int
    <3> HIDE DEF P, S, c, o, l
    <3> QED BY <1>2, <1>4, <1>5
  <2> DEFINE t == P * S * c
             u == P * S
             v == S * o
             x == l * S
             d == BagCardinality(releases')
             t1 == P * S * d
             v1 == S * (o - (P - 1))
             x1 == (l - 1) * S
  <2>10. /\ v1 = v - u + S /\ x1 = x - S /\ t \in Int /\ u \in Int /\ v \in Int /\ x \in Int
         /\ remaining + t + v + x = BufSize + gained - lost
         /\ \/ t1 = t + u /\ lost' = lost
            \/ t1 = t /\ lost' = lost + u
    BY <1>6, <2>5, <2>9
  <2> HIDE DEF t, u, v, x, t1, v1, x1
  <2>11. remaining + t1 + v1 + x1 = BufSize + gained - lost'
    BY <1>4, <1>5, <2>10
  <2>12. remaining + P * S * d + S * (o - (P - 1)) + (l - 1) * S = BufSize + gained - lost'
    BY <2>11 DEF t1, v1, x1
  <2>13. InBalance'
    BY <1>1, <2>5, <2>7, <2>8, <2>12 DEF InBalance
  <2> QED BY <1>1, <2>5, <2>6, <2>13 DEF BufferInv
<1>9. CASE ~ last_pg_in_wordline(part)
  <2>1. cmd' = next /\ releases' = releases /\ open_pgs' = [open_pgs EXCEPT ![part] = @ + 1] /\ lost' = lost
    BY <1>9 DEF write_page
  <2>2. open_pgs[part] + 1 \in 0 .. P - 1
    BY <1>5, <1>7, <1>9 DEF last_pg_in_wordline
  <2>3. /\ open_pgs' \in [Parts -> 0 .. P - 1] /\ open_pgs' \in [Parts -> Int]
        /\ open_pgs'[part] = open_pgs[part] + 1
        /\ \A p \in Parts : p # part => open_pgs'[p] = open_pgs[p]
    BY <1>2, <1>5, <1>7, <2>1, <2>2
  <2>4. SumFunctionOnSet(open_pgs', Parts) = o + 1
    <3> DEFINE n == SumFunctionOnSet(open_pgs', Parts)
    <3> HIDE DEF part
    <3>1. n = o + open_pgs'[part] - open_pgs[part]
      BY <1>2, <1>7, <2>3, Sizes, SumChanges
    <3> HIDE DEF n, o
    <3>2. n = o + 1
      BY <1>4, <1>5, <1>7, <2>3, <3>1
    <3> QED BY <3>2 DEF n
  <2>5. Held' = (l - 1) * S
    BY <1>3, <2>1 DEF Held
  <2>6. /\ S * (o + 1) = S * o + S /\ (l - 1) * S = l * S - S
        /\ P * S * c \in Int /\ S * o \in Int /\ l * S \in Int
    <3> HIDE DEF P, S, c, o, l
    <3> QED BY <1>2, <1>4, <1>5
  <2> DEFINE t == P * S * c
             v == S * o
             x == l * S
             v1 == S * (o + 1)
             x1 == (l - 1) * S
  <2>7. /\ v1 = v + S /\ x1 = x - S /\ t \in Int /\ v \in Int /\ x \in Int
        /\ remaining + t + v + x = BufSize + gained - lost
    BY <1>6, <2>6
  <2> HIDE DEF t, v, x, v1, x1
  <2>8. remaining + t + v1 + x1 = BufSize + gained - lost
    BY <1>4, <1>5, <2>7
  <2>9. remaining + P * S * c + S * (o + 1) + (l - 1) * S = BufSize + gained - lost
    BY <2>8 DEF t, v1, x1
  <2>10. InBalance'
    BY <1>1, <2>1, <2>4, <2>5, <2>9 DEF InBalance
  <2> QED BY <1>1, <2>1, <2>3, <2>10 DEF BufferInv
<1> QED BY <1>8, <1>9

\* A worker gives the sectors of a wordline back.
LEMMA BufferRelease ==
    ASSUME IInv, BufferInv, buffer_release
    PROVE  BufferInv'
<1> DEFINE S == SecsPerPg
           P == PgsPerOneshot
           c == BagCardinality(releases)
           o == SumFunctionOnSet(open_pgs, Parts)
<1>1. PICK r \in DOMAIN releases : releases' = releases (-) SetToBag({r})
  BY DEF buffer_release, BagToSet
<1>2. remaining' = remaining + P * S /\ UNCHANGED <<open_pgs, cmd, gained, lost>>
  BY DEF buffer_release
<1>3. FiniteBag(releases') /\ BagCardinality(releases') = c - 1
  BY <1>1, BagOneLess DEF BufferInv
<1>4. c \in Int /\ o \in Int /\ remaining \in Nat /\ gained \in Nat /\ lost \in Nat /\ Held \in Int /\ Held' = Held
  BY <1>2, BufferFacts DEF Held
<1>5. S \in Nat /\ P \in Nat /\ BufSize \in Nat
  BY Sizes
<1>6. remaining + P * S * c + S * o + Held = BufSize + gained - lost
  BY DEF BufferInv, InBalance
<1>7. P * S * (c - 1) = P * S * c - P * S /\ P * S \in Nat /\ P * S * c \in Int /\ S * o \in Int
  <2> HIDE DEF P, S, c, o
  <2> QED BY <1>4, <1>5
<1> DEFINE t == P * S * c
           u == P * S
           v == S * o
           t1 == P * S * (c - 1)
<1>8. /\ t1 = t - u /\ u \in Nat /\ t \in Int /\ v \in Int /\ remaining' = remaining + u
      /\ remaining + t + v + Held = BufSize + gained - lost
  BY <1>2, <1>6, <1>7
<1> HIDE DEF t, u, v, t1
<1>9. remaining' \in Nat /\ remaining' + t1 + v + Held = BufSize + gained - lost
  BY <1>4, <1>5, <1>8
<1>10. InBalance'
  BY <1>2, <1>3, <1>4, <1>9 DEF InBalance, t1, v
<1> QED BY <1>2, <1>3, <1>9, <1>10 DEF BufferInv

\* When a slot passes, the command keeps the pages it has to place.
LEMMA BufferTick ==
    ASSUME IInv, BufferInv, tick
    PROVE  BufferInv'
<1>1. /\ releases' = BagOfAll(LAMBDA r : [r EXCEPT !.time = later(@ - 1, 0)], releases)
      /\ cmd' = IF cmd = NoCmd THEN cmd
                ELSE [cmd EXCEPT !.stime = @ - 1, !.latest = @ - 1, !.late = @ + 1]
      /\ UNCHANGED <<remaining, open_pgs, gained, lost>>
  BY DEF tick
<1>2. FiniteBag(releases') /\ BagCardinality(releases') = BagCardinality(releases)
  BY <1>1, SameReleases
<1>3. Held' = Held
  <2>1. CASE cmd = NoCmd
    BY <1>1, <2>1 DEF Held
  <2>2. CASE cmd # NoCmd
    <3> DEFINE s == cmd.stime - 1
               u == cmd.latest - 1
               v == cmd.late + 1
    <3>1. cmd' = [[[cmd EXCEPT !.stime = s] EXCEPT !.latest = u] EXCEPT !.late = v]
      BY <1>1, <2>2
    <3> HIDE DEF s, u, v
    <3>2. CASE cmd.op = "write"
      <4>1. cmd \in [op : {"write"}, stime : Int, latest : Int, late : Int, lpn : Parts,
                     left : Int, gc : BOOLEAN]
        BY <2>2, <3>2 DEF IInv, Types, CmdShape
      <4>2. cmd'.op = "write" /\ cmd'.left = cmd.left
        BY <3>1, <4>1
      <4> QED BY <3>2, <4>2 DEF Held
    <3>3. CASE cmd.op # "write"
      <4>1. cmd.op = "read" /\ DOMAIN cmd = ReadFields
        BY <2>2, <3>3 DEF IInv, Types, CmdShape
      <4>2. cmd'.op = "read"
        BY <3>1, <4>1 DEF ReadFields
      <4> QED BY <3>3, <4>2 DEF Held
    <3> QED BY <3>2, <3>3
  <2> QED BY <2>1, <2>2
<1> QED BY <1>1, <1>2, <1>3, BufferQuiet

\* Every step keeps the balance.
LEMMA BufferNext ==
    ASSUME IInv, BufferInv, [Next]_vars PROVE BufferInv'
<1>1. CASE \E w \in Writes : conv_write(w)
  BY <1>1, BufferStart
<1>2. CASE write_page
  BY <1>2, BufferPage
<1>3. CASE write_done
  <2>1. /\ cmd.op = "write" /\ cmd.left = 0 /\ cmd' = NoCmd /\ releases' = reassigned({"this"}, "other")
        /\ UNCHANGED <<remaining, open_pgs, gained, lost>>
    BY <1>3 DEF write_done
  <2>2. Held = 0 /\ Held' = 0
    BY <2>1, Sizes DEF Held, NoCmd
  <2>3. FiniteBag(releases') /\ BagCardinality(releases') = BagCardinality(releases)
    BY <2>1, SameReleases
  <2> QED BY <2>1, <2>2, <2>3, BufferQuiet
<1>4. CASE read_page \/ read_rest
  <2>1. UNCHANGED <<remaining, releases, open_pgs, gained, lost>> /\ cmd.op = "read"
    BY <1>4 DEF read_page, read_rest
  <2>2. cmd'.op = "read"
    BY <1>4, ReadGoesOn
  <2>3. Held' = Held
    BY <2>1, <2>2 DEF Held
  <2> QED BY <2>1, <2>3, BufferQuiet DEF BufferInv
<1>5. CASE read_done \/ \E first \in Parts, n \in 1 .. MaxRead : conv_read(first, n)
  <2>1. /\ UNCHANGED <<remaining, releases, open_pgs, gained, lost>>
        /\ cmd.op # "write" /\ cmd'.op # "write"
    BY <1>5 DEF read_done, conv_read, Accepting, NoCmd
  <2>2. Held' = Held
    BY <2>1 DEF Held
  <2> QED BY <2>1, <2>2, BufferQuiet DEF BufferInv
<1>6. CASE \E l \in Luns : gc_nand(l)
  <2>1. UNCHANGED <<remaining, releases, open_pgs, gained, lost, cmd>>
    BY <1>6 DEF gc_nand
  <2> QED BY <2>1, BufferQuiet DEF BufferInv, Held
<1>7. CASE buffer_release
  BY <1>7, BufferRelease
<1>8. CASE conv_flush
  <2>1. releases' = reassigned({"other"}, "flush") /\ UNCHANGED <<remaining, open_pgs, gained, lost, cmd>>
    BY <1>8 DEF conv_flush
  <2>2. FiniteBag(releases') /\ BagCardinality(releases') = BagCardinality(releases)
    BY <2>1, SameReleases
  <2> QED BY <2>1, <2>2, BufferQuiet DEF Held
<1>9. CASE tick
  BY <1>9, BufferTick
<1>10. CASE UNCHANGED vars
  <2>1. UNCHANGED <<remaining, releases, open_pgs, gained, lost, cmd>>
    BY <1>10 DEF vars
  <2> QED BY <2>1, BufferQuiet DEF BufferInv, Held
<1> QED BY <1>1, <1>2, <1>3, <1>4, <1>5, <1>6, <1>7, <1>8, <1>9, <1>10 DEF Next, go_on

\* No sector of the write buffer is given back twice, and none is lost but with
\* an internal operation for which the work queue had no entry: what is free,
\* what waits for a program operation, what fills an open wordline, what a write
\* has still to place and what was lost so add up to the buffer and to the rest
\* of the pages that conv_write() allocated in part, for any geometry, any
\* writes and any order of the workers' releases.
THEOREM BufferBalanced == Spec => []WriteBufferBalance
<1>1. Init => IInv /\ BufferInv
  <2> SUFFICES ASSUME Init PROVE IInv /\ BufferInv
    OBVIOUS
  <2>1. IInv
    BY InitInv
  <2>2. DOMAIN releases = {} /\ releases = [e \in {} |-> 1]
    BY DEF Init, EmptyBag, SetToBag
  <2>3. FiniteBag(releases)
    BY <2>2, FS_EmptySet DEF FiniteBag, IsABag
  <2>4. BagCardinality(releases) = 0
    <3>1. releases \in [{} -> Int] /\ IsFiniteSet({}) /\ \A x \in {} : releases[x] = 0
      BY <2>2, FS_EmptySet
    <3>2. SumFunctionOnSet(releases, {}) = 0
      BY <3>1, SumOfZeros
    <3> QED BY <2>2, <3>2, BagCount
  <2>5. SumFunctionOnSet(open_pgs, Parts) = 0
    <3>1. open_pgs \in [Parts -> Int] /\ \A p \in Parts : open_pgs[p] = 0
      BY DEF Init
    <3> QED BY <3>1, Sizes, SumOfZeros
  <2>6. remaining = BufSize /\ gained = 0 /\ lost = 0 /\ Held = 0
    BY DEF Init, Held, NoCmd
  <2>7. remaining \in Nat /\ gained \in 0 .. MaxGained /\ lost \in Nat /\ open_pgs \in [Parts -> 0 .. PgsPerOneshot - 1]
    BY <2>6, Sizes DEF Init
  <2>8. InBalance
    BY <2>4, <2>5, <2>6, Sizes DEF InBalance
  <2> QED BY <2>1, <2>3, <2>7, <2>8 DEF BufferInv
<1>2. IInv /\ BufferInv /\ [Next]_vars => (IInv /\ BufferInv)'
  BY NextInv, BufferNext
<1>3. IInv /\ BufferInv => WriteBufferBalance
  <2>1. SUFFICES ASSUME IInv, BufferInv PROVE WriteBufferBalance
    OBVIOUS
  <2>2. TypeOK
    BY <2>1 DEF IInv, Types, BufferInv, FiniteBag, TypeOK
  <2> DEFINE a == PgsPerOneshot * SecsPerPg * BagCardinality(releases)
             b == SecsPerPg * SumFunctionOnSet(open_pgs, Parts)
             c == IF cmd.op = "write" THEN cmd.left * SecsPerPg ELSE 0
  <2>3. a \in Int /\ b \in Int /\ c \in Int /\ remaining \in Nat /\ gained \in Nat /\ lost \in Nat /\ BufSize \in Nat
    BY <2>1, BufferFacts, Sizes DEF Held
  <2>4. remaining + a + b + c = BufSize + gained - lost
    BY <2>1 DEF BufferInv, InBalance, Held
  <2> HIDE DEF a, b, c
  <2>5. remaining + a + b + c + lost = BufSize + gained
    BY <2>3, <2>4
  <2> QED BY <2>2, <2>5 DEF WriteBufferBalance, a, b, c
<1> QED BY <1>1, <1>2, <1>3, PTL DEF Spec

(***************************************************************************)
(* Reads.  The pages of a read that are still to be looked up are those of *)
(* the partitions to come and the rest of the current one; what was found  *)
(* and not transferred is what was collected.                              *)
(***************************************************************************)
\* the pages from first to last that the loops have not come to, when they are at
\* page lpn of the partition of start
Ahead(n, first, last, start, lpn) ==
    {p \in first .. last : \/ (p - first) % n > start - first
                           \/ (p - first) % n = start - first /\ p >= lpn}

LoopTypes ==
    rd \in [first : Nat, last : Nat, start : Nat, lpn : Nat, prev : FlashPgs \cup {UNMAPPED}, xfer : Nat]

\* where the loops stand
LoopPlace ==
    /\ rd.first <= rd.start /\ rd.start <= rd.lpn
    /\ rd.start <= rd.first + NrParts /\ rd.start <= rd.last + 1
    /\ rd.start < rd.first + NrParts => (rd.lpn - rd.first) % NrParts = rd.start - rd.first
    /\ unseen = Ahead(NrParts, rd.first, rd.last, rd.start, rd.lpn)

Collected ==
    /\ owed = [f \in AllFlashPgs |-> IF f = <<cur_part, rd.prev>> THEN rd.xfer ELSE 0]
    /\ rd.lpn = rd.start => rd.xfer = 0
    /\ rd.xfer > 0 => rd.prev \in FlashPgs
    /\ ~more_parts => rd.xfer = 0

ReadLoops == cmd.op = "read" => LoopTypes /\ LoopPlace /\ Collected

\* Remainders of pages of one partition.
LEMMA Rests ==
    ASSUME NEW n \in Nat \ {0}, NEW a \in Nat, NEW b \in Nat
    PROVE  /\ a % n \in 0 .. n - 1 /\ a % n <= a
           /\ a < n => a % n = a
           /\ (a + n) % n = a % n
           /\ a % n = b % n /\ a > b => a >= b + n
<1> DEFINE d == a \div n
           m == a % n
           e == b \div n
           k == b % n
<1>1. d \in Int /\ m \in 0 .. n - 1 /\ e \in Int /\ k \in 0 .. n - 1
  OBVIOUS
<1>2. a = n * d + m /\ b = n * e + k
  OBVIOUS
<1>3. (a + n) % n = m
  <2>1. a + n = n * (d + 1) + m
    BY <1>1, <1>2
  <2> HIDE DEF d, m
  <2> DEFINE g == (a + n) \div n
             h == (a + n) % n
  <2>2. g \in Int /\ h \in 0 .. n - 1 /\ a + n = n * g + h
    OBVIOUS
  <2> HIDE DEF g, h
  <2> DEFINE w == g - (d + 1)
  <2>3. w \in Int /\ n * w = m - h
    BY <1>1, <2>1, <2>2
  <2> HIDE DEF w
  <2>4. w = 0
    <3>1. w >= 1 => n * w >= n
      BY <2>3
    <3>2. w <= -1 => n * w <= 0 - n
      BY <2>3
    <3> QED BY <1>1, <2>2, <2>3, <3>1, <3>2
  <2>5. m = h
    BY <1>1, <2>2, <2>3, <2>4
  <2> QED BY <2>5 DEF h
<1> HIDE DEF d, m, e, k
<1>4. d >= 0
  <2>1. d <= -1 => n * d <= 0 - n
    BY <1>1
  <2> QED BY <1>1, <1>2, <2>1
<1>5. m <= a
  <2>1. n * d >= 0 /\ n * d \in Int
    BY <1>1, <1>4
  <2> QED BY <1>1, <1>2, <2>1
<1>6. a < n => m = a
  <2>1. d >= 1 => n * d >= n
    BY <1>1
  <2>2. d = 0 => n * d = 0
    BY <1>1
  <2> QED BY <1>1, <1>2, <1>4, <2>1, <2>2
<1>7. ASSUME m = k, a > b PROVE a >= b + n
  <2> DEFINE w == d - e
  <2>1. w \in Int /\ n * w = a - b
    BY <1>1, <1>2, <1>7
  <2> HIDE DEF w
  <2>2. w <= 0 => n * w <= 0
    BY <2>1
  <2>3. w >= 1 => n * w >= n
    BY <2>1
  <2> QED BY <1>7, <2>1, <2>2, <2>3
<1> QED BY <1>1, <1>3, <1>5, <1>6, <1>7 DEF m, k

\* A read begins with all of its pages ahead.
LEMMA AheadBegin ==
    ASSUME NEW n \in Nat \ {0}, NEW first \in Nat, NEW last \in Nat
    PROVE  Ahead(n, first, last, first, first) = first .. last /\ (first - first) % n = first - first
<1>1. ASSUME NEW p \in first .. last PROVE (p - first) % n > first - first \/ (p - first) % n = first - first
  <2> DEFINE a == p - first
  <2>1. a \in Nat /\ first - first = 0
    OBVIOUS
  <2> HIDE DEF a
  <2>2. a % n \in 0 .. n - 1
    BY <2>1, Rests
  <2>3. a % n > 0 \/ a % n = 0
    BY <2>2
  <2> QED BY <2>1, <2>3 DEF a
<1>2. (first - first) % n = first - first
  <2>1. first - first = 0 /\ 0 \in Nat /\ 0 < n
    OBVIOUS
  <2>2. 0 % n = 0
    BY <2>1, Rests
  <2> QED BY <2>1, <2>2
<1>3. Ahead(n, first, last, first, first) = first .. last
  BY <1>1 DEF Ahead
<1> QED BY <1>2, <1>3

\* the loops are at page lpn, which is one of the partition of start
AtPage(n, first, start, lpn) ==
    /\ first <= start /\ start < first + n /\ start <= lpn
    /\ (lpn - first) % n = start - first

\* The page the loops look up is the next one ahead.
LEMMA AheadPage ==
    ASSUME NEW n \in Nat \ {0}, NEW first \in Nat, NEW last \in Nat, NEW start \in Nat, NEW lpn \in Nat,
           AtPage(n, first, start, lpn), lpn <= last
    PROVE  /\ lpn \in Ahead(n, first, last, start, lpn)
           /\ Ahead(n, first, last, start, lpn) \ {lpn} = Ahead(n, first, last, start, lpn + n)
           /\ AtPage(n, first, start, lpn + n)
<1> DEFINE s == start - first
           o(p) == (p - first) % n
<1>1. first <= start /\ start < first + n /\ start <= lpn /\ o(lpn) = s
  BY DEF AtPage
<1>2. s \in Nat
  BY <1>1
<1>3. lpn \in Ahead(n, first, last, start, lpn)
  BY <1>1 DEF Ahead
<1>4. o(lpn + n) = s
  <2> DEFINE a == lpn - first
  <2>1. a \in Nat /\ (lpn + n) - first = a + n
    BY <1>1
  <2>2. a % n = s
    BY <1>1
  <2> HIDE DEF a
  <2>3. (a + n) % n = s
    BY <2>1, <2>2, Rests
  <2> QED BY <2>1, <2>3
<1>5. ASSUME NEW p \in first .. last PROVE o(p) \in Nat
  <2> DEFINE a == p - first
  <2>1. a \in Nat
    OBVIOUS
  <2> HIDE DEF a
  <2>2. a % n \in 0 .. n - 1
    BY <2>1, Rests
  <2> QED BY <2>2 DEF a
<1>6. ASSUME NEW p \in first .. last, o(p) = s, p > lpn PROVE p >= lpn + n
  <2> DEFINE a == p - first
             b == lpn - first
  <2>1. a \in Nat /\ b \in Nat /\ a > b /\ p = a + first /\ lpn = b + first
    BY <1>1, <1>6
  <2>2. a % n = b % n
    BY <1>1, <1>6
  <2> HIDE DEF a, b
  <2>3. a >= b + n
    BY <2>1, <2>2, Rests
  <2> QED BY <2>1, <2>3
<1> HIDE DEF s
<1>7. Ahead(n, first, last, start, lpn) = {p \in first .. last : o(p) > s \/ (o(p) = s /\ p >= lpn)}
  BY DEF Ahead, s
<1>8. Ahead(n, first, last, start, lpn + n) = {p \in first .. last : o(p) > s \/ (o(p) = s /\ p >= lpn + n)}
  BY DEF Ahead, s
<1>9. ASSUME NEW p \in first .. last
      PROVE  (o(p) > s \/ (o(p) = s /\ p >= lpn)) /\ p # lpn <=> o(p) > s \/ (o(p) = s /\ p >= lpn + n)
  <2> DEFINE q == o(p)
  <2>1. q \in Nat /\ (q = s /\ p > lpn => p >= lpn + n) /\ (p = lpn => q = s)
    BY <1>1, <1>5, <1>6
  <2> HIDE DEF q, o
  <2>2. (q > s \/ (q = s /\ p >= lpn)) /\ p # lpn <=> q > s \/ (q = s /\ p >= lpn + n)
    BY <1>2, <2>1
  <2> QED BY <2>2 DEF q
<1>10. Ahead(n, first, last, start, lpn) \ {lpn} = Ahead(n, first, last, start, lpn + n)
  <2> HIDE DEF o
  <2> QED BY <1>7, <1>8, <1>9
<1>11. AtPage(n, first, start, lpn + n)
  BY <1>1, <1>4 DEF AtPage, s
<1> QED BY <1>3, <1>10, <1>11

\* Behind the last page of a partition, the pages of the others are ahead.
LEMMA AheadPart ==
    ASSUME NEW n \in Nat \ {0}, NEW first \in Nat, NEW last \in Nat, NEW start \in Nat, NEW lpn \in Nat,
           AtPage(n, first, start, lpn), lpn > last
    PROVE  /\ Ahead(n, first, last, start, lpn) = Ahead(n, first, last, start + 1, start + 1)
           /\ start + 1 < first + n => AtPage(n, first, start + 1, start + 1)
<1> DEFINE s == start - first
           o(p) == (p - first) % n
<1>1. first <= start /\ start < first + n /\ start <= lpn /\ s \in Nat /\ (start + 1) - first = s + 1
  BY DEF AtPage
<1>2. ASSUME NEW p \in first .. last PROVE o(p) \in Nat /\ o(p) <= p - first
  <2> DEFINE a == p - first
  <2>1. a \in Nat
    OBVIOUS
  <2> HIDE DEF a
  <2>2. a % n \in 0 .. n - 1 /\ a % n <= a
    BY <2>1, Rests
  <2> QED BY <2>2 DEF a
<1>3. Ahead(n, first, last, start, lpn) = {p \in first .. last : o(p) > s \/ (o(p) = s /\ p >= lpn)}
  BY DEF Ahead
<1>4. Ahead(n, first, last, start + 1, start + 1)
        = {p \in first .. last : o(p) > (start + 1) - first \/ (o(p) = (start + 1) - first /\ p >= start + 1)}
  BY DEF Ahead
<1>5. ASSUME NEW p \in first .. last
      PROVE  o(p) > s \/ (o(p) = s /\ p >= lpn)
               <=> o(p) > (start + 1) - first \/ (o(p) = (start + 1) - first /\ p >= start + 1)
  <2> DEFINE q == o(p)
  <2>1. q \in Nat /\ q <= p - first
    BY <1>2
  <2> HIDE DEF q, o
  <2>2. q > s \/ (q = s /\ p >= lpn)
          <=> q > (start + 1) - first \/ (q = (start + 1) - first /\ p >= start + 1)
    BY <1>1, <2>1
  <2> QED BY <2>2 DEF q
<1>6. Ahead(n, first, last, start, lpn) = Ahead(n, first, last, start + 1, start + 1)
  <2> HIDE DEF o
  <2> QED BY <1>3, <1>4, <1>5
<1>7. ASSUME start + 1 < first + n PROVE AtPage(n, first, start + 1, start + 1)
  <2> DEFINE a == (start + 1) - first
  <2>1. a \in Nat /\ a < n
    BY <1>1, <1>7
  <2> HIDE DEF a
  <2>2. a % n = a
    BY <2>1, Rests
  <2>3. first <= start + 1 /\ start + 1 <= start + 1
    BY <1>1
  <2> QED BY <1>7, <2>2, <2>3 DEF AtPage, a
<1> QED BY <1>6, <1>7

\* When the loops end, no page is ahead.
LEMMA AheadEnd ==
    ASSUME NEW n \in Nat \ {0}, NEW first \in Nat, NEW last \in Nat, NEW start \in Nat, NEW lpn \in Nat,
           first <= start, start <= first + n, ~ (start < first + n /\ start <= last)
    PROVE  Ahead(n, first, last, start, lpn) = {}
<1> DEFINE s == start - first
<1>1. ASSUME NEW p \in first .. last PROVE ~ ((p - first) % n > s) /\ (p - first) % n # s
  <2> DEFINE a == p - first
  <2>1. a \in Nat /\ (a < s \/ s = n)
    OBVIOUS
  <2> HIDE DEF a
  <2> DEFINE q == a % n
  <2>2. q \in 0 .. n - 1 /\ q <= a
    BY <2>1, Rests
  <2> HIDE DEF q
  <2>3. ~ (q > s) /\ q # s
    BY <2>1, <2>2
  <2> QED BY <2>3 DEF q, a
<1> QED BY <1>1 DEF Ahead

\* what is found and not transferred: x pages of flash page g
Only(g, x) == [f \in AllFlashPgs |-> IF f = g THEN x ELSE 0]

\* One more page of the flash page that is collected, or the first one.
LEMMA OnlyMore ==
    ASSUME NEW g, NEW h \in AllFlashPgs, NEW x \in Nat, x = 0 \/ h = g
    PROVE  [Only(g, x) EXCEPT ![h] = @ + 1] = Only(h, x + 1)
<1>1. \A f \in AllFlashPgs : Only(g, x)[f] = IF f = g THEN x ELSE 0
  BY DEF Only
<1>2. Only(g, x) = [f \in AllFlashPgs |-> Only(g, x)[f]]
  BY DEF Only
<1>3. [Only(g, x) EXCEPT ![h] = @ + 1]
        = [f \in AllFlashPgs |-> IF f = h THEN Only(g, x)[h] + 1 ELSE Only(g, x)[f]]
  <2> DEFINE w == Only(g, x)
  <2> HIDE DEF w
  <2>1. w = [f \in AllFlashPgs |-> w[f]]
    BY <1>2 DEF w
  <2>2. [w EXCEPT ![h] = @ + 1] = [f \in AllFlashPgs |-> IF f = h THEN w[h] + 1 ELSE w[f]]
    BY <2>1
  <2> QED BY <2>2 DEF w
<1>4. \A f \in AllFlashPgs : (IF f = h THEN Only(g, x)[h] + 1 ELSE Only(g, x)[f]) = IF f = h THEN x + 1 ELSE 0
  BY <1>1
<1>5. Only(h, x + 1) = [f \in AllFlashPgs |-> IF f = h THEN x + 1 ELSE 0]
  BY DEF Only
<1> QED BY <1>3, <1>4, <1>5

\* Nothing is left of what is read.
LEMMA OnlyRead ==
    ASSUME NEW g \in AllFlashPgs, NEW x \in Nat
    PROVE  /\ [Only(g, x) EXCEPT ![g] = @ - x] = NoPages
           /\ \A h \in AllFlashPgs : h # g =>
                [[Only(g, x) EXCEPT ![h] = @ + 1] EXCEPT ![g] = @ - x] = Only(h, 1)
<1> DEFINE w == Only(g, x)
<1>1. w = [f \in AllFlashPgs |-> IF f = g THEN x ELSE 0] /\ 0 + 1 = 1 /\ x - x = 0
  BY DEF Only
<1>2. w = [f \in AllFlashPgs |-> w[f]] /\ w[g] = x /\ \A f \in AllFlashPgs : f # g => w[f] = 0
  BY <1>1
<1> HIDE DEF w
<1>3. [w EXCEPT ![g] = @ - x] = NoPages
  <2>1. [w EXCEPT ![g] = @ - x] = [f \in AllFlashPgs |-> IF f = g THEN x - x ELSE w[f]]
    BY <1>2
  <2>2. \A f \in AllFlashPgs : (IF f = g THEN x - x ELSE w[f]) = 0
    BY <1>1, <1>2
  <2> QED BY <2>1, <2>2 DEF NoPages
<1>4. ASSUME NEW h \in AllFlashPgs, h # g
      PROVE  [[w EXCEPT ![h] = @ + 1] EXCEPT ![g] = @ - x] = Only(h, 1)
  <2> DEFINE v == [w EXCEPT ![h] = @ + 1]
  <2>1. v = [f \in AllFlashPgs |-> IF f = h THEN 0 + 1 ELSE w[f]]
    BY <1>2, <1>4
  <2>2. v = [f \in AllFlashPgs |-> v[f]] /\ v[g] = x /\ v[h] = 1 /\ \A f \in AllFlashPgs : f # g /\ f # h => v[f] = 0
    BY <1>1, <1>2, <1>4, <2>1
  <2> HIDE DEF v
  <2>3. [v EXCEPT ![g] = @ - x] = [f \in AllFlashPgs |-> IF f = g THEN x - x ELSE v[f]]
    BY <2>2
  <2>4. \A f \in AllFlashPgs : (IF f = g THEN x - x ELSE v[f]) = IF f = h THEN 1 ELSE 0
    BY <1>1, <1>4, <2>2
  <2> QED BY <2>3, <2>4 DEF v, Only
<1> QED BY <1>3, <1>4 DEF w

LEMMA OnlyNone ==
    ASSUME NEW g, NEW h
    PROVE  Only(g, 0) = NoPages /\ Only(g, 0) = Only(h, 0)
BY DEF Only, NoPages

\* The fields of the loops.
LEMMA LoopFields ==
    ASSUME LoopTypes
    PROVE  /\ rd.first \in Nat /\ rd.last \in Nat /\ rd.start \in Nat /\ rd.lpn \in Nat /\ rd.xfer \in Nat
           /\ rd.prev \in FlashPgs \cup {UNMAPPED}
           /\ NrParts \in Nat \ {0} /\ cur_part \in Parts
           /\ \A f \in FlashPgs : <<cur_part, f>> \in AllFlashPgs
<1>1. /\ rd.first \in Nat /\ rd.last \in Nat /\ rd.start \in Nat /\ rd.lpn \in Nat /\ rd.xfer \in Nat
      /\ rd.prev \in FlashPgs \cup {UNMAPPED}
  BY DEF LoopTypes
<1>2. NrParts \in Nat \ {0}
  BY TimingAssumption
<1>3. cur_part \in Parts
  <2> DEFINE s == rd.start
  <2>1. s \in Nat
    BY <1>1
  <2> HIDE DEF s
  <2>2. s % NrParts \in 0 .. NrParts - 1
    BY <1>2, <2>1, Rests
  <2> QED BY <2>2 DEF s, cur_part, Parts
<1> QED BY <1>1, <1>2, <1>3 DEF AllFlashPgs

\* the loops at a page with these fields
LoopsAt(fi, la, st, lp, pv, xf) ==
    rd' = [first |-> fi, last |-> la, start |-> st, lpn |-> lp, prev |-> pv, xfer |-> xf]

LEMMA LoopsNext ==
    ASSUME NEW fi \in Nat, NEW la \in Nat, NEW st \in Nat, NEW lp \in Nat,
           NEW pv \in FlashPgs \cup {UNMAPPED}, NEW xf \in Nat, LoopsAt(fi, la, st, lp, pv, xf)
    PROVE  /\ LoopTypes'
           /\ rd'.first = fi /\ rd'.last = la /\ rd'.start = st /\ rd'.lpn = lp /\ rd'.prev = pv /\ rd'.xfer = xf
           /\ cur_part' = st % NrParts
<1>1. rd' = [first |-> fi, last |-> la, start |-> st, lpn |-> lp, prev |-> pv, xfer |-> xf]
  BY DEF LoopsAt
<1>2. rd'.first = fi /\ rd'.last = la /\ rd'.start = st /\ rd'.lpn = lp /\ rd'.prev = pv /\ rd'.xfer = xf
  BY <1>1
<1>3. LoopTypes'
  BY <1>1 DEF LoopTypes, FlashPgs, UNMAPPED
<1> QED BY <1>2, <1>3 DEF cur_part

\* Only a read moves its loops.
LEMMA OtherSteps ==
    ASSUME IInv, \/ \E w \in Writes : conv_write(w)
                 \/ write_page \/ write_done \/ buffer_release \/ conv_flush \/ tick
                 \/ \E l \in Luns : gc_nand(l)
                 \/ UNCHANGED vars
    PROVE  UNCHANGED readVars /\ (cmd'.op = "read" => cmd.op = "read")
<1>1. CASE \E w \in Writes : conv_write(w)
  BY <1>1 DEF conv_write
<1>2. CASE write_page
  <2>1. UNCHANGED readVars /\ cmd.op = "write"
    BY <1>2 DEF write_page
  <2> DEFINE a == (cmd.lpn + 1) % NrParts
             b == cmd.left - 1
             c == [[[cmd EXCEPT !.lpn = a] EXCEPT !.left = b] EXCEPT !.gc = TRUE]
  <2>2. cmd' = c \/ \E z : cmd' = [c EXCEPT !.latest = z]
    BY <1>2 DEF write_page
  <2>3. DOMAIN cmd = {"op", "stime", "latest", "late", "lpn", "left", "gc"}
    BY <2>1, Times DEF IInv
  <2>4. c.op = "write" /\ DOMAIN c = DOMAIN cmd
    <3> HIDE DEF a, b
    <3> QED BY <2>1, <2>3
  <2> HIDE DEF c
  <2>5. cmd'.op = "write"
    BY <2>2, <2>3, <2>4
  <2> QED BY <2>1, <2>5
<1>3. CASE write_done
  BY <1>3 DEF write_done, NoCmd
<1>4. CASE buffer_release
  BY <1>4 DEF buffer_release
<1>5. CASE conv_flush
  BY <1>5 DEF conv_flush
<1>6. CASE tick
  <2>1. UNCHANGED readVars
    BY <1>6 DEF tick
  <2>2. cmd' = IF cmd = NoCmd THEN cmd ELSE [cmd EXCEPT !.stime = @ - 1, !.latest = @ - 1, !.late = @ + 1]
    BY <1>6 DEF tick
  <2>3. CASE cmd = NoCmd
    BY <2>1, <2>2, <2>3
  <2>4. CASE cmd # NoCmd
    <3> DEFINE s == cmd.stime - 1
               u == cmd.latest - 1
               v == cmd.late + 1
    <3>1. cmd' = [[[cmd EXCEPT !.stime = s] EXCEPT !.latest = u] EXCEPT !.late = v]
      BY <2>2, <2>4
    <3>2. "op" \in DOMAIN cmd
      BY <2>4, Times DEF IInv
    <3> HIDE DEF s, u, v
    <3>3. cmd'.op = cmd.op
      BY <3>1, <3>2
    <3> QED BY <2>1, <3>3
  <2> QED BY <2>3, <2>4
<1>7. CASE \E l \in Luns : gc_nand(l)
  BY <1>7 DEF gc_nand
<1>8. CASE UNCHANGED vars
  BY <1>8 DEF vars
<1> QED BY <1>1, <1>2, <1>3, <1>4, <1>5, <1>6, <1>7, <1>8

\* A read begins.
LEMMA LoopsBegin ==
    ASSUME NEW first \in Parts, NEW n \in 1 .. MaxRead, conv_read(first, n)
    PROVE  ReadLoops'
<1>1. NrParts \in Nat \ {0} /\ first \in Nat /\ first + n - 1 \in Nat /\ first <= first + n - 1
  BY TimingAssumption DEF Parts
<1> DEFINE la == first + n - 1
<1> HIDE DEF la
<1>2. LoopsAt(first, la, first, first, UNMAPPED, 0) /\ owed' = NoPages /\ unseen' = first .. la
  BY DEF conv_read, LoopsAt, la
<1>3. la \in Nat /\ first <= la /\ UNMAPPED \in FlashPgs \cup {UNMAPPED} /\ 0 \in Nat
  BY <1>1 DEF la
<1>4. /\ LoopTypes' /\ cur_part' = first % NrParts
      /\ rd'.first = first /\ rd'.last = la /\ rd'.start = first /\ rd'.lpn = first
      /\ rd'.prev = UNMAPPED /\ rd'.xfer = 0
  BY <1>1, <1>2, <1>3, LoopsNext
<1>5. Ahead(NrParts, first, la, first, first) = first .. la /\ (first - first) % NrParts = first - first
  BY <1>1, <1>3, AheadBegin
<1>6. LoopPlace'
  <2>1. /\ first <= first /\ first <= first + NrParts /\ first <= la + 1
    BY <1>1, <1>3
  <2> QED BY <1>2, <1>4, <1>5, <2>1 DEF LoopPlace, Ahead
<1>7. Collected'
  <2>1. owed' = Only(<<cur_part', rd'.prev>>, 0)
    BY <1>2, OnlyNone
  <2> QED BY <1>4, <2>1 DEF Collected, Only, AllFlashPgs, Parts, FlashPgs
<1> QED BY <1>4, <1>6, <1>7 DEF ReadLoops

\* The loops look up the next page.
LEMMA LoopsPage ==
    ASSUME ReadLoops, read_page
    PROVE  ReadLoops'
<1> DEFINE fi == rd.first
           la == rd.last
           st == rd.start
           lp == rd.lpn
           np == rd.lpn + NrParts
           x == rd.xfer
           g == <<cur_part, rd.prev>>
<1>1. LoopTypes /\ LoopPlace /\ Collected /\ more_pages
  BY DEF ReadLoops, read_page
<1>2. /\ fi \in Nat /\ la \in Nat /\ st \in Nat /\ lp \in Nat /\ x \in Nat
      /\ rd.prev \in FlashPgs \cup {UNMAPPED}
      /\ NrParts \in Nat \ {0} /\ cur_part \in Parts
      /\ \A f \in FlashPgs : <<cur_part, f>> \in AllFlashPgs
  BY <1>1, LoopFields
<1>3. AtPage(NrParts, fi, st, lp) /\ lp <= la
  BY <1>1, <1>2 DEF more_pages, more_parts, LoopPlace, AtPage
<1>4. unseen' = unseen \ {lp} /\ unseen = Ahead(NrParts, fi, la, st, lp)
  BY <1>1 DEF read_page, LoopPlace
<1>5. owed = Only(g, x) /\ (lp = st => x = 0) /\ (x > 0 => rd.prev \in FlashPgs)
  BY <1>1 DEF Collected, Only
<1>6. \E pv \in FlashPgs \cup {UNMAPPED}, xf \in Nat :
         /\ LoopsAt(fi, la, st, np, pv, xf)
         /\ owed' = Only(<<cur_part, pv>>, xf)
         /\ xf > 0 => pv \in FlashPgs
  <2>1. CASE /\ skip_page(IF rd.lpn = rd.start THEN UNMAPPED ELSE rd.prev)
             /\ UNCHANGED <<next_lun_avail_time, cmd, owed>>
    <3> DEFINE pv == IF rd.lpn = rd.start THEN UNMAPPED ELSE rd.prev
    <3>1. LoopsAt(fi, la, st, np, pv, x) /\ owed' = owed /\ pv \in FlashPgs \cup {UNMAPPED}
      BY <1>2, <2>1 DEF skip_page, next_page, LoopsAt
    <3>2. owed' = Only(<<cur_part, pv>>, x)
      <4>1. CASE rd.lpn = rd.start
        BY <1>5, <3>1, <4>1, OnlyNone
      <4>2. CASE rd.lpn # rd.start
        BY <1>5, <3>1, <4>2
      <4> QED BY <4>1, <4>2
    <3>3. x > 0 => pv \in FlashPgs
      BY <1>2, <1>5
    <3> HIDE DEF pv
    <3> QED BY <1>2, <3>1, <3>2, <3>3
  <2>2. ASSUME NEW f \in FlashPgs,
               LET found == [owed EXCEPT ![<<cur_part, f>>] = @ + 1]
                   same == rd.lpn = rd.start \/ f = rd.prev
               IN  \/ /\ same /\ rd.xfer < PgsPerFlashpg
                      /\ next_page(f, rd.xfer + 1)
                      /\ owed' = found
                      /\ UNCHANGED <<next_lun_avail_time, cmd>>
                   \/ /\ ~same
                      /\ read_flashpg(found)
                      /\ next_page(f, 1)
        PROVE  \E xf \in Nat : LoopsAt(fi, la, st, np, f, xf) /\ owed' = Only(<<cur_part, f>>, xf)
    <3> DEFINE h == <<cur_part, f>>
               found == [owed EXCEPT ![h] = @ + 1]
    <3>1. h \in AllFlashPgs /\ (h = g <=> f = rd.prev)
      BY <1>2
    <3>2. CASE (rd.lpn = rd.start \/ f = rd.prev) /\ next_page(f, rd.xfer + 1) /\ owed' = found
      <4>1. x = 0 \/ h = g
        BY <1>5, <3>1, <3>2
      <4> HIDE DEF h, g, x
      <4>2. found = Only(h, x + 1)
        <5>1. found = [Only(g, x) EXCEPT ![h] = @ + 1]
          BY <1>5
        <5>2. [Only(g, x) EXCEPT ![h] = @ + 1] = Only(h, x + 1)
          <6>1. x \in Nat /\ h \in AllFlashPgs /\ (x = 0 \/ h = g)
            BY <1>2, <3>1, <4>1
          <6> QED BY ONLY <6>1, OnlyMore
        <5> QED BY <5>1, <5>2
      <4>3. LoopsAt(fi, la, st, np, f, x + 1) /\ x + 1 \in Nat
        BY <1>2, <3>2 DEF next_page, LoopsAt, x
      <4> QED BY <3>2, <4>2, <4>3 DEF h
    <3>3. CASE f # rd.prev /\ read_flashpg(found) /\ next_page(f, 1)
      <4>1. LoopsAt(fi, la, st, np, f, 1)
        BY <3>3 DEF next_page, LoopsAt
      <4>2. CASE rd.xfer = 0
        <5>1. owed' = found
          BY <3>3, <4>2 DEF read_flashpg
        <5>0. x = 0 /\ x + 1 = 1
          BY <4>2
        <5> HIDE DEF h, g, x
        <5>2. found = Only(h, x + 1) /\ x + 1 = 1
          <6>1. found = [Only(g, x) EXCEPT ![h] = @ + 1]
            BY <1>5
          <6>2. [Only(g, x) EXCEPT ![h] = @ + 1] = Only(h, x + 1)
            <7>1. x \in Nat /\ h \in AllFlashPgs /\ (x = 0 \/ h = g)
              BY <1>2, <3>1, <5>0
            <7> QED BY ONLY <7>1, OnlyMore
          <6> QED BY <5>0, <6>1, <6>2
        <5> QED BY <4>1, <5>1, <5>2 DEF h
      <4>3. CASE rd.xfer # 0
        <5>1. owed' = [found EXCEPT ![g] = @ - x]
          BY <3>3, <4>3 DEF read_flashpg
        <5>2. g \in AllFlashPgs /\ h # g
          BY <1>2, <1>5, <3>1, <3>3, <4>3
        <5> HIDE DEF h, g, x
        <5>3. owed' = Only(h, 1)
          BY <1>2, <1>5, <3>1, <5>1, <5>2, OnlyRead
        <5> QED BY <4>1, <5>3 DEF h
      <4> QED BY <4>2, <4>3
    <3> QED BY <2>2, <3>2, <3>3
  <2>3. \/ /\ skip_page(IF rd.lpn = rd.start THEN UNMAPPED ELSE rd.prev)
           /\ UNCHANGED <<next_lun_avail_time, cmd, owed>>
        \/ \E f \in FlashPgs :
             LET found == [owed EXCEPT ![<<cur_part, f>>] = @ + 1]
                 same == rd.lpn = rd.start \/ f = rd.prev
             IN  \/ /\ same /\ rd.xfer < PgsPerFlashpg
                    /\ next_page(f, rd.xfer + 1)
                    /\ owed' = found
                    /\ UNCHANGED <<next_lun_avail_time, cmd>>
                 \/ /\ ~same
                    /\ read_flashpg(found)
                    /\ next_page(f, 1)
    BY DEF read_page
  <2> HIDE DEF g
  <2> QED BY <2>1, <2>2, <2>3
<1>7. PICK pv \in FlashPgs \cup {UNMAPPED}, xf \in Nat :
         LoopsAt(fi, la, st, np, pv, xf) /\ owed' = Only(<<cur_part, pv>>, xf) /\ (xf > 0 => pv \in FlashPgs)
  BY <1>6
<1> HIDE DEF fi, la, st, lp, np, x, g
<1>8. np \in Nat /\ np = lp + NrParts
  BY <1>2 DEF np, lp
<1>9. /\ LoopTypes' /\ cur_part' = st % NrParts
      /\ rd'.first = fi /\ rd'.last = la /\ rd'.start = st /\ rd'.lpn = np /\ rd'.prev = pv /\ rd'.xfer = xf
  <2>1. fi \in Nat /\ la \in Nat /\ st \in Nat /\ np \in Nat
    BY <1>2, <1>8 DEF fi, la, st
  <2>2. pv \in FlashPgs \cup {UNMAPPED} /\ xf \in Nat /\ LoopsAt(fi, la, st, np, pv, xf)
    BY <1>7
  <2> HIDE DEF np
  <2> QED BY ONLY <2>1, <2>2, LoopsNext
<1>10. /\ Ahead(NrParts, fi, la, st, lp) \ {lp} = Ahead(NrParts, fi, la, st, np)
       /\ AtPage(NrParts, fi, st, np)
  BY <1>2, <1>3, <1>8, AheadPage
<1>11. LoopPlace'
  <2>1. unseen' = Ahead(NrParts, fi, la, st, np)
    BY <1>4, <1>10
  <2>2. /\ fi <= st /\ st <= np /\ st < fi + NrParts /\ (np - fi) % NrParts = st - fi
    BY <1>10 DEF AtPage
  <2>3. st <= fi + NrParts /\ st <= la + 1
    <3>1. st <= lp
      BY <1>3 DEF AtPage
    <3> QED BY <1>2, <1>3, <2>2, <3>1
  <2> QED BY <1>9, <2>1, <2>2, <2>3 DEF LoopPlace, Ahead
<1>12. Collected'
  <2>1. cur_part' = cur_part
    BY <1>9 DEF cur_part, st
  <2>2. np # st
    BY <1>2, <1>3, <1>8 DEF AtPage
  <2>3. more_parts'
    BY <1>1, <1>9 DEF more_pages, more_parts, fi, la, st
  <2> QED BY <1>7, <1>9, <2>1, <2>2, <2>3 DEF Collected, Only, AllFlashPgs, Parts, FlashPgs
<1> QED BY <1>9, <1>11, <1>12 DEF ReadLoops

\* The loops come to the next partition.
LEMMA LoopsPart ==
    ASSUME ReadLoops, read_rest
    PROVE  ReadLoops'
<1> DEFINE fi == rd.first
           la == rd.last
           st == rd.start
           lp == rd.lpn
           ns == rd.start + 1
           x == rd.xfer
           g == <<cur_part, rd.prev>>
<1>1. LoopTypes /\ LoopPlace /\ Collected /\ more_parts /\ ~more_pages
  BY DEF ReadLoops, read_rest
<1>2. /\ fi \in Nat /\ la \in Nat /\ st \in Nat /\ lp \in Nat /\ x \in Nat
      /\ NrParts \in Nat \ {0} /\ cur_part \in Parts
      /\ \A f \in FlashPgs : <<cur_part, f>> \in AllFlashPgs
  BY <1>1, LoopFields
<1>3. AtPage(NrParts, fi, st, lp) /\ lp > la /\ st <= la
  BY <1>1, <1>2 DEF more_pages, more_parts, LoopPlace, AtPage
<1>4. unseen' = unseen /\ unseen = Ahead(NrParts, fi, la, st, lp)
  BY <1>1 DEF read_rest, LoopPlace
<1>5. owed = Only(g, x) /\ (x > 0 => rd.prev \in FlashPgs)
  BY <1>1 DEF Collected, Only
<1>6. owed' = NoPages
  <2>1. CASE x = 0
    <3>1. owed' = owed
      BY <2>1 DEF read_rest, read_flashpg
    <3> QED BY <1>5, <2>1, <3>1, OnlyNone
  <2>2. CASE x # 0
    <3>1. owed' = [owed EXCEPT ![g] = @ - x]
      BY <2>2 DEF read_rest, read_flashpg
    <3>2. g \in AllFlashPgs
      BY <1>2, <1>5, <2>2
    <3> HIDE DEF g, x
    <3> QED BY <1>2, <1>5, <3>1, <3>2, OnlyRead
  <2> QED BY <2>1, <2>2
<1>7. LoopsAt(fi, la, ns, ns, UNMAPPED, 0)
  BY DEF read_rest, LoopsAt
<1> HIDE DEF fi, la, st, lp, ns, x, g
<1>8. ns \in Nat /\ ns = st + 1 /\ UNMAPPED \in FlashPgs \cup {UNMAPPED} /\ 0 \in Nat
  BY <1>2 DEF ns, st
<1>9. /\ LoopTypes' /\ cur_part' = ns % NrParts
      /\ rd'.first = fi /\ rd'.last = la /\ rd'.start = ns /\ rd'.lpn = ns /\ rd'.prev = UNMAPPED /\ rd'.xfer = 0
  BY <1>2, <1>7, <1>8, LoopsNext
<1>10. /\ Ahead(NrParts, fi, la, st, lp) = Ahead(NrParts, fi, la, ns, ns)
       /\ ns < fi + NrParts => AtPage(NrParts, fi, ns, ns)
  BY <1>2, <1>3, <1>8, AheadPart
<1>11. LoopPlace'
  <2>1. unseen' = Ahead(NrParts, fi, la, ns, ns)
    BY <1>4, <1>10
  <2>2. fi <= ns /\ ns <= ns /\ ns <= fi + NrParts /\ ns <= la + 1
    BY <1>2, <1>3, <1>8 DEF AtPage
  <2>3. ns < fi + NrParts => (ns - fi) % NrParts = ns - fi
    BY <1>10 DEF AtPage
  <2> QED BY <1>9, <2>1, <2>2, <2>3 DEF LoopPlace, Ahead
<1>12. Collected'
  <2>1. owed' = Only(<<cur_part', rd'.prev>>, 0)
    BY <1>6, OnlyNone
  <2> QED BY <1>9, <2>1 DEF Collected, Only, AllFlashPgs, Parts, FlashPgs
<1> QED BY <1>9, <1>11, <1>12 DEF ReadLoops

\* A read looks up each of its pages once and transfers each mapped one once, from
\* its own flash page, for any number of partitions and dies, any length and any
\* placement of its pages.
THEOREM ReadsWhole == Spec => []ReadWhole
<1>1. Init => IInv /\ ReadLoops
  BY InitInv DEF Init, ReadLoops, NoCmd
<1>2. IInv /\ ReadLoops /\ [Next]_vars => IInv' /\ ReadLoops'
  <2> SUFFICES ASSUME IInv, ReadLoops, [Next]_vars PROVE ReadLoops'
    BY NextInv
  <2>1. CASE \/ \E w \in Writes : conv_write(w)
             \/ write_page \/ write_done \/ buffer_release \/ conv_flush \/ tick
             \/ \E l \in Luns : gc_nand(l)
             \/ UNCHANGED vars
    <3>1. UNCHANGED <<rd, owed, unseen>> /\ (cmd'.op = "read" => cmd.op = "read")
      BY <2>1, OtherSteps DEF readVars
    <3> QED BY <3>1 DEF ReadLoops, LoopTypes, LoopPlace, Collected, cur_part, more_parts
  <2>2. CASE \E first \in Parts, n \in 1 .. MaxRead : conv_read(first, n)
    BY <2>2, LoopsBegin
  <2>3. CASE read_page
    BY <2>3, LoopsPage
  <2>4. CASE read_rest
    BY <2>4, LoopsPart
  <2>5. CASE read_done
    BY <2>5 DEF read_done, ReadLoops, NoCmd
  <2> QED BY <2>1, <2>2, <2>3, <2>4, <2>5 DEF Next, go_on
<1>3. ReadLoops => ReadWhole
  <2> SUFFICES ASSUME ReadLoops, cmd.op = "read" PROVE /\ more_pages => rd.lpn \in unseen
                                                       /\ \A f \in AllFlashPgs : owed[f] >= 0
                                                       /\ ~more_parts => unseen = {} /\ owed = NoPages
    BY DEF ReadWhole
  <2>1. LoopTypes /\ LoopPlace /\ Collected
    BY DEF ReadLoops
  <2>2. /\ rd.first \in Nat /\ rd.last \in Nat /\ rd.start \in Nat /\ rd.lpn \in Nat /\ rd.xfer \in Nat
        /\ NrParts \in Nat \ {0}
    BY <2>1, LoopFields
  <2> DEFINE fi == rd.first
             la == rd.last
             st == rd.start
             lp == rd.lpn
  <2>3. unseen = Ahead(NrParts, fi, la, st, lp)
    BY <2>1 DEF LoopPlace
  <2>4. more_pages => AtPage(NrParts, fi, st, lp) /\ lp <= la
    BY <2>1 DEF more_pages, more_parts, LoopPlace, AtPage
  <2>5. ~more_parts => fi <= st /\ st <= fi + NrParts /\ ~ (st < fi + NrParts /\ st <= la)
    BY <2>1 DEF more_parts, LoopPlace
  <2>6. fi \in Nat /\ la \in Nat /\ st \in Nat /\ lp \in Nat
    BY <2>2
  <2>7. owed = Only(<<cur_part, rd.prev>>, rd.xfer)
    BY <2>1 DEF Collected, Only
  <2>8. \A f \in AllFlashPgs : owed[f] >= 0
    BY <2>2, <2>7 DEF Only
  <2>9. ~more_parts => rd.xfer = 0
    BY <2>1 DEF Collected
  <2> HIDE DEF fi, la, st, lp
  <2>10. more_pages => lp \in unseen
    BY <2>2, <2>3, <2>4, <2>6, AheadPage
  <2>11. ~more_parts => unseen = {}
    BY <2>2, <2>3, <2>5, <2>6, AheadEnd
  <2>12. ~more_parts => owed = NoPages
    BY <2>7, <2>9, OnlyNone
  <2> QED BY <2>8, <2>10, <2>11, <2>12 DEF lp
<1> QED BY <1>1, <1>2, <1>3, PTL DEF Spec

(***************************************************************************)
(* Loading and unloading the module.                                       *)
(*                                                                         *)
(* ObjectsOutliveUsers is not inductive: which objects exist, which        *)
(* threads run and whether there is a driver all follow from how far       *)
(* insmod or rmmod has come.  ModuleInv says so, for every step of both.   *)
(***************************************************************************)

(***************************************************************************)
(* The inductive invariant.                                                *)
(***************************************************************************)
\* the steps of insmod and rmmod between which something exists
Serving == {"add_devices", "loaded", "stop_bus", "stop_dispatcher"}
AllWorkers == Serving \cup {"dispatcher_init"}
OnBus == {"workers_init", "dispatcher_init", "add_devices", "loaded", "stop_bus"}
WithWorkers == AllWorkers \cup {"workers_init", "stop_workers"}
WithNs == WithWorkers \cup {"pci_init", "namespace_final"}
WithStorage == WithNs \cup {"namespace_init", "storage_final"}
WithBar == WithWorkers \cup {"namespace_final", "storage_final", "finalize"}
WithDevice == WithStorage \cup {"configs", "storage_init", "finalize"}
Steps == WithDevice \cup {"unloaded", "failed"}

\* the work queue of w exists
HasQueue(w) ==
    \/ pc \in AllWorkers
    \/ pc = "workers_init" /\ w < at
    \/ pc = "stop_workers" /\ w >= at

\* what exists after a load that failed is not told apart
MemoryByStep ==
    pc # "failed" =>
       /\ (<<"vdev", 0>> \in mem) <=> (pc \in WithDevice)
       /\ (<<"storage", 0>> \in mem) <=> (pc \in WithStorage)
       /\ (<<"proc", 0>> \in mem) <=> (pc \in WithStorage)
       /\ (<<"ns", 0>> \in mem) <=> (pc \in WithNs)
       /\ (<<"bus", 0>> \in mem) <=> (pc \in OnBus)
       /\ (<<"bar", 0>> \in mem) <=> (pc \in WithBar)
       /\ (<<"io_workers", 0>> \in mem) <=> (\E w \in Workers : HasQueue(w))
       /\ \A w \in Workers : (work_queue(w) \in mem) <=> HasQueue(w)

\* a thread runs, or is being stopped, only while its step has not passed
ThreadsByStep ==
    /\ disp # "none" => pc \in Serving
    /\ \A w \in Workers : wk[w] # "none" => HasQueue(w)

\* a driver is there between the scan of the bus and its removal; an I/O has a
\* driver, and at most one worker has it, while it is "taken"
HostByStep ==
    /\ driver # "none" => pc \in {"loaded", "stop_bus"}
    /\ io # "none" => driver \in {"bound", "removing"}
    /\ \A w \in Workers : "io" \in work[w] =>
          io = "taken" /\ \A v \in Workers : "io" \in work[v] => v = w

ModuleTypes ==
    /\ mem \subseteq Objects
    /\ pc \in Steps
    /\ at \in Workers
    /\ wk \in [Workers -> {"none", "running", "stopping"}]
    /\ work \in [Workers -> SUBSET {"io", "internal"}]
    /\ pc \notin {"workers_init", "stop_workers"} => at = 1

ModuleInv == ModuleTypes /\ MemoryByStep /\ ThreadsByStep /\ HostByStep

(***************************************************************************)
(* Operators of the model.                                                 *)
(***************************************************************************)
\* NVMeV_exit() passes its steps in the order of the code.
LEMMA ExitOrder ==
    /\ after("loaded") = "stop_bus"
    /\ after("stop_bus") = "stop_dispatcher"
    /\ after("stop_dispatcher") = "stop_workers"
    /\ after("stop_workers") = "namespace_final"
    /\ after("namespace_final") = "storage_final"
    /\ after("storage_final") = "finalize"
    /\ after("finalize") = "unloaded"
<1> DEFINE place(step) == CHOOSE i \in 1 .. Len(exit_order) - 1 : exit_order[i] = step
<1>1. /\ Len(exit_order) = 8
      /\ exit_order[1] = "loaded" /\ exit_order[2] = "stop_bus"
      /\ exit_order[3] = "stop_dispatcher" /\ exit_order[4] = "stop_workers"
      /\ exit_order[5] = "namespace_final" /\ exit_order[6] = "storage_final"
      /\ exit_order[7] = "finalize" /\ exit_order[8] = "unloaded"
  BY DEF exit_order
<1>2. \A i \in 1 .. 7 : i = 1 \/ i = 2 \/ i = 3 \/ i = 4 \/ i = 5 \/ i = 6 \/ i = 7
  OBVIOUS
<1>3. /\ place("loaded") = 1 /\ place("stop_bus") = 2 /\ place("stop_dispatcher") = 3
      /\ place("stop_workers") = 4 /\ place("namespace_final") = 5
      /\ place("storage_final") = 6 /\ place("finalize") = 7
  BY <1>1, <1>2
<1> QED BY <1>1, <1>3 DEF after

(***************************************************************************)
(* Every step keeps the invariant.                                         *)
(***************************************************************************)
Positive == NrWorkers \in Nat \ {0}

\* Creating or freeing the device, its storage, namespaces and bus outside the
\* time of the threads (VDEV_INIT to NVMEV_PCI_INIT, NVMEV_NAMESPACE_FINAL to
\* VDEV_FINALIZE).
LEMMA StepObjects ==
    ASSUME Positive, ModuleInv,
           \/ VDEV_INIT \/ load_configs \/ NVMEV_STORAGE_INIT \/ NVMEV_NAMESPACE_INIT
           \/ NVMEV_PCI_INIT
           \/ NVMEV_NAMESPACE_FINAL \/ NVMEV_STORAGE_FINAL \/ VDEV_FINALIZE
    PROVE  ModuleInv'
<1> USE DEF Serving, AllWorkers, OnBus, WithWorkers, WithNs, WithStorage, WithBar, WithDevice, Steps
<1>1. /\ UNCHANGED <<at, disp, wk, driver, admin, queues, io, work>>
      /\ pc \notin WithWorkers /\ pc' \notin WithWorkers \ {"workers_init"}
      /\ pc' \in Steps
      /\ at = 1
  BY ExitOrder DEF VDEV_INIT, load_configs, NVMEV_STORAGE_INIT, NVMEV_NAMESPACE_INIT, NVMEV_PCI_INIT,
     NVMEV_NAMESPACE_FINAL, NVMEV_STORAGE_FINAL, VDEV_FINALIZE, creates, frees, threadVars, hostVars,
     ModuleInv, ModuleTypes
<1>2. \A w \in Workers : ~ HasQueue(w) /\ ~ HasQueue(w)'
  BY <1>1 DEF HasQueue, Workers
<1>3. ModuleTypes'
  <2>1. mem' \subseteq Objects
    BY DEF VDEV_INIT, load_configs, NVMEV_STORAGE_INIT, NVMEV_NAMESPACE_INIT, NVMEV_PCI_INIT,
       NVMEV_NAMESPACE_FINAL, NVMEV_STORAGE_FINAL, VDEV_FINALIZE, creates, frees, the, Objects, ModuleInv, ModuleTypes
  <2> QED BY <1>1, <2>1 DEF ModuleInv, ModuleTypes
<1>4. MemoryByStep'
  <2> USE DEF creates, frees, ModuleInv, MemoryByStep, the, work_queue
  <2>1. CASE VDEV_INIT
    BY <1>2, <2>1 DEF VDEV_INIT
  <2>2. CASE load_configs
    BY <1>2, <2>2 DEF load_configs
  <2>3. CASE NVMEV_STORAGE_INIT
    BY <1>2, <2>3 DEF NVMEV_STORAGE_INIT
  <2>4. CASE NVMEV_NAMESPACE_INIT
    BY <1>2, <2>4 DEF NVMEV_NAMESPACE_INIT
  <2>5. CASE NVMEV_PCI_INIT
    BY <1>2, <2>5 DEF NVMEV_PCI_INIT
  <2>6. CASE NVMEV_NAMESPACE_FINAL
    BY <1>2, <2>6, ExitOrder DEF NVMEV_NAMESPACE_FINAL
  <2>7. CASE NVMEV_STORAGE_FINAL
    BY <1>2, <2>7, ExitOrder DEF NVMEV_STORAGE_FINAL
  <2>8. CASE VDEV_FINALIZE
    BY <1>2, <2>8, ExitOrder DEF VDEV_FINALIZE
  <2> QED BY <2>1, <2>2, <2>3, <2>4, <2>5, <2>6, <2>7, <2>8
<1>5. ThreadsByStep'
  BY <1>1, <1>2 DEF ModuleInv, ThreadsByStep
<1>6. HostByStep'
  BY <1>1 DEF ModuleInv, HostByStep
<1> QED BY <1>3, <1>4, <1>5, <1>6 DEF ModuleInv

\* Starting the workers, one after the other (NVMEV_IO_WORKER_INIT): a thread
\* runs when its queue and what the others need are there.
LEMMA StepStartWorker ==
    ASSUME Positive, ModuleInv, NVMEV_IO_WORKER_INIT
    PROVE  ModuleInv'
<1> USE DEF Serving, AllWorkers, OnBus, WithWorkers, WithNs, WithStorage, WithBar, WithDevice, Steps
<1>1. /\ at \in Workers /\ at \in Nat /\ NrWorkers \in Nat
      /\ UNCHANGED <<disp, driver, admin, queues, io, work>>
      /\ pc = "workers_init"
      /\ pc' = IF at = NrWorkers THEN "dispatcher_init" ELSE "workers_init"
      /\ at' = IF at = NrWorkers THEN 1 ELSE at + 1
      /\ mem' = mem \cup {<<"io_workers", 0>>, work_queue(at)}
      /\ wk' = [wk EXCEPT ![at] = "running"]
  BY DEF NVMEV_IO_WORKER_INIT, hostVars, the, Positive, Workers, ModuleInv, ModuleTypes
<1>2. /\ \A w \in Workers : HasQueue(w) <=> w < at
      /\ \A w \in Workers : HasQueue(w)' <=> w <= at
  BY <1>1 DEF HasQueue, Workers
<1>3. ModuleTypes'
  <2>1. mem' \subseteq Objects
    BY <1>1 DEF Objects, the, ModuleInv, ModuleTypes
  <2>2. at' \in Workers
    BY <1>1 DEF Workers
  <2> QED BY <1>1, <2>1, <2>2 DEF ModuleInv, ModuleTypes
<1>4. MemoryByStep'
  <2>1. \A w \in Workers : (work_queue(w) \in mem') <=> HasQueue(w)'
    <3>1. \A w \in Workers : (work_queue(w) \in mem') <=> (work_queue(w) \in mem \/ w = at)
      BY <1>1 DEF work_queue
    <3>2. \A w \in Workers : w <= at <=> w < at \/ w = at
      BY <1>1 DEF Workers
    <3> QED BY <1>1, <1>2, <3>1, <3>2 DEF ModuleInv, MemoryByStep
  <2>2. \E w \in Workers : HasQueue(w)'
    BY <1>1, <1>2
  <2> QED BY <1>1, <2>1, <2>2 DEF ModuleInv, MemoryByStep, work_queue
<1>5. ThreadsByStep'
  <2>1. ASSUME NEW w \in Workers, wk'[w] # "none" PROVE w <= at
    <3>1. w = at \/ wk[w] # "none"
      BY <1>1, <2>1 DEF ModuleInv, ModuleTypes
    <3> QED BY <1>1, <1>2, <3>1 DEF ModuleInv, ThreadsByStep, Workers
  <2> QED BY <1>1, <1>2, <2>1 DEF ModuleInv, ThreadsByStep
<1>6. HostByStep'
  BY <1>1 DEF ModuleInv, HostByStep
<1> QED BY <1>3, <1>4, <1>5, <1>6 DEF ModuleInv

\* Stopping them (NVMEV_IO_WORKER_FINAL): a work queue is freed when its thread
\* has ended.
LEMMA StepStopWorker ==
    ASSUME Positive, ModuleInv, NVMEV_IO_WORKER_FINAL
    PROVE  ModuleInv'
<1> USE DEF Serving, AllWorkers, OnBus, WithWorkers, WithNs, WithStorage, WithBar, WithDevice, Steps
<1>1. /\ at \in Workers /\ at \in Nat /\ NrWorkers \in Nat
      /\ UNCHANGED <<disp, driver, admin, queues, io>>
      /\ pc = "stop_workers"
      /\ \A w \in Workers : HasQueue(w) <=> w >= at
  BY DEF NVMEV_IO_WORKER_FINAL, hostVars, Positive, Workers, ModuleInv, ModuleTypes, HasQueue
<1>2. CASE wk[at] = "running" /\ wk' = [wk EXCEPT ![at] = "stopping"] /\ UNCHANGED <<mem, pc, at, work>>
  <2>1. \A w \in Workers : HasQueue(w)' <=> HasQueue(w)
    BY <1>2 DEF HasQueue
  <2>2. ModuleTypes'
    BY <1>1, <1>2 DEF ModuleInv, ModuleTypes
  <2>3. MemoryByStep'
    BY <1>1, <1>2, <2>1 DEF ModuleInv, MemoryByStep
  <2>4. ThreadsByStep'
    BY <1>1, <1>2, <2>1 DEF ModuleInv, ThreadsByStep, ModuleTypes
  <2>5. HostByStep'
    BY <1>1, <1>2 DEF ModuleInv, HostByStep
  <2> QED BY <2>2, <2>3, <2>4, <2>5 DEF ModuleInv
<1>3. CASE /\ wk[at] = "none"
           /\ work' = [work EXCEPT ![at] = {}]
           /\ mem' = mem \ ({work_queue(at)} \cup (IF at = NrWorkers THEN the({"io_workers"}) ELSE {}))
           /\ IF at = NrWorkers THEN pc' = after(pc) /\ at' = 1 ELSE pc' = pc /\ at' = at + 1
           /\ UNCHANGED wk
  <2>1. pc' = IF at = NrWorkers THEN "namespace_final" ELSE "stop_workers"
    BY <1>1, <1>3, ExitOrder
  <2>2. \A w \in Workers : HasQueue(w)' <=> w > at
    BY <1>1, <1>3, <2>1 DEF HasQueue, Workers
  <2>3. ModuleTypes'
    <3>1. at' \in Workers
      BY <1>1, <1>3 DEF Workers
    <3> QED BY <1>1, <1>3, <2>1, <3>1 DEF ModuleInv, ModuleTypes
  <2>4. MemoryByStep'
    <3>1. \A w \in Workers : (work_queue(w) \in mem') <=> (work_queue(w) \in mem /\ w # at)
      BY <1>1, <1>3 DEF work_queue, the, Workers
    <3>2. \A w \in Workers : w > at <=> w >= at /\ w # at
      BY <1>1 DEF Workers
    <3>3. \A w \in Workers : (work_queue(w) \in mem') <=> HasQueue(w)'
      BY <1>1, <2>2, <3>1, <3>2 DEF ModuleInv, MemoryByStep
    <3>4. (<<"io_workers", 0>> \in mem') <=> (\E w \in Workers : HasQueue(w)')
      <4>1. <<"io_workers", 0>> \in mem
        BY <1>1 DEF ModuleInv, MemoryByStep, Workers
      <4>2. (\E w \in Workers : w > at) <=> at # NrWorkers
        BY <1>1 DEF Workers
      <4> QED BY <1>3, <2>2, <4>1, <4>2 DEF the, work_queue
    <3> QED BY <1>1, <1>3, <2>1, <3>3, <3>4 DEF ModuleInv, MemoryByStep, work_queue, the
  <2>5. ThreadsByStep'
    <3>1. ASSUME NEW w \in Workers, wk'[w] # "none" PROVE w > at
      <4>1. w # at /\ HasQueue(w)
        BY <1>3, <3>1 DEF ModuleInv, ThreadsByStep
      <4> QED BY <1>1, <4>1 DEF Workers
    <3> QED BY <1>1, <1>3, <2>1, <2>2, <3>1 DEF ModuleInv, ThreadsByStep
  <2>6. HostByStep'
    BY <1>1, <1>3, <2>1 DEF ModuleInv, HostByStep, ModuleTypes
  <2> QED BY <2>3, <2>4, <2>5, <2>6 DEF ModuleInv
<1> QED BY <1>2, <1>3 DEF NVMEV_IO_WORKER_FINAL

\* Starting and stopping the dispatcher, adding and removing the bus: the work
\* queues stay, and the dispatcher is gone before the workers are stopped.
LEMMA StepDevice ==
    ASSUME Positive, ModuleInv,
           \/ NVMEV_DISPATCHER_INIT \/ pci_bus_add_devices \/ NVMeV_exit
           \/ stop_root_bus \/ remove_root_bus \/ NVMEV_DISPATCHER_FINAL
    PROVE  ModuleInv'
<1> USE DEF Serving, AllWorkers, OnBus, WithWorkers, WithNs, WithStorage, WithBar, WithDevice, Steps
<1>1. /\ UNCHANGED <<at, wk, work, io>>
      /\ at = 1
      /\ pc \in AllWorkers /\ pc' \in AllWorkers \cup {"stop_workers"}
      /\ \/ UNCHANGED mem /\ pc \in OnBus /\ pc' \in OnBus
         \/ UNCHANGED mem /\ pc = "stop_dispatcher" /\ pc' \notin OnBus
         \/ mem' = mem \ {<<"bus", 0>>} /\ pc' = "stop_dispatcher" /\ pc = "stop_bus" /\ driver = "none"
  BY ExitOrder DEF NVMEV_DISPATCHER_INIT, pci_bus_add_devices, NVMeV_exit, stop_root_bus, remove_root_bus,
     NVMEV_DISPATCHER_FINAL, frees, the, threadVars, hostVars, ModuleInv, ModuleTypes
<1>2. \A w \in Workers : HasQueue(w) /\ HasQueue(w)'
  BY <1>1 DEF HasQueue, Workers
<1>3. ModuleTypes'
  BY <1>1 DEF ModuleInv, ModuleTypes
<1>4. MemoryByStep'
  BY <1>1, <1>2 DEF ModuleInv, MemoryByStep, work_queue
<1>5. ThreadsByStep'
  <2>1. disp' # "none" => pc' \in Serving
    BY ExitOrder DEF NVMEV_DISPATCHER_INIT, pci_bus_add_devices, NVMeV_exit, stop_root_bus,
       remove_root_bus, NVMEV_DISPATCHER_FINAL, frees, threadVars, ModuleInv, ThreadsByStep
  <2> QED BY <1>1, <1>2, <2>1 DEF ThreadsByStep
<1>6. HostByStep'
  <2>1. /\ driver' # "none" => pc' \in {"loaded", "stop_bus"}
        /\ io # "none" => driver' \in {"bound", "removing"}
    BY ExitOrder DEF NVMEV_DISPATCHER_INIT, pci_bus_add_devices, NVMeV_exit, stop_root_bus,
       remove_root_bus, NVMEV_DISPATCHER_FINAL, frees, hostVars, ModuleInv, HostByStep
  <2> QED BY <1>1, <2>1 DEF ModuleInv, HostByStep
<1> QED BY <1>3, <1>4, <1>5, <1>6 DEF ModuleInv

\* The threads and the driver neither create nor free anything; a worker posts
\* only what the driver waits for.
LEMMA StepUsers ==
    ASSUME ModuleInv,
           Dispatcher \/ (\E w \in Workers : Worker(w)) \/ Driver \/ submit_io
    PROVE  ModuleInv'
<1>1. UNCHANGED <<mem, pc, at>>
  BY DEF Dispatcher, Worker, Driver, submit_io, dispatch_admin, dispatch_io, dispatcher_ends, work_done,
     worker_ends, create_queues, probed, delete_queues, removed, ask, becomes, handle_irq
<1>2. \A w \in Workers : HasQueue(w)' <=> HasQueue(w)
  BY <1>1 DEF HasQueue
<1>3. MemoryByStep'
  BY <1>1, <1>2 DEF ModuleInv, MemoryByStep
<1> SUFFICES ModuleTypes' /\ ThreadsByStep' /\ HostByStep'
  BY <1>3 DEF ModuleInv
<1> USE DEF ModuleInv, ModuleTypes, ThreadsByStep, HostByStep
<1>4. CASE dispatch_admin \/ create_queues \/ probed \/ delete_queues \/ removed \/ submit_io \/ handle_irq
  BY <1>1, <1>2, <1>4 DEF dispatch_admin, create_queues, probed, delete_queues, removed, submit_io,
     handle_irq, ask, becomes, threadVars
<1>5. CASE dispatcher_ends
  BY <1>1, <1>2, <1>5 DEF dispatcher_ends, hostVars
<1>6. ASSUME NEW w \in Workers, dispatch_io(w) PROVE ModuleTypes' /\ ThreadsByStep' /\ HostByStep'
  <2>1. \A v \in Workers : "io" \notin work[v]
    BY <1>6 DEF dispatch_io
  <2>2. \A v \in Workers : "io" \in work'[v] => v = w
    BY <1>6, <2>1 DEF dispatch_io
  <2>3. ModuleTypes'
    BY <1>1, <1>6 DEF dispatch_io
  <2> QED BY <1>1, <1>2, <1>6, <2>2, <2>3 DEF dispatch_io
<1>7. ASSUME NEW w \in Workers, NEW r \in {"io", "internal"}, work_done(w, r)
      PROVE  ModuleTypes' /\ ThreadsByStep' /\ HostByStep'
  <2>1. \A v \in Workers : "io" \in work'[v] => "io" \in work[v] /\ r # "io"
    BY <1>7 DEF work_done
  <2>2. ModuleTypes'
    BY <1>1, <1>7 DEF work_done
  <2> QED BY <1>1, <1>2, <1>7, <2>1, <2>2 DEF work_done
<1>8. ASSUME NEW w \in Workers, worker_ends(w) PROVE ModuleTypes' /\ ThreadsByStep' /\ HostByStep'
  BY <1>1, <1>2, <1>8 DEF worker_ends, hostVars
<1> QED BY <1>4, <1>5, <1>6, <1>7, <1>8 DEF Dispatcher, Worker, Driver

(***************************************************************************)
(* The theorems.                                                           *)
(***************************************************************************)
\* With at least one worker, what exists and who runs follows at every moment
\* from the step of NVMeV_init() or NVMeV_exit().
THEOREM ModuleInvariance == ASSUME Positive PROVE ModuleSpec => []ModuleInv
<1>1. InitModule => ModuleInv
  <2> SUFFICES ASSUME InitModule PROVE ModuleInv
    OBVIOUS
  <2>1. \A w \in Workers : ~ HasQueue(w)
    BY DEF InitModule, HasQueue, AllWorkers, Serving
  <2>2. ModuleTypes
    BY DEF InitModule, ModuleTypes, Steps, Positive, Workers
  <2> QED BY <2>1, <2>2 DEF InitModule, ModuleInv, MemoryByStep, ThreadsByStep, HostByStep, OnBus, WithBar,
             WithDevice, WithStorage, WithNs, WithWorkers, AllWorkers, Serving
<1>2. ModuleInv /\ [NextModule]_moduleVars => ModuleInv'
  <2> SUFFICES ASSUME ModuleInv, [NextModule]_moduleVars PROVE ModuleInv'
    OBVIOUS
  <2>1. CASE Load
    BY <2>1, StepObjects, StepStartWorker, StepDevice DEF Load
  <2>2. CASE Unload
    BY <2>2, StepObjects, StepStopWorker, StepDevice DEF Unload
  <2>3. CASE NVMeV_exit
    BY <2>3, StepDevice
  <2>4. CASE Dispatcher \/ (\E w \in Workers : Worker(w)) \/ Driver \/ submit_io
    BY <2>4, StepUsers
  <2>5. CASE UNCHANGED moduleVars
    BY <2>5 DEF moduleVars, ModuleInv, ModuleTypes, MemoryByStep, ThreadsByStep, HostByStep, HasQueue
  <2> QED BY <2>1, <2>2, <2>3, <2>4, <2>5 DEF NextModule
<1> QED BY <1>1, <1>2, PTL DEF ModuleSpec

\* Whatever the interleaving of loading, unloading, threads and driver, nobody
\* touches an object that has been freed or does not exist yet, and unloading
\* leaves nothing behind.
THEOREM NothingFreedInUse == ASSUME Positive PROVE ModuleSpec => []ObjectsOutliveUsers
<1>1. ModuleInv => ObjectsOutliveUsers
  <2> SUFFICES ASSUME ModuleInv PROVE ObjectsOutliveUsers
    OBVIOUS
  <2> USE DEF Serving, AllWorkers, OnBus, WithWorkers, WithNs, WithStorage, WithBar, WithDevice, Steps
  <2>1. ModuleTypeOK
    BY DEF ModuleInv, ModuleTypes, ModuleTypeOK
  <2>2. ASSUME disp # "none"
        PROVE  the({"vdev", "bar", "ns", "storage", "io_workers"}) \cup {work_queue(w) : w \in Workers}
                  \subseteq mem
    <3>1. pc \in Serving
      BY <2>2 DEF ModuleInv, ThreadsByStep
    <3>2. \A w \in Workers : HasQueue(w)
      BY <3>1 DEF HasQueue
    <3>3. \E w \in Workers : HasQueue(w)
      BY <3>2 DEF ModuleInv, ModuleTypes
    <3> QED BY <3>1, <3>2, <3>3 DEF ModuleInv, MemoryByStep, the
  <2>3. ASSUME NEW w \in Workers, wk[w] # "none"
        PROVE  the({"vdev", "ns", "storage", "io_workers"}) \cup {work_queue(w)} \subseteq mem
    <3>1. HasQueue(w)
      BY <2>3 DEF ModuleInv, ThreadsByStep
    <3>2. pc \in WithWorkers
      BY <3>1 DEF HasQueue
    <3> QED BY <3>1, <3>2 DEF ModuleInv, MemoryByStep, the
  <2>4. driver # "none" \/ io # "none" => the({"vdev", "bus", "bar"}) \subseteq mem
    BY DEF ModuleInv, HostByStep, MemoryByStep, the
  <2>5. pc # "failed" /\ the({"proc"}) \subseteq mem => the({"vdev", "storage"}) \subseteq mem
    BY DEF ModuleInv, MemoryByStep, the
  <2>6. ASSUME pc = "unloaded"
        PROVE  mem = {} /\ disp = "none" /\ \A w \in Workers : wk[w] = "none"
    <3>1. \A w \in Workers : ~ HasQueue(w)
      BY <2>6 DEF HasQueue
    <3>2. \A o \in Objects : o \notin mem
      BY <2>6, <3>1 DEF ModuleInv, MemoryByStep, Objects, the
    <3> QED BY <2>6, <3>1, <3>2 DEF ModuleInv, ModuleTypes, ThreadsByStep
  <2> QED BY <2>1, <2>2, <2>3, <2>4, <2>5, <2>6 DEF ObjectsOutliveUsers
<1> QED BY <1>1, ModuleInvariance, PTL

(***************************************************************************)
(* The heap of victim lines (VictimQueue).  While a line moves, the hole   *)
(* counts as its place: then only the edge above the hole (up) or the      *)
(* edges below it (down) may be out of order, and what is below the hole   *)
(* is in order with what is above it.                                      *)
(***************************************************************************)
SiftStates == [dir : {"none", "up", "down"}, i : 0 .. Capacity,
               moving_node : Lines \cup {NULL}, out : Lines \cup {NULL}]

HeapTypes ==
    /\ q_size \in 1 .. Capacity + 1 /\ Capacity \in Nat
    /\ q_d \in [HeapSlots -> Lines \cup {NULL}]
    /\ line_pos \in [Lines -> 0 .. Capacity] /\ vpc \in [Lines -> 0 .. PgsPerLine - 1]
    /\ sift \in SiftStates
    /\ sift.dir = "none" => sift = NoSift
    /\ sift.dir # "none" => /\ sift.i # 0 /\ sift.moving_node \in Lines
                            /\ sift.i < q_size \/ (q_size = 1 /\ sift.i = 1 /\ sift.out = sift.moving_node)
    /\ sift.dir = "up" => sift.out = NULL /\ sift.i < q_size

\* each slot holds another line, and the lines know their slots
SlotsHold ==
    \A j \in 1 .. q_size - 1 : /\ line_in[j] \in Lines /\ line_in[j] # sift.out
                               /\ j # sift.i => line_pos[line_in[j]] = j
SlotsDiffer == \A j, k \in 1 .. q_size - 1 : line_in[j] = line_in[k] => j = k
PosKnown ==
    \A l \in Lines : line_pos[l] # 0 =>
        \/ l = sift.out \/ l = sift.moving_node
        \/ line_pos[l] < q_size /\ line_pos[l] # sift.i /\ line_in[line_pos[l]] = l
HeapPlaces == SlotsHold /\ SlotsDiffer /\ PosKnown

\* the edge from j to its parent may be out of order
OutOfOrder(j) ==
    \/ sift.dir = "up" /\ j = sift.i
    \/ sift.dir = "down" /\ parent(j) = sift.i

HeapOrder ==
    \A j \in 2 .. q_size - 1 :
        /\ OutOfOrder(j) \/ vpc[line_in[parent(j)]] <= vpc[line_in[j]]
        /\ sift.i > 1 /\ parent(j) = sift.i => vpc[line_in[parent(sift.i)]] <= vpc[line_in[j]]

HeapInv == HeapTypes /\ HeapPlaces /\ HeapOrder

LEMMA CapacityType == IsFiniteSet(Lines) /\ NULL \notin Lines /\ Capacity \in Nat
<1>1. IsFiniteSet(Lines) /\ NULL \notin Lines
  BY LinesAssumption
<1>2. Cardinality(Lines) \in Nat
  BY <1>1, FS_CardinalityType
<1> QED BY <1>1, <1>2 DEF Capacity

LEMMA Parents ==
    ASSUME NEW j \in Nat, j >= 2
    PROVE  /\ parent(j) \in Nat /\ parent(j) >= 1 /\ parent(j) < j
           /\ \A i \in Nat : parent(j) = i <=> j = left(i) \/ j = left(i) + 1
  BY DEF parent, left

LEMMA HeapInit == InitHeap => HeapInv /\ Abstract!Init
<1> SUFFICES ASSUME InitHeap PROVE HeapInv /\ Abstract!Init
  OBVIOUS
<1>1. /\ q_d = [i \in HeapSlots |-> NULL] /\ q_size = 1 /\ line_pos = [l \in Lines |-> 0]
      /\ vpc = [l \in Lines |-> 0] /\ sift = NoSift
  BY DEF InitHeap
<1>2. 1 .. q_size - 1 = {} /\ 2 .. q_size - 1 = {}
  BY <1>1
<1>3. HeapTypes
  <2>1. Capacity \in Nat
    BY CapacityType
  <2>2. vpc \in [Lines -> 0 .. PgsPerLine - 1]
    BY <1>1, PgsPerLineAssumption
  <2>3. sift \in SiftStates /\ sift.dir = "none" /\ sift.out = NULL
    BY <1>1, <2>1 DEF NoSift, SiftStates
  <2> QED BY <1>1, <2>1, <2>2, <2>3 DEF HeapTypes
<1>4. HeapPlaces /\ HeapOrder
  BY <1>1, <1>2 DEF HeapPlaces, SlotsHold, SlotsDiffer, PosKnown, HeapOrder
<1>5. Abstract!Init
  <2>1. HeapLines = {}
    BY <1>2 DEF HeapLines
  <2> QED BY <1>1, <2>1 DEF Abstract!Init
<1> QED BY <1>3, <1>4, <1>5 DEF HeapInv

\* A heap at rest is consistent, and its first line has the fewest valid pages.
LEMMA HeapAtRest ==
    ASSUME HeapInv, sift = NoSift
    PROVE  /\ HeapConsistent
           /\ \A j \in 1 .. q_size - 1 : line_in[j] = q_d[j] /\ q_d[j] \in Lines /\ line_pos[q_d[j]] = j
           /\ \A l \in Lines : line_pos[l] # 0 => line_pos[l] \in 1 .. q_size - 1 /\ q_d[line_pos[l]] = l
           /\ \A j \in 1 .. q_size - 1 : vpc[q_d[1]] <= vpc[q_d[j]]
<1>1. /\ sift.i = 0 /\ sift.dir = "none" /\ sift.moving_node = NULL /\ sift.out = NULL /\ NULL \notin Lines
      /\ q_size \in 1 .. Capacity + 1 /\ Capacity \in Nat
      /\ line_pos \in [Lines -> 0 .. Capacity] /\ vpc \in [Lines -> 0 .. PgsPerLine - 1]
      /\ q_d \in [HeapSlots -> Lines \cup {NULL}]
  BY CapacityType DEF NoSift, HeapInv, HeapTypes
<1>2. \A j \in 1 .. q_size - 1 : line_in[j] = q_d[j]
  BY <1>1 DEF line_in
<1>3. ASSUME NEW j \in 1 .. q_size - 1
      PROVE  line_in[j] = q_d[j] /\ q_d[j] \in Lines /\ line_pos[q_d[j]] = j
  <2>1. j # sift.i
    BY <1>1
  <2> QED BY <1>2, <2>1 DEF HeapInv, HeapPlaces, SlotsHold, SlotsDiffer, PosKnown
<1>4. ASSUME NEW l \in Lines, line_pos[l] # 0
      PROVE  line_pos[l] \in 1 .. q_size - 1 /\ q_d[line_pos[l]] = l
  <2>1. line_pos[l] < q_size /\ line_in[line_pos[l]] = l
    BY <1>1, <1>4 DEF HeapInv, HeapPlaces, SlotsHold, SlotsDiffer, PosKnown
  <2>2. line_pos[l] \in 0 .. Capacity
    BY <1>1
  <2>3. line_pos[l] \in 1 .. q_size - 1
    BY <1>1, <1>4, <2>1, <2>2
  <2> QED BY <1>2, <2>1, <2>3
<1>5. ASSUME NEW j \in 2 .. q_size - 1
      PROVE  /\ vpc[q_d[parent(j)]] <= vpc[q_d[j]]
             /\ parent(j) \in 1 .. q_size - 1 /\ parent(j) < j
  <2>1. parent(j) \in 1 .. q_size - 1 /\ parent(j) < j
    BY <1>1, Parents
  <2>2. j \in 1 .. q_size - 1
    BY <1>1
  <2>3. ~ OutOfOrder(j)
    BY <1>1 DEF OutOfOrder
  <2>4. vpc[line_in[parent(j)]] <= vpc[line_in[j]]
    BY <2>3 DEF HeapInv, HeapOrder
  <2> QED BY <1>2, <2>1, <2>2, <2>4
<1>6. HeapConsistent
  <2>1. HeapTypeOK
    BY <1>1, <1>3 DEF HeapTypeOK
  <2>2. \A l \in Lines : line_pos[l] # 0 => line_pos[l] < q_size /\ q_d[line_pos[l]] = l
    BY <1>1, <1>4
  <2> QED BY <1>3, <1>5, <2>1, <2>2 DEF HeapConsistent
<1>7. ASSUME NEW k \in 1 .. q_size - 1, ~ (vpc[q_d[1]] <= vpc[q_d[k]])
      PROVE  FALSE
  <2> DEFINE B == {j \in 1 .. q_size - 1 : ~ (vpc[q_d[1]] <= vpc[q_d[j]])}
  <2>1. B \in SUBSET Nat /\ B # {}
    BY <1>1, <1>7
  <2>2. PICK j \in B : \A m \in B : j <= m
    <3> HIDE DEF B
    <3> QED BY <2>1, LeastNumber
  <2>3. \A m \in 1 .. q_size - 1 : vpc[q_d[m]] \in Int
    BY <1>1, <1>3
  <2>4. j \in 1 .. q_size - 1 /\ j # 1
    <3>1. 1 \in 1 .. q_size - 1
      BY <1>1, <1>7
    <3>2. vpc[q_d[1]] <= vpc[q_d[1]]
      BY <2>3, <3>1
    <3> QED BY <2>2, <3>2
  <2>5. j \in 2 .. q_size - 1
    BY <1>1, <2>4
  <2>6. parent(j) \in 1 .. q_size - 1 /\ parent(j) < j /\ vpc[q_d[parent(j)]] <= vpc[q_d[j]]
    BY <1>5, <2>5
  <2>7. parent(j) \notin B
    <3>1. ~ (j <= parent(j))
      BY <1>1, <2>5, <2>6
    <3> QED BY <2>2, <3>1
  <2>8. vpc[q_d[1]] <= vpc[q_d[parent(j)]]
    BY <2>6, <2>7
  <2>9. vpc[q_d[1]] \in Int /\ vpc[q_d[j]] \in Int /\ vpc[q_d[parent(j)]] \in Int
    <3>1. 1 \in 1 .. q_size - 1
      BY <1>1, <1>7
    <3> QED BY <2>3, <2>4, <2>6, <3>1
  <2>10. vpc[q_d[1]] <= vpc[q_d[j]]
    BY <2>6, <2>8, <2>9
  <2> QED BY <2>2, <2>10
<1> QED BY <1>3, <1>4, <1>6, <1>7

\* A line that is not in the heap finds room in the array.
LEMMA RoomInHeap ==
    ASSUME HeapInv, sift = NoSift, NEW l \in Lines, line_pos[l] = 0
    PROVE  q_size \in 1 .. Capacity
<1> DEFINE S == 1 .. q_size - 1
           f == [j \in S |-> q_d[j]]
           T == Lines \ {l}
<1>1. q_size \in 1 .. Capacity + 1 /\ Capacity \in Nat /\ IsFiniteSet(Lines) /\ Capacity = Cardinality(Lines)
  BY CapacityType DEF HeapInv, HeapTypes, Capacity
<1>2. \A j \in S : q_d[j] \in Lines /\ line_pos[q_d[j]] = j /\ q_d[j] # l
  <2>1. \A j \in S : q_d[j] \in Lines /\ line_pos[q_d[j]] = j
    BY HeapAtRest
  <2>2. \A j \in S : j # 0
    BY <1>1
  <2> QED BY <2>1, <2>2
<1>3. f \in Injection(S, T)
  <2>1. f \in [S -> T]
    BY <1>2
  <2>2. \A j, k \in S : f[j] = f[k] => j = k
    BY <1>2
  <2> HIDE DEF f, S, T
  <2> QED BY <2>1, <2>2 DEF Injection, IsInjective
<1>4. IsFiniteSet(T) /\ Cardinality(T) = Capacity - 1
  BY <1>1, FS_RemoveElement
<1>5. Cardinality(S) <= Cardinality(T)
  <2> HIDE DEF f, S, T
  <2> QED BY <1>3, <1>4, FS_Injection
<1>6. Cardinality(S) = q_size - 1
  <2>1. 1 \in Int /\ q_size - 1 \in Int
    BY <1>1
  <2>2. Cardinality(1 .. q_size - 1) = IF 1 > q_size - 1 THEN 0 ELSE (q_size - 1) - 1 + 1
    BY <2>1, FS_Interval
  <2> QED BY <1>1, <2>2
<1> QED BY <1>1, <1>4, <1>5, <1>6

\* A line enters at the end.
LEMMA EnterKeeps ==
    ASSUME HeapInv, NEW l \in Lines, NEW v \in 0 .. PgsPerLine - 1, enter_victim_queue(l, v)
    PROVE  HeapInv' /\ Abstract!Enter(l, v)
<1>1. /\ sift = NoSift /\ line_pos[l] = 0 /\ vpc' = [vpc EXCEPT ![l] = v] /\ line_pos' = line_pos
      /\ q_d' = [q_d EXCEPT ![q_size] = l] /\ q_size' = q_size + 1
      /\ sift' = [dir |-> "up", i |-> q_size, moving_node |-> l, out |-> NULL]
  BY DEF enter_victim_queue, pqueue_insert, bubble_up
<1>2. q_size \in 1 .. Capacity
  BY <1>1, RoomInHeap
<1>3. /\ Capacity \in Nat /\ NULL \notin Lines /\ line_pos \in [Lines -> 0 .. Capacity]
      /\ vpc \in [Lines -> 0 .. PgsPerLine - 1] /\ q_d \in [HeapSlots -> Lines \cup {NULL}]
  BY CapacityType DEF HeapInv, HeapTypes
<1>4. /\ \A j \in 1 .. q_size - 1 : line_in[j] = q_d[j] /\ q_d[j] \in Lines /\ line_pos[q_d[j]] = j
      /\ \A k \in Lines : line_pos[k] # 0 => line_pos[k] \in 1 .. q_size - 1 /\ q_d[line_pos[k]] = k
  BY <1>1, HeapAtRest
<1>5. /\ sift'.dir = "up" /\ sift'.i = q_size /\ sift'.moving_node = l /\ sift'.out = NULL
      /\ sift' \in SiftStates
  BY <1>1, <1>2, <1>3 DEF SiftStates
<1>6. HeapTypes'
  <2>1. q_size' \in 1 .. Capacity + 1 /\ sift'.i # 0 /\ sift'.i < q_size'
    BY <1>1, <1>2, <1>3, <1>5
  <2>2. q_d' \in [HeapSlots -> Lines \cup {NULL}] /\ vpc' \in [Lines -> 0 .. PgsPerLine - 1]
    BY <1>1, <1>3
  <2> QED BY <1>1, <1>3, <1>5, <2>1, <2>2 DEF HeapTypes, Capacity, HeapSlots, SiftStates
<1>7. line_in' = [j \in 1 .. q_size |-> IF j = q_size THEN l ELSE q_d'[j]]
  <2>1. 1 .. q_size' - 1 = 1 .. q_size
    BY <1>1, <1>2, <1>3
  <2> QED BY <1>5, <2>1 DEF line_in
<1>8. ASSUME NEW j \in 1 .. q_size - 1
      PROVE  /\ line_in'[j] = line_in[j] /\ line_in[j] \in Lines /\ line_in[j] # l
             /\ line_pos[line_in[j]] = j /\ j # q_size /\ vpc'[line_in[j]] = vpc[line_in[j]]
  <2>1. j # q_size /\ j # 0 /\ j \in HeapSlots /\ j \in 1 .. q_size
    BY <1>2, <1>3 DEF HeapSlots
  <2>2. q_d'[j] = q_d[j]
    BY <1>1, <1>3, <2>1
  <2>3. q_d[j] \in Lines /\ q_d[j] # l /\ line_in[j] = q_d[j] /\ line_pos[q_d[j]] = j
    BY <1>1, <1>4, <2>1
  <2>4. vpc'[q_d[j]] = vpc[q_d[j]]
    BY <1>1, <1>3, <2>3
  <2> QED BY <1>7, <2>1, <2>2, <2>3, <2>4
<1>9. /\ line_in'[q_size] = l /\ q_size \in 1 .. q_size
      /\ \A j \in 1 .. q_size : j = q_size \/ j \in 1 .. q_size - 1
      /\ 1 .. q_size' - 1 = 1 .. q_size /\ 2 .. q_size' - 1 = 2 .. q_size
  BY <1>1, <1>2, <1>3, <1>7
<1>10. HeapPlaces'
  <2>1. \A j \in 1 .. q_size : /\ line_in'[j] \in Lines /\ line_in'[j] # sift'.out
                               /\ j # sift'.i => line_pos'[line_in'[j]] = j
    <3> SUFFICES ASSUME NEW j \in 1 .. q_size
                 PROVE  /\ line_in'[j] \in Lines /\ line_in'[j] # sift'.out
                        /\ j # sift'.i => line_pos'[line_in'[j]] = j
      OBVIOUS
    <3>1. CASE j = q_size
      BY <1>3, <1>5, <1>9, <3>1
    <3>2. CASE j \in 1 .. q_size - 1
      <4>1. line_in'[j] = line_in[j] /\ line_in[j] \in Lines /\ line_pos[line_in[j]] = j
        BY <1>8, <3>2
      <4> QED BY <1>1, <1>3, <1>5, <4>1
    <3> QED BY <1>9, <3>1, <3>2
  <2>2. \A j, k \in 1 .. q_size : line_in'[j] = line_in'[k] => j = k
    BY <1>8, <1>9
  <2>3. ASSUME NEW k \in Lines, line_pos'[k] # 0
        PROVE  line_pos'[k] < q_size' /\ line_pos'[k] # sift'.i /\ line_in'[line_pos'[k]] = k
    <3>1. line_pos[k] \in 1 .. q_size - 1 /\ q_d[line_pos[k]] = k /\ line_pos'[k] = line_pos[k]
      BY <1>1, <1>4, <2>3
    <3>2. line_in'[line_pos[k]] = k /\ line_pos[k] # q_size
      BY <1>4, <1>8, <3>1
    <3>3. line_pos[k] < q_size'
      BY <1>1, <1>2, <1>3, <3>1
    <3> QED BY <1>5, <3>1, <3>2, <3>3
  <2> QED BY <1>9, <2>1, <2>2, <2>3 DEF HeapPlaces, SlotsHold, SlotsDiffer, PosKnown
<1>11. HeapOrder'
  <2> SUFFICES ASSUME NEW j \in 2 .. q_size
               PROVE  /\ OutOfOrder(j)' \/ vpc'[line_in'[parent(j)]] <= vpc'[line_in'[j]]
                      /\ ~ (parent(j) = sift'.i)
    BY <1>9 DEF HeapOrder
  <2>1. parent(j) \in 1 .. q_size - 1 /\ parent(j) < j
    BY <1>2, <1>3, Parents
  <2>2. parent(j) # sift'.i
    BY <1>5, <1>8, <2>1
  <2>3. CASE j = q_size
    BY <1>5, <2>2, <2>3 DEF OutOfOrder
  <2>4. CASE j # q_size
    <3>1. j \in 1 .. q_size - 1 /\ j \in 2 .. q_size - 1
      BY <1>2, <1>3, <2>4
    <3>2. sift.dir = "none"
      BY <1>1 DEF NoSift
    <3>3. vpc[line_in[parent(j)]] <= vpc[line_in[j]]
      BY <3>1, <3>2 DEF HeapInv, HeapOrder, OutOfOrder
    <3> QED BY <1>8, <2>1, <2>2, <3>1, <3>3
  <2> QED BY <2>3, <2>4
<1>12. Abstract!Enter(l, v)
  <2>1. l \notin HeapLines
    BY <1>8 DEF HeapLines
  <2>2. HeapLines' = {line_in'[j] : j \in 1 .. q_size}
    BY <1>9 DEF HeapLines
  <2>3. HeapLines' = HeapLines \cup {l}
    <3>1. ASSUME NEW x \in HeapLines' PROVE x \in HeapLines \cup {l}
      <4>1. PICK j \in 1 .. q_size : x = line_in'[j]
        BY <2>2
      <4> QED BY <1>8, <1>9, <4>1 DEF HeapLines
    <3>2. ASSUME NEW x \in HeapLines PROVE x \in HeapLines'
      <4>1. PICK j \in 1 .. q_size - 1 : x = line_in[j]
        BY DEF HeapLines
      <4>2. j \in 1 .. q_size
        BY <1>2, <1>3
      <4> QED BY <1>8, <2>2, <4>1, <4>2
    <3>3. l \in HeapLines'
      BY <1>9, <2>2
    <3> QED BY <3>1, <3>2, <3>3
  <2> QED BY <1>1, <2>1, <2>3 DEF Abstract!Enter
<1> QED BY <1>6, <1>10, <1>11, <1>12 DEF HeapInv

\* A queued line loses a valid page.
LEMMA LowerKeeps ==
    ASSUME HeapInv, NEW l \in Lines, mark_page_invalid(l)
    PROVE  HeapInv' /\ Abstract!Lower(l)
<1> DEFINE p == line_pos[l]
<1>1. /\ sift = NoSift /\ p # 0 /\ vpc[l] > 0 /\ vpc' = [vpc EXCEPT ![l] = vpc[l] - 1]
      /\ q_d' = q_d /\ q_size' = q_size /\ line_pos' = line_pos
  BY DEF mark_page_invalid, pqueue_change_priority
<1>2. /\ Capacity \in Nat /\ NULL \notin Lines /\ line_pos \in [Lines -> 0 .. Capacity]
      /\ vpc \in [Lines -> 0 .. PgsPerLine - 1] /\ q_d \in [HeapSlots -> Lines \cup {NULL}]
      /\ q_size \in 1 .. Capacity + 1
  BY CapacityType DEF HeapInv, HeapTypes
<1>3. /\ \A j \in 1 .. q_size - 1 : line_in[j] = q_d[j] /\ q_d[j] \in Lines /\ line_pos[q_d[j]] = j
      /\ \A k \in Lines : line_pos[k] # 0 => line_pos[k] \in 1 .. q_size - 1 /\ q_d[line_pos[k]] = k
  BY <1>1, HeapAtRest
<1>4. p \in 1 .. q_size - 1 /\ q_d[p] = l
  BY <1>1, <1>3
<1>5. vpc[l] \in 0 .. PgsPerLine - 1 /\ vpc[l] - 1 \in 0 .. PgsPerLine - 1 /\ vpc[l] - 1 <= vpc[l] /\ PgsPerLine \in Nat
  BY <1>1, <1>2, PgsPerLineAssumption
<1>6. /\ sift' = [dir |-> "up", i |-> p, moving_node |-> l, out |-> NULL]
      /\ sift'.dir = "up" /\ sift'.i = p /\ sift'.moving_node = l /\ sift'.out = NULL
  <2>1. cmppri(vpc[l], vpc[l] - 1)
    BY <1>5 DEF cmppri
  <2>2. sift' = [dir |-> "up", i |-> p, moving_node |-> q_d[p], out |-> NULL]
    BY <2>1 DEF mark_page_invalid, pqueue_change_priority, bubble_up
  <2> QED BY <1>4, <2>2
<1> HIDE DEF p
<1>7. HeapTypes'
  <2>1. p # 0 /\ p < q_size /\ p \in 0 .. Capacity
    BY <1>2, <1>4
  <2>2. vpc' \in [Lines -> 0 .. PgsPerLine - 1]
    BY <1>1, <1>2, <1>5
  <2>3. sift' \in SiftStates
    BY <1>6, <2>1 DEF SiftStates
  <2> QED BY <1>1, <1>2, <1>6, <2>1, <2>2, <2>3 DEF HeapTypes, Capacity, HeapSlots, SiftStates
<1>8. line_in' = line_in
  BY <1>1, <1>3, <1>4, <1>6 DEF line_in, NoSift
<1>9. \A j \in 1 .. q_size - 1 : /\ j # p => line_in[j] # l /\ vpc'[line_in[j]] = vpc[line_in[j]]
                                 /\ vpc'[line_in[j]] <= vpc[line_in[j]]
                                 /\ vpc[line_in[j]] \in Int /\ vpc'[line_in[j]] \in Int
  <2> SUFFICES ASSUME NEW j \in 1 .. q_size - 1
               PROVE  /\ j # p => line_in[j] # l /\ vpc'[line_in[j]] = vpc[line_in[j]]
                      /\ vpc'[line_in[j]] <= vpc[line_in[j]]
                      /\ vpc[line_in[j]] \in Int /\ vpc'[line_in[j]] \in Int
    OBVIOUS
  <2>1. line_in[j] \in Lines /\ line_pos[line_in[j]] = j
    BY <1>3
  <2>2. j # p => line_in[j] # l
    BY <2>1 DEF p
  <2>3. line_in[j] = l => vpc'[line_in[j]] = vpc[l] - 1
    BY <1>1, <1>2
  <2>4. line_in[j] # l => vpc'[line_in[j]] = vpc[line_in[j]]
    BY <1>1, <1>2, <2>1
  <2>5. vpc[line_in[j]] \in Int
    BY <1>2, <2>1
  <2> QED BY <1>5, <2>2, <2>3, <2>4, <2>5
<1>10. HeapPlaces'
  <2>1. \A j \in 1 .. q_size - 1 : line_in[j] \in Lines /\ line_in[j] # NULL /\ line_pos[line_in[j]] = j
    BY <1>2, <1>3
  <2>2. \A j, k \in 1 .. q_size - 1 : line_in[j] = line_in[k] => j = k
    BY <2>1
  <2>3. ASSUME NEW k \in Lines, line_pos[k] # 0, k # l
        PROVE  line_pos[k] < q_size /\ line_pos[k] # p /\ line_in[line_pos[k]] = k
    <3>1. line_pos[k] \in 1 .. q_size - 1 /\ line_in[line_pos[k]] = k /\ q_d[line_pos[k]] = k
      BY <1>3, <2>3
    <3>2. line_pos[k] # p
      BY <1>4, <2>3, <3>1
    <3> QED BY <1>2, <3>1, <3>2
  <2> QED BY <1>1, <1>6, <1>8, <2>1, <2>2, <2>3 DEF HeapPlaces, SlotsHold, SlotsDiffer, PosKnown
<1>11. HeapOrder'
  <2>1. \A j \in 2 .. q_size - 1 : /\ parent(j) \in 1 .. q_size - 1 /\ parent(j) < j /\ parent(j) # j
                                   /\ j \in 1 .. q_size - 1
                                   /\ vpc[line_in[parent(j)]] <= vpc[line_in[j]]
    <3> SUFFICES ASSUME NEW j \in 2 .. q_size - 1
                 PROVE  /\ parent(j) \in 1 .. q_size - 1 /\ parent(j) < j /\ parent(j) # j
                        /\ j \in 1 .. q_size - 1
                        /\ vpc[line_in[parent(j)]] <= vpc[line_in[j]]
      OBVIOUS
    <3>1. parent(j) \in 1 .. q_size - 1 /\ parent(j) < j /\ parent(j) # j /\ j \in 1 .. q_size - 1
      BY <1>2, Parents
    <3>2. sift.dir = "none"
      BY <1>1 DEF NoSift
    <3> QED BY <3>1, <3>2 DEF HeapInv, HeapOrder, OutOfOrder
  <2> SUFFICES ASSUME NEW j \in 2 .. q_size - 1
               PROVE  /\ j = p \/ vpc'[line_in[parent(j)]] <= vpc'[line_in[j]]
                      /\ p > 1 /\ parent(j) = p => vpc'[line_in[parent(p)]] <= vpc'[line_in[j]]
    BY <1>1, <1>6, <1>8 DEF HeapOrder, OutOfOrder
  <2>2. j = p \/ vpc'[line_in[parent(j)]] <= vpc'[line_in[j]]
    <3> SUFFICES ASSUME j # p PROVE vpc'[line_in[parent(j)]] <= vpc'[line_in[j]]
      OBVIOUS
    <3>1. vpc'[line_in[j]] = vpc[line_in[j]] /\ vpc'[line_in[parent(j)]] <= vpc[line_in[parent(j)]]
          /\ vpc[line_in[parent(j)]] <= vpc[line_in[j]]
      BY <1>9, <2>1
    <3>2. vpc[line_in[parent(j)]] \in Int /\ vpc[line_in[j]] \in Int /\ vpc'[line_in[parent(j)]] \in Int
      BY <1>9, <2>1
    <3> QED BY <3>1, <3>2
  <2>3. ASSUME p > 1, parent(j) = p PROVE vpc'[line_in[parent(p)]] <= vpc'[line_in[j]]
    <3>1. p \in 2 .. q_size - 1 /\ j # p
      BY <1>2, <1>4, <2>1, <2>3
    <3>2. parent(p) \in 1 .. q_size - 1 /\ parent(p) # p /\ vpc[line_in[parent(p)]] <= vpc[line_in[p]]
      BY <2>1, <3>1
    <3>3. vpc[line_in[p]] <= vpc[line_in[j]]
      BY <2>1, <2>3
    <3>4. /\ vpc'[line_in[j]] = vpc[line_in[j]] /\ vpc'[line_in[parent(p)]] = vpc[line_in[parent(p)]]
          /\ vpc[line_in[j]] \in Int /\ vpc[line_in[p]] \in Int /\ vpc[line_in[parent(p)]] \in Int
      BY <1>4, <1>9, <2>1, <3>1, <3>2
    <3> QED BY <3>2, <3>3, <3>4
  <2> QED BY <2>2, <2>3
<1>12. Abstract!Lower(l)
  <2>1. HeapLines' = HeapLines
    BY <1>1, <1>8 DEF HeapLines
  <2>2. l \in HeapLines
    BY <1>3, <1>4 DEF HeapLines
  <2> QED BY <1>1, <2>1, <2>2 DEF Abstract!Lower
<1> QED BY <1>7, <1>10, <1>11, <1>12 DEF HeapInv

\* The first line is taken out and the last one put in its place.
LEMMA TakeKeeps ==
    ASSUME HeapInv, NEW l \in Lines, select_victim_line(l)
    PROVE  HeapInv' /\ Abstract!Take(l)
<1> DEFINE m == q_size - 1
<1>1. /\ sift = NoSift /\ q_size # 1 /\ l = q_d[1] /\ line_pos' = line_pos /\ vpc' = vpc
      /\ q_d' = [q_d EXCEPT ![1] = q_d[m]] /\ q_size' = m
      /\ sift' = [dir |-> "down", i |-> 1, moving_node |-> q_d[m], out |-> l]
  <2>1. /\ sift = NoSift /\ l = pqueue_peek /\ line_pos' = line_pos /\ vpc' = vpc
        /\ q_d' = [q_d EXCEPT ![1] = q_d[m]] /\ q_size' = m
        /\ sift' = [dir |-> "down", i |-> 1, moving_node |-> q_d[m], out |-> q_d[1]]
    BY DEF select_victim_line, pqueue_pop, percolate_down
  <2>2. q_size # 1 /\ l = q_d[1]
    BY <2>1, CapacityType DEF pqueue_peek
  <2> QED BY <2>1, <2>2
<1>2. /\ Capacity \in Nat /\ NULL \notin Lines /\ line_pos \in [Lines -> 0 .. Capacity]
      /\ vpc \in [Lines -> 0 .. PgsPerLine - 1] /\ q_d \in [HeapSlots -> Lines \cup {NULL}]
      /\ q_size \in 1 .. Capacity + 1
  BY CapacityType DEF HeapInv, HeapTypes
<1>3. /\ \A j \in 1 .. q_size - 1 : line_in[j] = q_d[j] /\ q_d[j] \in Lines /\ line_pos[q_d[j]] = j
      /\ \A k \in Lines : line_pos[k] # 0 => line_pos[k] \in 1 .. q_size - 1 /\ q_d[line_pos[k]] = k
      /\ \A j \in 1 .. q_size - 1 : vpc[q_d[1]] <= vpc[q_d[j]]
  BY <1>1, HeapAtRest
<1>4. m \in Nat /\ m \in 1 .. Capacity /\ 1 \in 1 .. m /\ m \in 1 .. m
  BY <1>1, <1>2
<1>5. 1 .. q_size - 1 = 1 .. m
  OBVIOUS
<1>5a. \A j \in 1 .. m : line_in[j] = q_d[j] /\ q_d[j] \in Lines /\ line_pos[q_d[j]] = j /\ vpc[l] <= vpc[q_d[j]]
  BY <1>1, <1>3
<1> HIDE DEF m
<1>6. /\ q_d[m] \in Lines
      /\ sift'.dir = "down" /\ sift'.i = 1 /\ sift'.moving_node = q_d[m] /\ sift'.out = l
  BY <1>1, <1>3, <1>4, <1>5
<1>7. HeapTypes'
  <2>1. m \in 1 .. Capacity + 1 /\ 1 \in 0 .. Capacity /\ (1 < m \/ m = 1)
    BY <1>2, <1>4
  <2>2. m = 1 => q_d[m] = l
    BY <1>1
  <2>3. q_d' \in [HeapSlots -> Lines \cup {NULL}]
    BY <1>1, <1>2, <1>6
  <2>4. sift' \in SiftStates
    BY <1>1, <1>6, <2>1 DEF SiftStates
  <2> QED BY <1>1, <1>2, <1>6, <2>1, <2>2, <2>3, <2>4 DEF HeapTypes, Capacity, HeapSlots, SiftStates
<1>8. line_in' = [j \in 1 .. m - 1 |-> IF j = 1 THEN q_d[m] ELSE q_d'[j]]
  BY <1>1, <1>6 DEF line_in
<1>9. ASSUME NEW j \in 1 .. m - 1
      PROVE  /\ j \in 1 .. m /\ j # m
             /\ j = 1 => line_in'[j] = q_d[m]
             /\ j # 1 => line_in'[j] = q_d[j]
  <2>1. j \in 1 .. m /\ j # m /\ j \in HeapSlots
    BY <1>2, <1>4 DEF HeapSlots
  <2>2. j # 1 => q_d'[j] = q_d[j]
    BY <1>1, <1>2, <2>1
  <2> QED BY <1>8, <2>1, <2>2
<1>10. \A j, k \in 1 .. m : q_d[j] = q_d[k] => j = k
  BY <1>5a
<1>11. HeapPlaces'
  <2>1. ASSUME NEW j \in 1 .. m - 1
        PROVE  line_in'[j] \in Lines /\ line_in'[j] # l /\ (j # 1 => line_pos[line_in'[j]] = j)
    <3>1. j \in 1 .. m /\ j # m /\ 1 \in 1 .. m /\ m \in 1 .. m
      BY <1>4, <1>9
    <3>2. CASE j = 1
      BY <1>1, <1>6, <1>9, <1>10, <3>1, <3>2
    <3>3. CASE j # 1
      <4>1. line_in'[j] = q_d[j] /\ q_d[j] \in Lines /\ line_pos[q_d[j]] = j
        BY <1>3, <1>5, <1>9, <3>1, <3>3
      <4>2. q_d[j] # q_d[1]
        BY <1>10, <3>1, <3>3
      <4> QED BY <1>1, <4>1, <4>2
    <3> QED BY <3>2, <3>3
  <2>2. ASSUME NEW j \in 1 .. m - 1, NEW k \in 1 .. m - 1, line_in'[j] = line_in'[k]
        PROVE  j = k
    <3>1. j \in 1 .. m /\ j # m /\ k \in 1 .. m /\ k # m /\ m \in 1 .. m
      BY <1>4, <1>9
    <3>2. CASE j = 1 /\ k # 1
      <4>1. q_d[m] = q_d[k]
        BY <1>9, <2>2, <3>2
      <4> QED BY <1>10, <3>1, <4>1
    <3>3. CASE k = 1 /\ j # 1
      <4>1. q_d[m] = q_d[j]
        BY <1>9, <2>2, <3>3
      <4> QED BY <1>10, <3>1, <4>1
    <3>4. CASE j # 1 /\ k # 1
      <4>1. q_d[j] = q_d[k]
        BY <1>9, <2>2, <3>4
      <4> QED BY <1>10, <3>1, <4>1
    <3> QED BY <3>2, <3>3, <3>4
  <2>3. ASSUME NEW k \in Lines, line_pos[k] # 0, k # l, k # q_d[m]
        PROVE  line_pos[k] < m /\ line_pos[k] # 1 /\ line_in'[line_pos[k]] = k
    <3>1. line_pos[k] \in 1 .. m /\ q_d[line_pos[k]] = k
      BY <1>3, <1>5, <2>3
    <3>2. line_pos[k] # 1 /\ line_pos[k] # m
      BY <1>1, <2>3, <3>1
    <3>3. line_pos[k] \in 1 .. m - 1 /\ line_pos[k] < m
      BY <1>4, <3>1, <3>2
    <3> QED BY <1>9, <3>1, <3>2, <3>3
  <2> QED BY <1>1, <1>6, <2>1, <2>2, <2>3 DEF HeapPlaces, SlotsHold, SlotsDiffer, PosKnown
<1>12. HeapOrder'
  <2> SUFFICES ASSUME NEW j \in 2 .. m - 1, parent(j) # 1
               PROVE  vpc[line_in'[parent(j)]] <= vpc[line_in'[j]]
    BY <1>1, <1>6 DEF HeapOrder, OutOfOrder
  <2>1. parent(j) \in 1 .. m - 1 /\ j \in 1 .. m - 1 /\ j # 1 /\ j \in 2 .. q_size - 1
    BY <1>4, <1>5, Parents DEF m
  <2>2. line_in'[j] = q_d[j] /\ line_in'[parent(j)] = q_d[parent(j)] /\ j \in 1 .. m /\ parent(j) \in 1 .. m
    BY <1>9, <2>1
  <2>3. sift.dir = "none"
    BY <1>1 DEF NoSift
  <2>4. vpc[line_in[parent(j)]] <= vpc[line_in[j]]
    BY <2>1, <2>3 DEF HeapInv, HeapOrder, OutOfOrder
  <2> QED BY <1>3, <1>5, <2>2, <2>4
<1>13. Abstract!Take(l)
  <2>1. HeapLines = {q_d[j] : j \in 1 .. m}
    BY <1>5, <1>5a DEF HeapLines
  <2>2. HeapLines' = {line_in'[j] : j \in 1 .. m - 1}
    BY <1>1 DEF HeapLines
  <2>3. ASSUME NEW x \in HeapLines' PROVE x \in HeapLines \ {l}
    <3>1. PICK j \in 1 .. m - 1 : x = line_in'[j]
      BY <2>2
    <3>2. j \in 1 .. m /\ j # m /\ 1 \in 1 .. m /\ m \in 1 .. m
      BY <1>4, <1>9
    <3>3. CASE j = 1
      <4>1. x = q_d[m]
        BY <1>9, <3>1, <3>3
      <4>2. q_d[m] # q_d[1]
        BY <1>10, <3>2, <3>3
      <4> QED BY <1>1, <2>1, <3>2, <4>1, <4>2
    <3>4. CASE j # 1
      <4>1. x = q_d[j]
        BY <1>9, <3>1, <3>4
      <4>2. q_d[j] # q_d[1]
        BY <1>10, <3>2, <3>4
      <4> QED BY <1>1, <2>1, <3>2, <4>1, <4>2
    <3> QED BY <3>3, <3>4
  <2>4. ASSUME NEW x \in HeapLines \ {l} PROVE x \in HeapLines'
    <3>1. PICK j \in 1 .. m : x = q_d[j]
      BY <2>1
    <3>2. j # 1
      BY <1>1, <2>4, <3>1
    <3>3. CASE j = m
      <4>1. 1 \in 1 .. m - 1
        BY <1>4, <3>2, <3>3
      <4>2. line_in'[1] = q_d[m]
        BY <1>9, <4>1
      <4> QED BY <2>2, <3>1, <3>3, <4>1, <4>2
    <3>4. CASE j # m
      <4>1. j \in 1 .. m - 1
        BY <1>4, <3>4
      <4>2. line_in'[j] = q_d[j]
        BY <1>9, <3>2, <4>1
      <4> QED BY <2>2, <3>1, <4>1, <4>2
    <3> QED BY <3>3, <3>4
  <2>5. HeapLines' = HeapLines \ {l}
    BY <2>3, <2>4
  <2>6. l \in HeapLines
    BY <1>1, <1>4, <2>1
  <2>7. \A k \in HeapLines : vpc[l] <= vpc[k]
    BY <1>5a, <2>1
  <2> QED BY <1>1, <2>5, <2>6, <2>7 DEF Abstract!Take
<1> QED BY <1>7, <1>11, <1>12, <1>13 DEF HeapInv

\* The facts about a line on its way that the rounds of the loops use.
LEMMA OnTheWay ==
    ASSUME HeapInv, sift.dir # "none"
    PROVE  /\ sift.dir \in {"up", "down"} /\ sift.i \in Nat /\ sift.i >= 1 /\ sift.i \in HeapSlots
           /\ sift.moving_node \in Lines /\ sift.out \in Lines \cup {NULL}
           /\ Capacity \in Nat /\ NULL \notin Lines /\ line_pos \in [Lines -> 0 .. Capacity]
           /\ vpc \in [Lines -> 0 .. PgsPerLine - 1] /\ q_d \in [HeapSlots -> Lines \cup {NULL}]
           /\ q_size \in 1 .. Capacity + 1
           /\ \A j \in 1 .. q_size - 1 : /\ line_in[j] \in Lines /\ vpc[line_in[j]] \in Int /\ j \in HeapSlots
                                         /\ j = sift.i => line_in[j] = sift.moving_node
                                         /\ j # sift.i => line_in[j] = q_d[j]
           /\ vpc[sift.moving_node] \in Int
<1>1. /\ sift \in SiftStates /\ sift.i # 0 /\ sift.moving_node \in Lines
      /\ Capacity \in Nat /\ NULL \notin Lines /\ line_pos \in [Lines -> 0 .. Capacity]
      /\ vpc \in [Lines -> 0 .. PgsPerLine - 1] /\ q_d \in [HeapSlots -> Lines \cup {NULL}]
      /\ q_size \in 1 .. Capacity + 1
  BY CapacityType DEF HeapInv, HeapTypes
<1>2. sift.dir \in {"up", "down"} /\ sift.i \in 0 .. Capacity /\ sift.out \in Lines \cup {NULL}
  BY <1>1 DEF SiftStates
<1>3. sift.i \in Nat /\ sift.i >= 1 /\ sift.i \in HeapSlots
  BY <1>1, <1>2 DEF HeapSlots
<1>4. vpc[sift.moving_node] \in Int
  BY <1>1
<1>5. ASSUME NEW j \in 1 .. q_size - 1
      PROVE  /\ line_in[j] \in Lines /\ vpc[line_in[j]] \in Int /\ j \in HeapSlots
             /\ j = sift.i => line_in[j] = sift.moving_node
             /\ j # sift.i => line_in[j] = q_d[j]
  <2>1. line_in[j] \in Lines
    BY DEF HeapInv, HeapPlaces, SlotsHold, SlotsDiffer, PosKnown
  <2>2. j \in HeapSlots
    BY <1>1 DEF HeapSlots
  <2>3. vpc[line_in[j]] \in Int
    BY <1>1, <2>1
  <2> QED BY <2>1, <2>2, <2>3 DEF line_in
<1> QED BY <1>1, <1>2, <1>3, <1>4, <1>5

\* maxchild() names the child with the fewest valid pages.
LEMMA BestChild ==
    ASSUME HeapInv, sift.dir # "none"
    PROVE  LET k == maxchild(sift.i)
           IN  /\ k = 0 => \A j \in 2 .. q_size - 1 : parent(j) # sift.i
               /\ k # 0 => /\ k \in 2 .. q_size - 1 /\ parent(k) = sift.i /\ k > sift.i
                           /\ line_in[k] = q_d[k]
                           /\ \A j \in 2 .. q_size - 1 :
                                 parent(j) = sift.i => vpc[line_in[k]] <= vpc[line_in[j]]
<1> DEFINE i == sift.i
           c == left(i)
<1>1. /\ i \in Nat /\ i >= 1 /\ q_size \in Nat
      /\ \A j \in 1 .. q_size - 1 : /\ vpc[line_in[j]] \in Int
                                    /\ j # i => line_in[j] = q_d[j]
  BY OnTheWay
<1>2. c \in Nat /\ c >= 2 /\ c > i /\ c + 1 > i /\ c + 1 # i /\ c # i
  BY <1>1 DEF left
<1>3. parent(c) = i /\ parent(c + 1) = i /\ \A j \in 2 .. q_size - 1 : parent(j) = i => j = c \/ j = c + 1
  BY <1>1 DEF parent, left
<1>4. maxchild(i) = IF c >= q_size THEN 0
                    ELSE IF c + 1 < q_size /\ vpc[q_d[c]] > vpc[q_d[c + 1]] THEN c + 1 ELSE c
  BY DEF maxchild, cmppri
<1> HIDE DEF c
<1>5. CASE c >= q_size
  BY <1>1, <1>2, <1>3, <1>4, <1>5
<1>6. CASE c < q_size /\ ~ (c + 1 < q_size)
  <2>1. maxchild(i) = c /\ c \in 2 .. q_size - 1 /\ c \in 1 .. q_size - 1 /\ c # 0
    BY <1>1, <1>2, <1>4, <1>6
  <2>2. \A j \in 2 .. q_size - 1 : parent(j) = i => j = c
    BY <1>1, <1>2, <1>3, <1>6
  <2>3. vpc[line_in[c]] <= vpc[line_in[c]]
    BY <1>1, <2>1
  <2> QED BY <1>1, <1>2, <1>3, <2>1, <2>2, <2>3
<1>7. CASE c + 1 < q_size
  <2>1. c \in 2 .. q_size - 1 /\ c \in 1 .. q_size - 1 /\ c + 1 \in 2 .. q_size - 1 /\ c + 1 \in 1 .. q_size - 1
        /\ c # 0 /\ c + 1 # 0 /\ c < q_size
    BY <1>1, <1>2, <1>7
  <2>2. line_in[c] = q_d[c] /\ line_in[c + 1] = q_d[c + 1] /\ vpc[q_d[c]] \in Int /\ vpc[q_d[c + 1]] \in Int
    BY <1>1, <1>2, <2>1
  <2>3. CASE vpc[q_d[c]] > vpc[q_d[c + 1]]
    <3>1. maxchild(i) = c + 1
      BY <1>1, <1>2, <1>4, <1>7, <2>1, <2>3
    <3>2. vpc[q_d[c + 1]] <= vpc[q_d[c]] /\ vpc[q_d[c + 1]] <= vpc[q_d[c + 1]]
      BY <2>2, <2>3
    <3> QED BY <1>2, <1>3, <2>1, <2>2, <3>1, <3>2
  <2>4. CASE ~ (vpc[q_d[c]] > vpc[q_d[c + 1]])
    <3>1. maxchild(i) = c
      BY <1>1, <1>2, <1>4, <1>7, <2>1, <2>4
    <3>2. vpc[q_d[c]] <= vpc[q_d[c + 1]] /\ vpc[q_d[c]] <= vpc[q_d[c]]
      BY <2>2, <2>4
    <3> QED BY <1>2, <1>3, <2>1, <2>2, <3>1, <3>2
  <2> QED BY <2>3, <2>4
<1> QED BY <1>1, <1>2, <1>5, <1>6, <1>7

\* In a round the moving line and the line in slot k change places.
LEMMA RoundSwaps ==
    ASSUME HeapInv, sift.dir # "none", sift.i < q_size,
           NEW k \in 1 .. q_size - 1, k # sift.i, fill_hole_from(k)
    PROVE  /\ HeapTypes' /\ HeapPlaces' /\ HeapLines' = HeapLines
           /\ sift'.dir = sift.dir /\ sift'.i = k /\ q_size' = q_size /\ vpc' = vpc
           /\ line_in'[sift.i] = line_in[k] /\ line_in'[k] = line_in[sift.i]
           /\ \A j \in 1 .. q_size - 1 : j # k /\ j # sift.i => line_in'[j] = line_in[j]
<1> DEFINE i == sift.i
           S == 1 .. q_size - 1
<1>1. /\ q_d' = [q_d EXCEPT ![i] = q_d[k]] /\ line_pos' = [line_pos EXCEPT ![q_d[k]] = i]
      /\ sift' = [dir |-> sift.dir, i |-> k, moving_node |-> sift.moving_node, out |-> sift.out]
      /\ sift'.dir = sift.dir /\ sift'.i = k /\ sift'.moving_node = sift.moving_node /\ sift'.out = sift.out
      /\ q_size' = q_size /\ vpc' = vpc
  BY DEF fill_hole_from
<1>2. /\ i \in Nat /\ i >= 1 /\ i \in HeapSlots /\ sift.moving_node \in Lines /\ sift.out \in Lines \cup {NULL}
      /\ sift.dir \in {"up", "down"}
      /\ Capacity \in Nat /\ NULL \notin Lines /\ line_pos \in [Lines -> 0 .. Capacity]
      /\ vpc \in [Lines -> 0 .. PgsPerLine - 1] /\ q_d \in [HeapSlots -> Lines \cup {NULL}]
      /\ q_size \in 1 .. Capacity + 1
      /\ \A j \in S : /\ line_in[j] \in Lines /\ j \in HeapSlots
                      /\ j = i => line_in[j] = sift.moving_node
                      /\ j # i => line_in[j] = q_d[j]
  BY OnTheWay
<1>3. i \in S /\ k \in S /\ k # 0 /\ k < q_size /\ k \in 0 .. Capacity /\ i \in 0 .. Capacity
  BY <1>2 DEF HeapSlots
<1>4. q_d[k] = line_in[k] /\ q_d[k] \in Lines
  BY <1>2, <1>3
<1>5. /\ \A j \in S : /\ line_in[j] # sift.out
                      /\ j # i => line_pos[line_in[j]] = j
      /\ \A j, h \in S : line_in[j] = line_in[h] => j = h
      /\ \A l \in Lines : line_pos[l] # 0 =>
            \/ l = sift.out \/ l = sift.moving_node
            \/ line_pos[l] < q_size /\ line_pos[l] # i /\ line_in[line_pos[l]] = l
      /\ sift.dir = "up" => sift.out = NULL
  BY DEF HeapInv, HeapPlaces, SlotsHold, SlotsDiffer, PosKnown, HeapTypes
<1>6. line_in' = [j \in S |-> IF j = k THEN sift.moving_node ELSE q_d'[j]]
  BY <1>1 DEF line_in
<1>7. /\ line_in'[i] = line_in[k] /\ line_in'[k] = line_in[i]
      /\ \A j \in S : j # k /\ j # i => line_in'[j] = line_in[j]
  <2>1. q_d'[i] = q_d[k]
    BY <1>1, <1>2
  <2>2. \A j \in S : j # i => q_d'[j] = q_d[j]
    BY <1>1, <1>2
  <2> HIDE DEF S
  <2> QED BY <1>2, <1>3, <1>4, <1>6, <2>1, <2>2
<1>8. HeapTypes'
  <2>1. sift' \in SiftStates /\ sift'.dir # "none"
    BY <1>1, <1>2, <1>3 DEF SiftStates
  <2>2. q_d' \in [HeapSlots -> Lines \cup {NULL}] /\ line_pos' \in [Lines -> 0 .. Capacity]
    BY <1>1, <1>2, <1>3, <1>4
  <2> QED BY <1>1, <1>2, <1>3, <1>5, <2>1, <2>2 DEF HeapTypes, Capacity, HeapSlots, SiftStates
<1>9. HeapPlaces'
  <2> HIDE DEF S
  <2>1. ASSUME NEW j \in S
        PROVE  /\ line_in'[j] \in Lines /\ line_in'[j] # sift.out
               /\ j # k => line_pos'[line_in'[j]] = j
    <3>1. CASE j = k
      BY <1>2, <1>3, <1>5, <1>7, <3>1
    <3>2. CASE j = i
      <4>1. line_in'[j] = q_d[k]
        BY <1>4, <1>7, <3>2
      <4>2. line_pos'[q_d[k]] = i
        BY <1>1, <1>2, <1>4
      <4> QED BY <1>3, <1>4, <1>5, <3>2, <4>1, <4>2
    <3>3. CASE j # k /\ j # i
      <4>0. line_in[j] = line_in[k] => j = k
        BY <1>3, <1>5
      <4>1. line_in'[j] = line_in[j] /\ line_in[j] # q_d[k] /\ line_in[j] \in Lines
        BY <1>2, <1>4, <1>7, <3>3, <4>0
      <4>2. line_pos'[line_in[j]] = line_pos[line_in[j]]
        BY <1>1, <1>2, <4>1
      <4> QED BY <1>5, <3>3, <4>1, <4>2
    <3> QED BY <3>1, <3>2, <3>3
  <2>2. ASSUME NEW j \in S, NEW h \in S, line_in'[j] = line_in'[h]
        PROVE  j = h
    <3> DEFINE oj == IF j = i THEN k ELSE IF j = k THEN i ELSE j
               oh == IF h = i THEN k ELSE IF h = k THEN i ELSE h
    <3>1. line_in'[j] = line_in[oj] /\ line_in'[h] = line_in[oh] /\ oj \in S /\ oh \in S
      BY <1>3, <1>7
    <3>2. oj = oh
      <4>1. line_in[oj] = line_in[oh]
        BY <2>2, <3>1
      <4>2. \A x, y \in S : line_in[x] = line_in[y] => x = y
        BY <1>5
      <4> HIDE DEF oj, oh
      <4> QED BY <3>1, <4>1, <4>2
    <3> QED BY <3>2
  <2>3. ASSUME NEW l \in Lines, line_pos'[l] # 0, l # sift.out, l # sift.moving_node
        PROVE  line_pos'[l] < q_size /\ line_pos'[l] # k /\ line_in'[line_pos'[l]] = l
    <3>1. CASE l = q_d[k]
      <4>1. line_pos'[l] = i
        BY <1>1, <1>2, <1>4, <3>1
      <4> QED BY <1>4, <1>7, <3>1, <4>1
    <3>2. CASE l # q_d[k]
      <4>1. line_pos'[l] = line_pos[l]
        BY <1>1, <1>2, <3>2
      <4>2. line_pos[l] < q_size /\ line_pos[l] # i /\ line_in[line_pos[l]] = l
        BY <1>5, <2>3, <4>1
      <4>3. line_pos[l] \in S
        <5>1. line_pos[l] \in 0 .. Capacity /\ line_pos[l] # 0
          BY <1>2, <2>3, <4>1
        <5> QED BY <1>2, <4>2, <5>1 DEF S
      <4>4. line_pos[l] # k
        BY <1>4, <3>2, <4>2
      <4> QED BY <1>7, <4>1, <4>2, <4>3, <4>4
    <3> QED BY <3>1, <3>2
  <2>4. S = 1 .. q_size - 1
    BY DEF S
  <2> QED BY <1>1, <2>1, <2>2, <2>3, <2>4 DEF HeapPlaces, SlotsHold, SlotsDiffer, PosKnown
<1>10. HeapLines' = HeapLines
  <2>1. HeapLines = {line_in[j] : j \in S} /\ HeapLines' = {line_in'[j] : j \in S}
    BY <1>1 DEF HeapLines
  <2> HIDE DEF S
  <2>2. ASSUME NEW x \in HeapLines PROVE x \in HeapLines'
    <3>1. PICK j \in S : x = line_in[j]
      BY <2>1
    <3> QED BY <1>3, <1>7, <2>1, <3>1
  <2>3. ASSUME NEW x \in HeapLines' PROVE x \in HeapLines
    <3>1. PICK j \in S : x = line_in'[j]
      BY <2>1
    <3> QED BY <1>3, <1>7, <2>1, <3>1
  <2> QED BY <2>2, <2>3
<1> QED BY <1>1, <1>7, <1>8, <1>9, <1>10

\* A round of bubble_up() moves the hole to the parent.
LEMMA UpKeeps ==
    ASSUME HeapInv, bubble_up_round
    PROVE  HeapInv' /\ HeapLines' = HeapLines /\ vpc' = vpc
<1> DEFINE i == sift.i
           k == parent(i)
           a == [j \in 1 .. q_size - 1 |-> vpc[line_in[j]]]
           b == [j \in 1 .. q_size - 1 |-> vpc'[line_in'[j]]]
<1>1. sift.dir = "up" /\ i > 1 /\ vpc[q_d[k]] > vpc[sift.moving_node] /\ fill_hole_from(k)
  BY DEF bubble_up_round, goes_up, cmppri
<1>2. /\ i \in Nat /\ q_size \in Nat /\ i < q_size
      /\ \A j \in 1 .. q_size - 1 : /\ vpc[line_in[j]] \in Int
                                    /\ j = i => line_in[j] = sift.moving_node
                                    /\ j # i => line_in[j] = q_d[j]
  BY <1>1, OnTheWay DEF HeapInv, HeapTypes
<1>3. k \in Nat /\ k >= 1 /\ k < i /\ k \in 1 .. q_size - 1 /\ k # i /\ i \in 1 .. q_size - 1
      /\ i \in 2 .. q_size - 1
  BY <1>1, <1>2, Parents
<1>4. /\ HeapTypes' /\ HeapPlaces' /\ HeapLines' = HeapLines
      /\ sift'.dir = "up" /\ sift'.i = k /\ q_size' = q_size /\ vpc' = vpc
      /\ line_in'[i] = line_in[k] /\ line_in'[k] = line_in[i]
      /\ \A j \in 1 .. q_size - 1 : j # k /\ j # i => line_in'[j] = line_in[j]
  BY <1>1, <1>2, <1>3, RoundSwaps
<1>5. /\ \A j \in 1 .. q_size - 1 : a[j] \in Int /\ a[j] = vpc[line_in[j]] /\ b[j] = vpc'[line_in'[j]]
      /\ b[i] = a[k] /\ b[k] = a[i] /\ a[i] < a[k] /\ b[i] \in Int /\ b[k] \in Int
      /\ \A j \in 1 .. q_size - 1 : j # k /\ j # i => b[j] = a[j]
  <2>1. \A j \in 1 .. q_size - 1 : a[j] \in Int /\ a[j] = vpc[line_in[j]] /\ b[j] = vpc'[line_in'[j]]
    BY <1>2
  <2>2. b[i] = a[k] /\ b[k] = a[i] /\ \A j \in 1 .. q_size - 1 : j # k /\ j # i => b[j] = a[j]
    BY <1>3, <1>4
  <2>3. a[i] < a[k]
    BY <1>1, <1>2, <1>3, <2>1
  <2> HIDE DEF a, b
  <2> QED BY <1>3, <2>1, <2>2, <2>3
<1>6. \A j \in 2 .. q_size - 1 : /\ j \in 1 .. q_size - 1 /\ parent(j) \in 1 .. q_size - 1 /\ parent(j) < j
                                 /\ j \in Int /\ parent(j) \in Int /\ j > 1
                                 /\ j = i \/ a[parent(j)] <= a[j]
                                 /\ parent(j) = i => a[k] <= a[j]
  <2> SUFFICES ASSUME NEW j \in 2 .. q_size - 1
               PROVE  /\ j \in 1 .. q_size - 1 /\ parent(j) \in 1 .. q_size - 1 /\ parent(j) < j
                      /\ j \in Int /\ parent(j) \in Int /\ j > 1
                      /\ j = i \/ a[parent(j)] <= a[j]
                      /\ parent(j) = i => a[k] <= a[j]
    OBVIOUS
  <2>1. j \in 1 .. q_size - 1 /\ parent(j) \in 1 .. q_size - 1 /\ parent(j) < j
        /\ j \in Int /\ parent(j) \in Int /\ j > 1
    BY <1>2, Parents
  <2>2. /\ j = i \/ vpc[line_in[parent(j)]] <= vpc[line_in[j]]
        /\ parent(j) = i => vpc[line_in[k]] <= vpc[line_in[j]]
    BY <1>1 DEF HeapInv, HeapOrder, OutOfOrder
  <2> HIDE DEF a, b
  <2> QED BY <1>3, <1>5, <2>1, <2>2
<1>7. HeapOrder'
  <2> SUFFICES ASSUME NEW j \in 2 .. q_size - 1
               PROVE  /\ j = k \/ b[parent(j)] <= b[j]
                      /\ k > 1 /\ parent(j) = k => b[parent(k)] <= b[j]
    <3>1. \A j \in 2 .. q_size - 1 :
             /\ j = k \/ vpc'[line_in'[parent(j)]] <= vpc'[line_in'[j]]
             /\ k > 1 /\ parent(j) = k => vpc'[line_in'[parent(k)]] <= vpc'[line_in'[j]]
      <4> SUFFICES ASSUME NEW j \in 2 .. q_size - 1
                   PROVE  /\ j = k \/ vpc'[line_in'[parent(j)]] <= vpc'[line_in'[j]]
                          /\ k > 1 /\ parent(j) = k => vpc'[line_in'[parent(k)]] <= vpc'[line_in'[j]]
        OBVIOUS
      <4>1. j \in 1 .. q_size - 1 /\ parent(j) \in 1 .. q_size - 1
        BY <1>6
      <4>2. k > 1 => parent(k) \in 1 .. q_size - 1
        <5>1. k > 1 => k \in 2 .. q_size - 1
          BY <1>2, <1>3
        <5> QED BY <1>6, <5>1
      <4> HIDE DEF a, b, k
      <4> QED BY <1>5, <4>1, <4>2
    <3> QED BY <1>4, <3>1 DEF HeapOrder, OutOfOrder
  <2> HIDE DEF a, b, k
  <2>0. k = parent(i)
    BY DEF k
  <2>1. ASSUME j # k PROVE b[parent(j)] <= b[j]
    <3>1. CASE j = i
      BY <1>3, <1>5, <2>0, <3>1
    <3>2. CASE j # i /\ parent(j) = i
      BY <1>3, <1>5, <1>6, <2>1, <3>2
    <3>3. CASE j # i /\ parent(j) = k
      <4>1. a[k] <= a[j] /\ b[j] = a[j] /\ b[k] = a[i] /\ a[i] < a[k] /\ a[j] \in Int
        BY <1>5, <1>6, <2>1, <3>3
      <4> QED BY <1>3, <1>5, <3>3, <4>1
    <3>4. CASE j # i /\ parent(j) # k /\ parent(j) # i
      BY <1>5, <1>6, <2>1, <3>4
    <3> QED BY <3>1, <3>2, <3>3, <3>4
  <2>2. ASSUME k > 1, parent(j) = k PROVE b[parent(k)] <= b[j]
    <3>1. k \in 2 .. q_size - 1 /\ j # k
      BY <1>2, <1>3, <1>6, <2>2
    <3>2. /\ parent(k) \in 1 .. q_size - 1 /\ parent(k) # k /\ parent(k) # i
          /\ a[parent(k)] <= a[k] /\ a[parent(k)] \in Int /\ b[parent(k)] = a[parent(k)]
      <4>1. parent(k) \in 1 .. q_size - 1 /\ parent(k) < k /\ parent(k) \in Int /\ a[parent(k)] <= a[k]
        BY <1>3, <1>6, <3>1
      <4>2. parent(k) # k /\ parent(k) # i
        BY <1>2, <1>3, <4>1
      <4> QED BY <1>5, <4>1, <4>2
    <3>3. CASE j = i
      BY <1>5, <3>2, <3>3
    <3>4. CASE j # i
      <4>1. a[k] <= a[j] /\ b[j] = a[j] /\ a[j] \in Int /\ a[k] \in Int
        BY <1>3, <1>5, <1>6, <2>2, <3>1, <3>4
      <4> QED BY <3>2, <4>1
    <3> QED BY <3>3, <3>4
  <2> QED BY <2>1, <2>2
<1> QED BY <1>4, <1>7 DEF HeapInv

\* A round of percolate_down() moves the hole to the child that is best.
LEMMA DownKeeps ==
    ASSUME HeapInv, percolate_down_round
    PROVE  HeapInv' /\ HeapLines' = HeapLines /\ vpc' = vpc
<1> DEFINE i == sift.i
           k == maxchild(i)
           a == [j \in 1 .. q_size - 1 |-> vpc[line_in[j]]]
           b == [j \in 1 .. q_size - 1 |-> vpc'[line_in'[j]]]
<1>1. sift.dir = "down" /\ k # 0 /\ vpc[sift.moving_node] > vpc[q_d[k]] /\ fill_hole_from(k)
  BY DEF percolate_down_round, goes_down, cmppri
<1>2. /\ i \in Nat /\ i >= 1 /\ q_size \in Nat
      /\ \A j \in 1 .. q_size - 1 : /\ vpc[line_in[j]] \in Int
                                    /\ j = i => line_in[j] = sift.moving_node
                                    /\ j # i => line_in[j] = q_d[j]
  BY <1>1, OnTheWay
<1>3. /\ k \in 2 .. q_size - 1 /\ parent(k) = i /\ k > i /\ line_in[k] = q_d[k]
      /\ \A j \in 2 .. q_size - 1 : parent(j) = i => vpc[line_in[k]] <= vpc[line_in[j]]
  BY <1>1, BestChild
<1> HIDE DEF k
<1>4. k \in 1 .. q_size - 1 /\ i \in 1 .. q_size - 1 /\ i < q_size /\ k # i /\ k > 1 /\ k \in Nat
  BY <1>2, <1>3
<1>5. /\ HeapTypes' /\ HeapPlaces' /\ HeapLines' = HeapLines
      /\ sift'.dir = "down" /\ sift'.i = k /\ q_size' = q_size /\ vpc' = vpc
      /\ line_in'[i] = line_in[k] /\ line_in'[k] = line_in[i]
      /\ \A j \in 1 .. q_size - 1 : j # k /\ j # i => line_in'[j] = line_in[j]
  BY <1>1, <1>4, RoundSwaps
<1>6. /\ \A j \in 1 .. q_size - 1 : a[j] \in Int /\ a[j] = vpc[line_in[j]] /\ b[j] = vpc'[line_in'[j]]
      /\ b[i] = a[k] /\ b[k] = a[i] /\ a[k] < a[i] /\ b[i] \in Int /\ b[k] \in Int
      /\ \A j \in 1 .. q_size - 1 : j # k /\ j # i => b[j] = a[j]
  <2>1. \A j \in 1 .. q_size - 1 : a[j] \in Int /\ a[j] = vpc[line_in[j]] /\ b[j] = vpc'[line_in'[j]]
    BY <1>2
  <2>2. b[i] = a[k] /\ b[k] = a[i] /\ \A j \in 1 .. q_size - 1 : j # k /\ j # i => b[j] = a[j]
    BY <1>4, <1>5
  <2>3. a[k] < a[i]
    BY <1>1, <1>2, <1>3, <1>4, <2>1
  <2> HIDE DEF a, b
  <2> QED BY <1>4, <2>1, <2>2, <2>3
<1>7. \A j \in 2 .. q_size - 1 : /\ j \in 1 .. q_size - 1 /\ parent(j) \in 1 .. q_size - 1 /\ parent(j) < j
                                 /\ j \in Int /\ parent(j) \in Int /\ j > 1
                                 /\ parent(j) # i => a[parent(j)] <= a[j]
                                 /\ i > 1 /\ parent(j) = i => a[parent(i)] <= a[j]
                                 /\ parent(j) = i => a[k] <= a[j]
  <2> SUFFICES ASSUME NEW j \in 2 .. q_size - 1
               PROVE  /\ j \in 1 .. q_size - 1 /\ parent(j) \in 1 .. q_size - 1 /\ parent(j) < j
                      /\ j \in Int /\ parent(j) \in Int /\ j > 1
                      /\ parent(j) # i => a[parent(j)] <= a[j]
                      /\ i > 1 /\ parent(j) = i => a[parent(i)] <= a[j]
                      /\ parent(j) = i => a[k] <= a[j]
    OBVIOUS
  <2>1. j \in 1 .. q_size - 1 /\ parent(j) \in 1 .. q_size - 1 /\ parent(j) < j
        /\ j \in Int /\ parent(j) \in Int /\ j > 1
    BY <1>2, Parents
  <2>2. /\ parent(j) # i => vpc[line_in[parent(j)]] <= vpc[line_in[j]]
        /\ i > 1 /\ parent(j) = i => vpc[line_in[parent(i)]] <= vpc[line_in[j]]
    BY <1>1 DEF HeapInv, HeapOrder, OutOfOrder
  <2>3. i > 1 => parent(i) \in 1 .. q_size - 1
    BY <1>2, <1>4, Parents
  <2> HIDE DEF a, b
  <2> QED BY <1>3, <1>4, <1>6, <2>1, <2>2, <2>3
<1>8. HeapOrder'
  <2> SUFFICES ASSUME NEW j \in 2 .. q_size - 1
               PROVE  /\ parent(j) = k \/ b[parent(j)] <= b[j]
                      /\ parent(j) = k => b[parent(k)] <= b[j]
    <3>1. \A j \in 2 .. q_size - 1 :
             /\ parent(j) = k \/ vpc'[line_in'[parent(j)]] <= vpc'[line_in'[j]]
             /\ k > 1 /\ parent(j) = k => vpc'[line_in'[parent(k)]] <= vpc'[line_in'[j]]
      <4> SUFFICES ASSUME NEW j \in 2 .. q_size - 1
                   PROVE  /\ parent(j) = k \/ vpc'[line_in'[parent(j)]] <= vpc'[line_in'[j]]
                          /\ k > 1 /\ parent(j) = k => vpc'[line_in'[parent(k)]] <= vpc'[line_in'[j]]
        OBVIOUS
      <4>1. j \in 1 .. q_size - 1 /\ parent(j) \in 1 .. q_size - 1 /\ parent(k) \in 1 .. q_size - 1
        BY <1>3, <1>4, <1>7
      <4> HIDE DEF a, b
      <4> QED BY <1>6, <4>1
    <3> QED BY <1>5, <3>1 DEF HeapOrder, OutOfOrder
  <2> HIDE DEF a, b
  <2>1. ASSUME parent(j) # k PROVE b[parent(j)] <= b[j]
    <3>1. CASE j = k
      BY <1>3, <1>4, <1>6, <3>1
    <3>2. CASE j # k /\ parent(j) = i
      <4>1. j # i
        BY <1>7, <3>2
      <4> QED BY <1>6, <1>7, <3>2, <4>1
    <3>3. CASE j = i
      <4>1. parent(i) \in 1 .. q_size - 1 /\ parent(i) < i /\ parent(i) \in Int /\ i > 1
        BY <1>7, <3>3
      <4>2. parent(i) # i /\ parent(i) # k
        BY <1>2, <1>3, <1>4, <4>1
      <4>3. a[parent(i)] <= a[k]
        BY <1>3, <1>7, <4>1
      <4> QED BY <1>6, <3>3, <4>1, <4>2, <4>3
    <3>4. CASE j # i /\ j # k /\ parent(j) # i
      BY <1>6, <1>7, <2>1, <3>4
    <3> QED BY <3>1, <3>2, <3>3, <3>4
  <2>2. ASSUME parent(j) = k PROVE b[parent(k)] <= b[j]
    <3>1. j # k /\ j # i
      <4>1. j > k
        BY <1>7, <2>2
      <4> QED BY <1>2, <1>3, <1>4, <4>1
    <3>2. a[k] <= a[j] /\ b[j] = a[j]
      BY <1>4, <1>6, <1>7, <2>2, <3>1
    <3> QED BY <1>3, <1>6, <3>2
  <2> QED BY <2>1, <2>2
<1> QED BY <1>5, <1>8 DEF HeapInv

\* The moving line is put into the hole: every edge is in order.
LEMMA SettleKeeps ==
    ASSUME HeapInv, settle
    PROVE  HeapInv' /\ HeapLines' = HeapLines /\ vpc' = vpc
<1> DEFINE i == sift.i
           S == 1 .. q_size - 1
<1>1. /\ sift.dir # "none"
      /\ sift.dir = "up" => ~ goes_up
      /\ sift.dir = "down" => ~ goes_down
      /\ q_d' = [q_d EXCEPT ![i] = sift.moving_node]
      /\ line_pos' = [l \in Lines |-> IF l = sift.out THEN 0
                                      ELSE IF l = sift.moving_node THEN i ELSE line_pos[l]]
      /\ sift' = NoSift /\ q_size' = q_size /\ vpc' = vpc
  BY DEF settle
<1>2. /\ i \in Nat /\ i >= 1 /\ i \in HeapSlots /\ sift.moving_node \in Lines /\ sift.dir \in {"up", "down"}
      /\ Capacity \in Nat /\ NULL \notin Lines /\ line_pos \in [Lines -> 0 .. Capacity]
      /\ vpc \in [Lines -> 0 .. PgsPerLine - 1] /\ q_d \in [HeapSlots -> Lines \cup {NULL}]
      /\ q_size \in 1 .. Capacity + 1
      /\ \A j \in S : /\ line_in[j] \in Lines /\ vpc[line_in[j]] \in Int /\ j \in HeapSlots
                      /\ j = i => line_in[j] = sift.moving_node
                      /\ j # i => line_in[j] = q_d[j]
      /\ vpc[sift.moving_node] \in Int
  BY <1>1, OnTheWay
<1>3. /\ sift'.dir = "none" /\ sift'.i = 0 /\ sift'.moving_node = NULL /\ sift'.out = NULL
      /\ \A j \in S : j # 0
  BY <1>1, <1>2 DEF NoSift
<1>4. /\ \A j \in S : /\ line_in[j] # sift.out
                      /\ j # i => line_pos[line_in[j]] = j
      /\ \A j, h \in S : line_in[j] = line_in[h] => j = h
      /\ \A l \in Lines : line_pos[l] # 0 =>
            \/ l = sift.out \/ l = sift.moving_node
            \/ line_pos[l] < q_size /\ line_pos[l] # i /\ line_in[line_pos[l]] = l
      /\ i < q_size \/ (q_size = 1 /\ sift.out = sift.moving_node)
      /\ sift.dir = "up" => i < q_size
  BY <1>1 DEF HeapInv, HeapPlaces, SlotsHold, SlotsDiffer, PosKnown, HeapTypes
<1>5. line_in' = line_in
  <2>1. line_in' = [j \in S |-> q_d'[j]]
    BY <1>1, <1>3 DEF line_in
  <2>2. \A j \in S : q_d'[j] = line_in[j]
    <3> SUFFICES ASSUME NEW j \in S PROVE q_d'[j] = line_in[j]
      OBVIOUS
    <3>1. j \in HeapSlots
      BY <1>2
    <3> QED BY <1>1, <1>2, <3>1
  <2>3. line_in = [j \in S |-> line_in[j]]
    BY DEF line_in
  <2> QED BY <2>1, <2>2, <2>3
<1>6. HeapTypes'
  <2>1. q_d' \in [HeapSlots -> Lines \cup {NULL}]
    BY <1>1, <1>2
  <2>2. line_pos' \in [Lines -> 0 .. Capacity]
    <3>1. i \in 0 .. Capacity /\ 0 \in 0 .. Capacity
      BY <1>2 DEF HeapSlots
    <3> QED BY <1>1, <1>2, <3>1
  <2>3. sift' \in SiftStates
    BY <1>1, <1>2 DEF SiftStates, NoSift
  <2> QED BY <1>1, <1>2, <1>3, <2>1, <2>2, <2>3 DEF HeapTypes, Capacity, HeapSlots, SiftStates, NoSift
<1>7. HeapPlaces'
  <2>1. ASSUME NEW j \in S
        PROVE  line_in[j] \in Lines /\ line_in[j] # NULL /\ line_pos'[line_in[j]] = j
    <3>1. line_in[j] \in Lines /\ line_in[j] # sift.out /\ line_in[j] # NULL
      BY <1>2, <1>4
    <3>2. CASE j = i
      <4>1. line_pos'[line_in[j]] = i
        BY <1>1, <1>2, <3>1, <3>2
      <4> QED BY <3>1, <3>2, <4>1
    <3>3. CASE j # i
      <4>1. line_in[j] # sift.moving_node
        <5>1. q_size # 1
          BY <1>2
        <5>2. i \in S
          BY <1>2, <1>4, <5>1
        <5>3. line_in[i] = sift.moving_node
          BY <1>2, <5>2
        <5>4. line_in[j] = line_in[i] => j = i
          BY <1>4, <5>2
        <5> QED BY <3>3, <5>3, <5>4
      <4>2. line_pos'[line_in[j]] = line_pos[line_in[j]]
        BY <1>1, <3>1, <4>1
      <4> QED BY <1>4, <3>1, <3>3, <4>2
    <3> QED BY <3>2, <3>3
  <2>2. ASSUME NEW l \in Lines, line_pos'[l] # 0
        PROVE  line_pos'[l] < q_size /\ line_in[line_pos'[l]] = l
    <3>1. l # sift.out
      BY <1>1, <2>2
    <3>2. CASE l = sift.moving_node
      <4>1. line_pos'[l] = i
        BY <1>1, <3>1, <3>2
      <4>2. i < q_size
        BY <1>4, <3>1, <3>2
      <4>3. i \in S
        BY <1>2, <4>2
      <4> QED BY <1>2, <3>2, <4>1, <4>2, <4>3
    <3>3. CASE l # sift.moving_node
      <4>1. line_pos'[l] = line_pos[l]
        BY <1>1, <3>1, <3>3
      <4> QED BY <1>4, <2>2, <3>1, <3>3, <4>1
    <3> QED BY <3>2, <3>3
  <2>3. \A j, h \in 1 .. q_size' - 1 : line_in'[j] = line_in'[h] => j = h
    BY <1>1, <1>4, <1>5
  <2>4. \A j \in 1 .. q_size' - 1 : /\ line_in'[j] \in Lines /\ line_in'[j] # sift'.out
                                    /\ j # sift'.i => line_pos'[line_in'[j]] = j
    BY <1>1, <1>3, <1>5, <2>1
  <2>5. \A l \in Lines : line_pos'[l] # 0 =>
           \/ l = sift'.out \/ l = sift'.moving_node
           \/ line_pos'[l] < q_size' /\ line_pos'[l] # sift'.i /\ line_in'[line_pos'[l]] = l
    BY <1>1, <1>3, <1>5, <2>2
  <2>6. SlotsHold'
    BY <2>4 DEF SlotsHold
  <2>7. SlotsDiffer'
    BY <2>3 DEF SlotsDiffer
  <2>8. PosKnown'
    BY <2>5 DEF PosKnown
  <2> QED BY <2>6, <2>7, <2>8 DEF HeapPlaces
<1>8. HeapOrder'
  <2> SUFFICES ASSUME NEW j \in 2 .. q_size - 1
               PROVE  vpc[line_in[parent(j)]] <= vpc[line_in[j]]
    BY <1>1, <1>3, <1>5 DEF HeapOrder, OutOfOrder
  <2>1. j \in S /\ parent(j) \in S /\ parent(j) < j /\ j \in Nat /\ parent(j) \in Nat
    BY <1>2, Parents
  <2>2. OutOfOrder(j) \/ vpc[line_in[parent(j)]] <= vpc[line_in[j]]
    BY DEF HeapInv, HeapOrder
  <2>3. CASE sift.dir = "up" /\ j = i
    <3>1. ~ (vpc[q_d[parent(i)]] > vpc[sift.moving_node])
      <4>1. i > 1
        BY <2>1, <2>3
      <4> QED BY <1>1, <2>3, <4>1 DEF goes_up, cmppri
    <3>2. parent(j) # i
      BY <2>1, <2>3
    <3>3. line_in[parent(j)] = q_d[parent(i)] /\ line_in[j] = sift.moving_node
          /\ vpc[line_in[parent(j)]] \in Int
      BY <1>2, <2>1, <2>3, <3>2
    <3> QED BY <1>2, <3>1, <3>3
  <2>4. CASE sift.dir = "down" /\ parent(j) = i
    <3> DEFINE k == maxchild(i)
    <3>1. k # 0
      BY <1>1, <2>4, BestChild
    <3>2. /\ k \in 2 .. q_size - 1 /\ line_in[k] = q_d[k]
          /\ vpc[line_in[k]] <= vpc[line_in[j]]
      BY <1>1, <2>4, <3>1, BestChild
    <3>3. ~ (vpc[sift.moving_node] > vpc[q_d[k]])
      BY <1>1, <2>4, <3>1 DEF goes_down, cmppri
    <3> HIDE DEF k
    <3>4. k \in S
      BY <1>2, <3>2
    <3>5. line_in[i] = sift.moving_node /\ vpc[line_in[j]] \in Int /\ vpc[line_in[k]] \in Int
      BY <1>2, <2>1, <2>4, <3>4
    <3> QED BY <1>2, <2>4, <3>2, <3>3, <3>5
  <2> QED BY <2>2, <2>3, <2>4 DEF OutOfOrder
<1>9. HeapLines' = HeapLines
  BY <1>1, <1>5 DEF HeapLines
<1> QED BY <1>1, <1>6, <1>7, <1>8, <1>9 DEF HeapInv

LEMMA HeapStep ==
    ASSUME HeapInv, [NextHeap]_heapVars
    PROVE  HeapInv' /\ [Abstract!Next]_Abstract!vars
<1>1. ASSUME NEW l \in Lines, NEW v \in 0 .. PgsPerLine - 1, enter_victim_queue(l, v)
      PROVE  HeapInv' /\ Abstract!Next
  BY <1>1, EnterKeeps DEF Abstract!Next
<1>2. ASSUME NEW l \in Lines, mark_page_invalid(l)
      PROVE  HeapInv' /\ Abstract!Next
  BY <1>2, LowerKeeps DEF Abstract!Next
<1>3. ASSUME NEW l \in Lines, select_victim_line(l)
      PROVE  HeapInv' /\ Abstract!Next
  BY <1>3, TakeKeeps DEF Abstract!Next
<1>4. CASE bubble_up_round
  BY <1>4, UpKeeps DEF Abstract!vars
<1>5. CASE percolate_down_round
  BY <1>5, DownKeeps DEF Abstract!vars
<1>6. CASE settle
  BY <1>6, SettleKeeps DEF Abstract!vars
<1>7. CASE UNCHANGED heapVars
  <2>0. /\ q_d' = q_d /\ q_size' = q_size /\ line_pos' = line_pos /\ vpc' = vpc /\ sift' = sift
        /\ line_in' = line_in
    BY <1>7 DEF heapVars, line_in
  <2>1. HeapInv'
    <3>1. HeapTypes'
      BY <2>0 DEF HeapInv, HeapTypes, Capacity, HeapSlots, SiftStates, NoSift
    <3>2. HeapPlaces'
      BY <2>0 DEF HeapInv, HeapPlaces, SlotsHold, SlotsDiffer, PosKnown
    <3>3. HeapOrder'
      BY <2>0 DEF HeapInv, HeapOrder, OutOfOrder
    <3> QED BY <3>1, <3>2, <3>3 DEF HeapInv
  <2>2. HeapLines' = HeapLines /\ vpc' = vpc
    BY <2>0 DEF HeapLines
  <2> QED BY <2>1, <2>2 DEF Abstract!vars
<1> QED BY <1>1, <1>2, <1>3, <1>4, <1>5, <1>6, <1>7 DEF NextHeap

\* what holds whenever no line is on its way
ConsistentAtRest == sift = NoSift => HeapConsistent

(***************************************************************************)
(* The heap of pqueue.c implements the set of lines that ConvFTL assumes:  *)
(* whatever the number of lines, in whatever order lines enter, lose valid *)
(* pages and are taken, the victim is a line with the fewest valid pages,  *)
(* no line is lost, and each operation leaves positions and order right.   *)
(***************************************************************************)
THEOREM HeapImplementsSet == HeapSpec => ImplementsVictimSet
<1>1. InitHeap => HeapInv /\ Abstract!Init
  BY HeapInit
<1>2. HeapInv /\ [NextHeap]_heapVars => HeapInv' /\ [Abstract!Next]_Abstract!vars
  BY HeapStep
<1>3. HeapInv => ConsistentAtRest
  BY HeapAtRest DEF ConsistentAtRest
<1>4. ConsistentAtRest' => (sift' = NoSift => HeapConsistent')
  BY DEF ConsistentAtRest, NoSift
<1>5. ConsistentAtRest' => [sift' = NoSift => HeapConsistent']_heapVars
  BY <1>4
<1> QED BY <1>1, <1>2, <1>3, <1>5, PTL DEF HeapSpec, Abstract!Spec, ImplementsVictimSet

(***************************************************************************)
(* The ring of credits (ChannelModel).                                     *)
(***************************************************************************)
ChannelTypes ==
    /\ head \in Entries
    /\ valid_len \in 0 .. NR_CREDIT_ENTRIES
    /\ age \in 0 .. Wrap - 1
    /\ avail_credits \in [Entries -> 0 .. MaxCredits]

\* what lies behind the valid part is untouched
RestUntouched == \A o \in Entries : o >= valid_len => avail_credits[entry(o)] = MaxCredits

ChannelInv == ChannelTypes /\ RestUntouched

\* The lesser and the greater of two numbers.
LEMMA Lesser ==
    ASSUME NEW a \in Int, NEW b \in Int
    PROVE  /\ Min({a, b}) = (IF a <= b THEN a ELSE b)
           /\ Max({a, b}) = (IF a >= b THEN a ELSE b)
<1>1. \E x \in {a, b} : \A y \in {a, b} : x <= y
  OBVIOUS
<1>2. \E x \in {a, b} : \A y \in {a, b} : x >= y
  OBVIOUS
<1>3. Min({a, b}) = (IF a <= b THEN a ELSE b)
  BY <1>1 DEF Min
<1>4. Max({a, b}) = (IF a >= b THEN a ELSE b)
  BY <1>2 DEF Max
<1> QED BY <1>3, <1>4

\* Remainders near the divisor.
LEMMA Wrapped ==
    ASSUME NEW n \in Nat \ {0}, NEW a \in Int
    PROVE  /\ 0 <= a /\ a < n => a % n = a
           /\ n <= a /\ a < n + n => a % n = a - n
           /\ n + n <= a /\ a < n + n + n => a % n = a - n - n
           /\ a < 0 /\ 0 <= a + n => a % n = a + n
<1> DEFINE d == a \div n
           m == a % n
<1>1. d \in Int /\ m \in 0 .. n - 1 /\ m = a % n
  OBVIOUS
<1>2. a = n * d + m
  OBVIOUS
<1> HIDE DEF d, m
<1>3. /\ d >= 1 => n * d >= n
      /\ d >= 2 => n * d >= n + n
      /\ d >= 3 => n * d >= n + n + n
      /\ d <= 0 => n * d <= 0
      /\ d <= 1 => n * d <= n
      /\ d <= 2 => n * d <= n + n
      /\ d <= -1 => n * d <= 0 - n
      /\ d <= -2 => n * d <= 0 - n - n
      /\ d >= 0 => n * d >= 0
      /\ d >= -1 => n * d >= 0 - n
  BY <1>1
<1>4. /\ d = 0 => n * d = 0
      /\ d = 1 => n * d = n
      /\ d = 2 => n * d = n + n
      /\ d = -1 => n * d = 0 - n
      /\ n * d \in Int
  BY <1>1
<1> DEFINE p == n * d
<1> HIDE DEF p
<1>5. /\ p \in Int /\ a = p + m
      /\ d >= 1 => p >= n
      /\ d >= 2 => p >= n + n
      /\ d >= 3 => p >= n + n + n
      /\ d <= 0 => p <= 0
      /\ d <= 1 => p <= n
      /\ d <= -1 => p <= 0 - n
      /\ d <= -2 => p <= 0 - n - n
      /\ d = 0 => p = 0
      /\ d = 1 => p = n
      /\ d = 2 => p = n + n
      /\ d = -1 => p = 0 - n
  BY <1>2, <1>3, <1>4 DEF p
<1>6. ASSUME 0 <= a, a < n PROVE m = a
  <2>1. d = 0
    BY <1>1, <1>5, <1>6
  <2> QED BY <1>1, <1>5, <2>1
<1>7. ASSUME n <= a, a < n + n PROVE m = a - n
  <2>1. d = 1
    BY <1>1, <1>5, <1>7
  <2> QED BY <1>1, <1>5, <2>1
<1>8. ASSUME n + n <= a, a < n + n + n PROVE m = a - n - n
  <2>1. d = 2
    BY <1>1, <1>5, <1>8
  <2> QED BY <1>1, <1>5, <2>1
<1>9. ASSUME a < 0, 0 <= a + n PROVE m = a + n
  <2>1. d = -1
    BY <1>1, <1>5, <1>9
  <2> QED BY <1>1, <1>5, <2>1
<1> QED BY <1>1, <1>6, <1>7, <1>8, <1>9

\* x is c entries behind h in a ring of n, y is c + o entries behind it
InRing(n, h, c, o, x, y) == x = (h + c) % n /\ y = (h + (c + o)) % n

LEMMA RingPlaces ==
    ASSUME NEW n \in Nat \ {0}, NEW h \in 0 .. n - 1, NEW c \in 0 .. n, NEW o \in 0 .. n - 1,
           NEW x, NEW y, InRing(n, h, c, o, x, y)
    PROVE  /\ x \in 0 .. n - 1 /\ y \in 0 .. n - 1
           /\ (x + o) % n = y /\ (y - x) % n = o
           /\ c + o >= n => y = (h + (c + o - n)) % n
           /\ (y - h) % n = IF c + o >= n THEN c + o - n ELSE c + o
<1>0. x = (h + c) % n /\ y = (h + (c + o)) % n
  BY DEF InRing
<1>1. /\ x = IF h + c < n THEN h + c ELSE h + c - n
      /\ x \in 0 .. n - 1
  <2>1. h + c \in Int /\ 0 <= h + c /\ h + c < n + n
    OBVIOUS
  <2> DEFINE a == h + c
  <2> HIDE DEF a
  <2>2. /\ a < n => a % n = a
        /\ n <= a => a % n = a - n
    BY <2>1, Wrapped DEF a
  <2> QED BY <1>0, <2>1, <2>2 DEF a
<1>2. /\ y = IF h + (c + o) < n THEN h + (c + o) ELSE IF h + (c + o) < n + n THEN h + (c + o) - n ELSE h + (c + o) - n - n
      /\ y \in 0 .. n - 1
  <2>1. h + (c + o) \in Int /\ 0 <= h + (c + o) /\ h + (c + o) < n + n + n
    OBVIOUS
  <2> DEFINE a == h + (c + o)
  <2> HIDE DEF a
  <2>2. /\ a < n => a % n = a
        /\ n <= a /\ a < n + n => a % n = a - n
        /\ n + n <= a => a % n = a - n - n
    BY <2>1, Wrapped DEF a
  <2> QED BY <1>0, <2>1, <2>2 DEF a
<1>3. (x + o) % n = y
  <2> DEFINE a == x + o
  <2>1. a \in Int /\ 0 <= a /\ a < n + n /\ y = IF a < n THEN a ELSE a - n
    BY <1>1, <1>2
  <2> HIDE DEF a
  <2>2. /\ a < n => a % n = a
        /\ n <= a => a % n = a - n
    BY <2>1, Wrapped DEF a
  <2> QED BY <2>1, <2>2 DEF a
<1>4. (y - x) % n = o
  <2> DEFINE a == y - x
  <2>1. a \in Int /\ a < n /\ 0 <= a + n /\ o = IF a < 0 THEN a + n ELSE a
    BY <1>1, <1>2
  <2> HIDE DEF a
  <2>2. /\ a < 0 => a % n = a + n
        /\ 0 <= a => a % n = a
    BY <2>1, Wrapped DEF a
  <2> QED BY <2>1, <2>2 DEF a
<1>5. ASSUME c + o >= n PROVE y = (h + (c + o - n)) % n
  <2> DEFINE a == h + (c + o - n)
  <2>1. a \in Int /\ 0 <= a /\ a < n + n /\ y = IF a < n THEN a ELSE a - n
    BY <1>2, <1>5
  <2> HIDE DEF a
  <2>2. /\ a < n => a % n = a
        /\ n <= a => a % n = a - n
    BY <2>1, Wrapped DEF a
  <2> QED BY <2>1, <2>2 DEF a
<1>6. (y - h) % n = IF c + o >= n THEN c + o - n ELSE c + o
  <2> DEFINE a == y - h
  <2>1. a \in Int /\ a < n /\ 0 <= a + n
        /\ (IF c + o >= n THEN c + o - n ELSE c + o) = IF a < 0 THEN a + n ELSE a
    BY <1>2
  <2> HIDE DEF a
  <2>2. /\ a < 0 => a % n = a + n
        /\ 0 <= a => a % n = a
    BY <2>1, Wrapped DEF a
  <2> QED BY <2>1, <2>2 DEF a
<1> QED BY <1>1, <1>2, <1>3, <1>4, <1>5, <1>6


\* Every entry is some number of entries behind x.
LEMMA RingBack ==
    ASSUME NEW n \in Nat \ {0}, NEW x \in 0 .. n - 1, NEW e \in 0 .. n - 1
    PROVE  (e - x) % n \in 0 .. n - 1 /\ (x + ((e - x) % n)) % n = e
<1> DEFINE a == e - x
           o == a % n
           b == x + o
<1>1. a \in Int /\ a < n /\ 0 <= a + n
  OBVIOUS
<1> HIDE DEF a
<1>2. /\ a < 0 => o = a + n
      /\ 0 <= a => o = a
  BY <1>1, Wrapped
<1> HIDE DEF o
<1>3. o \in 0 .. n - 1 /\ b \in Int /\ 0 <= b /\ b < n + n /\ e = IF b < n THEN b ELSE b - n
  BY <1>1, <1>2 DEF a
<1> HIDE DEF b
<1>4. /\ b < n => b % n = b
      /\ n <= b => b % n = b - n
  BY <1>3, Wrapped DEF b
<1>5. o \in 0 .. n - 1 /\ b % n = e
  BY <1>3, <1>4
<1> QED BY <1>5 DEF b, o, a

\* The entries brought up to date are the calendar the ring stands for.
LEMMA Coming ==
    ASSUME ChannelInv
    PROVE  /\ cur_time_offs \in 0 .. NR_CREDIT_ENTRIES /\ cur_time_offs <= valid_len
           /\ coming = slot_credits /\ slot_credits \in [Entries -> 0 .. MaxCredits]
           /\ \A o \in Entries : o >= valid_len - cur_time_offs => slot_credits[o] = MaxCredits
<1> DEFINE n == NR_CREDIT_ENTRIES
           c == cur_time_offs
<1>1. /\ n \in Nat \ {0} /\ MaxCredits \in Nat /\ head \in 0 .. n - 1 /\ valid_len \in 0 .. n
      /\ Wrap \in Nat \ {0} /\ age \in 0 .. Wrap - 1
      /\ avail_credits \in [Entries -> 0 .. MaxCredits] /\ Entries = 0 .. n - 1
      /\ \A o \in Entries : o >= valid_len => avail_credits[entry(o)] = MaxCredits
  BY ChannelAssumption DEF ChannelInv, ChannelTypes, RestUntouched, Entries
<1>2. c = IF age <= valid_len THEN age ELSE valid_len
  <2>1. age \in Int /\ valid_len \in Int
    BY <1>1
  <2>2. age % Wrap = age
    BY <1>1
  <2> QED BY <2>1, <2>2, Lesser DEF cur_time_offs
<1> HIDE DEF c, n
<1>3. c \in 0 .. n /\ c <= valid_len /\ c <= age
  BY <1>1, <1>2
<1>4. ASSUME NEW o \in Entries
      PROVE  /\ coming[o] = slot_credits[o] /\ slot_credits[o] \in 0 .. MaxCredits
             /\ o >= valid_len - c => slot_credits[o] = MaxCredits
  <2> DEFINE x == (head + c) % n
             y == (head + (c + o)) % n
             k == IF c + o >= n THEN c + o - n ELSE c + o
  <2>1. o \in 0 .. n - 1 /\ InRing(n, head, c, o, x, y)
    BY <1>1 DEF InRing
  <2>2. y \in 0 .. n - 1 /\ (y - head) % n = k
    <3> HIDE DEF x, y
    <3> QED BY <1>1, <1>3, <2>1, RingPlaces
  <2>3. coming[o] = refilled[y] /\ y = entry(c + o)
    BY DEF coming, entry, c, n
  <2> HIDE DEF y, x
  <2>4. refilled[y] = IF k < c THEN MaxCredits ELSE avail_credits[y]
    <3>1. y \in Entries
      BY <1>1, <2>2
    <3>2. (y - head) % NR_CREDIT_ENTRIES = k
      BY <2>2 DEF n
    <3> QED BY <3>1, <3>2 DEF refilled, c
  <2>5. slot_credits[o] = IF age + o < valid_len THEN avail_credits[entry(age + o)] ELSE MaxCredits
    BY DEF slot_credits
  <2>6. avail_credits[y] \in 0 .. MaxCredits /\ MaxCredits \in 0 .. MaxCredits
    BY <1>1, <2>2
  <2>7. CASE c + o >= n
    <3>1. k < c /\ ~ (age + o < valid_len)
      BY <1>1, <1>3, <2>1, <2>7
    <3> QED BY <2>3, <2>4, <2>5, <2>6, <3>1
  <2>8. CASE c + o < n /\ age + o < valid_len
    <3>1. c = age /\ ~ (k < c) /\ ~ (o >= valid_len - c)
      BY <1>1, <1>2, <1>3, <2>1, <2>8
    <3>2. coming[o] = avail_credits[y] /\ slot_credits[o] = avail_credits[y]
      BY <2>3, <2>4, <2>5, <2>8, <3>1
    <3> QED BY <2>6, <3>1, <3>2
  <2>9. CASE c + o < n /\ ~ (age + o < valid_len)
    <3>1. c + o >= valid_len /\ c + o \in Entries
      BY <1>1, <1>2, <1>3, <2>1, <2>9
    <3>2. avail_credits[y] = MaxCredits
      BY <1>1, <2>3, <3>1
    <3> QED BY <2>3, <2>4, <2>5, <2>6, <2>9, <3>2
  <2> QED BY <1>1, <1>3, <2>1, <2>7, <2>8, <2>9
<1>5. coming = [o \in Entries |-> coming[o]] /\ slot_credits = [o \in Entries |-> slot_credits[o]]
  BY DEF coming, slot_credits
<1>6. coming = slot_credits /\ slot_credits \in [Entries -> 0 .. MaxCredits]
  BY <1>4, <1>5
<1> QED BY <1>3, <1>4, <1>6 DEF c, n

\* When the head has been moved and credits taken from the coming slots, the
\* ring stands for what is left of them.
LEMMA Charged ==
    ASSUME ChannelInv, NEW v \in 0 .. NR_CREDIT_ENTRIES, NEW t \in [Entries -> Nat],
           \A o \in Entries : t[o] <= slot_credits[o] /\ (o >= v => t[o] = 0),
           move_head(v),
           avail_credits' = [e \in Entries |-> refilled[e] - t[(e - entry(cur_time_offs)) % NR_CREDIT_ENTRIES]]
    PROVE  ChannelInv' /\ slot_credits' = [o \in Entries |-> slot_credits[o] - t[o]]
<1> DEFINE n == NR_CREDIT_ENTRIES
           c == cur_time_offs
           x == (head + c) % n
           y(o) == (head + (c + o)) % n
<1>1. /\ n \in Nat \ {0} /\ MaxCredits \in Nat /\ head \in 0 .. n - 1 /\ valid_len \in 0 .. n
      /\ Entries = 0 .. n - 1
  BY ChannelAssumption DEF ChannelInv, ChannelTypes, Entries
<1>2. /\ c \in 0 .. n /\ c <= valid_len /\ coming = slot_credits
      /\ slot_credits \in [Entries -> 0 .. MaxCredits]
      /\ \A o \in Entries : o >= valid_len - c => slot_credits[o] = MaxCredits
  BY Coming
<1>3. head' = x /\ age' = 0 /\ valid_len' = Max({valid_len - c, v})
  BY DEF move_head, entry
<1>4. \A o \in Entries : coming[o] = refilled[y(o)]
  BY DEF coming, entry
<1>5. avail_credits' = [e \in Entries |-> refilled[e] - t[(e - x) % n]]
  BY DEF entry
<1> HIDE DEF c, n
<1>6. ASSUME NEW o \in Entries
      PROVE  /\ x \in Entries /\ y(o) \in Entries /\ (x + o) % n = y(o) /\ (y(o) - x) % n = o
  <2> DEFINE z == y(o)
  <2>1. o \in 0 .. n - 1 /\ InRing(n, head, c, o, x, z)
    BY <1>1 DEF InRing
  <2> HIDE DEF x, z
  <2>2. x \in 0 .. n - 1 /\ z \in 0 .. n - 1 /\ (x + o) % n = z /\ (z - x) % n = o
    BY <1>1, <1>2, <2>1, RingPlaces
  <2> QED BY <1>1, <2>2 DEF z
<1>7. x \in Entries
  <2>1. 0 \in Entries
    BY <1>1
  <2> QED BY <1>6, <2>1
<1>8. valid_len' = (IF valid_len - c >= v THEN valid_len - c ELSE v) /\ valid_len' \in 0 .. n
      /\ valid_len' >= v /\ valid_len' >= valid_len - c
  <2>1. valid_len - c \in Int /\ v \in Int /\ v \in 0 .. n
    BY <1>1, <1>2 DEF n
  <2>2. Max({valid_len - c, v}) = (IF valid_len - c >= v THEN valid_len - c ELSE v)
    BY <2>1, Lesser
  <2> QED BY <1>1, <1>2, <1>3, <2>1, <2>2
<1>9. ASSUME NEW o \in Entries
      PROVE  /\ avail_credits'[y(o)] = slot_credits[o] - t[o]
             /\ slot_credits[o] - t[o] \in 0 .. MaxCredits
             /\ o >= valid_len' => slot_credits[o] - t[o] = MaxCredits
  <2>1. y(o) \in Entries /\ (y(o) - x) % n = o
    BY <1>6
  <2>2. refilled[y(o)] = slot_credits[o]
    BY <1>2, <1>4
  <2> DEFINE z == y(o)
  <2> HIDE DEF z, x
  <2>3. avail_credits'[z] = refilled[z] - t[(z - x) % n]
    BY <1>5, <2>1 DEF z, x
  <2>4. avail_credits'[z] = slot_credits[o] - t[o]
    BY <2>1, <2>2, <2>3 DEF z, x
  <2>5. slot_credits[o] \in 0 .. MaxCredits /\ t[o] \in Nat /\ t[o] <= slot_credits[o]
    BY <1>2
  <2>6. slot_credits[o] - t[o] \in 0 .. MaxCredits
    BY <1>1, <2>5
  <2>7. ASSUME o >= valid_len' PROVE slot_credits[o] - t[o] = MaxCredits
    <3>1. o >= v /\ o >= valid_len - c
      <4>1. o \in Int /\ v \in Int
        BY <1>1
      <4> QED BY <1>1, <1>2, <1>8, <2>7, <4>1
    <3>2. t[o] = 0 /\ slot_credits[o] = MaxCredits
      BY <1>2, <3>1
    <3> QED BY <1>1, <3>2
  <2> QED BY <2>4, <2>6, <2>7 DEF z
<1>10. ASSUME NEW o \in Entries PROVE entry(o)' = y(o)
  <2>1. entry(o)' = (x + o) % n
    BY <1>3 DEF entry, n
  <2> QED BY <1>6, <2>1
<1>11. avail_credits' \in [Entries -> 0 .. MaxCredits]
  <2>1. ASSUME NEW e \in Entries PROVE refilled[e] - t[(e - x) % n] \in 0 .. MaxCredits
    <3> DEFINE o == (e - x) % n
    <3>1. o \in Entries /\ (x + o) % n = e
      <4>1. x \in 0 .. n - 1 /\ e \in 0 .. n - 1
        BY <1>1, <1>7
      <4> HIDE DEF x
      <4> QED BY <1>1, <4>1, RingBack
    <3> HIDE DEF o, x
    <3>2. y(o) = e
      BY <1>6, <3>1
    <3>3. refilled[e] = slot_credits[o] /\ slot_credits[o] - t[o] \in 0 .. MaxCredits
      BY <1>2, <1>4, <1>9, <3>1, <3>2
    <3> QED BY <3>3 DEF o
  <2> HIDE DEF x
  <2> QED BY <1>5, <2>1
<1>12. ChannelInv'
  <2>1. ChannelTypes'
    <3>1. age' \in 0 .. Wrap - 1
      BY <1>3, ChannelAssumption
    <3> QED BY <1>3, <1>7, <1>8, <1>11, <3>1 DEF ChannelTypes, Entries, n
  <2>2. RestUntouched'
    <3> SUFFICES ASSUME NEW o \in Entries, o >= valid_len' PROVE avail_credits'[entry(o)'] = MaxCredits
      BY DEF RestUntouched, Entries
    <3> QED BY <1>9, <1>10
  <2> QED BY <2>1, <2>2 DEF ChannelInv
<1>13. slot_credits' = [o \in Entries |-> slot_credits[o] - t[o]]
  <2>1. slot_credits' = [o \in Entries |-> IF 0 + o < valid_len' THEN avail_credits'[entry(0 + o)'] ELSE MaxCredits]
    BY <1>3 DEF slot_credits, Entries
  <2>2. ASSUME NEW o \in Entries
        PROVE  (IF 0 + o < valid_len' THEN avail_credits'[entry(0 + o)'] ELSE MaxCredits) = slot_credits[o] - t[o]
    <3>1. 0 + o = o /\ o \in Int /\ valid_len' \in Int
      BY <1>1, <1>8
    <3> QED BY <1>9, <1>10, <3>1
  <2> QED BY <2>1, <2>2
<1> QED BY <1>12, <1>13

\* Induction along an interval.
LEMMA Climb ==
    ASSUME NEW a \in Nat, NEW z \in Nat, NEW P, a \in P, \A o \in a .. z - 1 : o \in P => o + 1 \in P
    PROVE  \A o \in a .. z : o \in P
<1> DEFINE B == {j \in a .. z : j \notin P}
<1>1. SUFFICES ASSUME B # {} PROVE FALSE
  OBVIOUS
<1>2. B \in SUBSET Nat
  OBVIOUS
<1>3. PICK j \in B : \A i \in B : j <= i
  <2> HIDE DEF B
  <2> QED BY <1>1, <1>2, LeastNumber
<1>4. j \in a .. z /\ j \notin P /\ j # a
  BY <1>3
<1>5. j - 1 \in a .. z - 1 /\ j - 1 \in a .. z /\ ~ (j <= j - 1) /\ (j - 1) + 1 = j
  BY <1>4
<1>6. j - 1 \notin B
  <2> HIDE DEF B
  <2> QED BY <1>3, <1>5
<1>7. j - 1 \in P
  BY <1>5, <1>6
<1> QED BY <1>4, <1>5, <1>7

\* the sum of f from r to o - 1
Before(f, r, o) == SumFunctionOnSet([p \in r .. o - 1 |-> f[p]], r .. o - 1)

\* T is S and x, and g is f on S
OneMore(f, S, g, T, x) ==
    /\ IsFiniteSet(T) /\ x \in T /\ S = T \ {x}
    /\ f \in [S -> Int] /\ g \in [T -> Int] /\ \A y \in S : g[y] = f[y]

\* A sum with one more element.
LEMMA SumOneMore ==
    ASSUME NEW f, NEW S, NEW g, NEW T, NEW x, OneMore(f, S, g, T, x)
    PROVE  /\ SumFunctionOnSet(f, S) \in Int
           /\ SumFunctionOnSet(g, T) = SumFunctionOnSet(f, S) + g[x]
<1>1. /\ IsFiniteSet(T) /\ x \in T /\ S = T \ {x}
      /\ f \in [S -> Int] /\ g \in [T -> Int] /\ \A y \in S : g[y] = f[y]
  BY DEF OneMore
<1> QED BY <1>1, SumMore

\* It grows by one summand at a time.
LEMMA BeforeGrows ==
    ASSUME NEW m \in Nat, NEW f \in [0 .. m - 1 -> Int], NEW r \in 0 .. m
    PROVE  /\ Before(f, r, r) = 0
           /\ \A o \in r .. m - 1 : Before(f, r, o + 1) = Before(f, r, o) + f[o] /\ Before(f, r, o) \in Int
<1>1. Before(f, r, r) = 0
  <2> DEFINE S == r .. r - 1
             g == [p \in S |-> f[p]]
  <2>1. S = {}
    OBVIOUS
  <2>2. IsFiniteSet(S) /\ g \in [S -> Int] /\ \A p \in S : g[p] = 0
    BY <2>1, FS_EmptySet
  <2>3. Before(f, r, r) = SumFunctionOnSet(g, S)
    BY DEF Before
  <2> HIDE DEF S, g
  <2>4. SumFunctionOnSet(g, S) = 0
    BY <2>2, SumOfZeros
  <2> QED BY <2>3, <2>4
<1>2. ASSUME NEW o \in r .. m - 1
      PROVE  Before(f, r, o + 1) = Before(f, r, o) + f[o] /\ Before(f, r, o) \in Int
  <2> DEFINE S == r .. o - 1
             T == r .. o
             g == [p \in S |-> f[p]]
             h == [p \in T |-> f[p]]
  <2>1. r \in Int /\ o \in Int /\ (o + 1) - 1 = o
    OBVIOUS
  <2>2. IsFiniteSet(T)
    BY <2>1, FS_Interval
  <2>3. S = T \ {o} /\ o \in T /\ h[o] = f[o]
    OBVIOUS
  <2>4. \A p \in T : f[p] \in Int
    OBVIOUS
  <2>5. g \in [S -> Int] /\ h \in [T -> Int] /\ \A p \in S : h[p] = g[p]
    BY <2>3, <2>4
  <2>6. Before(f, r, o) = SumFunctionOnSet(g, S) /\ Before(f, r, o + 1) = SumFunctionOnSet(h, T)
    BY <2>1 DEF Before
  <2> HIDE DEF S, T, g, h
  <2>7. SumFunctionOnSet(g, S) \in Int /\ SumFunctionOnSet(h, T) = SumFunctionOnSet(g, S) + h[o]
    <3>1. OneMore(g, S, h, T, o)
      BY <2>2, <2>3, <2>5 DEF OneMore
    <3> QED BY ONLY <3>1, SumOneMore
  <2> QED BY <2>3, <2>6, <2>7
<1> QED BY <1>1, <1>2

\* t is what a request for u credits takes from slot r up to slot last
Takes(m, f, r, u, last, t) ==
    /\ last \in r .. m - 1
    /\ \A o \in r .. last - 1 : Before(f, r, o + 1) < u
    /\ Before(f, r, last + 1) >= u \/ last = m - 1
    /\ t = [o \in 0 .. m - 1 |-> IF o \in r .. last THEN Min({f[o], u - Before(f, r, o)}) ELSE 0]

\* It takes what the slots before the last one have, and in all what was asked
\* for or what there is.
LEMMA TakesEnough ==
    ASSUME NEW m \in Nat \ {0}, NEW f \in [0 .. m - 1 -> Nat], NEW r \in 0 .. m - 1, NEW u \in Nat \ {0},
           NEW last, NEW t, Takes(m, f, r, u, last, t)
    PROVE  /\ t \in [0 .. m - 1 -> Nat]
           /\ \A o \in 0 .. m - 1 : t[o] <= f[o] /\ (o \notin r .. last => t[o] = 0)
           /\ \A o \in r .. last - 1 : t[o] = f[o]
           /\ Before(f, r, m) \in Nat
           /\ Before(t, 0, m) = IF u <= Before(f, r, m) THEN u ELSE Before(f, r, m)
<1> DEFINE b == [o \in r .. m |-> Before(f, r, o)]
<1>1. /\ last \in r .. m - 1 /\ last \in Nat /\ r \in Nat
      /\ f \in [0 .. m - 1 -> Int] /\ r \in 0 .. m
  BY DEF Takes
<1>2. /\ b[r] = 0
      /\ \A o \in r .. m - 1 : b[o + 1] = b[o] + f[o] /\ b[o] \in Int /\ o + 1 \in r .. m /\ f[o] \in Nat
      /\ \A o \in r .. m : b[o] = Before(f, r, o)
  <2>1. /\ Before(f, r, r) = 0
        /\ \A o \in r .. m - 1 : Before(f, r, o + 1) = Before(f, r, o) + f[o] /\ Before(f, r, o) \in Int
    BY <1>1, BeforeGrows
  <2>2. r \in r .. m /\ \A o \in r .. m - 1 : o \in r .. m /\ o + 1 \in r .. m /\ f[o] \in Nat
    BY <1>1
  <2>3. \A o \in r .. m : b[o] = Before(f, r, o)
    OBVIOUS
  <2> HIDE DEF b
  <2> QED BY <2>1, <2>2, <2>3
<1> HIDE DEF b
<1>3. \A o \in r .. m : b[o] \in Nat
  <2> DEFINE P == {o \in r .. m : b[o] \in Nat}
  <2>1. r \in P
    BY <1>1, <1>2
  <2>2. ASSUME NEW o \in r .. m - 1, o \in P PROVE o + 1 \in P
    <3>1. b[o] \in Nat /\ b[o + 1] = b[o] + f[o] /\ o + 1 \in r .. m /\ f[o] \in Nat
      BY <1>2, <2>2
    <3> QED BY <3>1
  <2>3. \A o \in r .. m : o \in P
    <3> HIDE DEF P
    <3> QED BY <1>1, <2>1, <2>2, Climb
  <2> QED BY <2>3
<1>4. \A o \in last + 1 .. m : b[o] >= b[last + 1]
  <2> DEFINE a == last + 1
             P == {o \in a .. m : b[o] >= b[a]}
  <2>1. a \in Nat /\ a \in r .. m /\ \A o \in a .. m - 1 : o \in r .. m - 1
    BY <1>1
  <2> HIDE DEF a
  <2>2. a \in P
    <3>1. b[a] \in Nat /\ a \in a .. m
      BY <1>3, <2>1
    <3> QED BY <3>1
  <2>3. ASSUME NEW o \in a .. m - 1, o \in P PROVE o + 1 \in P
    <3>1. b[o] >= b[a] /\ b[o + 1] = b[o] + f[o] /\ f[o] \in Nat /\ b[o] \in Int /\ b[a] \in Nat
      BY <1>2, <1>3, <2>1, <2>3
    <3>2. o + 1 \in a .. m
      BY <2>1
    <3>3. b[o + 1] >= b[a]
      BY <3>1
    <3> QED BY <3>2, <3>3
  <2>4. \A o \in a .. m : o \in P
    <3> HIDE DEF P
    <3> QED BY <2>1, <2>2, <2>3, Climb
  <2>5. \A o \in a .. m : b[o] >= b[a]
    BY <2>4
  <2> QED BY <2>5 DEF a
<1>5. \A o \in r .. last : b[o] < u /\ b[o] \in Nat /\ f[o] \in Nat
  <2> SUFFICES ASSUME NEW o \in r .. last PROVE b[o] < u /\ b[o] \in Nat /\ f[o] \in Nat
    OBVIOUS
  <2>1. o \in r .. m - 1 /\ o \in r .. m
    BY <1>1
  <2>2. CASE o = r
    BY <1>2, <1>3, <2>1, <2>2
  <2>3. CASE o # r
    <3>1. o - 1 \in r .. last - 1 /\ (o - 1) + 1 = o
      BY <1>1, <2>3
    <3>2. Before(f, r, (o - 1) + 1) < u
      BY <3>1 DEF Takes
    <3> QED BY <1>2, <1>3, <2>1, <3>1, <3>2
  <2> QED BY <2>2, <2>3
<1>6. ASSUME NEW o \in r .. last
      PROVE  /\ t[o] = (IF f[o] <= u - b[o] THEN f[o] ELSE u - b[o])
             /\ t[o] \in Nat /\ t[o] <= f[o]
  <2>1. o \in 0 .. m - 1 /\ o \in r .. m
    BY <1>1
  <2>2. t[o] = Min({f[o], u - b[o]})
    BY <1>2, <2>1 DEF Takes
  <2>3. f[o] \in Int /\ u - b[o] \in Int
    BY <1>5
  <2>4. t[o] = (IF f[o] <= u - b[o] THEN f[o] ELSE u - b[o])
    BY <2>2, <2>3, Lesser
  <2> QED BY <1>5, <2>4
<1>7. \A o \in r .. last - 1 : t[o] = f[o]
  <2> SUFFICES ASSUME NEW o \in r .. last - 1 PROVE t[o] = f[o]
    OBVIOUS
  <2>1. o \in r .. last /\ o + 1 \in r .. last /\ o \in r .. m - 1
    BY <1>1
  <2>2. b[o + 1] < u /\ b[o + 1] = b[o] + f[o] /\ b[o] \in Nat /\ f[o] \in Nat
    BY <1>2, <1>5, <2>1
  <2>3. f[o] <= u - b[o]
    BY <2>2
  <2> QED BY <1>6, <2>1, <2>3
<1>8. \A o \in 0 .. m - 1 : /\ t[o] \in Nat /\ t[o] <= f[o]
                            /\ o \notin r .. last => t[o] = 0
  <2> SUFFICES ASSUME NEW o \in 0 .. m - 1
               PROVE  t[o] \in Nat /\ t[o] <= f[o] /\ (o \notin r .. last => t[o] = 0)
    OBVIOUS
  <2>1. CASE o \in r .. last
    BY <1>6, <2>1
  <2>2. CASE o \notin r .. last
    <3>1. t[o] = 0 /\ f[o] \in Nat
      BY <2>2 DEF Takes
    <3> QED BY <3>1
  <2> QED BY <2>1, <2>2
<1>9. t \in [0 .. m - 1 -> Nat]
  <2>1. t = [o \in 0 .. m - 1 |-> t[o]]
    BY DEF Takes
  <2> QED BY <1>8, <2>1
<1> DEFINE s == [o \in 0 .. m |-> Before(t, 0, o)]
           v(o) == IF o <= r THEN 0 ELSE IF o <= last THEN b[o] ELSE b[last] + t[last]
<1>10. /\ s[0] = 0
       /\ \A o \in 0 .. m - 1 : s[o + 1] = s[o] + t[o]
       /\ s[m] = Before(t, 0, m)
  <2>1. t \in [0 .. m - 1 -> Int] /\ 0 \in 0 .. m /\ m \in 0 .. m
    BY <1>9
  <2>2. /\ Before(t, 0, 0) = 0
        /\ \A o \in 0 .. m - 1 : Before(t, 0, o + 1) = Before(t, 0, o) + t[o]
    BY <2>1, BeforeGrows
  <2>3. \A o \in 0 .. m - 1 : o \in 0 .. m /\ o + 1 \in 0 .. m
    OBVIOUS
  <2> QED BY <2>1, <2>2, <2>3
<1> HIDE DEF s
<1>11. \A o \in 0 .. m : s[o] = v(o)
  <2> DEFINE P == {o \in 0 .. m : s[o] = v(o)}
  <2>1. 0 \in P
    BY <1>1, <1>10
  <2>2. ASSUME NEW o \in 0 .. m - 1, o \in P PROVE o + 1 \in P
    <3>1. s[o] = v(o) /\ s[o + 1] = s[o] + t[o] /\ o + 1 \in 0 .. m
      BY <1>10, <2>2
    <3>2. CASE o < r
      <4>1. v(o) = 0 /\ v(o + 1) = 0 /\ o \notin r .. last
        BY <1>1, <3>2
      <4>2. t[o] = 0
        BY <1>8, <4>1
      <4> QED BY <3>1, <4>1, <4>2
    <3>3. CASE r <= o /\ o < last
      <4>1. o \in r .. last - 1 /\ o \in r .. m - 1 /\ o \in r .. last
        BY <1>1, <3>3
      <4>2. v(o) = b[o]
        BY <1>1, <1>2, <3>3
      <4>3. v(o + 1) = b[o + 1]
        BY <1>1, <3>3
      <4>4. b[o + 1] = b[o] + t[o]
        BY <1>2, <1>7, <4>1
      <4> QED BY <3>1, <4>2, <4>3, <4>4
    <3>4. CASE o = last
      <4>1. v(o) = b[last]
        BY <1>1, <1>2, <3>4
      <4>2. v(o + 1) = b[last] + t[last]
        BY <1>1, <3>4
      <4> QED BY <3>1, <3>4, <4>1, <4>2
    <3>5. CASE o > last
      <4>1. v(o) = b[last] + t[last] /\ v(o + 1) = b[last] + t[last] /\ o \notin r .. last
        BY <1>1, <3>5
      <4>2. t[o] = 0 /\ b[last] \in Nat /\ t[last] \in Nat
        <5>1. last \in r .. last /\ last \in 0 .. m - 1
          BY <1>1
        <5> QED BY <1>5, <1>8, <4>1, <5>1
      <4> QED BY <3>1, <4>1, <4>2
    <3> QED BY <1>1, <3>2, <3>3, <3>4, <3>5
  <2>3. \A o \in 0 .. m : o \in P
    <3>1. 0 \in Nat /\ m \in Nat
      OBVIOUS
    <3> HIDE DEF P
    <3> QED BY <2>1, <2>2, <3>1, Climb
  <2> QED BY <2>3
<1>12. /\ b[m] \in Nat /\ b[last] \in Nat /\ b[last + 1] = b[last] + f[last] /\ b[last + 1] \in Nat
       /\ b[last] < u /\ f[last] \in Nat /\ b[m] >= b[last + 1]
       /\ t[last] = (IF f[last] <= u - b[last] THEN f[last] ELSE u - b[last])
       /\ b[last + 1] >= u \/ last + 1 = m
       /\ s[m] = b[last] + t[last]
  <2>1. m \in r .. m /\ last \in r .. last /\ last \in r .. m - 1 /\ last + 1 \in r .. m /\ m \in last + 1 .. m
    BY <1>1
  <2>2. b[last + 1] >= u \/ last + 1 = m
    BY <1>1, <1>2, <2>1 DEF Takes
  <2>3. s[m] = b[last] + t[last]
    <3>1. m \in 0 .. m /\ ~ (m <= last) /\ ~ (m <= r)
      BY <1>1
    <3> QED BY <1>11, <3>1
  <2> QED BY <1>2, <1>3, <1>4, <1>5, <1>6, <2>1, <2>2, <2>3
<1>13. s[m] = IF u <= b[m] THEN u ELSE b[m]
  <2> DEFINE B == b[last]
             C == b[last + 1]
             M == b[m]
             F == f[last]
             T == t[last]
             S == s[m]
  <2>1. /\ M \in Nat /\ B \in Nat /\ F \in Nat /\ C = B + F /\ B < u /\ M >= C
        /\ T = (IF F <= u - B THEN F ELSE u - B) /\ S = B + T
    BY <1>12
  <2>2. C >= u \/ M = C
    BY <1>12
  <2> HIDE DEF B, C, M, F, T, S
  <2>3. u \in Nat
    OBVIOUS
  <2>4. S = IF u <= M THEN u ELSE M
    BY <2>1, <2>2, <2>3
  <2> QED BY <2>4 DEF S, M
<1>14. b[m] = Before(f, r, m)
  <2>1. m \in r .. m
    BY <1>1
  <2> QED BY <1>2, <2>1
<1> QED BY <1>7, <1>8, <1>9, <1>10, <1>12, <1>13, <1>14

\* The sum and the minimum of the calendar.
LEMMA CalendarSums ==
    ASSUME NEW f, NEW S
    PROVE  Slots!SumFunctionOnSet(f, S) = SumFunctionOnSet(f, S) /\ Slots!Min(S) = Min(S)
<1>1. Slots!SumFunctionOnSet(f, S) = SumFunctionOnSet(f, S)
  BY DEF SumFunctionOnSet, FoldFunctionOnSet, MapThenFoldSet,
         Slots!SumFunctionOnSet, Slots!FoldFunctionOnSet, Slots!MapThenFoldSet
<1>2. Slots!Min(S) = Min(S)
  BY DEF Min, Slots!Min
<1> QED BY <1>1, <1>2

\* The loop of chmodel_request() stops where it has what it needs, or at the end
\* of the ring.
LEMMA RequestTakes ==
    ASSUME ChannelInv, NEW r \in Entries, NEW u \in Nat
    PROVE  Takes(NR_CREDIT_ENTRIES, coming, r, u, last_slot(r, u),
                 [o \in Entries |-> IF o \in r .. last_slot(r, u)
                                    THEN Min({coming[o], u - left_before(r, o)}) ELSE 0])
<1> DEFINE n == NR_CREDIT_ENTRIES
           b(o) == left_before(r, o)
           S == {o \in r .. n - 1 : b(o + 1) >= u \/ o = n - 1}
           last == last_slot(r, u)
<1>1. n \in Nat \ {0} /\ Entries = 0 .. n - 1 /\ r \in 0 .. n - 1
  BY ChannelAssumption DEF Entries
<1>2. last = Min(S)
  BY DEF last_slot
<1>3. \A o : b(o) = Before(coming, r, o)
  BY DEF left_before, Before
<1> HIDE DEF b, n
<1>4. S \in SUBSET Nat /\ n - 1 \in S
  BY <1>1
<1>5. last \in S /\ \A o \in S : last <= o
  <2> HIDE DEF S, last
  <2>1. \E x \in S : \A y \in S : x <= y
    BY <1>4, LeastNumber
  <2> QED BY <1>2, <2>1 DEF Min
<1>6. last \in r .. n - 1 /\ (b(last + 1) >= u \/ last = n - 1)
  <2> HIDE DEF last
  <2> QED BY <1>5
<1>7. ASSUME NEW o \in r .. last - 1 PROVE b(o + 1) < u
  <2> HIDE DEF last
  <2>1. o \in r .. n - 1 /\ ~ (last <= o)
    BY <1>1, <1>6
  <2>2. o \notin S
    <3> HIDE DEF S
    <3> QED BY <1>5, <2>1
  <2>3. ~ (b(o + 1) >= u)
    BY <2>1, <2>2
  <2>4. b(o + 1) \in Int
    <3>1. /\ o + 1 \in r .. n - 1 /\ coming \in [0 .. n - 1 -> Int] /\ r \in 0 .. n /\ n \in Nat
      <4>1. coming \in [Entries -> 0 .. MaxCredits] /\ MaxCredits \in Nat
        BY Coming, ChannelAssumption
      <4> QED BY <1>1, <1>6, <4>1
    <3>2. Before(coming, r, o + 1) \in Int
      BY <3>1, BeforeGrows
    <3> QED BY <1>3, <3>2
  <2> QED BY <2>3, <2>4
<1> HIDE DEF last
<1>8. /\ Before(coming, r, last + 1) >= u \/ last = n - 1
      /\ \A o \in r .. last - 1 : Before(coming, r, o + 1) < u
  BY <1>3, <1>6, <1>7
<1>9. Takes(n, coming, r, u, last,
            [o \in Entries |-> IF o \in r .. last THEN Min({coming[o], u - left_before(r, o)}) ELSE 0])
  <2>1. [o \in Entries |-> IF o \in r .. last THEN Min({coming[o], u - left_before(r, o)}) ELSE 0]
        = [o \in 0 .. n - 1 |-> IF o \in r .. last THEN Min({coming[o], u - Before(coming, r, o)}) ELSE 0]
    BY <1>1, <1>3 DEF b
  <2> QED BY <1>6, <1>8, <2>1 DEF Takes
<1> QED BY <1>9 DEF n, last

\* A transfer books its units in the calendar.
LEMMA RequestBooks ==
    ASSUME ChannelInv, NEW r \in Entries, NEW u \in Nat \ {0}, chmodel_request(r, u)
    PROVE  ChannelInv' /\ Slots!Next
<1> DEFINE m == NR_CREDIT_ENTRIES
           f == slot_credits
           last == last_slot(r, u)
           taken(o) == IF o \in r .. last THEN Min({coming[o], u - left_before(r, o)}) ELSE 0
           t == [o \in Entries |-> taken(o)]
<1>1. /\ m \in Nat \ {0} /\ Entries = 0 .. m - 1 /\ MaxCredits \in Nat /\ r \in 0 .. m - 1
      /\ head \in 0 .. m - 1
  BY ChannelAssumption DEF Entries, ChannelInv, ChannelTypes
<1>2. coming = f /\ f \in [0 .. m - 1 -> 0 .. MaxCredits] /\ f \in [0 .. m - 1 -> Nat]
      /\ cur_time_offs \in 0 .. m
  <2>1. coming = f /\ f \in [Entries -> 0 .. MaxCredits] /\ cur_time_offs \in 0 .. m
    BY Coming
  <2> HIDE DEF f
  <2> QED BY <1>1, <2>1
<1>3. Takes(m, f, r, u, last, t)
  <2>1. Takes(m, coming, r, u, last, t)
    BY RequestTakes
  <2> HIDE DEF f, t, last
  <2> QED BY <1>2, <2>1
<1>4. /\ move_head(last + 1)
      /\ avail_credits' = [e \in Entries |-> refilled[e] - taken((e - entry(cur_time_offs)) % m)]
  BY DEF chmodel_request
<1>5. avail_credits' = [e \in Entries |-> refilled[e] - t[(e - entry(cur_time_offs)) % m]]
  <2>1. entry(cur_time_offs) \in 0 .. m - 1
    <3> DEFINE a == head + cur_time_offs
    <3>1. a \in Int
      BY <1>1, <1>2
    <3> HIDE DEF a
    <3>2. a % m \in 0 .. m - 1
      BY <1>1, <3>1
    <3> QED BY <3>2 DEF a, entry
  <2> DEFINE x == entry(cur_time_offs)
  <2> HIDE DEF x
  <2>2. ASSUME NEW e \in Entries PROVE (e - x) % m \in Entries
    BY <1>1, <2>1, <2>2, RingBack DEF x
  <2> HIDE DEF m
  <2>3. \A o \in Entries : t[o] = taken(o)
    OBVIOUS
  <2>4. avail_credits' = [e \in Entries |-> refilled[e] - taken((e - x) % m)]
    BY <1>4 DEF x
  <2> HIDE DEF t, taken
  <2>5. avail_credits' = [e \in Entries |-> refilled[e] - t[(e - x) % m]]
    BY <2>2, <2>3, <2>4
  <2> QED BY <2>5 DEF x
<1> HIDE DEF t, taken, last, f, m
<1>6. last \in r .. m - 1 /\ last + 1 \in 0 .. m
  <2>1. last \in r .. m - 1
    BY <1>3 DEF Takes
  <2> QED BY <1>1, <2>1
<1> DEFINE L == Before(f, r, m)
<1>7. /\ t \in [0 .. m - 1 -> Nat]
      /\ \A o \in 0 .. m - 1 : t[o] <= f[o] /\ (o \notin r .. last => t[o] = 0)
      /\ \A o \in r .. last - 1 : t[o] = f[o]
      /\ L \in Nat
      /\ Before(t, 0, m) = IF u <= L THEN u ELSE L
  BY <1>1, <1>2, <1>3, TakesEnough
<1>8. ChannelInv' /\ f' = [o \in Entries |-> f[o] - t[o]]
  <2>1. last + 1 \in 0 .. NR_CREDIT_ENTRIES /\ t \in [Entries -> Nat]
    BY <1>1, <1>6, <1>7 DEF m
  <2>2. \A o \in Entries : t[o] <= slot_credits[o] /\ (o >= last + 1 => t[o] = 0)
    <3>1. \A o \in 0 .. m - 1 : o >= last + 1 => o \notin r .. last
      BY <1>1, <1>6
    <3> QED BY <1>1, <1>7, <3>1 DEF f
  <2>3. avail_credits' = [e \in Entries |-> refilled[e] - t[(e - entry(cur_time_offs)) % NR_CREDIT_ENTRIES]]
    BY <1>5 DEF m
  <2> QED BY <1>4, <2>1, <2>2, <2>3, Charged DEF f
<1> DEFINE k == IF u <= L THEN u ELSE L + 1
<1>9. Slots!Left(r) = L
  BY CalendarSums DEF Slots!Left, Before, f, m
<1> HIDE DEF L
<1>10. k \in 1 .. L + 1 /\ Min({k, L}) = IF u <= L THEN u ELSE L
  <2>1. k \in Int /\ L \in Int /\ k \in 1 .. L + 1
    BY <1>7
  <2>2. Min({k, L}) = IF k <= L THEN k ELSE L
    <3> HIDE DEF k
    <3> QED BY <2>1, Lesser
  <2> QED BY <1>7, <2>1, <2>2
<1> HIDE DEF k
<1>11. Slots!Slots = 0 .. m - 1
  BY DEF Slots!Slots, m
<1>12. \A o \in 0 .. m - 1 : /\ f'[o] = f[o] - t[o] /\ f[o] \in Nat /\ t[o] \in Nat /\ t[o] <= f[o]
                             /\ f[o] - f'[o] = t[o]
  <2>1. \A o \in 0 .. m - 1 : f'[o] = f[o] - t[o] /\ f[o] \in Nat /\ t[o] \in Nat /\ t[o] <= f[o]
    BY <1>1, <1>2, <1>7, <1>8
  <2> QED BY <2>1
<1>13. DOMAIN f' = 0 .. m - 1
  BY <1>1, <1>8
<1>14. \A o \in 0 .. m - 1 : f'[o] \in 0 .. f[o] /\ (o < r => f'[o] = f[o])
  <2> SUFFICES ASSUME NEW o \in 0 .. m - 1 PROVE f'[o] \in 0 .. f[o] /\ (o < r => f'[o] = f[o])
    OBVIOUS
  <2>1. o < r => t[o] = 0
    <3>1. o < r => o \notin r .. last
      BY <1>1, <1>6
    <3> QED BY <1>7, <3>1
  <2> QED BY <1>12, <2>1
<1>15. SumFunctionOnSet([o \in 0 .. m - 1 |-> f[o] - f'[o]], 0 .. m - 1) = Min({k, L})
  <2>1. [o \in 0 .. m - 1 |-> f[o] - f'[o]] = [o \in 0 .. m - 1 |-> t[o]]
    BY <1>12
  <2> QED BY <1>7, <1>10, <2>1 DEF Before
<1>16. \A o \in 0 .. m - 1, p \in r .. m - 1 : f'[o] # f[o] /\ p < o => f'[p] = 0
  <2> SUFFICES ASSUME NEW o \in 0 .. m - 1, NEW p \in r .. m - 1, f'[o] # f[o], p < o PROVE f'[p] = 0
    OBVIOUS
  <2>1. t[o] # 0
    BY <1>12
  <2>2. o \in r .. last
    BY <1>7, <2>1
  <2>3. p \in r .. last - 1 /\ p \in 0 .. m - 1
    BY <1>1, <1>6, <2>2
  <2>4. t[p] = f[p]
    BY <1>7, <2>3
  <2> QED BY <1>12, <2>3, <2>4
<1>17. Slots!Book(r, k)
  <2>1. \A z : z = NR_CREDIT_ENTRIES => (Slots!Book(r, k) <=>
          /\ DOMAIN f' = 0 .. z - 1
          /\ \A o \in 0 .. z - 1 : f'[o] \in 0 .. f[o] /\ (o < r => f'[o] = f[o])
          /\ SumFunctionOnSet([o \in 0 .. z - 1 |-> f[o] - f'[o]], 0 .. z - 1) = Min({k, Slots!Left(r)})
          /\ \A o \in 0 .. z - 1, p \in r .. z - 1 : f'[o] # f[o] /\ p < o => f'[p] = 0)
    BY CalendarSums DEF Slots!Book, Slots!Slots, f
  <2> QED BY <1>9, <1>13, <1>14, <1>15, <1>16, <2>1 DEF m
<1>18. Slots!Next
  <2>1. r \in Slots!Slots
    BY <1>1, <1>11
  <2>2. k \in 1 .. Slots!Left(r) + 1
    BY <1>9, <1>10
  <2> QED BY <1>17, <2>1, <2>2 DEF Slots!Next
<1> QED BY <1>8, <1>18

\* A request outside the ring only brings it up to date.
LEMMA OutsideBooksNothing ==
    ASSUME ChannelInv, NEW r, chmodel_request_outside(r)
    PROVE  ChannelInv' /\ UNCHANGED slot_credits
<1> DEFINE t == [o \in Entries |-> 0]
<1>1. /\ NR_CREDIT_ENTRIES \in Nat \ {0} /\ Entries = 0 .. NR_CREDIT_ENTRIES - 1 /\ MaxCredits \in Nat
      /\ head \in Entries
  BY ChannelAssumption DEF Entries, ChannelInv, ChannelTypes
<1>2. /\ slot_credits \in [Entries -> 0 .. MaxCredits] /\ cur_time_offs \in 0 .. NR_CREDIT_ENTRIES
  BY Coming
<1>3. move_head(0) /\ avail_credits' = refilled
  BY DEF chmodel_request_outside
<1>4. \A e \in Entries : refilled[e] \in Int
  BY <1>1 DEF refilled, ChannelInv, ChannelTypes
<1>5. avail_credits' = [e \in Entries |-> refilled[e] - t[(e - entry(cur_time_offs)) % NR_CREDIT_ENTRIES]]
  <2> DEFINE x == entry(cur_time_offs)
  <2>1. x \in 0 .. NR_CREDIT_ENTRIES - 1
    <3> DEFINE a == head + cur_time_offs
    <3>1. a \in Int
      BY <1>1, <1>2
    <3> HIDE DEF a
    <3>2. a % NR_CREDIT_ENTRIES \in 0 .. NR_CREDIT_ENTRIES - 1
      BY <1>1, <3>1
    <3> QED BY <3>2 DEF a, entry
  <2> HIDE DEF x
  <2>2. ASSUME NEW e \in Entries PROVE (e - x) % NR_CREDIT_ENTRIES \in Entries
    BY <1>1, <2>1, <2>2, RingBack
  <2>3. \A o \in Entries : t[o] = 0
    OBVIOUS
  <2>4. refilled = [e \in Entries |-> refilled[e]]
    BY DEF refilled
  <2> HIDE DEF t
  <2>5. \A e \in Entries : refilled[e] = refilled[e] - t[(e - x) % NR_CREDIT_ENTRIES]
    BY <1>4, <2>2, <2>3
  <2>6. [e \in Entries |-> refilled[e]] = [e \in Entries |-> refilled[e] - t[(e - x) % NR_CREDIT_ENTRIES]]
    BY <2>5
  <2> QED BY <1>3, <2>4, <2>6 DEF x
<1>6. /\ 0 \in 0 .. NR_CREDIT_ENTRIES /\ t \in [Entries -> Nat]
      /\ \A o \in Entries : t[o] <= slot_credits[o] /\ (o >= 0 => t[o] = 0)
  BY <1>1, <1>2
<1>7. \A o \in Entries : slot_credits[o] - t[o] = slot_credits[o]
  BY <1>1, <1>2
<1> HIDE DEF t
<1>8. ChannelInv' /\ slot_credits' = [o \in Entries |-> slot_credits[o] - t[o]]
  BY <1>3, <1>5, <1>6, Charged
<1>9. slot_credits' = slot_credits
  BY <1>2, <1>7, <1>8
<1> QED BY <1>8, <1>9

\* A slot that passes is the first of the calendar.
LEMMA SlotPasses ==
    ASSUME ChannelInv, ShortPauses, slot_passes
    PROVE  ChannelInv' /\ Slots!Next
<1> DEFINE n == NR_CREDIT_ENTRIES
<1>1. /\ n \in Nat \ {0} /\ Entries = 0 .. n - 1 /\ MaxCredits \in Nat
      /\ valid_len \in 0 .. n /\ age \in Nat
  BY ChannelAssumption DEF Entries, ChannelInv, ChannelTypes
<1>2. age' = age + 1 /\ age' \in 0 .. Wrap - 1
  BY <1>1, ChannelAssumption DEF slot_passes, ShortPauses
<1>3. head' = head /\ valid_len' = valid_len /\ avail_credits' = avail_credits
  BY DEF slot_passes
<1>4. ChannelInv'
  BY <1>2, <1>3 DEF ChannelInv, ChannelTypes, RestUntouched, entry, Entries
<1> DEFINE s(a, o) == IF a + o < valid_len THEN avail_credits[(head + (a + o)) % n] ELSE MaxCredits
<1>5. /\ slot_credits = [o \in Entries |-> s(age, o)]
      /\ slot_credits' = [o \in Entries |-> s(age', o)]
  BY <1>3 DEF slot_credits, entry, Entries
<1> HIDE DEF n
<1>6. ASSUME NEW o \in Entries
      PROVE  s(age', o) = IF o + 1 \in Entries THEN s(age, o + 1) ELSE MaxCredits
  <2>1. age' + o = age + (o + 1)
    BY <1>1, <1>2
  <2>2. CASE o + 1 \in Entries
    BY <2>1, <2>2
  <2>3. CASE o + 1 \notin Entries
    <3>1. ~ (age' + o < valid_len)
      BY <1>1, <2>1, <2>3
    <3> QED BY <2>3, <3>1
  <2> QED BY <2>2, <2>3
<1>7. Slots!Slots = Entries
  BY DEF Slots!Slots, Entries
<1> HIDE DEF s
<1>8. slot_credits' = [o \in Entries |-> IF o + 1 \in Entries THEN slot_credits[o + 1] ELSE MaxCredits]
  BY <1>5, <1>6
<1>9. Slots!Pass
  BY <1>7, <1>8 DEF Slots!Pass
<1> QED BY <1>4, <1>9 DEF Slots!Next

\* The ring of credits, brought up to date only when it is used, implements the
\* calendar of the coming slots, for every length of the ring, every bandwidth and
\* every size of requests: chmodel_request() charges a transfer to the first slots
\* with credits from its own on, and no credit is lost or given twice when the ring
\* wraps or was not used for a while, as long as the 32-bit count of slots since its
\* last use does not start anew.
THEOREM RingImplementsCalendar == ASSUME ShortPauses PROVE ChannelSpec => ImplementsCalendar
<1>1. InitChannel => ChannelInv /\ Slots!Init
  <2> SUFFICES ASSUME InitChannel PROVE ChannelInv /\ Slots!Init
    OBVIOUS
  <2>1. NR_CREDIT_ENTRIES \in Nat \ {0} /\ MaxCredits \in Nat
    BY ChannelAssumption
  <2>2. ChannelTypes
    BY <2>1, ChannelAssumption DEF InitChannel, ChannelTypes, Entries
  <2>3. RestUntouched
    <3> SUFFICES ASSUME NEW o \in Entries PROVE avail_credits[entry(o)] = MaxCredits
      BY DEF RestUntouched
    <3>1. head = 0 /\ o \in Int /\ 0 + o = o /\ avail_credits = [e \in Entries |-> MaxCredits]
          /\ 0 <= o /\ o < NR_CREDIT_ENTRIES
      BY <2>1 DEF InitChannel, Entries
    <3>2. o % NR_CREDIT_ENTRIES = o
      BY <2>1, <3>1, Wrapped
    <3>3. entry(o) = o
      BY <3>1, <3>2 DEF entry
    <3> QED BY <3>1, <3>3
  <2>4. Slots!Init
    <3>1. Slots!Slots = Entries
      BY DEF Slots!Slots, Entries
    <3>2. slot_credits = [o \in Entries |-> MaxCredits]
      <4>1. \A o \in Entries : ~ (age + o < valid_len)
        BY <2>1 DEF InitChannel, Entries
      <4> QED BY <4>1 DEF slot_credits
    <3> QED BY <3>1, <3>2 DEF Slots!Init
  <2> QED BY <2>2, <2>3, <2>4 DEF ChannelInv
<1>2. ChannelInv /\ [NextChannel]_channelVars => ChannelInv' /\ [Slots!Next]_slot_credits
  <2> SUFFICES ASSUME ChannelInv, [NextChannel]_channelVars
               PROVE  ChannelInv' /\ [Slots!Next]_slot_credits
    OBVIOUS
  <2>1. ASSUME NEW r \in Entries, NEW units \in 1 .. MaxUnits, chmodel_request(r, units)
        PROVE  ChannelInv' /\ Slots!Next
    <3>1. units \in Nat \ {0}
      BY ChannelAssumption
    <3> QED BY <2>1, <3>1, RequestBooks
  <2>2. ASSUME NEW r, chmodel_request_outside(r) PROVE ChannelInv' /\ UNCHANGED slot_credits
    BY <2>2, OutsideBooksNothing
  <2>3. ASSUME slot_passes PROVE ChannelInv' /\ Slots!Next
    BY <2>3, SlotPasses
  <2>4. ASSUME UNCHANGED channelVars PROVE ChannelInv' /\ UNCHANGED slot_credits
    <3>1. head' = head /\ valid_len' = valid_len /\ age' = age /\ avail_credits' = avail_credits
      BY <2>4 DEF channelVars
    <3> QED BY <3>1 DEF ChannelInv, ChannelTypes, RestUntouched, slot_credits, entry, Entries
  <2> QED BY <2>1, <2>2, <2>3, <2>4 DEF NextChannel
<1> QED BY <1>1, <1>2, PTL DEF ChannelSpec, ImplementsCalendar, Slots!Spec
=============================================================================
