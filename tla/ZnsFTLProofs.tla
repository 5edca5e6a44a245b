---------------------------- MODULE ZnsFTLProofs ----------------------------
(***************************************************************************)
(* Proofs about the zones of ZnsFTL, for any number and size of zones, any *)
(* write unit, buffers and submission queues, and any random write area    *)
(* that is at least one flush granule (or none at all, as in the shipped   *)
(* configurations).                                                        *)
(***************************************************************************)
EXTENDS ZnsFTL, FiniteSetTheorems, TLAPS

GranuleFits == Zrwafg <= Zrwa

(***************************************************************************)
(* The inductive invariant: ZoneShape and OpenActiveExact need each other. *)
(* A zone with a random write area that is not open is closed, not empty,  *)
(* so that opening it again takes one counter; and a counter that is to be *)
(* released is not 0 because the zone itself is counted.                   *)
(***************************************************************************)
Desc == [state : States, wp : 0 .. NrZones * ZoneLbas, zrwav : {0, 1}]
fresh(z) == [state |-> "EMPTY", wp |-> zone_to_slba(z), zrwav |-> 0]

Aligned(z, wp) == (wp - zone_to_slba(z)) % Zrwafg = 0 \/ wp = zone_end(z)

\* ZoneShape of one descriptor
ShapeOf(z, d) ==
    /\ d \in Desc
    /\ zone_to_slba(z) <= d.wp /\ d.wp <= zone_end(z)
    /\ d.state = "EMPTY" => d.wp = zone_to_slba(z) /\ d.zrwav = 0
    /\ d.wp = zone_end(z) => d.state = "FULL"
    /\ d.zrwav = 1 /\ Zrwafg > 0 => Aligned(z, d.wp)

IInv ==
    /\ TypeOK /\ DOMAIN head = SQs
    /\ \A z \in Zones : ShapeOf(z, zone_descs[z])
    /\ OpenActiveExact

HasZrwa(d) == d.state \in Active /\ d.zrwav = 1
ZrwaZones == {z \in ZonesIn(Active) : zone_descs[z].zrwav = 1}

\* the resources that a zone with this descriptor holds
Holds(d) == {t \in ResTypes :
    \/ t = "OPEN" /\ d.state \in Opened
    \/ t = "ACTIVE" /\ d.state \in Active
    \/ t = "ZRWA" /\ HasZrwa(d)}

count(P) == IF P THEN 1 ELSE 0

\* a step replaces the descriptor of one zone by d, in a way the zone may
\* change, and moves the counters by the difference
Replaces(z, d) ==
    LET old == zone_descs[z]
        zrwa == acquired["ZRWA"] + count(HasZrwa(d)) - count(HasZrwa(old))
    IN  /\ ShapeOf(z, d)
        /\ zone_descs' = [zone_descs EXCEPT ![z] = d]
        /\ d.wp < old.wp \/ (old.state = "FULL" /\ d.state # "FULL") => d = fresh(z)
        /\ acquired' \in [ResTypes -> Int] /\ failed \subseteq failed'
        /\ acquired'["OPEN"] = acquired["OPEN"] + count(d.state \in Opened) - count(old.state \in Opened)
        /\ acquired'["ACTIVE"] = acquired["ACTIVE"] + count(d.state \in Active) - count(old.state \in Active)
        /\ acquired'["ZRWA"] >= zrwa /\ acquired'["ZRWA"] <= NrZones
        /\ "zrwa_zone_full" \notin failed' => acquired'["ZRWA"] = zrwa

(***************************************************************************)
(* Arithmetic.                                                             *)
(***************************************************************************)
\* The first LBA of a zone and the zone of an LBA.
LEMMA ZoneOfLba ==
    /\ \A x \in 0 .. NrZones * ZoneLbas - 1 :
          /\ lba_to_zone(x) \in Zones
          /\ zone_to_slba(lba_to_zone(x)) <= x /\ x < zone_end(lba_to_zone(x))
    /\ \A z \in Zones :
          /\ zone_to_slba(z) \in Nat /\ zone_end(z) \in Nat
          /\ zone_to_slba(z) < zone_end(z) /\ zone_end(z) <= NrZones * ZoneLbas
          /\ lba_to_zone(zone_to_slba(z)) = z
          /\ \A x \in Nat : zone_to_slba(z) <= x /\ x < zone_end(z) <=> lba_to_zone(x) = z
<1>1. NrZones \in Nat /\ ZoneLbas \in Nat /\ ZoneLbas > 0
  BY ZnsAssumption
<1>2. ASSUME NEW x \in 0 .. NrZones * ZoneLbas - 1
      PROVE  /\ lba_to_zone(x) \in Zones
             /\ zone_to_slba(lba_to_zone(x)) <= x /\ x < zone_end(lba_to_zone(x))
  BY <1>1 DEF lba_to_zone, Zones, zone_to_slba, zone_end
<1>3. ASSUME NEW z \in Zones
      PROVE  /\ zone_to_slba(z) \in Nat /\ zone_end(z) \in Nat
             /\ zone_to_slba(z) < zone_end(z) /\ zone_end(z) <= NrZones * ZoneLbas
  BY <1>1 DEF Zones, zone_to_slba, zone_end
<1>4. ASSUME NEW z \in Zones, NEW x \in Nat
      PROVE  zone_to_slba(z) <= x /\ x < zone_end(z) <=> lba_to_zone(x) = z
  BY <1>1 DEF Zones, zone_to_slba, zone_end, lba_to_zone
<1> QED BY <1>2, <1>3, <1>4

\* A flush of whole granules keeps the write pointer on a granule.
LEMMA Multiples ==
    ASSUME NEW g \in Nat \ {0}, NEW a \in Nat, NEW b \in Nat, a % g = 0, b % g = 0
    PROVE  (a + b) % g = 0
<1>1. PICK m \in Nat, n \in Nat : a = g * m /\ b = g * n
  <2>1. a = g * (a \div g) /\ b = g * (b \div g) /\ a \div g \in Nat /\ b \div g \in Nat
    OBVIOUS
  <2> QED BY <2>1
<1>2. a + b = g * (m + n) /\ m + n \in Nat
  BY <1>1
<1>3. \A k \in Nat : (g * k) % g = 0
  OBVIOUS
<1> QED BY <1>1, <1>2, <1>3

\* What an implicit flush takes is whole granules and covers no more than the
\* write reaches, or goes to the end of the zone.
LEMMA FlushBound ==
    ASSUME NEW g \in Nat \ {0}, NEW x \in Nat
    PROVE  /\ ((x + g) \div g) * g \in Nat
           /\ ((x + g) \div g) * g <= x + g
           /\ (((x + g) \div g) * g) % g = 0
<1>1. (x + g) \div g \in Nat /\ ((x + g) \div g) * g <= x + g
  OBVIOUS
<1>2. \A m \in Nat : (m * g) % g = 0 /\ m * g \in Nat
  OBVIOUS
<1> QED BY <1>1, <1>2

(***************************************************************************)
(* Counting zones.                                                         *)
(***************************************************************************)
\* Sets of zones that differ in one zone at most.
LEMMA Recount ==
    ASSUME NEW S \in SUBSET Zones, NEW T \in SUBSET Zones, NEW z \in Zones,
           \A y \in Zones \ {z} : y \in T <=> y \in S
    PROVE  /\ Cardinality(S) \in 0 .. NrZones /\ Cardinality(T) \in 0 .. NrZones
           /\ z \in S => Cardinality(S) >= 1
           /\ Cardinality(T) = Cardinality(S) + count(z \in T) - count(z \in S)
<1>1. IsFiniteSet(Zones) /\ Cardinality(Zones) = NrZones
  BY FS_Interval, ZnsAssumption DEF Zones
<1>2. /\ IsFiniteSet(S) /\ Cardinality(S) <= NrZones /\ Cardinality(S) \in Nat
      /\ IsFiniteSet(T) /\ Cardinality(T) <= NrZones /\ Cardinality(T) \in Nat
  BY <1>1, FS_Subset, FS_CardinalityType
<1>3. S \ {z} = T \ {z}
  OBVIOUS
<1>4. \A R : IsFiniteSet(R) => /\ IsFiniteSet(R \ {z})
                               /\ Cardinality(R \ {z}) = IF z \in R THEN Cardinality(R) - 1 ELSE Cardinality(R)
  BY FS_RemoveElement
<1>5. Cardinality(S \ {z}) \in Nat
  BY <1>2, <1>4, FS_CardinalityType
<1>6. /\ Cardinality(S \ {z}) = IF z \in S THEN Cardinality(S) - 1 ELSE Cardinality(S)
      /\ Cardinality(S \ {z}) = IF z \in T THEN Cardinality(T) - 1 ELSE Cardinality(T)
  BY <1>2, <1>3, <1>4
<1>7. z \in S => Cardinality(S) >= 1
  BY <1>2, <1>5, <1>6
<1>8. Cardinality(T) = Cardinality(S) + count(z \in T) - count(z \in S)
  <2>1. CASE z \in S
    BY <1>2, <1>6, <2>1 DEF count
  <2>2. CASE z \notin S
    BY <1>2, <1>6, <2>2 DEF count
  <2> QED BY <2>1, <2>2
<1> QED BY <1>2, <1>7, <1>8, ZnsAssumption

\* A step that replaces a descriptor and moves the counters with it keeps the
\* shape of all zones and the counters exact.
LEMMA ReplaceKeeps ==
    ASSUME IInv, Running, NEW z \in Zones, NEW d, Replaces(z, d)
    PROVE  /\ zone_descs' \in [Zones -> Desc]
           /\ acquired' \in [ResTypes -> 0 .. NrZones]
           /\ \A y \in Zones : ShapeOf(y, zone_descs'[y])
           /\ OpenActiveExact'
           /\ ZoneStepAllowed
<1>1. /\ d \in Desc /\ zone_descs \in [Zones -> Desc]
      /\ zone_descs' = [zone_descs EXCEPT ![z] = d]
  BY DEF Replaces, ShapeOf, IInv, TypeOK, Desc
<1>2. zone_descs' \in [Zones -> Desc] /\ zone_descs'[z] = d /\ \A y \in Zones \ {z} : zone_descs'[y] = zone_descs[y]
  BY <1>1
<1>3. \A y \in Zones : ShapeOf(y, zone_descs'[y])
  BY <1>2 DEF IInv, Replaces
<1>4. ZoneStepAllowed
  <2>1. \A y \in Zones \ {z} : zone_descs[y].wp \in Nat
    BY <1>1 DEF Desc
  <2> QED BY <1>2, <2>1 DEF ZoneStepAllowed, Replaces, fresh
<1>5. /\ ZonesIn(Opened)' \in SUBSET Zones /\ ZonesIn(Opened) \in SUBSET Zones
      /\ \A y \in Zones \ {z} : y \in ZonesIn(Opened)' <=> y \in ZonesIn(Opened)
      /\ z \in ZonesIn(Opened)' <=> d.state \in Opened
      /\ z \in ZonesIn(Opened) <=> zone_descs[z].state \in Opened
  BY <1>2 DEF ZonesIn, Opened
<1>6. /\ ZonesIn(Active)' \in SUBSET Zones /\ ZonesIn(Active) \in SUBSET Zones
      /\ \A y \in Zones \ {z} : y \in ZonesIn(Active)' <=> y \in ZonesIn(Active)
      /\ z \in ZonesIn(Active)' <=> d.state \in Active
      /\ z \in ZonesIn(Active) <=> zone_descs[z].state \in Active
  BY <1>2 DEF ZonesIn, Active, Opened
<1>7. /\ ZrwaZones' \in SUBSET Zones /\ ZrwaZones \in SUBSET Zones
      /\ \A y \in Zones \ {z} : y \in ZrwaZones' <=> y \in ZrwaZones
      /\ z \in ZrwaZones' <=> HasZrwa(d)
      /\ z \in ZrwaZones <=> HasZrwa(zone_descs[z])
  BY <1>2 DEF ZrwaZones, ZonesIn, HasZrwa, Active, Opened
<1>8. /\ Cardinality(ZonesIn(Opened)') \in 0 .. NrZones
      /\ acquired'["OPEN"] = Cardinality(ZonesIn(Opened)')
  BY <1>5, Recount DEF Replaces, IInv, OpenActiveExact, count
<1>9. /\ Cardinality(ZonesIn(Active)') \in 0 .. NrZones
      /\ acquired'["ACTIVE"] = Cardinality(ZonesIn(Active)')
  BY <1>6, Recount DEF Replaces, IInv, OpenActiveExact, count
<1>10. /\ Cardinality(ZrwaZones') \in 0 .. NrZones
       /\ acquired'["ZRWA"] >= Cardinality(ZrwaZones')
       /\ "zrwa_zone_full" \notin failed' => acquired'["ZRWA"] = Cardinality(ZrwaZones')
  <2>1. /\ Cardinality(ZrwaZones') \in 0 .. NrZones /\ Cardinality(ZrwaZones) \in 0 .. NrZones
        /\ Cardinality(ZrwaZones') = Cardinality(ZrwaZones) + count(HasZrwa(d)) - count(HasZrwa(zone_descs[z]))
    BY <1>7, Recount DEF count
  <2>2. /\ acquired["ZRWA"] \in Int
        /\ acquired["ZRWA"] >= Cardinality(ZrwaZones)
        /\ "zrwa_zone_full" \notin failed => acquired["ZRWA"] = Cardinality(ZrwaZones)
    BY <2>1 DEF IInv, TypeOK, OpenActiveExact, ZrwaExact, ZrwaZones, ResTypes
  <2>3. acquired'["ZRWA"] \in Int /\ count(HasZrwa(d)) \in Int /\ count(HasZrwa(zone_descs[z])) \in Int
    BY DEF Replaces, ResTypes, count
  <2> QED BY <2>1, <2>2, <2>3 DEF Replaces
<1>11. acquired' \in [ResTypes -> 0 .. NrZones]
  <2>1. \A t \in ResTypes : acquired'[t] \in 0 .. NrZones
    BY <1>8, <1>9, <1>10, ZnsAssumption DEF ResTypes, Replaces
  <2> QED BY <2>1 DEF Replaces
<1>12. OpenActiveExact'
  BY <1>8, <1>9, <1>10 DEF OpenActiveExact, ZrwaExact, ZrwaZones
<1> QED BY <1>2, <1>3, <1>4, <1>11, <1>12

(***************************************************************************)
(* What the commands do to a zone.                                         *)
(***************************************************************************)
\* The fields of a descriptor and the counters, for the provers.
LEMMA ZoneFacts ==
    ASSUME IInv, NEW z \in Zones
    PROVE  /\ zone_descs \in [Zones -> Desc]
           /\ zone_descs[z] \in Desc /\ ShapeOf(z, zone_descs[z])
           /\ zone_descs[z].state \in States /\ zone_descs[z].zrwav \in {0, 1}
           /\ zone_descs[z].wp \in Nat
           /\ zone_descs[z].state # "FULL" => zone_descs[z].wp < zone_end(z)
           /\ acquired \in [ResTypes -> 0 .. NrZones] /\ DOMAIN acquired = ResTypes
           /\ \A t \in ResTypes : acquired[t] \in Nat /\ acquired[t] <= NrZones
           /\ NrZones \in Nat
<1>1. zone_descs \in [Zones -> Desc] /\ acquired \in [ResTypes -> 0 .. NrZones] /\ NrZones \in Nat
  BY ZnsAssumption DEF IInv, TypeOK, Desc
<1>2. zone_descs[z] \in Desc /\ ShapeOf(z, zone_descs[z])
  BY <1>1 DEF IInv
<1>3. zone_to_slba(z) \in Nat /\ zone_end(z) \in Nat
  BY ZoneOfLba
<1> QED BY <1>1, <1>2, <1>3 DEF Desc, ShapeOf

\* __increase_write_ptr() with the opening of the zone before it, for a write
\* that stays in the zone.
LEMMA WritePointer ==
    ASSUME IInv, NEW z \in Zones, NEW a, NEW n \in Nat,
           increase_write_ptr(z, a, n),
           zone_descs[z].state \in Active \cup {"EMPTY"},
           zone_descs[z].wp + n <= zone_end(z),
           zone_descs[z].zrwav = 1 => Zrwafg > 0 /\ Aligned(z, zone_descs[z].wp + n),
           a = acquire(acquired, to_acquire(z))
    PROVE  \E d : Replaces(z, d)
<1> DEFINE old == zone_descs[z]
           wp == old.wp + n
           st == IF wp = zone_end(z) THEN "FULL" ELSE IF old.state \in Opened THEN old.state ELSE "OPENED_IMPL"
           d == [[old EXCEPT !.wp = wp] EXCEPT !.state = st]
<1>1. /\ zone_descs \in [Zones -> Desc] /\ old \in Desc /\ ShapeOf(z, old) /\ old.wp \in Nat
      /\ old.state \in States /\ old.zrwav \in {0, 1}
      /\ NrZones \in Nat
  BY ZoneFacts
<1>2. zone_to_slba(z) \in Nat /\ zone_end(z) \in Nat /\ zone_end(z) <= NrZones * ZoneLbas /\ NrZones * ZoneLbas \in Nat
  BY ZoneOfLba, ZnsAssumption
<1>3. /\ d \in Desc /\ d.state = st /\ d.wp = wp /\ d.zrwav = old.zrwav
  <2>1. st \in States /\ wp \in 0 .. NrZones * ZoneLbas
    BY <1>1, <1>2 DEF States, Opened
  <2> HIDE DEF st, wp
  <2> QED BY <1>1, <2>1 DEF Desc
<1>4. zone_descs' = [zone_descs EXCEPT ![z] = d]
  <2>1. zone_descs' = [zone_descs EXCEPT ![z].wp = wp, ![z].state = st]
    BY DEF increase_write_ptr, zone_is_filled
  <2> QED BY <1>1, <2>1 DEF Desc
<1>5. ShapeOf(z, d)
  BY <1>1, <1>2, <1>3 DEF ShapeOf, Opened, Aligned
<1>6. /\ acquired' = IF wp = zone_end(z) THEN release(a, {"OPEN", "ACTIVE"}) ELSE a
      /\ failed' = IF wp = zone_end(z) /\ old.zrwav = 1 THEN failed \cup {"zrwa_zone_full"} ELSE failed
  BY DEF increase_write_ptr, zone_is_filled
<1>7. old.state \in {"EMPTY", "CLOSED", "OPENED_IMPL", "OPENED_EXPL"}
  BY DEF Active, Opened
<1>8. /\ acquired["OPEN"] \in Nat /\ acquired["ACTIVE"] \in Nat
      /\ acquired["ZRWA"] \in Nat /\ acquired["ZRWA"] <= NrZones
      /\ acquired \in [ResTypes -> 0 .. NrZones]
  BY ZoneFacts DEF ResTypes
<1>9. /\ a \in [ResTypes -> Int]
      /\ a["OPEN"] = acquired["OPEN"] + count(old.state \notin Opened)
      /\ a["ACTIVE"] = acquired["ACTIVE"] + count(old.state = "EMPTY")
      /\ a["ZRWA"] = acquired["ZRWA"]
  BY <1>7, <1>8 DEF acquire, to_acquire, ResTypes, count, Opened
<1>10. /\ acquired' \in [ResTypes -> Int]
       /\ acquired'["OPEN"] = a["OPEN"] - count(wp = zone_end(z))
       /\ acquired'["ACTIVE"] = a["ACTIVE"] - count(wp = zone_end(z))
       /\ acquired'["ZRWA"] = a["ZRWA"]
  <2>1. a["OPEN"] \in Int /\ a["ACTIVE"] \in Int
    BY <1>9 DEF ResTypes
  <2> QED BY <1>6, <1>9, <2>1 DEF release, ResTypes, count
<1>11. /\ acquired'["OPEN"] = acquired["OPEN"] + count(d.state \in Opened) - count(old.state \in Opened)
       /\ acquired'["ACTIVE"] = acquired["ACTIVE"] + count(d.state \in Active) - count(old.state \in Active)
  BY <1>3, <1>7, <1>8, <1>9, <1>10 DEF count, Opened, Active
<1>12. HasZrwa(d) => HasZrwa(old)
  BY <1>1, <1>3, <1>7 DEF HasZrwa, Active, Opened, ShapeOf
<1>13. HasZrwa(old) /\ ~ HasZrwa(d) => "zrwa_zone_full" \in failed'
  BY <1>3, <1>6, <1>7 DEF HasZrwa, Active, Opened
<1>14. /\ failed \subseteq failed'
       /\ acquired'["ZRWA"] >= acquired["ZRWA"] + count(HasZrwa(d)) - count(HasZrwa(old))
       /\ acquired'["ZRWA"] <= NrZones
       /\ "zrwa_zone_full" \notin failed' =>
             acquired'["ZRWA"] = acquired["ZRWA"] + count(HasZrwa(d)) - count(HasZrwa(old))
  BY <1>6, <1>8, <1>9, <1>10, <1>12, <1>13 DEF count
<1>15. d.wp < old.wp \/ (old.state = "FULL" /\ d.state # "FULL") => d = fresh(z)
  BY <1>1, <1>3, <1>7
<1>16. Replaces(z, d)
  BY <1>4, <1>5, <1>10, <1>11, <1>14, <1>15 DEF Replaces
<1> QED BY <1>16

\* zns_write(): the checks make sure that the write stays in the zone.
LEMMA PlainWrite ==
    ASSUME IInv, NEW z \in Zones, NEW slba \in Nat, NEW nr \in Nat \ {0},
           write_accepted(z, slba, nr), zone_descs[z].zrwav = 0,
           increase_write_ptr(z, acquire(acquired, to_acquire(z)), nr)
    PROVE  \E d : Replaces(z, d)
<1>1. slba = zone_descs[z].wp /\ zone_descs[z].state \in Active \cup {"EMPTY"} /\ check_boundary(slba, nr)
  BY DEF write_accepted
<1>2. slba < zone_end(z) /\ zone_to_slba(z) <= slba
  BY <1>1, ZoneFacts DEF ShapeOf, Active, Opened
<1>3. lba_to_zone(slba + nr - 1) = z
  BY <1>1, <1>2, ZoneOfLba DEF check_boundary
<1>4. slba + nr <= zone_end(z)
  <2>1. slba + nr - 1 \in Nat
    OBVIOUS
  <2>2. slba + nr - 1 < zone_end(z) /\ zone_end(z) \in Nat
    BY <1>3, <2>1, ZoneOfLba
  <2> QED BY <2>1, <2>2
<1> QED BY <1>1, <1>4, WritePointer

\* zns_write_zrwa(): an implicit flush ends on a granule inside the zone, or at
\* its end; a zone that has to be opened again is closed.
LEMMA ZrwaWrite ==
    ASSUME IInv, GranuleFits, NEW z \in Zones, NEW slba \in Nat, NEW nr \in Nat \ {0},
           lba_to_zone(slba) = z, zrwa_accepted(z, slba, nr),
           zone_descs[z].zrwav = 1, Zrwafg > 0
    PROVE  LET n == implicit_flush(z, slba + nr - 1)
           IN  /\ n \in Nat
               /\ zone_descs[z].state \in Active
               /\ zone_descs[z].state \notin Opened => zone_descs[z].state = "CLOSED"
               /\ zone_descs[z].wp + n <= zone_end(z)
               /\ Aligned(z, zone_descs[z].wp + n)
<1> DEFINE wp == zone_descs[z].wp
           elba == slba + nr - 1
           start == wp + Zrwa
           n == implicit_flush(z, elba)
<1>1. /\ wp \in Nat /\ elba \in Nat /\ slba >= wp /\ elba >= wp
      /\ zone_to_slba(z) \in Nat /\ zone_end(z) \in Nat /\ zone_to_slba(z) <= wp
      /\ Zrwa \in Nat /\ Zrwafg \in Nat \ {0} /\ Zrwafg <= Zrwa /\ start \in Nat
  BY ZoneFacts, ZoneOfLba, ZnsAssumption DEF zrwa_accepted, ShapeOf, GranuleFits
<1>2. elba < zone_end(z)
  <2>1. lba_to_zone(elba) = z
    BY DEF zrwa_accepted, check_boundary
  <2> QED BY <1>1, <2>1, ZoneOfLba
<1>3. zone_descs[z].state # "EMPTY"
  BY ZoneFacts DEF ShapeOf
<1>4. zone_descs[z].state \in Opened \cup {"CLOSED"}
  BY <1>3 DEF zrwa_accepted
<1>5. wp < zone_end(z) /\ (wp - zone_to_slba(z)) % Zrwafg = 0
  BY <1>1, <1>4, ZoneFacts DEF ShapeOf, Aligned, Opened
<1>6. CASE elba >= start
  <2> DEFINE x == elba - start
             m == ((x + Zrwafg) \div Zrwafg) * Zrwafg
  <2>1. x \in Nat /\ n = m
    BY <1>1, <1>6 DEF implicit_flush
  <2> HIDE DEF x
  <2>2. m \in Nat /\ m <= x + Zrwafg /\ m % Zrwafg = 0
    BY <1>1, <2>1, FlushBound
  <2> HIDE DEF m
  <2>3. wp + m <= elba
    <3>1. x = elba - start
      BY DEF x
    <3> QED BY <1>1, <2>1, <2>2, <3>1
  <2>4. ((wp - zone_to_slba(z)) + m) % Zrwafg = 0
    <3>1. wp - zone_to_slba(z) \in Nat
      BY <1>1
    <3> QED BY <1>1, <1>5, <2>2, <3>1, Multiples
  <2>5. (wp - zone_to_slba(z)) + m = (wp + m) - zone_to_slba(z)
    BY <1>1, <2>2
  <2> QED BY <1>1, <1>2, <1>4, <2>1, <2>2, <2>3, <2>4, <2>5 DEF Active, Aligned
<1>7. CASE elba < start /\ elba = zone_end(z) - 1
  <2>1. n = elba - wp + 1
    BY <1>1, <1>7 DEF implicit_flush
  <2> QED BY <1>1, <1>4, <1>7, <2>1 DEF Active, Aligned
<1>8. CASE elba < start /\ elba # zone_end(z) - 1
  <2>1. n = 0
    BY <1>1, <1>8 DEF implicit_flush
  <2> QED BY <1>1, <1>4, <1>5, <2>1 DEF Active, Aligned
<1> QED BY <1>1, <1>6, <1>7, <1>8

\* The counters after a change that is no write: acquired are the resources that
\* the zone holds afterwards and did not hold before, or the other way round.
LEMMA Recounted ==
    ASSUME IInv, NEW z \in Zones, NEW d, ShapeOf(z, d), UNCHANGED failed,
           zone_descs' = [zone_descs EXCEPT ![z] = d],
           d.wp < zone_descs[z].wp \/ (zone_descs[z].state = "FULL" /\ d.state # "FULL") => d = fresh(z),
           \/ /\ Holds(zone_descs[z]) \subseteq Holds(d)
              /\ acquired' = acquire(acquired, Holds(d) \ Holds(zone_descs[z]))
              /\ "ZRWA" \in Holds(d) \ Holds(zone_descs[z]) => acquired["ZRWA"] # NrZones
           \/ /\ Holds(d) \subseteq Holds(zone_descs[z])
              /\ acquired' = release(acquired, Holds(zone_descs[z]) \ Holds(d))
    PROVE  Replaces(z, d)
<1> DEFINE old == zone_descs[z]
<1>1. /\ acquired["OPEN"] \in Nat /\ acquired["ACTIVE"] \in Nat /\ acquired["ZRWA"] \in Nat
      /\ acquired["ZRWA"] <= NrZones /\ NrZones \in Nat
      /\ acquired \in [ResTypes -> 0 .. NrZones]
  BY ZoneFacts DEF ResTypes
<1>2. /\ acquired' \in [ResTypes -> Int]
      /\ \A t \in ResTypes : acquired'[t] = acquired[t] + count(t \in Holds(d)) - count(t \in Holds(old))
  <2>1. CASE Holds(old) \subseteq Holds(d) /\ acquired' = acquire(acquired, Holds(d) \ Holds(old))
    BY <1>1, <2>1 DEF acquire, count
  <2>2. CASE Holds(d) \subseteq Holds(old) /\ acquired' = release(acquired, Holds(old) \ Holds(d))
    BY <1>1, <2>2 DEF release, count
  <2> QED BY <2>1, <2>2
<1>3. /\ \A e : ("OPEN" \in Holds(e)) = (e.state \in Opened)
      /\ \A e : ("ACTIVE" \in Holds(e)) = (e.state \in Active)
      /\ \A e : ("ZRWA" \in Holds(e)) = HasZrwa(e)
  BY DEF Holds, ResTypes, HasZrwa
<1>4. acquired'["ZRWA"] <= NrZones
  <2>1. CASE "ZRWA" \in Holds(d) \ Holds(old)
    BY <1>1, <1>2, <2>1 DEF ResTypes, count, acquire
  <2>2. CASE "ZRWA" \notin Holds(d) \ Holds(old)
    BY <1>1, <1>2, <2>2 DEF ResTypes, count
  <2> QED BY <2>1, <2>2
<1>5. /\ acquired'["OPEN"] = acquired["OPEN"] + count(d.state \in Opened) - count(old.state \in Opened)
      /\ acquired'["ACTIVE"] = acquired["ACTIVE"] + count(d.state \in Active) - count(old.state \in Active)
      /\ acquired'["ZRWA"] = acquired["ZRWA"] + count(HasZrwa(d)) - count(HasZrwa(old))
  BY <1>2, <1>3 DEF ResTypes
<1>6. acquired'["ZRWA"] \in Int
  BY <1>2 DEF ResTypes
<1> QED BY <1>1, <1>2, <1>4, <1>5, <1>6 DEF Replaces

\* Closing, finishing and taking a zone offline.
LEMMA CloseFinish ==
    ASSUME IInv, NEW z \in Zones, UNCHANGED failed, close_zone(z) \/ finish_zone(z) \/ offline_zone(z)
    PROVE  UNCHANGED <<zone_descs, acquired>> \/ \E d : Replaces(z, d)
<1> DEFINE old == zone_descs[z]
           with(st) == [old EXCEPT !.state = st]
<1>1. /\ zone_descs \in [Zones -> Desc] /\ old \in Desc /\ ShapeOf(z, old) /\ old.wp \in Nat
      /\ old.state \in States /\ old.zrwav \in {0, 1}
      /\ acquired \in [ResTypes -> 0 .. NrZones] /\ zone_end(z) \in Nat
  BY ZoneFacts, ZoneOfLba
<1>2. \A st \in States : /\ with(st) \in Desc /\ with(st).state = st /\ with(st).wp = old.wp
                          /\ with(st).zrwav = old.zrwav
  BY <1>1 DEF Desc
<1>3. /\ \A st \in {"CLOSED", "OFFLINE"} : old.state # "FULL" => ShapeOf(z, with(st))
      /\ ShapeOf(z, with("FULL"))
  BY <1>1, <1>2 DEF ShapeOf, States, Aligned
<1>0. /\ [zone_descs EXCEPT ![z].state = "CLOSED"] = [zone_descs EXCEPT ![z] = with("CLOSED")]
      /\ [zone_descs EXCEPT ![z].state = "FULL"] = [zone_descs EXCEPT ![z] = with("FULL")]
      /\ [zone_descs EXCEPT ![z].state = "OFFLINE"] = [zone_descs EXCEPT ![z] = with("OFFLINE")]
  BY <1>1
<1> HIDE DEF with
<1>4. CASE close_zone(z) /\ old.state \in Opened
  <2>1. zone_descs' = [zone_descs EXCEPT ![z] = with("CLOSED")] /\ acquired' = release(acquired, {"OPEN"})
    BY <1>0, <1>4 DEF close_zone, change_zone_state
  <2>2. /\ Holds(with("CLOSED")) \subseteq Holds(old)
        /\ Holds(old) \ Holds(with("CLOSED")) = {"OPEN"}
    BY <1>2, <1>4 DEF Holds, ResTypes, HasZrwa, Active, Opened, States
  <2>3. old.state # "FULL" /\ with("CLOSED").wp = old.wp /\ ShapeOf(z, with("CLOSED"))
    BY <1>2, <1>3, <1>4 DEF Opened, States
  <2>4. Replaces(z, with("CLOSED"))
    <3>1. ~ (with("CLOSED").wp < old.wp \/ (old.state = "FULL" /\ with("CLOSED").state # "FULL"))
      BY <1>1, <2>3
    <3>2. /\ Holds(with("CLOSED")) \subseteq Holds(old)
          /\ acquired' = release(acquired, Holds(old) \ Holds(with("CLOSED")))
      BY <2>1, <2>2, <2>3
    <3> QED BY <2>1, <2>3, <3>1, <3>2, Recounted
  <2> QED BY <2>4
<1>5. CASE finish_zone(z) /\ old.state \in Active \cup {"EMPTY"}
  <2>1. /\ zone_descs' = [zone_descs EXCEPT ![z] = with("FULL")]
        /\ acquired' = release(acquired, held_resources(z) \cup held_zrwa(z))
    BY <1>0, <1>5 DEF finish_zone, change_zone_state
  <2>2. /\ Holds(with("FULL")) \subseteq Holds(old)
        /\ Holds(old) \ Holds(with("FULL")) = held_resources(z) \cup held_zrwa(z)
    BY <1>2, <1>5 DEF Holds, ResTypes, HasZrwa, Active, Opened, States, held_resources, held_zrwa
  <2>3. with("FULL").wp = old.wp /\ ShapeOf(z, with("FULL")) /\ with("FULL").state = "FULL"
    BY <1>2, <1>3 DEF States
  <2>4. Replaces(z, with("FULL"))
    <3>1. ~ (with("FULL").wp < old.wp \/ (old.state = "FULL" /\ with("FULL").state # "FULL"))
      BY <1>1, <2>3
    <3>2. /\ Holds(with("FULL")) \subseteq Holds(old)
          /\ acquired' = release(acquired, Holds(old) \ Holds(with("FULL")))
      BY <2>1, <2>2, <2>3
    <3> QED BY <2>1, <2>3, <3>1, <3>2, Recounted
  <2> QED BY <2>4
<1>6. CASE offline_zone(z) /\ old.state = "READ_ONLY"
  <2>1. zone_descs' = [zone_descs EXCEPT ![z] = with("OFFLINE")] /\ acquired' = acquired
    BY <1>0, <1>6 DEF offline_zone, change_zone_state
  <2>2. Holds(with("OFFLINE")) = {} /\ Holds(old) = {}
    BY <1>2, <1>6 DEF Holds, ResTypes, HasZrwa, Active, Opened, States
  <2>3. acquired = release(acquired, {})
    BY <1>1 DEF release
  <2>4. with("OFFLINE").wp = old.wp /\ ShapeOf(z, with("OFFLINE")) /\ old.state # "FULL"
    BY <1>2, <1>3, <1>6 DEF States
  <2>5. Replaces(z, with("OFFLINE"))
    <3>1. ~ (with("OFFLINE").wp < old.wp \/ (old.state = "FULL" /\ with("OFFLINE").state # "FULL"))
      BY <1>1, <2>4
    <3>2. /\ Holds(with("OFFLINE")) \subseteq Holds(old)
          /\ acquired' = release(acquired, Holds(old) \ Holds(with("OFFLINE")))
      BY <2>1, <2>2, <2>3, <2>4
    <3> QED BY <2>1, <2>4, <3>1, <3>2, Recounted
  <2> QED BY <2>5
<1> QED BY <1>4, <1>5, <1>6 DEF close_zone, finish_zone, offline_zone

\* Opening a zone, with or without a random write area.
LEMMA Open ==
    ASSUME IInv, NEW z \in Zones, UNCHANGED failed, NEW zrwa \in BOOLEAN, open_zone(z, zrwa)
    PROVE  UNCHANGED <<zone_descs, acquired>> \/ \E d : Replaces(z, d)
<1> DEFINE old == zone_descs[z]
           new == old.state = "EMPTY" /\ zrwa
           flag == IF new THEN 1 ELSE old.zrwav
           d == [[old EXCEPT !.state = "OPENED_EXPL"] EXCEPT !.zrwav = flag]
<1>1. /\ zone_descs \in [Zones -> Desc] /\ old \in Desc /\ ShapeOf(z, old) /\ old.wp \in Nat
      /\ old.state \in States /\ old.zrwav \in {0, 1}
      /\ acquired \in [ResTypes -> 0 .. NrZones] /\ zone_end(z) \in Nat /\ zone_to_slba(z) \in Nat
      /\ zone_to_slba(z) < zone_end(z)
  BY ZoneFacts, ZoneOfLba
<1>2. CASE open_allowed(z, zrwa)
  <2>1. /\ zone_descs' = [zone_descs EXCEPT ![z].state = "OPENED_EXPL", ![z].zrwav = flag]
        /\ acquired' = acquire(acquired, to_acquire(z) \cup (IF new THEN {"ZRWA"} ELSE {}))
    BY <1>2 DEF open_zone
  <2>2. zone_descs' = [zone_descs EXCEPT ![z] = d]
    BY <1>1, <2>1
  <2>3. d \in Desc /\ d.state = "OPENED_EXPL" /\ d.wp = old.wp /\ d.zrwav = flag
    <3>1. flag \in {0, 1} /\ "OPENED_EXPL" \in States
      BY <1>1 DEF States
    <3> HIDE DEF flag
    <3> QED BY <1>1, <3>1 DEF Desc
  <2>4. old.state \in {"EMPTY", "CLOSED", "OPENED_IMPL", "OPENED_EXPL"}
    BY <1>2 DEF open_allowed, Active, Opened
  <2>5. new => old.wp = zone_to_slba(z) /\ old.zrwav = 0 /\ acquired["ZRWA"] # NrZones
    BY <1>1, <1>2 DEF ShapeOf, open_allowed, is_zone_resource_full, total_cnt, ResTypes
  <2>6. ShapeOf(z, d)
    <3>1. Zrwafg > 0 => 0 % Zrwafg = 0
      BY ZnsAssumption
    <3>2. flag = 1 /\ Zrwafg > 0 => Aligned(z, old.wp)
      BY <1>1, <2>5, <3>1 DEF ShapeOf, Aligned
    <3>3. old.wp < zone_end(z)
      BY <2>4, ZoneFacts
    <3> QED BY <1>1, <2>3, <2>4, <3>2, <3>3 DEF ShapeOf
  <2>7. /\ Holds(old) \subseteq Holds(d)
        /\ Holds(d) \ Holds(old) = to_acquire(z) \cup (IF new THEN {"ZRWA"} ELSE {})
    <3>1. old.state = "EMPTY" => old.zrwav = 0
      BY <1>1 DEF ShapeOf
    <3>2. Holds(d) = {"OPEN", "ACTIVE"} \cup (IF flag = 1 THEN {"ZRWA"} ELSE {})
      BY <2>3 DEF Holds, ResTypes, HasZrwa, Active, Opened
    <3>3. Holds(old) = (IF old.state = "EMPTY" THEN {} ELSE
                          {"ACTIVE"} \cup (IF old.state \in Opened THEN {"OPEN"} ELSE {})
                                    \cup (IF old.zrwav = 1 THEN {"ZRWA"} ELSE {}))
      BY <2>4 DEF Holds, ResTypes, HasZrwa, Active, Opened
    <3> HIDE DEF d
    <3>4. CASE old.state = "EMPTY"
      <4>1. Holds(old) = {} /\ to_acquire(z) = {"ACTIVE", "OPEN"} /\ (flag = 1 <=> new)
        BY <3>1, <3>3, <3>4 DEF to_acquire
      <4> QED BY <3>2, <4>1
    <3>5. CASE old.state = "CLOSED"
      <4>1. to_acquire(z) = {"OPEN"} /\ ~ new /\ flag = old.zrwav
        BY <3>5 DEF to_acquire
      <4>2. Holds(old) = {"ACTIVE"} \cup (IF flag = 1 THEN {"ZRWA"} ELSE {})
        BY <3>3, <3>5, <4>1 DEF Opened
      <4> QED BY <3>2, <4>1, <4>2
    <3>6. CASE old.state \in Opened
      <4>1. to_acquire(z) = {} /\ ~ new /\ flag = old.zrwav
        BY <3>6 DEF to_acquire, Opened
      <4>2. Holds(old) = {"OPEN", "ACTIVE"} \cup (IF flag = 1 THEN {"ZRWA"} ELSE {})
        BY <3>3, <3>6, <4>1 DEF Opened
      <4> QED BY <3>2, <4>1, <4>2
    <3> QED BY <2>4, <3>4, <3>5, <3>6 DEF Opened
  <2>8. "ZRWA" \in Holds(d) \ Holds(old) => acquired["ZRWA"] # NrZones
    BY <2>4, <2>5, <2>7 DEF to_acquire
  <2>9. ~ (d.wp < old.wp \/ (old.state = "FULL" /\ d.state # "FULL"))
    BY <1>1, <2>3, <2>4
  <2>10. acquired' = acquire(acquired, Holds(d) \ Holds(old))
    BY <2>1, <2>7
  <2>11. Replaces(z, d)
    <3> HIDE DEF d
    <3> QED BY <2>2, <2>6, <2>7, <2>8, <2>9, <2>10, Recounted
  <2> QED BY <2>11
<1> QED BY <1>2 DEF open_zone

\* A reset leaves an empty zone that holds nothing.
LEMMA Reset ==
    ASSUME IInv, NEW z \in Zones, UNCHANGED failed, reset_zone(z)
    PROVE  UNCHANGED <<zone_descs, acquired>> \/ \E d : Replaces(z, d)
<1>1. /\ zone_descs \in [Zones -> Desc] /\ zone_descs[z].state \in States
      /\ zone_end(z) \in Nat /\ zone_to_slba(z) \in Nat /\ zone_to_slba(z) < zone_end(z)
      /\ zone_end(z) <= NrZones * ZoneLbas /\ NrZones * ZoneLbas \in Nat
  BY ZoneFacts, ZoneOfLba, ZnsAssumption
<1>2. CASE zone_descs[z].state \in Active \cup {"EMPTY", "FULL"}
  <2>1. /\ zone_descs' = [zone_descs EXCEPT ![z] = fresh(z)]
        /\ acquired' = release(acquired, held_resources(z) \cup held_zrwa(z))
    BY <1>2 DEF reset_zone, fresh
  <2>2. ShapeOf(z, fresh(z))
    BY <1>1 DEF ShapeOf, fresh, Desc, States
  <2>3. Holds(fresh(z)) = {}
    BY DEF Holds, fresh, HasZrwa, Active, Opened
  <2>4. Holds(zone_descs[z]) = held_resources(z) \cup held_zrwa(z)
    BY <1>2 DEF Holds, ResTypes, HasZrwa, Active, Opened, held_resources, held_zrwa
  <2>5. Replaces(z, fresh(z))
    BY <2>1, <2>2, <2>3, <2>4, Recounted
  <2> QED BY <2>5
<1> QED BY <1>2 DEF reset_zone

\* An explicit flush moves the write pointer inside the random write area.
LEMMA Flush ==
    ASSUME IInv, GranuleFits, NEW z \in Zones, NEW slba \in Nat, flush_explicit_zrwa(z, slba)
    PROVE  /\ failed \subseteq failed'
           /\ UNCHANGED <<zone_descs, acquired>> \/ \E d : Replaces(z, d)
<1> DEFINE old == zone_descs[z]
           st == IF slba + 1 = zone_end(z) THEN "FULL" ELSE old.state
           d == [[old EXCEPT !.wp = slba + 1] EXCEPT !.state = st]
<1>1. /\ zone_descs \in [Zones -> Desc] /\ old \in Desc /\ ShapeOf(z, old) /\ old.wp \in Nat
      /\ old.state \in States /\ old.zrwav \in {0, 1}
      /\ acquired \in [ResTypes -> 0 .. NrZones] /\ zone_end(z) \in Nat /\ zone_to_slba(z) \in Nat
      /\ zone_end(z) <= NrZones * ZoneLbas /\ NrZones * ZoneLbas \in Nat
  BY ZoneFacts, ZoneOfLba, ZnsAssumption
<1>2. CASE old.zrwav = 1 /\ in_zrwa(z, slba) /\ Zrwafg # 0 /\ flush_allowed(z, slba)
  <2>1. /\ zone_descs' = [zone_descs EXCEPT ![z].wp = slba + 1, ![z].state = st]
        /\ acquired' = IF slba + 1 = zone_end(z) THEN release(acquired, held_resources(z) \cup {"ZRWA"}) ELSE acquired
        /\ UNCHANGED failed
    BY <1>2 DEF flush_explicit_zrwa, flushed
  <2>2. /\ old.zrwav = 1 /\ slba >= old.wp /\ slba < zone_end(z)
        /\ (slba - old.wp + 1) % Zrwafg = 0
        /\ old.state \in {"CLOSED", "OPENED_IMPL", "OPENED_EXPL"}
    BY <1>2 DEF flush_allowed, in_zrwa, Active, Opened
  <2>3. zone_descs' = [zone_descs EXCEPT ![z] = d]
    BY <1>1, <2>1
  <2>4. d \in Desc /\ d.state = st /\ d.wp = slba + 1 /\ d.zrwav = 1
    <3>1. st \in States /\ slba + 1 \in 0 .. NrZones * ZoneLbas
      BY <1>1, <2>2 DEF States
    <3> HIDE DEF st
    <3> QED BY <1>1, <2>2, <3>1 DEF Desc
  <2>5. ShapeOf(z, d)
    <3>1. ASSUME Zrwafg > 0 PROVE Aligned(z, slba + 1)
      <4>1. Zrwafg \in Nat \ {0}
        BY <3>1, ZnsAssumption
      <4>2. old.wp # zone_end(z)
        BY <1>1, <2>2 DEF ShapeOf
      <4>3. old.wp - zone_to_slba(z) \in Nat /\ slba - old.wp + 1 \in Nat
        BY <1>1, <2>2 DEF ShapeOf
      <4>4. (old.wp - zone_to_slba(z)) % Zrwafg = 0
        BY <1>1, <2>2, <3>1, <4>2 DEF ShapeOf, Aligned
      <4>5. ((old.wp - zone_to_slba(z)) + (slba - old.wp + 1)) % Zrwafg = 0
        BY <2>2, <4>1, <4>3, <4>4, Multiples
      <4>6. (old.wp - zone_to_slba(z)) + (slba - old.wp + 1) = (slba + 1) - zone_to_slba(z)
        BY <1>1, <2>2
      <4> QED BY <4>5, <4>6 DEF Aligned
    <3>2. zone_to_slba(z) <= slba + 1 /\ slba + 1 <= zone_end(z)
      BY <1>1, <2>2 DEF ShapeOf
    <3> QED BY <2>2, <2>4, <3>1, <3>2 DEF ShapeOf
  <2>6. Holds(old) = held_resources(z) \cup {"ZRWA"}
    BY <2>2 DEF Holds, ResTypes, HasZrwa, Active, Opened, held_resources
  <2>7. Holds(d) = IF slba + 1 = zone_end(z) THEN {} ELSE Holds(old)
    BY <2>2, <2>4 DEF Holds, ResTypes, HasZrwa, Active, Opened
  <2>8. acquired = release(acquired, {})
    BY <1>1 DEF release
  <2>9. /\ Holds(d) \subseteq Holds(old)
        /\ acquired' = release(acquired, Holds(old) \ Holds(d))
    BY <2>1, <2>6, <2>7, <2>8
  <2>10. ~ (d.wp < old.wp \/ (old.state = "FULL" /\ d.state # "FULL"))
    BY <1>1, <2>2, <2>4
  <2>11. Replaces(z, d)
    <3> HIDE DEF d
    <3> QED BY <2>1, <2>3, <2>5, <2>9, <2>10, Recounted
  <2> QED BY <2>1, <2>11
<1> QED BY <1>2 DEF flush_explicit_zrwa

\* A zone management command changes one zone at most.
LEMMA ManagementSend ==
    ASSUME IInv, GranuleFits, NEW action \in Sends,
           NEW slba \in 0 .. NrZones * ZoneLbas - 1, zmgmt_send(action, slba)
    PROVE  /\ failed \subseteq failed'
           /\ UNCHANGED <<zone_descs, acquired>> \/ \E z \in Zones : \E d : Replaces(z, d)
<1> DEFINE z == lba_to_zone(slba)
<1>1. z \in Zones /\ slba \in Nat
  BY ZoneOfLba
<1>2. CASE flush_explicit_zrwa(z, slba)
  BY <1>1, <1>2, Flush
<1>3. CASE UNCHANGED failed
  BY <1>1, <1>2, <1>3, CloseFinish, Open, Reset DEF zmgmt_send
<1>4. UNCHANGED failed \/ flush_explicit_zrwa(z, slba)
  BY DEF zmgmt_send, close_zone, finish_zone, open_zone, reset_zone, offline_zone
<1> QED BY <1>2, <1>3, <1>4

(***************************************************************************)
(* The steps.                                                              *)
(***************************************************************************)
Cmds == [op : {"write", "append"}, slba : 0 .. NrZones * ZoneLbas, nr : 1 .. MaxNr]

\* buffers, queues and the loop of select_all: the rest of TypeOK
Rest ==
    /\ remaining \in [Buffers -> Nat]
    /\ pending \in [Buffers -> [Kinds -> Nat]]
    /\ lost \in [Buffers -> Nat] /\ gained \in [Buffers -> Nat]
    /\ DOMAIN head = SQs
    /\ \A sq \in SQs : head[sq] = NoCmd \/ head[sq] \in Cmds
    /\ selected = Idle \/ selected \in [zid : Zones, action : Sends]

\* what a step does to the zones and their counters
ZonesKept ==
    /\ zone_descs' \in [Zones -> Desc]
    /\ acquired' \in [ResTypes -> 0 .. NrZones]
    /\ \A y \in Zones : ShapeOf(y, zone_descs'[y])
    /\ OpenActiveExact'
    /\ ZoneStepAllowed

\* The two halves of the invariant.
LEMMA Halves ==
    /\ IInv => Rest
    /\ ZonesKept /\ Rest' => IInv'
BY DEF IInv, TypeOK, Rest, ZonesKept, Cmds, Desc, ShapeOf, Aligned

\* A step that leaves the zones alone, or that replaces one descriptor.
LEMMA ZonesStay ==
    ASSUME IInv, UNCHANGED <<zone_descs, acquired>>, failed \subseteq failed'
    PROVE  ZonesKept
<1>1. /\ zone_descs \in [Zones -> Desc] /\ acquired \in [ResTypes -> 0 .. NrZones]
      /\ \A y \in Zones : ShapeOf(y, zone_descs[y])
      /\ OpenActiveExact /\ NrZones \in Nat
  BY ZnsAssumption DEF IInv, TypeOK, Desc
<1>2. ZoneStepAllowed
  <2>1. \A y \in Zones : zone_descs[y].wp \in Nat
    BY <1>1 DEF Desc
  <2> QED BY <2>1 DEF ZoneStepAllowed
<1>3. OpenActiveExact'
  <2>1. /\ \A S : ZonesIn(S)' = ZonesIn(S)
        /\ ZrwaZones' = ZrwaZones
    BY DEF ZonesIn, ZrwaZones
  <2>2. Running' => Running
    BY DEF Running
  <2>3. Cardinality(ZrwaZones) \in Nat /\ acquired["ZRWA"] \in Nat
    <3>1. IsFiniteSet(Zones)
      BY FS_Interval, ZnsAssumption DEF Zones
    <3>2. ZrwaZones \subseteq Zones
      BY DEF ZrwaZones, ZonesIn
    <3> QED BY <1>1, <3>1, <3>2, FS_Subset, FS_CardinalityType DEF ResTypes
  <2>4. ZrwaExact'
    <3>1. IF "zrwa_zone_full" \in failed THEN acquired["ZRWA"] >= Cardinality(ZrwaZones)
          ELSE acquired["ZRWA"] = Cardinality(ZrwaZones)
      BY <1>1 DEF OpenActiveExact, ZrwaExact, ZrwaZones
    <3>2. IF "zrwa_zone_full" \in failed' THEN acquired'["ZRWA"] >= Cardinality(ZrwaZones')
          ELSE acquired'["ZRWA"] = Cardinality(ZrwaZones')
      BY <2>1, <2>3, <3>1
    <3> QED BY <3>2 DEF ZrwaExact, ZrwaZones
  <2> QED BY <1>1, <2>1, <2>2, <2>4 DEF OpenActiveExact
<1> QED BY <1>1, <1>2, <1>3 DEF ZonesKept, ShapeOf, Aligned

\* A handler that replaced one descriptor and recounted keeps both halves.
LEMMA ZoneChanges ==
    ASSUME IInv, Running, NEW z \in Zones, \E d : Replaces(z, d)
    PROVE  ZonesKept
<1>1. PICK d : Replaces(z, d)
  OBVIOUS
<1> QED BY <1>1, ReplaceKeeps DEF ZonesKept

\* The buffers of a zone exist, and releases are counted in whole flash pages.
LEMMA BufferFacts ==
    /\ \A z \in Zones : zone_write_buffer(z) \in Buffers /\ zrwa_buffer(z) \in Buffers
    /\ \A b \in Buffers : buffer_size(b) \in Nat
    /\ \A k \in Kinds : released_size(k) \in Nat
    /\ \A p \in Nat, n \in Nat : oneshots(p, n) \in Nat
    /\ \A n : early(n) \in Nat
    /\ \A z \in Zones, x \in Nat : zone_to_slba(z) <= x => (x - zone_to_slba(z)) \div SecsPerPg \in Nat
<1>1. \A z \in Zones : zone_write_buffer(z) \in Buffers /\ zrwa_buffer(z) \in Buffers
  BY DEF Buffers
<1>2. \A b \in Buffers : buffer_size(b) \in Nat
  <2>1. SUFFICES ASSUME NEW b \in Buffers PROVE buffer_size(b) \in Nat
    OBVIOUS
  <2>2. b[1] \in {"zone", "ssd", "zrwa"}
    BY DEF Buffers, zone_write_buffer, zrwa_buffer
  <2>3. CASE b[1] = "zone"
    BY <2>3, ZnsAssumption DEF buffer_size
  <2>4. CASE b[1] = "ssd"
    BY <2>4, ZnsAssumption DEF buffer_size
  <2>5. CASE b[1] = "zrwa"
    BY <2>5, ZnsAssumption DEF buffer_size
  <2> QED BY <2>2, <2>3, <2>4, <2>5
<1>3. wordline \in Nat \ {0}
  BY ZnsAssumption DEF wordline
<1>4. \A k \in Kinds : released_size(k) \in Nat
  BY <1>3, ZnsAssumption DEF released_size
<1>5. ASSUME NEW p \in Nat, NEW n \in Nat PROVE oneshots(p, n) \in Nat
  BY ZnsAssumption DEF oneshots
<1>6. ASSUME NEW z \in Zones, NEW x \in Nat, zone_to_slba(z) <= x
      PROVE  (x - zone_to_slba(z)) \div SecsPerPg \in Nat
  BY <1>6, ZoneOfLba, ZnsAssumption
<1>7. \A n : early(n) \in Nat
  BY <1>3, ZnsAssumption DEF early
<1> QED BY <1>1, <1>2, <1>4, <1>5, <1>6, <1>7

\* The counters of scheduled releases.
LEMMA Scheduled ==
    ASSUME NEW b \in Buffers, NEW whole \in Nat, NEW tail \in Nat,
           pending \in [Buffers -> [Kinds -> Nat]], scheduled(b, whole, tail)
    PROVE  pending' \in [Buffers -> [Kinds -> Nat]]
<1>1. pending[b] \in [Kinds -> Nat] /\ pending[b].oneshot \in Nat /\ pending[b].tail \in Nat
  BY DEF Kinds
<1> DEFINE r == [oneshot |-> pending[b].oneshot + whole, tail |-> pending[b].tail + tail]
<1>2. r \in [Kinds -> Nat]
  BY <1>1 DEF Kinds
<1>3. pending' = [pending EXCEPT ![b] = r]
  BY DEF scheduled
<1> HIDE DEF r
<1> QED BY <1>2, <1>3

\* zns_write(), with its early returns.
LEMMA StepPlain ==
    ASSUME IInv, Running, NEW sq \in SQs, NEW cmd \in Cmds, NEW z \in Zones,
           zone_descs[z].zrwav = 0, zns_write_plain(sq, cmd, z), UNCHANGED selected
    PROVE  ZonesKept /\ Rest'
<1> DEFINE slba == IF cmd.op = "append" THEN zone_descs[z].wp ELSE cmd.slba
           b == zone_write_buffer(z)
<1>1. /\ slba \in 0 .. NrZones * ZoneLbas /\ cmd.nr \in Nat \ {0} /\ cmd.nr \in 1 .. MaxNr
      /\ cmd.op \in {"write", "append"} /\ slba \in Nat
  BY ZoneFacts, ZnsAssumption DEF Cmds, Desc
<1>2. b \in Buffers /\ Rest
  <2>1. b \in Buffers
    BY BufferFacts
  <2> QED BY <2>1, Halves
<1> HIDE DEF slba, b
<1>3. CASE write_buffer_short(sq, cmd, slba, b)
  <2>1. ZonesKept
    BY <1>3, ZonesStay DEF write_buffer_short
  <2>2. [cmd EXCEPT !.slba = slba] \in Cmds
    BY <1>1 DEF Cmds
  <2>3. Rest'
    BY <1>2, <1>3, <2>2 DEF write_buffer_short, Rest
  <2> QED BY <2>1, <2>3
<1>4. CASE write_refused(sq, cmd, z, slba, b)
  <2>1. ZonesKept
    BY <1>4, ZonesStay DEF write_refused
  <2>2. Rest'
    BY <1>1, <1>2, <1>4 DEF write_refused, Rest
  <2> QED BY <2>1, <2>2
<1>5. CASE write_done(sq, cmd, z, slba, b)
  <2>1. /\ remaining[b] >= cmd.nr /\ write_accepted(z, slba, cmd.nr)
        /\ increase_write_ptr(z, acquire(acquired, to_acquire(z)), cmd.nr)
        /\ remaining' = [remaining EXCEPT ![b] = @ - cmd.nr]
        /\ head' = [head EXCEPT ![sq] = NoCmd]
    BY <1>5 DEF write_done
  <2>2. ZonesKept
    BY <1>1, <2>1, PlainWrite, ZoneChanges
  <2> DEFINE p == (slba - zone_to_slba(z)) \div SecsPerPg
             e == (slba + cmd.nr - 1 - zone_to_slba(z)) \div SecsPerPg
             tail == IF e = (ZoneLbas - 1) \div SecsPerPg /\ ZoneLbas % wordline > 0 THEN 1 ELSE 0
             gain == early(slba + cmd.nr - zone_to_slba(z))
  <2>3. /\ \E w \in 0 .. oneshots(p, e - p + 1), t \in 0 .. tail :
             /\ scheduled(b, w, t)
             /\ lost' = [lost EXCEPT ![b] = @ + (oneshots(p, e - p + 1) - w) * wordline
                                             + (tail - t) * (ZoneLbas % wordline)]
        /\ gained' = [gained EXCEPT ![b] = @ + gain]
        /\ tail \in Nat
    BY <1>5 DEF write_done
  <2>4. p \in Nat /\ e \in Nat /\ e >= p
    <3>1. /\ slba - zone_to_slba(z) \in Nat /\ zone_to_slba(z) \in Nat
          /\ slba + cmd.nr - 1 - zone_to_slba(z) \in Nat
          /\ slba + cmd.nr - 1 - zone_to_slba(z) >= slba - zone_to_slba(z)
      BY <1>1, <2>1, ZoneFacts, ZoneOfLba DEF write_accepted, ShapeOf
    <3>2. \A x \in Nat, y \in Nat : y >= x => /\ x \div SecsPerPg \in Nat /\ y \div SecsPerPg \in Nat
                                             /\ y \div SecsPerPg >= x \div SecsPerPg
      BY ZnsAssumption
    <3> QED BY <3>1, <3>2
  <2>9. gain \in Nat
    BY BufferFacts
  <2> HIDE DEF p, e, tail, gain
  <2>5. oneshots(p, e - p + 1) \in Nat
    <3>1. e - p + 1 \in Nat
      BY <2>4
    <3> QED BY <2>4, <3>1, BufferFacts
  <2>6. pending' \in [Buffers -> [Kinds -> Nat]] /\ lost' \in [Buffers -> Nat]
    <3> DEFINE whole == oneshots(p, e - p + 1)
    <3>1. PICK w \in 0 .. whole, t \in 0 .. tail :
             /\ scheduled(b, w, t)
             /\ lost' = [lost EXCEPT ![b] = @ + (whole - w) * wordline
                                             + (tail - t) * (ZoneLbas % wordline)]
      BY <2>3
    <3>2. whole \in Nat
      BY <2>5
    <3> HIDE DEF whole
    <3>3. w \in Nat /\ t \in Nat /\ whole - w \in Nat /\ tail - t \in Nat
      BY <2>3, <3>2
    <3>4. pending' \in [Buffers -> [Kinds -> Nat]]
      BY <1>2, <3>1, <3>3, Scheduled DEF Rest
    <3>5. wordline \in Nat /\ ZoneLbas % wordline \in Nat
      BY ZnsAssumption DEF wordline
    <3> DEFINE l == (whole - w) * wordline
               m == (tail - t) * (ZoneLbas % wordline)
    <3>6. l \in Nat /\ m \in Nat
      BY <3>3, <3>5
    <3>7. lost' = [lost EXCEPT ![b] = @ + l + m]
      BY <3>1
    <3> HIDE DEF l, m
    <3>8. lost[b] \in Nat /\ lost \in [Buffers -> Nat]
      BY <1>2 DEF Rest
    <3>9. lost[b] + l + m \in Nat
      BY <3>6, <3>8
    <3>10. lost' \in [Buffers -> Nat]
      BY <3>7, <3>8, <3>9
    <3> QED BY <3>4, <3>10
  <2>10. gained' \in [Buffers -> Nat]
    BY <1>2, <2>3, <2>9 DEF Rest
  <2>7. remaining' \in [Buffers -> Nat]
    <3>1. remaining[b] \in Nat /\ remaining[b] - cmd.nr \in Nat
      BY <1>1, <1>2, <2>1 DEF Rest
    <3> QED BY <1>2, <2>1, <3>1 DEF Rest
  <2>8. Rest'
    BY <1>2, <2>1, <2>6, <2>7, <2>10 DEF Rest
  <2> QED BY <2>2, <2>8
<1> QED BY <1>3, <1>4, <1>5 DEF zns_write_plain, slba, b

\* zns_write_zrwa(), with its early returns and its failed assertions.
LEMMA StepZrwa ==
    ASSUME IInv, GranuleFits, Running, NEW sq \in SQs, NEW cmd \in Cmds, NEW z \in Zones,
           lba_to_zone(cmd.slba) = z, zone_descs[z].zrwav = 1,
           zrwa_refused(sq, cmd, z) \/ zrwa_divides_by_zero(cmd, z) \/ zrwa_done(sq, cmd, z),
           UNCHANGED selected
    PROVE  ZonesKept /\ Rest'
<1>1. cmd.slba \in Nat /\ cmd.nr \in Nat \ {0} /\ Rest /\ zrwa_buffer(z) \in Buffers
  <2>1. cmd.slba \in Nat /\ cmd.nr \in Nat \ {0}
    BY ZnsAssumption DEF Cmds
  <2>2. Rest
    BY Halves
  <2>3. zrwa_buffer(z) \in Buffers
    BY BufferFacts
  <2> QED BY <2>1, <2>2, <2>3
<1>2. CASE zrwa_refused(sq, cmd, z)
  <2>1. ZonesKept
    BY <1>2, ZonesStay DEF zrwa_refused
  <2> QED BY <1>1, <1>2, <2>1 DEF zrwa_refused, Rest
<1>3. CASE zrwa_divides_by_zero(cmd, z)
  <2>1. ZonesKept
    BY <1>3, ZonesStay DEF zrwa_divides_by_zero
  <2> QED BY <1>1, <1>3, <2>1 DEF zrwa_divides_by_zero, Rest
<1>4. CASE zrwa_done(sq, cmd, z)
  <2> DEFINE old == zone_descs[z]
             b == zrwa_buffer(z)
             reopen == old.state \notin Opened
             space == remaining[b] - (IF reopen THEN Zrwa ELSE 0)
             a == IF reopen THEN acquire(acquired, {"OPEN"}) ELSE acquired
             flush == implicit_flush(z, cmd.slba + cmd.nr - 1)
             p == (old.wp - zone_to_slba(z)) \div SecsPerPg
  <2>1. zrwa_accepted(z, cmd.slba, cmd.nr) /\ Zrwafg > 0 /\ UNCHANGED <<lost, gained>>
    BY <1>4 DEF zrwa_done
  <2>2. /\ flush \in Nat /\ old.state \in Active /\ (reopen => old.state = "CLOSED")
        /\ old.wp + flush <= zone_end(z) /\ Aligned(z, old.wp + flush)
    BY <1>1, <2>1, ZrwaWrite
  <2>3. remaining[b] \in Nat /\ space \in Int
    BY <1>1, ZnsAssumption DEF Rest
  <2>4. /\ zone_descs \in [Zones -> Desc] /\ old \in Desc /\ ShapeOf(z, old) /\ old.wp \in Nat
        /\ acquired \in [ResTypes -> 0 .. NrZones] /\ NrZones \in Nat
    BY ZoneFacts
  <2>5. a = acquire(acquired, to_acquire(z))
    <3>1. acquired = acquire(acquired, {})
      BY <2>4 DEF acquire
    <3>2. reopen => to_acquire(z) = {"OPEN"}
      BY <2>2 DEF to_acquire
    <3>3. ~ reopen => to_acquire(z) = {}
      BY DEF to_acquire, Opened
    <3> QED BY <3>1, <3>2, <3>3
  <2>6. CASE /\ reopen /\ failed' = failed \cup {"zrwa_buffer_short"}
             /\ acquired' = a
             /\ UNCHANGED <<zone_descs, remaining, pending, head>>
    <3>1. acquired' \in [ResTypes -> 0 .. NrZones] /\ acquired'["ZRWA"] = acquired["ZRWA"]
      <4>1. acquired["OPEN"] # NrZones
        BY <2>1, <2>6 DEF zrwa_accepted, is_zone_resource_full, total_cnt, ResTypes
      <4> QED BY <2>4, <2>6, <4>1 DEF acquire, ResTypes
    <3>2. ~ Running'
      BY <2>6 DEF Running, Fatal
    <3>3. ZrwaExact'
      <4>1. ZrwaZones' = ZrwaZones /\ ("zrwa_zone_full" \in failed' <=> "zrwa_zone_full" \in failed)
        BY <2>6 DEF ZrwaZones, ZonesIn
      <4>2. ZrwaExact
        BY DEF IInv, OpenActiveExact
      <4> QED BY <3>1, <4>1, <4>2 DEF ZrwaExact, ZrwaZones
    <3>4. ZoneStepAllowed /\ \A y \in Zones : ShapeOf(y, zone_descs'[y])
      <4>1. \A y \in Zones : zone_descs[y].wp \in Nat
        BY <2>4 DEF Desc
      <4> QED BY <2>6, <4>1 DEF ZoneStepAllowed, IInv
    <3>5. ZonesKept
      BY <2>4, <2>6, <3>1, <3>2, <3>3, <3>4 DEF ZonesKept, OpenActiveExact
    <3> QED BY <1>1, <2>1, <2>6, <3>5 DEF Rest
  <2>7. CASE /\ space >= 0
             /\ remaining' = [remaining EXCEPT ![b] = space]
             /\ acquired' = a
             /\ zone_descs' = [zone_descs EXCEPT ![z].state = IF reopen THEN "OPENED_IMPL" ELSE @]
             /\ head' = [head EXCEPT ![sq] = cmd]
             /\ UNCHANGED <<pending, failed>>
    <3>1. Rest'
      BY <1>1, <2>1, <2>3, <2>7 DEF Rest
    <3>2. CASE ~ reopen
      <4>1. zone_descs' = zone_descs /\ acquired' = acquired
        BY <2>4, <2>7, <3>2 DEF Desc
      <4> QED BY <2>7, <3>1, <4>1, ZonesStay
    <3>3. CASE reopen
      <4> DEFINE d == [old EXCEPT !.state = "OPENED_IMPL"]
      <4>1. zone_descs' = [zone_descs EXCEPT ![z] = d]
        BY <2>4, <2>7, <3>3
      <4>2. d \in Desc /\ d.state = "OPENED_IMPL" /\ d.wp = old.wp /\ d.zrwav = 1
        BY <2>4 DEF Desc, States
      <4> HIDE DEF d
      <4>3. ShapeOf(z, d)
        <5>1. old.wp # zone_end(z)
          BY <2>2, <2>4, <3>3 DEF ShapeOf
        <5> QED BY <2>4, <4>2, <5>1 DEF ShapeOf
      <4>4. Holds(d) = {"OPEN", "ACTIVE", "ZRWA"} /\ Holds(old) = {"ACTIVE", "ZRWA"}
        BY <2>2, <3>3, <4>2 DEF Holds, ResTypes, HasZrwa, Active, Opened
      <4>5. /\ Holds(old) \subseteq Holds(d) /\ Holds(d) \ Holds(old) = {"OPEN"}
            /\ acquired' = acquire(acquired, Holds(d) \ Holds(old))
        BY <2>7, <3>3, <4>4
      <4>6. ~ (d.wp < old.wp \/ (old.state = "FULL" /\ d.state # "FULL"))
        BY <2>2, <2>4, <3>3, <4>2
      <4>7. Replaces(z, d)
        BY <2>7, <4>1, <4>3, <4>5, <4>6, Recounted
      <4> QED BY <3>1, <4>7, ZoneChanges
    <3> QED BY <3>2, <3>3
  <2>8. CASE /\ space >= flush
             /\ remaining' = [remaining EXCEPT ![b] = space - flush]
             /\ increase_write_ptr(z, a, flush)
             /\ \E w \in 0 .. oneshots(p, flush \div SecsPerPg) : scheduled(b, w, 0)
             /\ head' = [head EXCEPT ![sq] = NoCmd]
    <3> HIDE DEF space, flush, a
    <3>1. \E d : Replaces(z, d)
      BY <2>1, <2>2, <2>5, <2>8, WritePointer
    <3>2. ZonesKept
      BY <3>1, ZoneChanges
    <3>3. oneshots(p, flush \div SecsPerPg) \in Nat
      <4>1. p \in Nat
        BY <2>4, BufferFacts DEF ShapeOf
      <4>2. flush \div SecsPerPg \in Nat
        BY <2>2, ZnsAssumption
      <4> HIDE DEF p
      <4> QED BY <4>1, <4>2, BufferFacts
    <3>4. pending' \in [Buffers -> [Kinds -> Nat]]
      BY <1>1, <2>8, <3>3, Scheduled DEF Rest
    <3>5. remaining' \in [Buffers -> Nat]
      <4>1. space - flush \in Nat
        BY <2>2, <2>3, <2>8
      <4> QED BY <1>1, <2>8, <4>1 DEF Rest
    <3>6. Rest'
      BY <1>1, <2>1, <2>8, <3>4, <3>5 DEF Rest
    <3> QED BY <3>2, <3>6
  <2> QED BY <1>4, <2>6, <2>7, <2>8 DEF zrwa_done
<1> QED BY <1>2, <1>3, <1>4

\* A write command, new or waiting at the head of its queue.
LEMMA StepWrite ==
    ASSUME IInv, GranuleFits, NEW sq \in SQs, zns_write(sq)
    PROVE  ZonesKept /\ Rest'
<1>1. Running /\ UNCHANGED selected /\ Rest
  BY Halves DEF zns_write, Dispatching
<1>2. PICK cmd \in IF head[sq] = NoCmd THEN Writes ELSE {head[sq]} :
        LET z == lba_to_zone(cmd.slba)
        IN  \/ /\ z \notin Zones
               /\ failed' = failed \cup {"zone_out_of_range"}
               /\ UNCHANGED <<zone_descs, acquired, remaining, pending, head, lost, gained>>
            \/ /\ z \in Zones /\ zone_descs[z].zrwav = 0
               /\ zns_write_plain(sq, cmd, z)
            \/ /\ z \in Zones /\ zone_descs[z].zrwav = 1
               /\ \/ zrwa_refused(sq, cmd, z)
                  \/ zrwa_divides_by_zero(cmd, z)
                  \/ zrwa_done(sq, cmd, z)
  BY DEF zns_write
<1>3. cmd \in Cmds
  <2>1. CASE head[sq] = NoCmd
    <3>1. NrZones * ZoneLbas \in Nat
      BY ZnsAssumption
    <3> QED BY <1>2, <2>1, <3>1 DEF Writes, Cmds
  <2>2. CASE head[sq] # NoCmd
    BY <1>1, <1>2, <2>2 DEF Rest
  <2> QED BY <2>1, <2>2
<1> DEFINE z == lba_to_zone(cmd.slba)
<1>4. CASE /\ failed' = failed \cup {"zone_out_of_range"}
           /\ UNCHANGED <<zone_descs, acquired, remaining, pending, head, lost, gained>>
  <2>1. ZonesKept
    BY <1>4, ZonesStay
  <2> QED BY <1>1, <1>4, <2>1 DEF Rest
<1>5. CASE z \in Zones /\ zone_descs[z].zrwav = 0 /\ zns_write_plain(sq, cmd, z)
  BY <1>1, <1>3, <1>5, StepPlain
<1>6. CASE /\ z \in Zones /\ zone_descs[z].zrwav = 1
           /\ zrwa_refused(sq, cmd, z) \/ zrwa_divides_by_zero(cmd, z) \/ zrwa_done(sq, cmd, z)
  BY <1>1, <1>3, <1>6, StepZrwa
<1> QED BY <1>2, <1>4, <1>5, <1>6

\* One zone management command: the zones, and the space of the buffers.
LEMMA StepSend ==
    ASSUME IInv, GranuleFits, Running, NEW action \in Sends,
           NEW slba \in 0 .. NrZones * ZoneLbas - 1, zmgmt_send(action, slba)
    PROVE  ZonesKept /\ remaining' \in [Buffers -> Nat] /\ lost' \in [Buffers -> Nat]
<1>1. ZonesKept
  <2>1. CASE UNCHANGED <<zone_descs, acquired>>
    BY <2>1, ZonesStay, ManagementSend
  <2>2. CASE \E z \in Zones : \E d : Replaces(z, d)
    BY <2>2, ZoneChanges
  <2> QED BY <2>1, <2>2, ManagementSend
<1> DEFINE z == lba_to_zone(slba)
<1>2. z \in Zones /\ Rest /\ zone_write_buffer(z) \in Buffers /\ zrwa_buffer(z) \in Buffers
  <2>1. z \in Zones
    BY ZoneOfLba
  <2>2. Rest
    BY Halves
  <2> QED BY <2>1, <2>2, BufferFacts
<1>3. UNCHANGED <<remaining, lost>> \/ reset_zone(z)
  BY DEF zmgmt_send, close_zone, finish_zone, open_zone, offline_zone, flush_explicit_zrwa
<1>4. ASSUME reset_zone(z) PROVE remaining' \in [Buffers -> Nat] /\ lost' \in [Buffers -> Nat]
  <2>1. unprogrammed(z) \in Nat
    <3>1. wordline \in Nat \ {0}
      BY ZnsAssumption DEF wordline
    <3>2. zone_descs[z].wp - zone_to_slba(z) \in Nat
      BY <1>2, ZoneFacts, ZoneOfLba DEF ShapeOf
    <3> QED BY <3>1, <3>2 DEF unprogrammed
  <2>2. CASE zone_descs[z].state \in Active \cup {"EMPTY", "FULL"}
    <3>1. /\ remaining' = IF ZrwaBuf > 0 THEN [remaining EXCEPT ![zrwa_buffer(z)] = ZrwaBuf] ELSE remaining
          /\ lost' = [lost EXCEPT ![zone_write_buffer(z)] = @ + unprogrammed(z)]
      BY <1>4, <2>2 DEF reset_zone
    <3> QED BY <1>2, <2>1, <3>1, ZnsAssumption DEF Rest
  <2>3. CASE zone_descs[z].state \notin Active \cup {"EMPTY", "FULL"}
    BY <1>2, <1>4, <2>3 DEF reset_zone, Rest
  <2> QED BY <2>2, <2>3
<1> QED BY <1>1, <1>2, <1>3, <1>4 DEF Rest

\* A command for one zone, and the steps of the loop of select_all.
LEMMA StepManagement ==
    ASSUME IInv, GranuleFits, zns_zmgmt_send \/ select_all \/ select_next
    PROVE  ZonesKept /\ Rest'
<1>1. Rest /\ \A zid \in Zones : zone_to_slba(zid) \in 0 .. NrZones * ZoneLbas - 1
  BY ZoneOfLba, Halves, ZnsAssumption
<1>2. CASE zns_zmgmt_send
  <2>1. ZonesKept /\ remaining' \in [Buffers -> Nat] /\ lost' \in [Buffers -> Nat]
    BY <1>2, StepSend DEF zns_zmgmt_send, Dispatching
  <2> QED BY <1>1, <1>2, <2>1 DEF zns_zmgmt_send, Rest
<1>3. ASSUME Running, NEW zid \in Zones, NEW action \in Sends, select_from(zid, action)
      PROVE  ZonesKept /\ Rest'
  <2>1. ZonesKept /\ remaining' \in [Buffers -> Nat] /\ lost' \in [Buffers -> Nat]
    BY <1>1, <1>3, StepSend DEF select_from
  <2>2. selected' = Idle \/ selected' \in [zid : Zones, action : Sends]
    BY <1>3, ZnsAssumption DEF select_from, Zones
  <2> QED BY <1>1, <1>3, <2>1, <2>2 DEF select_from, Rest, Idle
<1>4. CASE select_all
  BY <1>3, <1>4, ZnsAssumption DEF select_all, Dispatching, Zones
<1>5. CASE select_next
  BY <1>1, <1>3, <1>5 DEF select_next, Rest
<1> QED BY <1>2, <1>4, <1>5

\* An I/O worker gives buffer space back.
LEMMA StepRelease ==
    ASSUME IInv, NEW b \in Buffers, NEW k \in Kinds, buffer_release(b, k)
    PROVE  ZonesKept /\ Rest'
<1>1. ZonesKept
  BY ZonesStay DEF buffer_release
<1>2. Rest /\ released_size(k) \in Nat /\ pending[b] \in [Kinds -> Nat] /\ pending[b][k] \in Nat
  BY Halves, BufferFacts DEF Rest
<1>3. pending' \in [Buffers -> [Kinds -> Nat]]
  <2>1. pending' = [pending EXCEPT ![b] = [pending[b] EXCEPT ![k] = pending[b][k] - 1]]
    BY <1>2 DEF buffer_release, Rest
  <2>2. pending[b][k] - 1 \in Nat
    BY <1>2 DEF buffer_release
  <2>3. [pending[b] EXCEPT ![k] = pending[b][k] - 1] \in [Kinds -> Nat]
    BY <1>2, <2>2
  <2> QED BY <1>2, <2>1, <2>3 DEF Rest
<1>4. remaining' \in [Buffers -> Nat]
  BY <1>2 DEF buffer_release, Rest
<1> QED BY <1>1, <1>2, <1>3, <1>4 DEF buffer_release, Rest

(***************************************************************************)
(* The theorems.                                                           *)
(***************************************************************************)
\* Every step keeps the invariant, and changes the zones as it may.
LEMMA Step ==
    ASSUME IInv, GranuleFits, [Next]_vars
    PROVE  IInv' /\ ZoneStepAllowed
<1>1. CASE \E sq \in SQs : zns_write(sq)
  BY <1>1, StepWrite, Halves DEF ZonesKept
<1>2. CASE zns_zmgmt_send \/ select_all \/ select_next
  BY <1>2, StepManagement, Halves DEF ZonesKept
<1>3. CASE \E b \in Buffers, k \in Kinds : buffer_release(b, k)
  BY <1>3, StepRelease, Halves DEF ZonesKept
<1>4. CASE UNCHANGED vars
  <2>1. ZonesKept
    BY <1>4, ZonesStay DEF vars
  <2>2. Rest'
    BY <1>4, Halves DEF vars, Rest
  <2> QED BY <2>1, <2>2, Halves DEF ZonesKept
<1> QED BY <1>1, <1>2, <1>3, <1>4 DEF Next

\* zns_init_ftl(): all zones are empty and no counter is taken.
LEMMA Initially ==
    ASSUME Init PROVE IInv
<1>1. \A z \in Zones : ShapeOf(z, fresh(z))
  <2>1. SUFFICES ASSUME NEW z \in Zones PROVE ShapeOf(z, fresh(z))
    OBVIOUS
  <2>2. /\ zone_end(z) \in Nat /\ zone_to_slba(z) \in Nat /\ zone_to_slba(z) < zone_end(z)
        /\ zone_end(z) <= NrZones * ZoneLbas /\ NrZones * ZoneLbas \in Nat
    BY ZoneOfLba, ZnsAssumption
  <2> QED BY <2>2 DEF ShapeOf, fresh, Desc, States
<1>2. zone_descs = [z \in Zones |-> fresh(z)]
  BY DEF Init, fresh
<1>3. zone_descs \in [Zones -> Desc] /\ \A z \in Zones : ShapeOf(z, zone_descs[z])
  BY <1>1, <1>2 DEF ShapeOf
<1>4. Rest
  <2>1. [oneshot |-> 0, tail |-> 0] \in [Kinds -> Nat]
    BY DEF Kinds
  <2> QED BY <2>1, BufferFacts DEF Init, Rest
<1>5. OpenActiveExact
  <2>1. ZonesIn(Opened) = {} /\ ZonesIn(Active) = {} /\ ZrwaZones = {}
    BY <1>2 DEF ZonesIn, ZrwaZones, fresh, Opened, Active
  <2>2. Cardinality({}) = 0
    BY FS_EmptySet
  <2>3. acquired["OPEN"] = 0 /\ acquired["ACTIVE"] = 0 /\ acquired["ZRWA"] = 0
    BY DEF Init, ResTypes
  <2>4. ZrwaExact
    BY <2>1, <2>2, <2>3 DEF ZrwaExact, ZrwaZones
  <2> QED BY <2>1, <2>2, <2>3, <2>4 DEF OpenActiveExact
<1>6. acquired \in [ResTypes -> 0 .. NrZones]
  BY ZnsAssumption DEF Init
<1> QED BY <1>3, <1>4, <1>5, <1>6 DEF IInv, TypeOK, Rest, Cmds, Desc

\* After every write, management command and release the zones have their shape
\* and the counters of open and active zones are exact.
THEOREM Invariance == ASSUME GranuleFits PROVE Spec => []IInv
<1>1. Init => IInv
  BY Initially
<1>2. IInv /\ [Next]_vars => IInv'
  BY Step
<1> QED BY <1>1, <1>2, PTL DEF Spec

\* The state of a zone and its write pointer always agree, and flushes leave
\* the write pointer of a random write area on a granule.
THEOREM ZonesKeepShape == ASSUME GranuleFits PROVE Spec => []ZoneShape
<1>1. IInv => ZoneShape
  BY DEF IInv, ZoneShape, ZrwaAligned, ShapeOf, Aligned
<1> QED BY <1>1, Invariance, PTL

\* The resource counters are exact on every path through the management
\* commands and the writes, for any number of zones.
THEOREM ResourcesCounted == ASSUME GranuleFits PROVE Spec => []OpenActiveExact
<1>1. IInv => OpenActiveExact
  BY DEF IInv
<1> QED BY <1>1, Invariance, PTL

\* Write pointers move forward and full zones stay full until they are reset.
THEOREM ZonesMoveForward == ASSUME GranuleFits PROVE Spec => ZoneLifecycle
<1>1. IInv /\ [Next]_vars => [ZoneStepAllowed]_vars
  BY Step
<1> QED BY <1>1, Invariance, PTL DEF Spec, ZoneLifecycle

(***************************************************************************)
(* Buffer space.  What was taken from a write buffer and is not on its way *)
(* back are the blocks of zones behind the last complete flash page, apart *)
(* from what was lost or was released early.                               *)
(***************************************************************************)
WriteBuffers == {zone_write_buffer(z) : z \in Zones}
OutOf(b) == remaining[b] + InFlight(b) + lost[b] - gained[b]

\* Multiples of a positive number keep the order.
LEMMA MulOrder ==
    ASSUME NEW n \in Nat \ {0}, NEW a \in Int, NEW b \in Int
    PROVE  /\ a * n \in Int
           /\ a <= b => a * n <= b * n
           /\ a < b => a * n + n <= b * n
<1>1. \A d \in Nat : d * n \in Nat
  OBVIOUS
<1>2. (b - a) * n = b * n - a * n /\ (b - a - 1) * n = b * n - a * n - n /\ a * n \in Int /\ b * n \in Int
  OBVIOUS
<1>3. a <= b => b - a \in Nat
  OBVIOUS
<1>4. a < b => b - a - 1 \in Nat
  OBVIOUS
<1> DEFINE x == a * n
           y == b * n
           p == (b - a) * n
           q == (b - a - 1) * n
<1>5. (a <= b => p \in Nat) /\ (a < b => q \in Nat) /\ p = y - x /\ q = y - x - n /\ x \in Int /\ y \in Int
  BY <1>1, <1>2, <1>3, <1>4
<1> HIDE DEF x, y, p, q
<1>6. x \in Int /\ (a <= b => x <= y) /\ (a < b => x + n <= y)
  BY <1>5
<1> QED BY <1>6 DEF x, y

\* Division with remainder.
LEMMA Division ==
    ASSUME NEW n \in Nat \ {0}, NEW a \in Nat
    PROVE  \E d \in Nat : \E m \in 0 .. n - 1 : d = a \div n /\ m = a % n /\ a = d * n + m
<1> DEFINE d == a \div n
           m == a % n
<1>1. d \in Nat /\ m \in 0 .. n - 1 /\ d = a \div n /\ m = a % n
  OBVIOUS
<1> HIDE DEF d, m
<1>2. a = d * n + m
  BY <1>1
<1> QED BY <1>1, <1>2

\* Quotient and remainder are unique.
LEMMA DivMod ==
    ASSUME NEW n \in Nat \ {0}, NEW q \in Nat, NEW r \in 0 .. n - 1
    PROVE  (q * n + r) \div n = q /\ (q * n + r) % n = r
<1> DEFINE a == q * n + r
<1>1. q * n \in Nat /\ a \in Nat
  OBVIOUS
<1> HIDE DEF a
<1>2. PICK d \in Nat : \E m \in 0 .. n - 1 : d = a \div n /\ m = a % n /\ a = d * n + m
  BY <1>1, Division
<1>3. PICK m \in 0 .. n - 1 : d = a \div n /\ m = a % n /\ a = d * n + m
  BY <1>2
<1>4. /\ q < d => q * n + n <= d * n
      /\ d < q => d * n + n <= q * n
      /\ d * n \in Int /\ q * n \in Int
  BY <1>3, MulOrder
<1> DEFINE x == q * n
           y == d * n
<1>5. /\ q < d => x + n <= y
      /\ d < q => y + n <= x
      /\ x \in Int /\ y \in Int /\ x + r = y + m
  BY <1>3, <1>4 DEF a
<1> HIDE DEF x, y
<1>6. d = q
  BY <1>3, <1>5
<1>7. m = r
  <2>1. x = y
    BY <1>6 DEF x, y
  <2> QED BY <1>3, <1>5, <2>1
<1> QED BY <1>3, <1>6, <1>7 DEF a

\* A number of blocks that fills pages: the pages, and the last of them.
LEMMA PageOf ==
    ASSUME NEW s \in Nat \ {0}, NEW y \in Nat \ {0}, y % s = 0
    PROVE  \E a \in Nat \ {0} : y = a * s /\ (y - 1) \div s = a - 1
<1>1. PICK a \in Nat : \E m \in 0 .. s - 1 : a = y \div s /\ m = y % s /\ y = a * s + m
  BY Division
<1>2. a * s \in Nat /\ y = a * s
  BY <1>1
<1>3. a # 0
  BY <1>2
<1>4. y - 1 = (a - 1) * s + (s - 1) /\ a - 1 \in Nat /\ s - 1 \in 0 .. s - 1
  BY <1>2, <1>3
<1>5. ((a - 1) * s + (s - 1)) \div s = a - 1
  BY <1>4, DivMod
<1> QED BY <1>2, <1>3, <1>4, <1>5

\* y is c times s
Times(y, c, s) == y \in Nat /\ y = c * s

\* The first y blocks of a zone, in flash pages of g pages of s blocks: the page of
\* the next block, the complete flash pages and what is left.
FlashSplit(s, g, w, y) ==
    \E c \in Nat, q \in Nat : c = y \div s /\ q = c \div g /\ y % w = y - q * w /\ q * w \in Nat
LEMMA FlashPages ==
    ASSUME NEW s \in Nat \ {0}, NEW g \in Nat \ {0}, NEW w, Times(w, s, g), NEW y \in Nat
    PROVE  FlashSplit(s, g, w, y)
<1>1. PICK c \in Nat : \E m \in 0 .. s - 1 : c = y \div s /\ m = y % s /\ y = c * s + m
  BY Division
<1>2. PICK m \in 0 .. s - 1 : c = y \div s /\ m = y % s /\ y = c * s + m
  BY <1>1
<1>3. PICK q \in Nat : \E r \in 0 .. g - 1 : q = c \div g /\ r = c % g /\ c = q * g + r
  BY Division
<1>4. PICK r \in 0 .. g - 1 : q = c \div g /\ r = c % g /\ c = q * g + r
  BY <1>3
<1>5. w \in Nat \ {0} /\ q * w \in Nat /\ w = s * g
  BY DEF Times
<1> DEFINE t == r * s + m
           k == q * w
<1>6. y = k + t
  <2>1. c * s = (q * g + r) * s
    BY <1>4
  <2>2. (q * g + r) * s = (q * g) * s + r * s
    BY <1>4
  <2>3. (q * g) * s = q * (s * g)
    BY <1>4
  <2>4. (q * g) * s = k
    BY <1>5, <2>3
  <2> DEFINE i == (q * g) * s
             j == r * s
  <2>5. i \in Nat /\ j \in Nat /\ c * s = i + j
    BY <1>4, <2>1, <2>2
  <2> HIDE DEF i, j
  <2>6. y = i + (j + m)
    BY <1>2, <2>5
  <2> QED BY <2>4, <2>6 DEF i, j
<1>7. t \in 0 .. w - 1
  <2>1. r * s + s <= g * s /\ r * s \in Nat
    BY <1>4, MulOrder
  <2>2. g * s = w
    BY <1>5
  <2> QED BY <1>2, <1>5, <2>1, <2>2
<1> HIDE DEF t
<1>8. (q * w + t) % w = t
  BY <1>5, <1>7, DivMod
<1>9. k \in Nat /\ (k + t) % w = t
  BY <1>5, <1>8
<1> HIDE DEF k
<1>10. y % w = y - k
  BY <1>6, <1>7, <1>9
<1> QED BY <1>2, <1>4, <1>5, <1>10 DEF k, FlashSplit

\* a write of n blocks behind the first x of a zone of L blocks, in pages of s
\* blocks, from page p to page e
ZoneWrite(s, x, n, p, e, L) ==
    /\ x \in Nat /\ n \in Nat \ {0} /\ L \in Nat \ {0} /\ x + n <= L
    /\ L % s = 0
    /\ p \in Nat /\ p = x \div s
    /\ e \in Nat /\ e = (x + n - 1) \div s

\* early(), and what a write releases of the rest of a zone
EarlyGain(s, g, w, y, L) ==
    IF y % s = 0 THEN 0
    ELSE IF y \div s = L \div s - 1 /\ L % w > 0 THEN L % w
    ELSE IF (y \div s) % g = g - 1 THEN w
    ELSE 0
TailOf(s, w, e, L) == IF e = (L - 1) \div s /\ L % w > 0 THEN L % w ELSE 0

\* The page behind page d begins a flash page exactly when d ends one.
LEMMA NextPage ==
    ASSUME NEW g \in Nat \ {0}, NEW d \in Nat
    PROVE  /\ d % g = g - 1 => (d + 1) \div g = d \div g + 1 /\ (d + 1) % g = 0
           /\ d % g # g - 1 => (d + 1) \div g = d \div g
<1>1. PICK q \in Nat : \E r \in 0 .. g - 1 : q = d \div g /\ r = d % g /\ d = q * g + r
  BY Division
<1>2. PICK r \in 0 .. g - 1 : q = d \div g /\ r = d % g /\ d = q * g + r
  BY <1>1
<1>3. q * g \in Nat /\ (q + 1) * g = q * g + g
  OBVIOUS
<1>4. CASE r = g - 1
  <2>1. d + 1 = (q + 1) * g + 0 /\ 0 \in 0 .. g - 1 /\ q + 1 \in Nat
    BY <1>2, <1>3, <1>4
  <2>2. ((q + 1) * g + 0) \div g = q + 1 /\ ((q + 1) * g + 0) % g = 0
    BY <2>1, DivMod
  <2> QED BY <1>2, <1>4, <2>1, <2>2
<1>5. CASE r # g - 1
  <2>1. d + 1 = q * g + (r + 1) /\ r + 1 \in 0 .. g - 1
    BY <1>2, <1>3, <1>5
  <2> DEFINE t == r + 1
  <2> HIDE DEF t
  <2>2. (q * g + t) \div g = q
    BY <2>1, DivMod DEF t
  <2> QED BY <1>2, <1>5, <2>1, <2>2 DEF t
<1> QED BY <1>4, <1>5

\* What a write schedules and what waits afterwards are its blocks, those that
\* waited before and what it releases early.
LEMMA Programmed ==
    ASSUME NEW s \in Nat \ {0}, NEW g \in Nat \ {0}, NEW w, Times(w, s, g),
           NEW x, NEW n, NEW p, NEW e, NEW L, ZoneWrite(s, x, n, p, e, L)
    PROVE  /\ e - p + 1 \in Nat
           /\ ((p + (e - p + 1)) \div g - p \div g) * w + TailOf(s, w, e, L)
                  + (IF x + n = L THEN 0 ELSE (x + n) % w)
                = n + (x % w) + EarlyGain(s, g, w, x + n, L)
<1>0. \A u \in Nat : \E c \in Nat, q \in Nat :
        c = u \div s /\ q = c \div g /\ u % w = u - q * w /\ q * w \in Nat
  <2>1. \A u \in Nat : FlashSplit(s, g, w, u)
    BY FlashPages
  <2> QED BY <2>1 DEF FlashSplit
<1> USE DEF ZoneWrite
<1> DEFINE y == x + n
<1>1. y \in Nat \ {0} /\ y = x + n /\ y <= L /\ y - 1 \in Nat /\ x <= y - 1
  OBVIOUS
<1> HIDE DEF y
<1>2. PICK a \in Nat, r \in Nat : a = x \div s /\ r = a \div g /\ x % w = x - r * w /\ r * w \in Nat
  BY <1>0
<1>3. PICK d \in Nat, k \in Nat : d = y \div s /\ k = d \div g /\ y % w = y - k * w /\ k * w \in Nat
  BY <1>0, <1>1
<1>4. PICK m \in 0 .. s - 1 : m = y % s /\ y = d * s + m
  <2>1. \E c \in Nat : \E u \in 0 .. s - 1 : c = y \div s /\ u = y % s /\ y = c * s + u
    BY <1>1, Division
  <2> QED BY <1>3, <2>1
<1>5. PICK l \in Nat \ {0} : L = l * s /\ (L - 1) \div s = l - 1
  BY PageOf
<1>6. L \div s = l /\ L % w = L - (l \div g) * w /\ w \in Nat \ {0} /\ L % w \in Nat
  <2>1. (l * s + 0) \div s = l
    <3>1. 0 \in 0 .. s - 1
      OBVIOUS
    <3> QED BY <3>1, DivMod
  <2>2. l * s + 0 = L
    BY <1>5
  <2>3. L \div s = l
    BY <2>1, <2>2
  <2>4. w \in Nat \ {0}
    BY DEF Times
  <2>5. L % w \in Nat
    BY <2>4
  <2>6. PICK c \in Nat, q \in Nat : c = L \div s /\ q = c \div g /\ L % w = L - q * w
    BY <1>0
  <2> QED BY <2>3, <2>4, <2>5, <2>6
<1>7. (m = 0 => e = d - 1) /\ (m # 0 => e = d)
  <2>1. CASE m = 0
    <3>1. PICK c \in Nat \ {0} : y = c * s /\ (y - 1) \div s = c - 1
      <4>1. y \in Nat \ {0} /\ y % s = 0
        BY <1>1, <1>4, <2>1
      <4> QED BY <4>1, PageOf
    <3>2. (c * s + 0) \div s = c
      <4>1. 0 \in 0 .. s - 1
        OBVIOUS
      <4> QED BY <4>1, DivMod
    <3>3. c * s + 0 = y
      BY <3>1
    <3> QED BY <1>1, <1>3, <2>1, <3>1, <3>2, <3>3
  <2>2. CASE m # 0
    <3> DEFINE t == m - 1
    <3>1. t \in 0 .. s - 1 /\ y - 1 = d * s + t
      BY <1>4, <2>2
    <3> HIDE DEF t
    <3>2. (d * s + t) \div s = d
      BY <3>1, DivMod
    <3> QED BY <1>1, <2>2, <3>1, <3>2
  <2> QED BY <2>1, <2>2
<1>8. a <= e /\ e \in Nat /\ a = p
  <2>1. \A u, v \in Nat : u <= v => u \div s <= v \div s
    OBVIOUS
  <2> QED BY <1>1, <1>2, <2>1
<1>9. e - p + 1 \in Nat /\ p + (e - p + 1) = e + 1
  BY <1>8
<1> DEFINE q == (e + 1) \div g
<1>10. q \in Nat /\ q = (e + 1) \div g
  BY <1>8
<1> HIDE DEF q
<1>11. /\ m = 0 => q = k
       /\ m # 0 /\ d % g = g - 1 => q = k + 1 /\ (d + 1) % g = 0
       /\ m # 0 /\ d % g # g - 1 => q = k
  <2>1. m = 0 => e + 1 = d
    BY <1>7, <1>8
  <2>2. m # 0 => e + 1 = d + 1
    BY <1>7
  <2>3. /\ d % g = g - 1 => (d + 1) \div g = d \div g + 1 /\ (d + 1) % g = 0
        /\ d % g # g - 1 => (d + 1) \div g = d \div g
    BY NextPage
  <2> QED BY <1>3, <1>10, <2>1, <2>2, <2>3
<1>12. y = L => m = 0
  BY <1>4
<1>13. y # L /\ m = 0 => d # l
  BY <1>4, <1>5
<1>14. l % g = 0 => L % w = 0
  <2>1. SUFFICES ASSUME l % g = 0 PROVE L % w = 0
    OBVIOUS
  <2>2. PICK b \in Nat : \E u \in 0 .. g - 1 : b = l \div g /\ u = l % g /\ l = b * g + u
    BY Division
  <2>3. l = b * g
    BY <2>1, <2>2
  <2>4. L = (b * g) * s /\ w = s * g
    BY <1>5, <2>3 DEF Times
  <2>5. (b * g) * s = b * (s * g)
    OBVIOUS
  <2>6. L = b * w + 0 /\ 0 \in 0 .. w - 1
    <3>1. L = b * w
      BY <2>4, <2>5
    <3>2. b * w \in Nat
      BY <1>6
    <3> QED BY <1>6, <3>1, <3>2
  <2>7. (b * w + 0) % w = 0
    BY <1>6, <2>6, DivMod
  <2> QED BY <2>6, <2>7
<1> DEFINE T == L % w
           K == k * w
           J == r * w
           D == (q - k) * w
<1>15. (q - r) * w = D + K - J /\ D \in Int /\ K \in Nat /\ J \in Nat /\ T \in Nat
  <2>1. (q - r) * w = (q - k) * w + k * w - r * w /\ (q - k) * w \in Int
    BY <1>6, <1>10
  <2> QED BY <1>2, <1>3, <1>6, <2>1
<1>16. (q = k => D = 0) /\ (q = k + 1 => D = w)
  BY <1>6, <1>10
<1>17. y % w = y - K /\ x % w = x - J
  BY <1>2, <1>3
<1> DEFINE E == EarlyGain(s, g, w, y, L)
           F == TailOf(s, w, e, L)
           N == y % w
           X == x % w
           W == (q - r) * w
           H == IF y = L THEN 0 ELSE N
<1>18. F = IF e = l - 1 /\ T > 0 THEN T ELSE 0
  BY <1>5 DEF TailOf
<1>19. E = IF m = 0 THEN 0 ELSE IF d = l - 1 /\ T > 0 THEN T
           ELSE IF d % g = g - 1 THEN w ELSE 0
  BY <1>3, <1>4, <1>6 DEF EarlyGain
<1>20. y = L => N = T
  OBVIOUS
<1>21. l % g = 0 => T = 0
  BY <1>14
<1>22. W = D + K - J /\ N = y - K /\ X = x - J
  BY <1>15, <1>17
<1> HIDE DEF T, K, J, D, E, F, N, X, W
<1>23. W + F + H = n + X + E
  <2>1. CASE y = L
    <3>1. d = l
      BY <1>3, <1>6, <2>1
    <3>2. D = 0 /\ E = 0 /\ e = l - 1
      BY <1>7, <1>11, <1>12, <1>16, <1>19, <2>1, <3>1
    <3>3. F = T
      BY <1>15, <1>18, <3>2
    <3> QED BY <1>1, <1>15, <1>20, <1>22, <2>1, <3>2, <3>3
  <2>2. CASE y # L /\ m = 0
    <3>1. D = 0 /\ E = 0 /\ e # l - 1
      BY <1>7, <1>11, <1>13, <1>16, <1>19, <2>2
    <3>2. F = 0
      BY <1>18, <3>1
    <3> QED BY <1>1, <1>15, <1>22, <2>2, <3>1, <3>2
  <2>3. CASE y # L /\ m # 0 /\ d = l - 1 /\ T > 0
    <3>1. E = T /\ F = T
      BY <1>7, <1>18, <1>19, <2>3
    <3>2. d % g # g - 1
      <4>1. d + 1 = l
        BY <2>3
      <4> QED BY <1>11, <1>21, <2>3, <4>1
    <3>3. D = 0
      BY <1>11, <1>16, <2>3, <3>2
    <3> QED BY <1>1, <1>15, <1>22, <2>3, <3>1, <3>3
  <2>4. CASE y # L /\ m # 0 /\ ~ (d = l - 1 /\ T > 0)
    <3>1. F = 0
      BY <1>7, <1>18, <2>4
    <3>2. D = E
      BY <1>11, <1>16, <1>19, <2>4
    <3> QED BY <1>1, <1>15, <1>22, <2>4, <3>1, <3>2
  <2> QED BY <2>1, <2>2, <2>3, <2>4
<1>24. ((p + (e - p + 1)) \div g - p \div g) * w = W
  BY <1>2, <1>8, <1>9, <1>10 DEF W
<1> QED BY <1>1, <1>9, <1>23, <1>24 DEF F, E, N, X, y

\* The blocks of a zone that wait in a buffer are blocks of this zone.
OpenPagesInside == \A z \in Zones :
    /\ unprogrammed(z) \in Nat
    /\ open_page(z) \in SUBSET (zone_to_slba(z) .. (zone_end(z) - 1))
    /\ IsFiniteSet(open_page(z)) /\ Cardinality(open_page(z)) = unprogrammed(z)
LEMMA OpenPage == IInv => OpenPagesInside
<1>1. SUFFICES ASSUME IInv, NEW z \in Zones
               PROVE  /\ unprogrammed(z) \in Nat
                      /\ open_page(z) \in SUBSET (zone_to_slba(z) .. (zone_end(z) - 1))
                      /\ IsFiniteSet(open_page(z)) /\ Cardinality(open_page(z)) = unprogrammed(z)
  BY DEF OpenPagesInside
<1> DEFINE wp == zone_descs[z].wp
           s == zone_to_slba(z)
           e == zone_end(z)
           u == unprogrammed(z)
<1>2. wp \in Nat /\ s \in Nat /\ e \in Nat /\ s <= wp /\ wp <= e
  BY <1>1, ZoneFacts, ZoneOfLba DEF ShapeOf
<1>3. wordline \in Nat \ {0}
  BY ZnsAssumption DEF wordline
<1>4. u \in Nat /\ u <= wp - s
  <2>1. wp - s \in Nat
    BY <1>2
  <2>2. (wp - s) % wordline \in Nat /\ (wp - s) % wordline <= wp - s
    <3> DEFINE x == wp - s
    <3>1. x \in Nat
      BY <2>1
    <3> HIDE DEF x
    <3>2. x % wordline \in Nat /\ x % wordline <= x
      BY <1>3, <3>1
    <3> QED BY <3>2 DEF x
  <2> QED BY <2>1, <2>2 DEF unprogrammed
<1> HIDE DEF wp, s, e, u
<1>5. open_page(z) = (wp - u) .. (wp - 1)
  BY DEF open_page, wp, u
<1>6. (wp - u) .. (wp - 1) \in SUBSET (s .. (e - 1))
  BY <1>2, <1>4
<1>7. IsFiniteSet((wp - u) .. (wp - 1)) /\ Cardinality((wp - u) .. (wp - 1)) = u
  <2> DEFINE a == wp - u
             c == wp - 1
  <2>1. a \in Int /\ c \in Int /\ c - a + 1 = u /\ (a > c => u = 0)
    BY <1>2, <1>4
  <2> HIDE DEF a, c
  <2>2. IsFiniteSet(a .. c) /\ Cardinality(a .. c) = IF a > c THEN 0 ELSE c - a + 1
    BY <2>1, FS_Interval
  <2>3. IsFiniteSet(a .. c) /\ Cardinality(a .. c) = u
    BY <2>1, <2>2
  <2> QED BY <2>3 DEF a, c
<1> QED BY <1>4, <1>5, <1>6, <1>7 DEF s, e, u

\* What waits in a buffer changes by what changes for the one zone that changes.
LEMMA WaitingChanges ==
    ASSUME IInv, IInv', NEW z \in Zones, \A y \in Zones \ {z} : open_page(y)' = open_page(y),
           NEW b, zone_write_buffer(z) = b
    PROVE  /\ Cardinality(waiting(b)) \in Nat
           /\ Cardinality(waiting(b)') = Cardinality(waiting(b)) - unprogrammed(z) + unprogrammed(z)'
<1> DEFINE R == UNION {open_page(y) : y \in {x \in Zones \ {z} : zone_write_buffer(x) = b}}
           P == open_page(z)
           Q == open_page(z)'
           u == unprogrammed(z)
           v == unprogrammed(z)'
<1>1. waiting(b) = R \cup P
  BY DEF waiting
<1>2. waiting(b)' = R \cup Q
  BY DEF waiting, zone_write_buffer
<1>3. \A y \in Zones : open_page(y) \in SUBSET (zone_to_slba(y) .. (zone_end(y) - 1))
  BY OpenPage DEF OpenPagesInside
<1>4. OpenPagesInside'
  BY OpenPage, PTL
<1>5. /\ u \in Nat /\ IsFiniteSet(P) /\ Cardinality(P) = u
      /\ v \in Nat /\ IsFiniteSet(Q) /\ Cardinality(Q) = v
      /\ Q \in SUBSET (zone_to_slba(z) .. (zone_end(z) - 1))
      /\ P \in SUBSET (zone_to_slba(z) .. (zone_end(z) - 1))
  BY <1>4, OpenPage DEF OpenPagesInside, zone_to_slba, zone_end
<1>6. R \cap P = {} /\ R \cap Q = {}
  <2>1. SUFFICES ASSUME NEW x \in R, x \in P \cup Q PROVE FALSE
    OBVIOUS
  <2>2. PICK y \in Zones \ {z} : x \in open_page(y)
    BY <2>1
  <2>3. /\ x \in zone_to_slba(y) .. (zone_end(y) - 1)
        /\ x \in zone_to_slba(z) .. (zone_end(z) - 1)
    BY <1>3, <1>5, <2>1, <2>2
  <2>4. x \in Nat /\ lba_to_zone(x) = y /\ lba_to_zone(x) = z
    <3>1. zone_to_slba(y) \in Nat /\ zone_end(y) \in Nat /\ zone_to_slba(z) \in Nat /\ zone_end(z) \in Nat
      BY <2>2, ZoneOfLba
    <3>2. /\ x \in Nat /\ zone_to_slba(y) <= x /\ x < zone_end(y)
          /\ zone_to_slba(z) <= x /\ x < zone_end(z)
      BY <2>3, <3>1
    <3> QED BY <2>2, <3>2, ZoneOfLba
  <2> QED BY <2>2, <2>4
<1>7. IsFiniteSet(R)
  <2> DEFINE N == NrZones * ZoneLbas - 1
  <2>1. N \in Int
    BY ZnsAssumption
  <2>2. R \subseteq 0 .. N
    <3>1. SUFFICES ASSUME NEW y \in Zones, NEW x \in open_page(y) PROVE x \in 0 .. N
      OBVIOUS
    <3>2. /\ zone_to_slba(y) \in Nat /\ zone_end(y) \in Nat /\ zone_end(y) <= NrZones * ZoneLbas
          /\ x \in zone_to_slba(y) .. (zone_end(y) - 1) /\ NrZones * ZoneLbas \in Nat
      BY <1>3, <3>1, ZoneOfLba, ZnsAssumption
    <3> QED BY <3>2
  <2> HIDE DEF N, R
  <2>3. IsFiniteSet(0 .. N)
    BY <2>1, FS_Interval
  <2> QED BY <2>2, <2>3, FS_Subset
<1> HIDE DEF R, P, Q, u, v
<1>8. Cardinality(R) \in Nat /\ Cardinality({}) = 0
  BY <1>7, FS_CardinalityType, FS_EmptySet
<1>9. Cardinality(R \cup P) = Cardinality(R) + Cardinality(P) - Cardinality(R \cap P)
  BY <1>5, <1>7, FS_Union
<1>10. Cardinality(R \cup Q) = Cardinality(R) + Cardinality(Q) - Cardinality(R \cap Q)
  BY <1>5, <1>7, FS_Union
<1>11. /\ Cardinality(waiting(b)) = Cardinality(R) + u
       /\ Cardinality(waiting(b)') = Cardinality(R) + v
  <2>1. Cardinality(R \cap P) = 0 /\ Cardinality(R \cap Q) = 0
    BY <1>6, <1>8
  <2>2. Cardinality(R \cup P) = Cardinality(R) + u /\ Cardinality(R \cup Q) = Cardinality(R) + v
    BY <1>5, <1>8, <1>9, <1>10, <2>1
  <2> QED BY <1>1, <1>2, <2>2
<1>12. /\ Cardinality(waiting(b)) \in Nat
       /\ Cardinality(waiting(b)') = Cardinality(waiting(b)) - u + v
  BY <1>5, <1>8, <1>11
<1> QED BY <1>12 DEF u, v

\* What waits in a buffer can be counted.
WaitingCounted == \A b \in WriteBuffers : Cardinality(waiting(b)) \in Nat
LEMMA WaitingType == IInv => WaitingCounted
<1>1. SUFFICES ASSUME IInv, NEW b PROVE Cardinality(waiting(b)) \in Nat
  BY DEF WaitingCounted
<1> DEFINE N == NrZones * ZoneLbas - 1
<1>2. N \in Int
  BY ZnsAssumption
<1>3. waiting(b) \subseteq 0 .. N
  <2>1. SUFFICES ASSUME NEW y \in Zones, NEW x \in open_page(y) PROVE x \in 0 .. N
    BY DEF waiting
  <2>2. open_page(y) \in SUBSET (zone_to_slba(y) .. (zone_end(y) - 1))
    BY <1>1, OpenPage DEF OpenPagesInside
  <2>3. /\ zone_to_slba(y) \in Nat /\ zone_end(y) \in Nat /\ zone_end(y) <= NrZones * ZoneLbas
        /\ NrZones * ZoneLbas \in Nat
    BY ZoneOfLba, ZnsAssumption
  <2> QED BY <2>2, <2>3
<1> HIDE DEF N
<1>4. IsFiniteSet(0 .. N)
  BY <1>2, FS_Interval
<1> QED BY <1>3, <1>4, FS_Subset, FS_CardinalityType

\* The buffers of random write areas are not write buffers.
LEMMA OtherBuffers ==
    /\ WriteBuffers \subseteq Buffers
    /\ \A z \in Zones : zrwa_buffer(z) \notin WriteBuffers
BY DEF WriteBuffers, Buffers, zrwa_buffer, zone_write_buffer

\* what a step may do to the buffers: it changes the descriptor of zone z at
\* most, and what it takes out of a buffer the blocks of z make up for
BalanceStep(z) ==
    /\ \A y \in Zones \ {z} : zone_descs'[y] = zone_descs[y]
    /\ \A b \in WriteBuffers :
          OutOf(b)' + (IF b = zone_write_buffer(z) THEN unprogrammed(z)' ELSE 0)
            = OutOf(b) + (IF b = zone_write_buffer(z) THEN unprogrammed(z) ELSE 0)

\* The space that is not with a zone is a number of blocks.
SpaceTypes == \A b \in Buffers :
    /\ remaining[b] \in Nat /\ lost[b] \in Nat /\ gained[b] \in Nat
    /\ InFlight(b) \in Nat /\ OutOf(b) \in Int
    /\ pending[b].oneshot \in Nat /\ pending[b].tail \in Nat
LEMMA Space == IInv => SpaceTypes
<1>1. SUFFICES ASSUME IInv, NEW b \in Buffers
               PROVE  /\ remaining[b] \in Nat /\ lost[b] \in Nat /\ gained[b] \in Nat
                      /\ InFlight(b) \in Nat /\ OutOf(b) \in Int
                      /\ pending[b].oneshot \in Nat /\ pending[b].tail \in Nat
  BY DEF SpaceTypes
<1>2. remaining[b] \in Nat /\ lost[b] \in Nat /\ gained[b] \in Nat /\ pending[b] \in [Kinds -> Nat]
  BY <1>1 DEF IInv, TypeOK
<1>3. pending[b].oneshot \in Nat /\ pending[b].tail \in Nat
  BY <1>2 DEF Kinds
<1>4. wordline \in Nat \ {0} /\ ZoneLbas \in Nat
  BY ZnsAssumption DEF wordline
<1>5. InFlight(b) \in Nat
  <2> DEFINE m == ZoneLbas % wordline
  <2>1. m \in Nat
    BY <1>4
  <2> HIDE DEF m
  <2>2. pending[b].oneshot * wordline + pending[b].tail * m \in Nat
    BY <1>3, <1>4, <2>1
  <2> QED BY <2>2 DEF InFlight, m
<1> QED BY <1>1, <1>2, <1>3, <1>5 DEF OutOf

\* Such a step keeps the balance.
LEMMA BalanceKept ==
    ASSUME IInv, IInv', BufferBalance, NEW z \in Zones, BalanceStep(z)
    PROVE  BufferBalance'
<1>1. \A y \in Zones \ {z} : open_page(y)' = open_page(y)
  BY DEF BalanceStep, open_page, unprogrammed
<1>2. BufferBalance'
  <2>1. SUFFICES ASSUME NEW b \in WriteBuffers
                 PROVE  OutOf(b)' + Cardinality(waiting(b)') = buffer_size(b)
    <3>1. ASSUME NEW b \in WriteBuffers, OutOf(b)' + Cardinality(waiting(b)') = buffer_size(b)
          PROVE  remaining'[b] + InFlight(b)' + lost'[b] + Cardinality(waiting(b)') = buffer_size(b) + gained'[b]
      <4>1. b \in Buffers /\ buffer_size(b) \in Nat /\ \E y \in Zones : b = zone_write_buffer(y)
        BY <3>1, OtherBuffers, BufferFacts DEF WriteBuffers
      <4>2. SpaceTypes'
        BY Space, PTL
      <4>3. /\ remaining'[b] \in Nat /\ lost'[b] \in Nat /\ gained'[b] \in Nat /\ InFlight(b)' \in Nat
            /\ OutOf(b)' = remaining'[b] + InFlight(b)' + lost'[b] - gained'[b]
        BY <4>1, <4>2 DEF SpaceTypes, OutOf, Buffers, zone_write_buffer, zrwa_buffer
      <4>4. Cardinality(waiting(b)') \in Nat
        <5>1. PICK y \in Zones : b = zone_write_buffer(y)
          BY <4>1
        <5>2. WaitingCounted'
          BY WaitingType, PTL
        <5> QED BY <3>1, <5>2 DEF WaitingCounted, WriteBuffers, zone_write_buffer
      <4> QED BY <3>1, <4>1, <4>3, <4>4
    <3> QED BY <3>1 DEF BufferBalance, WriteBuffers, zone_write_buffer, buffer_size
  <2>2. OutOf(b) + Cardinality(waiting(b)) = buffer_size(b)
    <3>1. b \in Buffers /\ buffer_size(b) \in Nat
      BY <2>1, OtherBuffers, BufferFacts
    <3>2. Cardinality(waiting(b)) \in Nat
      BY <2>1, WaitingType DEF WaitingCounted
    <3>3. remaining[b] + InFlight(b) + lost[b] + Cardinality(waiting(b)) = buffer_size(b) + gained[b]
      BY <2>1 DEF BufferBalance, WriteBuffers
    <3>4. remaining[b] \in Nat /\ lost[b] \in Nat /\ gained[b] \in Nat /\ InFlight(b) \in Nat
      BY <3>1, Space DEF SpaceTypes
    <3> QED BY <3>1, <3>2, <3>3, <3>4 DEF OutOf
  <2>3. SpaceTypes'
    BY Space, PTL
  <2>4. b \in Buffers
    BY <2>1 DEF WriteBuffers, Buffers
  <2>5. OutOf(b) \in Int /\ OutOf(b)' \in Int
    BY <2>3, <2>4, Space DEF SpaceTypes
  <2>6. OpenPagesInside'
    BY OpenPage, PTL
  <2>7. unprogrammed(z) \in Nat /\ unprogrammed(z)' \in Nat
    BY <2>6, OpenPage DEF OpenPagesInside
  <2>8. CASE b = zone_write_buffer(z)
    <3>1. OutOf(b)' + unprogrammed(z)' = OutOf(b) + unprogrammed(z)
      BY <2>1, <2>8 DEF BalanceStep
    <3>2. /\ Cardinality(waiting(b)) \in Nat
          /\ Cardinality(waiting(b)') = Cardinality(waiting(b)) - unprogrammed(z) + unprogrammed(z)'
      BY <1>1, <2>8, WaitingChanges
    <3> QED BY <2>2, <2>5, <2>7, <3>1, <3>2
  <2>9. CASE b # zone_write_buffer(z)
    <3>1. OutOf(b)' = OutOf(b)
      BY <2>1, <2>5, <2>9 DEF BalanceStep
    <3>2. waiting(b)' = waiting(b)
      BY <1>1, <2>9 DEF waiting, zone_write_buffer
    <3> QED BY <2>2, <3>1, <3>2
  <2> QED BY <2>8, <2>9
<1> QED BY <1>2

\* A step that leaves the zones alone and the buffers in balance.
LEMMA ZonesRest ==
    ASSUME UNCHANGED zone_descs, \A b \in WriteBuffers : OutOf(b)' = OutOf(b)
    PROVE  \E z \in Zones : BalanceStep(z)
<1>1. 0 \in Zones
  BY ZnsAssumption DEF Zones
<1>2. unprogrammed(0)' = unprogrammed(0)
  BY DEF unprogrammed
<1>3. BalanceStep(0)
  BY <1>1, <1>2 DEF BalanceStep
<1> QED BY <1>1, <1>3

\* Releases that were scheduled.
LEMMA InFlightMore ==
    ASSUME IInv, NEW b \in Buffers, NEW whole \in Nat, NEW tail \in Nat, scheduled(b, whole, tail)
    PROVE  /\ InFlight(b)' = InFlight(b) + whole * wordline + tail * (ZoneLbas % wordline)
           /\ \A c \in Buffers : c # b => InFlight(c)' = InFlight(c)
<1>1. pending \in [Buffers -> [Kinds -> Nat]]
  BY DEF IInv, TypeOK
<1>2. /\ pending'[b].oneshot = pending[b].oneshot + whole
      /\ pending'[b].tail = pending[b].tail + tail
      /\ \A c \in Buffers : c # b => pending'[c] = pending[c]
  BY <1>1 DEF scheduled
<1>3. pending[b].oneshot \in Nat /\ pending[b].tail \in Nat
  BY Space DEF SpaceTypes
<1>4. wordline \in Nat \ {0} /\ ZoneLbas \in Nat
  BY ZnsAssumption DEF wordline
<1> DEFINE m == ZoneLbas % wordline
           o == pending[b].oneshot
           t == pending[b].tail
<1>5. m \in Nat /\ o \in Nat /\ t \in Nat
  BY <1>3, <1>4
<1>6. /\ InFlight(b) = o * wordline + t * m
      /\ InFlight(b)' = (o + whole) * wordline + (t + tail) * m
  BY <1>2 DEF InFlight, wordline
<1> HIDE DEF m, o, t
<1>7. (o + whole) * wordline + (t + tail) * m = o * wordline + t * m + whole * wordline + tail * m
  BY <1>4, <1>5
<1>8. \A c \in Buffers : c # b => InFlight(c)' = InFlight(c)
  BY <1>2 DEF InFlight, wordline
<1> QED BY <1>6, <1>7, <1>8 DEF m

\* __zns_write(): a write that is refused loses its space, one that is accepted
\* gets back what it and the blocks before it fill of flash pages.
LEMMA BalancePlain ==
    ASSUME IInv, NEW sq \in SQs, NEW cmd \in Cmds, NEW z \in Zones,
           zone_descs[z].zrwav = 0, zns_write_plain(sq, cmd, z)
    PROVE  \E y \in Zones : BalanceStep(y)
<1> DEFINE slba == IF cmd.op = "append" THEN zone_descs[z].wp ELSE cmd.slba
           b == zone_write_buffer(z)
           nr == cmd.nr
<1>1. /\ slba \in Nat /\ nr \in Nat \ {0}
  BY ZoneFacts, ZnsAssumption DEF Cmds, Desc
<1>2. b \in Buffers /\ b \in WriteBuffers
  BY BufferFacts DEF WriteBuffers
<1>3. /\ remaining[b] \in Nat /\ lost[b] \in Nat /\ gained[b] \in Nat /\ InFlight(b) \in Nat
      /\ remaining \in [Buffers -> Nat] /\ lost \in [Buffers -> Nat] /\ gained \in [Buffers -> Nat]
  BY <1>2, Space DEF SpaceTypes, IInv, TypeOK
<1> HIDE DEF slba, b
<1>5. CASE write_buffer_short(sq, cmd, slba, b)
  <2>1. UNCHANGED <<zone_descs, remaining, pending, lost, gained>>
    BY <1>5 DEF write_buffer_short
  <2>2. \A c \in WriteBuffers : OutOf(c)' = OutOf(c)
    BY <2>1 DEF OutOf, InFlight, wordline
  <2> QED BY <2>1, <2>2, ZonesRest
<1>6. CASE write_refused(sq, cmd, z, slba, b)
  <2>1. /\ UNCHANGED <<zone_descs, pending, gained>>
        /\ remaining' = [remaining EXCEPT ![b] = @ - nr] /\ lost' = [lost EXCEPT ![b] = @ + nr]
    BY <1>6 DEF write_refused
  <2>2. \A c \in Buffers : InFlight(c)' = InFlight(c)
    BY <2>1 DEF InFlight, wordline
  <2>3. OutOf(b)' = OutOf(b)
    <3>1. remaining'[b] = remaining[b] - nr /\ lost'[b] = lost[b] + nr
      BY <1>2, <1>3, <2>1
    <3> HIDE DEF nr
    <3>2. InFlight(b)' = InFlight(b) /\ gained'[b] = gained[b]
      BY <1>2, <2>1, <2>2
    <3> QED BY <1>1, <1>3, <3>1, <3>2 DEF OutOf
  <2>4. \A c \in Buffers : c # b => OutOf(c)' = OutOf(c)
    BY <1>2, <1>3, <2>1, <2>2 DEF OutOf
  <2> QED BY <2>1, <2>3, <2>4, ZonesRest, OtherBuffers
<1>7. CASE write_done(sq, cmd, z, slba, b)
  <2> DEFINE s == zone_to_slba(z)
             wp == zone_descs[z].wp
             x == wp - s
             p == x \div SecsPerPg
             e == (x + nr - 1) \div SecsPerPg
             at_end == e = (ZoneLbas - 1) \div SecsPerPg /\ ZoneLbas % wordline > 0
             whole == oneshots(p, e - p + 1)
             tail == IF at_end THEN 1 ELSE 0
             m == ZoneLbas % wordline
             gain == early(x + nr)
  <2>1. /\ write_accepted(z, slba, nr)
        /\ increase_write_ptr(z, acquire(acquired, to_acquire(z)), nr)
        /\ remaining' = [remaining EXCEPT ![b] = @ - nr]
    BY <1>7 DEF write_done
  <2>2. slba = wp /\ check_boundary(wp, nr) /\ zone_descs[z].state \in Active \cup {"EMPTY"}
    BY <2>1 DEF write_accepted
  <2>3. /\ wp \in Nat /\ s \in Nat /\ x \in Nat /\ zone_end(z) = s + ZoneLbas /\ wp < zone_end(z)
        /\ zone_end(z) \in Nat /\ s <= wp
    <3>1. wp \in Nat /\ s \in Nat /\ s <= wp /\ wp < zone_end(z) /\ zone_end(z) \in Nat
      BY <2>2, ZoneFacts, ZoneOfLba DEF ShapeOf, Active, Opened
    <3> QED BY <3>1 DEF zone_end
  <2>4. /\ \E u \in 0 .. whole, t \in 0 .. tail :
              /\ scheduled(b, u, t)
              /\ lost' = [lost EXCEPT ![b] = @ + (whole - u) * wordline + (tail - t) * m]
        /\ gained' = [gained EXCEPT ![b] = @ + gain]
    <3>1. slba + nr - 1 - s = x + nr - 1 /\ slba - s = x /\ slba + nr - s = x + nr
      BY <1>1, <2>2, <2>3
    <3> DEFINE p1 == (slba - s) \div SecsPerPg
               e1 == (slba + nr - 1 - s) \div SecsPerPg
               end1 == e1 = (ZoneLbas - 1) \div SecsPerPg /\ ZoneLbas % wordline > 0
               all1 == oneshots(p1, e1 - p1 + 1)
               tail1 == IF end1 THEN 1 ELSE 0
    <3>2. /\ \E u \in 0 .. all1, t \in 0 .. tail1 :
                /\ scheduled(b, u, t)
                /\ lost' = [lost EXCEPT ![b] = @ + (all1 - u) * wordline + (tail1 - t) * m]
          /\ gained' = [gained EXCEPT ![b] = @ + early(slba + nr - s)]
      BY <1>7 DEF write_done
    <3>3. p1 = p /\ e1 = e /\ early(slba + nr - s) = gain
      BY <3>1
    <3>4. all1 = whole /\ tail1 = tail
      BY <3>3
    <3> DEFINE Done(al, ta) == \E u \in 0 .. al, t \in 0 .. ta :
                /\ scheduled(b, u, t)
                /\ lost' = [lost EXCEPT ![b] = @ + (al - u) * wordline + (ta - t) * m]
    <3>5. Done(all1, tail1)
      BY <3>2
    <3> HIDE DEF all1, tail1, whole, tail, gain, Done
    <3>6. Done(whole, tail)
      BY <3>4, <3>5
    <3> QED BY <3>2, <3>3, <3>6 DEF Done
  <2>5. /\ zone_descs'[z].wp = wp + nr /\ zone_descs'[z].zrwav = 0
        /\ \A y \in Zones \ {z} : zone_descs'[y] = zone_descs[y]
    <3>1. zone_descs \in [Zones -> Desc]
      BY DEF IInv, TypeOK, Desc
    <3> QED BY <2>1, <3>1 DEF increase_write_ptr, Desc
  <2>6. x + nr <= ZoneLbas
    <3>1. lba_to_zone(wp) = z
      BY <2>3, ZoneOfLba
    <3>2. wp + nr - 1 \in Nat /\ lba_to_zone(wp + nr - 1) = z
      BY <1>1, <2>2, <2>3, <3>1 DEF check_boundary
    <3>3. wp + nr - 1 < zone_end(z)
      BY <3>2, ZoneOfLba
    <3> QED BY <1>1, <2>3, <3>3, ZnsAssumption
  <2>8. /\ SecsPerPg \in Nat \ {0} /\ PgsPerOneshot \in Nat \ {0} /\ ZoneLbas \in Nat \ {0}
        /\ ZoneLbas % SecsPerPg = 0 /\ wordline \in Nat \ {0} /\ wordline = SecsPerPg * PgsPerOneshot
    BY ZnsAssumption DEF wordline
  <2>9. p \in Nat /\ e \in Nat
    <3>1. \A u \in Nat : u \div SecsPerPg \in Nat
      BY <2>8
    <3>2. x \in Nat /\ x + nr - 1 \in Nat
      BY <1>1, <2>3
    <3> HIDE DEF x, nr
    <3> QED BY <3>1, <3>2
  <2> HIDE DEF p, e, x, nr, wp, s
  <2>10. /\ e - p + 1 \in Nat
         /\ ((p + (e - p + 1)) \div PgsPerOneshot - p \div PgsPerOneshot) * wordline
               + TailOf(SecsPerPg, wordline, e, ZoneLbas)
               + (IF x + nr = ZoneLbas THEN 0 ELSE (x + nr) % wordline)
             = nr + (x % wordline) + EarlyGain(SecsPerPg, PgsPerOneshot, wordline, x + nr, ZoneLbas)
    <3>1. p = x \div SecsPerPg /\ e = (x + nr - 1) \div SecsPerPg
      BY DEF p, e
    <3>2. Times(wordline, SecsPerPg, PgsPerOneshot)
      BY <2>8 DEF Times
    <3>3. ZoneWrite(SecsPerPg, x, nr, p, e, ZoneLbas)
      BY <1>1, <2>3, <2>6, <2>8, <2>9, <3>1 DEF ZoneWrite
    <3>4. SecsPerPg \in Nat \ {0} /\ PgsPerOneshot \in Nat \ {0}
      BY <2>8
    <3> QED BY <3>2, <3>3, <3>4, Programmed
  <2>11. whole \in Nat /\ tail \in Nat /\ gain \in Nat /\ m \in Nat
    <3>1. whole \in Nat
      BY <2>9, <2>10, BufferFacts
    <3>2. gain \in Nat
      BY BufferFacts
    <3> QED BY <2>8, <3>1, <3>2
  <2>12. /\ zone_descs'[z].wp - zone_to_slba(z) = x + nr
         /\ zone_descs'[z].wp = zone_end(z) <=> x + nr = ZoneLbas
         /\ zone_descs[z].wp - zone_to_slba(z) = x /\ zone_descs[z].wp # zone_end(z)
    BY <1>1, <2>3, <2>5, <2>8 DEF x, wp, s, nr
  <2>13. unprogrammed(z) = x % wordline
    BY <2>12 DEF unprogrammed
  <2>14. unprogrammed(z)' = IF x + nr = ZoneLbas THEN 0 ELSE (x + nr) % wordline
    BY <2>5, <2>12 DEF unprogrammed, wordline, zone_to_slba, zone_end
  <2>15. gain = EarlyGain(SecsPerPg, PgsPerOneshot, wordline, x + nr, ZoneLbas)
    BY DEF early, EarlyGain
  <2>16. tail * m = TailOf(SecsPerPg, wordline, e, ZoneLbas)
    <3>1. CASE at_end
      BY <2>11, <3>1 DEF TailOf
    <3>2. CASE ~ at_end
      BY <2>11, <3>2 DEF TailOf
    <3> QED BY <3>1, <3>2
  <2> DEFINE k == whole * wordline
             tm == tail * m
             old == unprogrammed(z)
             new == unprogrammed(z)'
  <2>17. k + tm + new = nr + old + gain
    BY <2>10, <2>13, <2>14, <2>15, <2>16 DEF oneshots
  <2>18. old \in Nat /\ new \in Nat /\ k \in Nat /\ tm \in Nat
    <3>1. x + nr \in Nat
      BY <1>1, <2>3
    <3>2. \A u \in Nat : u % wordline \in Nat
      BY <2>8
    <3>3. k \in Nat /\ tm \in Nat
      BY <2>8, <2>11
    <3> QED BY <2>3, <2>13, <2>14, <3>1, <3>2, <3>3
  <2> HIDE DEF whole, tail, gain, m
  <2>19. /\ InFlight(b)' + lost'[b] = InFlight(b) + lost[b] + k + tm
         /\ InFlight(b)' \in Int /\ lost'[b] \in Int
         /\ \A c \in Buffers : c # b => InFlight(c)' = InFlight(c) /\ lost'[c] = lost[c]
    <3>1. PICK u \in 0 .. whole, t \in 0 .. tail :
              /\ scheduled(b, u, t)
              /\ lost' = [lost EXCEPT ![b] = @ + (whole - u) * wordline + (tail - t) * m]
      BY <2>4
    <3>2. u \in Nat /\ t \in Nat
      BY <2>11
    <3>3. /\ InFlight(b)' = InFlight(b) + u * wordline + t * m
          /\ \A c \in Buffers : c # b => InFlight(c)' = InFlight(c)
      BY <1>2, <3>1, <3>2, InFlightMore DEF m
    <3>4. /\ lost'[b] = lost[b] + (whole - u) * wordline + (tail - t) * m
          /\ \A c \in Buffers : c # b => lost'[c] = lost[c]
      BY <1>2, <1>3, <3>1
    <3>5. (whole - u) * wordline = k - u * wordline /\ (tail - t) * m = tm - t * m
      BY <2>8, <2>11, <3>2
    <3> DEFINE uw == u * wordline
               mt == t * m
    <3>6. uw \in Nat /\ mt \in Nat
      BY <2>8, <2>11, <3>2
    <3>7. InFlight(b)' = InFlight(b) + uw + mt /\ lost'[b] = lost[b] + (k - uw) + (tm - mt)
      BY <3>3, <3>4, <3>5
    <3> HIDE DEF uw, mt, k, tm
    <3>8. /\ InFlight(b)' + lost'[b] = InFlight(b) + lost[b] + k + tm
          /\ InFlight(b)' \in Int /\ lost'[b] \in Int
      BY <1>3, <2>18, <3>6, <3>7
    <3> QED BY <3>3, <3>4, <3>8
  <2>20. /\ remaining'[b] = remaining[b] - nr /\ gained'[b] = gained[b] + gain
         /\ \A c \in Buffers : c # b => remaining'[c] = remaining[c] /\ gained'[c] = gained[c]
    BY <1>2, <1>3, <2>1, <2>4 DEF nr
  <2>21. OutOf(b)' + unprogrammed(z)' = OutOf(b) + unprogrammed(z)
    <3>1. /\ OutOf(b)' = remaining'[b] + InFlight(b)' + lost'[b] - gained'[b]
          /\ OutOf(b) = remaining[b] + InFlight(b) + lost[b] - gained[b]
      BY DEF OutOf
    <3> HIDE DEF tm, k, new, old
    <3>2. OutOf(b)' + new = OutOf(b) + old
      BY <1>1, <1>3, <2>11, <2>17, <2>18, <2>19, <2>20, <3>1
    <3> QED BY <3>2 DEF new, old
  <2>22. \A c \in Buffers : c # b => OutOf(c)' = OutOf(c)
    BY <2>19, <2>20 DEF OutOf
  <2>23. \A c \in WriteBuffers : c # b => OutOf(c)' = OutOf(c) /\ OutOf(c) \in Int
    BY <2>22, OtherBuffers, Space DEF SpaceTypes
  <2>24. BalanceStep(z)
    BY <2>5, <2>21, <2>23 DEF BalanceStep, b
  <2> QED BY <2>24
<1> QED BY <1>5, <1>6, <1>7 DEF zns_write_plain, slba, b

\* A zone with a random write area before and after a step: its blocks wait in
\* no write buffer.
LEMMA AreaStays ==
    ASSUME IInv, NEW z \in Zones, zone_descs[z].zrwav = 1, zone_descs'[z].zrwav = 1,
           \A y \in Zones \ {z} : zone_descs'[y] = zone_descs[y],
           \A c \in WriteBuffers : OutOf(c)' = OutOf(c)
    PROVE  \E y \in Zones : BalanceStep(y)
<1>1. unprogrammed(z) = 0 /\ unprogrammed(z)' = 0
  BY DEF unprogrammed
<1>2. BalanceStep(z)
  BY <1>1 DEF BalanceStep
<1> QED BY <1>2

\* __zns_write_zrwa() uses a buffer of its own.
LEMMA BalanceZrwa ==
    ASSUME IInv, NEW sq \in SQs, NEW cmd, NEW z \in Zones, zone_descs[z].zrwav = 1,
           zrwa_refused(sq, cmd, z) \/ zrwa_divides_by_zero(cmd, z) \/ zrwa_done(sq, cmd, z)
    PROVE  \E y \in Zones : BalanceStep(y)
<1> DEFINE b == zrwa_buffer(z)
<1>1. /\ zone_descs \in [Zones -> Desc] /\ remaining \in [Buffers -> Nat]
      /\ pending \in [Buffers -> [Kinds -> Nat]]
  BY DEF IInv, TypeOK, Desc
<1>2. UNCHANGED <<lost, gained>>
  BY DEF zrwa_refused, zrwa_divides_by_zero, zrwa_done
<1>3. /\ \A y \in Zones \ {z} : zone_descs'[y] = zone_descs[y]
      /\ zone_descs'[z].zrwav = 1
  <2>1. CASE UNCHANGED zone_descs
    BY <2>1
  <2>2. CASE zrwa_done(sq, cmd, z) /\ ~ UNCHANGED zone_descs
    BY <1>1, <2>2 DEF zrwa_done, increase_write_ptr, Desc
  <2> QED BY <2>1, <2>2 DEF zrwa_refused, zrwa_divides_by_zero
<1>4. \A c \in Buffers : c # b => remaining'[c] = remaining[c] /\ pending'[c] = pending[c]
  <2>1. CASE UNCHANGED <<remaining, pending>>
    BY <2>1
  <2>2. CASE zrwa_done(sq, cmd, z)
    <3>1. \/ remaining' = remaining
          \/ \E r : remaining' = [remaining EXCEPT ![b] = r]
      BY <2>2 DEF zrwa_done
    <3>2. \/ pending' = pending
          \/ \E r : pending' = [pending EXCEPT ![b] = r]
      BY <2>2 DEF zrwa_done, scheduled
    <3> QED BY <1>1, <3>1, <3>2
  <2> QED BY <2>1, <2>2 DEF zrwa_refused, zrwa_divides_by_zero
<1>5. \A c \in WriteBuffers : OutOf(c)' = OutOf(c)
  <2>1. SUFFICES ASSUME NEW c \in WriteBuffers PROVE OutOf(c)' = OutOf(c)
    OBVIOUS
  <2>2. c \in Buffers /\ c # b
    BY OtherBuffers
  <2> QED BY <1>2, <1>4, <2>2 DEF OutOf, InFlight, wordline
<1> QED BY <1>3, <1>5, AreaStays

\* A write command, new or waiting at the head of its queue.
LEMMA BalanceWrite ==
    ASSUME IInv, NEW sq \in SQs, zns_write(sq)
    PROVE  \E y \in Zones : BalanceStep(y)
<1>1. Rest
  BY Halves
<1>2. PICK cmd \in IF head[sq] = NoCmd THEN Writes ELSE {head[sq]} :
        LET z == lba_to_zone(cmd.slba)
        IN  \/ /\ z \notin Zones
               /\ failed' = failed \cup {"zone_out_of_range"}
               /\ UNCHANGED <<zone_descs, acquired, remaining, pending, head, lost, gained>>
            \/ /\ z \in Zones /\ zone_descs[z].zrwav = 0
               /\ zns_write_plain(sq, cmd, z)
            \/ /\ z \in Zones /\ zone_descs[z].zrwav = 1
               /\ \/ zrwa_refused(sq, cmd, z)
                  \/ zrwa_divides_by_zero(cmd, z)
                  \/ zrwa_done(sq, cmd, z)
  BY DEF zns_write
<1>3. cmd \in Cmds
  <2>1. CASE head[sq] = NoCmd
    <3>1. NrZones * ZoneLbas \in Nat
      BY ZnsAssumption
    <3> QED BY <1>2, <2>1, <3>1 DEF Writes, Cmds
  <2>2. CASE head[sq] # NoCmd
    BY <1>1, <1>2, <2>2 DEF Rest
  <2> QED BY <2>1, <2>2
<1> DEFINE z == lba_to_zone(cmd.slba)
<1>4. CASE UNCHANGED <<zone_descs, acquired, remaining, pending, head, lost, gained>>
  <2>1. \A c \in WriteBuffers : OutOf(c)' = OutOf(c)
    BY <1>4 DEF OutOf, InFlight, wordline
  <2> QED BY <1>4, <2>1, ZonesRest
<1>5. CASE z \in Zones /\ zone_descs[z].zrwav = 0 /\ zns_write_plain(sq, cmd, z)
  BY <1>3, <1>5, BalancePlain
<1>6. CASE /\ z \in Zones /\ zone_descs[z].zrwav = 1
           /\ zrwa_refused(sq, cmd, z) \/ zrwa_divides_by_zero(cmd, z) \/ zrwa_done(sq, cmd, z)
  BY <1>6, BalanceZrwa
<1> QED BY <1>2, <1>4, <1>5, <1>6

\* Zone management: a reset gives up the blocks that wait, the other commands
\* leave the write pointer of a zone without a random write area alone.
LEMMA BalanceSend ==
    ASSUME IInv, UNCHANGED <<pending, gained>>, NEW action \in Sends,
           NEW slba \in 0 .. NrZones * ZoneLbas - 1, zmgmt_send(action, slba)
    PROVE  \E y \in Zones : BalanceStep(y)
<1> DEFINE z == lba_to_zone(slba)
           old == zone_descs[z]
           b == zone_write_buffer(z)
<1>1. z \in Zones /\ b \in Buffers /\ zrwa_buffer(z) \in Buffers
  BY ZoneOfLba, BufferFacts
<1>2. /\ zone_descs \in [Zones -> Desc] /\ remaining \in [Buffers -> Nat] /\ lost \in [Buffers -> Nat]
      /\ old \in Desc /\ ShapeOf(z, old) /\ zone_to_slba(z) \in Nat /\ zone_end(z) \in Nat
      /\ zone_to_slba(z) < zone_end(z)
  BY <1>1, ZoneFacts, ZoneOfLba DEF IInv, TypeOK
<1>3. \A c \in Buffers : InFlight(c)' = InFlight(c)
  BY DEF InFlight, wordline
<1>4. wordline \in Nat \ {0} /\ SecsPerPg \in Nat \ {0} /\ 0 % wordline = 0 /\ 0 % SecsPerPg = 0
  BY ZnsAssumption DEF wordline
<1> HIDE DEF z
<1>5. \A y \in Zones \ {z} : zone_descs'[y] = zone_descs[y]
  BY <1>1, <1>2 DEF zmgmt_send, close_zone, finish_zone, open_zone, reset_zone, offline_zone,
       flush_explicit_zrwa, flushed, change_zone_state, z
<1>6. CASE UNCHANGED <<remaining, lost>> /\ zone_descs'[z].wp = old.wp /\ zone_descs'[z].zrwav = old.zrwav
  <2>1. unprogrammed(z)' = unprogrammed(z)
    BY <1>6 DEF unprogrammed, wordline, zone_end, zone_to_slba
  <2>2. \A c \in WriteBuffers : OutOf(c)' = OutOf(c)
    BY <1>3, <1>6, OtherBuffers DEF OutOf
  <2>3. BalanceStep(z)
    BY <1>1, <1>5, <2>1, <2>2 DEF BalanceStep
  <2> QED BY <1>1, <2>3
<1>7. CASE UNCHANGED <<remaining, lost>> /\ old.state = "EMPTY" /\ zone_descs'[z].wp = old.wp
  <2>1. old.wp = zone_to_slba(z)
    BY <1>2, <1>7 DEF ShapeOf
  <2>2. old.wp - zone_to_slba(z) = 0
    BY <1>2, <2>1
  <2>3. unprogrammed(z)' = 0 /\ unprogrammed(z) = 0
    BY <1>4, <1>7, <2>2 DEF unprogrammed, wordline, zone_end, zone_to_slba
  <2>4. \A c \in WriteBuffers : OutOf(c)' = OutOf(c)
    BY <1>3, <1>7, OtherBuffers DEF OutOf
  <2>5. BalanceStep(z)
    BY <1>1, <1>5, <2>3, <2>4 DEF BalanceStep
  <2> QED BY <1>1, <2>5
<1>8. CASE UNCHANGED <<remaining, lost>> /\ old.zrwav = 1 /\ zone_descs'[z].zrwav = 1
  <2>1. \A c \in WriteBuffers : OutOf(c)' = OutOf(c)
    BY <1>3, <1>8, OtherBuffers DEF OutOf
  <2> QED BY <1>1, <1>5, <1>8, <2>1, AreaStays
<1>9. CASE reset_zone(z) /\ zone_descs[z].state \in Active \cup {"EMPTY", "FULL"}
  <2>1. /\ zone_descs'[z].wp = zone_to_slba(z) /\ zone_descs'[z].zrwav = 0
        /\ lost' = [lost EXCEPT ![b] = @ + unprogrammed(z)]
        /\ remaining' = IF ZrwaBuf > 0 THEN [remaining EXCEPT ![zrwa_buffer(z)] = ZrwaBuf]
                        ELSE remaining
    BY <1>1, <1>2, <1>9 DEF reset_zone
  <2>2. zone_to_slba(z) - zone_to_slba(z) = 0
    BY <1>2
  <2>3. unprogrammed(z)' = 0
    BY <1>2, <1>4, <2>1, <2>2 DEF unprogrammed, wordline, zone_end, zone_to_slba
  <2>4. \A c \in WriteBuffers : c \in Buffers /\ remaining'[c] = remaining[c]
    <3>1. SUFFICES ASSUME NEW c \in WriteBuffers PROVE c \in Buffers /\ remaining'[c] = remaining[c]
      OBVIOUS
    <3>2. c \in Buffers /\ c # zrwa_buffer(z)
      BY <1>1, OtherBuffers
    <3> QED BY <1>1, <1>2, <2>1, <3>2
  <2>5. lost'[b] = lost[b] + unprogrammed(z) /\ \A c \in Buffers : c # b => lost'[c] = lost[c]
    BY <1>1, <1>2, <2>1
  <2>6. unprogrammed(z) \in Nat
    BY <1>1, OpenPage DEF OpenPagesInside
  <2>7. ASSUME NEW c \in WriteBuffers
        PROVE  OutOf(c)' + (IF c = b THEN 0 ELSE 0) = OutOf(c) + (IF c = b THEN unprogrammed(z) ELSE 0)
    <3>1. /\ c \in Buffers /\ remaining'[c] = remaining[c] /\ InFlight(c)' = InFlight(c)
          /\ remaining[c] \in Nat /\ lost[c] \in Nat /\ InFlight(c) \in Nat /\ gained[c] \in Nat
      BY <1>3, <2>4, Space DEF SpaceTypes
    <3>2. lost'[c] = lost[c] + (IF c = b THEN unprogrammed(z) ELSE 0)
      BY <2>5, <3>1
    <3>3. /\ OutOf(c)' = remaining'[c] + InFlight(c)' + lost'[c] - gained[c]
          /\ OutOf(c) = remaining[c] + InFlight(c) + lost[c] - gained[c]
      BY DEF OutOf
    <3> QED BY <2>6, <3>1, <3>2, <3>3
  <2>8. BalanceStep(z)
    BY <1>4, <1>5, <2>1, <2>2, <2>3, <2>7 DEF BalanceStep
  <2> QED BY <1>1, <2>8
<1>10. CASE reset_zone(z) /\ zone_descs[z].state \notin Active \cup {"EMPTY", "FULL"}
  BY <1>6, <1>10 DEF reset_zone
<1>11. CASE close_zone(z) \/ finish_zone(z) \/ offline_zone(z)
  <2>1. /\ UNCHANGED <<remaining, lost>>
        /\ zone_descs'[z].wp = old.wp /\ zone_descs'[z].zrwav = old.zrwav
    BY <1>1, <1>2, <1>11 DEF close_zone, finish_zone, offline_zone, change_zone_state, Desc
  <2> QED BY <1>6, <2>1
<1>12. ASSUME NEW zrwa \in BOOLEAN, open_zone(z, zrwa) PROVE \E y \in Zones : BalanceStep(y)
  <2>1. /\ UNCHANGED <<remaining, lost>> /\ zone_descs'[z].wp = old.wp
        /\ zone_descs'[z].zrwav = old.zrwav \/ old.state = "EMPTY"
    BY <1>1, <1>2, <1>12 DEF open_zone, Desc
  <2> QED BY <1>6, <1>7, <2>1
<1>13. CASE flush_explicit_zrwa(z, slba)
  <2>1. /\ UNCHANGED <<remaining, lost>>
        /\ UNCHANGED zone_descs \/ (old.zrwav = 1 /\ zone_descs'[z].zrwav = 1)
    BY <1>1, <1>2, <1>13 DEF flush_explicit_zrwa, flushed, Desc
  <2> QED BY <1>6, <1>8, <2>1
<1> QED BY <1>9, <1>10, <1>11, <1>12, <1>13 DEF zmgmt_send, z

\* An I/O worker gives buffer space back.
LEMMA BalanceRelease ==
    ASSUME IInv, NEW b \in Buffers, NEW k \in Kinds, buffer_release(b, k)
    PROVE  \E y \in Zones : BalanceStep(y)
<1>1. /\ pending \in [Buffers -> [Kinds -> Nat]] /\ remaining \in [Buffers -> Nat] /\ gained[b] \in Nat
      /\ pending[b].oneshot \in Nat /\ pending[b].tail \in Nat /\ remaining[b] \in Nat /\ lost[b] \in Nat
  BY Space DEF SpaceTypes, IInv, TypeOK
<1>2. /\ UNCHANGED <<zone_descs, lost, gained>>
      /\ pending' = [pending EXCEPT ![b][k] = @ - 1]
      /\ remaining' = [remaining EXCEPT ![b] = @ + released_size(k)]
  BY DEF buffer_release
<1>3. /\ remaining'[b] = remaining[b] + released_size(k)
      /\ \A c \in Buffers : c # b => remaining'[c] = remaining[c] /\ pending'[c] = pending[c]
  BY <1>1, <1>2
<1>4. \A j \in Kinds : pending'[b][j] = IF j = k THEN pending[b][j] - 1 ELSE pending[b][j]
  BY <1>1, <1>2
<1>5. wordline \in Nat \ {0} /\ ZoneLbas \in Nat
  BY ZnsAssumption DEF wordline
<1> DEFINE m == ZoneLbas % wordline
           o == pending[b].oneshot
           t == pending[b].tail
<1>6. m \in Nat /\ o \in Nat /\ t \in Nat
  BY <1>1, <1>5
<1>7. InFlight(b) = o * wordline + t * m
  BY DEF InFlight
<1>8. InFlight(b)' = InFlight(b) - released_size(k) /\ released_size(k) \in Nat
  <2>1. CASE k = "oneshot"
    <3>1. released_size(k) = wordline
      BY <2>1 DEF released_size
    <3>2. InFlight(b)' = (o - 1) * wordline + t * m
      BY <1>4, <2>1 DEF InFlight, wordline, Kinds
    <3> HIDE DEF m, o, t
    <3> DEFINE all == o * wordline + t * m
    <3>3. (o - 1) * wordline + t * m = all - wordline
      BY <1>5, <1>6
    <3>4. InFlight(b) = all
      BY <1>7
    <3> HIDE DEF all
    <3> QED BY <1>5, <3>1, <3>2, <3>3, <3>4
  <2>2. CASE k = "tail"
    <3>1. released_size(k) = m
      BY <2>2 DEF released_size
    <3>2. InFlight(b)' = o * wordline + (t - 1) * m
      BY <1>4, <2>2 DEF InFlight, wordline, Kinds
    <3> HIDE DEF m, o, t
    <3> DEFINE all == o * wordline + t * m
    <3>3. o * wordline + (t - 1) * m = all - m
      BY <1>5, <1>6
    <3>4. InFlight(b) = all
      BY <1>7
    <3> HIDE DEF all
    <3> QED BY <1>6, <3>1, <3>2, <3>3, <3>4
  <2> QED BY <2>1, <2>2 DEF Kinds
<1>9. OutOf(b)' = OutOf(b)
  <2>1. InFlight(b) \in Nat
    BY Space DEF SpaceTypes
  <2>2. /\ OutOf(b)' = remaining'[b] + InFlight(b)' + lost'[b] - gained'[b]
        /\ OutOf(b) = remaining[b] + InFlight(b) + lost[b] - gained[b]
    BY DEF OutOf
  <2> QED BY <1>1, <1>2, <1>3, <1>8, <2>1, <2>2
<1>10. \A c \in Buffers : c # b => OutOf(c)' = OutOf(c)
  BY <1>2, <1>3 DEF OutOf, InFlight, wordline
<1> QED BY <1>2, <1>9, <1>10, ZonesRest, OtherBuffers

\* Every step keeps the balance.
LEMMA StepBalance ==
    ASSUME IInv, IInv', BufferBalance, [Next]_vars
    PROVE  BufferBalance'
<1>1. SUFFICES \E y \in Zones : BalanceStep(y)
  BY BalanceKept
<1>2. CASE \E sq \in SQs : zns_write(sq)
  BY <1>2, BalanceWrite
<1>3. Rest /\ \A zid \in Zones : zone_to_slba(zid) \in 0 .. NrZones * ZoneLbas - 1
  BY ZoneOfLba, Halves, ZnsAssumption
<1>4. CASE zns_zmgmt_send
  BY <1>4, BalanceSend DEF zns_zmgmt_send
<1>5. CASE select_all \/ select_next
  <2>1. PICK zid \in Zones, action \in Sends : select_from(zid, action)
    <3>1. CASE select_all
      BY <3>1, ZnsAssumption DEF select_all, Zones
    <3>2. CASE select_next
      BY <1>3, <3>2 DEF select_next, Rest
    <3> QED BY <1>5, <3>1, <3>2
  <2> QED BY <1>3, <2>1, BalanceSend DEF select_from
<1>6. CASE \E b \in Buffers, k \in Kinds : buffer_release(b, k)
  BY <1>6, BalanceRelease
<1>7. CASE UNCHANGED vars
  <2>1. UNCHANGED zone_descs /\ \A b \in WriteBuffers : OutOf(b)' = OutOf(b)
    BY <1>7 DEF vars, OutOf, InFlight, wordline
  <2> QED BY <2>1, ZonesRest
<1> QED BY <1>2, <1>4, <1>5, <1>6, <1>7 DEF Next

\* At the start all space is free.
LEMMA InitBalance == Init => BufferBalance
<1>1. SUFFICES ASSUME Init PROVE BufferBalance
  OBVIOUS
<1>2. \A z \in Zones : zone_descs[z].wp = zone_to_slba(z) /\ zone_to_slba(z) \in Nat
  BY <1>1, ZoneOfLba DEF Init
<1>3. wordline \in Nat \ {0} /\ 0 % wordline = 0 /\ ZoneLbas % wordline \in Nat
  BY ZnsAssumption DEF wordline
<1>4. \A z \in Zones : unprogrammed(z) = 0
  <2>1. SUFFICES ASSUME NEW z \in Zones PROVE unprogrammed(z) = 0
    OBVIOUS
  <2>2. zone_descs[z].wp - zone_to_slba(z) = 0
    BY <1>2
  <2> QED BY <1>3, <2>2 DEF unprogrammed
<1>6. \A b \in WriteBuffers : waiting(b) = {}
  <2>1. \A z \in Zones : open_page(z) = {}
    BY <1>2, <1>4 DEF open_page
  <2> QED BY <2>1 DEF waiting
<1>7. \A b \in WriteBuffers : /\ remaining[b] + InFlight(b) + lost[b] = buffer_size(b) /\ gained[b] = 0
                              /\ buffer_size(b) \in Nat
  <2>1. SUFFICES ASSUME NEW b \in WriteBuffers
                 PROVE  /\ remaining[b] + InFlight(b) + lost[b] = buffer_size(b) /\ gained[b] = 0
                        /\ buffer_size(b) \in Nat
    OBVIOUS
  <2>2. b \in Buffers
    BY OtherBuffers
  <2>3. /\ remaining[b] = buffer_size(b) /\ lost[b] = 0 /\ gained[b] = 0
        /\ pending[b].oneshot = 0 /\ pending[b].tail = 0
        /\ buffer_size(b) \in Nat
    BY <1>1, <2>2, BufferFacts DEF Init
  <2> QED BY <1>3, <2>3 DEF InFlight
<1>8. Cardinality({}) = 0
  BY FS_EmptySet
<1>9. BufferBalance
  BY <1>6, <1>7, <1>8 DEF BufferBalance, WriteBuffers
<1> QED BY <1>9

\* No block of a write buffer is lost but by a refused write, a reset or for want of
\* a work-queue entry, and none is made up but by a write that ends inside the last
\* page of a flash page: for any number of zones, with a buffer each or one for all
\* of them, and any size of pages, flash pages and writes.
THEOREM BuffersBalanced == ASSUME GranuleFits PROVE Spec => []BufferBalance
<1>1. Init => BufferBalance
  BY InitBalance
<1>2. IInv /\ IInv' /\ BufferBalance /\ [Next]_vars => BufferBalance'
  BY StepBalance
<1> QED BY <1>1, <1>2, Invariance, PTL DEF Spec

=============================================================================
