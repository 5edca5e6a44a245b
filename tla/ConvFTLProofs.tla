--------------------------- MODULE ConvFTLProofs ---------------------------
(***************************************************************************)
(* Proofs about ConvFTL, for every number of lines and logical pages and   *)
(* every line geometry.                                                    *)
(***************************************************************************)
EXTENDS ConvFTL, FiniteSetTheorems, TLAPS

(***************************************************************************)
(* The free line list as a list without repetitions.                       *)
(***************************************************************************)
Elems(s) == {s[i] : i \in DOMAIN s}
NoRepeat(s) == \A i, j \in DOMAIN s : s[i] = s[j] => i = j

\* get_next_free_line() takes one element off the list and no other.
LEMMA TakeFirst ==
    ASSUME NEW S, NEW s \in Seq(S), s # <<>>
    PROVE  /\ Tail(s) \in Seq(S)
           /\ Head(s) \in S
           /\ Head(s) \in Elems(s)
           /\ NoRepeat(s) => NoRepeat(Tail(s))
           /\ NoRepeat(s) => Elems(Tail(s)) = Elems(s) \ {Head(s)}
<1>1. /\ Tail(s) \in Seq(S)
      /\ Head(s) = s[1]
      /\ Len(s) \in Nat /\ Len(s) > 0
      /\ DOMAIN s = 1 .. Len(s)
      /\ Len(Tail(s)) = Len(s) - 1
      /\ DOMAIN Tail(s) = 1 .. Len(s) - 1
      /\ \A i \in 1 .. Len(s) - 1 : Tail(s)[i] = s[i + 1]
  OBVIOUS
<1>2. Head(s) \in S /\ Head(s) \in Elems(s)
  BY <1>1 DEF Elems
<1>3. ASSUME NoRepeat(s) PROVE NoRepeat(Tail(s))
  BY <1>1, <1>3 DEF NoRepeat
<1>4. ASSUME NoRepeat(s) PROVE Elems(Tail(s)) = Elems(s) \ {Head(s)}
  <2>1. \A x \in Elems(Tail(s)) : x \in Elems(s) /\ x # Head(s)
    BY <1>1, <1>4 DEF Elems, NoRepeat
  <2>2. ASSUME NEW x \in Elems(s), x # Head(s) PROVE x \in Elems(Tail(s))
    <3>1. PICK i \in 1 .. Len(s) : x = s[i]
      BY <1>1 DEF Elems
    <3>2. i - 1 \in 1 .. Len(s) - 1 /\ Tail(s)[i - 1] = x
      BY <1>1, <2>2, <3>1
    <3> QED BY <1>1, <3>2 DEF Elems
  <2> QED BY <2>1, <2>2
<1> QED BY <1>1, <1>2, <1>3, <1>4

\* mark_line_free() puts one element at the end of the list.
LEMMA PutLast ==
    ASSUME NEW S, NEW s \in Seq(S), NEW x \in S
    PROVE  /\ Append(s, x) \in Seq(S)
           /\ Elems(Append(s, x)) = Elems(s) \cup {x}
           /\ NoRepeat(s) /\ x \notin Elems(s) => NoRepeat(Append(s, x))
<1>1. /\ Append(s, x) \in Seq(S)
      /\ Len(s) \in Nat
      /\ DOMAIN s = 1 .. Len(s)
      /\ DOMAIN Append(s, x) = 1 .. Len(s) + 1
      /\ \A i \in 1 .. Len(s) : Append(s, x)[i] = s[i]
      /\ Append(s, x)[Len(s) + 1] = x
  OBVIOUS
<1>2. Elems(Append(s, x)) = Elems(s) \cup {x}
  BY <1>1 DEF Elems
<1>3. ASSUME NoRepeat(s), x \notin Elems(s) PROVE NoRepeat(Append(s, x))
  BY <1>1, <1>3 DEF Elems, NoRepeat
<1> QED BY <1>1, <1>2, <1>3

(***************************************************************************)
(* Type correctness.                                                       *)
(***************************************************************************)

\* uint32_t arithmetic on the write credits stays in the range of the type.
LEMMA CreditRange ==
    ASSUME NEW c \in Int
    PROVE  c % CreditMod \in 0 .. CreditMod - 1
BY SizeAssumption

LEMMA FlowControlType ==
    ASSUME TypeOK
    PROVE  /\ consumed(wfc.write_credits) \in 0 .. CreditMod - 1
           /\ refilled(wfc) \in [write_credits : 0 .. CreditMod - 1,
                                 credits_to_refill : Int]
<1>1. /\ wfc.write_credits + CreditMod - 1 \in Int
      /\ wfc.write_credits + wfc.credits_to_refill \in Int
  BY SizeAssumption DEF TypeOK
<1>2. /\ (wfc.write_credits + CreditMod - 1) % CreditMod \in 0 .. CreditMod - 1
      /\ (wfc.write_credits + wfc.credits_to_refill) % CreditMod
            \in 0 .. CreditMod - 1
  BY ONLY <1>1, CreditRange
<1> QED BY <1>2 DEF consumed, refilled, TypeOK

LEMMA AdvancedType ==
    ASSUME TypeOK, NEW w \in WritePointers, w.curline \in Lines
    PROVE  advanced(w) \in WritePointers
<1>1. next_free_line \in Lines \cup {NULL}
  BY DEF TypeOK, next_free_line
<1>2. CASE line_is_used_up(w)
  BY <1>1, <1>2, SizeAssumption DEF advanced, WritePointers, Offsets
<1>3. CASE ~line_is_used_up(w)
  BY <1>3, SizeAssumption DEF advanced, WritePointers, Offsets, line_is_used_up
<1> QED BY <1>2, <1>3

LEMMA ProgramType ==
    ASSUME TypeOK, NEW w \in WritePointers, w.curline \in Lines,
           NEW lpn \in LPNs \cup {INVALID_LPN}, program_page(w, lpn)
    PROVE  /\ maptbl' \in [LPNs -> Pages \cup {UNMAPPED_PPA}]
           /\ rmap' \in [Pages -> LPNs \cup {INVALID_LPN}]
           /\ pg' \in [Pages -> Statuses]
           /\ blk' \in [Lines \X Blocks -> Counters]
           /\ line' \in [Lines -> Counters]
           /\ free_line_list' \in Seq(Lines)
           /\ full_line_list' \subseteq Lines
           /\ victim_line_pq' \subseteq Lines
<1> DEFINE p == get_new_page(w)
<1>1. p \in Pages
  BY DEF get_new_page, Pages, WritePointers
<1>2. maptbl' \in [LPNs -> Pages \cup {UNMAPPED_PPA}]
  BY <1>1 DEF program_page, TypeOK
<1>3. rmap' \in [Pages -> LPNs \cup {INVALID_LPN}]
  BY <1>1 DEF program_page, TypeOK
<1>4. /\ p[1] \in Lines
      /\ <<p[1], BlockOf[p[2]]>> \in Lines \X Blocks
  BY <1>1, LayoutAssumption DEF Pages
<1>5. /\ pg' = [pg EXCEPT ![p] = PG_VALID]
      /\ blk' = [blk EXCEPT ![<<p[1], BlockOf[p[2]]>>] = validate_counts(@)]
      /\ line' = [line EXCEPT ![p[1]] = validate_counts(@)]
  BY DEF program_page, mark_page_valid
<1> HIDE DEF p
<1>6. /\ pg' \in [Pages -> Statuses]
      /\ blk' \in [Lines \X Blocks -> Counters]
      /\ line' \in [Lines -> Counters]
  <2>1. pg' \in [Pages -> Statuses]
    BY <1>1, <1>5 DEF TypeOK, Statuses
  <2>2. \A c \in Counters : validate_counts(c) \in Counters
    BY DEF Counters, validate_counts
  <2>3. blk' \in [Lines \X Blocks -> Counters]
    BY <1>4, <1>5, <2>2 DEF TypeOK
  <2>4. line' \in [Lines -> Counters]
    BY <1>4, <1>5, <2>2 DEF TypeOK
  <2> QED BY <2>1, <2>3, <2>4
<1>7. free_line_list' \in Seq(Lines)
  <2>1. \/ free_line_list' = free_line_list
        \/ free_line_list' = <<>>
        \/ free_line_list # <<>> /\ free_line_list' = Tail(free_line_list)
    BY DEF program_page, retire_line
  <2>2. free_line_list \in Seq(Lines) /\ <<>> \in Seq(Lines)
    BY DEF TypeOK
  <2>3. free_line_list # <<>> => Tail(free_line_list) \in Seq(Lines)
    BY <2>2
  <2> QED BY <2>1, <2>2, <2>3
<1>8. full_line_list' \subseteq Lines /\ victim_line_pq' \subseteq Lines
  BY DEF program_page, retire_line, TypeOK
<1> QED BY <1>2, <1>3, <1>6, <1>7, <1>8

LEMMA InvalidateType ==
    ASSUME TypeOK, NEW p \in Pages, mark_page_invalid(p)
    PROVE  /\ pg' \in [Pages -> Statuses]
           /\ blk' \in [Lines \X Blocks -> Counters]
           /\ line' \in [Lines -> Counters]
           /\ free_line_list' \in Seq(Lines)
           /\ full_line_list' \subseteq Lines
           /\ victim_line_pq' \subseteq Lines
<1>1. /\ p[1] \in Lines
      /\ <<p[1], BlockOf[p[2]]>> \in Lines \X Blocks
  BY LayoutAssumption DEF Pages
<1>2. /\ pg' = [pg EXCEPT ![p] = PG_INVALID]
      /\ blk' = [blk EXCEPT ![<<p[1], BlockOf[p[2]]>>] = invalidate_counts(@)]
      /\ line' = [line EXCEPT ![p[1]] = invalidate_counts(@)]
      /\ free_line_list' = free_line_list
  BY DEF mark_page_invalid
<1>3. pg' \in [Pages -> Statuses]
  BY <1>2 DEF TypeOK, Statuses
<1>4. \A c \in Counters : invalidate_counts(c) \in Counters
  BY DEF Counters, invalidate_counts
<1>5. blk' \in [Lines \X Blocks -> Counters]
  BY <1>1, <1>2, <1>4 DEF TypeOK
<1>6. line' \in [Lines -> Counters]
  BY <1>1, <1>2, <1>4 DEF TypeOK
<1>7. full_line_list' \subseteq Lines /\ victim_line_pq' \subseteq Lines
  BY <1>1 DEF mark_page_invalid, TypeOK
<1> QED BY <1>2, <1>3, <1>5, <1>6, <1>7 DEF TypeOK

LEMMA InitTypeControl == Init => TypeOK /\ ControlOK
<1> SUFFICES ASSUME Init PROVE TypeOK /\ ControlOK
  OBVIOUS
<1> USE DEF Init, conv_init_ftl
<1>1. free_line_list \in Seq(Lines)
  BY LinesAssumption
<1>2. wp \in WritePointers /\ gc_wp \in WritePointers
  <2>1. InitialFree[1] \in Lines /\ InitialFree[2] \in Lines /\ 0 \in Offsets
    BY LinesAssumption, SizeAssumption DEF Offsets
  <2> QED BY <2>1 DEF WritePointers
<1>3. wfc \in [write_credits : 0 .. CreditMod - 1, credits_to_refill : Int]
  BY SizeAssumption
<1>4. /\ pg \in [Pages -> Statuses]
      /\ blk \in [Lines \X Blocks -> Counters]
      /\ line \in [Lines -> Counters]
  BY DEF Statuses, Counters
<1>5. gc \in [victim : Lines \cup {NULL}, pos : 0 .. PgsPerLine]
  BY SizeAssumption
<1>6. TypeOK
  BY <1>1, <1>2, <1>3, <1>4, <1>5 DEF TypeOK
<1>7. ControlOK
  BY DEF ControlOK
<1> QED BY <1>6, <1>7

LEMMA StepTypeControl ==
    ASSUME TypeOK, ControlOK, [Next]_vars
    PROVE  TypeOK' /\ ControlOK'
<1> USE DEF mapvars, nandvars, linevars
<1>1. ASSUME NEW lpn \in LPNs, start_new_page(lpn) PROVE TypeOK' /\ ControlOK'
  <2>1. TypeOK'
    BY <1>1 DEF start_new_page, TypeOK
  <2>2. ControlOK'
    BY <1>1, NullAssumption DEF start_new_page, ControlOK
  <2> QED BY <2>1, <2>2
<1>2. ASSUME NEW lpn \in LPNs, start_overwrite(lpn) PROVE TypeOK' /\ ControlOK'
  <2>1. maptbl[lpn] \in Pages /\ mark_page_invalid(maptbl[lpn])
    BY <1>2 DEF start_overwrite, mapped_ppa, TypeOK
  <2>2. rmap' \in [Pages -> LPNs \cup {INVALID_LPN}]
    BY <1>2, <2>1 DEF start_overwrite, TypeOK
  <2>3. TypeOK'
    BY <1>2, <2>1, <2>2, InvalidateType DEF start_overwrite, TypeOK
  <2>4. ControlOK'
    BY <1>2, NullAssumption DEF start_overwrite, ControlOK
  <2> QED BY <2>3, <2>4
<1>3. ASSUME write_page PROVE TypeOK' /\ ControlOK'
  <2>1. wp \in WritePointers /\ wp.curline \in Lines
    BY <1>3 DEF write_page, TypeOK, Halted, WritePointers
  <2>2. cur \in LPNs \cup {INVALID_LPN} /\ program_page(wp, cur)
    BY <1>3 DEF write_page, TypeOK
  <2>3. wp' \in WritePointers
    BY <1>3, <2>1, AdvancedType DEF write_page
  <2>4. wfc' \in [write_credits : 0 .. CreditMod - 1, credits_to_refill : Int]
    BY <1>3, FlowControlType DEF write_page, TypeOK
  <2>5. TypeOK'
    BY <1>3, <2>1, <2>2, <2>3, <2>4, ProgramType DEF write_page, TypeOK
  <2>6. ControlOK'
    BY <1>3 DEF write_page, ControlOK
  <2> QED BY <2>5, <2>6
<1>4. ASSUME refill_without_gc PROVE TypeOK' /\ ControlOK'
  <2>1. wfc' \in [write_credits : 0 .. CreditMod - 1, credits_to_refill : Int]
    BY <1>4, FlowControlType DEF refill_without_gc
  <2>2. TypeOK'
    BY <1>4, <2>1 DEF refill_without_gc, TypeOK
  <2>3. ControlOK'
    BY <1>4 DEF refill_without_gc, ControlOK
  <2> QED BY <2>2, <2>3
<1>5. ASSUME NEW l \in victim_line_pq, do_gc(l) PROVE TypeOK' /\ ControlOK'
  <2>1. l \in Lines /\ reclaimable(l) \in Int
    BY DEF TypeOK, Counters, reclaimable
  <2>2. TypeOK'
    BY <1>5, <2>1, SizeAssumption DEF do_gc, TypeOK
  <2>3. ControlOK'
    BY <1>5, <2>1, NullAssumption DEF do_gc, ControlOK
  <2> QED BY <2>2, <2>3
<1>6. ASSUME gc_write_page PROVE TypeOK' /\ ControlOK'
  <2>1. gc_wp \in WritePointers /\ gc_wp.curline \in Lines
    BY <1>6 DEF gc_write_page, visit_page, TypeOK, Halted, WritePointers
  <2>2. gc_page \in Pages
    BY <1>6, LayoutAssumption, SizeAssumption
    DEF gc_write_page, visit_page, gc_page, ControlOK, TypeOK, Pages, Offsets
  <2>3. rmap[gc_page] \in LPNs \cup {INVALID_LPN}
        /\ program_page(gc_wp, rmap[gc_page])
    BY <1>6, <2>2 DEF gc_write_page, TypeOK
  <2>4. gc_wp' \in WritePointers
    BY <1>6, <2>1, AdvancedType DEF gc_write_page
  <2>5. gc' \in [victim : Lines \cup {NULL}, pos : 0 .. PgsPerLine]
    BY <1>6, SizeAssumption DEF gc_write_page, visit_page, TypeOK
  <2>6. TypeOK'
    BY <1>6, <2>1, <2>3, <2>4, <2>5, ProgramType
    DEF gc_write_page, visit_page, TypeOK
  <2>7. ControlOK'
    BY <1>6 DEF gc_write_page, visit_page, ControlOK, TypeOK, last_of_block
  <2> QED BY <2>6, <2>7
<1>7. ASSUME gc_skip_page PROVE TypeOK' /\ ControlOK'
  <2>1. gc' \in [victim : Lines \cup {NULL}, pos : 0 .. PgsPerLine]
    BY <1>7, SizeAssumption DEF gc_skip_page, visit_page, TypeOK
  <2>2. TypeOK'
    BY <1>7, <2>1 DEF gc_skip_page, visit_page, TypeOK
  <2>3. ControlOK'
    BY <1>7 DEF gc_skip_page, visit_page, ControlOK, TypeOK, last_of_block
  <2> QED BY <2>2, <2>3
<1>8. ASSUME mark_block_free PROVE TypeOK' /\ ControlOK'
  <2>1. pg' \in [Pages -> Statuses]
    BY <1>8 DEF mark_block_free, TypeOK, Statuses
  <2>2. blk' \in [Lines \X Blocks -> Counters]
    <3>1. [ipc |-> 0, vpc |-> 0] \in Counters
      BY DEF Counters
    <3> QED BY <1>8, <3>1 DEF mark_block_free, TypeOK
  <2>3. TypeOK'
    BY <1>8, <2>1, <2>2 DEF mark_block_free, TypeOK
  <2>4. ControlOK'
    BY <1>8 DEF mark_block_free, ControlOK
  <2> QED BY <2>3, <2>4
<1>9. ASSUME mark_line_free PROVE TypeOK' /\ ControlOK'
  <2>1. gc.victim \in Lines
    BY <1>9 DEF mark_line_free, ControlOK, TypeOK
  <2>2. line' \in [Lines -> Counters]
    <3>1. [ipc |-> 0, vpc |-> 0] \in Counters
      BY DEF Counters
    <3> QED BY <1>9, <3>1 DEF mark_line_free, TypeOK
  <2>3. free_line_list' \in Seq(Lines)
    BY <1>9, <2>1 DEF mark_line_free, TypeOK
  <2>4. wfc' \in [write_credits : 0 .. CreditMod - 1, credits_to_refill : Int]
    BY <1>9, FlowControlType DEF mark_line_free
  <2>5. gc' \in [victim : Lines \cup {NULL}, pos : 0 .. PgsPerLine]
    BY <1>9, SizeAssumption DEF mark_line_free
  <2>6. TypeOK'
    BY <1>9, <2>2, <2>3, <2>4, <2>5 DEF mark_line_free, TypeOK
  <2>7. ControlOK'
    BY <1>9 DEF mark_line_free, ControlOK
  <2> QED BY <2>6, <2>7
<1>10. ASSUME UNCHANGED vars PROVE TypeOK' /\ ControlOK'
  BY <1>10 DEF vars, TypeOK, ControlOK, last_of_block
<1> QED BY <1>1, <1>2, <1>3, <1>4, <1>5, <1>6, <1>7, <1>8, <1>9, <1>10
        DEF Next, check_and_refill_write_credit

\* The specification is type correct: conv_ftl.c keeps every table entry,
\* list, pointer and counter in its domain, whatever the host writes.
THEOREM TypeCorrect == Spec => []TypeOK
<1>1. TypeOK /\ ControlOK /\ [Next]_vars => TypeOK' /\ ControlOK'
  BY StepTypeControl
<1> QED BY InitTypeControl, <1>1, PTL DEF Spec

(***************************************************************************)
(* Cardinalities of sets of offsets.                                       *)
(***************************************************************************)
LEMMA OffsetSets ==
    /\ IsFiniteSet(Offsets) /\ Cardinality(Offsets) = PgsPerLine
    /\ \A S \in SUBSET Offsets :
          /\ IsFiniteSet(S)
          /\ Cardinality(S) \in 0 .. PgsPerLine
          /\ Cardinality(S) = PgsPerLine <=> S = Offsets
          /\ Cardinality(S) = 0 <=> S = {}
          /\ \A o \in Offsets \ S : Cardinality(S \cup {o}) = Cardinality(S) + 1
          /\ \A o \in S : Cardinality(S \ {o}) = Cardinality(S) - 1
<1>1. IsFiniteSet(Offsets) /\ Cardinality(Offsets) = PgsPerLine
  BY FS_Interval, SizeAssumption DEF Offsets
<1>2. ASSUME NEW S \in SUBSET Offsets
      PROVE  /\ IsFiniteSet(S)
             /\ Cardinality(S) \in 0 .. PgsPerLine
             /\ Cardinality(S) = PgsPerLine <=> S = Offsets
             /\ Cardinality(S) = 0 <=> S = {}
             /\ \A o \in Offsets \ S : Cardinality(S \cup {o}) = Cardinality(S) + 1
             /\ \A o \in S : Cardinality(S \ {o}) = Cardinality(S) - 1
  <2>1. IsFiniteSet(S) /\ Cardinality(S) <= PgsPerLine
        /\ (Cardinality(S) = PgsPerLine => S = Offsets)
    BY <1>1, FS_Subset
  <2>2. Cardinality(S) \in Nat
    BY <2>1, FS_CardinalityType
  <2>3. Cardinality(S) \in 0 .. PgsPerLine
    BY <2>1, <2>2, SizeAssumption
  <2>4. Cardinality(S) = 0 <=> S = {}
    BY <2>1, FS_EmptySet
  <2>5. \A o \in Offsets \ S : Cardinality(S \cup {o}) = Cardinality(S) + 1
    BY <2>1, FS_AddElement
  <2>6. \A o \in S : Cardinality(S \ {o}) = Cardinality(S) - 1
    BY <2>1, FS_RemoveElement
  <2> QED BY <1>1, <2>1, <2>3, <2>4, <2>5, <2>6
<1> QED BY <1>1, <1>2

(***************************************************************************)
(* What the steps do to the state.                                         *)
(***************************************************************************)

\* conv_write() and gc_write_page() change one page, one line counter and one
\* entry of each table.
LEMMA ProgramEffect ==
    ASSUME TypeOK, NEW w \in WritePointers, w.curline \in Lines,
           NEW lpn \in LPNs, program_page(w, lpn)
    PROVE  LET p == <<w.curline, w.off>> IN
           /\ p \in Pages
           /\ \A q \in Pages : pg'[q] = IF q = p THEN PG_VALID ELSE pg[q]
           /\ \A q \in Pages : rmap'[q] = IF q = p THEN lpn ELSE rmap[q]
           /\ \A m \in LPNs : maptbl'[m] = IF m = lpn THEN p ELSE maptbl[m]
           /\ \A l \in Lines :
                 /\ line'[l].ipc = line[l].ipc
                 /\ line'[l].vpc = IF l = w.curline THEN line[l].vpc + 1
                                                    ELSE line[l].vpc
<1> DEFINE p == <<w.curline, w.off>>
<1>1. p \in Pages /\ get_new_page(w) = p
  BY DEF get_new_page, Pages, WritePointers
<1>2. /\ pg' = [pg EXCEPT ![p] = PG_VALID]
      /\ rmap' = [rmap EXCEPT ![p] = lpn]
      /\ maptbl' = [maptbl EXCEPT ![lpn] = p]
      /\ line' = [line EXCEPT ![p[1]] = validate_counts(@)]
  BY <1>1 DEF program_page, mark_page_valid
<1>3. p[1] = w.curline
  OBVIOUS
<1> HIDE DEF p
<1>4. /\ \A q \in Pages : pg'[q] = IF q = p THEN PG_VALID ELSE pg[q]
      /\ \A q \in Pages : rmap'[q] = IF q = p THEN lpn ELSE rmap[q]
      /\ \A m \in LPNs : maptbl'[m] = IF m = lpn THEN p ELSE maptbl[m]
  BY <1>1, <1>2 DEF TypeOK
<1>5. \A l \in Lines :
         /\ line'[l].ipc = line[l].ipc
         /\ line'[l].vpc = IF l = w.curline THEN line[l].vpc + 1 ELSE line[l].vpc
  BY <1>2, <1>3 DEF TypeOK, validate_counts, Counters
<1> QED BY <1>1, <1>4, <1>5 DEF p

\* start_overwrite() changes the status of one page and one line counter.
LEMMA InvalidateEffect ==
    ASSUME TypeOK, NEW p \in Pages, mark_page_invalid(p)
    PROVE  /\ \A q \in Pages : pg'[q] = IF q = p THEN PG_INVALID ELSE pg[q]
           /\ \A l \in Lines :
                 /\ line'[l].ipc = IF l = p[1] THEN line[l].ipc + 1
                                               ELSE line[l].ipc
                 /\ line'[l].vpc = IF l = p[1] THEN line[l].vpc - 1
                                               ELSE line[l].vpc
           /\ IF line[p[1]].vpc = PgsPerLine
              THEN /\ full_line_list' = full_line_list \ {p[1]}
                   /\ victim_line_pq' = victim_line_pq \cup {p[1]}
              ELSE UNCHANGED <<full_line_list, victim_line_pq>>
           /\ UNCHANGED free_line_list
<1>1. /\ pg' = [pg EXCEPT ![p] = PG_INVALID]
      /\ line' = [line EXCEPT ![p[1]] = invalidate_counts(@)]
      /\ UNCHANGED free_line_list
  BY DEF mark_page_invalid
<1>2. IF line[p[1]].vpc = PgsPerLine
      THEN /\ full_line_list' = full_line_list \ {p[1]}
           /\ victim_line_pq' = victim_line_pq \cup {p[1]}
      ELSE UNCHANGED <<full_line_list, victim_line_pq>>
  BY DEF mark_page_invalid, was_full_line
<1>3. \A q \in Pages : pg'[q] = IF q = p THEN PG_INVALID ELSE pg[q]
  BY <1>1 DEF TypeOK
<1>4. \A l \in Lines :
         /\ line'[l].ipc = IF l = p[1] THEN line[l].ipc + 1 ELSE line[l].ipc
         /\ line'[l].vpc = IF l = p[1] THEN line[l].vpc - 1 ELSE line[l].vpc
  BY <1>1 DEF TypeOK, invalidate_counts
<1> QED BY <1>1, <1>2, <1>3, <1>4

\* advance_write_pointer() inside a line, and across the end of one.
LEMMA RetireEffect ==
    ASSUME TypeOK, NEW w \in WritePointers, retire_line(w),
           NoRepeat(free_line_list)
    PROVE  /\ ~line_is_used_up(w) =>
                 /\ advanced(w).curline = w.curline
                 /\ advanced(w).off = w.off + 1
                 /\ UNCHANGED <<free_line_list, full_line_list, victim_line_pq>>
           /\ line_is_used_up(w) =>
                 /\ advanced(w).off = 0
                 /\ IF line'[w.curline].vpc = PgsPerLine
                    THEN /\ full_line_list' = full_line_list \cup {w.curline}
                         /\ victim_line_pq' = victim_line_pq
                    ELSE /\ full_line_list' = full_line_list
                         /\ victim_line_pq' = victim_line_pq \cup {w.curline}
           /\ line_is_used_up(w) /\ advanced(w).curline # NULL =>
                 /\ advanced(w).curline \in FreeLines
                 /\ FreeLines' = FreeLines \ {advanced(w).curline}
                 /\ NoRepeat(free_line_list')
<1>1. CASE ~line_is_used_up(w)
  BY <1>1 DEF retire_line, advanced
<1>2. CASE line_is_used_up(w)
  <2>1. /\ advanced(w).off = 0
        /\ IF line'[w.curline].vpc = PgsPerLine
           THEN /\ full_line_list' = full_line_list \cup {w.curline}
                /\ victim_line_pq' = victim_line_pq
           ELSE /\ full_line_list' = full_line_list
                /\ victim_line_pq' = victim_line_pq \cup {w.curline}
    BY <1>2 DEF retire_line, advanced
  <2>2. ASSUME advanced(w).curline # NULL
        PROVE  /\ advanced(w).curline \in FreeLines
               /\ FreeLines' = FreeLines \ {advanced(w).curline}
               /\ NoRepeat(free_line_list')
    <3>1. /\ free_line_list # <<>>
          /\ advanced(w).curline = Head(free_line_list)
          /\ free_line_list' = Tail(free_line_list)
      BY <1>2, <2>2 DEF retire_line, advanced, next_free_line
    <3>2. free_line_list \in Seq(Lines)
      BY DEF TypeOK
    <3>3. /\ Head(free_line_list) \in Elems(free_line_list)
          /\ NoRepeat(Tail(free_line_list))
          /\ Elems(Tail(free_line_list))
               = Elems(free_line_list) \ {Head(free_line_list)}
      BY <3>1, <3>2, TakeFirst
    <3> QED BY <3>1, <3>3 DEF FreeLines, Elems
  <2> QED BY <1>2, <2>1, <2>2
<1> QED BY <1>1, <1>2

(***************************************************************************)
(* The inductive invariant.  No part is inductive alone: the lists stay    *)
(* disjoint because vpc == pgs_per_line identifies the lines on the full   *)
(* list, which needs the counters to be exact; the counters are exact      *)
(* because only erased pages are programmed; where the erased pages are    *)
(* depends on the lists; and a page is erased only when nothing maps to    *)
(* it, which needs the two tables to agree.                                *)
(***************************************************************************)
IInv ==
    /\ TypeOK
    /\ ControlOK
    /\ LinesPartitioned
    /\ ErasedPagesInPlace
    /\ LineCountersExact
    /\ ListsMatchCounters
    /\ MappingConsistent
    /\ NoOrphanPage

\* w is a write pointer with an open line that is on no list
OpenAt(w) ==
    /\ w \in WritePointers /\ w.curline \in Lines
    /\ w.curline \notin Listed
    /\ w.curline # gc.victim
    /\ \A o \in Offsets : pg[<<w.curline, o>>] = PG_FREE <=> o >= w.off

LEMMA OpenLines ==
    ASSUME IInv, ~Halted
    PROVE  OpenAt(wp) /\ OpenAt(gc_wp)
<1>1. wp \in WritePointers /\ gc_wp \in WritePointers
      /\ wp.curline \in Lines /\ gc_wp.curline \in Lines
  BY DEF IInv, TypeOK, Halted, WritePointers
<1>2. Partition(wp.curline, gc_wp.curline, gc.victim)
  BY DEF IInv, LinesPartitioned
<1>3. ASSUME NEW l \in Lines, NEW o \in Offsets
      PROVE  pg[<<l, o>>] = PG_FREE <=>
                \/ l \in FreeLines
                \/ l = wp.curline /\ o >= wp.off
                \/ l = gc_wp.curline /\ o >= gc_wp.off
                \/ l = gc.victim /\ BlockErased(<<l, o>>)
  <2>1. <<l, o>> \in Pages
    BY DEF Pages
  <2> QED BY <2>1 DEF IInv, ErasedPagesInPlace, Ahead
<1>4. OpenAt(wp)
  BY <1>1, <1>2, <1>3 DEF OpenAt, Partition, Listed
<1>5. OpenAt(gc_wp)
  BY <1>1, <1>2, <1>3 DEF OpenAt, Partition, Listed
<1> QED BY <1>4, <1>5

\* the first erased page of an open line is where the write pointer stands
LEMMA ProgramErased ==
    ASSUME NEW w, OpenAt(w)
    PROVE  w.off \in Offsets /\ pg[<<w.curline, w.off>>] = PG_FREE
<1>1. w.off \in Offsets /\ w.off >= w.off
  BY SizeAssumption DEF OpenAt, WritePointers, Offsets
<1> QED BY <1>1 DEF OpenAt

LEMMA ProgramLineCounters ==
    ASSUME TypeOK, LineCountersExact, NEW w, OpenAt(w), NEW lpn \in LPNs,
           program_page(w, lpn), gc'.victim = gc.victim
    PROVE  LineCountersExact'
<1> DEFINE V(l) == PagesOfLine(l, PG_VALID)
           I(l) == PagesOfLine(l, PG_INVALID)
<1>1. w.off \in Offsets /\ pg[<<w.curline, w.off>>] = PG_FREE
  BY ProgramErased
<1>2. /\ \A q \in Pages :
            pg'[q] = IF q = <<w.curline, w.off>> THEN PG_VALID ELSE pg[q]
      /\ \A l \in Lines :
            /\ line'[l].ipc = line[l].ipc
            /\ line'[l].vpc = IF l = w.curline THEN line[l].vpc + 1
                                               ELSE line[l].vpc
  BY ProgramEffect DEF OpenAt
<1>3. ASSUME NEW l \in Lines \ {gc.victim}
      PROVE  /\ line'[l].vpc = Cardinality(V(l)')
             /\ line'[l].ipc = Cardinality(I(l)')
  <2>1. /\ line[l].vpc = Cardinality(V(l))
        /\ line[l].ipc = Cardinality(I(l))
    BY DEF LineCountersExact
  <2>2. \A o \in Offsets : <<l, o>> \in Pages
    BY DEF Pages
  <2>3. I(l)' = I(l)
    BY <1>1, <1>2, <2>2 DEF PagesOfLine, PG_VALID, PG_INVALID, PG_FREE
  <2>4. CASE l # w.curline
    <3>1. V(l)' = V(l)
      BY <1>2, <2>2, <2>4 DEF PagesOfLine
    <3> QED BY <1>2, <2>1, <2>3, <2>4, <3>1
  <2>5. CASE l = w.curline
    <3>1. V(l)' = V(l) \cup {w.off} /\ w.off \notin V(l) /\ V(l) \subseteq Offsets
      BY <1>1, <1>2, <2>2, <2>5 DEF PagesOfLine, PG_VALID, PG_FREE
    <3>2. Cardinality(V(l)') = Cardinality(V(l)) + 1
      <4> HIDE DEF V
      <4> QED BY <1>1, <3>1, OffsetSets
    <3> QED BY <1>2, <2>1, <2>3, <2>5, <3>2
  <2> QED BY <2>4, <2>5
<1> QED BY <1>3 DEF LineCountersExact

LEMMA ProgramLists ==
    ASSUME TypeOK, ListsMatchCounters, NEW w, OpenAt(w), NEW lpn \in LPNs,
           NoRepeat(free_line_list), program_page(w, lpn),
           gc'.victim = gc.victim, LineCountersExact'
    PROVE  ListsMatchCounters'
<1> DEFINE V(l) == PagesOfLine(l, PG_VALID)
           I(l) == PagesOfLine(l, PG_INVALID)
           c == w.curline
<1>1. /\ c \in Lines /\ w \in WritePointers /\ w.off \in Offsets
      /\ c \notin full_line_list /\ c \notin victim_line_pq /\ c # gc.victim
      /\ \A o \in Offsets : pg[<<c, o>>] = PG_FREE <=> o >= w.off
  BY DEF OpenAt, Listed, WritePointers
<1>2. /\ \A q \in Pages : pg'[q] = IF q = <<c, w.off>> THEN PG_VALID ELSE pg[q]
      /\ \A l \in Lines :
            /\ line'[l].ipc = line[l].ipc
            /\ line'[l].vpc = IF l = c THEN line[l].vpc + 1 ELSE line[l].vpc
  BY <1>1, ProgramEffect
<1>3. retire_line(w)
  BY DEF program_page
<1>4. /\ line'[c].vpc = Cardinality(V(c)') /\ line'[c].ipc = Cardinality(I(c)')
      /\ V(c)' \subseteq Offsets /\ I(c)' \subseteq Offsets
  BY <1>1 DEF LineCountersExact, PagesOfLine
<1>5. \A o \in Offsets :
         /\ <<c, o>> \in Pages
         /\ pg'[<<c, o>>] = IF o = w.off THEN PG_VALID ELSE pg[<<c, o>>]
  BY <1>1, <1>2 DEF Pages
<1>6. CASE ~line_is_used_up(w)
  <2>1. UNCHANGED <<full_line_list, victim_line_pq>>
    BY <1>1, <1>3, <1>6, RetireEffect
  <2>2. w.off + 1 \in Offsets /\ w.off + 1 \notin V(c)'
    BY <1>1, <1>5, <1>6, SizeAssumption
    DEF line_is_used_up, Offsets, PagesOfLine, PG_VALID, PG_FREE
  <2>3. line'[c].vpc # PgsPerLine
    <3> HIDE DEF V, I
    <3> QED BY <1>4, <2>2, OffsetSets
  <2> QED BY <1>1, <1>2, <2>1, <2>3 DEF ListsMatchCounters, TypeOK
<1>7. CASE line_is_used_up(w)
  <2>1. IF line'[c].vpc = PgsPerLine
        THEN /\ full_line_list' = full_line_list \cup {c}
             /\ victim_line_pq' = victim_line_pq
        ELSE /\ full_line_list' = full_line_list
             /\ victim_line_pq' = victim_line_pq \cup {c}
    BY <1>1, <1>3, <1>7, RetireEffect
  <2>2. ASSUME I(c)' = {} PROVE V(c)' = Offsets
    <3>1. ASSUME NEW o \in Offsets PROVE pg'[<<c, o>>] = PG_VALID
      <4>1. o = w.off \/ ~(o >= w.off)
        BY <1>1, <1>7, SizeAssumption DEF line_is_used_up, Offsets
      <4>2. pg[<<c, o>>] \in Statuses
        BY <1>5 DEF TypeOK
      <4>3. pg'[<<c, o>>] # PG_INVALID
        BY <2>2 DEF PagesOfLine
      <4> QED BY <1>1, <1>5, <4>1, <4>2, <4>3 DEF Statuses
    <3> QED BY <3>1 DEF PagesOfLine
  <2>3. line'[c].vpc # PgsPerLine => line'[c].ipc > 0
    <3> HIDE DEF V, I
    <3> QED BY <1>4, <2>2, OffsetSets
  <2>4. \A l \in Lines : line'[l].vpc = PgsPerLine <=> l \in full_line_list'
    BY <1>1, <1>2, <2>1 DEF ListsMatchCounters
  <2>5. \A l \in victim_line_pq' \cup ({gc'.victim} \ {NULL}) : line'[l].ipc > 0
    <3>1. \A l \in victim_line_pq \cup ({gc.victim} \ {NULL}) :
             l \in Lines /\ line'[l].ipc > 0
      BY <1>2 DEF ListsMatchCounters, TypeOK
    <3> QED BY <2>1, <2>3, <3>1
  <2> QED BY <2>4, <2>5 DEF ListsMatchCounters
<1> QED BY <1>6, <1>7

LEMMA ProgramPartition ==
    ASSUME TypeOK, NEW w \in WritePointers, NEW b, NEW v,
           Partition(w.curline, b, v), retire_line(w),
           w.curline \in Lines, NEW n, n = advanced(w).curline, n # NULL
    PROVE  Partition(n, b, v)'
<1> DEFINE a == w.curline
<1>1. NoRepeat(free_line_list)
  BY DEF Partition, NoRepeat
<1>2. CASE ~line_is_used_up(w)
  <2>1. n = a /\ UNCHANGED <<free_line_list, full_line_list, victim_line_pq>>
    BY <1>1, <1>2, RetireEffect
  <2> QED BY <2>1 DEF Partition, Listed, FreeLines
<1>3. CASE line_is_used_up(w)
  <2>1. /\ n \in FreeLines
        /\ FreeLines' = FreeLines \ {n}
        /\ NoRepeat(free_line_list')
        /\ \/ /\ full_line_list' = full_line_list \cup {a}
              /\ victim_line_pq' = victim_line_pq
           \/ /\ full_line_list' = full_line_list
              /\ victim_line_pq' = victim_line_pq \cup {a}
    BY <1>1, <1>3, RetireEffect
  <2>2. Partition(a, b, v)
    OBVIOUS
  <2>3. n \notin full_line_list \cup victim_line_pq /\ n # a /\ n # b /\ n # v
    BY <2>1, <2>2 DEF Partition, Listed
  <2>4. Listed' = (Listed \ {n}) \cup {a}
    BY <2>1, <2>3 DEF Listed
  <2>5. /\ full_line_list' \cap victim_line_pq' = {}
        /\ FreeLines' \cap (full_line_list' \cup victim_line_pq') = {}
    BY <2>1, <2>2 DEF Partition, Listed
  <2>6. n \notin Listed' /\ b \notin Listed' /\ v \notin Listed'
    BY <2>2, <2>3, <2>4 DEF Partition
  <2>7. Lines = Listed' \cup {n, b} \cup ({v} \ {NULL})
    BY <2>1, <2>2, <2>4 DEF Partition, Listed
  <2> QED BY <2>1, <2>2, <2>3, <2>5, <2>6, <2>7 DEF Partition, NoRepeat
<1> QED BY <1>2, <1>3

LEMMA PartitionSymmetric ==
    ASSUME NEW a, NEW b, NEW v
    PROVE  Partition(a, b, v) <=> Partition(b, a, v)
BY DEF Partition

(***************************************************************************)
(* One lemma per action.                                                   *)
(***************************************************************************)
LEMMA InitInv == Init => IInv
<1> SUFFICES ASSUME Init PROVE IInv
  OBVIOUS
<1>1. TypeOK /\ ControlOK
  BY InitTypeControl
<1> USE DEF Init, conv_init_ftl
<1> DEFINE s == InitialFree
<1>2. /\ s \in Seq(Lines) /\ Len(s) \in Nat /\ Len(s) > 2 /\ DOMAIN s = 1 .. Len(s)
      /\ free_line_list = SubSeq(s, 3, Len(s))
      /\ DOMAIN free_line_list = 1 .. Len(s) - 2
      /\ \A i \in 1 .. Len(s) - 2 : free_line_list[i] = s[i + 2]
      /\ wp.curline = s[1] /\ gc_wp.curline = s[2] /\ gc.victim = NULL
      /\ full_line_list = {} /\ victim_line_pq = {}
  BY LinesAssumption
<1>3. Partition(s[1], s[2], NULL)
  <2>1. \A x : x \in FreeLines <=> \E i \in 3 .. Len(s) : x = s[i]
    <3>1. \A x \in FreeLines : \E i \in 3 .. Len(s) : x = s[i]
      BY <1>2 DEF FreeLines
    <3>2. ASSUME NEW i \in 3 .. Len(s) PROVE s[i] \in FreeLines
      <4>1. i - 2 \in 1 .. Len(s) - 2 /\ free_line_list[i - 2] = s[i]
        BY <1>2
      <4> QED BY <1>2, <4>1 DEF FreeLines
    <3> QED BY <3>1, <3>2
  <2>2. /\ \A i, j \in 1 .. Len(s) : s[i] = s[j] => i = j
        /\ \A l \in Lines : \E i \in 1 .. Len(s) : s[i] = l
        /\ \A i \in 1 .. Len(s) : s[i] \in Lines
    BY LinesAssumption, <1>2
  <2>3. \A i, j \in DOMAIN free_line_list :
           free_line_list[i] = free_line_list[j] => i = j
    <3> TAKE i, j \in DOMAIN free_line_list
    <3>1. /\ i + 2 \in 1 .. Len(s) /\ j + 2 \in 1 .. Len(s)
          /\ free_line_list[i] = s[i + 2] /\ free_line_list[j] = s[j + 2]
          /\ i \in Int /\ j \in Int
      BY <1>2
    <3>2. s[i + 2] = s[j + 2] => i + 2 = j + 2
      BY <2>2, <3>1
    <3> QED BY <3>1, <3>2
  <2>4. Listed = FreeLines
    BY <1>2 DEF Listed
  <2>5. s[1] \notin Listed /\ s[2] \notin Listed /\ s[1] # s[2]
    BY <1>2, <2>1, <2>2, <2>4
  <2>6. NULL \notin Listed /\ NULL # s[1] /\ NULL # s[2]
    BY <1>2, <2>1, <2>2, <2>4, NullAssumption
  <2>7. \A l : l \in Lines <=> l \in Listed \cup {s[1], s[2]}
    <3>1. \A l \in Lines : l \in Listed \cup {s[1], s[2]}
      <4> TAKE l \in Lines
      <4>1. PICK i \in 1 .. Len(s) : s[i] = l
        BY <2>2
      <4>2. i = 1 \/ i = 2 \/ i \in 3 .. Len(s)
        BY <1>2
      <4> QED BY <2>1, <2>4, <4>1, <4>2
    <3>2. \A l \in Listed \cup {s[1], s[2]} : l \in Lines
      BY <1>2, <2>1, <2>2, <2>4
    <3> QED BY <3>1, <3>2
  <2> HIDE DEF s
  <2> QED BY <1>2, <2>3, <2>5, <2>6, <2>7 DEF Partition
<1>4. LinesPartitioned
  BY <1>2, <1>3 DEF LinesPartitioned
<1>5. ErasedPagesInPlace
  <2> SUFFICES ASSUME NEW p \in Pages
               PROVE  p[1] \in FreeLines \/ Ahead(p, wp) \/ Ahead(p, gc_wp)
    BY DEF ErasedPagesInPlace
  <2>1. p[1] \in Lines /\ p[2] >= 0
    BY SizeAssumption DEF Pages, Offsets
  <2> QED BY <1>2, <1>3, <2>1 DEF Partition, Listed, Ahead
<1>6. LineCountersExact
  <2>1. \A l \in Lines : PagesOfLine(l, PG_VALID) = {} /\ PagesOfLine(l, PG_INVALID) = {}
    BY DEF PagesOfLine, Pages, PG_VALID, PG_INVALID, PG_FREE
  <2> QED BY <2>1, FS_EmptySet DEF LineCountersExact
<1>7. ListsMatchCounters
  BY SizeAssumption DEF ListsMatchCounters
<1>8. MappingConsistent /\ NoOrphanPage
  BY DEF MappingConsistent, NoOrphanPage, mapped_ppa, PG_VALID, PG_FREE
<1> QED BY <1>1, <1>4, <1>5, <1>6, <1>7, <1>8 DEF IInv

LEMMA StartNewPageInv ==
    ASSUME IInv, TypeOK', ControlOK', NEW lpn \in LPNs, start_new_page(lpn)
    PROVE  IInv'
<1> USE DEF mapvars, nandvars, linevars
<1>1. /\ UNCHANGED <<mapvars, nandvars, linevars, wp, gc_wp, wfc, gc>>
      /\ pc = "write" /\ pc' = "program" /\ cur' = lpn
      /\ maptbl[lpn] = UNMAPPED_PPA
  BY DEF start_new_page, mapped_ppa
<1>2. LinesPartitioned'
  BY <1>1 DEF IInv, LinesPartitioned, Halted, Partition, Listed, FreeLines
<1>3. ErasedPagesInPlace'
  BY <1>1 DEF IInv, ErasedPagesInPlace, Halted, FreeLines, Ahead, BlockErased
<1>4. LineCountersExact' /\ ListsMatchCounters'
  BY <1>1 DEF IInv, LineCountersExact, ListsMatchCounters, PagesOfLine
<1>5. cur = INVALID_LPN
  BY <1>1 DEF IInv, ControlOK
<1>6. MappingConsistent'
  BY <1>1, <1>5, NullAssumption DEF IInv, MappingConsistent, Visited
<1>7. NoOrphanPage'
  BY <1>1, <1>5, NullAssumption DEF IInv, NoOrphanPage, Visited
<1> QED BY <1>2, <1>3, <1>4, <1>6, <1>7 DEF IInv

LEMMA StartOverwriteInv ==
    ASSUME IInv, TypeOK', ControlOK', NEW lpn \in LPNs, start_overwrite(lpn)
    PROVE  IInv'
<1> DEFINE old == maptbl[lpn]
<1>1. /\ mark_page_invalid(old)
      /\ UNCHANGED <<maptbl, wp, gc_wp, wfc, gc>>
      /\ rmap' = [rmap EXCEPT ![old] = INVALID_LPN]
      /\ pc = "write" /\ pc' = "program" /\ cur' = lpn /\ ~Halted
  BY DEF start_overwrite
<1>2. /\ TypeOK /\ cur = INVALID_LPN /\ gc.victim = NULL
      /\ mapped_ppa(old) /\ old \in Pages
  BY <1>1 DEF start_overwrite, mapped_ppa, IInv, TypeOK, ControlOK
<1>3. pg[old] = PG_VALID /\ rmap[old] = lpn /\ ~Visited(old)
  BY <1>2, NullAssumption DEF IInv, MappingConsistent
<1>4. /\ \A q \in Pages : pg'[q] = IF q = old THEN PG_INVALID ELSE pg[q]
      /\ \A l \in Lines :
            /\ line'[l].ipc = IF l = old[1] THEN line[l].ipc + 1 ELSE line[l].ipc
            /\ line'[l].vpc = IF l = old[1] THEN line[l].vpc - 1 ELSE line[l].vpc
      /\ IF line[old[1]].vpc = PgsPerLine
         THEN /\ full_line_list' = full_line_list \ {old[1]}
              /\ victim_line_pq' = victim_line_pq \cup {old[1]}
         ELSE UNCHANGED <<full_line_list, victim_line_pq>>
      /\ UNCHANGED free_line_list
  BY <1>1, <1>2, InvalidateEffect
<1>5. old[1] \in Lines /\ old[2] \in Offsets /\ old = <<old[1], old[2]>>
  BY <1>2 DEF Pages
<1> HIDE DEF old
<1>6. line[old[1]].vpc = PgsPerLine <=> old[1] \in full_line_list
  BY <1>5 DEF IInv, ListsMatchCounters
<1>7. FreeLines' = FreeLines
  BY <1>4 DEF FreeLines
<1>8. LinesPartitioned'
  <2>1. Partition(wp.curline, gc_wp.curline, gc.victim)
    BY <1>1 DEF IInv, LinesPartitioned
  <2>2. Listed' = Listed
    BY <1>4, <1>6, <1>7 DEF Listed
  <2>3. /\ full_line_list' \cap victim_line_pq' = {}
        /\ FreeLines' \cap (full_line_list' \cup victim_line_pq') = {}
    BY <1>4, <1>6, <1>7, <2>1 DEF Partition
  <2>4. Partition(wp.curline, gc_wp.curline, gc.victim)'
    BY <1>1, <1>4, <2>1, <2>2, <2>3 DEF Partition
  <2> QED BY <2>4 DEF LinesPartitioned
<1>9. ErasedPagesInPlace'
  <2>1. \A q \in Pages : pg'[q] = PG_FREE <=> pg[q] = PG_FREE
    BY <1>3, <1>4 DEF PG_FREE, PG_VALID, PG_INVALID
  <2>2. \A q \in Pages : q[1] # gc.victim
    BY <1>2, NullAssumption DEF Pages
  <2> QED BY <1>1, <1>7, <2>1, <2>2
          DEF IInv, ErasedPagesInPlace, Halted, Ahead
<1>10. LineCountersExact'
  <2> DEFINE V(l) == PagesOfLine(l, PG_VALID)
             I(l) == PagesOfLine(l, PG_INVALID)
  <2> SUFFICES ASSUME NEW l \in Lines
               PROVE  /\ line'[l].vpc = Cardinality(V(l)')
                      /\ line'[l].ipc = Cardinality(I(l)')
    BY DEF LineCountersExact
  <2>1. line[l].vpc = Cardinality(V(l)) /\ line[l].ipc = Cardinality(I(l))
    BY <1>2, NullAssumption DEF IInv, LineCountersExact
  <2>2. \A o \in Offsets : <<l, o>> \in Pages
    BY DEF Pages
  <2>3. CASE l # old[1]
    <3>1. V(l)' = V(l) /\ I(l)' = I(l)
      BY <1>4, <1>5, <2>2, <2>3 DEF PagesOfLine
    <3> QED BY <1>4, <2>1, <2>3, <3>1
  <2>4. CASE l = old[1]
    <3>1. /\ V(l)' = V(l) \ {old[2]} /\ old[2] \in V(l)
          /\ I(l)' = I(l) \cup {old[2]} /\ old[2] \notin I(l)
          /\ V(l) \subseteq Offsets /\ I(l) \subseteq Offsets
      BY <1>3, <1>4, <1>5, <2>2, <2>4 DEF PagesOfLine, PG_VALID, PG_INVALID
    <3>2. /\ Cardinality(V(l)') = Cardinality(V(l)) - 1
          /\ Cardinality(I(l)') = Cardinality(I(l)) + 1
      <4> HIDE DEF V, I
      <4> QED BY <1>5, <3>1, OffsetSets
    <3> QED BY <1>4, <2>1, <2>4, <3>2
  <2> QED BY <2>3, <2>4
<1>11. ListsMatchCounters'
  <2>1. line[old[1]].vpc \in Int /\ line[old[1]].vpc <= PgsPerLine
        /\ line[old[1]].ipc \in Int /\ line[old[1]].ipc >= 0
    <3>1. /\ line[old[1]].vpc = Cardinality(PagesOfLine(old[1], PG_VALID))
          /\ line[old[1]].ipc = Cardinality(PagesOfLine(old[1], PG_INVALID))
      BY <1>2, <1>5, NullAssumption DEF IInv, LineCountersExact
    <3>2. /\ PagesOfLine(old[1], PG_VALID) \in SUBSET Offsets
          /\ PagesOfLine(old[1], PG_INVALID) \in SUBSET Offsets
      BY DEF PagesOfLine
    <3> QED BY <3>1, <3>2, OffsetSets, SizeAssumption
  <2>2. \A l \in Lines : line'[l].vpc = PgsPerLine <=> l \in full_line_list'
    BY <1>4, <1>5, <1>6, <2>1, SizeAssumption DEF IInv, ListsMatchCounters
  <2>3. \A l \in victim_line_pq' \cup ({gc'.victim} \ {NULL}) : line'[l].ipc > 0
    <3>1. \A l \in victim_line_pq : l \in Lines /\ line[l].ipc > 0
      BY DEF IInv, ListsMatchCounters, TypeOK
    <3> QED BY <1>1, <1>2, <1>4, <1>5, <2>1, <3>1
  <2> QED BY <2>2, <2>3 DEF ListsMatchCounters
<1>12. MappingConsistent'
  <2> SUFFICES ASSUME NEW m \in LPNs, m # lpn, mapped_ppa(maptbl[m])
               PROVE  /\ pg'[maptbl[m]] = PG_VALID
                      /\ rmap'[maptbl[m]] = m
                      /\ ~Visited(maptbl[m])'
    BY <1>1 DEF MappingConsistent
  <2>1. /\ maptbl[m] \in Pages /\ pg[maptbl[m]] = PG_VALID
        /\ rmap[maptbl[m]] = m /\ ~Visited(maptbl[m])
    BY <1>2, NullAssumption DEF IInv, MappingConsistent, TypeOK, mapped_ppa
  <2>2. maptbl[m] # old
    BY <1>3, <2>1
  <2> QED BY <1>1, <1>2, <1>4, <2>1, <2>2 DEF Visited, TypeOK
<1>13. NoOrphanPage'
  <2> SUFFICES ASSUME NEW q \in Pages, pg'[q] = PG_VALID, ~Visited(q)'
               PROVE  rmap'[q] \in LPNs \ {lpn} /\ maptbl[rmap'[q]] = q
    BY <1>1 DEF NoOrphanPage
  <2>1. q # old /\ pg[q] = PG_VALID /\ ~Visited(q)
    BY <1>1, <1>4 DEF PG_VALID, PG_INVALID, Visited
  <2>2. rmap'[q] = rmap[q] /\ rmap[q] \in LPNs /\ maptbl[rmap[q]] = q
    BY <1>1, <1>2, <2>1 DEF IInv, NoOrphanPage, TypeOK
  <2> QED BY <2>1, <2>2 DEF old
<1> QED BY <1>8, <1>9, <1>10, <1>11, <1>12, <1>13 DEF IInv

LEMMA WritePageInv ==
    ASSUME IInv, TypeOK', ControlOK', write_page
    PROVE  IInv'
<1> DEFINE p == <<wp.curline, wp.off>>
<1>1. /\ program_page(wp, cur) /\ retire_line(wp)
      /\ wp' = advanced(wp)
      /\ UNCHANGED <<gc_wp, gc>>
      /\ cur' = INVALID_LPN /\ ~Halted /\ pc = "program"
  BY DEF write_page, program_page
<1>2. /\ TypeOK /\ cur \in LPNs /\ gc.victim = NULL
  BY <1>1 DEF IInv, TypeOK, ControlOK
<1>3. OpenAt(wp) /\ wp \in WritePointers /\ wp.curline \in Lines
  BY <1>1, OpenLines DEF OpenAt
<1>4. Partition(wp.curline, gc_wp.curline, gc.victim)
  BY <1>1 DEF IInv, LinesPartitioned
<1>5. NoRepeat(free_line_list)
  BY <1>4 DEF Partition, NoRepeat
<1>6. /\ p \in Pages
      /\ \A q \in Pages : pg'[q] = IF q = p THEN PG_VALID ELSE pg[q]
      /\ \A q \in Pages : rmap'[q] = IF q = p THEN cur ELSE rmap[q]
      /\ \A m \in LPNs : maptbl'[m] = IF m = cur THEN p ELSE maptbl[m]
  BY <1>1, <1>2, <1>3, ProgramEffect
<1>7. pg[p] = PG_FREE /\ wp.off \in Offsets
  BY <1>3, ProgramErased
<1>8. \A q \in Pages : q[1] # gc.victim /\ ~Visited(q) /\ ~Visited(q)'
  BY <1>1, <1>2, NullAssumption DEF Pages, Visited
<1>9. LinesPartitioned'
  <2> SUFFICES ASSUME ~Halted'
               PROVE  Partition(wp.curline, gc_wp.curline, gc.victim)'
    BY DEF LinesPartitioned
  <2>1. wp'.curline # NULL
    BY DEF Halted
  <2>2. \A n : n = wp'.curline => Partition(n, gc_wp.curline, gc.victim)'
    <3> DEFINE b == gc_wp.curline
               v == gc.victim
    <3>1. \A n, bb, vv : /\ n = wp'.curline /\ bb = b /\ vv = v
                         => Partition(n, bb, vv)'
      BY <1>1, <1>2, <1>3, <1>4, <2>1, ProgramPartition
    <3> QED BY <1>1, <3>1 DEF Partition
  <2> QED BY <2>2 DEF Partition
<1>10. ErasedPagesInPlace'
  <2> SUFFICES ASSUME ~Halted', NEW q \in Pages
               PROVE  pg'[q] = PG_FREE <=>
                        \/ q[1] \in FreeLines'
                        \/ Ahead(q, wp')
                        \/ Ahead(q, gc_wp)
    BY <1>1, <1>8 DEF ErasedPagesInPlace, Ahead
  <2>1. pg[q] = PG_FREE <=>
           \/ q[1] \in FreeLines
           \/ Ahead(q, wp)
           \/ Ahead(q, gc_wp)
    BY <1>1, <1>8 DEF IInv, ErasedPagesInPlace
  <2>2. pg'[q] = PG_FREE <=> pg[q] = PG_FREE /\ q # p
    BY <1>6, <1>7 DEF PG_FREE, PG_VALID
  <2>3. q \in Lines \X Offsets /\ q = <<q[1], q[2]>> /\ q[2] \in Offsets
    BY DEF Pages
  <2>4. wp.curline \notin FreeLines /\ wp.curline # gc_wp.curline
    BY <1>4 DEF Partition, Listed
  <2>5. CASE ~line_is_used_up(wp)
    <3>1. /\ wp'.curline = wp.curline /\ wp'.off = wp.off + 1
          /\ UNCHANGED free_line_list
      BY <1>1, <1>2, <1>3, <1>5, <2>5, RetireEffect
    <3>2. Ahead(q, wp') <=> Ahead(q, wp) /\ q # p
      BY <1>7, <2>3, <3>1, SizeAssumption DEF Ahead, Offsets
    <3>3. q[1] \in FreeLines' <=> q[1] \in FreeLines
      BY <3>1 DEF FreeLines
    <3>4. q = p => ~(q[1] \in FreeLines \/ Ahead(q, gc_wp))
      BY <2>4 DEF Ahead
    <3> QED BY <2>1, <2>2, <3>2, <3>3, <3>4
  <2>6. CASE line_is_used_up(wp)
    <3>1. wp'.curline # NULL
      BY DEF Halted
    <3>2. /\ wp'.off = 0 /\ wp'.curline \in FreeLines
          /\ FreeLines' = FreeLines \ {wp'.curline}
      BY <1>1, <1>2, <1>3, <1>5, <2>6, <3>1, RetireEffect
    <3>3. Ahead(q, wp') <=> q[1] = wp'.curline
      BY <2>3, <3>2, SizeAssumption DEF Ahead, Offsets
    <3>4. Ahead(q, wp) <=> q = p
      BY <1>7, <2>3, <2>6, SizeAssumption DEF Ahead, Offsets, line_is_used_up
    <3>5. q = p => ~(q[1] \in FreeLines \/ Ahead(q, gc_wp))
      BY <2>4 DEF Ahead
    <3> HIDE DEF p
    <3> QED BY <2>1, <2>2, <3>2, <3>3, <3>4, <3>5
  <2> QED BY <2>5, <2>6
<1>11. LineCountersExact'
  BY <1>1, <1>2, <1>3, ProgramLineCounters DEF IInv
<1>12. ListsMatchCounters'
  BY <1>1, <1>2, <1>3, <1>5, <1>11, ProgramLists DEF IInv
<1> HIDE DEF p
<1>13. MappingConsistent'
  <2> SUFFICES ASSUME NEW m \in LPNs, mapped_ppa(maptbl'[m])
               PROVE  pg'[maptbl'[m]] = PG_VALID /\ rmap'[maptbl'[m]] = m
                      /\ ~Visited(maptbl[m])'
    BY DEF MappingConsistent
  <2>1. CASE m = cur
    BY <1>6, <1>8, <2>1
  <2>2. CASE m # cur
    <3>1. /\ maptbl'[m] = maptbl[m] /\ maptbl[m] \in Pages
          /\ pg[maptbl[m]] = PG_VALID /\ rmap[maptbl[m]] = m
      BY <1>2, <1>6, <2>2 DEF IInv, MappingConsistent, TypeOK, mapped_ppa
    <3>2. maptbl[m] # p
      BY <1>7, <3>1 DEF PG_FREE, PG_VALID
    <3> QED BY <1>6, <1>8, <3>1, <3>2
  <2> QED BY <2>1, <2>2
<1>14. NoOrphanPage'
  <2> SUFFICES ASSUME NEW q \in Pages, pg'[q] = PG_VALID
               PROVE  rmap'[q] \in LPNs /\ maptbl'[rmap'[q]] = q
    BY <1>1, NullAssumption DEF NoOrphanPage
  <2>1. CASE q = p
    BY <1>2, <1>6, <2>1
  <2>2. CASE q # p
    <3>1. rmap'[q] = rmap[q] /\ rmap[q] \in LPNs \ {cur} /\ maptbl[rmap[q]] = q
      BY <1>6, <1>8, <2>2 DEF IInv, NoOrphanPage
    <3> QED BY <1>6, <3>1
  <2> QED BY <2>1, <2>2
<1> QED BY <1>9, <1>10, <1>11, <1>12, <1>13, <1>14 DEF IInv

LEMMA RefillInv ==
    ASSUME IInv, TypeOK', ControlOK', refill_without_gc
    PROVE  IInv'
<1>1. /\ UNCHANGED <<maptbl, rmap, pg, blk, line, free_line_list,
                     full_line_list, victim_line_pq, wp, gc_wp, gc, cur>>
      /\ pc = "refill" /\ pc' = "write"
  BY DEF refill_without_gc, mapvars, nandvars, linevars
<1>2. LinesPartitioned'
  BY <1>1 DEF IInv, LinesPartitioned, Halted, Partition, Listed, FreeLines
<1>3. ErasedPagesInPlace'
  BY <1>1 DEF IInv, ErasedPagesInPlace, Halted, FreeLines, Ahead, BlockErased
<1>4. LineCountersExact' /\ ListsMatchCounters'
  BY <1>1 DEF IInv, LineCountersExact, ListsMatchCounters, PagesOfLine
<1>5. MappingConsistent' /\ NoOrphanPage'
  BY <1>1 DEF IInv, MappingConsistent, NoOrphanPage, Visited
<1> QED BY <1>2, <1>3, <1>4, <1>5 DEF IInv

LEMMA DoGcInv ==
    ASSUME IInv, TypeOK', ControlOK', NEW l \in victim_line_pq, do_gc(l)
    PROVE  IInv'
<1>1. /\ UNCHANGED <<maptbl, rmap, pg, blk, line, free_line_list,
                     full_line_list, wp, gc_wp, cur>>
      /\ victim_line_pq' = victim_line_pq \ {l}
      /\ gc' = [victim |-> l, pos |-> 0]
      /\ pc = "refill" /\ pc' = "gc" /\ ~Halted
  BY DEF do_gc, mapvars, nandvars
<1>2. l \in Lines /\ gc.victim = NULL /\ gc'.victim = l /\ gc'.pos = 0 /\ l # NULL
  BY <1>1, NullAssumption DEF IInv, TypeOK, ControlOK
<1>3. Partition(wp.curline, gc_wp.curline, NULL)
  BY <1>1, <1>2 DEF IInv, LinesPartitioned
<1>4. FreeLines' = FreeLines
  BY <1>1 DEF FreeLines
<1>5. LinesPartitioned'
  <2>1. Listed' = Listed \ {l}
    BY <1>1, <1>3, <1>4 DEF Partition, Listed
  <2>2. /\ full_line_list' \cap victim_line_pq' = {}
        /\ FreeLines' \cap (full_line_list' \cup victim_line_pq') = {}
    BY <1>1, <1>3, <1>4 DEF Partition
  <2>3. l \in Listed
    BY DEF Listed
  <2>4. Partition(wp.curline, gc_wp.curline, gc.victim)'
    BY <1>1, <1>2, <1>3, <2>1, <2>2, <2>3 DEF Partition
  <2> QED BY <2>4 DEF LinesPartitioned
<1>6. \A q \in Pages : ~Visited(q) /\ ~Visited(q)'
  BY <1>2, NullAssumption DEF Pages, Visited, Offsets
<1>7. ErasedPagesInPlace'
  <2> SUFFICES ASSUME NEW q \in Pages
               PROVE  pg[q] = PG_FREE <=>
                        \/ q[1] \in FreeLines
                        \/ Ahead(q, wp)
                        \/ Ahead(q, gc_wp)
                        \/ q[1] = l /\ BlockErased(q)'
    BY <1>1, <1>2, <1>4 DEF ErasedPagesInPlace, Ahead
  <2>1. q[1] # NULL /\ q[2] \in Offsets
    BY NullAssumption DEF Pages
  <2>2. ~BlockErased(q)'
    <3>1. PICK i \in Offsets : GCOrder[i] = q[2]
      BY <2>1, LayoutAssumption
    <3>2. ~(i < gc'.pos)
      BY <1>2 DEF Offsets
    <3> QED BY <3>1, <3>2 DEF BlockErased
  <2> QED BY <1>1, <1>2, <2>1, <2>2 DEF IInv, ErasedPagesInPlace
<1>8. LineCountersExact' /\ ListsMatchCounters'
  BY <1>1, <1>2, NullAssumption
  DEF IInv, LineCountersExact, ListsMatchCounters, PagesOfLine
<1>9. MappingConsistent'
  <2>1. \A m \in LPNs : mapped_ppa(maptbl[m]) => maptbl[m] \in Pages
    BY DEF IInv, TypeOK, mapped_ppa
  <2> QED BY <1>1, <1>6, <2>1 DEF IInv, MappingConsistent
<1>10. NoOrphanPage'
  BY <1>1, <1>6 DEF IInv, NoOrphanPage
<1> QED BY <1>5, <1>7, <1>8, <1>9, <1>10 DEF IInv

\* The copy loop looks at a page it has not looked at before, and afterwards
\* exactly that page has been visited in addition.
LEMMA VisitEffect ==
    ASSUME TypeOK, ControlOK, visit_page
    PROVE  /\ gc_page \in Pages /\ gc_page[1] = gc.victim
           /\ gc.victim \in Lines /\ gc'.victim = gc.victim
           /\ cur = INVALID_LPN
           /\ ~Visited(gc_page)
           /\ \A q \in Pages : Visited(q)' <=> Visited(q) \/ q = gc_page
           /\ \A q \in Pages : BlockErased(q)' <=> BlockErased(q)
<1>1. /\ pc = "gc" /\ gc.pos \in Offsets /\ gc.victim \in Lines
      /\ gc'.victim = gc.victim /\ gc'.pos = gc.pos + 1
      /\ pc' = IF last_of_block(gc.pos) THEN "erase" ELSE "gc"
      /\ cur = INVALID_LPN
  BY SizeAssumption DEF visit_page, TypeOK, ControlOK, Offsets
<1>2. gc_page \in Pages /\ gc_page[1] = gc.victim /\ gc_page[2] = GCOrder[gc.pos]
  BY <1>1, LayoutAssumption DEF gc_page, Pages
<1>3. \A i \in Offsets : i \in Int /\ (i < gc.pos + 1 <=> i < gc.pos \/ i = gc.pos)
  BY <1>1, SizeAssumption DEF Offsets
<1>4. ~Visited(gc_page)
  <2> SUFFICES ASSUME NEW i \in Offsets, i < gc.pos, GCOrder[gc.pos] = GCOrder[i]
               PROVE  FALSE
    BY <1>2 DEF Visited
  <2>1. i = gc.pos
    BY <1>1, LayoutAssumption
  <2> QED BY <1>1, <2>1, SizeAssumption DEF Offsets
<1>5. ASSUME NEW q \in Pages PROVE Visited(q)' <=> Visited(q) \/ q = gc_page
  <2>1. q = gc_page <=> q[1] = gc.victim /\ q[2] = GCOrder[gc.pos]
    BY <1>2 DEF Pages
  <2> QED BY <1>1, <1>3, <2>1 DEF Visited
<1>6. ASSUME NEW q \in Pages PROVE BlockErased(q)' <=> BlockErased(q)
  <2> DEFINE b == BlockOf[q[2]]
             B(i) == BlockOf[GCOrder[i]]
  <2>1. gc_block' = B(gc.pos)
    BY <1>1, SizeAssumption DEF gc_block, Offsets
  <2>2. BlockErased(q) <=> \A i \in Offsets : B(i) = b => i < gc.pos
    BY <1>1 DEF BlockErased
  <2>3. BlockErased(q)' <=> /\ \A i \in Offsets : B(i) = b => i < gc.pos + 1
                            /\ pc' = "erase" => b # B(gc.pos)
    BY <1>1, <2>1 DEF BlockErased
  <2>4. CASE B(gc.pos) # b
    BY <1>1, <1>3, <2>2, <2>3, <2>4
  <2>5. CASE B(gc.pos) = b
    <3>1. ~BlockErased(q)
      BY <1>1, <2>2, <2>5, SizeAssumption DEF Offsets
    <3>2. ~BlockErased(q)'
      <4>1. CASE last_of_block(gc.pos)
        BY <1>1, <2>3, <2>5, <4>1
      <4>2. CASE ~last_of_block(gc.pos)
        <5>1. PICK j \in Offsets : j > gc.pos /\ B(j) = B(gc.pos)
          BY <4>2 DEF last_of_block
        <5>2. ~(j < gc.pos + 1)
          BY <1>1, <5>1, SizeAssumption DEF Offsets
        <5> QED BY <2>3, <2>5, <5>1, <5>2
      <4> QED BY <4>1, <4>2
    <3> QED BY <3>1, <3>2
  <2> QED BY <2>4, <2>5
<1> QED BY <1>1, <1>2, <1>4, <1>5, <1>6

LEMMA GcSkipPageInv ==
    ASSUME IInv, TypeOK', ControlOK', gc_skip_page
    PROVE  IInv'
<1>1. /\ UNCHANGED <<maptbl, rmap, pg, blk, line, free_line_list,
                     full_line_list, victim_line_pq, wp, gc_wp, cur>>
      /\ visit_page /\ ~Halted /\ pg[gc_page] # PG_VALID
  BY DEF gc_skip_page, visit_page, mapvars, nandvars, linevars
<1>2. /\ gc'.victim = gc.victim
      /\ \A q \in Pages : Visited(q)' <=> Visited(q) \/ q = gc_page
      /\ \A q \in Pages : BlockErased(q)' <=> BlockErased(q)
  BY <1>1, VisitEffect DEF IInv
<1>3. LinesPartitioned'
  BY <1>1, <1>2 DEF IInv, LinesPartitioned, Halted, Partition, Listed, FreeLines
<1>4. ErasedPagesInPlace'
  BY <1>1, <1>2 DEF IInv, ErasedPagesInPlace, Halted, FreeLines, Ahead
<1>5. LineCountersExact' /\ ListsMatchCounters'
  BY <1>1, <1>2 DEF IInv, LineCountersExact, ListsMatchCounters, PagesOfLine
<1>6. MappingConsistent'
  <2>1. \A m \in LPNs : mapped_ppa(maptbl[m]) => maptbl[m] \in Pages
    BY DEF IInv, TypeOK, mapped_ppa
  <2> QED BY <1>1, <1>2, <2>1 DEF IInv, MappingConsistent
<1>7. NoOrphanPage'
  BY <1>1, <1>2 DEF IInv, NoOrphanPage
<1> QED BY <1>3, <1>4, <1>5, <1>6, <1>7 DEF IInv

LEMMA MarkBlockFreeInv ==
    ASSUME IInv, TypeOK', ControlOK', mark_block_free
    PROVE  IInv'
<1> DEFINE Gone(q) == q[1] = gc.victim /\ BlockOf[q[2]] = gc_block
<1>1. /\ UNCHANGED <<maptbl, rmap, line, free_line_list,
                     full_line_list, victim_line_pq, wp, gc_wp, gc, cur>>
      /\ pc = "erase" /\ pc' = "gc" /\ ~Halted
      /\ \A q \in Pages : pg'[q] = IF Gone(q) THEN PG_FREE ELSE pg[q]
  BY DEF mark_block_free, mapvars, linevars
<1>2. /\ gc.pos - 1 \in Offsets /\ last_of_block(gc.pos - 1)
      /\ gc.victim \in Lines /\ gc.pos \in 1 .. PgsPerLine
  BY <1>1, SizeAssumption DEF IInv, TypeOK, ControlOK, Offsets
<1>3. \A i \in Offsets : BlockOf[GCOrder[i]] = gc_block => i < gc.pos
  BY <1>2, SizeAssumption DEF last_of_block, gc_block, Offsets
<1>4. ASSUME NEW q \in Pages, Gone(q) PROVE Visited(q)
  <2>1. PICK i \in Offsets : GCOrder[i] = q[2]
    BY LayoutAssumption DEF Pages
  <2> QED BY <1>3, <1>4, <2>1 DEF Visited
<1>5. LinesPartitioned'
  BY <1>1 DEF IInv, LinesPartitioned, Halted, Partition, Listed, FreeLines
<1>6. ErasedPagesInPlace'
  <2> SUFFICES ASSUME NEW q \in Pages
               PROVE  pg'[q] = PG_FREE <=>
                        \/ q[1] \in FreeLines
                        \/ Ahead(q, wp)
                        \/ Ahead(q, gc_wp)
                        \/ q[1] = gc.victim /\ BlockErased(q)'
    BY <1>1 DEF ErasedPagesInPlace, FreeLines, Ahead
  <2>1. pg[q] = PG_FREE <=>
           \/ q[1] \in FreeLines
           \/ Ahead(q, wp)
           \/ Ahead(q, gc_wp)
           \/ q[1] = gc.victim /\ BlockErased(q)
    BY <1>1 DEF IInv, ErasedPagesInPlace
  <2>2. q[1] = gc.victim => (BlockErased(q)' <=> BlockErased(q) \/ Gone(q))
    BY <1>1, <1>3 DEF BlockErased
  <2> QED BY <1>1, <2>1, <2>2
<1>7. LineCountersExact'
  <2>1. ASSUME NEW l \in Lines, l # gc.victim, NEW st
        PROVE  PagesOfLine(l, st)' = PagesOfLine(l, st)
    BY <1>1, <2>1 DEF PagesOfLine, Pages
  <2> QED BY <1>1, <2>1 DEF IInv, LineCountersExact
<1>8. ListsMatchCounters'
  BY <1>1 DEF IInv, ListsMatchCounters
<1>9. \A q \in Pages : Visited(q)' <=> Visited(q)
  BY <1>1 DEF Visited
<1>10. MappingConsistent'
  <2>1. \A m \in LPNs : mapped_ppa(maptbl[m]) => maptbl[m] \in Pages
    BY DEF IInv, TypeOK, mapped_ppa
  <2> QED BY <1>1, <1>4, <1>9, <2>1 DEF IInv, MappingConsistent
<1>11. NoOrphanPage'
  BY <1>1, <1>9 DEF IInv, NoOrphanPage, PG_FREE, PG_VALID
<1> QED BY <1>5, <1>6, <1>7, <1>8, <1>10, <1>11 DEF IInv

LEMMA MarkLineFreeInv ==
    ASSUME IInv, TypeOK', ControlOK', mark_line_free
    PROVE  IInv'
<1> DEFINE v == gc.victim
<1>1. /\ UNCHANGED <<maptbl, rmap, pg, blk, full_line_list, victim_line_pq,
                     wp, gc_wp, cur>>
      /\ line' = [line EXCEPT ![v] = [ipc |-> 0, vpc |-> 0]]
      /\ free_line_list' = Append(free_line_list, v)
      /\ gc'.victim = NULL
      /\ pc = "gc" /\ ~Halted /\ gc.pos = PgsPerLine
  BY DEF mark_line_free, mapvars, nandvars
<1>2. v \in Lines /\ v # NULL /\ free_line_list \in Seq(Lines)
  BY <1>1 DEF IInv, TypeOK, ControlOK
<1>3. Partition(wp.curline, gc_wp.curline, v)
  BY <1>1 DEF IInv, LinesPartitioned
<1>4. FreeLines' = FreeLines \cup {v} /\ NoRepeat(free_line_list')
  <2>1. NoRepeat(free_line_list) /\ v \notin Elems(free_line_list)
    BY <1>3 DEF Partition, NoRepeat, Elems, Listed, FreeLines
  <2>2. /\ Elems(Append(free_line_list, v)) = Elems(free_line_list) \cup {v}
        /\ NoRepeat(Append(free_line_list, v))
    BY <1>2, <2>1, PutLast
  <2> QED BY <1>1, <2>2 DEF FreeLines, Elems
<1>5. LinesPartitioned'
  <2>1. Listed' = Listed \cup {v}
    BY <1>1, <1>4 DEF Listed
  <2>2. /\ FreeLines' \cap (full_line_list' \cup victim_line_pq') = {}
        /\ full_line_list' \cap victim_line_pq' = {}
    BY <1>1, <1>3, <1>4 DEF Partition, Listed
  <2>3. NULL \notin Listed /\ wp.curline # NULL /\ gc_wp.curline # NULL
    BY <1>1, <1>3, NullAssumption DEF Partition, Halted
  <2>4. Partition(wp.curline, gc_wp.curline, NULL)'
    BY <1>1, <1>2, <1>3, <1>4, <2>1, <2>2, <2>3 DEF Partition, NoRepeat
  <2> QED BY <1>1, <2>4 DEF LinesPartitioned, Partition
<1>6. \A q \in Pages : q[1] = v => pg[q] = PG_FREE
  <2>1. \A q \in Pages : BlockErased(q)
    BY <1>1, SizeAssumption DEF BlockErased, Offsets
  <2> QED BY <1>1, <2>1 DEF IInv, ErasedPagesInPlace
<1>7. \A q \in Pages : q[1] # NULL
  BY NullAssumption DEF Pages
<1>8. ErasedPagesInPlace'
  <2> SUFFICES ASSUME NEW q \in Pages
               PROVE  pg[q] = PG_FREE <=>
                        \/ q[1] \in FreeLines'
                        \/ Ahead(q, wp)
                        \/ Ahead(q, gc_wp)
    BY <1>1, <1>7 DEF ErasedPagesInPlace, Ahead
  <2>1. pg[q] = PG_FREE <=>
           \/ q[1] \in FreeLines
           \/ Ahead(q, wp)
           \/ Ahead(q, gc_wp)
           \/ q[1] = v /\ BlockErased(q)
    BY <1>1 DEF IInv, ErasedPagesInPlace
  <2> QED BY <1>4, <1>6, <2>1
<1>9. LineCountersExact'
  <2> SUFFICES ASSUME NEW l \in Lines
               PROVE  /\ line'[l].vpc = Cardinality(PagesOfLine(l, PG_VALID))
                      /\ line'[l].ipc = Cardinality(PagesOfLine(l, PG_INVALID))
    BY <1>1 DEF LineCountersExact, PagesOfLine
  <2>1. CASE l = v
    <3>1. PagesOfLine(l, PG_VALID) = {} /\ PagesOfLine(l, PG_INVALID) = {}
      BY <1>6, <2>1 DEF PagesOfLine, Pages, PG_FREE, PG_VALID, PG_INVALID
    <3>2. line'[l].vpc = 0 /\ line'[l].ipc = 0
      BY <1>1, <2>1 DEF IInv, TypeOK
    <3> QED BY <3>1, <3>2, FS_EmptySet
  <2>2. CASE l # v
    BY <1>1, <2>2 DEF IInv, LineCountersExact, TypeOK
  <2> QED BY <2>1, <2>2
<1>10. ListsMatchCounters'
  <2>1. v \notin full_line_list /\ v \notin victim_line_pq
    BY <1>3 DEF Partition, Listed
  <2>2. \A l \in Lines : line'[l] = IF l = v THEN [ipc |-> 0, vpc |-> 0] ELSE line[l]
    BY <1>1 DEF IInv, TypeOK
  <2>3. \A l \in Lines : line'[l].vpc = PgsPerLine <=> l \in full_line_list
    BY <2>1, <2>2, SizeAssumption DEF IInv, ListsMatchCounters
  <2>4. \A l \in victim_line_pq : line'[l].ipc > 0
    BY <2>1, <2>2 DEF IInv, ListsMatchCounters, TypeOK
  <2> QED BY <1>1, <2>3, <2>4 DEF ListsMatchCounters
<1>11. \A q \in Pages : pg[q] = PG_VALID => ~Visited(q) /\ ~Visited(q)'
  BY <1>1, <1>6, <1>7 DEF Visited, PG_FREE, PG_VALID
<1>12. MappingConsistent'
  <2>1. \A m \in LPNs : mapped_ppa(maptbl[m]) => maptbl[m] \in Pages
    BY DEF IInv, TypeOK, mapped_ppa
  <2> QED BY <1>1, <1>11, <2>1 DEF IInv, MappingConsistent
<1>13. NoOrphanPage'
  BY <1>1, <1>11 DEF IInv, NoOrphanPage
<1> QED BY <1>5, <1>8, <1>9, <1>10, <1>12, <1>13 DEF IInv

LEMMA GcWritePageInv ==
    ASSUME IInv, TypeOK', ControlOK', gc_write_page
    PROVE  IInv'
<1> DEFINE p == <<gc_wp.curline, gc_wp.off>>
           lpn == rmap[gc_page]
<1>1. /\ program_page(gc_wp, lpn) /\ retire_line(gc_wp)
      /\ gc_wp' = advanced(gc_wp)
      /\ UNCHANGED <<wp, cur>>
      /\ ~Halted /\ visit_page /\ pg[gc_page] = PG_VALID
  BY DEF gc_write_page, program_page, visit_page
<1>2. /\ TypeOK /\ ControlOK
      /\ gc_page \in Pages /\ gc_page[1] = gc.victim
      /\ gc.victim \in Lines /\ gc'.victim = gc.victim
      /\ cur = INVALID_LPN
      /\ ~Visited(gc_page)
      /\ \A q \in Pages : Visited(q)' <=> Visited(q) \/ q = gc_page
      /\ \A q \in Pages : BlockErased(q)' <=> BlockErased(q)
  BY <1>1, VisitEffect DEF IInv
<1> HIDE DEF lpn
<1>3. OpenAt(gc_wp) /\ gc_wp \in WritePointers /\ gc_wp.curline \in Lines
      /\ gc_wp.curline # gc.victim
  BY <1>1, OpenLines DEF OpenAt
<1>4. /\ Partition(wp.curline, gc_wp.curline, gc.victim)
      /\ Partition(gc_wp.curline, wp.curline, gc.victim)
  BY <1>1, PartitionSymmetric DEF IInv, LinesPartitioned
<1>5. NoRepeat(free_line_list)
  BY <1>4 DEF Partition, NoRepeat
<1>6. lpn \in LPNs /\ maptbl[lpn] = gc_page
  BY <1>1, <1>2 DEF IInv, NoOrphanPage, lpn
<1>7. /\ p \in Pages
      /\ \A q \in Pages : pg'[q] = IF q = p THEN PG_VALID ELSE pg[q]
      /\ \A q \in Pages : rmap'[q] = IF q = p THEN lpn ELSE rmap[q]
      /\ \A m \in LPNs : maptbl'[m] = IF m = lpn THEN p ELSE maptbl[m]
  BY <1>1, <1>2, <1>3, <1>6, ProgramEffect
<1>8. pg[p] = PG_FREE /\ gc_wp.off \in Offsets
  BY <1>3, ProgramErased
<1>9. \A q \in Pages : q[1] = gc_wp.curline => ~Visited(q) /\ ~Visited(q)'
  BY <1>2, <1>3 DEF Visited
<1>10. LinesPartitioned'
  <2> SUFFICES ASSUME ~Halted'
               PROVE  Partition(wp.curline, gc_wp.curline, gc.victim)'
    BY DEF LinesPartitioned
  <2>1. gc_wp'.curline # NULL
    BY DEF Halted
  <2>2. \A n, bb, vv : /\ n = gc_wp'.curline /\ bb = wp.curline /\ vv = gc.victim
                       => Partition(n, bb, vv)'
    BY <1>1, <1>2, <1>3, <1>4, <2>1, ProgramPartition
  <2>3. \A n, bb, vv : /\ n = gc_wp'.curline /\ bb = wp'.curline /\ vv = gc'.victim
                       => Partition(n, bb, vv)'
    BY <1>1, <1>2, <2>2
  <2>4. \A n : n = gc_wp'.curline => Partition(n, wp.curline, gc.victim)'
    BY <2>3 DEF Partition
  <2> QED BY <2>4 DEF Partition
<1>11. ErasedPagesInPlace'
  <2> SUFFICES ASSUME ~Halted', NEW q \in Pages
               PROVE  pg'[q] = PG_FREE <=>
                        \/ q[1] \in FreeLines'
                        \/ Ahead(q, wp)
                        \/ Ahead(q, gc_wp')
                        \/ q[1] = gc.victim /\ BlockErased(q)
    BY <1>1, <1>2 DEF ErasedPagesInPlace, Ahead
  <2>1. pg[q] = PG_FREE <=>
           \/ q[1] \in FreeLines
           \/ Ahead(q, wp)
           \/ Ahead(q, gc_wp)
           \/ q[1] = gc.victim /\ BlockErased(q)
    BY <1>1 DEF IInv, ErasedPagesInPlace
  <2>2. pg'[q] = PG_FREE <=> pg[q] = PG_FREE /\ q # p
    BY <1>7, <1>8 DEF PG_FREE, PG_VALID
  <2>3. q \in Lines \X Offsets /\ q = <<q[1], q[2]>> /\ q[2] \in Offsets
    BY DEF Pages
  <2>4. gc_wp.curline \notin FreeLines /\ wp.curline # gc_wp.curline
    BY <1>4 DEF Partition, Listed
  <2>5. q = p => ~(q[1] \in FreeLines \/ Ahead(q, wp) \/ q[1] = gc.victim)
    BY <1>3, <2>4 DEF Ahead
  <2>6. CASE ~line_is_used_up(gc_wp)
    <3>1. /\ gc_wp'.curline = gc_wp.curline /\ gc_wp'.off = gc_wp.off + 1
          /\ UNCHANGED free_line_list
      BY <1>1, <1>2, <1>3, <1>5, <2>6, RetireEffect
    <3>2. Ahead(q, gc_wp') <=> Ahead(q, gc_wp) /\ q # p
      BY <1>8, <2>3, <3>1, SizeAssumption DEF Ahead, Offsets
    <3>3. q[1] \in FreeLines' <=> q[1] \in FreeLines
      BY <3>1 DEF FreeLines
    <3> HIDE DEF p
    <3> QED BY <2>1, <2>2, <2>5, <3>2, <3>3
  <2>7. CASE line_is_used_up(gc_wp)
    <3>1. gc_wp'.curline # NULL
      BY DEF Halted
    <3>2. /\ gc_wp'.off = 0 /\ gc_wp'.curline \in FreeLines
          /\ FreeLines' = FreeLines \ {gc_wp'.curline}
      BY <1>1, <1>2, <1>3, <1>5, <2>7, <3>1, RetireEffect
    <3>3. Ahead(q, gc_wp') <=> q[1] = gc_wp'.curline
      BY <2>3, <3>2, SizeAssumption DEF Ahead, Offsets
    <3>4. Ahead(q, gc_wp) <=> q = p
      BY <1>8, <2>3, <2>7, SizeAssumption DEF Ahead, Offsets, line_is_used_up
    <3> HIDE DEF p
    <3> QED BY <2>1, <2>2, <2>5, <3>2, <3>3, <3>4
  <2> QED BY <2>6, <2>7
<1>12. LineCountersExact'
  BY <1>1, <1>2, <1>3, <1>6, ProgramLineCounters DEF IInv
<1>13. ListsMatchCounters'
  BY <1>1, <1>2, <1>3, <1>5, <1>6, <1>12, ProgramLists DEF IInv
<1> HIDE DEF p
<1>14. MappingConsistent'
  <2> SUFFICES ASSUME NEW m \in LPNs, mapped_ppa(maptbl'[m])
               PROVE  pg'[maptbl'[m]] = PG_VALID /\ rmap'[maptbl'[m]] = m
                      /\ ~Visited(maptbl[m])'
    BY DEF MappingConsistent
  <2>1. CASE m = lpn
    <3>1. maptbl'[m] = p /\ p[1] = gc_wp.curline
      BY <1>7, <2>1 DEF p
    <3>2. \A q \in Pages : q = p => ~Visited(q)'
      BY <1>9, <3>1
    <3>3. ~Visited(maptbl[m])'
      BY <1>7, <3>1, <3>2 DEF Visited
    <3> QED BY <1>7, <2>1, <3>1, <3>3
  <2>2. CASE m # lpn
    <3>1. maptbl'[m] = maptbl[m]
      BY <1>7, <2>2
    <3>2. m \in LPNs \ {cur} /\ mapped_ppa(maptbl[m])
      BY <1>2, <3>1, NullAssumption
    <3>3. /\ maptbl[m] \in Pages
          /\ pg[maptbl[m]] = PG_VALID /\ rmap[maptbl[m]] = m
          /\ ~Visited(maptbl[m])
      BY <3>2 DEF IInv, MappingConsistent, TypeOK, mapped_ppa
    <3>4. maptbl[m] # p
      BY <1>8, <3>3 DEF PG_FREE, PG_VALID
    <3>5. maptbl[m] # gc_page
      BY <2>2, <3>3 DEF lpn
    <3>6. \A q \in Pages : q = maptbl[m] => ~Visited(q)'
      BY <1>2, <3>3, <3>5
    <3>7. ~Visited(maptbl[m])'
      BY <3>1, <3>3, <3>6 DEF Visited
    <3> QED BY <1>7, <3>1, <3>3, <3>4, <3>7
  <2> QED BY <2>1, <2>2
<1>15. NoOrphanPage'
  <2> SUFFICES ASSUME NEW q \in Pages, pg'[q] = PG_VALID, ~Visited(q)'
               PROVE  rmap'[q] \in LPNs /\ maptbl'[rmap'[q]] = q
    BY <1>1, <1>2, NullAssumption DEF NoOrphanPage
  <2>1. CASE q = p
    BY <1>6, <1>7, <2>1
  <2>2. CASE q # p
    <3>1. q # gc_page /\ ~Visited(q) /\ pg[q] = PG_VALID
      BY <1>2, <1>7, <2>2
    <3>2. rmap'[q] = rmap[q] /\ rmap[q] \in LPNs /\ maptbl[rmap[q]] = q
      BY <1>7, <2>2, <3>1 DEF IInv, NoOrphanPage
    <3>3. rmap[q] # lpn
      BY <1>6, <3>1, <3>2
    <3> QED BY <1>7, <3>2, <3>3
  <2> QED BY <2>1, <2>2
<1> QED BY <1>10, <1>11, <1>12, <1>13, <1>14, <1>15 DEF IInv

\* Every step of the FTL preserves the invariant.
LEMMA StepInv ==
    ASSUME IInv, [Next]_vars
    PROVE  IInv'
<1>1. TypeOK' /\ ControlOK'
  BY StepTypeControl DEF IInv
<1>2. CASE \E lpn \in LPNs : start_new_page(lpn)
  BY <1>1, <1>2, StartNewPageInv
<1>3. CASE \E lpn \in LPNs : start_overwrite(lpn)
  BY <1>1, <1>3, StartOverwriteInv
<1>4. CASE write_page
  BY <1>1, <1>4, WritePageInv
<1>5. CASE refill_without_gc
  BY <1>1, <1>5, RefillInv
<1>6. CASE \E l \in victim_line_pq : do_gc(l)
  BY <1>1, <1>6, DoGcInv
<1>7. CASE gc_write_page
  BY <1>1, <1>7, GcWritePageInv
<1>8. CASE gc_skip_page
  BY <1>1, <1>8, GcSkipPageInv
<1>9. CASE mark_block_free
  BY <1>1, <1>9, MarkBlockFreeInv
<1>10. CASE mark_line_free
  BY <1>1, <1>10, MarkLineFreeInv
<1>11. CASE UNCHANGED vars
  <2>1. UNCHANGED <<maptbl, rmap, pg, line, free_line_list, full_line_list,
                    victim_line_pq, wp, gc_wp, gc, cur, pc>>
    BY <1>11 DEF vars
  <2>2. LinesPartitioned'
    BY <2>1 DEF IInv, LinesPartitioned, Halted, Partition, Listed, FreeLines
  <2>3. ErasedPagesInPlace'
    BY <2>1 DEF IInv, ErasedPagesInPlace, Halted, FreeLines, Ahead, BlockErased,
                gc_block
  <2>4. LineCountersExact' /\ ListsMatchCounters'
    BY <2>1 DEF IInv, LineCountersExact, ListsMatchCounters, PagesOfLine
  <2>5. MappingConsistent' /\ NoOrphanPage'
    BY <2>1 DEF IInv, MappingConsistent, NoOrphanPage, Visited
  <2> QED BY <1>1, <2>2, <2>3, <2>4, <2>5 DEF IInv
<1> QED BY <1>2, <1>3, <1>4, <1>5, <1>6, <1>7, <1>8, <1>9, <1>10, <1>11
        DEF Next, check_and_refill_write_credit

(***************************************************************************)
(* The theorems.                                                           *)
(***************************************************************************)

\* The invariant holds in every reachable state, for every number of lines,
\* every geometry and every set of logical pages.
THEOREM Invariance == Spec => []IInv
<1>1. Init => IInv
  BY InitInv
<1>2. IInv /\ [Next]_vars => IInv'
  BY StepInv
<1> QED BY <1>1, <1>2, PTL DEF Spec

\* conv_read() finds the current copy of every logical page that was written,
\* in the middle of a garbage collection too (set_maptbl_ent, set_rmap_ent).
THEOREM MappingCorrect == Spec => []MappingConsistent
<1>1. IInv => MappingConsistent
  BY DEF IInv
<1> QED BY <1>1, Invariance, PTL

\* gc_write_page() only ever copies the current copy of a logical page.
THEOREM NoOrphans == Spec => []NoOrphanPage
<1>1. IInv => NoOrphanPage
  BY DEF IInv
<1> QED BY <1>1, Invariance, PTL

\* No line is lost or has two places (free_line_list, full_line_list,
\* victim_line_pq, the write pointers, the victim of do_gc()).
THEOREM LinesNeverLost == Spec => []LinesPartitioned
<1>1. IInv => LinesPartitioned
  BY DEF IInv
<1> QED BY <1>1, Invariance, PTL

\* The erased pages are exactly where the write pointers and do_gc() take them
\* to be.
THEOREM ErasedWhereExpected == Spec => []ErasedPagesInPlace
<1>1. IInv => ErasedPagesInPlace
  BY DEF IInv
<1> QED BY <1>1, Invariance, PTL

\* The tests on vpc and ipc by which lines change lists agree with the lists.
THEOREM ListsAgree == Spec => []ListsMatchCounters
<1>1. IInv => ListsMatchCounters
  BY DEF IInv
<1> QED BY <1>1, Invariance, PTL

\* maptbl and rmap are inverse to each other on the pages that hold data, in the
\* middle of a garbage collection too.
THEOREM MappingInverse == Spec => []MappingExact
<1> QED BY MappingCorrect, NoOrphans, PTL DEF MappingExact

\* Every line is on exactly one list, the one its counters call for.
THEOREM LinesWhereCounted == Spec => []LineLists
<1> QED BY LinesNeverLost, ListsAgree, PTL DEF LineLists

\* A page that becomes erased was erased by mark_block_free().
LEMMA OnlyEraseFrees ==
    ASSUME IInv, [Next]_vars, NEW p \in Pages, pg[p] # PG_FREE, pg'[p] = PG_FREE
    PROVE  mark_block_free
<1>1. TypeOK
  BY DEF IInv
<1>2. ASSUME NEW lpn \in LPNs, start_overwrite(lpn) PROVE FALSE
  <2>1. maptbl[lpn] \in Pages /\ mark_page_invalid(maptbl[lpn])
    BY <1>1, <1>2 DEF start_overwrite, mapped_ppa, TypeOK
  <2>2. pg'[p] = IF p = maptbl[lpn] THEN PG_INVALID ELSE pg[p]
    BY <1>1, <2>1, InvalidateEffect
  <2> QED BY <2>2 DEF PG_INVALID, PG_FREE
<1>3. ASSUME NEW w \in WritePointers, w.curline \in Lines, NEW lpn,
             program_page(w, lpn)
      PROVE  FALSE
  <2>1. pg' = [pg EXCEPT ![get_new_page(w)] = PG_VALID]
    BY <1>3 DEF program_page, mark_page_valid
  <2> QED BY <1>1, <2>1 DEF TypeOK, PG_VALID, PG_FREE
<1>4. ASSUME write_page \/ gc_write_page PROVE FALSE
  <2>1. ~Halted
    BY <1>4 DEF write_page, gc_write_page, visit_page
  <2>2. /\ wp \in WritePointers /\ gc_wp \in WritePointers
        /\ wp.curline \in Lines /\ gc_wp.curline \in Lines
    BY <2>1, OpenLines DEF OpenAt
  <2> QED BY <1>3, <1>4, <2>2 DEF write_page, gc_write_page
<1>5. ~UNCHANGED pg
  OBVIOUS
<1> QED BY <1>2, <1>4, <1>5
        DEF Next, check_and_refill_write_credit, vars, nandvars, start_new_page,
            refill_without_gc, do_gc, gc_skip_page, mark_line_free

\* Flash pages are programmed only when erased and erased only when unmapped
\* (mark_page_valid()'s assertion; mark_block_free()).
THEOREM FlashRules == Spec => FlashDiscipline
<1> DEFINE A == /\ wp' # wp => pg[get_new_page(wp)] = PG_FREE
                /\ gc_wp' # gc_wp => pg[get_new_page(gc_wp)] = PG_FREE
                /\ \A p \in Pages : pg[p] # PG_FREE /\ pg'[p] = PG_FREE =>
                      \A lpn \in LPNs : maptbl'[lpn] # p
<1>1. IInv /\ IInv' /\ [Next]_vars => [A]_vars
  <2> SUFFICES ASSUME IInv, IInv', [Next]_vars PROVE A
    OBVIOUS
  <2>1. ASSUME wp' # wp PROVE pg[get_new_page(wp)] = PG_FREE
    <3>1. ~Halted
      BY <2>1 DEF Next, check_and_refill_write_credit, vars, start_new_page,
                  start_overwrite, write_page, refill_without_gc, do_gc,
                  gc_write_page, gc_skip_page, mark_block_free, mark_line_free
    <3> QED BY <3>1, OpenLines, ProgramErased DEF get_new_page
  <2>2. ASSUME gc_wp' # gc_wp PROVE pg[get_new_page(gc_wp)] = PG_FREE
    <3>1. ~Halted
      BY <2>2 DEF Next, check_and_refill_write_credit, vars, start_new_page,
                  start_overwrite, write_page, refill_without_gc, do_gc,
                  gc_write_page, gc_skip_page, mark_block_free, mark_line_free,
                  visit_page
    <3> QED BY <3>1, OpenLines, ProgramErased DEF get_new_page
  <2>3. ASSUME NEW p \in Pages, pg[p] # PG_FREE, pg'[p] = PG_FREE,
               NEW lpn \in LPNs
        PROVE  maptbl'[lpn] # p
    <3>1. pc' = "gc"
      BY <2>3, OnlyEraseFrees DEF mark_block_free
    <3>2. cur' = INVALID_LPN
      BY <3>1 DEF IInv, ControlOK
    <3>3. mapped_ppa(maptbl'[lpn]) => pg'[maptbl'[lpn]] = PG_VALID
      BY <3>2, NullAssumption DEF IInv, MappingConsistent
    <3> QED BY <2>3, <3>3, NullAssumption DEF mapped_ppa, PG_VALID, PG_FREE
  <2> QED BY <2>1, <2>2, <2>3
<1>2. FlashDiscipline <=> [][A]_vars
  BY DEF FlashDiscipline
<1> HIDE DEF A
<1> QED BY <1>1, <1>2, Invariance, PTL DEF Spec

(***************************************************************************)
(* Write credits: positive while pages are written, 0 while the collection *)
(* runs, and a victim always brings between one and pgs_per_line of them.  *)
(***************************************************************************)
CreditInv ==
    /\ wfc.credits_to_refill \in 1 .. PgsPerLine
    /\ IF pc \in {"write", "program"}
       THEN wfc.write_credits \in 1 .. PgsPerLine
       ELSE wfc.write_credits = 0

\* % does nothing to a value below the modulus
LEMMA CreditArithmetic ==
    /\ \A c \in 1 .. PgsPerLine : consumed(c) = c - 1
    /\ \A r \in 1 .. PgsPerLine : (0 + r) % CreditMod = r
<1>1. \A c \in 1 .. PgsPerLine : c - 1 \in 0 .. CreditMod - 1 /\ c \in 0 .. CreditMod - 1
  BY SizeAssumption
<1>2. \A x \in 0 .. CreditMod - 1 : x % CreditMod = x /\ (x + CreditMod) % CreditMod = x
  BY SizeAssumption
<1>3. ASSUME NEW c \in 1 .. PgsPerLine PROVE consumed(c) = c - 1
  <2>1. c + CreditMod - 1 = (c - 1) + CreditMod
    BY SizeAssumption
  <2> QED BY <1>1, <1>2, <2>1 DEF consumed
<1>4. ASSUME NEW r \in 1 .. PgsPerLine PROVE (0 + r) % CreditMod = r
  BY <1>1, <1>2
<1> QED BY <1>3, <1>4

LEMMA StepCredit ==
    ASSUME IInv, CreditInv, [Next]_vars
    PROVE  CreditInv'
<1> USE DEF CreditInv
<1>1. wfc \in [write_credits : 0 .. CreditMod - 1, credits_to_refill : Int]
  BY DEF IInv, TypeOK
<1>2. CASE \E lpn \in LPNs : start_new_page(lpn) \/ start_overwrite(lpn)
  BY <1>2 DEF start_new_page, start_overwrite
<1>3. CASE write_page
  <2>1. /\ wfc' = [wfc EXCEPT !.write_credits = consumed(@)]
        /\ pc = "program"
        /\ pc' = IF wfc'.write_credits = 0 THEN "refill" ELSE "write"
    BY <1>3 DEF write_page
  <2>2. wfc'.write_credits = wfc.write_credits - 1
    BY <1>1, <2>1, CreditArithmetic
  <2>3. wfc'.credits_to_refill = wfc.credits_to_refill
    BY <1>1, <2>1
  <2> QED BY <2>1, <2>2, <2>3, SizeAssumption
<1>4. CASE refill_without_gc \/ mark_line_free
  <2>1. /\ wfc' = refilled(wfc)
        /\ pc \in {"refill", "gc"} /\ pc' = "write"
    BY <1>4 DEF refill_without_gc, mark_line_free
  <2>2. /\ wfc'.write_credits = (0 + wfc.credits_to_refill) % CreditMod
        /\ wfc'.credits_to_refill = wfc.credits_to_refill
    BY <1>1, <2>1 DEF refilled
  <2> QED BY <2>1, <2>2, CreditArithmetic
<1>5. ASSUME NEW l \in victim_line_pq, do_gc(l) PROVE CreditInv'
  <2>1. /\ wfc' = [wfc EXCEPT !.credits_to_refill = line[l].ipc]
        /\ pc = "refill" /\ pc' = "gc"
    BY <1>5 DEF do_gc, reclaimable
  <2>2. gc.victim = NULL /\ l \in Lines
    BY <2>1 DEF IInv, ControlOK, TypeOK
  <2>3. line[l].ipc = Cardinality(PagesOfLine(l, PG_INVALID)) /\ line[l].ipc > 0
    BY <2>2, NullAssumption DEF IInv, LineCountersExact, ListsMatchCounters
  <2>4. PagesOfLine(l, PG_INVALID) \in SUBSET Offsets
    BY DEF PagesOfLine
  <2>5. line[l].ipc \in 1 .. PgsPerLine
    BY <2>3, <2>4, OffsetSets, SizeAssumption
  <2> QED BY <1>1, <2>1, <2>5
<1>6. CASE gc_write_page \/ gc_skip_page
  BY <1>6 DEF gc_write_page, gc_skip_page, visit_page
<1>7. CASE mark_block_free
  BY <1>7 DEF mark_block_free
<1>8. CASE UNCHANGED vars
  BY <1>8 DEF vars
<1> QED BY <1>2, <1>3, <1>4, <1>5, <1>6, <1>7, <1>8
        DEF Next, check_and_refill_write_credit

\* A refill never leaves 0 credits behind, so consume_write_credit() never
\* wraps and the test write_credits <= 0 keeps triggering foreground_gc().
THEOREM CreditsPositive == Spec => []CreditsNeverStall
<1>1. Init => CreditInv
  BY SizeAssumption DEF Init, conv_init_ftl, CreditInv
<1>2. IInv /\ CreditInv /\ [Next]_vars => CreditInv'
  BY StepCredit
<1>3. CreditInv => CreditsNeverStall
  BY DEF CreditInv, CreditsNeverStall
<1> QED BY <1>1, <1>2, <1>3, Invariance, PTL DEF Spec

(***************************************************************************)
(* The counters of blocks.                                                 *)
(***************************************************************************)
InBlk(f, l, b, st) == {o \in BlkOffsets(b) : f[<<l, o>>] = st}

\* One page of a block changes its status: the sets behind the counters.
LEMMA BlkSets ==
    ASSUME TypeOK, NEW p \in Pages, NEW to \in Statuses, pg[p] # to,
           pg' = [pg EXCEPT ![p] = to]
    PROVE  \A l \in Lines, b \in Blocks, st \in Statuses :
             Cardinality(InBlk(pg', l, b, st)) =
               IF l = p[1] /\ b = BlockOf[p[2]] /\ st = to THEN Cardinality(InBlk(pg, l, b, st)) + 1
               ELSE IF l = p[1] /\ b = BlockOf[p[2]] /\ st = pg[p] THEN Cardinality(InBlk(pg, l, b, st)) - 1
               ELSE Cardinality(InBlk(pg, l, b, st))
<1> SUFFICES ASSUME NEW l \in Lines, NEW b \in Blocks, NEW st \in Statuses
    PROVE  Cardinality(InBlk(pg', l, b, st)) =
             IF l = p[1] /\ b = BlockOf[p[2]] /\ st = to THEN Cardinality(InBlk(pg, l, b, st)) + 1
             ELSE IF l = p[1] /\ b = BlockOf[p[2]] /\ st = pg[p] THEN Cardinality(InBlk(pg, l, b, st)) - 1
             ELSE Cardinality(InBlk(pg, l, b, st))
  OBVIOUS
<1>1. /\ p = <<p[1], p[2]>> /\ p[1] \in Lines /\ p[2] \in Offsets
      /\ BlkOffsets(b) \in SUBSET Offsets
      /\ \A o \in Offsets : o \in BlkOffsets(b) <=> BlockOf[o] = b
  BY DEF Pages, BlkOffsets
<1>2. \A o \in Offsets : pg'[<<l, o>>] = IF l = p[1] /\ o = p[2] THEN to ELSE pg[<<l, o>>]
  BY <1>1 DEF TypeOK, Pages
<1>3. InBlk(pg, l, b, st) \in SUBSET Offsets
  BY <1>1 DEF InBlk
<1>4. CASE l = p[1] /\ b = BlockOf[p[2]] /\ st = to
  <2>1. /\ InBlk(pg', l, b, st) = InBlk(pg, l, b, st) \cup {p[2]}
        /\ p[2] \in Offsets \ InBlk(pg, l, b, st)
    BY <1>1, <1>2, <1>4 DEF InBlk
  <2>2. Cardinality(InBlk(pg, l, b, st) \cup {p[2]}) = Cardinality(InBlk(pg, l, b, st)) + 1
    BY <1>3, <2>1, OffsetSets
  <2> QED BY <1>4, <2>1, <2>2
<1>5. CASE l = p[1] /\ b = BlockOf[p[2]] /\ st = pg[p] /\ st # to
  <2>1. /\ InBlk(pg', l, b, st) = InBlk(pg, l, b, st) \ {p[2]}
        /\ p[2] \in InBlk(pg, l, b, st)
    BY <1>1, <1>2, <1>5 DEF InBlk
  <2>2. Cardinality(InBlk(pg, l, b, st) \ {p[2]}) = Cardinality(InBlk(pg, l, b, st)) - 1
    BY <1>3, <2>1, OffsetSets
  <2> QED BY <1>5, <2>1, <2>2
<1>6. CASE ~ (l = p[1] /\ b = BlockOf[p[2]] /\ st \in {to, pg[p]})
  <2>1. InBlk(pg', l, b, st) = InBlk(pg, l, b, st)
    BY <1>1, <1>2, <1>6 DEF InBlk
  <2> QED BY <1>6, <2>1
<1> QED BY <1>4, <1>5, <1>6

\* mark_page_valid() counts a page that was erased.
LEMMA ValidBlk ==
    ASSUME TypeOK, BlkCountersExact, NEW p \in Pages, pg[p] = PG_FREE, mark_page_valid(p)
    PROVE  BlkCountersExact'
<1>1. /\ pg' = [pg EXCEPT ![p] = PG_VALID]
      /\ blk' = [blk EXCEPT ![<<p[1], BlockOf[p[2]]>>] = validate_counts(@)]
      /\ p[1] \in Lines /\ p[2] \in Offsets /\ BlockOf[p[2]] \in Blocks
  BY LayoutAssumption DEF mark_page_valid, Pages
<1>2. SUFFICES ASSUME NEW l \in Lines, NEW b \in Blocks
      PROVE  /\ blk'[<<l, b>>].vpc = Cardinality(InBlk(pg', l, b, PG_VALID))
             /\ blk'[<<l, b>>].ipc = Cardinality(InBlk(pg', l, b, PG_INVALID))
  BY DEF BlkCountersExact, PagesOfBlk, InBlk
<1>3. /\ blk'[<<l, b>>].ipc = blk[<<l, b>>].ipc
      /\ blk'[<<l, b>>].vpc = IF l = p[1] /\ b = BlockOf[p[2]] THEN blk[<<l, b>>].vpc + 1
                              ELSE blk[<<l, b>>].vpc
  BY <1>1 DEF TypeOK, validate_counts, Counters
<1>4. /\ blk[<<l, b>>].vpc = Cardinality(InBlk(pg, l, b, PG_VALID))
      /\ blk[<<l, b>>].ipc = Cardinality(InBlk(pg, l, b, PG_INVALID))
  BY DEF BlkCountersExact, PagesOfBlk, InBlk
<1>5. pg[p] # PG_VALID /\ PG_VALID \in Statuses /\ PG_INVALID \in Statuses /\ PG_INVALID \notin {pg[p], PG_VALID}
  BY DEF Statuses, PG_FREE, PG_VALID, PG_INVALID
<1>6. \A m \in Lines, c \in Blocks, st \in Statuses : Cardinality(InBlk(pg', m, c, st)) =
         IF m = p[1] /\ c = BlockOf[p[2]] /\ st = PG_VALID THEN Cardinality(InBlk(pg, m, c, st)) + 1
         ELSE IF m = p[1] /\ c = BlockOf[p[2]] /\ st = pg[p] THEN Cardinality(InBlk(pg, m, c, st)) - 1
         ELSE Cardinality(InBlk(pg, m, c, st))
  BY <1>1, <1>5, BlkSets
<1>7. Cardinality(InBlk(pg', l, b, PG_VALID)) = IF l = p[1] /\ b = BlockOf[p[2]]
         THEN Cardinality(InBlk(pg, l, b, PG_VALID)) + 1 ELSE Cardinality(InBlk(pg, l, b, PG_VALID))
  BY <1>5, <1>6
<1>8. Cardinality(InBlk(pg', l, b, PG_INVALID)) = Cardinality(InBlk(pg, l, b, PG_INVALID))
  BY <1>5, <1>6
<1> QED BY <1>3, <1>4, <1>7, <1>8

\* mark_page_invalid() moves a page from one counter to the other.
LEMMA InvalidBlk ==
    ASSUME TypeOK, BlkCountersExact, NEW p \in Pages, pg[p] = PG_VALID, mark_page_invalid(p)
    PROVE  BlkCountersExact'
<1>1. /\ pg' = [pg EXCEPT ![p] = PG_INVALID]
      /\ blk' = [blk EXCEPT ![<<p[1], BlockOf[p[2]]>>] = invalidate_counts(@)]
      /\ p[1] \in Lines /\ p[2] \in Offsets /\ BlockOf[p[2]] \in Blocks
  BY LayoutAssumption DEF mark_page_invalid, Pages
<1>2. SUFFICES ASSUME NEW l \in Lines, NEW b \in Blocks
      PROVE  /\ blk'[<<l, b>>].vpc = Cardinality(InBlk(pg', l, b, PG_VALID))
             /\ blk'[<<l, b>>].ipc = Cardinality(InBlk(pg', l, b, PG_INVALID))
  BY DEF BlkCountersExact, PagesOfBlk, InBlk
<1>3. /\ blk'[<<l, b>>].ipc = IF l = p[1] /\ b = BlockOf[p[2]] THEN blk[<<l, b>>].ipc + 1
                              ELSE blk[<<l, b>>].ipc
      /\ blk'[<<l, b>>].vpc = IF l = p[1] /\ b = BlockOf[p[2]] THEN blk[<<l, b>>].vpc - 1
                              ELSE blk[<<l, b>>].vpc
  BY <1>1 DEF TypeOK, invalidate_counts, Counters
<1>4. /\ blk[<<l, b>>].vpc = Cardinality(InBlk(pg, l, b, PG_VALID))
      /\ blk[<<l, b>>].ipc = Cardinality(InBlk(pg, l, b, PG_INVALID))
  BY DEF BlkCountersExact, PagesOfBlk, InBlk
<1>5. pg[p] # PG_INVALID /\ PG_VALID # PG_INVALID /\ PG_VALID \in Statuses /\ PG_INVALID \in Statuses
  BY DEF Statuses, PG_VALID, PG_INVALID
<1>6. \A m \in Lines, c \in Blocks, st \in Statuses : Cardinality(InBlk(pg', m, c, st)) =
         IF m = p[1] /\ c = BlockOf[p[2]] /\ st = PG_INVALID THEN Cardinality(InBlk(pg, m, c, st)) + 1
         ELSE IF m = p[1] /\ c = BlockOf[p[2]] /\ st = pg[p] THEN Cardinality(InBlk(pg, m, c, st)) - 1
         ELSE Cardinality(InBlk(pg, m, c, st))
  BY <1>1, <1>5, BlkSets
<1>7. Cardinality(InBlk(pg', l, b, PG_VALID)) = IF l = p[1] /\ b = BlockOf[p[2]]
         THEN Cardinality(InBlk(pg, l, b, PG_VALID)) - 1 ELSE Cardinality(InBlk(pg, l, b, PG_VALID))
  BY <1>5, <1>6
<1>8. Cardinality(InBlk(pg', l, b, PG_INVALID)) = IF l = p[1] /\ b = BlockOf[p[2]]
         THEN Cardinality(InBlk(pg, l, b, PG_INVALID)) + 1 ELSE Cardinality(InBlk(pg, l, b, PG_INVALID))
  BY <1>5, <1>6
<1> QED BY <1>3, <1>4, <1>7, <1>8

\* mark_block_free() leaves a block without valid and without invalid pages.
LEMMA EraseBlk ==
    ASSUME IInv, BlkCountersExact, mark_block_free
    PROVE  BlkCountersExact'
<1> DEFINE v == gc.victim
           e == gc_block
<1>1. /\ blk' = [blk EXCEPT ![<<v, e>>] = [ipc |-> 0, vpc |-> 0]]
      /\ pg' = [p \in Pages |-> IF p[1] = v /\ BlockOf[p[2]] = e THEN PG_FREE ELSE pg[p]]
      /\ blk \in [Lines \X Blocks -> Counters]
  BY DEF mark_block_free, IInv, TypeOK
<1> HIDE DEF v, e
<1>2. SUFFICES ASSUME NEW l \in Lines, NEW b \in Blocks
      PROVE  /\ blk'[<<l, b>>].vpc = Cardinality(PagesOfBlk(l, b, PG_VALID)')
             /\ blk'[<<l, b>>].ipc = Cardinality(PagesOfBlk(l, b, PG_INVALID)')
  BY DEF BlkCountersExact, PagesOfBlk
<1>3. \A o \in Offsets : pg'[<<l, o>>] = IF l = v /\ BlockOf[o] = e THEN PG_FREE ELSE pg[<<l, o>>]
  BY <1>1 DEF Pages
<1>4. \A o \in BlkOffsets(b) : o \in Offsets /\ BlockOf[o] = b
  BY DEF BlkOffsets
<1>5. CASE l = v /\ b = e
  <2>1. PagesOfBlk(l, b, PG_VALID)' = {} /\ PagesOfBlk(l, b, PG_INVALID)' = {}
    BY <1>3, <1>4, <1>5 DEF PagesOfBlk, PG_FREE, PG_VALID, PG_INVALID
  <2>2. blk'[<<l, b>>] = [ipc |-> 0, vpc |-> 0]
    BY <1>1, <1>5
  <2> QED BY <2>1, <2>2, FS_EmptySet
<1>6. CASE ~ (l = v /\ b = e)
  <2>1. /\ PagesOfBlk(l, b, PG_VALID)' = PagesOfBlk(l, b, PG_VALID)
        /\ PagesOfBlk(l, b, PG_INVALID)' = PagesOfBlk(l, b, PG_INVALID)
    BY <1>3, <1>4, <1>6 DEF PagesOfBlk
  <2>2. blk'[<<l, b>>] = blk[<<l, b>>]
    BY <1>1, <1>6
  <2> QED BY <2>1, <2>2 DEF BlkCountersExact
<1> QED BY <1>5, <1>6

LEMMA StepBlk ==
    ASSUME IInv, BlkCountersExact, [Next]_vars
    PROVE  BlkCountersExact'
<1>1. CASE UNCHANGED nandvars
  BY <1>1 DEF nandvars, BlkCountersExact, PagesOfBlk
<1>2. ASSUME NEW lpn \in LPNs, start_overwrite(lpn) PROVE BlkCountersExact'
  <2>1. /\ pc = "write" /\ mapped_ppa(maptbl[lpn])
        /\ mark_page_invalid(maptbl[lpn])
    BY <1>2 DEF start_overwrite
  <2>2. lpn \in LPNs \ {cur}
    BY <2>1, NullAssumption DEF IInv, ControlOK
  <2>3. maptbl[lpn] \in Pages /\ pg[maptbl[lpn]] = PG_VALID
    BY <2>1, <2>2 DEF IInv, MappingConsistent, TypeOK, mapped_ppa
  <2> QED BY <2>1, <2>3, InvalidBlk DEF IInv
<1>3. CASE write_page
  <2>1. /\ ~ Halted /\ mark_page_valid(get_new_page(wp))
    BY <1>3 DEF write_page, program_page
  <2>2. get_new_page(wp) \in Pages /\ pg[get_new_page(wp)] = PG_FREE
    <3>1. wp.curline \in Lines /\ wp.off \in Offsets
      BY <2>1 DEF Halted, IInv, TypeOK, WritePointers
    <3> QED BY <2>1, <3>1, SizeAssumption DEF get_new_page, Pages, IInv, ErasedPagesInPlace, Ahead, Offsets
  <2> QED BY <2>1, <2>2, ValidBlk DEF IInv
<1>4. CASE gc_write_page
  <2>1. /\ ~ Halted /\ mark_page_valid(get_new_page(gc_wp))
    BY <1>4 DEF gc_write_page, visit_page, program_page
  <2>2. get_new_page(gc_wp) \in Pages /\ pg[get_new_page(gc_wp)] = PG_FREE
    <3>1. gc_wp.curline \in Lines /\ gc_wp.off \in Offsets
      BY <2>1 DEF Halted, IInv, TypeOK, WritePointers
    <3> QED BY <2>1, <3>1, SizeAssumption DEF get_new_page, Pages, IInv, ErasedPagesInPlace, Ahead, Offsets
  <2> QED BY <2>1, <2>2, ValidBlk DEF IInv
<1>5. CASE mark_block_free
  BY <1>5, EraseBlk
<1>6. ASSUME NEW lpn \in LPNs, start_new_page(lpn) PROVE UNCHANGED nandvars
  BY <1>6 DEF start_new_page
<1>7. ASSUME NEW l \in victim_line_pq, do_gc(l) PROVE UNCHANGED nandvars
  BY <1>7 DEF do_gc
<1>8. CASE refill_without_gc \/ gc_skip_page \/ mark_line_free
  BY <1>1, <1>8 DEF refill_without_gc, gc_skip_page, mark_line_free
<1>9. CASE UNCHANGED vars
  BY <1>1, <1>9 DEF vars, nandvars
<1> QED BY <1>1, <1>2, <1>3, <1>4, <1>5, <1>6, <1>7, <1>8, <1>9
        DEF Next, check_and_refill_write_credit

\* The counters of lines and blocks that mark_page_valid(), mark_page_invalid(),
\* mark_block_free() and mark_line_free() keep a step at a time equal the page
\* statuses they sum up, for any geometry.
THEOREM CountersRight == Spec => []CountersExact
<1>1. Init => BlkCountersExact
  <2>1. SUFFICES ASSUME Init, NEW l \in Lines, NEW b \in Blocks
        PROVE  /\ blk[<<l, b>>].vpc = Cardinality(PagesOfBlk(l, b, PG_VALID))
               /\ blk[<<l, b>>].ipc = Cardinality(PagesOfBlk(l, b, PG_INVALID))
    BY DEF BlkCountersExact
  <2>2. blk[<<l, b>>] = [ipc |-> 0, vpc |-> 0]
    BY <2>1 DEF Init, conv_init_ftl
  <2>3. \A o \in BlkOffsets(b) : pg[<<l, o>>] = PG_FREE
    BY <2>1 DEF Init, conv_init_ftl, BlkOffsets, Pages
  <2>4. PagesOfBlk(l, b, PG_VALID) = {} /\ PagesOfBlk(l, b, PG_INVALID) = {}
    BY <2>3 DEF PagesOfBlk, PG_FREE, PG_VALID, PG_INVALID
  <2> QED BY <2>2, <2>4, FS_EmptySet
<1>2. IInv /\ BlkCountersExact /\ [Next]_vars => BlkCountersExact'
  BY StepBlk
<1>3. IInv /\ BlkCountersExact => CountersExact
  BY DEF IInv, CountersExact
<1> QED BY <1>1, <1>2, <1>3, Invariance, PTL DEF Spec

(***************************************************************************)
(* Free lines never run out.                                               *)
(***************************************************************************)

FreePages == Len(free_line_list) * PgsPerLine

\* pages that can be programmed before a line must be collected
Erased == FreePages + (PgsPerLine - wp.off) + (PgsPerLine - gc_wp.off)

\* pages of the victim do_gc() has still to copy
ToCopy == {o \in Offsets : pg[<<gc.victim, o>>] = PG_VALID /\ ~ Visited(<<gc.victim, o>>)}

\* pages that are promised: to the host by its credits, and during a collection
\* to the copies and to the credits it will bring, less the line it frees
Promised ==
    IF pc \in {"gc", "erase"}
    THEN Cardinality(ToCopy) + wfc.credits_to_refill - PgsPerLine
    ELSE wfc.write_credits

\* The two open lines and two pages more are kept: a line that is used up then
\* finds a free one.
RoomInv == ~ Halted /\ Erased >= 2 * PgsPerLine + 2 + Promised

\* what the proofs use of the state
LEMMA RoomTypes ==
    ASSUME IInv, ~ Halted
    PROVE  /\ Len(free_line_list) \in Nat /\ PgsPerLine \in Nat /\ PgsPerLine > 0
           /\ wp \in WritePointers /\ wp.curline \in Lines /\ wp.off \in 0 .. PgsPerLine - 1
           /\ gc_wp \in WritePointers /\ gc_wp.curline \in Lines /\ gc_wp.off \in 0 .. PgsPerLine - 1
           /\ FreePages \in Nat
           /\ FreePages >= 1 => free_line_list # <<>>
<1>1. free_line_list \in Seq(Lines)
  BY DEF IInv, TypeOK
<1>2. /\ Len(free_line_list) \in Nat /\ PgsPerLine \in Nat /\ PgsPerLine > 0
      /\ free_line_list = <<>> => Len(free_line_list) = 0
  BY <1>1, SizeAssumption
<1>3. /\ wp \in WritePointers /\ wp.curline \in Lines /\ wp.off \in 0 .. PgsPerLine - 1
      /\ gc_wp \in WritePointers /\ gc_wp.curline \in Lines /\ gc_wp.off \in 0 .. PgsPerLine - 1
  BY DEF IInv, TypeOK, WritePointers, Halted, Offsets
<1>4. Len(free_line_list) * PgsPerLine \in Nat /\ 0 * PgsPerLine = 0
  BY <1>2
<1> QED BY <1>2, <1>3, <1>4 DEF FreePages

\* advance_write_pointer() uses up one erased page and finds a free line when it
\* needs one.
LEMMA AdvanceRoom ==
    ASSUME IInv, ~ Halted, NEW w \in {wp, gc_wp}, retire_line(w),
           line_is_used_up(w) => free_line_list # <<>>
    PROVE  /\ advanced(w).curline # NULL
           /\ FreePages' \in Int
           /\ FreePages' - advanced(w).off = FreePages - w.off - 1
<1>1. /\ Len(free_line_list) \in Nat /\ PgsPerLine \in Nat /\ w.off \in 0 .. PgsPerLine - 1
      /\ free_line_list \in Seq(Lines) /\ w.curline \in Lines
  BY RoomTypes DEF IInv, TypeOK
<1>2. CASE ~ line_is_used_up(w)
  <2>1. free_line_list' = free_line_list /\ advanced(w).off = w.off + 1 /\ advanced(w).curline = w.curline
    BY <1>2 DEF retire_line, advanced
  <2>2. Len(free_line_list) * PgsPerLine \in Int
    BY <1>1
  <2> QED BY <1>1, <2>1, <2>2, NullAssumption DEF FreePages
<1>3. CASE line_is_used_up(w)
  <2>1. /\ free_line_list # <<>> /\ free_line_list' = Tail(free_line_list)
        /\ advanced(w).curline = Head(free_line_list) /\ advanced(w).off = 0
        /\ w.off + 1 = PgsPerLine
    BY <1>3 DEF retire_line, advanced, next_free_line, line_is_used_up
  <2>2. Head(free_line_list) \in Lines /\ Len(free_line_list') = Len(free_line_list) - 1
        /\ Len(free_line_list') \in Nat
    BY <1>1, <2>1
  <2>3. (Len(free_line_list) - 1) * PgsPerLine = Len(free_line_list) * PgsPerLine - PgsPerLine
    BY <1>1
  <2>4. Len(free_line_list) * PgsPerLine \in Int
    BY <1>1
  <2>5. FreePages' = FreePages - PgsPerLine /\ FreePages \in Int
    BY <2>2, <2>3, <2>4 DEF FreePages
  <2>6. advanced(w).curline # NULL
    BY <2>1, <2>2, NullAssumption
  <2> QED BY <1>1, <2>1, <2>5, <2>6
<1> QED BY <1>2, <1>3

\* There are finitely many lines.
LEMMA LinesFinite == IsFiniteSet(Lines) /\ Cardinality(Lines) \in Nat
<1>1. /\ Len(InitialFree) \in Nat /\ InitialFree \in [1 .. Len(InitialFree) -> Lines]
      /\ \A l \in Lines : \E i \in 1 .. Len(InitialFree) : InitialFree[i] = l
  BY LinesAssumption
<1>2. InitialFree \in Surjection(1 .. Len(InitialFree), Lines)
  BY <1>1 DEF Surjection
<1>3. IsFiniteSet(1 .. Len(InitialFree))
  BY <1>1, FS_Interval
<1> QED BY <1>2, <1>3, FS_Surjection, FS_CardinalityType

\* Multiples of a line are in the order of their numbers.
LEMMA Scaled ==
    ASSUME NEW i \in Int, NEW j \in Int, i <= j, NEW k \in Nat
    PROVE  i * k <= j * k
<1>1. (j - i) * k >= 0 /\ (j - i) * k = j * k - i * k
  OBVIOUS
<1>2. i * k \in Int /\ j * k \in Int
  OBVIOUS
<1> QED BY <1>1, <1>2

\* A full line has as many pages of the host as it has pages, so that full lines
\* alone cannot make up all but the spare lines: when the free lines are down to
\* the threshold, there is a line to collect.
LEMMA VictimExists ==
    ASSUME SpareLines, IInv, ~ Halted, pc = "refill", should_gc_high
    PROVE  victim_line_pq # {}
<1>1. SUFFICES ASSUME victim_line_pq = {} PROVE FALSE
  OBVIOUS
<1>2. gc.victim = NULL
  BY DEF IInv, ControlOK
<1>3. /\ Lines = FreeLines \cup full_line_list \cup {wp.curline, gc_wp.curline}
      /\ full_line_list \subseteq Lines
  BY <1>1, <1>2 DEF IInv, LinesPartitioned, Partition, Listed, TypeOK
<1>4. /\ IsFiniteSet(FreeLines) /\ Cardinality(FreeLines) <= GcThresLinesHigh
  <2>1. /\ free_line_list \in Seq(Lines) /\ Len(free_line_list) \in Nat
        /\ DOMAIN free_line_list = 1 .. Len(free_line_list)
    BY DEF IInv, TypeOK
  <2>2. IsFiniteSet(1 .. Len(free_line_list)) /\ Cardinality(1 .. Len(free_line_list)) = Len(free_line_list)
    BY <2>1, FS_Interval
  <2>3. FreeLines = {free_line_list[i] : i \in 1 .. Len(free_line_list)}
    BY <2>1 DEF FreeLines
  <2>4. free_line_list \in Surjection(1 .. Len(free_line_list), FreeLines)
    BY <2>1, <2>3 DEF Surjection
  <2>5. IsFiniteSet(FreeLines) /\ Cardinality(FreeLines) <= Len(free_line_list)
    BY <2>2, <2>4, FS_Surjection
  <2> QED BY <2>1, <2>5, FS_CardinalityType, SizeAssumption DEF should_gc_high, free_line_cnt
<1> DEFINE Stored == full_line_list \X Offsets
<1>5. \A p \in Stored : p \in Pages /\ pg[p] = PG_VALID
  <2>1. SUFFICES ASSUME NEW l \in full_line_list, NEW o \in Offsets
        PROVE  <<l, o>> \in Pages /\ pg[<<l, o>>] = PG_VALID
    OBVIOUS
  <2>2. l \in Lines /\ l # gc.victim /\ line[l].vpc = PgsPerLine
    BY <1>2, <1>3, NullAssumption DEF IInv, ListsMatchCounters
  <2>3. Cardinality(PagesOfLine(l, PG_VALID)) = PgsPerLine
    BY <2>2 DEF IInv, LineCountersExact
  <2>4. PagesOfLine(l, PG_VALID) = Offsets
    BY <2>3, OffsetSets DEF PagesOfLine
  <2> QED BY <2>2, <2>4 DEF PagesOfLine, Pages
<1>6. \A p \in Stored : rmap[p] \in LPNs /\ maptbl[rmap[p]] = p
  <2>1. \A p \in Pages : ~ Visited(p)
    BY <1>2, NullAssumption DEF Visited, Pages
  <2> QED BY <1>5, <2>1 DEF IInv, NoOrphanPage
<1>7. IsFiniteSet(Stored) /\ Cardinality(Stored) <= Cardinality(LPNs)
  <2> DEFINE f == [p \in Stored |-> rmap[p]]
  <2>1. f \in Injection(Stored, LPNs)
    BY <1>6 DEF Injection, IsInjective
  <2>2. IsFiniteSet(LPNs)
    BY SizeAssumption
  <2> HIDE DEF f, Stored
  <2> QED BY <2>1, <2>2, FS_Injection
<1>8. Cardinality(Stored) = Cardinality(full_line_list) * PgsPerLine
  <2>1. IsFiniteSet(full_line_list) /\ IsFiniteSet(Offsets) /\ Cardinality(Offsets) = PgsPerLine
    BY <1>3, LinesFinite, FS_Subset, OffsetSets
  <2> QED BY <2>1, FS_Product
<1>9. Cardinality(Lines) <= Cardinality(full_line_list) + GcThresLinesHigh + 2
  <2> DEFINE a == wp.curline
             b == gc_wp.curline
             S == FreeLines \cup full_line_list
  <2>1. IsFiniteSet(full_line_list) /\ Cardinality(full_line_list) \in Nat
        /\ Cardinality(FreeLines) \in Nat
    BY <1>3, <1>4, LinesFinite, FS_Subset, FS_CardinalityType
  <2>2. IsFiniteSet(FreeLines \cap full_line_list) /\ Cardinality(FreeLines \cap full_line_list) \in Nat
    BY <1>4, FS_Intersection, FS_CardinalityType
  <2>3. /\ IsFiniteSet(S)
        /\ Cardinality(S) = Cardinality(FreeLines) + Cardinality(full_line_list)
                              - Cardinality(FreeLines \cap full_line_list)
    BY <1>4, <2>1, FS_Union
  <2> HIDE DEF S, a, b
  <2>4. Cardinality(S) <= Cardinality(full_line_list) + GcThresLinesHigh /\ Cardinality(S) \in Nat
    <3>1. Cardinality(S) \in Nat
      BY <2>3, FS_CardinalityType
    <3>2. Cardinality(FreeLines) <= GcThresLinesHigh
      BY <1>4
    <3>3. Cardinality(S) = Cardinality(FreeLines) + Cardinality(full_line_list)
                            - Cardinality(FreeLines \cap full_line_list)
      BY <2>3
    <3> QED BY <3>1, <3>2, <3>3, <2>1, <2>2, SizeAssumption, SMT
  <2>5. IsFiniteSet(S \cup {a}) /\ Cardinality(S \cup {a}) \in {Cardinality(S), Cardinality(S) + 1}
    BY <2>3, FS_AddElement
  <2>6. Cardinality((S \cup {a}) \cup {b}) \in {Cardinality(S \cup {a}), Cardinality(S \cup {a}) + 1}
    BY <2>5, FS_AddElement
  <2>7. Lines = (S \cup {a}) \cup {b}
    BY <1>3 DEF S, a, b
  <2> QED BY <2>1, <2>4, <2>5, <2>6, <2>7, SizeAssumption
<1> DEFINE m == Cardinality(full_line_list)
           n == Cardinality(Lines)
<1>10. m \in Nat /\ n \in Nat /\ n - GcThresLinesHigh - 2 <= m
       /\ GcThresLinesHigh \in Nat /\ PgsPerLine \in Nat /\ Cardinality(LPNs) \in Nat
  <2>1. IsFiniteSet(full_line_list)
    BY <1>3, LinesFinite, FS_Subset
  <2> QED BY <1>9, <2>1, LinesFinite, FS_CardinalityType, SizeAssumption
<1>11. m * PgsPerLine <= Cardinality(LPNs)
       /\ Cardinality(LPNs) < (n - GcThresLinesHigh - 2) * PgsPerLine
  BY <1>7, <1>8 DEF SpareLines
<1> HIDE DEF m, n
<1>12. (n - GcThresLinesHigh - 2) * PgsPerLine <= m * PgsPerLine
  BY <1>10, Scaled
<1>13. m * PgsPerLine \in Int /\ (n - GcThresLinesHigh - 2) * PgsPerLine \in Int
  BY <1>10
<1> QED BY <1>10, <1>11, <1>12, <1>13

\* conv_write() programs a page and takes one credit.
LEMMA WritePageRoom ==
    ASSUME IInv, CreditInv, RoomInv, write_page
    PROVE  RoomInv'
<1>1. /\ pc = "program" /\ ~ Halted /\ retire_line(wp) /\ wp' = advanced(wp)
      /\ gc_wp' = gc_wp /\ pc' \notin {"gc", "erase"}
      /\ wfc' = [wfc EXCEPT !.write_credits = consumed(@)]
  BY DEF write_page, program_page
<1>2. /\ wfc.write_credits \in 1 .. PgsPerLine /\ wfc'.write_credits = wfc.write_credits - 1
  BY <1>1, CreditArithmetic DEF CreditInv, IInv, TypeOK
<1>3. /\ Promised = wfc.write_credits /\ Promised' = wfc'.write_credits
  BY <1>1 DEF Promised
<1> DEFINE c == wfc.write_credits
           a == wp.off
           b == gc_wp.off
           a2 == advanced(wp).off
           f2 == FreePages'
<1>4. /\ c \in 1 .. PgsPerLine /\ a \in 0 .. PgsPerLine - 1 /\ b \in 0 .. PgsPerLine - 1
      /\ FreePages \in Nat /\ PgsPerLine \in Nat /\ a2 \in 0 .. PgsPerLine - 1
  BY <1>1, <1>2, RoomTypes, AdvancedType DEF IInv, WritePointers, Offsets
<1>5. FreePages + (PgsPerLine - a) + (PgsPerLine - b) >= 2 * PgsPerLine + 2 + c
  BY <1>3 DEF RoomInv, Erased
<1>6. FreePages >= 1
  <2> HIDE DEF a, b, c
  <2> QED BY <1>4, <1>5
<1>7. /\ advanced(wp).curline # NULL
      /\ f2 \in Int /\ f2 - a2 = FreePages - a - 1
  BY <1>1, <1>6, RoomTypes, AdvanceRoom
<1>8. Erased' = f2 + (PgsPerLine - a2) + (PgsPerLine - b) /\ Promised' = c - 1
  BY <1>1, <1>2, <1>3 DEF Erased
<1>9. f2 + (PgsPerLine - a2) + (PgsPerLine - b) >= 2 * PgsPerLine + 2 + (c - 1)
  <2> HIDE DEF a, b, c, a2, f2
  <2> QED BY <1>4, <1>5, <1>7
<1> QED BY <1>1, <1>7, <1>8, <1>9 DEF RoomInv, Halted

\* the lines above the threshold pay for the credits of a refill without a
\* collection
LEMMA RefillRoom ==
    ASSUME SpareLines, IInv, CreditInv, RoomInv, refill_without_gc
    PROVE  RoomInv'
<1>1. /\ pc = "refill" /\ ~ Halted /\ pc' = "write" /\ wfc' = refilled(wfc)
      /\ should_gc_high => victim_line_pq = {}
      /\ UNCHANGED <<free_line_list, wp, gc_wp>>
  BY DEF refill_without_gc, linevars
<1>2. ~ should_gc_high
  BY <1>1, VictimExists
<1>3. Len(free_line_list) >= 3
  BY <1>2, RoomTypes, SizeAssumption DEF should_gc_high, free_line_cnt, SpareLines, RoomInv
<1>4. 3 * PgsPerLine <= FreePages
  BY <1>1, <1>3, Scaled, RoomTypes DEF FreePages
<1>5. wfc'.write_credits \in 1 .. PgsPerLine
  BY <1>1, StepCredit DEF Next, check_and_refill_write_credit, CreditInv
<1>6. Promised' = wfc'.write_credits /\ Erased' = Erased
  BY <1>1 DEF Promised, Erased, FreePages
<1>7. Erased >= 3 * PgsPerLine + 2
  BY <1>1, <1>4, RoomTypes DEF Erased
<1>8. Erased \in Int /\ PgsPerLine \in Nat
  BY <1>1, RoomTypes DEF Erased
<1>9. ASSUME NEW c \in 1 .. PgsPerLine PROVE Erased >= 2 * PgsPerLine + 2 + c
  BY <1>7, <1>8
<1> QED BY <1>1, <1>5, <1>6, <1>9 DEF RoomInv, Halted

\* A victim has no erased page, so that the pages to copy and the credits it
\* brings make up the line that will be freed.
LEMMA DoGcRoom ==
    ASSUME IInv, CreditInv, RoomInv, NEW l \in victim_line_pq, do_gc(l)
    PROVE  RoomInv'
<1>1. /\ pc = "refill" /\ ~ Halted /\ pc' = "gc" /\ gc' = [victim |-> l, pos |-> 0]
      /\ wfc' = [wfc EXCEPT !.credits_to_refill = line[l].ipc]
      /\ UNCHANGED <<free_line_list, wp, gc_wp, pg>>
  BY DEF do_gc, reclaimable, nandvars
<1>2. /\ gc.victim = NULL /\ l \in Lines /\ l # gc.victim /\ wfc.write_credits = 0
  BY <1>1, NullAssumption DEF IInv, ControlOK, TypeOK, CreditInv
<1>3. /\ line[l].vpc = Cardinality(PagesOfLine(l, PG_VALID))
      /\ line[l].ipc = Cardinality(PagesOfLine(l, PG_INVALID))
  BY <1>2 DEF IInv, LineCountersExact
<1>4. PagesOfLine(l, PG_INVALID) = Offsets \ PagesOfLine(l, PG_VALID)
  <2>1. l \notin FreeLines /\ l \notin {wp.curline, gc_wp.curline}
    BY <1>1 DEF IInv, LinesPartitioned, Partition, Listed
  <2>2. \A o \in Offsets : <<l, o>> \in Pages /\ pg[<<l, o>>] # PG_FREE
    BY <1>1, <1>2, <2>1 DEF IInv, ErasedPagesInPlace, Ahead, Pages
  <2>3. \A o \in Offsets : pg[<<l, o>>] \in {PG_VALID, PG_INVALID}
    BY <2>2 DEF IInv, TypeOK, Statuses
  <2> QED BY <2>3 DEF PagesOfLine, PG_VALID, PG_INVALID
<1>5. line[l].vpc + line[l].ipc = PgsPerLine /\ line[l].vpc \in Nat /\ line[l].ipc \in Nat
  <2>1. PagesOfLine(l, PG_VALID) \subseteq Offsets
    BY DEF PagesOfLine
  <2>2. IsFiniteSet(Offsets) /\ Cardinality(Offsets) = PgsPerLine
        /\ Cardinality(PagesOfLine(l, PG_VALID)) \in Nat
        /\ Cardinality(PagesOfLine(l, PG_INVALID)) \in Nat
    BY <1>4, <2>1, OffsetSets
  <2>3. Offsets \cap PagesOfLine(l, PG_VALID) = PagesOfLine(l, PG_VALID)
    BY <2>1
  <2>4. Cardinality(Offsets \ PagesOfLine(l, PG_VALID))
          = Cardinality(Offsets) - Cardinality(Offsets \cap PagesOfLine(l, PG_VALID))
    BY <2>2, FS_Difference
  <2>5. line[l].ipc = PgsPerLine - line[l].vpc
    BY <1>3, <1>4, <2>2, <2>3, <2>4
  <2> QED BY <1>3, <2>2, <2>5, SizeAssumption
<1>6. ToCopy' = PagesOfLine(l, PG_VALID)
  BY <1>1, SizeAssumption DEF ToCopy, PagesOfLine, Visited, Offsets
<1>7. wfc'.credits_to_refill = line[l].ipc
  BY <1>1 DEF IInv, TypeOK
<1>8. Promised' = 0 /\ Promised = 0 /\ Erased' = Erased
  BY <1>1, <1>2, <1>3, <1>5, <1>6, <1>7, SizeAssumption DEF Promised, Erased, FreePages
<1> QED BY <1>1, <1>8 DEF RoomInv, Halted

\* the pages still to copy while do_gc() goes over the victim
LEMMA CopyLeft ==
    ASSUME IInv, ~ Halted, visit_page
    PROVE  /\ ToCopy \in SUBSET Offsets /\ GCOrder[gc.pos] \in Offsets
           /\ pg[gc_page] = PG_VALID => GCOrder[gc.pos] \in ToCopy
           /\ (\A o \in Offsets : pg'[<<gc.victim, o>>] = pg[<<gc.victim, o>>]) =>
                 ToCopy' = ToCopy \ {GCOrder[gc.pos]}
<1>1. /\ pc = "gc" /\ gc.pos < PgsPerLine /\ gc.pos \in Nat /\ gc.victim \in Lines
      /\ gc'.victim = gc.victim /\ gc'.pos = gc.pos + 1
  BY SizeAssumption DEF visit_page, IInv, TypeOK, ControlOK
<1>2. /\ gc.pos \in Offsets /\ GCOrder[gc.pos] \in Offsets
  <2>1. gc.pos \in Offsets
    BY <1>1, SizeAssumption DEF Offsets
  <2> QED BY <2>1, LayoutAssumption
<1>3. \A o \in Offsets : Visited(<<gc.victim, o>>) <=> \E i \in Offsets : i < gc.pos /\ o = GCOrder[i]
  BY DEF Visited
<1>4. \A o \in Offsets : Visited(<<gc.victim, o>>)' <=> \E i \in Offsets : i < gc.pos + 1 /\ o = GCOrder[i]
  BY <1>1 DEF Visited
<1>5. \A o \in Offsets : Visited(<<gc.victim, o>>)' <=> Visited(<<gc.victim, o>>) \/ o = GCOrder[gc.pos]
  <2>1. \A i \in Offsets : i < gc.pos + 1 <=> i < gc.pos \/ i = gc.pos
    BY <1>1 DEF Offsets
  <2> QED BY <1>2, <1>3, <1>4, <2>1
<1>6. ~ Visited(<<gc.victim, GCOrder[gc.pos]>>)
  <2>1. \A i \in Offsets : i < gc.pos => GCOrder[i] # GCOrder[gc.pos]
    BY <1>1, <1>2, LayoutAssumption DEF Offsets
  <2> QED BY <1>2, <1>3, <2>1
<1>7. ToCopy' = {o \in Offsets : pg'[<<gc.victim, o>>] = PG_VALID /\ ~ Visited(<<gc.victim, o>>)'}
  BY <1>1 DEF ToCopy
<1> QED BY <1>2, <1>5, <1>6, <1>7 DEF ToCopy, gc_page

\* gc_write_page() programs one page and has one page less to copy.
LEMMA CopyRoom ==
    ASSUME IInv, CreditInv, RoomInv, gc_write_page
    PROVE  RoomInv'
<1>1. /\ pc = "gc" /\ ~ Halted /\ visit_page /\ pg[gc_page] = PG_VALID
      /\ program_page(gc_wp, rmap[gc_page]) /\ retire_line(gc_wp) /\ gc_wp' = advanced(gc_wp)
      /\ wp' = wp /\ wfc' = wfc /\ pc' \in {"gc", "erase"} /\ gc'.victim = gc.victim
  BY DEF gc_write_page, visit_page, program_page, IInv, TypeOK
<1>2. \A o \in Offsets : pg'[<<gc.victim, o>>] = pg[<<gc.victim, o>>]
  <2>1. gc.victim # gc_wp.curline /\ gc.victim \in Lines
    BY <1>1 DEF IInv, LinesPartitioned, Partition, ControlOK, TypeOK
  <2>2. pg' = [pg EXCEPT ![<<gc_wp.curline, gc_wp.off>>] = PG_VALID]
    BY <1>1 DEF program_page, mark_page_valid, get_new_page
  <2> QED BY <2>1, <2>2 DEF IInv, TypeOK, Pages
<1>3. /\ ToCopy \in SUBSET Offsets /\ GCOrder[gc.pos] \in ToCopy
      /\ ToCopy' = ToCopy \ {GCOrder[gc.pos]}
  BY <1>1, <1>2, CopyLeft
<1>4. Cardinality(ToCopy') = Cardinality(ToCopy) - 1 /\ Cardinality(ToCopy) \in Nat
  BY <1>3, OffsetSets
<1> DEFINE r == wfc.credits_to_refill
           k == Cardinality(ToCopy)
           a == wp.off
           b == gc_wp.off
           b2 == advanced(gc_wp).off
           f2 == FreePages'
<1>5. /\ r \in 1 .. PgsPerLine /\ a \in 0 .. PgsPerLine - 1 /\ b \in 0 .. PgsPerLine - 1
      /\ FreePages \in Nat /\ PgsPerLine \in Nat /\ b2 \in 0 .. PgsPerLine - 1 /\ k \in Nat
  BY <1>1, <1>4, RoomTypes, AdvancedType DEF CreditInv, IInv, WritePointers, Offsets
<1>6. FreePages + (PgsPerLine - a) + (PgsPerLine - b) >= 2 * PgsPerLine + 2 + (k + r - PgsPerLine)
  BY <1>1 DEF RoomInv, Erased, Promised
<1>7. b + 1 = PgsPerLine => FreePages >= 1
  <2> HIDE DEF r, k, a, b
  <2> QED BY <1>5, <1>6
<1>8. line_is_used_up(gc_wp) => free_line_list # <<>>
  BY <1>1, <1>7, RoomTypes DEF line_is_used_up
<1>9. /\ advanced(gc_wp).curline # NULL
      /\ f2 \in Int /\ f2 - b2 = FreePages - b - 1
  BY <1>1, <1>8, AdvanceRoom
<1>10. /\ Erased' = f2 + (PgsPerLine - a) + (PgsPerLine - b2)
       /\ Promised' = k - 1 + r - PgsPerLine
  BY <1>1, <1>4 DEF Erased, Promised
<1>11. f2 + (PgsPerLine - a) + (PgsPerLine - b2) >= 2 * PgsPerLine + 2 + (k - 1 + r - PgsPerLine)
  <2> HIDE DEF r, k, a, b, b2, f2
  <2> QED BY <1>5, <1>6, <1>9
<1> QED BY <1>1, <1>9, <1>10, <1>11 DEF RoomInv, Halted

\* Passing over a page and erasing a block only lessen what is left to copy.
LEMMA LessToCopy ==
    ASSUME IInv, RoomInv, ToCopy' \subseteq ToCopy, UNCHANGED <<free_line_list, wp, gc_wp, wfc>>,
           pc \in {"gc", "erase"}, pc' \in {"gc", "erase"}
    PROVE  RoomInv'
<1>1. ToCopy \in SUBSET Offsets
  BY DEF ToCopy
<1>2. /\ Cardinality(ToCopy') <= Cardinality(ToCopy)
      /\ Cardinality(ToCopy) \in Nat /\ Cardinality(ToCopy') \in Nat
  BY <1>1, OffsetSets, FS_Subset
<1>3. /\ Erased' = Erased
      /\ Promised = Cardinality(ToCopy) + wfc.credits_to_refill - PgsPerLine
      /\ Promised' = Cardinality(ToCopy') + wfc.credits_to_refill - PgsPerLine
  BY DEF Erased, FreePages, Promised
<1>4. Erased \in Int /\ wfc.credits_to_refill \in Int /\ PgsPerLine \in Nat
  BY RoomTypes DEF RoomInv, Erased, IInv, TypeOK
<1> DEFINE k == Cardinality(ToCopy)
           k2 == Cardinality(ToCopy')
           r == wfc.credits_to_refill
<1>5. Erased >= 2 * PgsPerLine + 2 + (k + r - PgsPerLine)
  BY <1>3 DEF RoomInv
<1>6. Erased >= 2 * PgsPerLine + 2 + (k2 + r - PgsPerLine)
  <2>1. k \in Nat /\ k2 \in Nat /\ k2 <= k /\ r \in Int
    BY <1>2, <1>4
  <2> HIDE DEF k, k2, r
  <2> QED BY <1>4, <1>5, <2>1
<1> QED BY <1>3, <1>6 DEF RoomInv, Halted

LEMMA SkipRoom ==
    ASSUME IInv, RoomInv, gc_skip_page
    PROVE  RoomInv'
<1>1. /\ pc = "gc" /\ ~ Halted /\ visit_page /\ pc' \in {"gc", "erase"}
      /\ UNCHANGED <<free_line_list, wp, gc_wp, wfc, pg>>
  BY DEF gc_skip_page, visit_page, linevars, nandvars
<1>2. ToCopy' \subseteq ToCopy
  BY <1>1, CopyLeft
<1> QED BY <1>1, <1>2, LessToCopy

LEMMA EraseRoom ==
    ASSUME IInv, RoomInv, mark_block_free
    PROVE  RoomInv'
<1>1. /\ pc = "erase" /\ pc' = "gc" /\ UNCHANGED <<free_line_list, wp, gc_wp, wfc, gc>>
      /\ pg' = [p \in Pages |-> IF p[1] = gc.victim /\ BlockOf[p[2]] = gc_block
                                THEN PG_FREE ELSE pg[p]]
      /\ gc.victim \in Lines
  BY DEF mark_block_free, linevars, IInv, ControlOK, TypeOK
<1>2. \A o \in Offsets : pg'[<<gc.victim, o>>] \in {PG_FREE, pg[<<gc.victim, o>>]}
  BY <1>1 DEF Pages
<1>3. ToCopy' \subseteq ToCopy
  BY <1>1, <1>2 DEF ToCopy, Visited, PG_FREE, PG_VALID
<1> QED BY <1>1, <1>3, LessToCopy

\* mark_line_free() gives a whole line for the credits of the victim.
LEMMA FreedRoom ==
    ASSUME IInv, CreditInv, RoomInv, mark_line_free
    PROVE  RoomInv'
<1>1. /\ pc = "gc" /\ ~ Halted /\ gc.pos = PgsPerLine /\ pc' = "write" /\ wfc' = refilled(wfc)
      /\ free_line_list' = Append(free_line_list, gc.victim) /\ UNCHANGED <<wp, gc_wp>>
      /\ gc.victim \in Lines
  BY DEF mark_line_free, IInv, ControlOK, TypeOK
<1>2. ToCopy = {}
  <2>1. \A i \in Offsets : i < PgsPerLine
    BY SizeAssumption DEF Offsets
  <2>2. \A o \in Offsets : Visited(<<gc.victim, o>>)
    BY <1>1, <2>1, LayoutAssumption DEF Visited
  <2> QED BY <2>2 DEF ToCopy
<1>3. FreePages' = FreePages + PgsPerLine
  <2>1. Len(free_line_list') = Len(free_line_list) + 1
    BY <1>1 DEF IInv, TypeOK
  <2>2. (Len(free_line_list) + 1) * PgsPerLine = Len(free_line_list) * PgsPerLine + PgsPerLine
    BY <1>1, RoomTypes
  <2> QED BY <2>1, <2>2 DEF FreePages
<1>4. wfc'.write_credits = wfc.credits_to_refill
  <2>1. /\ wfc \in [write_credits : 0 .. CreditMod - 1, credits_to_refill : Int]
        /\ wfc.write_credits = 0 /\ wfc.credits_to_refill \in 1 .. PgsPerLine
    BY <1>1 DEF IInv, TypeOK, CreditInv
  <2>2. wfc'.write_credits = (0 + wfc.credits_to_refill) % CreditMod
    BY <1>1, <2>1 DEF refilled
  <2> QED BY <2>1, <2>2, CreditArithmetic
<1> DEFINE r == wfc.credits_to_refill
           a == wp.off
           b == gc_wp.off
<1>5. /\ r \in 1 .. PgsPerLine /\ a \in 0 .. PgsPerLine - 1 /\ b \in 0 .. PgsPerLine - 1
      /\ FreePages \in Nat /\ PgsPerLine \in Nat
  BY <1>1, RoomTypes DEF CreditInv
<1>6. FreePages + (PgsPerLine - a) + (PgsPerLine - b) >= 2 * PgsPerLine + 2 + (0 + r - PgsPerLine)
  BY <1>1, <1>2, FS_EmptySet DEF RoomInv, Erased, Promised
<1>7. /\ Erased' = FreePages + PgsPerLine + (PgsPerLine - a) + (PgsPerLine - b)
      /\ Promised' = r
  BY <1>1, <1>3, <1>4 DEF Erased, Promised
<1>8. FreePages + PgsPerLine + (PgsPerLine - a) + (PgsPerLine - b) >= 2 * PgsPerLine + 2 + r
  <2> HIDE DEF r, a, b
  <2> QED BY <1>5, <1>6
<1> QED BY <1>1, <1>7, <1>8 DEF RoomInv, Halted

LEMMA StepRoom ==
    ASSUME SpareLines, IInv, CreditInv, RoomInv, [Next]_vars
    PROVE  RoomInv'
<1>1. CASE write_page
  BY <1>1, WritePageRoom
<1>2. CASE refill_without_gc
  BY <1>2, RefillRoom
<1>3. CASE \E l \in victim_line_pq : do_gc(l)
  BY <1>3, DoGcRoom
<1>4. CASE gc_write_page
  BY <1>4, CopyRoom
<1>5. CASE gc_skip_page
  BY <1>5, SkipRoom
<1>6. CASE mark_block_free
  BY <1>6, EraseRoom
<1>7. CASE mark_line_free
  BY <1>7, FreedRoom
<1>8. CASE \E lpn \in LPNs : start_new_page(lpn) \/ start_overwrite(lpn)
  <2>1. pc = "write" /\ pc' = "program" /\ UNCHANGED <<free_line_list, wp, gc_wp, wfc>>
    BY <1>8 DEF start_new_page, start_overwrite, mark_page_invalid, linevars
  <2> QED BY <2>1 DEF RoomInv, Halted, Erased, FreePages, Promised
<1>9. CASE UNCHANGED vars
  BY <1>9 DEF vars, RoomInv, Halted, Erased, FreePages, Promised, ToCopy, Visited
<1> QED BY <1>1, <1>2, <1>3, <1>4, <1>5, <1>6, <1>7, <1>8, <1>9
        DEF Next, check_and_refill_write_credit

\* At the start all lines are erased.
LEMMA InitRoom ==
    ASSUME SpareLines, Init
    PROVE  RoomInv
<1> DEFINE n == Len(InitialFree)
<1>1. n \in Nat /\ n >= 3 /\ PgsPerLine \in Nat /\ PgsPerLine > 0
  BY LinesAssumption, SizeAssumption
<1>2. Cardinality(Lines) = n
  <2>1. InitialFree \in Bijection(1 .. n, Lines)
    BY LinesAssumption DEF Bijection, Injection, Surjection, IsInjective
  <2> QED BY <1>1, <2>1, FS_CountingElements DEF ExistsBijection
<1>3. n >= 5
  <2>1. Cardinality(LPNs) \in Nat /\ GcThresLinesHigh \in Nat
    BY SizeAssumption, FS_CardinalityType
  <2> DEFINE m == n - GcThresLinesHigh - 2
  <2>2. m \in Int /\ m * PgsPerLine > 0
    BY <1>1, <1>2, <2>1 DEF SpareLines
  <2>3. ~ (m <= 0)
    <3> HIDE DEF m
    <3>1. SUFFICES ASSUME m <= 0 PROVE FALSE
      OBVIOUS
    <3>2. m * PgsPerLine <= 0 * PgsPerLine /\ 0 * PgsPerLine = 0
      BY <1>1, <2>2, <3>1, Scaled
    <3>3. m * PgsPerLine \in Int
      BY <1>1, <2>2
    <3> QED BY <2>2, <3>2, <3>3
  <2> QED BY <1>1, <2>1, <2>3 DEF SpareLines
<1>4. /\ free_line_list = SubSeq(InitialFree, 3, n) /\ pc = "write"
      /\ wp = [curline |-> InitialFree[1], off |-> 0]
      /\ gc_wp = [curline |-> InitialFree[2], off |-> 0]
      /\ wfc = [write_credits |-> PgsPerLine, credits_to_refill |-> PgsPerLine]
  BY DEF Init, conv_init_ftl
<1>5. Len(free_line_list) = n - 2
  BY <1>1, <1>4, LinesAssumption
<1>6. ~ Halted
  <2>1. InitialFree[1] \in Lines /\ InitialFree[2] \in Lines
    BY <1>1, LinesAssumption
  <2> QED BY <1>4, <2>1, NullAssumption DEF Halted
<1>7. 3 * PgsPerLine <= (n - 2) * PgsPerLine
  <2>1. n - 2 \in Int /\ 3 <= n - 2
    BY <1>1, <1>3
  <2> QED BY <1>1, <2>1, Scaled
<1>8. Erased = FreePages + PgsPerLine + PgsPerLine /\ Promised = PgsPerLine
      /\ FreePages = (n - 2) * PgsPerLine /\ FreePages \in Int
  BY <1>1, <1>4, <1>5 DEF Erased, Promised, FreePages
<1>9. FreePages + PgsPerLine + PgsPerLine >= 2 * PgsPerLine + 2 + PgsPerLine
  BY <1>1, <1>7, <1>8
<1> QED BY <1>6, <1>8, <1>9 DEF RoomInv

\* get_next_free_line() always finds a line: two lines in reserve suffice, as the
\* comment in conv_init_params() says, when the host's pages fill at most all
\* lines but those two and the two that are open.
THEOREM LinesNeverRunOut == ASSUME SpareLines PROVE Spec => []NeverOutOfLines
<1>1. Init => RoomInv /\ CreditInv
  BY InitRoom, SizeAssumption DEF Init, conv_init_ftl, CreditInv
<1>2. IInv /\ CreditInv /\ RoomInv /\ [Next]_vars => CreditInv' /\ RoomInv'
  BY StepCredit, StepRoom
<1>3. RoomInv => NeverOutOfLines
  BY DEF RoomInv, NeverOutOfLines
<1> QED BY <1>1, <1>2, <1>3, Invariance, PTL DEF Spec

============================================================================
