---------------------------- MODULE ChannelModel ----------------------------
(***************************************************************************)
(* The bandwidth of one channel (channel_model.c): a ring with an entry of *)
(* credits for each of the next NR_CREDIT_ENTRIES time slots.  Entries of  *)
(* slots that have passed are filled up again, and the head is moved, only *)
(* when the channel is used the next time.                                 *)
(*                                                                         *)
(* Time is counted in slots (UNIT_TIME_INTERVAL) and relative to the       *)
(* present: 0 is now, -1 the slot before.                                  *)
(***************************************************************************)
EXTENDS Integers, FiniteSetsExt, Functions

CONSTANTS
    NR_CREDIT_ENTRIES,
    MaxCredits,     \* max_credits, what the bandwidth allows in a slot
    MaxUnits,       \* bound: UNIT_XFER_SIZEs of a request
    Wrap,           \* 2^32: the slots since the last use are counted in 32 bits
    MaxPause        \* bound: slots between two uses

ASSUME ChannelAssumption ==
    /\ NR_CREDIT_ENTRIES \in Nat \ {0}
    /\ MaxCredits \in Nat \ {0}
    /\ MaxUnits \in Nat
    /\ Wrap \in Nat \ {0} /\ MaxPause \in Nat

\* the channel is used again before the count of slots starts anew (4.8 hours)
ShortPauses == MaxPause < Wrap

Entries == 0 .. NR_CREDIT_ENTRIES - 1

VARIABLES
    head,         \* head
    valid_len,
    age,            \* slots since cur_time
    avail_credits,
    delayed         \* the last result: slots lost to other transfers

channelVars == <<head, valid_len, age, avail_credits, delayed>>

\* chmodel_init()
InitChannel ==
    /\ head = 0
    /\ valid_len = 0
    /\ age = 0
    /\ avail_credits = [e \in Entries |-> MaxCredits]
    /\ delayed = 0

\* the entry that is o entries behind the head
entry(o) == (head + o) % NR_CREDIT_ENTRIES

\* cur_time_offs: the 64-bit difference goes into 32 bits first
cur_time_offs == Min({age % Wrap, valid_len})

\* mutant: what lies behind the end of the array is not filled up again
refilled_no_wrap ==
    [e \in Entries |-> IF e - head \in 0 .. cur_time_offs - 1 THEN MaxCredits ELSE avail_credits[e]]

\* the entries once the slots that have passed are filled up again
refilled ==
    [e \in Entries |-> IF (e - head) % NR_CREDIT_ENTRIES < cur_time_offs THEN MaxCredits
                       ELSE avail_credits[e]]

\* the head is moved to the present
move_head(valid_length) ==
    /\ head' = entry(cur_time_offs)
    /\ age' = 0
    /\ valid_len' = Max({valid_len - cur_time_offs, valid_length})

\* the same, counted from the present
coming == [o \in Entries |-> refilled[entry(cur_time_offs + o)]]

\* what is left in the slots from r to o - 1
left_before(r, o) == SumFunctionOnSet([p \in r .. o - 1 |-> coming[p]], r .. o - 1)

\* where the loop of chmodel_request() stops: it has all the credits it
\* needs, or the ring is used up
last_slot(r, units) ==
    Min({o \in r .. NR_CREDIT_ENTRIES - 1 :
           left_before(r, o + 1) >= units \/ o = NR_CREDIT_ENTRIES - 1})

\* a transfer that is asked for slot r
chmodel_request(r, units) ==
    LET last == last_slot(r, units)
        taken(o) == IF o \in r .. last
                    THEN Min({coming[o], units - left_before(r, o)})
                    ELSE 0
        offset(e) == (e - entry(cur_time_offs)) % NR_CREDIT_ENTRIES
    IN  /\ r \in Entries
        /\ move_head(last + 1)
        /\ avail_credits' = [e \in Entries |-> refilled[e] - taken(offset(e))]
        /\ delayed' = Max({0, last - r - units \div MaxCredits})

\* a request for the past, or for a time behind the end of the ring, is
\* answered with its own time (a time Wrap slots ahead would look like the
\* present; requests are for times near the present)
chmodel_request_outside(r) ==
    /\ r \notin Entries
    /\ move_head(0)
    /\ avail_credits' = refilled
    /\ delayed' = 0

\* a slot passes; the channel does not notice
slot_passes ==
    /\ age < MaxPause
    /\ age' = age + 1
    /\ delayed' = 0
    /\ UNCHANGED <<head, valid_len, avail_credits>>

NextChannel ==
    \/ \E r \in Entries, units \in 1 .. MaxUnits : chmodel_request(r, units)
    \/ \E r \in {-1, NR_CREDIT_ENTRIES} : chmodel_request_outside(r)
    \/ slot_passes

ChannelSpec == InitChannel /\ [][NextChannel]_channelVars

(***************************************************************************)
(* Properties.                                                             *)
(***************************************************************************)
\* the credits of the slot o slots from now, as the ring stands for them: what
\* lies behind its valid part is untouched
slot_credits == [o \in Entries |->
    IF age + o < valid_len THEN avail_credits[entry(age + o)] ELSE MaxCredits]

Slots == INSTANCE Calendar WITH Horizon <- NR_CREDIT_ENTRIES, Credits <- MaxCredits,
                                free <- slot_credits

\* whatever the order of requests and pauses shorter than Wrap slots, the ring
\* that is updated only when it is used stands for the calendar of the coming
\* slots: no transfer is charged to a slot that has passed, no credit is lost
\* when the ring wraps
ImplementsCalendar == Slots!Spec
=============================================================================
