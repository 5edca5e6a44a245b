------------------------------ MODULE Calendar ------------------------------
(***************************************************************************)
(* What a channel of the performance model promises: a calendar of time    *)
(* slots, the current one first, in each of which a fixed amount of data   *)
(* can be transferred.  A transfer takes what it needs from its first slot *)
(* on and leaves nothing behind.  The detailed channel (ChannelModel)      *)
(* keeps the same calendar in a ring that is brought up to date only when  *)
(* it is used.                                                             *)
(***************************************************************************)
EXTENDS Integers, FiniteSetsExt, Functions

CONSTANTS
    Horizon,    \* number of slots that can be planned
    Credits     \* capacity of a slot

VARIABLE free   \* credits left in the current slot and the following ones

Slots == 0 .. Horizon - 1

Init == free = [o \in Slots |-> Credits]

\* time: the first slot has passed
Pass == free' = [o \in Slots |-> IF o + 1 \in Slots THEN free[o + 1] ELSE Credits]

\* the credits from slot r on
Left(r) == SumFunctionOnSet([o \in r .. Horizon - 1 |-> free[o]], r .. Horizon - 1)

\* a transfer of n credits from slot r on, or of what is left there
Book(r, n) ==
    /\ DOMAIN free' = Slots
    /\ \A o \in Slots : free'[o] \in 0 .. free[o] /\ (o < r => free'[o] = free[o])
    /\ SumFunctionOnSet([o \in Slots |-> free[o] - free'[o]], Slots) = Min({n, Left(r)})
    /\ \A o \in Slots, p \in r .. Horizon - 1 :
         free'[o] # free[o] /\ p < o => free'[p] = 0

\* to ask for more than is left is to ask for one more
Next == Pass \/ \E r \in Slots : \E n \in 1 .. Left(r) + 1 : Book(r, n)

Spec == Init /\ [][Next]_free
=============================================================================
