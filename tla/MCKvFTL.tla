------------------------------ MODULE MCKvFTL -------------------------------
EXTENDS KvFTL

\* two keys start at slot 0, the third at the slot they overflow into
MCHash == [k \in Keys |-> IF k = "c" THEN 1 ELSE 0]
=============================================================================
