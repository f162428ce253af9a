----------------------------- MODULE WriteBehind -----------------------------
(***************************************************************************)
(* What a write-behind counter store promises.  An amount that was         *)
(* accepted waits in memory, is picked up by the writer together with the  *)
(* rest of what waits for its counter, and is written once.  Only a failed *)
(* write or a crash loses an amount, and only one not written yet.         *)
(***************************************************************************)
EXTENDS Integers

CONSTANTS Counters, Amounts

VARIABLES durable, writing, waiting

vars == <<durable, writing, waiting>>
zero == [c \in Counters |-> 0]

Init == durable = zero /\ writing = zero /\ waiting = zero

Accept(c, n) ==
  /\ waiting' = [waiting EXCEPT ![c] = @ + n]
  /\ UNCHANGED <<durable, writing>>

\* The writer has nothing left and takes all that waits for the counters C.
PickUp(C) ==
  /\ writing = zero
  /\ writing' = [c \in Counters |-> IF c \in C THEN waiting[c] ELSE 0]
  /\ waiting' = [c \in Counters |-> IF c \in C THEN 0 ELSE waiting[c]]
  /\ UNCHANGED durable

Write(c) ==
  /\ durable' = [durable EXCEPT ![c] = @ + writing[c]]
  /\ writing' = [writing EXCEPT ![c] = 0]
  /\ UNCHANGED waiting

Drop(c) ==
  /\ writing' = [writing EXCEPT ![c] = 0]
  /\ UNCHANGED <<durable, waiting>>

Crash == writing' = zero /\ waiting' = zero /\ UNCHANGED durable

Next ==
  \/ \E c \in Counters : Write(c) \/ Drop(c) \/ \E n \in Amounts : Accept(c, n)
  \/ \E C \in SUBSET Counters : PickUp(C)
  \/ Crash

Spec == Init /\ [][Next]_vars
=============================================================================
