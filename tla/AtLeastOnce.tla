----------------------------- MODULE AtLeastOnce -----------------------------
(* What a Kafka consumer of the inventory promises of a partition of N     *)
(* messages: the acknowledged offset only grows, and covers only messages  *)
(* that have been decided (applied, refused or given up). Every message is *)
(* decided in the end. Decided messages may be decided again.              *)
EXTENDS Naturals

CONSTANT N   \* the length of the partition, a natural number

VARIABLES acked,   \* the committed offset: messages 1..acked are covered
          done     \* the messages decided so far

vars == <<acked, done>>

Init == acked = 0 /\ done = {}

(* A batch is decided as a whole. *)
Decide == \E ms \in SUBSET (1..N) : done' = done \union ms /\ UNCHANGED acked

Acknowledge ==
  /\ acked' \in acked..N
  /\ 1..acked' \subseteq done
  /\ UNCHANGED done

Next == Decide \/ Acknowledge

Spec == Init /\ [][Next]_vars
=============================================================================
