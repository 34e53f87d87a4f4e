------------------------- MODULE ConnectionLifecycle -------------------------
(***************************************************************************)
(* What an instance of transgate promises its clients about connections:   *)
(* each one arrives once, waits, is admitted while there is room for it,   *)
(* is served, and ends once and for all.  Several may end in one step, for *)
(* idle users are eliminated together and a stopping instance drops all.   *)
(***************************************************************************)
EXTENDS Integers, FiniteSets

CONSTANTS
  Conn,      \* the connections
  Capacity   \* how many can be served at a time, a natural number

VARIABLE life   \* the stage of life of each connection

Served == {c \in Conn : life[c] = "served"}

Init == life = [c \in Conn |-> "new"]

Arrive(c) ==
  /\ life[c] = "new"
  /\ life' = [life EXCEPT ![c] = "waiting"]

Admit(c) ==
  /\ life[c] = "waiting"
  /\ Cardinality(Served) < Capacity
  /\ life' = [life EXCEPT ![c] = "served"]

Finish(S) ==
  /\ S \subseteq Served
  /\ life' = [c \in Conn |-> IF c \in S THEN "done" ELSE life[c]]

Next ==
  \/ \E c \in Conn : Arrive(c) \/ Admit(c)
  \/ \E S \in SUBSET Conn : Finish(S)

Spec == Init /\ [][Next]_life
=============================================================================
