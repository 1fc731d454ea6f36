------------------------------ MODULE MCProgram ------------------------------
(***************************************************************************)
(* Finite instances of Program.                                            *)
(***************************************************************************)
EXTENDS Program

CONSTANTS c1, c2, b1, b2

\* An update that disables the program and shortens its sequence, one that enables
\* it, and one that takes away its schedule.
MCNewData ==
  {[name |-> "new", items |-> 1, scheduled |-> TRUE, enabled |-> FALSE],
   [name |-> "old", items |-> MaxItems, scheduled |-> TRUE, enabled |-> TRUE],
   [name |-> "old", items |-> MaxItems, scheduled |-> FALSE, enabled |-> TRUE]}
=============================================================================
