------------------------------ MODULE FifoQueue ------------------------------
(***************************************************************************)
(* The queue a client of SRQueue reasons about: a line of runs, first in,  *)
(* first out, that runs may be taken out of anywhere.                      *)
(***************************************************************************)
EXTENDS Line

CONSTANTS Runs, None

VARIABLES line,  \* the queued runs, in order
          out    \* what the last operation returned, or None

vars == <<line, out>>

Init == line = EmptyLine /\ out = None

Enqueue(r) == r \notin DOMAIN line /\ line' = Join(line, r) /\ out' = None

Dequeue ==
  \/ DOMAIN line = {} /\ out' = None /\ UNCHANGED line
  \/ \E r \in DOMAIN line : IsFirst(line, r) /\ out' = r /\ line' = Without(line, r)

RemoveSection(sec) == line' = Keep(line, {r \in DOMAIN line : r.sec # sec}) /\ out' = None
RemoveAll          == line' = EmptyLine /\ out' = None

\* The run with the id leaves the line and is returned, if it is in line.
RemoveID(id) ==
  /\ line' = Keep(line, {r \in DOMAIN line : r.id # id})
  /\ \/ (\A r \in DOMAIN line : r.id # id) /\ out' = None
     \/ out' \in DOMAIN line /\ out'.id = id

Next ==
  \/ \E r \in Runs : Enqueue(r) \/ RemoveSection(r.sec) \/ RemoveID(r.id)
  \/ Dequeue \/ RemoveAll

Spec == Init /\ [][Next]_vars
=============================================================================
