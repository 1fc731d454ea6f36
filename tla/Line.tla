--------------------------------- MODULE Line ---------------------------------
(***************************************************************************)
(* A line of runs, none in it twice, is a function: its domain is the runs *)
(* in line, and it maps each to the runs behind it.  What a queue promises *)
(* is said in these terms, which need no positions and so say the same of  *)
(* a sequence and of a ring with holes.                                    *)
(***************************************************************************)

EmptyLine == [r \in {} |-> {}]

\* r joins behind everybody.
Join(line, r) ==
  [x \in DOMAIN line \cup {r} |-> IF x = r THEN {} ELSE line[x] \cup {r}]

\* Only runs of S stay, in the order they were in.
Keep(line, S) == [x \in DOMAIN line \cap S |-> line[x] \cap S]

\* r is ahead of everybody else.
IsFirst(line, r) == r \in DOMAIN line /\ line[r] = DOMAIN line \ {r}

\* The line without r.
Without(line, r) == Keep(line, DOMAIN line \ {r})
=============================================================================
