---------------------------- MODULE SectionService ----------------------------
(***************************************************************************)
(* What the section runner promises, without channels, ring buffer, timers *)
(* or Done channels: a line of runs served first come first served, one    *)
(* valve open at a time, withdrawals that keep the order of the others,    *)
(* and a pause that closes the valve and keeps the current run.            *)
(***************************************************************************)
EXTENDS Line

CONSTANTS Runs,    \* the runs there can be: records with id and sec
          None     \* no run

VARIABLES line,    \* the runs waiting, in order
          current, \* the run that is served, or None
          paused,
          on       \* the sections whose valve is open

vars == <<line, current, paused, on>>

Init == line = EmptyLine /\ current = None /\ paused = FALSE /\ on = {}

\* Serve the first run in line; its valve opens unless the service is paused.
Serve(pausedNow) ==
  \/ /\ DOMAIN line = {}
     /\ current' = None /\ on' = {} /\ UNCHANGED line
  \/ \E r \in DOMAIN line :
       /\ IsFirst(line, r)
       /\ current' = r /\ line' = Without(line, r)
       /\ on' = IF pausedNow THEN {} ELSE {r.sec}

\* A run is served at once if nothing is, and waits in line otherwise; it comes once.
Accept(r) ==
  /\ r \notin DOMAIN line /\ r # current
  /\ \/ /\ current = None /\ ~paused
        /\ current' = r /\ on' = {r.sec} /\ UNCHANGED line
     \/ /\ current # None \/ paused
        /\ line' = Join(line, r) /\ UNCHANGED <<current, on>>
  /\ UNCHANGED paused

\* Runs are withdrawn from the line; the others keep their order.
KeepOnly(S) == line' = Keep(line, S) /\ UNCHANGED <<current, paused, on>>

WithdrawSection(sec) == KeepOnly({r \in DOMAIN line : r.sec # sec})
WithdrawID(id)       == KeepOnly({r \in DOMAIN line : r.id # id})
WithdrawAll          == KeepOnly({})

\* The current run ends: its valve closes, then the next run is served.
Close   == current # None /\ on' = {} /\ UNCHANGED <<line, current, paused>>
Advance == current # None /\ on = {} /\ Serve(paused) /\ UNCHANGED paused

Pause == /\ ~paused /\ paused' = TRUE
         /\ on' = {} /\ UNCHANGED <<line, current>>

Unpause ==
  /\ paused /\ paused' = FALSE
  /\ \/ current # None /\ on' = {current.sec} /\ UNCHANGED <<line, current>>
     \/ current = None /\ Serve(FALSE)

Next ==
  \/ \E r \in Runs : Accept(r) \/ WithdrawSection(r.sec) \/ WithdrawID(r.id)
  \/ WithdrawAll
  \/ Close \/ Advance \/ Pause \/ Unpause

Spec == Init /\ [][Next]_vars
=============================================================================
