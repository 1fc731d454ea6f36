---------------------------- MODULE SectionRunner ----------------------------
(***************************************************************************)
(* The section runner (logic/section_runner.go): one goroutine that opens  *)
(* at most one irrigation valve at a time.  Clients -- the MQTT handlers   *)
(* and the program goroutines -- talk to it through four buffered channels *)
(* (run, cancelSec, cancelID, paused); the goroutine selects among those   *)
(* that are ready, so calls on different channels may overtake each other. *)
(*                                                                         *)
(* Time is relative.  Tick is one unit of it; the timer returned by        *)
(* time.After is the time left until it fires, and it may be handled late. *)
(* Durations keep their value, clock readings only the difference the code *)
(* computes from them (now - UnpauseTime, or StartTime before the first    *)
(* unpause).  Logging and OnUpdateState are not part of this module.       *)
(*                                                                         *)
(* An operator named Mutant... is a plausible mistake in the operator      *)
(* after it, for mutation runs; nothing uses it.                           *)
(***************************************************************************)
EXTENDS SRQueue, FiniteSets

CONSTANTS
  Section,    \* the sections, each with a valve of its own
  Request,    \* what clients ask for: [sec, total, async]
  MaxRuns,    \* bound: how many runs are ever requested
  QueueSize,  \* initial number of slots of the queue (10 in NewSRState)
  ChanCap,    \* capacity of the channels (2 in NewSectionRunner)
  MaxLate,    \* bound: how late a timer that fired may be handled
  Calls       \* the calls clients make besides asking for runs

IDAll == -1                  \* srIDAll
ID    == 0 .. MaxRuns - 1
Run   == [id : ID, sec : Section, total : Int, async : BOOLEAN]

ASSUME ConstantsAssumption ==
  /\ Request \subseteq [sec : Section, total : Int, async : BOOLEAN]
  /\ MaxRuns \in Nat /\ QueueSize \in Nat \ {0}
  /\ ChanCap \in Nat \ {0} /\ MaxLate \in Nat
  /\ Nil \notin [id : Int, sec : Section, total : Int, async : BOOLEAN]

VARIABLES
  \* --- clients and channels
  nextID,       \* atomic counter: the next RunID
  sending,      \* runs that have their id and are not yet in the channel
  runCh, cancelSecCh, cancelIDCh, pausedCh,
  waiting,      \* ids whose Done channel somebody will still receive from
  done,         \* content of each run's Done channel, of capacity 1
  \* --- the goroutine's position and locals
  pc,           \* "select", "notify", "handover" or "quit"
  pending,      \* removed runs still to be told, by distance from head
  ending,       \* how the current run is ending: "none", "cancelled", "finished"
  armed, delay, \* the timer channel: whether it is non-nil; the time until it fires
  \* --- SRState
  queue, current, paused,
  left,         \* current.Duration
  elapsed,      \* time since current.UnpauseTime, or StartTime when that is nil
  \* --- the world
  on,           \* the sections whose valve is open
  \* --- history
  onTime,       \* how long the valve has been open during the current run
  sent          \* how often each run's Done channel was sent on

clientVars == <<nextID, sending, runCh, cancelSecCh, cancelIDCh, pausedCh, waiting>>
doneVars   == <<done, sent>>
timerVars  == <<armed, delay, elapsed, onTime>>
waterVars  == <<current, left, on, timerVars>>
vars == <<clientVars, doneVars, pc, pending, ending, queue, paused, waterVars>>

NoRuns == [k \in {} |-> Nil]  \* an empty list of removed runs

Init ==
  /\ nextID = 0 /\ sending = {} /\ waiting = {}
  /\ runCh = <<>> /\ cancelSecCh = <<>> /\ cancelIDCh = <<>> /\ pausedCh = <<>>
  /\ done = [id \in ID |-> "empty"] /\ sent = [id \in ID |-> 0]
  /\ pc = "select" /\ pending = NoRuns /\ ending = "none"
  /\ queue = NewSRQueue(QueueSize) /\ current = Nil /\ paused = FALSE
  /\ left = 0 /\ elapsed = 0 /\ armed = FALSE /\ delay = 0
  /\ on = {} /\ onTime = 0

-----------------------------------------------------------------------------
(* Clients.  A channel send blocks while the channel is full, so it is an  *)
(* action that is enabled when there is room.                              *)

runnerVars == <<pc, pending, ending, queue, paused, waterVars>>

\* QueueSectionRun and RunSectionAsync: first the id is drawn ...
GetNextID(req) ==
  /\ nextID < MaxRuns
  /\ sending' = sending \cup
       {[id |-> nextID, sec |-> req.sec, total |-> req.total, async |-> req.async]}
  /\ nextID' = nextID + 1
  /\ UNCHANGED <<runCh, cancelSecCh, cancelIDCh, pausedCh, waiting, doneVars, runnerVars>>

\* ... then the run is sent; two callers may send in the other order.
SendRun(r) ==
  /\ r \in sending /\ Len(runCh) < ChanCap
  /\ runCh' = Append(runCh, r)
  /\ sending' = sending \ {r}
  /\ waiting' = IF r.async THEN waiting \cup {r.id} ELSE waiting
  /\ UNCHANGED <<nextID, cancelSecCh, cancelIDCh, pausedCh, doneVars, runnerVars>>

CancelSection(sec) ==
  /\ "cancelSection" \in Calls /\ Len(cancelSecCh) < ChanCap
  /\ cancelSecCh' = Append(cancelSecCh, sec)
  /\ UNCHANGED <<nextID, sending, runCh, cancelIDCh, pausedCh, waiting, doneVars, runnerVars>>

\* A caller knows the id of a run only after the run was sent.
Known == {id \in ID : id < nextID /\ \A r \in sending : r.id # id}

CancelID(id) ==
  /\ "cancelID" \in Calls /\ Len(cancelIDCh) < ChanCap
  /\ id \in Known
  /\ cancelIDCh' = Append(cancelIDCh, id)
  /\ UNCHANGED <<nextID, sending, runCh, cancelSecCh, pausedCh, waiting, doneVars, runnerVars>>

CancelAll ==
  /\ "cancelAll" \in Calls /\ Len(cancelIDCh) < ChanCap
  /\ cancelIDCh' = Append(cancelIDCh, IDAll)
  /\ UNCHANGED <<nextID, sending, runCh, cancelSecCh, pausedCh, waiting, doneVars, runnerVars>>

\* A cancelled program cancels its runs and returns without receiving from Done.
CancelOwn(id) ==
  /\ "cancelOwn" \in Calls /\ Len(cancelIDCh) < ChanCap
  /\ id \in waiting
  /\ cancelIDCh' = Append(cancelIDCh, id)
  /\ waiting' = waiting \ {id}
  /\ UNCHANGED <<nextID, sending, runCh, cancelSecCh, pausedCh, doneVars, runnerVars>>

Pause ==
  /\ "pause" \in Calls /\ Len(pausedCh) < ChanCap
  /\ pausedCh' = Append(pausedCh, TRUE)
  /\ UNCHANGED <<nextID, sending, runCh, cancelSecCh, cancelIDCh, waiting, doneVars, runnerVars>>

Unpause ==
  /\ "pause" \in Calls /\ Len(pausedCh) < ChanCap
  /\ pausedCh' = Append(pausedCh, FALSE)
  /\ UNCHANGED <<nextID, sending, runCh, cancelSecCh, cancelIDCh, waiting, doneVars, runnerVars>>

\* RunSection and an uncancelled program receive from Done once.
ReceiveDone(id) ==
  /\ id \in waiting /\ done[id] # "empty"
  /\ done' = [done EXCEPT ![id] = "empty"]
  /\ waiting' = waiting \ {id}
  /\ UNCHANGED <<nextID, sending, runCh, cancelSecCh, cancelIDCh, pausedCh, sent, runnerVars>>

-----------------------------------------------------------------------------
(* The goroutine.  It holds SRState's lock from the receive to the end of  *)
(* a handler; the handlers below are one step each except where they send  *)
(* on a Done channel, which blocks while that channel is full.             *)

\* delay = time.After(d), and delay = nil
Arm(d) == armed' = TRUE /\ delay' = d

\* Leaves the old timer in place.
MutantDisarm == UNCHANGED <<armed, delay>>

Disarm == armed' = FALSE /\ delay' = 0

\* The water starts (or, while paused, waits to start) for r, the new current run.
RunItem(r) ==
  /\ current' = r
  /\ onTime' = 0 /\ elapsed' = 0
  /\ \/ r = Nil /\ left' = 0 /\ UNCHANGED <<armed, delay, on>>
     \/ /\ r # Nil
        /\ left' = r.total
        /\ \/ paused' /\ Disarm /\ on' = on
           \/ ~paused' /\ Arm(r.total) /\ on' = on \cup {r.sec}

\* finishRun up to its send on Done.
BeginFinish(how) ==
  /\ on' = on \ {current.sec}
  /\ Disarm
  /\ ending' = how
  /\ pc' = "handover"

\* Leaves the next run to the next event.
MutantNextRun == RunItem(Nil) /\ UNCHANGED queue

\* Takes one slot, even if it is a hole.
MutantNextSlot ==
  \/ queue.head = queue.tail /\ RunItem(Nil) /\ UNCHANGED queue
  \/ /\ queue.head # queue.tail /\ RunItem(queue.items[queue.head])
     /\ queue' = [queue EXCEPT !.head = Succ(queue, queue.head)]

\* Pop and run the next run: the end of finishRun, and unpausing with no current run.
NextRun == RunItem(Popped(queue)) /\ queue' = Pop(queue)

\* case item := <-r.run
HandleRun ==
  /\ pc = "select" /\ runCh # <<>>
  /\ runCh' = Tail(runCh)
  /\ \/ /\ current = Nil /\ ~paused
        /\ paused' = paused
        /\ RunItem(Head(runCh))
        /\ UNCHANGED queue
     \/ /\ current # Nil \/ paused
        /\ queue' = Push(queue, Head(runCh))
        /\ UNCHANGED <<paused, waterVars>>
  /\ UNCHANGED <<nextID, sending, cancelSecCh, cancelIDCh, pausedCh, waiting, doneVars,
                 pc, pending, ending>>

\* Reads the slots after they were cleared.
MutantNotices(slots) == NoRuns

\* The removed runs that have a Done channel, by their distance from head.
Notices(slots) ==
  [k \in {Offset(queue, i) : i \in {j \in slots : queue.items[j].async}} |->
     queue.items[SlotAt(queue, k)]]

\* The part of a cancel handler common to all: clear the slots, list the runs
\* to be told, and see whether the current run is cancelled too.
Withdraw(slots, endCurrent) ==
  /\ queue' = Remove(queue, slots)
  /\ pending' = Notices(slots)
  /\ ending' = IF endCurrent THEN "cancelled" ELSE "none"
  /\ pc' = "notify"
  /\ UNCHANGED <<paused, waterVars>>

\* case sec := <-r.cancelSec
HandleCancelSec ==
  /\ pc = "select" /\ cancelSecCh # <<>>
  /\ cancelSecCh' = Tail(cancelSecCh)
  /\ LET sec == Head(cancelSecCh)
     IN  Withdraw(WithSection(queue, sec), current # Nil /\ current.sec = sec)
  /\ UNCHANGED <<nextID, sending, runCh, cancelIDCh, pausedCh, waiting, doneVars>>

\* case id := <-r.cancelID
HandleCancelID ==
  /\ pc = "select" /\ cancelIDCh # <<>>
  /\ cancelIDCh' = Tail(cancelIDCh)
  /\ LET id == Head(cancelIDCh)
     IN  \/ id = IDAll /\ Withdraw(All(queue), current # Nil)
         \/ id # IDAll /\ Withdraw(ByID(queue, id), current # Nil /\ current.id = id)
  /\ UNCHANGED <<nextID, sending, runCh, cancelSecCh, pausedCh, waiting, doneVars>>

SendDone(id, value) ==
  /\ done[id] = "empty"
  /\ done' = [done EXCEPT ![id] = value]
  /\ sent' = [sent EXCEPT ![id] = @ + 1]

\* secRun.Done <- true, for the removed runs in order
NotifyRemoved ==
  /\ pc = "notify"
  /\ \E k \in DOMAIN pending :
       /\ \A j \in DOMAIN pending : k <= j
       /\ SendDone(pending[k].id, "cancelled")
       /\ pending' = [j \in DOMAIN pending \ {k} |-> pending[j]]
  /\ UNCHANGED <<clientVars, pc, ending, queue, paused, waterVars>>

\* All removed runs are told: on to finishRun(true), or back to the select.
EndNotify ==
  /\ pc = "notify" /\ DOMAIN pending = {}
  /\ \/ /\ ending = "none"
        /\ pc' = "select"
        /\ UNCHANGED <<ending, waterVars>>
     \/ /\ ending = "cancelled"
        /\ BeginFinish("cancelled")
        /\ UNCHANGED <<current, left, elapsed, onTime>>
  /\ UNCHANGED <<clientVars, doneVars, pending, queue, paused>>

\* Misses a timer that is handled late.
MutantTimerFired == armed /\ delay = 0

\* The timer's channel has its value, and keeps it until it is received.
TimerFired == armed /\ delay <= 0

\* case <-delay: finishRun(false)
HandleTimer ==
  /\ pc = "select" /\ TimerFired
  /\ BeginFinish("finished")
  /\ UNCHANGED <<clientVars, doneVars, pending, queue, paused, current, left, elapsed, onTime>>

\* The rest of finishRun, from the send on Done, and the runItem that follows.
HandOver ==
  /\ pc = "handover"
  /\ \/ current.async /\ SendDone(current.id, ending)
     \/ ~current.async /\ UNCHANGED doneVars
  /\ paused' = paused
  /\ NextRun
  /\ ending' = "none" /\ pc' = "select"
  /\ UNCHANGED <<clientVars, pending>>

\* Forgets what earlier pauses already subtracted.
MutantRemaining == current.total - elapsed

\* The time the current run still needs: Duration - alreadyRunFor.
Remaining == left - elapsed

\* Leaves the valve open.
MutantPauseCurrent == /\ left' = Remaining /\ Disarm
                      /\ UNCHANGED <<current, elapsed, onTime, on>>

\* Stops the water of the current run: its valve, its timer, its remaining Duration.
PauseCurrent ==
  /\ on' = on \ {current.sec}
  /\ left' = Remaining
  /\ Disarm
  /\ UNCHANGED <<current, elapsed, onTime>>

\* Keeps measuring from the start of the run.
MutantRestamp == UNCHANGED elapsed

\* UnpauseTime becomes now.
Restamp == elapsed' = 0

ResumeCurrent ==
  /\ Arm(left)
  /\ Restamp
  /\ on' = on \cup {current.sec}
  /\ UNCHANGED <<current, left, onTime>>

\* case paused := <-r.paused
HandlePaused ==
  /\ pc = "select" /\ pausedCh # <<>>
  /\ pausedCh' = Tail(pausedCh)
  /\ paused' = Head(pausedCh)
  /\ \/ paused' = paused /\ UNCHANGED <<queue, waterVars>>  \* no change necessary
     \/ ~paused /\ paused' /\ current = Nil /\ UNCHANGED <<queue, waterVars>>
     \/ ~paused /\ paused' /\ current # Nil /\ PauseCurrent /\ UNCHANGED queue
     \/ paused /\ ~paused' /\ current # Nil /\ ResumeCurrent /\ UNCHANGED queue
     \/ paused /\ ~paused' /\ current = Nil /\ NextRun
  /\ UNCHANGED <<nextID, sending, runCh, cancelSecCh, cancelIDCh, waiting, doneVars,
                 pc, pending, ending>>

\* case <-r.quit: Quit is a rendezvous, so call and handler are one step.
Quit ==
  /\ "quit" \in Calls
  /\ pc = "select"
  /\ pc' = "quit"
  /\ UNCHANGED <<clientVars, doneVars, pending, ending, queue, paused, waterVars>>

-----------------------------------------------------------------------------
\* A unit of time passes while a timer runs; no longer than MaxLate past its expiry.
Tick ==
  /\ armed /\ delay > -MaxLate
  /\ delay' = delay - 1
  /\ elapsed' = elapsed + 1
  /\ onTime' = IF current # Nil /\ current.sec \in on THEN onTime + 1 ELSE onTime
  /\ UNCHANGED <<clientVars, doneVars, pc, pending, ending, queue, paused,
                 current, left, on, armed>>

ClientStep ==
  \/ \E req \in Request : GetNextID(req)
  \/ \E r \in sending : SendRun(r)
  \/ \E sec \in Section : CancelSection(sec)
  \/ \E id \in ID : CancelID(id)
  \/ CancelAll
  \/ \E id \in ID : CancelOwn(id)
  \/ Pause
  \/ Unpause
  \/ \E id \in ID : ReceiveDone(id)

RunnerStep ==
  \/ HandleRun \/ HandleCancelSec \/ HandleCancelID \/ HandlePaused \/ HandleTimer
  \/ NotifyRemoved \/ EndNotify \/ HandOver

Next == ClientStep \/ RunnerStep \/ Quit \/ Tick

Spec == Init /\ [][Next]_vars

(***************************************************************************)
(* Fairness.  The goroutine never stops between two statements; Go's       *)
(* select chooses uniformly among the ready cases, so a case that is ready *)
(* again and again is taken -- assumed only of new runs and of the timer:  *)
(* the properties below hold even if cancels and pauses are never looked   *)
(* at; time passes; a receiver that waits on Done receives; a blocked      *)
(* sender gets its turn, for which weak fairness is enough, as there are   *)
(* MaxRuns sends in all.  No fairness is assumed of the calls clients      *)
(* choose to make.                                                         *)
(***************************************************************************)
Fairness ==
  /\ WF_vars(NotifyRemoved) /\ WF_vars(EndNotify) /\ WF_vars(HandOver)
  /\ SF_vars(HandleRun) /\ SF_vars(HandleTimer)
  /\ WF_vars(Tick)
  /\ \A id \in ID : /\ WF_vars(ReceiveDone(id))
                    /\ WF_vars(\E r \in sending : r.id = id /\ SendRun(r))

FairSpec == Spec /\ Fairness

-----------------------------------------------------------------------------
(* Properties.                                                             *)

\* Every variable has its type; the indices of the ring stay inside it.
TypeOK ==
  /\ nextID \in 0 .. MaxRuns
  /\ sending \in SUBSET Run
  /\ runCh \in Seq(Run) /\ cancelSecCh \in Seq(Section)
  /\ cancelIDCh \in Seq(ID \cup {IDAll}) /\ pausedCh \in Seq(BOOLEAN)
  /\ waiting \in SUBSET ID
  /\ done \in [ID -> {"empty", "cancelled", "finished"}]
  /\ sent \in [ID -> Nat]
  /\ pc \in {"select", "notify", "handover", "quit"}
  /\ DOMAIN pending \subseteq Nat /\ \A k \in DOMAIN pending : pending[k] \in Run
  /\ ending \in {"none", "cancelled", "finished"}
  /\ armed \in BOOLEAN /\ delay \in Int
  /\ IsSRQueue(queue, Run) /\ current \in Run \cup {Nil} /\ paused \in BOOLEAN
  /\ left \in Int /\ elapsed \in Int
  /\ on \in SUBSET Section /\ onTime \in Int

\* A run is being watered: it is current, not paused, and not being ended.
Watering == current # Nil /\ ~paused /\ pc # "handover"

\* The valve of the current run is open while it is watered, and no other valve
\* is ever open: SetState(true) and SetState(false) of runItem, finishRun, pause
\* and unpause match up across every order of runs, cancels and pauses.
ValveInterlock == on = IF Watering THEN {current.sec} ELSE {}

\* The timer channel is non-nil exactly while a run is watered: no run without an
\* end, and no timer of an earlier run that would end a later one.
TimerArmed == armed <=> Watering

\* However often a run was paused, the time its valve was open and the time its
\* timer has left (or, paused, its Duration) add up to its TotalDuration.
WaterAccounted ==
  current # Nil =>
    /\ armed => delay = current.total - onTime
    /\ paused /\ pc # "handover" => left = current.total - onTime

\* A run that finished normally had its valve open for its TotalDuration.
FinishedFull ==
  pc = "handover" /\ ending = "finished" => onTime >= current.total

\* The runner never idles while a run is in the queue: holes left by
\* removals are not mistaken for an empty queue, nor a popped run for a queued one.
WorkConserving == current = Nil /\ ~paused => Live(queue) = {}

\* How the current run is ending agrees with where the goroutine is.
EndingMatches ==
  /\ pc = "handover" => current # Nil /\ ending # "none"
  /\ pc = "notify" => ending # "finished" /\ (ending = "cancelled" => current # Nil)
  /\ pc \in {"select", "quit"} => ending = "none"

\* The timer was armed with the Duration the run had at its last start or unpause.
TimerMatches == armed => delay = left - elapsed

\* The inductive invariant from which the theorems about the goroutine follow.
SafetyInv ==
  /\ EndingMatches /\ TimerMatches
  /\ ValveInterlock /\ TimerArmed /\ WaterAccounted /\ FinishedFull /\ WorkConserving

\* "CancelSection cancels all runs for the specified Section" that the runner has:
\* whatever holes and wrapping, none stays in the queue, and if it is the current
\* run that one is being ended.
CancelSectionClears ==
  [][\A sec \in Section :
       (cancelSecCh # <<>> /\ Head(cancelSecCh) = sec /\ cancelSecCh' = Tail(cancelSecCh))
         => /\ \A i \in Live(queue') : queue'.items[i].sec # sec
            /\ current # Nil /\ current.sec = sec => ending' = "cancelled"]_vars

\* Where a run is: with its caller, in the channel, in the queue, or current.
PlacesOf(id) ==
  {<<"sending", r.id>> : r \in {r \in sending : r.id = id}}
  \cup {<<"run", k>> : k \in {k \in DOMAIN runCh : runCh[k].id = id}}
  \cup {<<"queue", i>> : i \in {i \in Live(queue) : queue.items[i].id = id}}
  \cup {<<"current", r.id>> : r \in {r \in {current} \ {Nil} : r.id = id}}

\* No run is in two places, so none is watered twice: growing, wrapping and
\* removing never duplicate a slot of the ring.
RunInOnePlace == \A id \in ID : Cardinality(PlacesOf(id)) <= 1

\* Nobody waits for an answer that cannot come: the run of a waiting receiver is
\* somewhere, is on the list of removed runs about to be told, or has answered.
NoReceiverForgotten ==
  \A id \in waiting :
    \/ PlacesOf(id) # {}
    \/ \E k \in DOMAIN pending : pending[k].id = id
    \/ done[id] # "empty"

\* The runs that are ever asked for.
RequestedRuns ==
  {[id |-> id, sec |-> req.sec, total |-> req.total, async |-> req.async] :
     id \in ID, req \in Request}

Service == INSTANCE SectionService
             WITH Runs <- RequestedRuns, None <- Nil, line <- LineOf(queue)

\* The runner implements the service: a refinement that reads the line off the
\* ring buffer, and hides channels, timers and Done channels.
ImplementsService == Service!Spec

\* The goroutine is about to send the Done value of run id.
Answering(id) ==
  \/ /\ pc = "notify"
     /\ \E k \in DOMAIN pending :
          pending[k].id = id /\ \A j \in DOMAIN pending : k <= j
  \/ pc = "handover" /\ current.async /\ current.id = id

\* The goroutine sends on a Done channel that is full and that nobody will receive
\* from: a run that was told, whose client has left, and that is told again because it
\* still stays in the slot at tail.  It never gets on, and it holds SRState's lock.
Stalled == \E id \in ID : Answering(id) /\ done[id] # "empty" /\ id \notin waiting

\* An open valve is closed again, whatever is queued, paused and cancelled, unless the
\* runner quits or is stalled; see NeverStalled.
ValveCloses ==
  \A sec \in Section : sec \in on ~> (sec \notin on \/ pc = "quit" \/ Stalled)

\* Unless the runner stays paused, quits or is stalled, every run that was asked for
\* ends: no order of cancels, by id or by section, loses or strands one.
EveryRunEnds ==
  <>[](~paused /\ pc # "quit") =>
    \A id \in ID : nextID > id ~> (PlacesOf(id) = {} \/ Stalled)

\* Stalled is for good, so the two properties above excuse nothing that passes.
StalledForGood == [][Stalled => Stalled']_vars
-----------------------------------------------------------------------------
(* Statements the documentation makes or implies and the code does not     *)
(* keep; TLC finds a counterexample to each.                               *)

\* Done is "a chan that a value is sent on when the section is done running": one
\* value for each run.  A run that ended and stays in the slot at tail gets another.
DoneOnce == \A id \in ID : sent[id] <= 1

\* "CancelAll cancels all section runs": with the value that DoneOnce is about, this
\* and every other cancel may instead block the runner for ever, with a valve open.
NeverStalled == ~(Stalled /\ on # {})

\* "CancelID cancels the section run with the specified id": when the runner takes
\* an id from cancelID, the run with that id is not still in the run channel, where
\* the handler does not look for it.  Two sends on two channels may be received in the
\* other order, so it can be.
CancelFindsRun ==
  [][cancelIDCh # <<>> /\ cancelIDCh' = Tail(cancelIDCh)
       => \A k \in DOMAIN runCh : runCh[k].id # Head(cancelIDCh)]_vars
=============================================================================
