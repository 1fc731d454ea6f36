------------------------------- MODULE Program -------------------------------
(***************************************************************************)
(* A sprinklers program (logic/program.go) and the update of its data      *)
(* (datamodel/program_json.go:102-126).  Three kinds of goroutines meet:   *)
(*                                                                         *)
(*   the starter   (Program.start)  plans the next scheduled run and then  *)
(*                 selects between its timer and the runner channel;       *)
(*   the bodies    (Program.run)    one goroutine for each time a run is   *)
(*                 started, of which the running flag lets one proceed;    *)
(*   the clients   (MQTT handlers)  send on the runner channel, and update *)
(*                 the data while they hold the program's lock.            *)
(*                                                                         *)
(* Both channels, runner and cancelRun, are unbuffered: a send and its     *)
(* receive are one step.  Data is abstracted to what the control depends   *)
(* on: whether the schedule has a next run, the number of items of the     *)
(* sequence, and a name that stands for what only clients look at.  The    *)
(* section runner is the environment: it ends each section run it was      *)
(* given, in any order.                                                    *)
(***************************************************************************)
EXTENDS Naturals

CONSTANTS
  Client,   \* goroutines that call the program
  Body,     \* bound: goroutines that may run the program at the same time
  MaxItems, \* bound: longest sequence
  NewData,  \* the data that updates leave the program with
  Calls     \* the calls clients make: "run", "cancel", "quit", "update"

Free == "free"  \* nobody holds the lock

Data == [name : {"old", "new"}, items : 0 .. MaxItems, scheduled : BOOLEAN, enabled : BOOLEAN]
Item == 1 .. MaxItems

ASSUME ProgramAssumption ==
  /\ MaxItems \in Nat
  /\ NewData \subseteq Data
  /\ Free \notin Client

VARIABLES
  \* --- Program
  data,      \* [name, items, scheduled, enabled], under the lock
  running,   \* the atomic running flag
  lock,      \* Free, or the client that holds the lock across a blocking call
  published, \* history: the data when ProgUpdateData was last sent
  \* --- starter
  starter,   \* "plan", "select", "cancel", "quit"
  quitting,  \* the message being handled is prQuit
  armed,     \* delay is a running timer
  \* --- bodies
  body,      \* where each is: "off", "new", "copy", "request", "wait", "cancel", "stop"
  seqLen,    \* the length of the sequence it copied
  item,      \* the loop index of the statement it is in
  sec,       \* its section runs: "none", "queued", "ended", "received"
  cancelled, \* the items whose section run it cancelled
  \* --- clients
  client     \* "idle", the message it is sending, or "notify" (end of Update)

programVars == <<data, running, lock, published>>
starterVars == <<starter, quitting, armed>>
bodyVars    == <<body, seqLen, item, sec, cancelled>>
vars        == <<programVars, starterVars, bodyVars, client>>

Init ==
  /\ data \in {d \in Data : d.name = "old"}
  /\ running = FALSE /\ lock = Free /\ published = data
  /\ starter = "plan" /\ quitting = FALSE /\ armed = FALSE
  /\ body = [b \in Body |-> "off"] /\ seqLen = [b \in Body |-> 0]
  /\ item = [b \in Body |-> 0] /\ sec = [b \in Body |-> [i \in Item |-> "none"]]
  /\ cancelled = [b \in Body |-> {}]
  /\ client = [c \in Client |-> "idle"]

-----------------------------------------------------------------------------
(* Starter.                                                                *)

\* Plans by the schedule even of a disabled program.
MutantHasNextRun == data.scheduled

\* NextRunTime is asked only of an enabled program.
HasNextRun == data.enabled /\ data.scheduled

\* The top of the loop: under the lock, find the next run; arm the timer for it.
Plan ==
  /\ starter = "plan" /\ lock = Free
  /\ armed' = HasNextRun
  /\ starter' = "select"
  /\ UNCHANGED <<programVars, quitting, bodyVars, client>>

\* go prog.run(cancelRun, secRunner)
Spawn(b) ==
  /\ body[b] = "off"
  /\ body' = [body EXCEPT ![b] = "new"]
  /\ UNCHANGED <<seqLen, item, sec, cancelled>>

\* case <-delay
TimerFires(b) ==
  /\ starter = "select" /\ armed
  /\ Spawn(b)
  /\ starter' = "plan"
  /\ UNCHANGED <<programVars, quitting, armed, client>>

\* case msg = <-prog.runner, when client c is sending prRun ...
ReceiveRun(c, b) ==
  /\ starter = "select" /\ client[c] = "run"
  /\ Spawn(b)
  /\ starter' = "plan"
  /\ client' = [client EXCEPT ![c] = "idle"]
  /\ UNCHANGED <<programVars, quitting, armed>>

\* ... prRefresh: the client goes on with its Update ...
ReceiveRefresh(c) ==
  /\ starter = "select" /\ client[c] = "refresh"
  /\ starter' = "plan"
  /\ client' = [client EXCEPT ![c] = "notify"]
  /\ UNCHANGED <<programVars, quitting, armed, bodyVars>>

\* ... prCancel or prQuit: look at the running flag, and if it is set send on cancelRun.
ReceiveCancel(c) ==
  /\ starter = "select" /\ client[c] \in {"cancel", "quit"}
  /\ starter' = IF running THEN "cancel" ELSE IF client[c] = "quit" THEN "quit" ELSE "plan"
  /\ quitting' = (client[c] = "quit")
  /\ client' = [client EXCEPT ![c] = "idle"]
  /\ UNCHANGED <<programVars, armed, bodyVars>>

\* cancelRun <- 0, received by a body that waits for its sections.
SendCancel(b) ==
  /\ starter = "cancel" /\ body[b] = "wait"
  /\ starter' = IF quitting THEN "quit" ELSE "plan"
  /\ body' = [body EXCEPT ![b] = "cancel"]
  /\ UNCHANGED <<programVars, quitting, armed, seqLen, item, sec, cancelled, client>>

-----------------------------------------------------------------------------
(* Bodies.                                                                 *)

\* Starts without looking at the flag.
MutantMayStart == TRUE

\* running.StoreIf(false, true) succeeds
MayStart == ~running

TryStart(b) ==
  /\ body[b] = "new"
  /\ \/ /\ MayStart
        /\ running' = TRUE
        /\ body' = [body EXCEPT ![b] = "copy"]
     \/ /\ ~MayStart
        /\ body' = [body EXCEPT ![b] = "off"]
        /\ UNCHANGED running
  /\ UNCHANGED <<data, lock, published, starterVars, seqLen, item, sec, cancelled, client>>

\* Copy the sequence under the lock.
CopySequence(b) ==
  /\ body[b] = "copy" /\ lock = Free
  /\ seqLen' = [seqLen EXCEPT ![b] = data.items]
  /\ item' = [item EXCEPT ![b] = 1]
  /\ body' = [body EXCEPT ![b] = "request"]
  /\ UNCHANGED <<programVars, starterVars, sec, cancelled, client>>

\* Reads one item too many.
MutantMoreItems(b) == item[b] <= seqLen[b] + 1

MoreItems(b) == item[b] <= seqLen[b]

NothingToDo(b) == seqLen[b] = 0

\* for i, item := range seq { RunSectionAsync }, and on to the loop that waits.
RequestSection(b) ==
  /\ body[b] = "request"
  /\ \/ /\ MoreItems(b)
        /\ sec' = [sec EXCEPT ![b][item[b]] = "queued"]
        /\ item' = [item EXCEPT ![b] = @ + 1]
        /\ UNCHANGED body
     \/ /\ ~MoreItems(b)
        /\ item' = [item EXCEPT ![b] = 1]
        /\ body' = [body EXCEPT ![b] = IF NothingToDo(b) THEN "stop" ELSE "wait"]
        /\ UNCHANGED sec
  /\ UNCHANGED <<programVars, starterVars, seqLen, cancelled, client>>

\* case <-secDoneChans[i]
ReceiveDone(b) ==
  /\ body[b] = "wait" /\ sec[b][item[b]] = "ended"
  /\ sec' = [sec EXCEPT ![b][item[b]] = "received"]
  /\ item' = [item EXCEPT ![b] = @ + 1]
  /\ body' = [body EXCEPT ![b] = IF item[b] = seqLen[b] THEN "stop" ELSE "wait"]
  /\ UNCHANGED <<programVars, starterVars, seqLen, cancelled, client>>

\* Leaves out the item it was waiting for.
MutantToCancel(b) == {j \in item[b] + 1 .. seqLen[b] : j \notin cancelled[b]}

\* case <-cancel: the section runs still to cancel, j from seqLen - 1 down to i.
ToCancel(b) == {j \in item[b] .. seqLen[b] : j \notin cancelled[b]}

CancelSections(b) ==
  /\ body[b] = "cancel"
  /\ \/ \E j \in ToCancel(b) :
          /\ \A k \in ToCancel(b) : k <= j
          /\ cancelled' = [cancelled EXCEPT ![b] = @ \cup {j}]
          /\ UNCHANGED body
     \/ /\ ToCancel(b) = {}
        /\ body' = [body EXCEPT ![b] = "stop"]
        /\ UNCHANGED cancelled
  /\ UNCHANGED <<programVars, starterVars, seqLen, item, sec, client>>

\* stop() and return
Stop(b) ==
  /\ body[b] = "stop"
  /\ running' = FALSE
  /\ body' = [body EXCEPT ![b] = "off"]
  /\ seqLen' = [seqLen EXCEPT ![b] = 0] /\ item' = [item EXCEPT ![b] = 0]
  /\ sec' = [sec EXCEPT ![b] = [i \in Item |-> "none"]]
  /\ cancelled' = [cancelled EXCEPT ![b] = {}]
  /\ UNCHANGED <<data, lock, published, starterVars, client>>

\* The section runner ends a section run it was given: finished or cancelled.
SectionEnds(b, i) ==
  /\ sec[b][i] = "queued"
  /\ sec' = [sec EXCEPT ![b][i] = "ended"]
  /\ UNCHANGED <<programVars, starterVars, body, seqLen, item, cancelled, client>>

-----------------------------------------------------------------------------
(* Clients.                                                                *)

\* Run, Cancel and Quit begin to send on the runner channel.
Call(c, msg) ==
  /\ msg \in Calls /\ client[c] = "idle"
  /\ client' = [client EXCEPT ![c] = msg]
  /\ UNCHANGED <<programVars, starterVars, bodyVars>>

\* Update: lock, assign the fields the update names, and begin Refresh with the
\* lock held.
Update(c, new) ==
  /\ "update" \in Calls /\ client[c] = "idle" /\ lock = Free
  /\ data' = new
  /\ lock' = c
  /\ client' = [client EXCEPT ![c] = "refresh"]
  /\ UNCHANGED <<running, published, starterVars, bodyVars>>

\* Update with a sequence that names an unknown section: the name is already
\* assigned when ToSequence fails; the lock is released and the error returned.
UpdateFails(c, name) ==
  /\ "badUpdate" \in Calls /\ client[c] = "idle" /\ lock = Free
  /\ data' = [data EXCEPT !.name = name]
  /\ UNCHANGED <<running, lock, published, starterVars, bodyVars, client>>

\* The rest of Update: OnUpdate(ProgUpdateData) and the deferred Unlock.
EndUpdate(c) ==
  /\ client[c] = "notify"
  /\ published' = data
  /\ lock' = Free
  /\ client' = [client EXCEPT ![c] = "idle"]
  /\ UNCHANGED <<data, running, starterVars, bodyVars>>

-----------------------------------------------------------------------------
StarterStep ==
  \/ Plan
  \/ \E b \in Body : TimerFires(b) \/ SendCancel(b)
  \/ \E c \in Client : ReceiveRefresh(c) \/ ReceiveCancel(c) \/ \E b \in Body : ReceiveRun(c, b)

BodyStep(b) ==
  \/ TryStart(b) \/ CopySequence(b) \/ RequestSection(b) \/ ReceiveDone(b)
  \/ CancelSections(b) \/ Stop(b)

ClientStep(c) ==
  \/ \E msg \in {"run", "cancel", "quit"} : Call(c, msg)
  \/ \E new \in NewData : Update(c, new)
  \/ \E name \in {"old", "new"} : UpdateFails(c, name)
  \/ EndUpdate(c)

Next ==
  \/ StarterStep
  \/ \E b \in Body : BodyStep(b) \/ \E i \in Item : SectionEnds(b, i)
  \/ \E c \in Client : ClientStep(c)

Spec == Init /\ [][Next]_vars

(***************************************************************************)
(* Fairness.  No goroutine stops between statements; a mutex and the       *)
(* senders blocked on a channel are served in turn; the select of the      *)
(* starter takes each ready case sooner or later; section runs end.        *)
(* Clients need not call, but finish an Update that got past Refresh.      *)
(***************************************************************************)
Fairness ==
  /\ SF_vars(Plan)
  /\ \A b \in Body :
       /\ WF_vars(TryStart(b)) /\ SF_vars(CopySequence(b)) /\ WF_vars(RequestSection(b))
       /\ WF_vars(ReceiveDone(b)) /\ WF_vars(CancelSections(b)) /\ WF_vars(Stop(b))
       /\ SF_vars(SendCancel(b))
       /\ \A i \in Item : WF_vars(SectionEnds(b, i))
  /\ \A c \in Client :
       /\ SF_vars(ReceiveRefresh(c)) /\ SF_vars(ReceiveCancel(c))
       /\ SF_vars(\E b \in Body : ReceiveRun(c, b))
       /\ WF_vars(EndUpdate(c))

FairSpec == Spec /\ Fairness

-----------------------------------------------------------------------------
(* Properties.                                                             *)

TypeOK ==
  /\ data \in Data /\ published \in Data
  /\ running \in BOOLEAN /\ lock \in Client \cup {Free}
  /\ starter \in {"plan", "select", "cancel", "quit"}
  /\ quitting \in BOOLEAN /\ armed \in BOOLEAN
  /\ body \in [Body -> {"off", "new", "copy", "request", "wait", "cancel", "stop"}]
  /\ seqLen \in [Body -> 0 .. MaxItems] /\ item \in [Body -> 0 .. MaxItems + 1]
  /\ sec \in [Body -> [Item -> {"none", "queued", "ended", "received"}]]
  /\ cancelled \in [Body -> SUBSET Item]
  /\ client \in [Client -> {"idle", "run", "cancel", "quit", "refresh", "notify"}]

Active(b) == body[b] \notin {"off", "new"}

\* However many goroutines were started for a program, one at most runs it, and the
\* running flag that clients and the starter read says whether one does.
OneBody == \A b1, b2 \in Body : Active(b1) /\ Active(b2) => b1 = b2
RunningAccurate == running <=> \E b \in Body : Active(b)

\* Who holds the lock, and how far the starter can be meanwhile.
LockDiscipline ==
  \A c \in Client : /\ client[c] \in {"refresh", "notify"} <=> lock = c
                    /\ client[c] = "notify" => starter = "plan"

\* Once an update is over, the starter never sleeps on a plan made from older data:
\* a disabled program has no timer, an enabled one with a next run has one.
PlanIsCurrent == starter = "select" /\ lock = Free => (armed <=> data.enabled /\ data.scheduled)

\* The inductive invariant behind the three.
ProgramInv == OneBody /\ RunningAccurate /\ LockDiscipline /\ PlanIsCurrent

\* A run that is over leaves no section run behind: each one was received from, or
\* (after a cancel) cancelled.
NothingLeftBehind ==
  \A b \in Body : body[b] = "stop" =>
    \A i \in 1 .. seqLen[b] : sec[b][i] = "received" \/ i \in cancelled[b]

-----------------------------------------------------------------------------
(* Statements the documentation makes and the code does not keep; TLC      *)
(* finds a counterexample to each.                                         *)

\* Update notifies "the runner of any changes": it gets its Refresh across.  It does
\* not when the starter waits at Plan for the lock that Update holds.
UpdateReturns == \A c \in Client : client[c] = "refresh" ~> client[c] = "idle"

\* ... and whatever it changed was published when it returns.  A name that was
\* assigned before the sequence turned out to be wrong is not.
ChangesPublished == lock = Free => published = data

\* "Cancel cancels running the Program": the starter gets past its cancel.  It does
\* not if the run it found running ends without receiving from cancelRun.
CancelReturns == starter = "cancel" ~> starter # "cancel"

\* ... and no run that was started before the cancel is handled, and has not yet
\* set the flag, escapes it.  One does whose goroutine is scheduled late.
CancelFindsRun ==
  [][\A c \in Client : client[c] = "cancel" /\ client'[c] = "idle"
       => \A b \in Body : body[b] # "new" \/ running]_vars
=============================================================================
