-------------------------------- MODULE Server --------------------------------
(***************************************************************************)
(* The life of the server (grinklers_server/server.go): main starts the    *)
(* section runner, the programs and the updater, waits for a signal, and   *)
(* stops them in its own order.  Here the parts meet: programs request     *)
(* runs and cancel them over the runner's channels, everybody announces    *)
(* changes on the updater's channels, and main waits for each of them.     *)
(* The process may die at any time; valves stay as they are (GPIO pins),   *)
(* and so does the configuration file.                                     *)
(*                                                                         *)
(* The parts are those of SectionRunner, Program and Updater with less     *)
(* detail.  A run's timer fires sooner or later; a goroutine that finds    *)
(* its program running has no effect; sequences are not empty and not      *)
(* edited; of announcements only the number matters.  Requests are handled *)
(* one at a time; those to pause, to update and to cancel by section or id *)
(* are left to the parts.                                                  *)
(***************************************************************************)
EXTENDS Naturals, Sequences

CONSTANTS
  Sections,    \* how many sections there are
  Sequence,    \* the sequence of each program: a tuple of tuples of sections
  RunCap,      \* capacity of the runner's channels (2 in NewSectionRunner)
  AnnounceCap, \* capacity of the updater's channels (10 in NewMQTTUpdater)
  MaxEvents    \* bound: timers of programs that fire, requests that arrive, deaths, failed writes

Section == 1 .. Sections
Program == DOMAIN Sequence
None    == [id |-> 0, sec |-> 0]  \* no current run

\* A request to the API; a section or a program is its argument.
Requests  == [op : {"runProgram", "cancelProgram"}, arg : Program]
             \cup [op : {"runSection"}, arg : Section]
NoRequest == [op |-> "none", arg |-> 0]

ASSUME ServerAssumption ==
  /\ Sections \in Nat /\ Sequence \in Seq(Seq(Section) \ {<<>>})
  /\ {RunCap, AnnounceCap} \subseteq Nat \ {0} /\ MaxEvents \in Nat

VARIABLES
  main,      \* where main is
  step,      \* the program it quits or the section it closes next
  \* --- section runner
  runner,    \* "off", "select", "closing", "opening", "telling", "quit"
  runCh, cancelCh, queue, current,
  done,      \* ids of runs whose Done channel has its value
  \* --- programs
  starter,   \* "off", "select", "cancel", "quit"
  quitting,  \* the starter is handling prQuit
  body,      \* "off", "spawned", "begin", "request", "wait", "cancel", "stop"
  ending,    \* how many of its goroutines have only their last announcement to make
  item,      \* loop index of the body
  ids,       \* the runs it requested
  nextID,
  \* --- updater
  updater,   \* "off", "select", "read", "stopped"
  pending,   \* announcements in each of the three channels
  \* --- the world
  session,   \* MQTT requests may come
  request,   \* the one being handled
  on,        \* the sections whose valve is open
  device,    \* the process has the data of a registered device
  file,      \* the configuration file: "broken", "bare", or with a "device"
  events

runnerVars  == <<runner, runCh, cancelCh, queue, current, done>>
programVars == <<starter, quitting, body, ending, item, ids, nextID>>
apiVars     == <<session, request>>
worldVars   == <<on, device, file, events>>
vars == <<main, step, runnerVars, programVars, updater, pending, apiVars, worldVars>>

Channel == {"section", "program", "runner"}
Quiet   == [ch \in Channel |-> 0]

\* The process has not begun, or is no more.
Gone ==
  /\ step' = 1 /\ runner' = "off" /\ runCh' = <<>> /\ cancelCh' = <<>> /\ queue' = <<>>
  /\ current' = None /\ done' = {}
  /\ starter' = [p \in Program |-> "off"] /\ quitting' = [p \in Program |-> FALSE]
  /\ body' = [p \in Program |-> "off"] /\ ending' = [p \in Program |-> 0]
  /\ item' = [p \in Program |-> 1]
  /\ ids' = [p \in Program |-> <<>>] /\ nextID' = 1
  /\ updater' = "off" /\ pending' = Quiet
  /\ session' = FALSE /\ request' = NoRequest /\ device' = FALSE

Init ==
  /\ main = "load" /\ step = 1
  /\ runner = "off" /\ runCh = <<>> /\ cancelCh = <<>> /\ queue = <<>>
  /\ current = None /\ done = {}
  /\ starter = [p \in Program |-> "off"] /\ quitting = [p \in Program |-> FALSE]
  /\ body = [p \in Program |-> "off"] /\ ending = [p \in Program |-> 0]
  /\ item = [p \in Program |-> 1]
  /\ ids = [p \in Program |-> <<>>] /\ nextID = 1
  /\ updater = "off" /\ pending = Quiet
  /\ session = FALSE /\ request = NoRequest
  /\ on = {} /\ device = FALSE /\ file \in {"bare", "device"}
  /\ events = 0

-----------------------------------------------------------------------------
(* Announcements.  The channels are handed out when the updater is made;   *)
(* before that an announcement is nothing.                                 *)

Announcing == updater # "off"

\* One announcement more than the channel holds.
MutantRoom(ch) == ~Announcing \/ pending[ch] <= AnnounceCap

Room(ch) == ~Announcing \/ pending[ch] < AnnounceCap

Announce(ch) ==
  /\ Room(ch)
  /\ pending' = IF Announcing THEN [pending EXCEPT ![ch] = @ + 1] ELSE pending

-----------------------------------------------------------------------------
(* main, up to the signal.                                                 *)

MainGoes(from, to) == main = from /\ main' = to

\* LoadConfig; a file that cannot be parsed is fatal.
Load ==
  /\ MainGoes("load", "runner") /\ file # "broken"
  /\ device' = (file = "device")
  /\ UNCHANGED <<step, runnerVars, programVars, updater, pending, apiVars, on, file,
                 events>>

\* secRunner.Start; the runner announces itself first.
StartRunner ==
  /\ MainGoes("runner", "closeAll")
  /\ runner' = "telling"
  /\ UNCHANGED <<step, runCh, cancelCh, queue, current, done, programVars, updater,
                 pending, apiVars, worldVars>>

\* Leaves the valves as the last process left them.
MutantCloseAll ==
  /\ MainGoes("closeAll", "programs")
  /\ UNCHANGED <<step, runnerVars, programVars, updater, pending, apiVars, worldVars>>

\* stopAll(), before anything can be announced.
CloseAll ==
  /\ MainGoes("closeAll", "programs")
  /\ on' = {}
  /\ UNCHANGED <<step, runnerVars, programVars, updater, pending, apiVars, device, file, events>>

\* Leaves out the first program.
MutantStarted(p) == IF p = 1 THEN "off" ELSE "select"

Started(p) == "select"

StartPrograms ==
  /\ MainGoes("programs", "register")
  /\ starter' = [p \in Program |-> Started(p)]
  /\ UNCHANGED <<step, runnerVars, quitting, body, ending, item, ids, nextID, updater,
                 pending, apiVars, worldVars>>

\* httpApiClient.Register, if there is no device; an error is logged.
Register ==
  /\ MainGoes("register", "write")
  /\ device' \in IF device THEN {TRUE} ELSE BOOLEAN
  /\ UNCHANGED <<step, runnerVars, programVars, updater, pending, apiVars, on, file,
                 events>>

\* WriteConfig truncates the file ...
BeginWrite ==
  /\ MainGoes("write", "written")
  /\ file' = "broken"
  /\ UNCHANGED <<step, runnerVars, programVars, updater, pending, apiVars, on, device,
                 events>>

\* ... and fills it.
EndWrite ==
  /\ MainGoes("written", "connect")
  /\ file' = IF device THEN "device" ELSE "bare"
  /\ UNCHANGED <<step, runnerVars, programVars, updater, pending, apiVars, on, device,
                 events>>

\* It fails before it has truncated the file, or before it has filled it.  main does not
\* look at the error.
WriteFails ==
  /\ MainGoes("write", "connect") \/ MainGoes("written", "connect")
  /\ events < MaxEvents /\ events' = events + 1
  /\ UNCHANGED <<step, runnerVars, programVars, updater, pending, apiVars, on, device, file>>

\* The HTTP connect succeeded; the API and the updater start.
StartUpdater ==
  /\ MainGoes("connect", "wait") /\ device
  /\ updater' = "select" /\ session' = TRUE
  /\ UNCHANGED <<step, runnerVars, programVars, pending, request, worldVars>>

\* It failed, or there is no device: its nil result is used to start the API, which
\* panics.
ConnectFails ==
  /\ MainGoes("connect", "dead") /\ events < MaxEvents
  /\ events' = events + 1
  /\ Gone /\ UNCHANGED <<on, file>>

\* The process is killed (only an interrupt is caught), or the power fails.
Die ==
  /\ main # "dead" /\ main # "exit" /\ events < MaxEvents
  /\ main' = "dead" /\ events' = events + 1
  /\ Gone /\ UNCHANGED <<on, file>>

\* By hand: nothing restarts it.
Restart ==
  /\ MainGoes("dead", "load")
  /\ UNCHANGED <<step, runnerVars, programVars, updater, pending, apiVars, worldVars>>

-----------------------------------------------------------------------------
(* The section runner.  A handler holds the state's lock; SetState         *)
(* announces under it, stateUpdate after it.                               *)

Open(run) == on' = on \cup {run.sec}

\* case item := <-r.run
HandleRun ==
  /\ runner = "select" /\ runCh # <<>>
  /\ runCh' = Tail(runCh)
  /\ \/ /\ current = None
        /\ current' = Head(runCh) /\ Open(Head(runCh)) /\ runner' = "opening"
        /\ UNCHANGED queue
     \/ /\ current # None
        /\ queue' = Append(queue, Head(runCh)) /\ runner' = "telling"
        /\ UNCHANGED <<current, on>>
  /\ UNCHANGED <<main, step, cancelCh, done, programVars, updater, pending, apiVars, device, file,
                 events>>

\* The current run ends: its valve closes, which is announced.
BeginClose == on' = on \ {current.sec} /\ runner' = "closing"

\* RemoveByID
TakeOut(id) ==
  \/ \E i \in DOMAIN queue :
       /\ queue[i].id = id /\ done' = done \cup {id}
       /\ queue' = SubSeq(queue, 1, i - 1) \o SubSeq(queue, i + 1, Len(queue))
  \/ (\A i \in DOMAIN queue : queue[i].id # id) /\ UNCHANGED <<queue, done>>

IsCurrent(id) == current # None /\ current.id = id

\* case id := <-r.cancelID
HandleCancel ==
  /\ runner = "select" /\ cancelCh # <<>>
  /\ cancelCh' = Tail(cancelCh) /\ TakeOut(Head(cancelCh))
  /\ \/ IsCurrent(Head(cancelCh)) /\ BeginClose
     \/ ~IsCurrent(Head(cancelCh)) /\ runner' = "telling" /\ UNCHANGED on
  /\ UNCHANGED <<main, step, runCh, current, programVars, updater, pending, apiVars,
                 device, file, events>>

\* case <-delay
HandleTimer ==
  /\ runner = "select" /\ current # None
  /\ BeginClose
  /\ UNCHANGED <<main, step, runCh, cancelCh, queue, current, done, programVars,
                 updater, pending, apiVars, device, file, events>>

\* Tells only when another run follows.
MutantFinished == IF queue = <<>> THEN done ELSE done \cup {current.id}

Finished == done \cup {current.id}

\* The rest of finishRun and the runItem that follows.
Closed ==
  /\ runner = "closing" /\ Announce("section")
  /\ done' = Finished
  /\ \/ /\ queue = <<>> /\ current' = None /\ runner' = "telling" /\ UNCHANGED <<queue, on>>
     \/ /\ queue # <<>> /\ current' = Head(queue) /\ queue' = Tail(queue)
        /\ Open(Head(queue)) /\ runner' = "opening"
  /\ UNCHANGED <<main, step, runCh, cancelCh, programVars, updater, apiVars, device, file, events>>

Opened ==
  /\ runner = "opening" /\ Announce("section")
  /\ runner' = "telling"
  /\ UNCHANGED <<main, step, runCh, cancelCh, queue, current, done, programVars,
                 updater, apiVars, worldVars>>

\* stateUpdate
Told ==
  /\ runner = "telling" /\ Announce("runner")
  /\ runner' = "select"
  /\ UNCHANGED <<main, step, runCh, cancelCh, queue, current, done, programVars,
                 updater, apiVars, worldVars>>

-----------------------------------------------------------------------------
(* Programs.                                                               *)

others == <<main, step, updater, apiVars, worldVars>>
runnerState == <<runner, queue, current, done>>

\* The running flag.
Running(p) == body[p] \notin {"off", "spawned"}

\* `go prog.run(...)`; while the program runs, that is nothing.
Spawn(p) ==
  /\ starter[p] = "select"
  /\ body' = IF body[p] = "off" THEN [body EXCEPT ![p] = "spawned"] ELSE body
  /\ UNCHANGED <<main, step, runnerVars, starter, quitting, ending, item, ids, nextID, updater,
                 pending, session, on, device, file>>

\* case <-delay
TimerFires(p) ==
  /\ body[p] = "off" /\ events < MaxEvents
  /\ Spawn(p) /\ events' = events + 1 /\ UNCHANGED request

\* The flag is set, ...
Flag(p) ==
  /\ body[p] = "spawned"
  /\ body' = [body EXCEPT ![p] = "begin"]
  /\ UNCHANGED <<others, runnerVars, starter, quitting, ending, item, ids, nextID, pending>>

\* ... which is announced; then the sequence is copied.
Begin(p) ==
  /\ body[p] = "begin" /\ Announce("program")
  /\ body' = [body EXCEPT ![p] = "request"]
  /\ UNCHANGED <<others, runnerVars, starter, quitting, ending, item, ids, nextID>>

\* RunSectionAsync for each item.
Request(p) ==
  /\ body[p] = "request" /\ Len(runCh) < RunCap
  /\ runCh' = Append(runCh, [id |-> nextID, sec |-> Sequence[p][Len(ids[p]) + 1]])
  /\ ids' = [ids EXCEPT ![p] = Append(@, nextID)] /\ nextID' = nextID + 1
  /\ body' = [body EXCEPT ![p] = IF Len(ids[p]) + 1 = Len(Sequence[p]) THEN "wait" ELSE @]
  /\ UNCHANGED <<others, runnerState, cancelCh, starter, quitting, ending, item, pending>>

\* case <-secDoneChans[i]
Wait(p) ==
  /\ body[p] = "wait" /\ ids[p][item[p]] \in done
  /\ item' = [item EXCEPT ![p] = @ + 1]
  /\ body' = [body EXCEPT ![p] = IF item[p] = Len(ids[p]) THEN "stop" ELSE @]
  /\ UNCHANGED <<others, runnerVars, starter, quitting, ending, ids, nextID, pending>>

\* The program waits for the item that is cancelled next.
LastLeft(p) == Len(ids[p]) = item[p]

\* case <-cancel: CancelID for what is left, from the last one back.
CancelRuns(p) ==
  /\ body[p] = "cancel"
  /\ cancelCh' = Append(cancelCh, ids[p][Len(ids[p])]) /\ Len(cancelCh) < RunCap
  /\ ids' = [ids EXCEPT ![p] = SubSeq(@, 1, Len(@) - 1)]
  /\ body' = [body EXCEPT ![p] = IF LastLeft(p) THEN "stop" ELSE @]
  /\ UNCHANGED <<others, runnerState, runCh, starter, quitting, ending, item, nextID, pending>>

\* stop(): the flag is cleared ...
Stop(p) ==
  /\ body[p] = "stop"
  /\ body' = [body EXCEPT ![p] = "off"] /\ ending' = [ending EXCEPT ![p] = @ + 1]
  /\ item' = [item EXCEPT ![p] = 1] /\ ids' = [ids EXCEPT ![p] = <<>>]
  /\ UNCHANGED <<others, runnerVars, starter, quitting, nextID, pending>>

\* ... and that is announced.
End(p) ==
  /\ ending[p] > 0 /\ Announce("program")
  /\ ending' = [ending EXCEPT ![p] = @ - 1]
  /\ UNCHANGED <<others, runnerVars, starter, quitting, body, item, ids, nextID>>

\* The starter takes prCancel or prQuit.
ReceiveStop(p, quit) ==
  /\ starter[p] = "select"
  /\ starter' = [starter EXCEPT ![p] = IF Running(p) THEN "cancel"
                                       ELSE IF quit THEN "quit" ELSE "select"]
  /\ quitting' = [quitting EXCEPT ![p] = quit]
  /\ UNCHANGED <<runnerVars, body, ending, item, ids, nextID, pending, updater, session, worldVars>>

\* Goes on receiving after a cancel that was part of a quit.
MutantAfterCancel(p) == "select"

AfterCancel(p) == IF quitting[p] THEN "quit" ELSE "select"

\* cancelRun <- 0
SendCancel(p) ==
  /\ starter[p] = "cancel" /\ body[p] = "wait"
  /\ starter' = [starter EXCEPT ![p] = AfterCancel(p)]
  /\ body' = [body EXCEPT ![p] = "cancel"]
  /\ UNCHANGED <<others, runnerVars, quitting, ending, item, ids, nextID, pending>>

-----------------------------------------------------------------------------
(* The updater.                                                            *)

\* It takes an announcement and publishes; those of programs and of the runner stand
\* for all that wait.
TakeAnnouncement(ch) ==
  /\ updater = "select" /\ pending[ch] > 0
  /\ pending' = [pending EXCEPT ![ch] = IF ch = "section" THEN @ - 1 ELSE 0]
  /\ updater' = IF ch = "runner" THEN "read" ELSE "select"
  /\ UNCHANGED <<main, step, runnerVars, programVars, apiVars, worldVars>>

\* It reads the runner's state under its lock.
ReadState ==
  /\ updater = "read" /\ runner \notin {"opening", "closing"}
  /\ updater' = "select"
  /\ UNCHANGED <<main, step, runnerVars, programVars, pending, apiVars, worldVars>>

-----------------------------------------------------------------------------
(* Requests, one at a time; each ends with its response.                   *)

ReceiveRequest ==
  /\ session /\ request = NoRequest /\ events < MaxEvents
  /\ request' \in Requests /\ events' = events + 1
  /\ UNCHANGED <<main, step, runnerVars, programVars, updater, pending, session, on,
                 device, file>>

RunProgram ==
  /\ request.op = "runProgram" /\ Spawn(request.arg)
  /\ request' = NoRequest /\ UNCHANGED events

CancelProgram ==
  /\ request.op = "cancelProgram" /\ ReceiveStop(request.arg, FALSE)
  /\ request' = NoRequest /\ UNCHANGED <<main, step>>

RunSection ==
  /\ request.op = "runSection" /\ Len(runCh) < RunCap
  /\ runCh' = Append(runCh, [id |-> nextID, sec |-> request.arg]) /\ nextID' = nextID + 1
  /\ request' = NoRequest
  /\ UNCHANGED <<main, step, runnerState, cancelCh, starter, quitting, body, ending, item, ids,
                 updater, pending, session, worldVars>>

-----------------------------------------------------------------------------
(* main, from the signal on.                                               *)

\* <-sigc
Signal ==
  /\ MainGoes("wait", "stopUpdater")
  /\ UNCHANGED <<step, runnerVars, programVars, updater, pending, apiVars, worldVars>>

\* updater.Stop(): a rendezvous.
StopUpdater ==
  /\ MainGoes("stopUpdater", "stopApi")
  /\ updater = "select" /\ updater' = "stopped"
  /\ UNCHANGED <<step, runnerVars, programVars, pending, apiVars, worldVars>>

StopApi ==
  /\ MainGoes("stopApi", "quit")
  /\ session' = FALSE
  /\ UNCHANGED <<step, runnerVars, programVars, updater, pending, request, worldVars>>

\* programs[i].Quit(), one after the other.
QuitProgram ==
  /\ main = "quit" /\ step \in Program
  /\ ReceiveStop(step, TRUE)
  /\ step' = step + 1 /\ UNCHANGED <<main, request>>

\* secRunner.Quit(): a rendezvous.
QuitRunner ==
  /\ MainGoes("quit", "waitGroup") /\ step \notin Program
  /\ runner = "select" /\ runner' = "quit"
  /\ UNCHANGED <<step, runCh, cancelCh, queue, current, done, programVars, updater,
                 pending, apiVars, worldVars>>

\* Closes the valves with the runner still at work.
MutantWaitGroup ==
  /\ MainGoes("quit", "stopAll") /\ step \notin Program
  /\ step' = 1
  /\ UNCHANGED <<runnerVars, programVars, updater, pending, apiVars, worldVars>>

\* waitGroup.Wait(): the runner and all starters have returned.
WaitGroup ==
  /\ MainGoes("waitGroup", "stopAll")
  /\ runner = "quit" /\ \A p \in Program : starter[p] = "quit"
  /\ step' = 1
  /\ UNCHANGED <<runnerVars, programVars, updater, pending, apiVars, worldVars>>

\* stopAll(): close a section ...
StopSection ==
  /\ MainGoes("stopAll", "tellSection") /\ step \in Section
  /\ on' = on \ {step}
  /\ UNCHANGED <<step, runnerVars, programVars, updater, pending, apiVars, device, file, events>>

\* ... and announce it.
TellSection ==
  /\ MainGoes("tellSection", "stopAll") /\ Announce("section")
  /\ step' = step + 1
  /\ UNCHANGED <<runnerVars, programVars, updater, apiVars, worldVars>>

Exit ==
  /\ MainGoes("stopAll", "exit") /\ step \notin Section
  /\ UNCHANGED <<step, runnerVars, programVars, updater, pending, apiVars, worldVars>>

-----------------------------------------------------------------------------

StartUp      == Load \/ StartRunner \/ CloseAll \/ StartPrograms \/ Register \/ BeginWrite
                  \/ EndWrite \/ StartUpdater
ShutDown     == StopUpdater \/ StopApi \/ QuitProgram \/ QuitRunner \/ WaitGroup
                  \/ StopSection \/ TellSection \/ Exit
RunnerStep   == HandleRun \/ HandleCancel \/ HandleTimer \/ Closed \/ Opened \/ Told
BodyStep(p)  == Flag(p) \/ Begin(p) \/ Request(p) \/ Wait(p) \/ CancelRuns(p) \/ Stop(p) \/ End(p)
UpdaterStep  == ReadState \/ \E ch \in Channel : TakeAnnouncement(ch)
HandlerStep  == RunProgram \/ CancelProgram \/ RunSection
Outside      == WriteFails \/ ConnectFails \/ Die \/ Restart \/ Signal \/ ReceiveRequest
                  \/ \E p \in Program : TimerFires(p)

Next ==
  \/ StartUp \/ ShutDown \/ RunnerStep \/ UpdaterStep \/ HandlerStep \/ Outside
  \/ \E p \in Program : BodyStep(p) \/ SendCancel(p)

Spec == Init /\ [][Next]_vars

\* Every goroutine goes on; a select serves each of its cases in the end.  Nobody
\* has to signal, request, die or restart, and a cancel may meet no receiver.
Fairness ==
  /\ WF_vars(StartUp) /\ SF_vars(ShutDown) /\ WF_vars(RunnerStep) /\ WF_vars(UpdaterStep)
  /\ SF_vars(HandlerStep)
  /\ \A p \in Program : WF_vars(BodyStep(p)) /\ WF_vars(SendCancel(p))

FairSpec == Spec /\ Fairness

-----------------------------------------------------------------------------

Run == [id : Nat, sec : Section]

RunnerOK ==
  /\ runner \in {"off", "select", "closing", "opening", "telling", "quit"}
  /\ runCh \in Seq(Run) /\ queue \in Seq(Run) /\ cancelCh \in Seq(Nat) /\ done \subseteq Nat
  /\ current \in Run \cup {None} /\ (runner \in {"closing", "opening"} => current # None)

ProgramsOK ==
  /\ starter \in [Program -> {"off", "select", "cancel", "quit"}]
  /\ quitting \in [Program -> BOOLEAN]
  /\ body \in [Program -> {"off", "spawned", "begin", "request", "wait", "cancel", "stop"}]
  /\ ending \in [Program -> Nat] /\ item \in [Program -> Nat] /\ ids \in [Program -> Seq(Nat)]
  /\ nextID \in Nat

Place == {"load", "runner", "closeAll", "programs", "register", "write", "written", "connect",
          "wait", "stopUpdater", "stopApi", "quit", "waitGroup", "stopAll", "tellSection",
          "exit", "dead"}

\* Types; no channel holds more than it has room for.
TypeOK ==
  /\ main \in Place /\ step \in Nat /\ events \in Nat
  /\ RunnerOK /\ ProgramsOK
  /\ updater \in {"off", "select", "read", "stopped"} /\ pending \in [Channel -> 0 .. AnnounceCap]
  /\ session \in BOOLEAN /\ request \in Requests \cup {NoRequest}
  /\ on \subseteq Section /\ device \in BOOLEAN /\ file \in {"broken", "bare", "device"}

\* From start-up's stopAll on, a valve is open only for the run the runner is at: what
\* a dead process left open is closed before anything can be watered, and the shutdown
\* does not leave a valve behind its back.
ValvesKnown ==
  main \notin {"load", "runner", "closeAll", "dead"} => on \subseteq {current.sec}

\* Once main has returned, no valve is open, whatever was going on at the signal.
ClosedAtExit == main = "exit" => on = {}

\* A dead process leaves no valve open: not so, nothing closes it until the next start.
ClosedWhenDead == main = "dead" => on = {}

-----------------------------------------------------------------------------

\* Somebody waits to announce, and the channel is full.
Blocked ==
  \/ runner \in {"closing", "opening"} /\ ~Room("section")
  \/ runner = "telling" /\ ~Room("runner")
  \/ \E p \in Program : (body[p] = "begin" \/ ending[p] > 0) /\ ~Room("program")
  \/ main = "tellSection" /\ ~Room("section")

\* A starter has found the program running, and nobody will receive its cancel.
NoReceiver(p) ==
  /\ starter[p] = "cancel"
  /\ \/ body[p] \in {"off", "cancel", "stop"}
     \/ body[p] = "request" /\ runner = "quit" /\ Len(runCh) = RunCap

Stuck == Blocked \/ \E p \in Program : NoReceiver(p)

\* After the signal main returns: not so, since nobody takes announcements any more.
MainReturns == main = "stopUpdater" ~> main \in {"exit", "dead"}

\* After the signal main returns, unless an announcement or a cancel is stuck for good:
\* no other order of the goroutines holds it up.
ShutdownEnds == []<>~Stuck => MainReturns

\* While the server runs, a run of a program ends, with all it requested, unless
\* something is stuck for good.
RunEnds == []<>~Stuck => \A p \in Program : Running(p) ~> (~Running(p) \/ main # "wait")

\* While the server runs, every request is answered, unless something is stuck for
\* good; one that is not holds up all later ones.
RequestsAnswered == []<>~Stuck => (request # NoRequest ~> (request = NoRequest \/ main # "wait"))

=============================================================================
