----------------------------- MODULE ServerProofs -----------------------------
(***************************************************************************)
(* Theorems about Server for any number of sections, any programs, any     *)
(* capacities and any number of events: no valve is open behind the        *)
(* runner's back, and none when main has returned.                         *)
(***************************************************************************)
EXTENDS Server, TLAPS

\* A body's list of runs and its index fit the place it is at.
BodiesOK ==
  \A p \in Program :
    /\ body[p] \in {"off", "spawned", "begin"} => ids[p] = <<>>
    /\ body[p] = "request" => Len(ids[p]) < Len(Sequence[p])
    /\ body[p] \in {"off", "spawned", "begin", "request"} => item[p] = 1
    /\ body[p] \in {"wait", "cancel"} => item[p] \in 1 .. Len(ids[p])

Before == {"load", "runner", "closeAll", "dead"}

\* Until start-up's stopAll nothing can reach the runner.
NothingYet ==
  main \in Before =>
    /\ runner \in {"off", "telling", "select"} /\ current = None /\ runCh = <<>> /\ cancelCh = <<>>
    /\ session = FALSE /\ request = NoRequest
    /\ \A p \in Program : starter[p] = "off" /\ body[p] = "off"

\* Then an open valve is that of the current run, and none is while it is being closed.
ValveOfRun ==
  main \notin Before =>
    /\ on \subseteq {current.sec}
    /\ runner = "closing" => on = {}

\* From waitGroup.Wait on, the runner has returned, and stopAll has done with the
\* sections before step.
AllStopped ==
  /\ step >= 1
  /\ main \in {"waitGroup", "stopAll", "tellSection", "exit"} => runner = "quit"
  /\ main \in {"stopAll", "exit"} => \A sec \in on : sec >= step
  /\ main = "tellSection" => \A sec \in on : sec > step
  /\ main = "exit" => step \notin Section

ServerInv == BodiesOK /\ NothingYet /\ ValveOfRun /\ AllStopped

-----------------------------------------------------------------------------
LEMMA AnnounceStep ==
  ASSUME TypeOK, NEW ch \in Channel, Announce(ch)
  PROVE  pending' \in [Channel -> 0 .. AnnounceCap]
BY ServerAssumption DEF TypeOK, Announce, Room, Announcing

\* No process, or a new one.
LEMMA GoneStep ==
  ASSUME Gone
  PROVE  /\ RunnerOK' /\ ProgramsOK' /\ step' \in Nat
         /\ updater' \in {"off", "select", "read", "stopped"}
         /\ pending' \in [Channel -> 0 .. AnnounceCap] /\ session' \in BOOLEAN
         /\ request' \in Requests \cup {NoRequest} /\ device' \in BOOLEAN
<1>1. RunnerOK'
  BY DEF Gone, RunnerOK
<1>2. ProgramsOK'
  BY DEF Gone, ProgramsOK
<1>3. 0 \in 0 .. AnnounceCap
  BY ServerAssumption
<1>4. pending' \in [Channel -> 0 .. AnnounceCap]
  BY <1>3 DEF Gone, Quiet
<1> QED
  BY <1>1, <1>2, <1>4 DEF Gone

\* Runs go from the channel to the queue and on to be current, and leave by a cancel.
LEMMA RunnerTypes ==
  ASSUME TypeOK, RunnerStep
  PROVE  TypeOK'
<1> USE DEF programVars, apiVars, MainGoes
<1>0. None \notin Run
  BY DEF None, Run, Section
<1>1. ASSUME HandleRun
      PROVE  TypeOK'
  <2>1. Head(runCh) \in Run /\ Tail(runCh) \in Seq(Run) /\ Append(queue, Head(runCh)) \in Seq(Run)
    BY <1>1 DEF HandleRun, TypeOK, RunnerOK
  <2>2. RunnerOK'
    BY <1>0, <1>1, <2>1 DEF HandleRun, TypeOK, RunnerOK
  <2>3. on' \subseteq Section
    BY <1>1, <2>1 DEF HandleRun, Open, TypeOK, Run
  <2> QED
    BY <1>1, <2>2, <2>3 DEF HandleRun, TypeOK, ProgramsOK
<1>2. ASSUME HandleCancel
      PROVE  TypeOK'
  <2>1. Head(cancelCh) \in Nat /\ Tail(cancelCh) \in Seq(Nat)
    BY <1>2 DEF HandleCancel, TypeOK, RunnerOK
  <2>2. TakeOut(Head(cancelCh)) /\ queue \in Seq(Run) /\ done \subseteq Nat
    BY <1>2 DEF HandleCancel, TypeOK, RunnerOK
  <2>5. done' \subseteq Nat
    BY <2>1, <2>2 DEF TakeOut
  <2>6. ASSUME NEW i \in DOMAIN queue
        PROVE  SubSeq(queue, 1, i - 1) \o SubSeq(queue, i + 1, Len(queue)) \in Seq(Run)
    <3>1. i \in 1 .. Len(queue)
      BY <2>2, <2>6
    <3>2. SubSeq(queue, 1, i - 1) \in Seq(Run) /\ SubSeq(queue, i + 1, Len(queue)) \in Seq(Run)
      BY <2>2, <3>1
    <3> QED
      BY <3>2
  <2>7. queue' \in Seq(Run)
    BY <2>2, <2>6 DEF TakeOut
  <2>3. RunnerOK'
    BY <1>2, <2>1, <2>5, <2>7 DEF HandleCancel, IsCurrent, BeginClose, TypeOK, RunnerOK
  <2>4. on' \subseteq Section
    BY <1>2 DEF HandleCancel, BeginClose, TypeOK
  <2> QED
    BY <1>2, <2>3, <2>4 DEF HandleCancel, TypeOK, ProgramsOK
<1>3. ASSUME HandleTimer
      PROVE  TypeOK'
  <2>1. RunnerOK'
    BY <1>3 DEF HandleTimer, BeginClose, TypeOK, RunnerOK
  <2> QED
    BY <1>3, <2>1 DEF HandleTimer, BeginClose, TypeOK, ProgramsOK
<1>4. ASSUME Closed
      PROVE  TypeOK'
  <2>1. queue # <<>> => Head(queue) \in Run /\ Tail(queue) \in Seq(Run)
    BY DEF TypeOK, RunnerOK
  <2>2. current.id \in Nat
    BY <1>4 DEF Closed, TypeOK, RunnerOK, Run
  <2>3. RunnerOK'
    BY <1>0, <1>4, <2>1, <2>2 DEF Closed, Finished, TypeOK, RunnerOK
  <2>4. on' \subseteq Section
    BY <1>4, <2>1 DEF Closed, Open, TypeOK, Run
  <2> QED
    BY <1>4, <2>3, <2>4, AnnounceStep DEF Closed, Channel, TypeOK, ProgramsOK
<1>5. ASSUME Opened \/ Told
      PROVE  TypeOK'
  <2>1. RunnerOK'
    BY <1>5 DEF Opened, Told, TypeOK, RunnerOK
  <2> QED
    BY <1>5, <2>1, AnnounceStep DEF Opened, Told, Channel, TypeOK, ProgramsOK, worldVars
<1> QED
  BY <1>1, <1>2, <1>3, <1>4, <1>5 DEF RunnerStep

\* What a body requests and cancels are runs and ids.
LEMMA BodyTypes ==
  ASSUME TypeOK, BodiesOK, NEW p \in Program, BodyStep(p) \/ SendCancel(p)
  PROVE  TypeOK'
<1> USE DEF others, runnerVars, runnerState, apiVars, worldVars
<1>1. ASSUME Request(p)
      PROVE  TypeOK'
  <2>1. Len(ids[p]) + 1 \in DOMAIN Sequence[p]
    BY <1>1, ServerAssumption DEF Request, BodiesOK, TypeOK, ProgramsOK, Program
  <2>2. Sequence[p][Len(ids[p]) + 1] \in Section
    BY <2>1, ServerAssumption DEF Program
  <2>3. runCh' \in Seq(Run)
    BY <1>1, <2>2 DEF Request, TypeOK, RunnerOK, ProgramsOK, Run
  <2>4. RunnerOK'
    BY <1>1, <2>3 DEF Request, TypeOK, RunnerOK
  <2>5. ProgramsOK'
    BY <1>1 DEF Request, TypeOK, ProgramsOK
  <2> QED
    BY <1>1, <2>4, <2>5 DEF Request, TypeOK
<1>2. ASSUME CancelRuns(p)
      PROVE  TypeOK'
  <2>1. ids[p] \in Seq(Nat) /\ item[p] \in 1 .. Len(ids[p])
    BY <1>2 DEF CancelRuns, BodiesOK, TypeOK, ProgramsOK
  <2>2. ids[p][Len(ids[p])] \in Nat /\ SubSeq(ids[p], 1, Len(ids[p]) - 1) \in Seq(Nat)
    BY <2>1
  <2>3. cancelCh' \in Seq(Nat)
    BY <1>2, <2>2 DEF CancelRuns, TypeOK, RunnerOK
  <2>4. RunnerOK'
    BY <1>2, <2>3 DEF CancelRuns, TypeOK, RunnerOK
  <2>5. ProgramsOK'
    BY <1>2, <2>2 DEF CancelRuns, TypeOK, ProgramsOK
  <2> QED
    BY <1>2, <2>4, <2>5 DEF CancelRuns, TypeOK
<1>3. ASSUME Flag(p) \/ Wait(p) \/ Stop(p) \/ SendCancel(p)
      PROVE  TypeOK'
  <2>1. RunnerOK'
    BY <1>3 DEF Flag, Wait, Stop, SendCancel, TypeOK, RunnerOK
  <2>2. ProgramsOK'
    <3>1. CASE Flag(p)
      BY <3>1 DEF Flag, TypeOK, ProgramsOK
    <3>4. CASE Wait(p)
      <4>1. body' \in [Program -> {"off", "spawned", "begin", "request", "wait", "cancel", "stop"}]
        BY <3>4 DEF Wait, TypeOK, ProgramsOK
      <4>2. item' \in [Program -> Nat]
        BY <3>4 DEF Wait, TypeOK, ProgramsOK
      <4> QED
        BY <3>4, <4>1, <4>2 DEF Wait, TypeOK, ProgramsOK
    <3>2. CASE Stop(p)
      BY <3>2 DEF Stop, TypeOK, ProgramsOK
    <3>3. CASE SendCancel(p)
      BY <3>3 DEF SendCancel, AfterCancel, TypeOK, ProgramsOK
    <3> QED
      BY <1>3, <3>1, <3>2, <3>3, <3>4
  <2> QED
    BY <1>3, <2>1, <2>2 DEF Flag, Wait, Stop, SendCancel, TypeOK
<1>4. ASSUME Begin(p) \/ End(p)
      PROVE  TypeOK'
  <2>1. RunnerOK'
    BY <1>4 DEF Begin, End, TypeOK, RunnerOK
  <2>2. ProgramsOK'
    <3>1. CASE Begin(p)
      BY <3>1 DEF Begin, TypeOK, ProgramsOK
    <3>2. CASE End(p)
      <4>1. ending' \in [Program -> Nat]
        BY <3>2 DEF End, TypeOK, ProgramsOK
      <4> QED
        BY <3>2, <4>1 DEF End, TypeOK, ProgramsOK
    <3> QED
      BY <1>4, <3>1, <3>2
  <2> QED
    BY <1>4, <2>1, <2>2, AnnounceStep DEF Begin, End, Channel, TypeOK
<1> QED
  BY <1>1, <1>2, <1>3, <1>4 DEF BodyStep

LEMMA HandlerTypes ==
  ASSUME TypeOK, HandlerStep
  PROVE  TypeOK'
<1> USE DEF runnerVars, worldVars
<1>1. request \in Requests
  <2>1. NoRequest.op = "none"
    BY DEF NoRequest
  <2>2. request.op # "none"
    BY DEF HandlerStep, RunProgram, CancelProgram, RunSection
  <2> QED
    BY <2>1, <2>2 DEF TypeOK
<1>2. ASSUME RunProgram
      PROVE  TypeOK'
  BY <1>2, ZenonT(40) DEF RunProgram, Spawn, TypeOK, RunnerOK, ProgramsOK
<1>3. ASSUME CancelProgram
      PROVE  TypeOK'
  BY <1>3, ZenonT(40) DEF CancelProgram, ReceiveStop, TypeOK, RunnerOK, ProgramsOK
<1>4. ASSUME RunSection
      PROVE  TypeOK'
  <2>1. request.arg \in Section
    BY <1>1, <1>4 DEF RunSection, Requests
  <2>2. runCh' \in Seq(Run)
    BY <1>4, <2>1 DEF RunSection, TypeOK, RunnerOK, ProgramsOK, Run
  <2> QED
    BY <1>4, <2>2 DEF RunSection, runnerState, TypeOK, RunnerOK, ProgramsOK
<1> QED
  BY <1>2, <1>3, <1>4 DEF HandlerStep

LEMMA MainTypes ==
  ASSUME TypeOK, StartUp \/ ShutDown \/ UpdaterStep \/ Outside
  PROVE  TypeOK'
<1> USE DEF runnerVars, programVars, apiVars, worldVars, MainGoes, Place
<1>1. CASE StartUp
  <2>1. ASSUME StartRunner
        PROVE  TypeOK'
    BY <2>1 DEF StartRunner, TypeOK, RunnerOK, ProgramsOK
  <2>2. ASSUME StartPrograms
        PROVE  TypeOK'
    BY <2>2 DEF StartPrograms, Started, TypeOK, RunnerOK, ProgramsOK
  <2>3. ASSUME Load \/ CloseAll \/ Register
        PROVE  TypeOK'
    <3>1. RunnerOK' /\ ProgramsOK'
      BY <2>3 DEF Load, CloseAll, Register, TypeOK, RunnerOK, ProgramsOK
    <3> QED
      BY <2>3, <3>1 DEF Load, CloseAll, Register, TypeOK
  <2>4. ASSUME BeginWrite \/ EndWrite
        PROVE  TypeOK'
    BY <2>4, ZenonT(40) DEF BeginWrite, EndWrite, TypeOK, RunnerOK, ProgramsOK
  <2>5. ASSUME StartUpdater
        PROVE  TypeOK'
    BY <2>5 DEF StartUpdater, TypeOK, RunnerOK, ProgramsOK
  <2> QED
    BY <1>1, <2>1, <2>2, <2>3, <2>4, <2>5 DEF StartUp
<1>2. CASE ShutDown
  <2>1. ASSUME TellSection
        PROVE  TypeOK'
    <3>1. pending' \in [Channel -> 0 .. AnnounceCap]
      BY <2>1, AnnounceStep DEF TellSection, Channel
    <3> QED
      BY <2>1, <3>1 DEF TellSection, TypeOK, RunnerOK, ProgramsOK
  <2>2. ASSUME QuitProgram
        PROVE  TypeOK'
    BY <2>2, SMTT(30) DEF QuitProgram, ReceiveStop, TypeOK, RunnerOK, ProgramsOK
  <2>3. ASSUME StopUpdater \/ StopApi \/ QuitRunner
        PROVE  TypeOK'
    BY <2>3, ZenonT(40) DEF StopUpdater, StopApi, QuitRunner, TypeOK, RunnerOK, ProgramsOK
  <2>4. ASSUME WaitGroup \/ StopSection \/ Exit
        PROVE  TypeOK'
    <3>1. RunnerOK' /\ ProgramsOK'
      BY <2>4 DEF WaitGroup, StopSection, Exit, TypeOK, RunnerOK, ProgramsOK
    <3> QED
      BY <2>4, <3>1 DEF WaitGroup, StopSection, Exit, TypeOK
  <2> QED
    BY <1>2, <2>1, <2>2, <2>3, <2>4 DEF ShutDown
<1>3. CASE UpdaterStep
  <2>1. ASSUME NEW ch \in Channel, TakeAnnouncement(ch)
        PROVE  TypeOK'
    <3>1. pending' \in [Channel -> 0 .. AnnounceCap]
      BY <2>1, ServerAssumption DEF TakeAnnouncement, TypeOK
    <3> QED
      BY <2>1, <3>1 DEF TakeAnnouncement, TypeOK, RunnerOK, ProgramsOK
  <2>2. ASSUME ReadState
        PROVE  TypeOK'
    BY <2>2 DEF ReadState, TypeOK, RunnerOK, ProgramsOK
  <2> QED
    BY <1>3, <2>1, <2>2 DEF UpdaterStep
<1>4. CASE Outside
  <2>1. ASSUME ConnectFails \/ Die
        PROVE  TypeOK'
    BY <2>1, GoneStep DEF ConnectFails, Die, TypeOK
  <2>2. ASSUME WriteFails \/ Restart \/ Signal
        PROVE  TypeOK'
    <3>1. RunnerOK' /\ ProgramsOK'
      BY <2>2 DEF WriteFails, Restart, Signal, TypeOK, RunnerOK, ProgramsOK
    <3> QED
      BY <2>2, <3>1 DEF WriteFails, Restart, Signal, TypeOK
  <2>4. ASSUME ReceiveRequest
        PROVE  TypeOK'
    BY <2>4 DEF ReceiveRequest, TypeOK, RunnerOK, ProgramsOK
  <2>3. ASSUME NEW p \in Program, TimerFires(p)
        PROVE  TypeOK'
    BY <2>3 DEF TimerFires, Spawn, TypeOK, RunnerOK, ProgramsOK
  <2> QED
    BY <1>4, <2>1, <2>2, <2>3, <2>4 DEF Outside
<1> QED
  BY <1>1, <1>2, <1>3, <1>4

LEMMA TypeStep == TypeOK /\ BodiesOK /\ [Next]_vars => TypeOK'
<1> SUFFICES ASSUME TypeOK, BodiesOK, [Next]_vars
             PROVE  TypeOK'
  OBVIOUS
<1>1. CASE UNCHANGED vars
  BY <1>1 DEF vars, runnerVars, programVars, apiVars, worldVars, TypeOK, RunnerOK, ProgramsOK
<1> QED
  BY <1>1, MainTypes, RunnerTypes, HandlerTypes, BodyTypes DEF Next

-----------------------------------------------------------------------------
LEMMA ServerInit == Init => TypeOK /\ ServerInv
<1> SUFFICES ASSUME Init
             PROVE  TypeOK /\ ServerInv
  OBVIOUS
<1>1. RunnerOK
  BY DEF Init, RunnerOK
<1>2. ProgramsOK
  BY DEF Init, ProgramsOK
<1>3. 0 \in 0 .. AnnounceCap
  BY ServerAssumption
<1>4. TypeOK
  BY <1>1, <1>2, <1>3 DEF Init, TypeOK, Place, Quiet
<1>5. ServerInv
  BY DEF Init, ServerInv, BodiesOK, NothingYet, ValveOfRun, AllStopped, Before
<1> QED
  BY <1>4, <1>5

\* A body asks for the items of its sequence one by one, and waits for those it asked for.
LEMMA BodiesStep == TypeOK /\ BodiesOK /\ [Next]_vars => BodiesOK'
<1> SUFFICES ASSUME TypeOK, BodiesOK, [Next]_vars
             PROVE  BodiesOK'
  OBVIOUS
<1> USE DEF runnerVars, programVars, apiVars, worldVars, others, runnerState
<1>1. ASSUME UNCHANGED <<body, item, ids>>
      PROVE  BodiesOK'
  BY <1>1 DEF BodiesOK
<1>2. ASSUME NEW p \in Program, Spawn(p)
      PROVE  BodiesOK'
  BY <1>2 DEF Spawn, BodiesOK, TypeOK, ProgramsOK
<1>3. ASSUME Gone
      PROVE  BodiesOK'
  BY <1>3 DEF Gone, BodiesOK
<1>4. ASSUME NEW p \in Program, BodyStep(p) \/ SendCancel(p)
      PROVE  BodiesOK'
  <2>1. CASE Flag(p)
    BY <2>1 DEF Flag, BodiesOK, TypeOK, ProgramsOK
  <2>2. CASE Begin(p)
    <3>1. Len(<<>>) < Len(Sequence[p])
      BY ServerAssumption DEF Program
    <3> QED
      BY <2>2, <3>1 DEF Begin, BodiesOK, TypeOK, ProgramsOK
  <2>3. CASE Request(p)
    <3>1. ids[p] \in Seq(Nat) /\ nextID \in Nat /\ Len(ids[p]) < Len(Sequence[p]) /\ item[p] = 1
      BY <2>3 DEF Request, BodiesOK, TypeOK, ProgramsOK
    <3>2. Len(Append(ids[p], nextID)) = Len(ids[p]) + 1 /\ Len(Sequence[p]) \in Nat
      BY <3>1, ServerAssumption DEF Program
    <3>3. ids'[p] = Append(ids[p], nextID) /\ item' = item
      BY <2>3 DEF Request, TypeOK, ProgramsOK
    <3>4. body'[p] = IF Len(ids[p]) + 1 = Len(Sequence[p]) THEN "wait" ELSE "request"
      BY <2>3 DEF Request, TypeOK, ProgramsOK
    <3>5. \A q \in Program \ {p} : body'[q] = body[q] /\ ids'[q] = ids[q]
      BY <2>3 DEF Request, TypeOK, ProgramsOK
    <3> QED
      BY <3>1, <3>2, <3>3, <3>4, <3>5 DEF BodiesOK
  <2>4. CASE Wait(p)
    <3>1. item[p] \in 1 .. Len(ids[p]) /\ ids' = ids /\ Len(ids[p]) \in Nat
      BY <2>4 DEF Wait, BodiesOK, TypeOK, ProgramsOK
    <3>2. item'[p] = item[p] + 1 /\ body'[p] = IF item[p] = Len(ids[p]) THEN "stop" ELSE "wait"
      BY <2>4 DEF Wait, TypeOK, ProgramsOK
    <3>3. \A q \in Program \ {p} : body'[q] = body[q] /\ item'[q] = item[q]
      BY <2>4 DEF Wait, TypeOK, ProgramsOK
    <3> QED
      BY <3>1, <3>2, <3>3 DEF BodiesOK
  <2>5. CASE CancelRuns(p)
    <3>1. item[p] \in 1 .. Len(ids[p]) /\ item' = item /\ ids[p] \in Seq(Nat)
      BY <2>5 DEF CancelRuns, BodiesOK, TypeOK, ProgramsOK
    <3>2. ids'[p] = SubSeq(ids[p], 1, Len(ids[p]) - 1)
      BY <2>5 DEF CancelRuns, TypeOK, ProgramsOK
    <3>3. Len(ids'[p]) = Len(ids[p]) - 1
      BY <3>1, <3>2
    <3>4. body'[p] = IF Len(ids[p]) = item[p] THEN "stop" ELSE "cancel"
      BY <2>5 DEF CancelRuns, LastLeft, TypeOK, ProgramsOK
    <3>5. \A q \in Program \ {p} : body'[q] = body[q] /\ ids'[q] = ids[q]
      BY <2>5 DEF CancelRuns, TypeOK, ProgramsOK
    <3> QED
      BY <3>1, <3>3, <3>4, <3>5 DEF BodiesOK
  <2>6. CASE Stop(p)
    BY <2>6 DEF Stop, BodiesOK, TypeOK, ProgramsOK
  <2>7. CASE End(p)
    BY <1>1, <2>7 DEF End
  <2>8. CASE SendCancel(p)
    BY <2>8 DEF SendCancel, BodiesOK, TypeOK, ProgramsOK
  <2> QED
    BY <1>4, <2>1, <2>2, <2>3, <2>4, <2>5, <2>6, <2>7, <2>8 DEF BodyStep
<1>5. CASE StartUp
  BY <1>1, <1>5 DEF StartUp, Load, StartRunner, CloseAll, StartPrograms, Register, BeginWrite,
                    EndWrite, StartUpdater
<1>6. CASE ShutDown
  BY <1>1, <1>6 DEF ShutDown, StopUpdater, StopApi, QuitProgram, ReceiveStop, QuitRunner,
                    WaitGroup, StopSection, TellSection, Exit
<1>7. CASE RunnerStep \/ UpdaterStep
  BY <1>1, <1>7 DEF RunnerStep, HandleRun, HandleCancel, HandleTimer, Closed, Opened, Told,
                    UpdaterStep, ReadState, TakeAnnouncement
<1>8. CASE HandlerStep
  <2>1. ASSUME RunProgram
        PROVE  BodiesOK'
    <3>1. request \in Requests
      <4>1. NoRequest.op = "none"
        BY DEF NoRequest
      <4> QED
        BY <2>1, <4>1 DEF RunProgram, TypeOK
    <3>2. request.arg \in Program
      BY <2>1, <3>1 DEF RunProgram, Requests
    <3> QED
      BY <1>2, <2>1, <3>2 DEF RunProgram
  <2> QED
    BY <1>1, <1>8, <2>1 DEF HandlerStep, CancelProgram, ReceiveStop, RunSection
<1>9. CASE Outside
  BY <1>1, <1>2, <1>3, <1>9 DEF Outside, WriteFails, ConnectFails, Die, Restart, Signal,
                                ReceiveRequest, TimerFires
<1>10. CASE UNCHANGED vars
  BY <1>1, <1>10 DEF vars
<1> QED
  BY <1>4, <1>5, <1>6, <1>7, <1>8, <1>9, <1>10 DEF Next

\* Nothing reaches the runner before the programs are started.
LEMMA NothingYetStep == TypeOK /\ NothingYet /\ [Next]_vars => NothingYet'
<1> SUFFICES ASSUME TypeOK, NothingYet, [Next]_vars, main' \in Before
             PROVE  /\ runner' \in {"off", "telling", "select"} /\ current' = None /\ runCh' = <<>>
                    /\ cancelCh' = <<>> /\ session' = FALSE /\ request' = NoRequest
                    /\ \A p \in Program : starter'[p] = "off" /\ body'[p] = "off"
  BY DEF NothingYet
<1> USE DEF runnerVars, programVars, apiVars, worldVars, others, runnerState, MainGoes
<1>1. CASE ConnectFails \/ Die
  BY <1>1 DEF ConnectFails, Die, Gone
<1>2. CASE ~(ConnectFails \/ Die)
  <2>1. main \in Before
    BY <1>2 DEF Before, Next, StartUp, ShutDown, RunnerStep, UpdaterStep, HandlerStep, Outside,
                BodyStep, Load, StartRunner, CloseAll, StartPrograms, Register, BeginWrite,
                EndWrite, StartUpdater, StopUpdater, StopApi, QuitProgram, QuitRunner, WaitGroup,
                StopSection, TellSection, Exit, HandleRun, HandleCancel, HandleTimer, Closed,
                Opened, Told, ReadState, TakeAnnouncement, RunProgram, CancelProgram, RunSection,
                WriteFails, Restart, Signal, ReceiveRequest, TimerFires, Spawn, ReceiveStop, Flag,
                Begin, Request, Wait, CancelRuns, Stop, End, SendCancel, vars
  <2>2. /\ runner \in {"off", "telling", "select"} /\ current = None
        /\ runCh = <<>> /\ cancelCh = <<>>
        /\ session = FALSE /\ request = NoRequest
        /\ \A p \in Program : starter[p] = "off" /\ body[p] = "off"
    BY <2>1 DEF NothingYet
  <2>3. RunnerStep => Told
    BY <2>2 DEF RunnerStep, HandleRun, HandleCancel, HandleTimer, Closed, Opened
  <2>10. CASE Told
    BY <2>2, <2>10 DEF Told
  <2>4. ~HandlerStep /\ ~ReceiveRequest
    BY <2>2 DEF HandlerStep, RunProgram, CancelProgram, RunSection, ReceiveRequest, NoRequest
  <2>5. ASSUME NEW p \in Program, BodyStep(p) \/ SendCancel(p) \/ TimerFires(p)
        PROVE  End(p)
    BY <2>2, <2>5 DEF BodyStep, SendCancel, TimerFires, Spawn, Flag, Begin, Request, Wait,
                      CancelRuns, Stop
  <2>6. ASSUME NEW p \in Program, End(p)
        PROVE  UNCHANGED <<runner, current, runCh, cancelCh, session, request, starter, body>>
    BY <2>6 DEF End
  <2>7. CASE StartUp
    <3>1. Load \/ StartRunner
      BY <2>1, <2>7 DEF Before, StartUp, CloseAll, StartPrograms, Register, BeginWrite, EndWrite,
                        StartUpdater
    <3> QED
      BY <2>2, <3>1 DEF Load, StartRunner
  <2>8. ~ShutDown /\ ~Signal
    BY <2>1 DEF Before, ShutDown, StopUpdater, StopApi, QuitProgram, QuitRunner, WaitGroup,
                StopSection, TellSection, Exit, Signal
  <2>9. CASE UpdaterStep \/ WriteFails \/ Restart \/ UNCHANGED vars
    BY <2>2, <2>9 DEF UpdaterStep, ReadState, TakeAnnouncement, WriteFails, Restart, vars
  <2> QED
    BY <1>2, <2>2, <2>3, <2>4, <2>5, <2>6, <2>7, <2>8, <2>9, <2>10 DEF Next, Outside
<1> QED
  BY <1>1, <1>2

\* Valves follow the run: the runner closes the old one before it opens the next.
LEMMA ValveStep == TypeOK /\ NothingYet /\ ValveOfRun /\ [Next]_vars => ValveOfRun'
<1> SUFFICES ASSUME TypeOK, NothingYet, ValveOfRun, [Next]_vars, main' \notin Before
             PROVE  on' \subseteq {current'.sec} /\ (runner' = "closing" => on' = {})
  BY DEF ValveOfRun
<1> USE DEF runnerVars, programVars, apiVars, worldVars, others, runnerState, MainGoes
<1>1. ASSUME main \notin Before, on' \subseteq on, UNCHANGED current,
             runner' # "closing" \/ runner = "closing"
      PROVE  on' \subseteq {current'.sec} /\ (runner' = "closing" => on' = {})
  BY <1>1 DEF ValveOfRun
<1>2. CASE CloseAll
  BY <1>2 DEF CloseAll, NothingYet, Before
<1>3. CASE main \in Before /\ ~CloseAll
  <2>1. main' \in Before
    BY <1>3, ZenonT(40)
    DEF Before, Next, StartUp, ShutDown, RunnerStep, UpdaterStep, HandlerStep, Outside,
                BodyStep, Load, StartRunner, StartPrograms, Register, BeginWrite, EndWrite,
                StartUpdater, StopUpdater, StopApi, QuitProgram, QuitRunner, WaitGroup, StopSection,
                TellSection, Exit, HandleRun, HandleCancel, HandleTimer, Closed, Opened, Told,
                ReadState, TakeAnnouncement, RunProgram, CancelProgram, RunSection, ConnectFails,
                WriteFails, Die, Restart, Signal, ReceiveRequest, TimerFires, Spawn, ReceiveStop, Flag, Begin,
                Request, Wait, CancelRuns, Stop, End, SendCancel, vars
  <2> QED
    BY <2>1
<1>4. CASE main \notin Before
  <2>0. on \subseteq {current.sec} /\ (runner = "closing" => on = {}) /\ on \subseteq Section
    BY <1>4 DEF ValveOfRun, TypeOK
  <2>1. current = None => on = {}
    BY <2>0 DEF None, Section
  <2>2. CASE HandleRun
    BY <2>0, <2>1, <2>2 DEF HandleRun, Open
  <2>3. CASE HandleCancel
    BY <2>0, <2>3 DEF HandleCancel, BeginClose
  <2>4. CASE HandleTimer
    BY <2>0, <2>4 DEF HandleTimer, BeginClose
  <2>5. CASE Closed
    BY <2>0, <2>5 DEF Closed, Open
  <2>6. CASE Opened \/ Told
    BY <1>1, <1>4, <2>6 DEF Opened, Told
  <2>7. CASE StartUp \/ ShutDown
    BY <1>1, <1>4, <2>7 DEF Before, StartUp, Load, StartRunner, CloseAll, StartPrograms, Register,
         BeginWrite, EndWrite, StartUpdater, ShutDown, StopUpdater, StopApi, QuitProgram,
         ReceiveStop, QuitRunner, WaitGroup, StopSection, TellSection, Exit
  <2>8. CASE UpdaterStep \/ HandlerStep
    BY <1>1, <1>4, <2>8 DEF UpdaterStep, ReadState, TakeAnnouncement, HandlerStep, RunProgram,
         Spawn, CancelProgram, ReceiveStop, RunSection
  <2>9. CASE Outside
    BY <1>1, <1>4, <2>9 DEF Before, Outside, WriteFails, ConnectFails, Die, Restart, Signal,
         ReceiveRequest, TimerFires, Spawn
  <2>10. ASSUME NEW p \in Program, BodyStep(p) \/ SendCancel(p)
         PROVE  on' \subseteq {current'.sec} /\ (runner' = "closing" => on' = {})
    BY <1>1, <1>4, <2>10 DEF BodyStep, Flag, Begin, Request, Wait, CancelRuns, Stop, End, SendCancel
  <2>11. CASE UNCHANGED vars
    BY <1>1, <1>4, <2>11 DEF vars
  <2> QED
    BY <2>2, <2>3, <2>4, <2>5, <2>6, <2>7, <2>8, <2>9, <2>10, <2>11 DEF Next, RunnerStep
<1> QED
  BY <1>2, <1>3, <1>4

\* A runner that has returned opens nothing, so what stopAll closes stays closed.
LEMMA StoppedStep == TypeOK /\ AllStopped /\ [Next]_vars => AllStopped'
<1> SUFFICES ASSUME TypeOK, AllStopped, [Next]_vars
             PROVE  AllStopped'
  OBVIOUS
<1> USE DEF runnerVars, programVars, apiVars, worldVars, others, runnerState, MainGoes
<1>1. step \in Nat /\ step >= 1
  BY DEF TypeOK, AllStopped
<1>2. ASSUME UNCHANGED <<main, step, runner>>, on' \subseteq on
      PROVE  AllStopped'
  BY <1>2 DEF AllStopped
<1>3. ASSUME main' \notin {"waitGroup", "stopAll", "tellSection", "exit"},
             step' \in {1, step, step + 1}
      PROVE  AllStopped'
  BY <1>1, <1>3 DEF AllStopped
<1>4. CASE ConnectFails \/ Die
  BY <1>3, <1>4 DEF ConnectFails, Die, Gone
<1>5. CASE StartUp \/ StopUpdater \/ StopApi \/ QuitProgram
  BY <1>3, <1>5 DEF StartUp, Load, StartRunner, CloseAll, StartPrograms, Register, BeginWrite,
       EndWrite, StartUpdater, StopUpdater, StopApi, QuitProgram, ReceiveStop
<1>6. CASE QuitRunner
  BY <1>1, <1>6 DEF QuitRunner, AllStopped
<1>7. CASE WaitGroup
  BY <1>7 DEF WaitGroup, AllStopped, TypeOK, Section
<1>8. CASE StopSection
  BY <1>1, <1>8 DEF StopSection, AllStopped, TypeOK, Section
<1>9. CASE TellSection
  BY <1>1, <1>9 DEF TellSection, AllStopped, TypeOK, Section
<1>10. CASE Exit
  BY <1>1, <1>10 DEF Exit, AllStopped
<1>11. CASE RunnerStep
  <2>1. runner # "quit" /\ UNCHANGED <<main, step>>
    BY <1>11 DEF RunnerStep, HandleRun, HandleCancel, HandleTimer, Closed, Opened, Told
  <2> QED
    BY <1>1, <2>1 DEF AllStopped
<1>12. CASE UpdaterStep \/ HandlerStep
  BY <1>2, <1>12 DEF UpdaterStep, ReadState, TakeAnnouncement, HandlerStep, RunProgram, Spawn,
       CancelProgram, ReceiveStop, RunSection
<1>13. CASE WriteFails \/ Restart \/ Signal \/ ReceiveRequest \/ \E p \in Program : TimerFires(p)
  BY <1>2, <1>3, <1>13 DEF WriteFails, Restart, Signal, ReceiveRequest, TimerFires, Spawn
<1>14. ASSUME NEW p \in Program, BodyStep(p) \/ SendCancel(p)
       PROVE  AllStopped'
  BY <1>2, <1>14 DEF BodyStep, Flag, Begin, Request, Wait, CancelRuns, Stop, End, SendCancel
<1>15. CASE UNCHANGED vars
  BY <1>2, <1>15 DEF vars
<1> QED
  BY <1>4, <1>5, <1>6, <1>7, <1>8, <1>9, <1>10, <1>11, <1>12, <1>13, <1>14, <1>15
     DEF Next, ShutDown, Outside

-----------------------------------------------------------------------------
\* Types and the inductive invariant of the server's life.
THEOREM ServerInvariant == Spec => [](TypeOK /\ ServerInv)
<1>1. TypeOK /\ ServerInv /\ [Next]_vars => (TypeOK /\ ServerInv)'
  BY TypeStep, BodiesStep, NothingYetStep, ValveStep, StoppedStep DEF ServerInv
<1> QED
  BY ServerInit, <1>1, PTL DEF Spec

\* Every variable keeps its type, and no announcement channel is overfull.
THEOREM ServerTypes == Spec => []TypeOK
BY ServerInvariant, PTL

\* From start-up's stopAll until the process is gone, an open valve is that of the
\* current run.
THEOREM NoStrayValve == Spec => []ValvesKnown
<1>1. ServerInv => ValvesKnown
  BY DEF ServerInv, ValveOfRun, Before, ValvesKnown
<1> QED
  BY <1>1, ServerInvariant, PTL

\* When main has returned, every valve is closed.
THEOREM DryAtExit == Spec => []ClosedAtExit
<1>1. TypeOK /\ ServerInv => ClosedAtExit
  BY ServerAssumption DEF TypeOK, ServerInv, AllStopped, ClosedAtExit, Section
<1> QED
  BY <1>1, ServerInvariant, PTL

=============================================================================
