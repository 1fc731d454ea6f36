---------------------------- MODULE ProgramProofs ----------------------------
(***************************************************************************)
(* Theorems about Program for any number of clients and of goroutines that *)
(* run the program, and any sequence length.                               *)
(***************************************************************************)
EXTENDS Program, TLAPS

BodyPlace == {"off", "new", "copy", "request", "wait", "cancel", "stop"}

\* The types the invariant needs.
PlaceOK ==
  /\ data \in Data
  /\ running \in BOOLEAN /\ lock \in Client \cup {Free}
  /\ armed \in BOOLEAN
  /\ body \in [Body -> BodyPlace]
  /\ client \in [Client -> {"idle", "run", "cancel", "quit", "refresh", "notify"}]

LEMMA PlaceInit == Init => PlaceOK
<1> SUFFICES ASSUME Init
             PROVE  PlaceOK
  OBVIOUS
<1>1. data \in Data /\ lock \in Client \cup {Free}
  BY DEF Init
<1>2. running \in BOOLEAN
  BY DEF Init
<1>3. armed \in BOOLEAN
  BY DEF Init
<1>4. body \in [Body -> BodyPlace]
  BY DEF Init, BodyPlace
<1>5. client \in [Client -> {"idle", "run", "cancel", "quit", "refresh", "notify"}]
  BY DEF Init
<1> QED
  BY <1>1, <1>2, <1>3, <1>4, <1>5 DEF PlaceOK

\* A step of one body leaves the others, and what clients see, alone.
LEMMA PlaceStep == PlaceOK /\ [Next]_vars => PlaceOK'
<1> SUFFICES ASSUME PlaceOK, [Next]_vars
             PROVE  PlaceOK'
  OBVIOUS
<1> USE DEF programVars, starterVars, bodyVars
<1>1. data' \in Data /\ lock' \in Client \cup {Free}
  <2>1. ASSUME NEW c \in Client, ClientStep(c)
        PROVE  data' \in Data /\ lock' \in Client \cup {Free}
    <3>1. ASSUME NEW new \in NewData, Update(c, new)
          PROVE  data' \in Data /\ lock' \in Client \cup {Free}
      BY <3>1, ProgramAssumption DEF Update
    <3>2. ASSUME NEW name \in {"old", "new"}, UpdateFails(c, name)
          PROVE  data' \in Data /\ lock' \in Client \cup {Free}
      BY <3>2 DEF UpdateFails, PlaceOK, Data
    <3> QED
      BY <2>1, <3>1, <3>2 DEF ClientStep, Call, EndUpdate, PlaceOK
  <2>2. ASSUME StarterStep
        PROVE  UNCHANGED <<data, lock>>
    BY <2>2 DEF StarterStep, Plan, TimerFires, SendCancel, ReceiveRefresh, ReceiveCancel,
                ReceiveRun
  <2>3. ASSUME NEW b \in Body, BodyStep(b) \/ \E i \in Item : SectionEnds(b, i)
        PROVE  UNCHANGED <<data, lock>>
    BY <2>3 DEF BodyStep, TryStart, CopySequence, RequestSection, ReceiveDone,
                CancelSections, Stop, SectionEnds
  <2> QED
    BY <2>1, <2>2, <2>3 DEF Next, vars, PlaceOK
<1>2. running' \in BOOLEAN
  BY DEF Next, StarterStep, BodyStep, ClientStep, vars, PlaceOK, Plan, TimerFires,
         SendCancel, ReceiveRefresh, ReceiveCancel, ReceiveRun, TryStart, CopySequence,
         RequestSection, ReceiveDone, CancelSections, Stop, SectionEnds, Call, Update,
         UpdateFails, EndUpdate
<1>3. armed' \in BOOLEAN
  <2>1. ASSUME Plan
        PROVE  armed' \in BOOLEAN
    BY <2>1 DEF Plan, HasNextRun, PlaceOK, Data
  <2> QED
    BY <2>1
       DEF Next, StarterStep, BodyStep, ClientStep, vars, PlaceOK, TimerFires,
         SendCancel, ReceiveRefresh, ReceiveCancel, ReceiveRun, TryStart, CopySequence,
         RequestSection, ReceiveDone, CancelSections, Stop, SectionEnds, Call, Update,
         UpdateFails, EndUpdate
<1>4. body' \in [Body -> BodyPlace]
  BY DEF Next, StarterStep, BodyStep, ClientStep, vars, PlaceOK, BodyPlace, Plan, TimerFires,
         SendCancel, ReceiveRefresh, ReceiveCancel, ReceiveRun, Spawn, TryStart, CopySequence,
         RequestSection, ReceiveDone, CancelSections, Stop, SectionEnds, Call, Update,
         UpdateFails, EndUpdate
<1>5. client' \in [Client -> {"idle", "run", "cancel", "quit", "refresh", "notify"}]
  BY DEF Next, StarterStep, BodyStep, ClientStep, vars, PlaceOK, Plan, TimerFires,
         SendCancel, ReceiveRefresh, ReceiveCancel, ReceiveRun, TryStart, CopySequence,
         RequestSection, ReceiveDone, CancelSections, Stop, SectionEnds, Call, Update,
         UpdateFails, EndUpdate
<1> QED
  BY <1>1, <1>2, <1>3, <1>4, <1>5 DEF PlaceOK

-----------------------------------------------------------------------------
LEMMA ProgramInit == Init => ProgramInv
BY ProgramAssumption
   DEF Init, ProgramInv, OneBody, RunningAccurate, Active, LockDiscipline, PlanIsCurrent

\* Which bodies are active, and the flag, change together.
LEMMA BodiesStep ==
  PlaceOK /\ OneBody /\ RunningAccurate /\ [Next]_vars => OneBody' /\ RunningAccurate'
<1> SUFFICES ASSUME PlaceOK, OneBody, RunningAccurate, [Next]_vars
             PROVE  OneBody' /\ RunningAccurate'
  OBVIOUS
<1> USE DEF programVars, starterVars, bodyVars
<1>1. ASSUME running' = running, \A b \in Body : Active(b)' <=> Active(b)
      PROVE  OneBody' /\ RunningAccurate'
  BY <1>1 DEF OneBody, RunningAccurate
<1>2. ASSUME NEW b \in Body, TryStart(b)
      PROVE  OneBody' /\ RunningAccurate'
  <2>1. CASE MayStart
    <3>1. \A a \in Body : ~Active(a)
      BY <2>1 DEF MayStart, RunningAccurate
    <3>2. running' /\ body' = [body EXCEPT ![b] = "copy"]
      BY <1>2, <2>1 DEF TryStart
    <3>3. \A a \in Body : Active(a)' <=> a = b
      BY <3>1, <3>2 DEF Active, PlaceOK
    <3> QED
      BY <3>2, <3>3 DEF OneBody, RunningAccurate
  <2>2. CASE ~MayStart
    <3>1. running' = running /\ body' = [body EXCEPT ![b] = "off"] /\ body[b] = "new"
      BY <1>2, <2>2 DEF TryStart
    <3>2. \A a \in Body : Active(a)' <=> Active(a)
      BY <3>1 DEF Active, PlaceOK
    <3> QED
      BY <1>1, <3>1, <3>2
  <2> QED
    BY <2>1, <2>2
<1>3. ASSUME NEW b \in Body, Stop(b)
      PROVE  OneBody' /\ RunningAccurate'
  <2>1. body[b] = "stop" /\ ~running' /\ body' = [body EXCEPT ![b] = "off"]
    BY <1>3 DEF Stop
  <2>2. \A a \in Body : Active(a) => a = b
    BY <2>1 DEF OneBody, Active
  <2>3. \A a \in Body : ~Active(a)'
    BY <2>1, <2>2 DEF Active, PlaceOK
  <2> QED
    BY <2>1, <2>3 DEF OneBody, RunningAccurate
<1>4. ASSUME NEW b \in Body, CopySequence(b) \/ RequestSection(b) \/ ReceiveDone(b)
                              \/ CancelSections(b) \/ SendCancel(b)
      PROVE  OneBody' /\ RunningAccurate'
  <2>1. running' = running
    BY <1>4 DEF CopySequence, RequestSection, ReceiveDone, CancelSections, SendCancel
  <2>2. /\ Active(b) /\ \A a \in Body \ {b} : body'[a] = body[a]
        /\ body'[b] \notin {"off", "new"}
    BY <1>4 DEF CopySequence, RequestSection, ReceiveDone, CancelSections, SendCancel,
                Active, PlaceOK
  <2> QED
    BY <1>1, <2>1, <2>2 DEF Active
<1>5. ASSUME NEW b \in Body,
             TimerFires(b) \/ \E c \in Client : ReceiveRun(c, b)
      PROVE  OneBody' /\ RunningAccurate'
  <2>1. running' = running /\ body[b] = "off" /\ body' = [body EXCEPT ![b] = "new"]
    BY <1>5 DEF TimerFires, ReceiveRun, Spawn
  <2>2. \A a \in Body : Active(a)' <=> Active(a)
    BY <2>1 DEF Active, PlaceOK
  <2> QED
    BY <1>1, <2>1, <2>2
<1>6. ASSUME UNCHANGED <<running, body>>
      PROVE  OneBody' /\ RunningAccurate'
  BY <1>1, <1>6 DEF Active
<1>7. ASSUME Plan \/ (\E c \in Client : ReceiveRefresh(c) \/ ReceiveCancel(c) \/ ClientStep(c))
               \/ (\E b \in Body, i \in Item : SectionEnds(b, i)) \/ UNCHANGED vars
      PROVE  UNCHANGED <<running, body>>
  BY <1>7 DEF Plan, ReceiveRefresh, ReceiveCancel, ClientStep, Call, Update, UpdateFails,
              EndUpdate, SectionEnds, vars
<1> QED
  BY <1>2, <1>3, <1>4, <1>5, <1>6, <1>7 DEF Next, StarterStep, BodyStep

\* Between its lock and its unlock a client keeps the starter from planning again.
LEMMA LockStep == PlaceOK /\ LockDiscipline /\ [Next]_vars => LockDiscipline'
<1> SUFFICES ASSUME PlaceOK, LockDiscipline, [Next]_vars
             PROVE  LockDiscipline'
  OBVIOUS
<1> USE DEF programVars, starterVars, bodyVars
<1>1. ASSUME UNCHANGED <<client, lock, starter>>
      PROVE  LockDiscipline'
  BY <1>1 DEF LockDiscipline
<1>2. ASSUME Plan
      PROVE  LockDiscipline'
  <2>1. \A c \in Client : lock # c
    BY <1>2, ProgramAssumption DEF Plan
  <2> QED
    BY <1>2, <2>1 DEF Plan, LockDiscipline
<1>3. ASSUME NEW b \in Body, TimerFires(b) \/ SendCancel(b)
      PROVE  LockDiscipline'
  BY <1>3 DEF TimerFires, SendCancel, LockDiscipline
<1>4. ASSUME NEW c \in Client, ReceiveRefresh(c)
      PROVE  LockDiscipline'
  <2>1. /\ client[c] = "refresh" /\ starter' = "plan" /\ lock' = lock
        /\ client' = [client EXCEPT ![c] = "notify"]
    BY <1>4 DEF ReceiveRefresh
  <2> QED
    BY <2>1 DEF LockDiscipline, PlaceOK
<1>5. ASSUME NEW c \in Client, ReceiveCancel(c) \/ \E b \in Body : ReceiveRun(c, b)
      PROVE  LockDiscipline'
  <2>1. /\ client[c] \in {"run", "cancel", "quit"} /\ starter = "select" /\ lock' = lock
        /\ client' = [client EXCEPT ![c] = "idle"]
    BY <1>5 DEF ReceiveCancel, ReceiveRun
  <2> QED
    BY <2>1 DEF LockDiscipline, PlaceOK
<1>6. ASSUME NEW c \in Client, NEW msg \in {"run", "cancel", "quit"}, Call(c, msg)
      PROVE  LockDiscipline'
  <2>1. /\ client[c] = "idle" /\ UNCHANGED <<lock, starter>>
        /\ client' = [client EXCEPT ![c] = msg]
    BY <1>6 DEF Call
  <2> QED
    BY <2>1 DEF LockDiscipline, PlaceOK
<1>7. ASSUME NEW c \in Client, NEW new \in NewData, Update(c, new)
      PROVE  LockDiscipline'
  <2>1. /\ client[c] = "idle" /\ lock = Free /\ lock' = c /\ starter' = starter
        /\ client' = [client EXCEPT ![c] = "refresh"]
    BY <1>7 DEF Update
  <2> QED
    BY <2>1, ProgramAssumption DEF LockDiscipline, PlaceOK
<1>8. ASSUME NEW c \in Client, EndUpdate(c)
      PROVE  LockDiscipline'
  <2>1. /\ client[c] = "notify" /\ lock' = Free /\ starter' = starter
        /\ client' = [client EXCEPT ![c] = "idle"]
    BY <1>8 DEF EndUpdate
  <2>2. lock = c
    BY <2>1 DEF LockDiscipline
  <2> QED
    BY <2>1, <2>2, ProgramAssumption DEF LockDiscipline, PlaceOK
<1>9. ASSUME \/ \E b \in Body : BodyStep(b) \/ \E i \in Item : SectionEnds(b, i)
             \/ \E c \in Client, name \in {"old", "new"} : UpdateFails(c, name)
             \/ UNCHANGED vars
      PROVE  UNCHANGED <<client, lock, starter>>
  BY <1>9 DEF BodyStep, TryStart, CopySequence, RequestSection, ReceiveDone,
              CancelSections, Stop, SectionEnds, UpdateFails, vars
<1> QED
  BY <1>1, <1>2, <1>3, <1>4, <1>5, <1>6, <1>7, <1>8, <1>9
     DEF Next, StarterStep, ClientStep

LEMMA PlanStep ==
  PlaceOK /\ LockDiscipline /\ PlanIsCurrent /\ [Next]_vars => PlanIsCurrent'
<1> SUFFICES ASSUME PlaceOK, LockDiscipline, PlanIsCurrent, [Next]_vars,
                    starter' = "select", lock' = Free
             PROVE  armed' <=> data'.enabled /\ data'.scheduled
  BY DEF PlanIsCurrent
<1> USE DEF programVars, starterVars, bodyVars
<1>1. ASSUME Plan
      PROVE  armed' <=> data'.enabled /\ data'.scheduled
  BY <1>1 DEF Plan, HasNextRun
<1>2. ASSUME UNCHANGED <<starter, lock, armed, data>>
      PROVE  armed' <=> data'.enabled /\ data'.scheduled
  BY <1>2 DEF PlanIsCurrent
<1>3. ASSUME NEW c \in Client, NEW name \in {"old", "new"}, UpdateFails(c, name)
      PROVE  armed' <=> data'.enabled /\ data'.scheduled
  <2>1. data'.enabled = data.enabled /\ data'.scheduled = data.scheduled
    BY <1>3 DEF UpdateFails, PlaceOK, Data
  <2> QED
    BY <1>3, <2>1 DEF UpdateFails, PlanIsCurrent
<1>4. ASSUME NEW c \in Client, EndUpdate(c)
      PROVE  FALSE
  BY <1>4 DEF EndUpdate, LockDiscipline
<1>5. ASSUME NEW c \in Client, NEW new \in NewData, Update(c, new)
      PROVE  FALSE
  BY <1>5, ProgramAssumption DEF Update
<1>6. ASSUME \E b \in Body : TimerFires(b) \/ SendCancel(b) \/ \E c \in Client : ReceiveRun(c, b)
      PROVE  FALSE
  BY <1>6 DEF TimerFires, SendCancel, ReceiveRun
<1>7. ASSUME \E c \in Client : ReceiveRefresh(c) \/ ReceiveCancel(c)
      PROVE  FALSE
  BY <1>7 DEF ReceiveRefresh, ReceiveCancel
<1>8. ASSUME \/ \E b \in Body : BodyStep(b) \/ \E i \in Item : SectionEnds(b, i)
             \/ \E c \in Client, msg \in {"run", "cancel", "quit"} : Call(c, msg)
             \/ UNCHANGED vars
      PROVE  UNCHANGED <<starter, lock, armed, data>>
  BY <1>8 DEF BodyStep, TryStart, CopySequence, RequestSection, ReceiveDone,
              CancelSections, Stop, SectionEnds, Call, vars
<1> QED
  BY <1>1, <1>2, <1>3, <1>4, <1>5, <1>6, <1>7, <1>8 DEF Next, StarterStep, ClientStep

\* Whatever clients call, from however many goroutines: one body at most runs the
\* program, the flag is accurate, and the starter's plan is up to date.
THEOREM ProgramCorrect == Spec => []ProgramInv
<1>1. Init => PlaceOK /\ ProgramInv
  BY PlaceInit, ProgramInit
<1>2. PlaceOK /\ ProgramInv /\ [Next]_vars => (PlaceOK /\ ProgramInv)'
  BY PlaceStep, BodiesStep, LockStep, PlanStep DEF ProgramInv
<1> QED
  BY <1>1, <1>2, PTL DEF Spec

\* At most one goroutine runs the program.
THEOREM SingleRun == Spec => []OneBody
<1>1. ProgramInv => OneBody
  BY DEF ProgramInv
<1> QED
  BY <1>1, ProgramCorrect, PTL

\* A disabled or rescheduled program does not start by an old plan.
THEOREM PlanUpToDate == Spec => []PlanIsCurrent
<1>1. ProgramInv => PlanIsCurrent
  BY DEF ProgramInv
<1> QED
  BY <1>1, ProgramCorrect, PTL

-----------------------------------------------------------------------------
\* What a body has requested, received from and cancelled, by where it is.
RunOK(b) ==
  /\ body[b] = "request" => item[b] \in 1 .. seqLen[b] + 1
  /\ body[b] \in {"wait", "cancel"} =>
       /\ item[b] \in 1 .. seqLen[b]
       /\ \A i \in 1 .. item[b] - 1 : sec[b][i] = "received"
  /\ body[b] = "stop" => \A i \in 1 .. seqLen[b] : sec[b][i] = "received" \/ i \in cancelled[b]

ItemsOK ==
  /\ seqLen \in [Body -> 0 .. MaxItems] /\ item \in [Body -> 0 .. MaxItems + 1]
  /\ sec \in [Body -> [Item -> {"none", "queued", "ended", "received"}]]
  /\ cancelled \in [Body -> SUBSET Item]

RunsOK == ItemsOK /\ \A b \in Body : RunOK(b)

LEMMA RunsInit == Init => RunsOK
<1> SUFFICES ASSUME Init
             PROVE  RunsOK
  OBVIOUS
<1>1. 0 \in 0 .. MaxItems /\ 0 \in 0 .. MaxItems + 1
  BY ProgramAssumption
<1>2. ItemsOK
  BY <1>1 DEF Init, ItemsOK
<1>3. \A b \in Body : body[b] = "off"
  BY DEF Init
<1> QED
  BY <1>2, <1>3 DEF RunsOK, RunOK

\* A body goes on to the next item when it has received from this one, and cancels
\* from the last one down to the one it was waiting for.
LEMMA RunsStep == PlaceOK /\ RunsOK /\ [Next]_vars => RunsOK'
<1> SUFFICES ASSUME PlaceOK, RunsOK, [Next]_vars
             PROVE  RunsOK'
  OBVIOUS
<1> USE DEF programVars, starterVars, bodyVars
<1>0. /\ MaxItems \in Nat /\ body \in [Body -> BodyPlace]
      /\ ItemsOK /\ \A b \in Body : RunOK(b)
  BY ProgramAssumption DEF PlaceOK, RunsOK
<1>sec. ASSUME NEW b \in Body, NEW i \in Item, NEW v \in {"none", "queued", "ended", "received"}
       PROVE  [sec EXCEPT ![b][i] = v]
                \in [Body -> [Item -> {"none", "queued", "ended", "received"}]]
  BY <1>0, <1>sec DEF ItemsOK
<1>1. ASSUME NEW b \in Body, ItemsOK', RunOK(b)',
             \A a \in Body \ {b} : /\ body'[a] = body[a] /\ seqLen'[a] = seqLen[a]
                                    /\ item'[a] = item[a]
                                  /\ sec'[a] = sec[a] /\ cancelled'[a] = cancelled[a]
      PROVE  RunsOK'
  BY <1>0, <1>1 DEF RunsOK, RunOK
<1>2. ASSUME NEW b \in Body, UNCHANGED <<seqLen, item, sec, cancelled>>,
             \E place \in {"off", "new", "copy"} : body' = [body EXCEPT ![b] = place]
      PROVE  RunsOK'
  BY <1>0, <1>1, <1>2 DEF ItemsOK, RunOK
<1>3. ASSUME NEW b \in Body, TryStart(b) \/ TimerFires(b) \/ \E c \in Client : ReceiveRun(c, b)
      PROVE  RunsOK'
  BY <1>2, <1>3 DEF TryStart, TimerFires, ReceiveRun, Spawn
<1>4. ASSUME NEW b \in Body, CopySequence(b)
      PROVE  RunsOK'
  <2>1. data.items \in 0 .. MaxItems
    BY DEF PlaceOK, Data
  <2>2. /\ seqLen' = [seqLen EXCEPT ![b] = data.items] /\ item' = [item EXCEPT ![b] = 1]
        /\ body' = [body EXCEPT ![b] = "request"] /\ UNCHANGED <<sec, cancelled>>
    BY <1>4 DEF CopySequence
  <2>3. ItemsOK' /\ RunOK(b)'
    BY <1>0, <2>1, <2>2 DEF ItemsOK, RunOK
  <2> QED
    BY <1>0, <1>1, <2>2, <2>3 DEF ItemsOK
<1>5. ASSUME NEW b \in Body, RequestSection(b)
      PROVE  RunsOK'
  <2>0. body[b] = "request" /\ item[b] \in 1 .. seqLen[b] + 1 /\ seqLen[b] \in 0 .. MaxItems
    BY <1>0, <1>5 DEF RequestSection, RunOK, ItemsOK
  <2>1. CASE MoreItems(b)
    <3>1. /\ item[b] \in 1 .. seqLen[b] /\ sec' = [sec EXCEPT ![b][item[b]] = "queued"]
          /\ item' = [item EXCEPT ![b] = @ + 1] /\ UNCHANGED <<body, seqLen, cancelled>>
      BY <1>5, <2>0, <2>1 DEF RequestSection, MoreItems
    <3>2. item[b] \in Item /\ item[b] + 1 \in 0 .. MaxItems + 1
      BY <1>0, <2>0, <3>1 DEF Item
    <3>3. sec' \in [Body -> [Item -> {"none", "queued", "ended", "received"}]]
      BY <1>0, <1>sec, <3>1, <3>2
    <3>4. ItemsOK'
      BY <1>0, <3>1, <3>2, <3>3 DEF ItemsOK
    <3>5. item'[b] = item[b] + 1 /\ seqLen'[b] = seqLen[b] /\ body'[b] = "request"
      BY <1>0, <2>0, <3>1 DEF ItemsOK
    <3>6. RunOK(b)'
      BY <2>0, <3>1, <3>5 DEF RunOK
    <3> QED
      BY <1>0, <1>1, <3>1, <3>4, <3>6 DEF ItemsOK
  <2>2. CASE ~MoreItems(b)
    <3>1. /\ item' = [item EXCEPT ![b] = 1] /\ UNCHANGED <<sec, seqLen, cancelled>>
          /\ body' = [body EXCEPT ![b] = IF seqLen[b] = 0 THEN "stop" ELSE "wait"]
      BY <1>5, <2>2 DEF RequestSection, NothingToDo
    <3>2. ItemsOK' /\ RunOK(b)'
      BY <1>0, <2>0, <3>1 DEF ItemsOK, RunOK
    <3> QED
      BY <1>0, <1>1, <3>1, <3>2 DEF ItemsOK
  <2> QED
    BY <2>1, <2>2
<1>6. ASSUME NEW b \in Body, ReceiveDone(b)
      PROVE  RunsOK'
  <2>0. /\ body[b] = "wait" /\ item[b] \in 1 .. seqLen[b] /\ seqLen[b] \in 0 .. MaxItems
        /\ \A i \in 1 .. item[b] - 1 : sec[b][i] = "received"
    BY <1>0, <1>6 DEF ReceiveDone, RunOK, ItemsOK
  <2>1. /\ sec' = [sec EXCEPT ![b][item[b]] = "received"] /\ item' = [item EXCEPT ![b] = @ + 1]
        /\ body' = [body EXCEPT ![b] = IF item[b] = seqLen[b] THEN "stop" ELSE "wait"]
        /\ UNCHANGED <<seqLen, cancelled>>
    BY <1>6 DEF ReceiveDone
  <2>2. ItemsOK'
    <3>1. item[b] \in Item /\ item[b] + 1 \in 0 .. MaxItems + 1
      BY <1>0, <2>0 DEF Item
    <3>2. sec' \in [Body -> [Item -> {"none", "queued", "ended", "received"}]]
      BY <1>0, <1>sec, <2>1, <3>1
    <3> QED
      BY <1>0, <2>1, <3>1, <3>2 DEF ItemsOK
  <2>3. /\ item'[b] = item[b] + 1 /\ seqLen'[b] = seqLen[b]
        /\ \A i \in 1 .. item[b] : sec'[b][i] = "received"
        /\ body'[b] = IF item[b] = seqLen[b] THEN "stop" ELSE "wait"
    BY <1>0, <2>0, <2>1 DEF ItemsOK, Item
  <2>4. RunOK(b)'
    BY <2>0, <2>3 DEF RunOK
  <2> QED
    BY <1>0, <1>1, <2>1, <2>2, <2>4 DEF ItemsOK
<1>7. ASSUME NEW b \in Body, SendCancel(b)
      PROVE  RunsOK'
  <2>1. /\ body[b] = "wait" /\ body' = [body EXCEPT ![b] = "cancel"]
        /\ UNCHANGED <<seqLen, item, sec, cancelled>>
    BY <1>7 DEF SendCancel
  <2> QED
    BY <1>0, <1>1, <2>1 DEF ItemsOK, RunOK
<1>8. ASSUME NEW b \in Body, CancelSections(b)
      PROVE  RunsOK'
  <2>0. /\ body[b] = "cancel" /\ item[b] \in 1 .. seqLen[b] /\ seqLen[b] \in 0 .. MaxItems
        /\ \A i \in 1 .. item[b] - 1 : sec[b][i] = "received"
        /\ UNCHANGED <<seqLen, item, sec>>
    BY <1>0, <1>8 DEF CancelSections, RunOK, ItemsOK
  <2>1. ASSUME NEW j \in ToCancel(b), cancelled' = [cancelled EXCEPT ![b] = @ \cup {j}],
               UNCHANGED body
        PROVE  RunsOK'
    <3>1. j \in Item
      <4>1. j \in item[b] .. seqLen[b]
        BY <2>1 DEF ToCancel
      <4> QED
        BY <1>0, <2>0, <4>1 DEF Item
    <3>2. ItemsOK'
      BY <1>0, <2>0, <2>1, <3>1 DEF ItemsOK
    <3> QED
      BY <1>0, <1>1, <2>0, <2>1, <3>2 DEF ItemsOK, RunOK
  <2>2. ASSUME ToCancel(b) = {}, body' = [body EXCEPT ![b] = "stop"], UNCHANGED cancelled
        PROVE  RunsOK'
    <3>1. \A i \in item[b] .. seqLen[b] : i \in cancelled[b]
      BY <2>2 DEF ToCancel
    <3>2. \A i \in 1 .. seqLen[b] : i \in 1 .. item[b] - 1 \/ i \in item[b] .. seqLen[b]
      BY <2>0
    <3>3. RunOK(b)'
      BY <1>0, <2>0, <2>2, <3>1, <3>2 DEF RunOK
    <3> QED
      BY <1>0, <1>1, <2>0, <2>2, <3>3 DEF ItemsOK
  <2> QED
    BY <1>8, <2>1, <2>2 DEF CancelSections
<1>9. ASSUME NEW b \in Body, Stop(b)
      PROVE  RunsOK'
  <2>1. /\ body' = [body EXCEPT ![b] = "off"] /\ seqLen' = [seqLen EXCEPT ![b] = 0]
        /\ item' = [item EXCEPT ![b] = 0] /\ sec' = [sec EXCEPT ![b] = [i \in Item |-> "none"]]
        /\ cancelled' = [cancelled EXCEPT ![b] = {}]
    BY <1>9 DEF Stop
  <2>2. ItemsOK' /\ RunOK(b)'
    BY <1>0, <2>1 DEF ItemsOK, RunOK
  <2> QED
    BY <1>0, <1>1, <2>1, <2>2 DEF ItemsOK
<1>10. ASSUME NEW b \in Body, NEW i \in Item, SectionEnds(b, i)
       PROVE  RunsOK'
  <2>1. /\ sec[b][i] = "queued" /\ sec' = [sec EXCEPT ![b][i] = "ended"]
        /\ UNCHANGED <<body, seqLen, item, cancelled>>
    BY <1>10 DEF SectionEnds
  <2>2. ItemsOK'
    BY <1>0, <2>1 DEF ItemsOK
  <2>3. \A j : sec[b][j] = "received" => sec'[b][j] = "received"
    BY <1>0, <2>1 DEF ItemsOK
  <2> QED
    BY <1>0, <1>1, <2>1, <2>2, <2>3 DEF ItemsOK, RunOK
<1>11. ASSUME UNCHANGED bodyVars
       PROVE  RunsOK'
  BY <1>0, <1>11 DEF RunsOK, ItemsOK, RunOK
<1>12. ASSUME Plan \/ (\E c \in Client : ReceiveRefresh(c) \/ ReceiveCancel(c) \/ ClientStep(c))
                \/ UNCHANGED vars
       PROVE  UNCHANGED bodyVars
  BY <1>12 DEF Plan, ReceiveRefresh, ReceiveCancel, ClientStep, Call, Update, UpdateFails,
              EndUpdate, vars
<1> QED
  BY <1>3, <1>4, <1>5, <1>6, <1>7, <1>8, <1>9, <1>10, <1>11, <1>12 DEF Next, StarterStep, BodyStep

\* The rest of the types.
RestOK ==
  /\ published \in Data /\ starter \in {"plan", "select", "cancel", "quit"}
  /\ quitting \in BOOLEAN

LEMMA RestStep == PlaceOK /\ RestOK /\ [Next]_vars => RestOK'
<1> SUFFICES ASSUME PlaceOK, RestOK, [Next]_vars
             PROVE  RestOK'
  OBVIOUS
<1> USE DEF programVars, starterVars, bodyVars
<1>1. published' \in Data
  BY DEF Next, StarterStep, BodyStep, ClientStep, vars, PlaceOK, RestOK, Plan, TimerFires,
         SendCancel, ReceiveRefresh, ReceiveCancel, ReceiveRun, TryStart, CopySequence,
         RequestSection, ReceiveDone, CancelSections, Stop, SectionEnds, Call, Update,
         UpdateFails, EndUpdate
<1>2. starter' \in {"plan", "select", "cancel", "quit"} /\ quitting' \in BOOLEAN
  BY ZenonT(40) DEF Next, StarterStep, BodyStep, ClientStep, vars, RestOK, Plan, TimerFires,
         SendCancel, ReceiveRefresh, ReceiveCancel, ReceiveRun, TryStart, CopySequence,
         RequestSection, ReceiveDone, CancelSections, Stop, SectionEnds, Call, Update,
         UpdateFails, EndUpdate
<1> QED
  BY <1>1, <1>2 DEF RestOK

LEMMA RunsInvariant == Spec => [](PlaceOK /\ RunsOK /\ RestOK)
<1>1. Init => PlaceOK /\ RunsOK /\ RestOK
  BY PlaceInit, RunsInit DEF Init, RestOK
<1>2. PlaceOK /\ RunsOK /\ RestOK /\ [Next]_vars => (PlaceOK /\ RunsOK /\ RestOK)'
  BY PlaceStep, RunsStep, RestStep
<1> QED
  BY <1>1, <1>2, PTL DEF Spec

\* Every variable of a program keeps its type; the loop over a sequence stays inside it.
THEOREM ProgramTypes == Spec => []TypeOK
<1>1. PlaceOK /\ RunsOK /\ RestOK => TypeOK
  BY DEF PlaceOK, BodyPlace, RunsOK, ItemsOK, RestOK, TypeOK
<1> QED
  BY <1>1, RunsInvariant, PTL

\* A run that is over has received from each of its section runs, or cancelled it.
THEOREM AllAccountedFor == Spec => []NothingLeftBehind
<1>1. PlaceOK /\ RunsOK /\ RestOK => NothingLeftBehind
  BY DEF RunsOK, RunOK, NothingLeftBehind
<1> QED
  BY <1>1, RunsInvariant, PTL
=============================================================================
