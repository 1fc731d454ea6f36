------------------------- MODULE SectionRunnerProofs -------------------------
(***************************************************************************)
(* Theorems about SectionRunner for any sections, requests, number of      *)
(* runs, ring size and channel capacity.                                   *)
(***************************************************************************)
EXTENDS SectionRunner, SRQueueProofs, FiniteSetTheorems

\* Nil is not a run.
LEMMA NilNotRun == Nil \notin Run
BY ConstantsAssumption DEF Run, ID

\* A run made from a request under a fresh id is a run.
LEMMA RequestedRun ==
  ASSUME NEW req \in Request, NEW id \in ID
  PROVE  [id |-> id, sec |-> req.sec, total |-> req.total, async |-> req.async] \in Run
<1>1. req \in [sec : Section, total : Int, async : BOOLEAN]
  BY ConstantsAssumption
<1> QED
  BY <1>1 DEF Run

\* The slots a cancel removes are slots of the ring that hold a run.
LEMMA RemovedSlots ==
  ASSUME NEW S, NEW q, IsSRQueue(q, S), NEW slots,
         \/ \E sec : slots = WithSection(q, sec)
         \/ slots = All(q)
         \/ \E id : slots = ByID(q, id)
  PROVE  slots \subseteq {i \in Index(q) : q.items[i] \in S}
<1>1. Scanned(q) \subseteq {i \in Index(q) : q.items[i] \in S}
  BY DEF Scanned, Window, IsSRQueue
<1>2. Live(q) \subseteq {i \in Index(q) : q.items[i] \in S}
  BY DEF Live, Window, IsSRQueue
<1> QED
  BY <1>1, <1>2 DEF WithSection, All, ByID

\* The list of removed runs to be told is a list of runs.
LEMMA NoticesType ==
  ASSUME NEW S, IsSRQueue(queue, S), NEW slots,
         slots \subseteq {i \in Index(queue) : queue.items[i] \in S}
  PROVE  /\ DOMAIN Notices(slots) \subseteq Nat
         /\ \A k \in DOMAIN Notices(slots) : Notices(slots)[k] \in S
<1> DEFINE D == {Offset(queue, i) : i \in {j \in slots : queue.items[j].async}}
<1>1. ASSUME NEW i \in slots
      PROVE  Offset(queue, i) \in Nat /\ queue.items[SlotAt(queue, Offset(queue, i))] \in S
  <2>1. i \in Index(queue) /\ queue.items[i] \in S
    OBVIOUS
  <2>2. Offset(queue, i) \in 0 .. queue.len - 1 /\ SlotAt(queue, Offset(queue, i)) = i
    BY <2>1, OffsetType
  <2>3. queue.len \in Nat
    BY DEF IsSRQueue
  <2> QED
    BY <2>1, <2>2, <2>3
<1>2. \A k \in D : k \in Nat /\ queue.items[SlotAt(queue, k)] \in S
  BY <1>1
<1> QED
  BY <1>2 DEF Notices

-----------------------------------------------------------------------------
(* Types.                                                                  *)

\* The parts of TypeOK that RunItem decides.
WaterTypeOK ==
  /\ current \in Run \cup {Nil} /\ left \in Int /\ elapsed \in Int
  /\ armed \in BOOLEAN /\ delay \in Int /\ on \in SUBSET Section /\ onTime \in Int

LEMMA RunItemType ==
  ASSUME TypeOK, NEW r \in Run \cup {Nil}, RunItem(r)
  PROVE  WaterTypeOK'
<1>1. current' \in Run \cup {Nil} /\ elapsed' \in Int /\ onTime' \in Int
  BY DEF RunItem
<1>2. CASE r = Nil
  BY <1>1, <1>2 DEF RunItem, TypeOK, WaterTypeOK
<1>3. CASE r # Nil
  <2>1. r.total \in Int /\ r.sec \in Section
    BY <1>3 DEF Run
  <2> QED
    BY <1>1, <1>3, <2>1 DEF RunItem, TypeOK, WaterTypeOK, Arm, Disarm
<1> QED
  BY <1>2, <1>3

LEMMA NextRunType ==
  ASSUME TypeOK, NextRun
  PROVE  WaterTypeOK' /\ IsSRQueue(queue', Run)
<1>1. Popped(queue) \in Run \cup {Nil} /\ IsSRQueue(Pop(queue), Run)
  BY PopType, NilNotRun DEF TypeOK
<1> QED
  BY <1>1, RunItemType DEF NextRun

LEMMA TypeInit == Init => TypeOK
<1>1. IsSRQueue(NewSRQueue(QueueSize), Run)
  BY ConstantsAssumption, NewSRQueueType
<1>2. DOMAIN NoRuns = {}
  BY DEF NoRuns
<1>3. 0 \in 0 .. MaxRuns
  BY ConstantsAssumption
<1>4. ASSUME Init
      PROVE  /\ done \in [ID -> {"empty", "cancelled", "finished"}]
             /\ sent \in [ID -> Nat]
  BY <1>4 DEF Init
<1>5. <<>> \in Seq(Run) /\ <<>> \in Seq(Section) /\ <<>> \in Seq(ID \cup {IDAll})
      /\ <<>> \in Seq(BOOLEAN)
  OBVIOUS
<1> SUFFICES ASSUME Init
             PROVE  TypeOK
  OBVIOUS
<1>6. /\ nextID \in 0 .. MaxRuns /\ sending \in SUBSET Run /\ waiting \in SUBSET ID
      /\ runCh \in Seq(Run) /\ cancelSecCh \in Seq(Section)
      /\ cancelIDCh \in Seq(ID \cup {IDAll}) /\ pausedCh \in Seq(BOOLEAN)
  BY <1>3, <1>5 DEF Init
<1>7. DOMAIN pending \subseteq Nat /\ \A k \in DOMAIN pending : pending[k] \in Run
  BY <1>2 DEF Init
<1>8. IsSRQueue(queue, Run)
  BY <1>1 DEF Init
<1>9. /\ pc \in {"select", "notify", "handover", "quit"}
      /\ ending \in {"none", "cancelled", "finished"}
      /\ armed \in BOOLEAN /\ delay \in Int
      /\ current \in Run \cup {Nil} /\ paused \in BOOLEAN
      /\ left \in Int /\ elapsed \in Int
      /\ on \in SUBSET Section /\ onTime \in Int
  <2>1. pc = "select" /\ ending = "none" /\ current = Nil /\ on = {}
    BY DEF Init
  <2>2. delay = 0 /\ left = 0 /\ elapsed = 0 /\ onTime = 0
    BY DEF Init
  <2>3. armed \in BOOLEAN
    BY DEF Init
  <2>4. paused \in BOOLEAN
    BY DEF Init
  <2> QED
    BY <2>1, <2>2, <2>3, <2>4
<1> QED
  BY <1>4, <1>6, <1>7, <1>8, <1>9 DEF TypeOK

LEMMA TypeClient == TypeOK /\ ClientStep => TypeOK'
<1> SUFFICES ASSUME TypeOK, ClientStep
             PROVE  TypeOK'
  OBVIOUS
<1> USE DEF TypeOK, runnerVars, doneVars, waterVars, timerVars
<1>1. ASSUME NEW req \in Request, GetNextID(req)
      PROVE  TypeOK'
  <2>1. nextID \in ID /\ nextID + 1 \in 0 .. MaxRuns
    BY <1>1, ConstantsAssumption DEF GetNextID, ID
  <2>2. sending' \in SUBSET Run
    BY <1>1, <2>1, RequestedRun DEF GetNextID
  <2> QED
    BY <1>1, <2>1, <2>2 DEF GetNextID
<1>2. ASSUME NEW r \in sending, SendRun(r)
      PROVE  TypeOK'
  <2>1. r \in Run /\ r.id \in ID
    BY DEF Run
  <2> QED
    BY <1>2, <2>1 DEF SendRun
<1>3. ASSUME NEW sec \in Section, CancelSection(sec)
      PROVE  TypeOK'
  BY <1>3 DEF CancelSection
<1>4. ASSUME NEW id \in ID, CancelID(id)
      PROVE  TypeOK'
  BY <1>4 DEF CancelID
<1>5. ASSUME CancelAll
      PROVE  TypeOK'
  BY <1>5 DEF CancelAll
<1>6. ASSUME NEW id \in ID, CancelOwn(id)
      PROVE  TypeOK'
  BY <1>6 DEF CancelOwn
<1>7. ASSUME Pause
      PROVE  TypeOK'
  BY <1>7 DEF Pause
<1>8. ASSUME Unpause
      PROVE  TypeOK'
  BY <1>8 DEF Unpause
<1>9. ASSUME NEW id \in ID, ReceiveDone(id)
      PROVE  TypeOK'
  BY <1>9 DEF ReceiveDone
<1> QED
  BY <1>1, <1>2, <1>3, <1>4, <1>5, <1>6, <1>7, <1>8, <1>9 DEF ClientStep

\* The channel a handler receives from, and what it received.
LEMMA Received ==
  ASSUME NEW S, NEW ch \in Seq(S), ch # <<>>
  PROVE  Head(ch) \in S /\ Tail(ch) \in Seq(S)
OBVIOUS

LEMMA WithdrawType ==
  ASSUME TypeOK, NEW slots, NEW endCurrent \in BOOLEAN,
         slots \subseteq {i \in Index(queue) : queue.items[i] \in Run},
         Withdraw(slots, endCurrent)
  PROVE  /\ IsSRQueue(queue', Run)
         /\ DOMAIN pending' \subseteq Nat /\ \A k \in DOMAIN pending' : pending'[k] \in Run
         /\ ending' \in {"none", "cancelled", "finished"} /\ pc' = "notify"
         /\ paused' = paused /\ WaterTypeOK'
<1>1. IsSRQueue(queue', Run)
  BY RemoveType DEF TypeOK, Withdraw
<1>2. DOMAIN pending' \subseteq Nat /\ \A k \in DOMAIN pending' : pending'[k] \in Run
  BY NoticesType DEF TypeOK, Withdraw
<1>3. paused' = paused /\ WaterTypeOK'
  BY DEF TypeOK, Withdraw, waterVars, timerVars, WaterTypeOK
<1> QED
  BY <1>1, <1>2, <1>3 DEF Withdraw

LEMMA SendDoneType ==
  ASSUME done \in [ID -> {"empty", "cancelled", "finished"}], sent \in [ID -> Nat],
         NEW id, NEW value \in {"cancelled", "finished"}, SendDone(id, value)
  PROVE  done' \in [ID -> {"empty", "cancelled", "finished"}] /\ sent' \in [ID -> Nat]
<1>1. done' = [done EXCEPT ![id] = value] /\ sent' = [sent EXCEPT ![id] = @ + 1]
  BY DEF SendDone
<1>2. done' \in [ID -> {"empty", "cancelled", "finished"}]
  <2> DEFINE D == {"empty", "cancelled", "finished"}
  <2>1. value \in D /\ done \in [ID -> D]
    OBVIOUS
  <2> HIDE DEF D
  <2>2. [done EXCEPT ![id] = value] \in [ID -> D]
    BY <2>1
  <2> QED
    BY <1>1, <2>2 DEF D
<1>3. sent' \in [ID -> Nat]
  <2>1. sent' = [x \in ID |-> IF x = id THEN sent[id] + 1 ELSE sent[x]]
    BY <1>1
  <2>2. \A x \in ID : sent[x] \in Nat
    OBVIOUS
  <2> QED
    BY <2>1, <2>2
<1> QED
  BY <1>2, <1>3

LEMMA DisarmType ==
  ASSUME Disarm
  PROVE  armed' \in BOOLEAN /\ delay' \in Int
<1>1. armed' \in BOOLEAN
  BY DEF Disarm
<1>2. delay' \in Int
  BY DEF Disarm
<1> QED
  BY <1>1, <1>2

LEMMA BeginFinishType ==
  ASSUME TypeOK, NEW how \in {"cancelled", "finished"}, BeginFinish(how)
  PROVE  /\ armed' \in BOOLEAN /\ delay' \in Int /\ on' \in SUBSET Section
         /\ ending' \in {"cancelled", "finished"} /\ pc' = "handover"
BY DisarmType DEF BeginFinish, TypeOK

LEMMA TypeRunner == TypeOK /\ EndingMatches /\ RunnerStep => TypeOK'
<1> SUFFICES ASSUME TypeOK, EndingMatches, RunnerStep
             PROVE  TypeOK'
  OBVIOUS
<1> USE DEF doneVars, waterVars, timerVars
<1>1. ASSUME HandleRun
      PROVE  TypeOK'
  <2>1. Head(runCh) \in Run /\ runCh' \in Seq(Run)
    BY <1>1, Received DEF HandleRun, TypeOK
  <2>2. WaterTypeOK' /\ IsSRQueue(queue', Run) /\ paused' = paused
    <3>1. CASE current = Nil /\ ~paused
      BY <1>1, <2>1, <3>1, RunItemType DEF HandleRun, TypeOK
    <3>2. CASE current # Nil \/ paused
      BY <1>1, <2>1, <3>2, PushType DEF HandleRun, TypeOK, WaterTypeOK
    <3> QED
      BY <3>1, <3>2
  <2> QED
    BY <1>1, <2>1, <2>2 DEF HandleRun, TypeOK, WaterTypeOK
<1>2. ASSUME HandleCancelSec
      PROVE  TypeOK'
  <2> DEFINE slots == WithSection(queue, Head(cancelSecCh))
             same  == current # Nil /\ current.sec = Head(cancelSecCh)
  <2>1. cancelSecCh' \in Seq(Section)
    BY <1>2, Received DEF HandleCancelSec, TypeOK
  <2>2. slots \subseteq {i \in Index(queue) : queue.items[i] \in Run}
    BY RemovedSlots DEF TypeOK
  <2>3. Withdraw(slots, same)
    BY <1>2 DEF HandleCancelSec
  <2> HIDE DEF slots, same
  <2>4. same \in BOOLEAN
    BY DEF same
  <2>5. /\ IsSRQueue(queue', Run)
        /\ DOMAIN pending' \subseteq Nat /\ \A k \in DOMAIN pending' : pending'[k] \in Run
        /\ ending' \in {"none", "cancelled", "finished"} /\ pc' = "notify"
        /\ paused' = paused /\ WaterTypeOK'
    BY <2>2, <2>3, <2>4, WithdrawType
  <2> QED
    BY <1>2, <2>1, <2>5 DEF HandleCancelSec, TypeOK, WaterTypeOK
<1>3. ASSUME HandleCancelID
      PROVE  TypeOK'
  <2>1. cancelIDCh' \in Seq(ID \cup {IDAll})
    BY <1>3, Received DEF HandleCancelID, TypeOK
  <2>2. PICK slots \in SUBSET {i \in Index(queue) : queue.items[i] \in Run},
             endCurrent \in BOOLEAN : Withdraw(slots, endCurrent)
    <3>1. CASE Withdraw(All(queue), current # Nil)
      <4>1. All(queue) \subseteq {i \in Index(queue) : queue.items[i] \in Run}
        BY RemovedSlots DEF TypeOK
      <4>2. (current # Nil) \in BOOLEAN
        OBVIOUS
      <4> QED
        BY <3>1, <4>1, <4>2
    <3>2. CASE Withdraw(ByID(queue, Head(cancelIDCh)),
                        current # Nil /\ current.id = Head(cancelIDCh))
      <4>1. ByID(queue, Head(cancelIDCh))
              \subseteq {i \in Index(queue) : queue.items[i] \in Run}
        BY RemovedSlots DEF TypeOK
      <4>2. (current # Nil /\ current.id = Head(cancelIDCh)) \in BOOLEAN
        OBVIOUS
      <4> QED
        BY <3>2, <4>1, <4>2
    <3> QED
      BY <1>3, <3>1, <3>2 DEF HandleCancelID
  <2>3. /\ IsSRQueue(queue', Run)
        /\ DOMAIN pending' \subseteq Nat /\ \A k \in DOMAIN pending' : pending'[k] \in Run
        /\ ending' \in {"none", "cancelled", "finished"} /\ pc' = "notify"
        /\ paused' = paused /\ WaterTypeOK'
    BY <2>2, WithdrawType
  <2> QED
    BY <1>3, <2>1, <2>3 DEF HandleCancelID, TypeOK, WaterTypeOK
<1>4. ASSUME HandlePaused
      PROVE  TypeOK'
  <2>1. pausedCh' \in Seq(BOOLEAN) /\ paused' \in BOOLEAN
    BY <1>4, Received DEF HandlePaused, TypeOK
  <2>2. WaterTypeOK' /\ IsSRQueue(queue', Run)
    <3>1. CASE UNCHANGED <<queue, waterVars>>
      BY <3>1 DEF TypeOK, WaterTypeOK
    <3>2. CASE PauseCurrent /\ UNCHANGED queue
      BY <3>2, DisarmType DEF PauseCurrent, Remaining, TypeOK, WaterTypeOK
    <3>3. CASE current # Nil /\ ResumeCurrent /\ UNCHANGED queue
      <4>1. current.sec \in Section
        BY <3>3 DEF TypeOK, Run
      <4> QED
        BY <3>3, <4>1 DEF ResumeCurrent, Restamp, Arm, TypeOK, WaterTypeOK
    <3>4. CASE NextRun
      BY <3>4, NextRunType
    <3> QED
      BY <1>4, <3>1, <3>2, <3>3, <3>4 DEF HandlePaused
  <2> QED
    BY <1>4, <2>1, <2>2 DEF HandlePaused, TypeOK, WaterTypeOK
<1>5. ASSUME HandleTimer
      PROVE  TypeOK'
  <2>1. /\ armed' \in BOOLEAN /\ delay' \in Int /\ on' \in SUBSET Section
        /\ ending' \in {"cancelled", "finished"} /\ pc' = "handover"
    BY <1>5, BeginFinishType DEF HandleTimer
  <2> QED
    BY <1>5, <2>1 DEF HandleTimer, clientVars, TypeOK
<1>6. ASSUME NotifyRemoved
      PROVE  TypeOK'
  <2>1. PICK k \in DOMAIN pending :
          /\ SendDone(pending[k].id, "cancelled")
          /\ pending' = [j \in DOMAIN pending \ {k} |-> pending[j]]
    BY <1>6 DEF NotifyRemoved
  <2>2. done' \in [ID -> {"empty", "cancelled", "finished"}] /\ sent' \in [ID -> Nat]
    BY <2>1, SendDoneType DEF TypeOK
  <2>3. DOMAIN pending' \subseteq Nat /\ \A j \in DOMAIN pending' : pending'[j] \in Run
    BY <2>1 DEF TypeOK
  <2> QED
    BY <1>6, <2>2, <2>3 DEF NotifyRemoved, clientVars, TypeOK
<1>7. ASSUME EndNotify
      PROVE  TypeOK'
  <2>1. /\ armed' \in BOOLEAN /\ delay' \in Int /\ on' \in SUBSET Section
        /\ ending' \in {"none", "cancelled", "finished"} /\ pc' \in {"select", "handover"}
        /\ UNCHANGED <<current, left, elapsed, onTime>>
    <3>1. CASE ending = "none" /\ pc' = "select" /\ UNCHANGED <<ending, waterVars>>
      BY <3>1 DEF TypeOK
    <3>2. CASE BeginFinish("cancelled") /\ UNCHANGED <<current, left, elapsed, onTime>>
      BY <3>2, BeginFinishType
    <3> QED
      BY <1>7, <3>1, <3>2 DEF EndNotify
  <2> QED
    BY <1>7, <2>1 DEF EndNotify, clientVars, TypeOK
<1>8. ASSUME HandOver
      PROVE  TypeOK'
  <2>1. WaterTypeOK' /\ IsSRQueue(queue', Run)
    BY <1>8, NextRunType DEF HandOver
  <2>2. done' \in [ID -> {"empty", "cancelled", "finished"}] /\ sent' \in [ID -> Nat]
    <3>1. CASE UNCHANGED doneVars
      BY <3>1 DEF TypeOK
    <3>2. CASE SendDone(current.id, ending)
      <4>1. ending \in {"cancelled", "finished"}
        BY <1>8 DEF HandOver, EndingMatches, TypeOK
      <4> QED
        BY <3>2, <4>1, SendDoneType DEF TypeOK
    <3> QED
      BY <1>8, <3>1, <3>2 DEF HandOver
  <2> QED
    BY <1>8, <2>1, <2>2 DEF HandOver, clientVars, TypeOK, WaterTypeOK
<1> QED
  BY <1>1, <1>2, <1>3, <1>4, <1>5, <1>6, <1>7, <1>8 DEF RunnerStep

LEMMA TypeStep == TypeOK /\ EndingMatches /\ [Next]_vars => TypeOK'
<1> SUFFICES ASSUME TypeOK, EndingMatches, [Next]_vars
             PROVE  TypeOK'
  OBVIOUS
<1>1. CASE Quit
  BY <1>1 DEF Quit, TypeOK, clientVars, doneVars, waterVars, timerVars
<1>2. CASE Tick
  BY <1>2 DEF Tick, TypeOK, clientVars, doneVars
<1>3. CASE UNCHANGED vars
  BY <1>3 DEF vars, TypeOK, clientVars, doneVars, waterVars, timerVars
<1> QED
  BY <1>1, <1>2, <1>3, TypeClient, TypeRunner DEF Next

-----------------------------------------------------------------------------
(* The goroutine's invariant.                                              *)

LEMMA SafetyInit == Init => SafetyInv
<1> SUFFICES ASSUME Init
             PROVE  SafetyInv
  OBVIOUS
<1>1. pc = "select" /\ ending = "none" /\ current = Nil /\ on = {} /\ ~armed
  BY DEF Init
<1>2. Live(queue) = {}
  BY NewSRQueueType, ConstantsAssumption DEF Init
<1> QED
  BY <1>1, <1>2 DEF SafetyInv, EndingMatches, TimerMatches, ValveInterlock, Watering,
                    TimerArmed, WaterAccounted, FinishedFull, WorkConserving

\* What SafetyInv is about does not change.
LEMMA SafetyUnchanged ==
  SafetyInv /\ UNCHANGED <<pc, ending, queue, paused, waterVars>> => SafetyInv'
BY DEF SafetyInv, EndingMatches, TimerMatches, ValveInterlock, Watering, TimerArmed,
       WaterAccounted, FinishedFull, WorkConserving, waterVars, timerVars

LEMMA SafetyClient == SafetyInv /\ ClientStep => SafetyInv'
<1> SUFFICES ASSUME SafetyInv, ClientStep
             PROVE  UNCHANGED <<pc, ending, queue, paused, waterVars>>
  BY SafetyUnchanged
<1> QED
  BY DEF ClientStep, GetNextID, SendRun, CancelSection, CancelID, CancelAll, CancelOwn,
         Pause, Unpause, ReceiveDone, runnerVars

\* RunItem while the goroutine is at the select, or about to return to it.
LEMMA SafetyRunItem ==
  ASSUME TypeOK, NEW r \in Run \cup {Nil}, RunItem(r), paused' \in BOOLEAN,
         on = {}, ~armed, pc' = "select", ending' = "none",
         r = Nil /\ ~paused' => Live(queue') = {}
  PROVE  SafetyInv'
<1>1. EndingMatches' /\ FinishedFull'
  BY DEF EndingMatches, FinishedFull
<1>2. WorkConserving'
  BY DEF WorkConserving, RunItem
<1>3. CASE r = Nil
  <2>1. current' = Nil /\ ~armed' /\ on' = {}
    BY <1>3 DEF RunItem
  <2> QED
    BY <1>1, <1>2, <2>1 DEF SafetyInv, TimerMatches, ValveInterlock, Watering, TimerArmed,
                            WaterAccounted
<1>4. CASE r # Nil
  <2>1. /\ current' = r /\ r \in Run /\ r.total \in Int
        /\ left' = r.total /\ onTime' = 0 /\ elapsed' = 0
    BY <1>4 DEF RunItem, Run
  <2>2. CASE paused'
    <3>1. ~armed' /\ on' = {}
      BY <1>4, <2>2 DEF RunItem, Disarm
    <3> QED
      BY <1>1, <1>2, <1>4, <2>1, <2>2, <3>1
         DEF SafetyInv, TimerMatches, ValveInterlock, Watering, TimerArmed, WaterAccounted
  <2>3. CASE ~paused'
    <3>1. armed' /\ delay' = r.total /\ on' = {r.sec}
      BY <1>4, <2>3 DEF RunItem, Arm
    <3> QED
      BY <1>1, <1>2, <1>4, <2>1, <2>3, <3>1
         DEF SafetyInv, TimerMatches, ValveInterlock, Watering, TimerArmed, WaterAccounted
  <2> QED
    BY <2>2, <2>3
<1> QED
  BY <1>3, <1>4

LEMMA SafetyNextRun ==
  ASSUME TypeOK, NextRun, paused' \in BOOLEAN,
         on = {}, ~armed, pc' = "select", ending' = "none"
  PROVE  SafetyInv'
<1>1. Popped(queue) \in Run \cup {Nil} /\ (Popped(queue) = Nil => Live(Pop(queue)) = {})
  BY PopType, PopLive, NilNotRun DEF TypeOK
<1>2. RunItem(Popped(queue)) /\ queue' = Pop(queue)
  BY DEF NextRun
<1> QED
  BY <1>1, <1>2, SafetyRunItem

\* A cancel handler up to its first send leaves the water alone.
LEMMA SafetyWithdraw ==
  ASSUME TypeOK, SafetyInv, pc = "select", NEW slots, NEW endCurrent \in BOOLEAN,
         endCurrent => current # Nil, Withdraw(slots, endCurrent)
  PROVE  SafetyInv'
<1>1. Live(queue') \subseteq Live(queue)
  BY RemoveType DEF Withdraw, TypeOK
<1>2. pc' = "notify" /\ ending' = (IF endCurrent THEN "cancelled" ELSE "none")
      /\ UNCHANGED <<paused, current, left, on, armed, delay, elapsed, onTime>>
  BY DEF Withdraw, waterVars, timerVars
<1>3. EndingMatches' /\ FinishedFull'
  BY <1>2 DEF EndingMatches, FinishedFull
<1>4. WorkConserving'
  BY <1>1, <1>2 DEF SafetyInv, WorkConserving
<1> QED
  BY <1>2, <1>3, <1>4
     DEF SafetyInv, TimerMatches, ValveInterlock, Watering, TimerArmed, WaterAccounted

\* The end of a run begins: its valve closes and its timer is dropped.
LEMMA SafetyBeginFinish ==
  ASSUME TypeOK, SafetyInv, current # Nil, pc # "handover",
         NEW how \in {"cancelled", "finished"}, BeginFinish(how),
         how = "finished" => onTime >= current.total,
         UNCHANGED <<queue, paused, current, left, elapsed, onTime>>
  PROVE  SafetyInv'
<1>1. pc' = "handover" /\ ending' = how /\ ~armed'
  BY DEF BeginFinish, Disarm
<1>2. on' = {}
  BY DEF BeginFinish, SafetyInv, ValveInterlock
<1>3. EndingMatches' /\ FinishedFull' /\ WorkConserving'
  BY <1>1 DEF EndingMatches, FinishedFull, WorkConserving
<1> QED
  BY <1>1, <1>2, <1>3
     DEF SafetyInv, TimerMatches, ValveInterlock, Watering, TimerArmed, WaterAccounted

LEMMA SafetyRunner == TypeOK /\ SafetyInv /\ RunnerStep => SafetyInv'
<1> SUFFICES ASSUME TypeOK, SafetyInv, RunnerStep
             PROVE  SafetyInv'
  OBVIOUS
<1>1. ASSUME HandleRun
      PROVE  SafetyInv'
  <2>1. Head(runCh) \in Run /\ pc = "select" /\ pc' = pc /\ ending' = ending
    BY <1>1, Received DEF HandleRun, TypeOK
  <2>2. ending = "none"
    BY <2>1 DEF SafetyInv, EndingMatches
  <2>3. CASE current = Nil /\ ~paused
    <3>1. RunItem(Head(runCh)) /\ paused' = paused /\ Head(runCh) # Nil
      BY <1>1, <2>1, <2>3, NilNotRun DEF HandleRun
    <3>2. on = {} /\ ~armed
      BY <2>3 DEF SafetyInv, ValveInterlock, TimerArmed, Watering
    <3>3. paused' \in BOOLEAN
      BY <3>1 DEF TypeOK
    <3> QED
      BY <2>1, <2>2, <3>1, <3>2, <3>3, SafetyRunItem
  <2>4. CASE current # Nil \/ paused
    <3>1. UNCHANGED <<paused, waterVars, pc, ending>>
      BY <1>1, <2>4 DEF HandleRun
    <3>2. WorkConserving'
      BY <2>4, <3>1 DEF WorkConserving, waterVars
    <3> QED
      BY <3>1, <3>2 DEF SafetyInv, EndingMatches, TimerMatches, ValveInterlock, Watering,
                        TimerArmed, WaterAccounted, FinishedFull, waterVars, timerVars
  <2> QED
    BY <2>3, <2>4
<1>2. ASSUME HandleCancelSec
      PROVE  SafetyInv'
  <2> DEFINE same == current # Nil /\ current.sec = Head(cancelSecCh)
  <2>1. pc = "select" /\ Withdraw(WithSection(queue, Head(cancelSecCh)), same)
    BY <1>2 DEF HandleCancelSec
  <2>2. same \in BOOLEAN /\ (same => current # Nil)
    OBVIOUS
  <2> HIDE DEF same
  <2> QED
    BY <2>1, <2>2, SafetyWithdraw
<1>3. ASSUME HandleCancelID
      PROVE  SafetyInv'
  <2> DEFINE any  == current # Nil
             same == current # Nil /\ current.id = Head(cancelIDCh)
  <2>1. /\ pc = "select"
        /\ Withdraw(All(queue), any) \/ Withdraw(ByID(queue, Head(cancelIDCh)), same)
    BY <1>3 DEF HandleCancelID
  <2>2. /\ any \in BOOLEAN /\ (any => current # Nil)
        /\ same \in BOOLEAN /\ (same => current # Nil)
    OBVIOUS
  <2> HIDE DEF any, same
  <2> QED
    BY <2>1, <2>2, SafetyWithdraw
<1>4. ASSUME HandlePaused
      PROVE  SafetyInv'
  <2>1. /\ pc = "select" /\ pc' = "select" /\ ending' = "none"
        /\ paused \in BOOLEAN /\ paused' \in BOOLEAN
    BY <1>4, Received DEF HandlePaused, TypeOK, SafetyInv, EndingMatches
  <2>2. EndingMatches' /\ FinishedFull'
    BY <2>1 DEF EndingMatches, FinishedFull
  <2>3. CASE paused' = paused /\ UNCHANGED <<queue, waterVars>>
    BY <1>4, <2>3, SafetyUnchanged DEF HandlePaused
  <2>4. CASE ~paused /\ paused' /\ current = Nil /\ UNCHANGED <<queue, waterVars>>
    <3>1. UNCHANGED <<current, left, on, armed, delay, elapsed, onTime>>
      BY <2>4 DEF waterVars, timerVars
    <3> QED
      BY <2>1, <2>2, <2>4, <3>1 DEF SafetyInv, TimerMatches, ValveInterlock, Watering,
                              TimerArmed, WaterAccounted, WorkConserving
  <2>5. CASE ~paused /\ paused' /\ current # Nil /\ PauseCurrent /\ UNCHANGED queue
    <3>1. current' = current /\ ~armed' /\ left' = left - elapsed /\ onTime' = onTime
      BY <2>5 DEF PauseCurrent, Disarm, Remaining
    <3>2. on' = {}
      BY <2>1, <2>5 DEF PauseCurrent, SafetyInv, ValveInterlock, Watering
    <3>3. left - elapsed = current.total - onTime
      BY <2>1, <2>5 DEF SafetyInv, TimerArmed, Watering, TimerMatches, WaterAccounted
    <3> QED
      BY <2>2, <2>5, <3>1, <3>2, <3>3 DEF SafetyInv, TimerMatches, ValveInterlock,
                              Watering, TimerArmed, WaterAccounted, WorkConserving
  <2>6. CASE paused /\ ~paused' /\ current # Nil /\ ResumeCurrent /\ UNCHANGED queue
    <3>1. /\ current' = current /\ armed' /\ delay' = left /\ elapsed' = 0
          /\ left' = left /\ onTime' = onTime
      BY <2>6 DEF ResumeCurrent, Restamp, Arm
    <3>2. on' = {current.sec}
      BY <2>6 DEF ResumeCurrent, SafetyInv, ValveInterlock, Watering
    <3>3. left = current.total - onTime /\ left \in Int
      BY <2>1, <2>6 DEF SafetyInv, WaterAccounted, TypeOK
    <3> QED
      BY <2>1, <2>2, <2>6, <3>1, <3>2, <3>3 DEF SafetyInv, TimerMatches, ValveInterlock,
                              Watering, TimerArmed, WaterAccounted, WorkConserving
  <2>7. CASE paused /\ ~paused' /\ current = Nil /\ NextRun
    <3>1. on = {} /\ ~armed
      BY <2>7 DEF SafetyInv, ValveInterlock, TimerArmed, Watering
    <3> QED
      BY <2>1, <2>7, <3>1, SafetyNextRun
  <2> QED
    BY <1>4, <2>3, <2>4, <2>5, <2>6, <2>7 DEF HandlePaused
<1>5. ASSUME HandleTimer
      PROVE  SafetyInv'
  <2>1. pc = "select" /\ armed /\ delay <= 0 /\ BeginFinish("finished")
        /\ UNCHANGED <<queue, paused, current, left, elapsed, onTime>>
    BY <1>5 DEF HandleTimer, TimerFired
  <2>2. current # Nil /\ onTime >= current.total
    <3>1. current # Nil /\ delay = current.total - onTime
      BY <2>1 DEF SafetyInv, TimerArmed, Watering, WaterAccounted
    <3>2. current.total \in Int /\ onTime \in Int
      BY <3>1 DEF TypeOK, Run
    <3> QED
      BY <2>1, <3>1, <3>2
  <2> QED
    BY <2>1, <2>2, SafetyBeginFinish
<1>6. ASSUME NotifyRemoved
      PROVE  SafetyInv'
  BY <1>6, SafetyUnchanged DEF NotifyRemoved
<1>7. ASSUME EndNotify
      PROVE  SafetyInv'
  <2>1. pc = "notify" /\ UNCHANGED <<queue, paused>>
    BY <1>7 DEF EndNotify
  <2>2. CASE ending = "none" /\ pc' = "select" /\ UNCHANGED <<ending, waterVars>>
    <3>1. UNCHANGED <<current, left, on, armed, delay, elapsed, onTime>>
      BY <2>2 DEF waterVars, timerVars
    <3> QED
      BY <2>1, <2>2, <3>1 DEF SafetyInv, EndingMatches, TimerMatches, ValveInterlock,
              Watering, TimerArmed, WaterAccounted, FinishedFull, WorkConserving
  <2>3. CASE /\ ending = "cancelled" /\ BeginFinish("cancelled")
             /\ UNCHANGED <<current, left, elapsed, onTime>>
    <3>1. current # Nil
      BY <2>1, <2>3 DEF SafetyInv, EndingMatches
    <3> QED
      BY <2>1, <2>3, <3>1, SafetyBeginFinish
  <2> QED
    BY <1>7, <2>2, <2>3 DEF EndNotify
<1>8. ASSUME HandOver
      PROVE  SafetyInv'
  <2>1. pc = "handover" /\ NextRun /\ paused' = paused /\ ending' = "none" /\ pc' = "select"
    BY <1>8 DEF HandOver
  <2>2. on = {} /\ ~armed /\ paused' \in BOOLEAN
    BY <2>1 DEF SafetyInv, ValveInterlock, TimerArmed, Watering, TypeOK
  <2> QED
    BY <2>1, <2>2, SafetyNextRun
<1> QED
  BY <1>1, <1>2, <1>3, <1>4, <1>5, <1>6, <1>7, <1>8 DEF RunnerStep

LEMMA SafetyStep == TypeOK /\ SafetyInv /\ [Next]_vars => SafetyInv'
<1> SUFFICES ASSUME TypeOK, SafetyInv, [Next]_vars
             PROVE  SafetyInv'
  OBVIOUS
<1>1. CASE Quit
  BY <1>1 DEF Quit, SafetyInv, EndingMatches, TimerMatches, ValveInterlock, Watering,
              TimerArmed, WaterAccounted, FinishedFull, WorkConserving, waterVars, timerVars
<1>2. CASE Tick
  <2>1. /\ armed /\ armed' = armed /\ delay' = delay - 1 /\ elapsed' = elapsed + 1
        /\ UNCHANGED <<pc, ending, queue, paused, current, left, on>>
    BY <1>2 DEF Tick
  <2>2. current # Nil /\ ~paused /\ pc # "handover" /\ on = {current.sec}
    BY <2>1 DEF SafetyInv, TimerArmed, Watering, ValveInterlock
  <2>3. onTime' = onTime + 1
    BY <1>2, <2>2 DEF Tick
  <2>4. /\ delay \in Int /\ left \in Int /\ elapsed \in Int /\ onTime \in Int
        /\ current.total \in Int
    BY <2>2 DEF TypeOK, Run
  <2>5. delay = left - elapsed /\ delay = current.total - onTime
    BY <2>1, <2>2 DEF SafetyInv, TimerMatches, WaterAccounted
  <2>6. TimerMatches' /\ WaterAccounted'
    <3>1. delay - 1 = left - (elapsed + 1) /\ delay - 1 = current.total - (onTime + 1)
      BY <2>4, <2>5
    <3>2. delay' = left' - elapsed' /\ delay' = current'.total - onTime' /\ ~paused'
      BY <2>1, <2>2, <2>3, <3>1
    <3> QED
      BY <3>2 DEF TimerMatches, WaterAccounted
  <2> QED
    BY <2>1, <2>2, <2>6 DEF SafetyInv, EndingMatches, ValveInterlock, Watering, TimerArmed,
                            FinishedFull, WorkConserving
<1>3. CASE UNCHANGED vars
  BY <1>3, SafetyUnchanged DEF vars
<1> QED
  BY <1>1, <1>2, <1>3, SafetyClient, SafetyRunner DEF Next

\* Every variable keeps its type (the ring stays a ring), and the inductive
\* invariant of the goroutine holds, whatever clients call and when.
THEOREM RunnerInvariant == Spec => [](TypeOK /\ SafetyInv)
<1>1. Init => TypeOK /\ SafetyInv
  BY TypeInit, SafetyInit
<1>2. TypeOK /\ SafetyInv /\ [Next]_vars => (TypeOK /\ SafetyInv)'
  BY TypeStep, SafetyStep DEF SafetyInv
<1> QED
  BY <1>1, <1>2, PTL DEF Spec

\* Every variable keeps its type.
THEOREM TypeCorrect == Spec => []TypeOK
BY RunnerInvariant, PTL

\* At every moment the open valve is that of the run being watered, and no other.
THEOREM OneValve == Spec => []ValveInterlock
<1>1. SafetyInv => ValveInterlock
  BY DEF SafetyInv
<1> QED
  BY <1>1, RunnerInvariant, PTL

\* A timer runs exactly while a run is watered.
THEOREM TimerFollowsWater == Spec => []TimerArmed
<1>1. SafetyInv => TimerArmed
  BY DEF SafetyInv
<1> QED
  BY <1>1, RunnerInvariant, PTL

\* Over any number of pauses no water time is lost or counted twice.
THEOREM WaterConserved == Spec => []WaterAccounted
<1>1. SafetyInv => WaterAccounted
  BY DEF SafetyInv
<1> QED
  BY <1>1, RunnerInvariant, PTL

\* A run that finishes normally has been watered for all of its TotalDuration.
THEOREM FullRuns == Spec => []FinishedFull
<1>1. SafetyInv => FinishedFull
  BY DEF SafetyInv
<1> QED
  BY <1>1, RunnerInvariant, PTL

\* The runner is never idle, unpaused, with a run in its queue.
THEOREM NeverIdle == Spec => []WorkConserving
<1>1. SafetyInv => WorkConserving
  BY DEF SafetyInv
<1> QED
  BY <1>1, RunnerInvariant, PTL

-----------------------------------------------------------------------------
(* Where runs are.                                                         *)

\* What is in a channel, and that nothing is in it twice.
Members(ch) == {ch[k] : k \in DOMAIN ch}
Once(ch)    == \A k, l \in DOMAIN ch : ch[k] = ch[l] => k = l

\* The runs in line, and the runs that are anywhere.
Queued == DOMAIN LineOf(queue)
Placed == sending \cup Members(runCh) \cup Queued \cup ({current} \ {Nil})

\* Runs keep apart: every run has an id of its own, drawn before the next one, and is
\* in one place.
Apart ==
  /\ \A r \in Placed : r.id < nextID
  /\ \A r, r2 \in Placed : r.id = r2.id => r = r2
  /\ Distinct(queue) /\ Once(runCh)
  /\ sending \cap Members(runCh) = {} /\ (sending \cup Members(runCh)) \cap Queued = {}
  /\ current \notin sending \cup Members(runCh) \cup Queued

LEMMA SendMembers ==
  ASSUME NEW S, NEW ch \in Seq(S), NEW r \in S
  PROVE  /\ Members(Append(ch, r)) = Members(ch) \cup {r}
         /\ Once(ch) /\ r \notin Members(ch) => Once(Append(ch, r))
<1>1. /\ Append(ch, r) \in Seq(S) /\ Len(Append(ch, r)) = Len(ch) + 1
      /\ \A k \in 1 .. Len(ch) : Append(ch, r)[k] = ch[k]
      /\ Append(ch, r)[Len(ch) + 1] = r
  OBVIOUS
<1>2. Len(ch) \in Nat /\ DOMAIN ch = 1 .. Len(ch) /\ DOMAIN Append(ch, r) = 1 .. Len(ch) + 1
  BY <1>1
<1> QED
  BY <1>1, <1>2 DEF Members, Once

LEMMA ReceiveMembers ==
  ASSUME NEW S, NEW ch \in Seq(S), ch # <<>>, Once(ch)
  PROVE  /\ Head(ch) \in Members(ch)
         /\ Members(Tail(ch)) = Members(ch) \ {Head(ch)}
         /\ Once(Tail(ch))
<1>1. /\ Len(ch) \in Nat \ {0} /\ DOMAIN ch = 1 .. Len(ch) /\ Head(ch) = ch[1]
      /\ Tail(ch) \in Seq(S) /\ Len(Tail(ch)) = Len(ch) - 1
      /\ DOMAIN Tail(ch) = 1 .. Len(ch) - 1
  OBVIOUS
<1>2. \A k \in 1 .. Len(ch) - 1 : Tail(ch)[k] = ch[k + 1]
  OBVIOUS
<1>3. ASSUME NEW x
      PROVE  x \in Members(Tail(ch)) <=> x \in Members(ch) /\ x # Head(ch)
  <2>1. x \in Members(Tail(ch)) => x \in Members(ch) /\ x # Head(ch)
    BY <1>1, <1>2 DEF Members, Once
  <2>2. ASSUME NEW k \in DOMAIN ch, x = ch[k], k # 1
        PROVE  x \in Members(Tail(ch))
    <3>1. k - 1 \in 1 .. Len(ch) - 1 /\ Tail(ch)[k - 1] = x
      BY <1>1, <1>2, <2>2
    <3> QED
      BY <1>1, <3>1 DEF Members
  <2> QED
    BY <1>1, <2>1, <2>2 DEF Members
<1>4. Members(Tail(ch)) \subseteq Members(ch) /\ Head(ch) \in Members(ch)
  BY <1>1, <1>3 DEF Members
<1>5. Members(Tail(ch)) = Members(ch) \ {Head(ch)}
  BY <1>3
<1>6. Once(Tail(ch))
  <2>1. \A k, l \in 1 .. Len(ch) - 1 : ch[k + 1] = ch[l + 1] => k + 1 = l + 1
    BY <1>1 DEF Once
  <2> QED
    BY <1>1, <1>2, <2>1 DEF Once
<1> QED
  BY <1>4, <1>5, <1>6

\* The line by the operations of the ring.
LEMMA QueuedType ==
  ASSUME NEW S, NEW q, IsSRQueue(q, S)
  PROVE  DOMAIN LineOf(q) \subseteq S
<1>1. \A i \in Live(q) : q.items[i] \in S
  BY DEF IsSRQueue, Live, Window
<1> QED
  BY <1>1, LineElements DEF InLine

LEMMA QueuedPop ==
  ASSUME NEW S, NEW q, IsSRQueue(q, S), Distinct(q), Nil \notin S
  PROVE  /\ Popped(q) \in DOMAIN LineOf(q) \cup {Nil}
         /\ DOMAIN LineOf(Pop(q)) = DOMAIN LineOf(q) \ {Popped(q)}
         /\ Distinct(Pop(q)) /\ IsSRQueue(Pop(q), S)
<1>1. CASE Live(q) = {}
  <2>1. Live(Pop(q)) = {} /\ Popped(q) = Nil
    BY <1>1, PopLive DEF Popped
  <2> QED
    BY <1>1, <2>1, LineEmpty, PopDistinct, PopType
<1>2. CASE Live(q) # {}
  <2>1. IsFirst(LineOf(q), Popped(q)) /\ LineOf(Pop(q)) = Without(LineOf(q), Popped(q))
    BY <1>2, LinePop
  <2> QED
    BY <2>1, PopDistinct, PopType DEF IsFirst, Without, Keep
<1> QED
  BY <1>1, <1>2

LEMMA QueuedRemove ==
  ASSUME NEW S, NEW q, IsSRQueue(q, S), Distinct(q), NEW slots
  PROVE  /\ DOMAIN LineOf(Remove(q, slots)) \subseteq DOMAIN LineOf(q)
         /\ \A r \in DOMAIN LineOf(q) \ DOMAIN LineOf(Remove(q, slots)) :
              \E i \in Live(q) : i \in slots /\ q.items[i] = r
<1> DEFINE p == Remove(q, slots)
<1>1. Live(p) = Live(q) \ slots
  BY RemoveType
<1>2. \A i \in Live(p) : p.items[i] = q.items[i]
  <2>1. Live(q) \subseteq Index(q)
    BY DEF Live, Window
  <2> QED
    BY <1>1, <2>1 DEF Remove, IsSRQueue
<1> HIDE DEF p
<1>3. DOMAIN LineOf(p) \subseteq DOMAIN LineOf(q)
  BY <1>1, <1>2, LineElements DEF InLine
<1>4. \A r \in DOMAIN LineOf(q) \ DOMAIN LineOf(p) :
        \E i \in Live(q) : i \in slots /\ q.items[i] = r
  BY <1>1, <1>2, LineElements DEF InLine
<1> QED
  BY <1>3, <1>4 DEF p

LEMMA QueuedPush ==
  ASSUME NEW S, NEW q, IsSRQueue(q, S), Distinct(q), Nil \notin S,
         NEW r \in S, r \notin DOMAIN LineOf(q)
  PROVE  DOMAIN LineOf(Push(q, r)) = DOMAIN LineOf(q) \cup {r} /\ Distinct(Push(q, r))
BY LinePush, PushDistinct DEF Join

LEMMA PlacedType == TypeOK => Placed \subseteq Run
<1> SUFFICES ASSUME TypeOK
             PROVE  Placed \subseteq Run
  OBVIOUS
<1>1. Queued \subseteq Run
  BY QueuedType DEF TypeOK, Queued
<1>2. Members(runCh) \subseteq Run
  BY DEF TypeOK, Members
<1> QED
  BY <1>1, <1>2 DEF TypeOK, Placed

\* Nobody draws an id, so it is enough to look at where the runs went.
LEMMA ApartMoved ==
  ASSUME Apart, nextID' = nextID, Placed' \subseteq Placed,
         Distinct(queue)', Once(runCh)',
         (sending \cap Members(runCh) = {})',
         ((sending \cup Members(runCh)) \cap Queued = {})',
         (current \notin sending \cup Members(runCh) \cup Queued)'
  PROVE  Apart'
BY DEF Apart

LEMMA ApartUnchanged ==
  Apart /\ UNCHANGED <<nextID, sending, runCh, queue, current>> => Apart'
BY DEF Apart, Placed, Queued, Members, Once, Distinct

LEMMA ApartInit == Init => Apart
<1> SUFFICES ASSUME Init
             PROVE  Apart
  OBVIOUS
<1>1. Live(queue) = {}
  BY NewSRQueueType, ConstantsAssumption DEF Init
<1>2. Queued = {} /\ Distinct(queue)
  BY <1>1, LineEmpty DEF Queued, Distinct
<1>3. sending = {} /\ Members(runCh) = {} /\ Once(runCh) /\ current = Nil
  BY DEF Init, Members, Once
<1> QED
  BY <1>2, <1>3 DEF Apart, Placed

LEMMA ApartClient == TypeOK /\ Apart /\ ClientStep => Apart'
<1> SUFFICES ASSUME TypeOK, Apart, ClientStep
             PROVE  Apart'
  OBVIOUS
<1>1. ASSUME NEW req \in Request, GetNextID(req)
      PROVE  Apart'
  <2> DEFINE new == [id |-> nextID, sec |-> req.sec, total |-> req.total, async |-> req.async]
  <2>1. /\ sending' = sending \cup {new} /\ nextID' = nextID + 1 /\ nextID \in Nat
        /\ new.id = nextID /\ new \in Run
    <3>1. nextID \in ID
      BY <1>1, ConstantsAssumption DEF GetNextID, TypeOK, ID
    <3> QED
      BY <1>1, <3>1, RequestedRun DEF GetNextID, ID
  <2> HIDE DEF new
  <2>2. UNCHANGED <<runCh, queue, current>>
    BY <1>1 DEF GetNextID, runnerVars, waterVars
  <2>3. /\ Members(runCh)' = Members(runCh) /\ Queued' = Queued
        /\ Distinct(queue)' /\ Once(runCh)'
    BY <2>2 DEF Apart, Members, Queued, Distinct, Once
  <2>4. new \notin Placed
    BY <2>1 DEF Apart
  <2>5. Placed' = Placed \cup {new}
    BY <2>1, <2>2, <2>3 DEF Placed
  <2>6. \A r \in Placed : r.id \in Int
    BY PlacedType DEF Run, ID
  <2>7. \A r \in Placed' : r.id < nextID'
    BY <2>1, <2>5, <2>6 DEF Apart
  <2>8. \A r, r2 \in Placed' : r.id = r2.id => r = r2
    BY <2>1, <2>5, <2>6 DEF Apart
  <2>9. new # Nil
    BY <2>1, NilNotRun
  <2>10. /\ (sending \cap Members(runCh) = {})'
         /\ ((sending \cup Members(runCh)) \cap Queued = {})'
         /\ (current \notin sending \cup Members(runCh) \cup Queued)'
    BY <2>1, <2>2, <2>3, <2>4, <2>9 DEF Apart, Placed
  <2> QED
    BY <2>3, <2>7, <2>8, <2>10 DEF Apart
<1>2. ASSUME NEW r \in sending, SendRun(r)
      PROVE  Apart'
  <2>1. /\ runCh' = Append(runCh, r) /\ sending' = sending \ {r} /\ runCh \in Seq(Run)
        /\ UNCHANGED <<nextID, queue, current>> /\ r \in Run
    BY <1>2 DEF SendRun, runnerVars, waterVars, TypeOK
  <2>2. Members(runCh') = Members(runCh) \cup {r} /\ Once(runCh')
    BY <2>1, SendMembers DEF Apart
  <2>3. Queued' = Queued /\ Distinct(queue)' /\ Members(runCh)' = Members(runCh')
        /\ Once(runCh)'
    BY <2>1, <2>2 DEF Apart, Queued, Distinct, Members, Once
  <2>4. Placed' = Placed
    BY <2>1, <2>2, <2>3 DEF Placed
  <2> QED
    BY <2>1, <2>2, <2>3, <2>4, ApartMoved DEF Apart
<1>3. CASE UNCHANGED <<nextID, sending, runCh, queue, current>>
  BY <1>3, ApartUnchanged
<1> QED
  BY <1>1, <1>2, <1>3 DEF ClientStep, CancelSection, CancelID, CancelAll, CancelOwn, Pause,
     Unpause, ReceiveDone, runnerVars, waterVars

\* The next run comes out of the line; it replaces one that ends, or none.
LEMMA ApartNextRun ==
  ASSUME TypeOK, Apart, NextRun, UNCHANGED <<nextID, sending, runCh>>
  PROVE  Apart'
<1>1. /\ Popped(queue) \in Queued \cup {Nil}
      /\ Queued' = Queued \ {Popped(queue)} /\ Distinct(queue)'
      /\ current' = Popped(queue)
  <2>1. IsSRQueue(queue, Run) /\ Distinct(queue) /\ queue' = Pop(queue)
    BY DEF TypeOK, Apart, NextRun
  <2>2. Distinct(queue') /\ Popped(queue) \in DOMAIN LineOf(queue) \cup {Nil}
        /\ DOMAIN LineOf(queue') = DOMAIN LineOf(queue) \ {Popped(queue)}
    BY <2>1, QueuedPop, NilNotRun
  <2> QED
    BY <2>2 DEF NextRun, RunItem, Queued, Distinct
<1>2. Members(runCh)' = Members(runCh) /\ Once(runCh)' /\ sending' = sending
  BY DEF Apart, Members, Once
<1>3. Placed' \subseteq Placed
  BY <1>1, <1>2 DEF Placed
<1>4. Nil \notin sending \cup Members(runCh) \cup Queued
  BY NilNotRun, QueuedType DEF TypeOK, Members, Queued
<1> QED
  BY <1>1, <1>2, <1>3, <1>4, ApartMoved DEF Apart

\* A removal only takes runs away.
LEMMA ApartWithdraw ==
  ASSUME TypeOK, Apart, NEW slots, NEW endCurrent, Withdraw(slots, endCurrent),
         UNCHANGED <<nextID, sending, runCh>>
  PROVE  Apart'
<1>1. queue' = Remove(queue, slots) /\ current' = current
      /\ IsSRQueue(queue, Run) /\ Distinct(queue)
  BY DEF Withdraw, waterVars, TypeOK, Apart
<1>2. Queued' \subseteq Queued /\ Distinct(queue)'
  <2>1. Distinct(queue') /\ DOMAIN LineOf(queue') \subseteq DOMAIN LineOf(queue)
    BY <1>1, QueuedRemove, RemoveDistinct
  <2> QED
    BY <2>1 DEF Queued, Distinct
<1>3. Members(runCh)' = Members(runCh) /\ Once(runCh)'
  BY DEF Apart, Members, Once
<1>4. Placed' \subseteq Placed
  BY <1>1, <1>2, <1>3 DEF Placed
<1> QED
  BY <1>1, <1>2, <1>3, <1>4, ApartMoved DEF Apart

LEMMA ApartRunner == TypeOK /\ Apart /\ RunnerStep => Apart'
<1> SUFFICES ASSUME TypeOK, Apart, RunnerStep
             PROVE  Apart'
  OBVIOUS
<1>1. ASSUME HandleRun
      PROVE  Apart'
  <2> DEFINE r == Head(runCh)
  <2>1. /\ r \in Members(runCh) /\ r \in Run
        /\ Members(runCh)' = Members(runCh) \ {r} /\ Once(runCh)'
    <3>1. runCh \in Seq(Run) /\ runCh # <<>> /\ Once(runCh) /\ runCh' = Tail(runCh)
      BY <1>1 DEF HandleRun, TypeOK, Apart
    <3>2. r \in Members(runCh) /\ Members(runCh') = Members(runCh) \ {r} /\ Once(runCh')
      BY <3>1, ReceiveMembers
    <3> QED
      BY <3>1, <3>2, Received DEF Members, Once
  <2>2. UNCHANGED <<nextID, sending>>
    BY <1>1 DEF HandleRun
  <2> HIDE DEF r
  <2>3. CASE current = Nil /\ ~paused
    <3>1. current' = r /\ queue' = queue
      BY <1>1, <2>3 DEF HandleRun, RunItem, r
    <3>2. Queued' = Queued /\ Distinct(queue)'
      BY <3>1 DEF Queued, Distinct, Apart
    <3>3. Placed' \subseteq Placed
      BY <2>1, <2>2, <3>1, <3>2 DEF Placed
    <3> QED
      BY <2>1, <2>2, <3>1, <3>2, <3>3, ApartMoved DEF Apart
  <2>4. CASE current # Nil \/ paused
    <3>1. current' = current /\ queue' = Push(queue, r)
      BY <1>1, <2>4 DEF HandleRun, waterVars, r
    <3>2. IsSRQueue(queue, Run) /\ Distinct(queue) /\ r \notin DOMAIN LineOf(queue)
      BY <2>1 DEF TypeOK, Apart, Queued
    <3>3. DOMAIN LineOf(queue') = DOMAIN LineOf(queue) \cup {r} /\ Distinct(queue')
      BY <2>1, <3>1, <3>2, NilNotRun, QueuedPush
    <3>4. Queued' = Queued \cup {r} /\ Distinct(queue)'
      BY <3>3 DEF Queued, Distinct
    <3>5. Placed' \subseteq Placed
      BY <2>1, <2>2, <3>1, <3>4 DEF Placed
    <3> QED
      BY <2>1, <2>2, <3>1, <3>4, <3>5, ApartMoved DEF Apart
  <2> QED
    BY <2>3, <2>4
<1>2. CASE HandleCancelSec
  BY <1>2, ApartWithdraw DEF HandleCancelSec
<1>3. CASE HandleCancelID
  BY <1>3, ApartWithdraw DEF HandleCancelID
<1>4. ASSUME HandlePaused
      PROVE  Apart'
  <2>1. CASE NextRun
    BY <1>4, <2>1, ApartNextRun DEF HandlePaused
  <2>2. CASE UNCHANGED <<queue, current>>
    BY <1>4, <2>2, ApartUnchanged DEF HandlePaused
  <2> QED
    BY <1>4, <2>1, <2>2 DEF HandlePaused, PauseCurrent, ResumeCurrent, waterVars
<1>5. CASE HandleTimer \/ NotifyRemoved \/ EndNotify
  BY <1>5, ApartUnchanged DEF HandleTimer, NotifyRemoved, EndNotify, clientVars, waterVars
<1>6. CASE HandOver
  BY <1>6, ApartNextRun DEF HandOver, clientVars
<1> QED
  BY <1>1, <1>2, <1>3, <1>4, <1>5, <1>6 DEF RunnerStep

LEMMA ApartStep == TypeOK /\ Apart /\ [Next]_vars => Apart'
<1>1. Apart /\ (Quit \/ Tick \/ UNCHANGED vars) => Apart'
  BY ApartUnchanged DEF Quit, Tick, vars, clientVars, waterVars
<1> QED
  BY <1>1, ApartClient, ApartRunner DEF Next

\* Runs keep apart, whatever clients call and when.
THEOREM RunsApart == Spec => []Apart
<1>1. TypeOK /\ Apart /\ [Next]_vars => Apart'
  BY ApartStep
<1> QED
  BY <1>1, ApartInit, TypeCorrect, PTL DEF Spec

LEMMA AtMostOne ==
  ASSUME NEW T, \A x, y \in T : x = y
  PROVE  Cardinality(T) <= 1
<1>1. CASE T = {}
  BY <1>1, FS_EmptySet
<1>2. CASE T # {}
  <2>1. PICK x \in T : TRUE
    BY <1>2
  <2>2. T = {x}
    BY <2>1
  <2>3. Cardinality({x}) = 1
    BY FS_Singleton
  <2> QED
    BY <2>2, <2>3
<1> QED
  BY <1>1, <1>2

\* The places of an id are those of the one run that has it.
LEMMA PlacesApart == TypeOK /\ Apart => RunInOnePlace
<1> SUFFICES ASSUME TypeOK, Apart, NEW id \in ID
             PROVE  Cardinality(PlacesOf(id)) <= 1
  BY DEF RunInOnePlace
<1> DEFINE A == {<<"sending", r.id>> : r \in {r \in sending : r.id = id}}
           B == {<<"run", k>> : k \in {k \in DOMAIN runCh : runCh[k].id = id}}
           C == {<<"queue", i>> : i \in {i \in Live(queue) : queue.items[i].id = id}}
           D == {<<"current", r.id>> : r \in {r \in {current} \ {Nil} : r.id = id}}
<1>1. /\ \A k \in DOMAIN runCh : runCh[k] \in Members(runCh)
      /\ \A i \in Live(queue) : queue.items[i] \in Queued
  BY LineElements DEF Members, Queued, InLine
<1>2. /\ A # {} => \E r \in sending : r.id = id
      /\ B # {} => \E r \in Members(runCh) : r.id = id
      /\ C # {} => \E r \in Queued : r.id = id
      /\ D # {} => current # Nil /\ current.id = id
  BY <1>1
<1>3. \A r, r2 \in Placed : r.id = id /\ r2.id = id => r = r2
  BY DEF Apart
<1>4. /\ A # {} => B = {} /\ C = {} /\ D = {}
      /\ B # {} => C = {} /\ D = {}
      /\ C # {} => D = {}
  BY <1>2, <1>3 DEF Apart, Placed
<1>5. \A x, y \in A : x = y
  OBVIOUS
<1>6. \A x, y \in B : x = y
  <2>1. \A k, l \in DOMAIN runCh : runCh[k].id = id /\ runCh[l].id = id => k = l
    BY <1>1, <1>3 DEF Apart, Placed, Once
  <2> QED
    BY <2>1
<1>7. \A x, y \in C : x = y
  <2>1. \A i, j \in Live(queue) :
          queue.items[i].id = id /\ queue.items[j].id = id => i = j
    BY <1>1, <1>3 DEF Apart, Placed, Distinct
  <2> QED
    BY <2>1
<1>8. \A x, y \in D : x = y
  OBVIOUS
<1>9. PlacesOf(id) = A \cup B \cup C \cup D
  BY DEF PlacesOf
<1> HIDE DEF A, B, C, D
<1>10. \A x, y \in PlacesOf(id) : x = y
  BY <1>4, <1>5, <1>6, <1>7, <1>8, <1>9
<1> QED
  BY <1>10, AtMostOne

\* No run is in two places at once, so none is watered twice.
THEOREM OnePlace == Spec => []RunInOnePlace
BY PlacesApart, RunsApart, TypeCorrect, PTL

-----------------------------------------------------------------------------
(* Who is waiting for an answer.                                           *)

\* Removed runs are told before the goroutine does anything else; who waits has sent
\* an asynchronous run, and it is somewhere, or about to be told, or has answered.
Awaited ==
  /\ pc # "notify" => DOMAIN pending = {}
  /\ \A id \in waiting : id < nextID
  /\ \A r \in sending : r.id \notin waiting
  /\ \A r \in Placed : r.id \in waiting => r.async
  /\ \A id \in waiting :
       \/ \E r \in Placed : r.id = id
       \/ \E k \in DOMAIN pending : pending[k].id = id
       \/ done[id] # "empty"

LEMMA AwaitedForgotten == Awaited => NoReceiverForgotten
<1> SUFFICES ASSUME Awaited, NEW id \in waiting, NEW r \in Placed, r.id = id
             PROVE  PlacesOf(id) # {}
  BY DEF Awaited, NoReceiverForgotten
<1>1. CASE r \in sending
  BY <1>1 DEF PlacesOf
<1>2. CASE r \in Members(runCh)
  BY <1>2, ZenonT(40) DEF PlacesOf, Members
<1>3. CASE r \in Queued
  <2>1. \E i \in Live(queue) : queue.items[i].id = id
    BY <1>3, LineElements DEF Queued, InLine
  <2> QED
    BY <2>1 DEF PlacesOf
<1>4. CASE r \in {current} \ {Nil}
  BY <1>4 DEF PlacesOf
<1> QED
  BY <1>1, <1>2, <1>3, <1>4 DEF Placed

LEMMA AwaitedInit == Init => Awaited
BY DEF Init, Awaited, NoRuns, Placed

\* Runs only move, and nobody begins or ends to wait.
LEMMA AwaitedMoved ==
  ASSUME Awaited, UNCHANGED <<waiting, nextID>>,
         sending' \subseteq sending, Placed' \subseteq Placed,
         pc' # "notify" => DOMAIN pending' = {},
         \A id \in waiting :
           \/ \E r \in Placed' : r.id = id
           \/ \E k \in DOMAIN pending' : pending'[k].id = id
           \/ done'[id] # "empty"
  PROVE  Awaited'
BY DEF Awaited

LEMMA AwaitedUnchanged ==
  ASSUME Awaited, UNCHANGED <<waiting, nextID, sending, runCh, queue, current, pending, done>>,
         pc' = "notify" => pc = "notify", pc = "notify" => pc' = "notify" \/ DOMAIN pending = {}
  PROVE  Awaited'
<1>1. Placed' = Placed
  BY DEF Placed, Members, Queued
<1> QED
  BY <1>1, AwaitedMoved DEF Awaited

LEMMA AwaitedClient == TypeOK /\ Apart /\ Awaited /\ ClientStep => Awaited'
<1> SUFFICES ASSUME TypeOK, Apart, Awaited, ClientStep
             PROVE  Awaited'
  OBVIOUS
<1>1. ASSUME NEW req \in Request, GetNextID(req)
      PROVE  Awaited'
  <2> DEFINE new == [id |-> nextID, sec |-> req.sec, total |-> req.total, async |-> req.async]
  <2>1. /\ sending' = sending \cup {new} /\ nextID' = nextID + 1 /\ new.id = nextID
        /\ UNCHANGED <<runCh, waiting, queue, current, pending, done, pc>>
    BY <1>1 DEF GetNextID, runnerVars, waterVars, doneVars
  <2>2. nextID \in Int /\ waiting \subseteq Int
    BY ConstantsAssumption DEF TypeOK, ID
  <2>3. nextID \notin waiting /\ \A id \in waiting : id < nextID'
    BY <2>1, <2>2 DEF Awaited
  <2> HIDE DEF new
  <2>4. Placed' = Placed \cup {new}
    BY <2>1 DEF Placed, Members, Queued
  <2> QED
    BY <2>1, <2>3, <2>4 DEF Awaited
<1>2. ASSUME NEW r \in sending, SendRun(r)
      PROVE  Awaited'
  <2>1. /\ runCh' = Append(runCh, r) /\ sending' = sending \ {r} /\ runCh \in Seq(Run)
        /\ waiting' = (IF r.async THEN waiting \cup {r.id} ELSE waiting)
        /\ UNCHANGED <<nextID, queue, current, pending, done, pc>> /\ r \in Run
    BY <1>2 DEF SendRun, runnerVars, waterVars, doneVars, TypeOK
  <2>2. Members(runCh') = Members(runCh) \cup {r}
    BY <2>1, SendMembers
  <2>3. Members(runCh)' = Members(runCh') /\ Queued' = Queued
    BY <2>1 DEF Members, Queued
  <2>4. Placed' = Placed /\ r \in Placed
    BY <2>1, <2>2, <2>3 DEF Placed
  <2>5. \A r2 \in Placed : r2.id = r.id => r2 = r
    BY <2>4 DEF Apart
  <2>6. \A r2 \in sending' : r2.id \notin waiting'
    BY <2>1, <2>5 DEF Awaited, Placed
  <2>7. \A r2 \in Placed' : r2.id \in waiting' => r2.async
    BY <2>1, <2>4, <2>5 DEF Awaited
  <2>8. \A id \in waiting' : id < nextID'
    BY <2>1, <2>4 DEF Awaited, Apart
  <2> QED
    BY <2>1, <2>4, <2>6, <2>7, <2>8 DEF Awaited
<1>3. ASSUME NEW id \in ID, CancelOwn(id)
      PROVE  Awaited'
  <2>1. /\ waiting' = waiting \ {id}
        /\ UNCHANGED <<nextID, sending, runCh, queue, current, pending, done, pc>>
    BY <1>3 DEF CancelOwn, runnerVars, waterVars, doneVars
  <2>2. Placed' = Placed
    BY <2>1 DEF Placed, Members, Queued
  <2> QED
    BY <2>1, <2>2 DEF Awaited
<1>4. ASSUME NEW id \in ID, ReceiveDone(id)
      PROVE  Awaited'
  <2>1. /\ waiting' = waiting \ {id} /\ done' = [done EXCEPT ![id] = "empty"]
        /\ UNCHANGED <<nextID, sending, runCh, queue, current, pending, pc>>
    BY <1>4 DEF ReceiveDone, runnerVars, waterVars
  <2>2. Placed' = Placed
    BY <2>1 DEF Placed, Members, Queued
  <2>3. \A id2 \in waiting' : done'[id2] = done[id2]
    BY <2>1 DEF TypeOK
  <2> QED
    BY <2>1, <2>2, <2>3 DEF Awaited
<1>5. CASE UNCHANGED <<waiting, nextID, sending, runCh, queue, current, pending, done, pc>>
  BY <1>5, AwaitedUnchanged
<1> QED
  BY <1>1, <1>2, <1>3, <1>4, <1>5 DEF ClientStep, CancelSection, CancelID, CancelAll, Pause,
     Unpause, runnerVars, waterVars, doneVars

\* A cancel handler lists whoever waits for a run that it removes.
LEMMA AwaitedWithdraw ==
  ASSUME TypeOK, Apart, Awaited, NEW slots, NEW endCurrent, Withdraw(slots, endCurrent),
         slots \subseteq {i \in Index(queue) : queue.items[i] \in Run}, pc = "select",
         UNCHANGED <<nextID, sending, runCh, waiting, done>>
  PROVE  Awaited'
<1>1. /\ queue' = Remove(queue, slots) /\ pending' = Notices(slots) /\ pc' = "notify"
      /\ current' = current /\ IsSRQueue(queue, Run) /\ Distinct(queue)
  BY DEF Withdraw, waterVars, TypeOK, Apart
<1>2. /\ Queued' \subseteq Queued
      /\ \A r \in Queued \ Queued' : \E i \in Live(queue) : i \in slots /\ queue.items[i] = r
  <2>1. /\ DOMAIN LineOf(queue') \subseteq DOMAIN LineOf(queue)
        /\ \A r \in DOMAIN LineOf(queue) \ DOMAIN LineOf(queue') :
             \E i \in Live(queue) : i \in slots /\ queue.items[i] = r
    BY <1>1, QueuedRemove
  <2> QED
    BY <2>1 DEF Queued
<1>3. Placed' \subseteq Placed /\ Placed \ Placed' \subseteq Queued \ Queued'
  BY <1>1, <1>2 DEF Placed, Members
<1>4. ASSUME NEW i \in slots, queue.items[i].async
      PROVE  \E k \in DOMAIN pending' : pending'[k] = queue.items[i]
  <2>1. i \in Index(queue) /\ SlotAt(queue, Offset(queue, i)) = i
    BY <1>1, OffsetType
  <2> DEFINE k == Offset(queue, i)
  <2>2. k \in DOMAIN Notices(slots) /\ Notices(slots)[k] = queue.items[i]
    BY <1>4, <2>1 DEF Notices
  <2> QED
    BY <1>1, <2>2
<1>5. ASSUME NEW id \in waiting
      PROVE  \/ \E r \in Placed' : r.id = id
             \/ \E k \in DOMAIN pending' : pending'[k].id = id
             \/ done'[id] # "empty"
  <2>1. CASE \E k \in DOMAIN pending : pending[k].id = id
    BY <2>1 DEF Awaited
  <2>2. CASE \E r \in Placed : r.id = id
    <3>1. PICK r \in Placed : r.id = id
      BY <2>2
    <3>2. r.async
      BY <3>1 DEF Awaited
    <3>3. CASE r \in Placed'
      BY <3>1, <3>3
    <3>4. CASE r \notin Placed'
      <4>1. PICK i \in Live(queue) : i \in slots /\ queue.items[i] = r
        BY <1>2, <1>3, <3>4
      <4> QED
        BY <1>4, <3>1, <3>2, <4>1
    <3> QED
      BY <3>3, <3>4
  <2> QED
    BY <2>1, <2>2 DEF Awaited
<1> QED
  BY <1>1, <1>3, <1>5, AwaitedMoved

\* The next run comes out of the line; who waits for the run that ends, if one does, has
\* its answer.
LEMMA AwaitedNextRun ==
  ASSUME TypeOK, Apart, Awaited, NextRun, pc # "notify",
         UNCHANGED <<nextID, sending, runCh, waiting, pending>>, pc' = "select",
         \A id \in waiting : done[id] # "empty" => done'[id] # "empty",
         current # Nil /\ current.async => done'[current.id] # "empty"
  PROVE  Awaited'
<1>1. /\ current' = Popped(queue) /\ Popped(queue) \in Queued \cup {Nil}
      /\ Queued' = Queued \ {Popped(queue)}
  <2>1. IsSRQueue(queue, Run) /\ Distinct(queue) /\ queue' = Pop(queue)
    BY DEF TypeOK, Apart, NextRun
  <2>2. /\ Popped(queue) \in DOMAIN LineOf(queue) \cup {Nil}
        /\ DOMAIN LineOf(queue') = DOMAIN LineOf(queue) \ {Popped(queue)}
    BY <2>1, QueuedPop, NilNotRun
  <2> QED
    BY <2>2 DEF NextRun, RunItem, Queued
<1>2. Members(runCh)' = Members(runCh) /\ sending' = sending
  BY DEF Members
<1>3. Nil \notin Queued
  BY NilNotRun, QueuedType DEF TypeOK, Queued
<1>4. Placed' \subseteq Placed /\ Placed \ Placed' \subseteq {current} \ {Nil}
  BY <1>1, <1>2, <1>3 DEF Placed
<1>5. DOMAIN pending = {} /\ pending' = pending /\ pc' # "notify"
  BY DEF Awaited
<1>6. ASSUME NEW id \in waiting
      PROVE  (\E r \in Placed' : r.id = id) \/ done'[id] # "empty"
  <2>1. CASE \E r \in Placed : r.id = id
    <3>1. PICK r \in Placed : r.id = id
      BY <2>1
    <3>2. r.async
      BY <3>1 DEF Awaited
    <3> QED
      BY <1>4, <3>1, <3>2
  <2>2. CASE done[id] # "empty"
    BY <2>2
  <2> QED
    BY <1>5, <2>1, <2>2 DEF Awaited
<1> QED
  BY <1>2, <1>4, <1>5, <1>6, AwaitedMoved

LEMMA AwaitedRunner ==
  TypeOK /\ EndingMatches /\ Apart /\ Awaited /\ RunnerStep => Awaited'
<1> SUFFICES ASSUME TypeOK, EndingMatches, Apart, Awaited, RunnerStep
             PROVE  Awaited'
  OBVIOUS
<1>1. ASSUME HandleRun
      PROVE  Awaited'
  <2> DEFINE r == Head(runCh)
  <2>1. /\ UNCHANGED <<nextID, sending, waiting, done, pc, pending>>
        /\ pc = "select"
    BY <1>1 DEF HandleRun, doneVars
  <2>2. runCh \in Seq(Run) /\ runCh # <<>> /\ Once(runCh) /\ runCh' = Tail(runCh)
    BY <1>1 DEF HandleRun, TypeOK, Apart
  <2>3. r \in Members(runCh) /\ Members(runCh)' = Members(runCh) \ {r} /\ r \in Run
    <3>1. r \in Members(runCh) /\ Members(runCh') = Members(runCh) \ {r}
      BY <2>2, ReceiveMembers
    <3> QED
      BY <2>2, <3>1, Received DEF Members
  <2>4. r # Nil
    BY <2>3, NilNotRun
  <2> HIDE DEF r
  <2>5. Placed' = Placed
    <3>1. CASE current = Nil /\ ~paused
      <4>1. current' = r /\ queue' = queue
        BY <1>1, <3>1 DEF HandleRun, RunItem, r
      <4> QED
        BY <2>1, <2>3, <2>4, <3>1, <4>1 DEF Placed, Queued
    <3>2. CASE current # Nil \/ paused
      <4>1. current' = current /\ queue' = Push(queue, r)
        BY <1>1, <3>2 DEF HandleRun, waterVars, r
      <4>2. DOMAIN LineOf(queue') = DOMAIN LineOf(queue) \cup {r}
        <5>1. IsSRQueue(queue, Run) /\ Distinct(queue) /\ r \notin DOMAIN LineOf(queue)
          BY <2>3 DEF TypeOK, Apart, Queued
        <5> QED
          BY <2>3, <4>1, <5>1, NilNotRun, QueuedPush
      <4> QED
        BY <2>1, <2>3, <4>1, <4>2 DEF Placed, Queued
    <3> QED
      BY <3>1, <3>2
  <2> QED
    BY <2>1, <2>5 DEF Awaited
<1>2. ASSUME HandleCancelSec
      PROVE  Awaited'
  <2> DEFINE slots == WithSection(queue, Head(cancelSecCh))
             same  == current # Nil /\ current.sec = Head(cancelSecCh)
  <2>1. slots \subseteq {i \in Index(queue) : queue.items[i] \in Run}
    BY RemovedSlots DEF TypeOK
  <2>2. /\ pc = "select" /\ Withdraw(slots, same)
        /\ UNCHANGED <<nextID, sending, runCh, waiting, done>>
    BY <1>2 DEF HandleCancelSec, doneVars
  <2> HIDE DEF slots, same
  <2> QED
    BY <2>1, <2>2, AwaitedWithdraw
<1>3. ASSUME HandleCancelID
      PROVE  Awaited'
  <2>1. /\ pc = "select" /\ UNCHANGED <<nextID, sending, runCh, waiting, done>>
        /\ \/ Withdraw(All(queue), current # Nil)
           \/ Withdraw(ByID(queue, Head(cancelIDCh)),
                       current # Nil /\ current.id = Head(cancelIDCh))
    BY <1>3 DEF HandleCancelID, doneVars
  <2>2. /\ All(queue) \subseteq {i \in Index(queue) : queue.items[i] \in Run}
        /\ ByID(queue, Head(cancelIDCh)) \subseteq {i \in Index(queue) : queue.items[i] \in Run}
    BY RemovedSlots DEF TypeOK
  <2> QED
    BY <2>1, <2>2, AwaitedWithdraw
<1>4. ASSUME HandlePaused
      PROVE  Awaited'
  <2>1. /\ UNCHANGED <<nextID, sending, runCh, waiting, done, pc, pending>> /\ pc = "select"
    BY <1>4 DEF HandlePaused, doneVars
  <2>2. CASE current = Nil /\ NextRun
    BY <2>1, <2>2, AwaitedNextRun
  <2>3. CASE UNCHANGED <<queue, current>>
    BY <2>1, <2>3, AwaitedUnchanged
  <2> QED
    BY <1>4, <2>2, <2>3 DEF HandlePaused, PauseCurrent, ResumeCurrent, waterVars
<1>5. ASSUME HandleTimer
      PROVE  Awaited'
  BY <1>5, AwaitedUnchanged DEF HandleTimer, BeginFinish, clientVars, doneVars
<1>6. ASSUME NotifyRemoved
      PROVE  Awaited'
  <2>1. PICK k \in DOMAIN pending :
          /\ SendDone(pending[k].id, "cancelled")
          /\ pending' = [j \in DOMAIN pending \ {k} |-> pending[j]]
    BY <1>6 DEF NotifyRemoved
  <2>2. /\ UNCHANGED <<nextID, sending, runCh, waiting, queue, current, pc>> /\ pc = "notify"
    BY <1>6 DEF NotifyRemoved, clientVars, waterVars
  <2>3. Placed' = Placed
    BY <2>2 DEF Placed, Members, Queued
  <2>4. \A id \in ID : done'[id] = IF id = pending[k].id THEN "cancelled" ELSE done[id]
    BY <2>1 DEF SendDone, TypeOK
  <2>5. waiting \subseteq ID
    BY DEF TypeOK
  <2>6. /\ DOMAIN pending' = DOMAIN pending \ {k}
        /\ \A j \in DOMAIN pending' : pending'[j] = pending[j]
    BY <2>1
  <2>7. \A id \in waiting :
           \/ \E r \in Placed' : r.id = id
           \/ \E j \in DOMAIN pending' : pending'[j].id = id
           \/ done'[id] # "empty"
    BY <2>3, <2>4, <2>5, <2>6 DEF Awaited
  <2> QED
    BY <2>2, <2>3, <2>7, AwaitedMoved
<1>7. ASSUME EndNotify
      PROVE  Awaited'
  BY <1>7, AwaitedUnchanged DEF EndNotify, BeginFinish, clientVars, doneVars, waterVars
<1>8. ASSUME HandOver
      PROVE  Awaited'
  <2>1. /\ pc = "handover" /\ pc' = "select" /\ NextRun /\ ending # "none"
        /\ UNCHANGED <<nextID, sending, runCh, waiting, pending>>
    BY <1>8 DEF HandOver, clientVars, EndingMatches
  <2>2. ending \in {"cancelled", "finished"}
    BY <2>1 DEF TypeOK
  <2>3. /\ current.async => done'[current.id] # "empty"
        /\ \A id \in waiting : done[id] # "empty" => done'[id] # "empty"
    <3>1. CASE current.async /\ SendDone(current.id, ending)
      <4>1. current.id \in ID /\ done' = [done EXCEPT ![current.id] = ending]
        BY <2>1, <3>1 DEF EndingMatches, TypeOK, Run, SendDone
      <4> QED
        BY <2>2, <4>1 DEF TypeOK
    <3>2. CASE ~current.async /\ UNCHANGED doneVars
      BY <3>2 DEF doneVars
    <3> QED
      BY <1>8, <3>1, <3>2 DEF HandOver
  <2> QED
    BY <2>1, <2>3, AwaitedNextRun
<1> QED
  BY <1>1, <1>2, <1>3, <1>4, <1>5, <1>6, <1>7, <1>8 DEF RunnerStep

LEMMA AwaitedStep ==
  TypeOK /\ EndingMatches /\ Apart /\ Awaited /\ [Next]_vars => Awaited'
<1>1. Awaited /\ (Quit \/ Tick \/ UNCHANGED vars) => Awaited'
  BY AwaitedUnchanged DEF Quit, Tick, vars, clientVars, doneVars, waterVars
<1> QED
  BY <1>1, AwaitedClient, AwaitedRunner DEF Next

\* Nobody waits for an answer that cannot come.
THEOREM NobodyForgotten == Spec => []NoReceiverForgotten
<1>1. SafetyInv => EndingMatches
  BY DEF SafetyInv
<1>2. TypeOK /\ EndingMatches /\ Apart /\ Awaited /\ [Next]_vars => Awaited'
  BY AwaitedStep
<1> QED
  BY <1>1, <1>2, AwaitedInit, AwaitedForgotten, RunsApart, RunnerInvariant, PTL DEF Spec

-----------------------------------------------------------------------------
(* What a cancelled section leaves behind.                                 *)

LEMMA ChannelMoves ==
  ASSUME NEW S, NEW ch \in Seq(S), ch # <<>>
  PROVE  ch # Tail(ch) /\ \A x \in S : Append(ch, x) # Tail(ch)
<1> DEFINE n == Len(ch)
           t == Tail(ch)
<1>1. n \in Nat /\ Len(t) = n - 1
  OBVIOUS
<1>2. ASSUME NEW x \in S
      PROVE  Append(ch, x) # t
  <2> DEFINE a == Append(ch, x)
  <2>1. Len(a) = n + 1
    OBVIOUS
  <2> HIDE DEF a, n, t
  <2>2. a # t
    BY <1>1, <2>1
  <2> QED
    BY <2>2 DEF a
<1>3. ch # t
  <2>1. Len(ch) = n
    OBVIOUS
  <2> HIDE DEF n, t
  <2> QED
    BY <1>1, <2>1
<1> QED
  BY <1>2, <1>3

\* Only its handler takes a section from the channel.
LEMMA SectionReceived ==
  ASSUME TypeOK, [Next]_vars, cancelSecCh # <<>>, cancelSecCh' = Tail(cancelSecCh)
  PROVE  HandleCancelSec
<1>1. cancelSecCh' # cancelSecCh /\ \A sec \in Section : cancelSecCh' # Append(cancelSecCh, sec)
  BY ChannelMoves DEF TypeOK
<1>2. CASE ClientStep
  BY <1>1, <1>2 DEF ClientStep, GetNextID, SendRun, CancelSection, CancelID, CancelAll,
     CancelOwn, Pause, Unpause, ReceiveDone
<1>3. CASE RunnerStep
  BY <1>1, <1>3 DEF RunnerStep, HandleRun, HandleCancelID, HandlePaused, HandleTimer,
     NotifyRemoved, EndNotify, HandOver, clientVars
<1>4. CASE Quit \/ Tick \/ UNCHANGED vars
  BY <1>1, <1>4 DEF Quit, Tick, vars, clientVars
<1> QED
  BY <1>2, <1>3, <1>4 DEF Next

LEMMA SectionCleared ==
  ASSUME TypeOK, HandleCancelSec, NEW sec, Head(cancelSecCh) = sec
  PROVE  /\ \A i \in Live(queue') : queue'.items[i].sec # sec
         /\ current # Nil /\ current.sec = sec => ending' = "cancelled"
<1> DEFINE slots == WithSection(queue, sec)
<1>1. /\ queue' = Remove(queue, slots)
      /\ current # Nil /\ current.sec = sec => ending' = "cancelled"
  BY DEF HandleCancelSec, Withdraw
<1>2. Live(queue') = Live(queue) \ slots
  BY <1>1, RemoveType DEF TypeOK
<1>3. \A i \in Live(queue) : i \in Index(queue) /\ (queue.items[i].sec = sec => i \in slots)
  BY DEF WithSection, Scanned, Live, Window
<1>4. \A i \in Live(queue') : queue'.items[i] = queue.items[i]
  BY <1>1, <1>2, <1>3 DEF Remove, IsSRQueue, TypeOK
<1> HIDE DEF slots
<1> QED
  BY <1>1, <1>2, <1>3, <1>4

\* When the runner takes a section's cancel, no run of that section stays in its queue,
\* and if the current run is one, it is being ended.
THEOREM SectionsClear == Spec => CancelSectionClears
<1> DEFINE Clears ==
      \A sec \in Section :
       (cancelSecCh # <<>> /\ Head(cancelSecCh) = sec /\ cancelSecCh' = Tail(cancelSecCh))
         => /\ \A i \in Live(queue') : queue'.items[i].sec # sec
            /\ current # Nil /\ current.sec = sec => ending' = "cancelled"
<1>1. TypeOK /\ [Next]_vars => Clears
  BY SectionReceived, SectionCleared
<1>2. CancelSectionClears <=> [][Clears]_vars
  BY DEF CancelSectionClears
<1> HIDE DEF Clears
<1> QED
  BY <1>1, <1>2, TypeCorrect, PTL DEF Spec

-----------------------------------------------------------------------------
(* The runner implements the service.                                      *)

\* Only requested runs are anywhere, the slots of the ring included.
Requested ==
  /\ sending \subseteq RequestedRuns /\ Members(runCh) \subseteq RequestedRuns
  /\ IsSRQueue(queue, RequestedRuns) /\ current \in RequestedRuns \cup {Nil}

LEMMA RequestedType == RequestedRuns \subseteq Run /\ Nil \notin RequestedRuns
<1>1. ASSUME NEW id \in ID, NEW req \in Request
      PROVE  [id |-> id, sec |-> req.sec, total |-> req.total, async |-> req.async] \in Run
  BY RequestedRun
<1>2. RequestedRuns \subseteq Run
  BY <1>1 DEF RequestedRuns
<1> QED
  BY <1>2, NilNotRun

LEMMA RequestedInit == Init => Requested
<1> SUFFICES ASSUME Init
             PROVE  Requested
  OBVIOUS
<1>1. IsSRQueue(queue, RequestedRuns)
  BY NewSRQueueType, ConstantsAssumption DEF Init
<1> QED
  BY <1>1 DEF Init, Requested, Members

LEMMA RequestedUnchanged ==
  Requested /\ UNCHANGED <<sending, runCh, queue, current>> => Requested'
BY DEF Requested, Members

LEMMA RequestedClient == TypeOK /\ Requested /\ ClientStep => Requested'
<1> SUFFICES ASSUME TypeOK, Requested, ClientStep
             PROVE  Requested'
  OBVIOUS
<1>1. ASSUME NEW req \in Request, GetNextID(req)
      PROVE  Requested'
  <2>1. nextID \in ID
    BY <1>1, ConstantsAssumption DEF GetNextID, TypeOK, ID
  <2>2. sending' \subseteq RequestedRuns
    BY <1>1, <2>1 DEF GetNextID, Requested, RequestedRuns
  <2>3. UNCHANGED <<runCh, queue, current>>
    BY <1>1 DEF GetNextID, runnerVars, waterVars
  <2> QED
    BY <2>2, <2>3 DEF Requested, Members
<1>2. ASSUME NEW r \in sending, SendRun(r)
      PROVE  Requested'
  <2>1. /\ runCh' = Append(runCh, r) /\ sending' = sending \ {r} /\ runCh \in Seq(Run)
        /\ UNCHANGED <<queue, current>> /\ r \in Run /\ r \in RequestedRuns
    BY <1>2 DEF SendRun, runnerVars, waterVars, TypeOK, Requested
  <2>2. Members(runCh') = Members(runCh) \cup {r}
    BY <2>1, SendMembers
  <2> QED
    BY <2>1, <2>2 DEF Requested, Members
<1>3. CASE UNCHANGED <<sending, runCh, queue, current>>
  BY <1>3, RequestedUnchanged
<1> QED
  BY <1>1, <1>2, <1>3 DEF ClientStep, CancelSection, CancelID, CancelAll, CancelOwn, Pause,
     Unpause, ReceiveDone, runnerVars, waterVars

LEMMA RequestedNextRun ==
  ASSUME Requested, NextRun, UNCHANGED <<sending, runCh>>
  PROVE  Requested'
<1>1. IsSRQueue(Pop(queue), RequestedRuns) /\ Popped(queue) \in RequestedRuns \cup {Nil}
  BY PopType, RequestedType DEF Requested
<1> QED
  BY <1>1 DEF Requested, NextRun, RunItem, Members

LEMMA RequestedWithdraw ==
  ASSUME Requested, NEW slots, NEW endCurrent, Withdraw(slots, endCurrent),
         UNCHANGED <<sending, runCh>>
  PROVE  Requested'
<1>1. IsSRQueue(Remove(queue, slots), RequestedRuns)
  BY RemoveType DEF Requested
<1> QED
  BY <1>1 DEF Requested, Withdraw, waterVars, Members

LEMMA RequestedRunner == TypeOK /\ Apart /\ Requested /\ RunnerStep => Requested'
<1> SUFFICES ASSUME TypeOK, Apart, Requested, RunnerStep
             PROVE  Requested'
  OBVIOUS
<1>1. ASSUME HandleRun
      PROVE  Requested'
  <2> DEFINE r == Head(runCh)
  <2>1. runCh \in Seq(Run) /\ runCh # <<>> /\ Once(runCh) /\ runCh' = Tail(runCh)
    BY <1>1 DEF HandleRun, TypeOK, Apart
  <2>2. r \in Members(runCh) /\ Members(runCh') = Members(runCh) \ {r}
    BY <2>1, ReceiveMembers
  <2>3. r \in RequestedRuns /\ Members(runCh)' \subseteq RequestedRuns /\ sending' = sending
    BY <1>1, <2>2 DEF Requested, Members, HandleRun
  <2> HIDE DEF r
  <2>4. CASE current = Nil /\ ~paused
    <3>1. current' = r /\ queue' = queue
      BY <1>1, <2>4 DEF HandleRun, RunItem, r
    <3> QED
      BY <2>3, <3>1 DEF Requested
  <2>5. CASE current # Nil \/ paused
    <3>1. current' = current /\ queue' = Push(queue, r)
      BY <1>1, <2>5 DEF HandleRun, waterVars, r
    <3>2. IsSRQueue(queue', RequestedRuns)
      BY <2>3, <3>1, PushType DEF Requested
    <3> QED
      BY <2>3, <3>1, <3>2 DEF Requested
  <2> QED
    BY <2>4, <2>5
<1>2. CASE HandleCancelSec
  BY <1>2, RequestedWithdraw DEF HandleCancelSec
<1>3. CASE HandleCancelID
  BY <1>3, RequestedWithdraw DEF HandleCancelID
<1>4. ASSUME HandlePaused
      PROVE  Requested'
  <2>1. CASE NextRun
    BY <1>4, <2>1, RequestedNextRun DEF HandlePaused
  <2>2. CASE UNCHANGED <<queue, current>>
    BY <1>4, <2>2, RequestedUnchanged DEF HandlePaused
  <2> QED
    BY <1>4, <2>1, <2>2 DEF HandlePaused, PauseCurrent, ResumeCurrent, waterVars
<1>5. CASE HandleTimer \/ NotifyRemoved \/ EndNotify
  BY <1>5, RequestedUnchanged DEF HandleTimer, NotifyRemoved, EndNotify, clientVars, waterVars
<1>6. CASE HandOver
  BY <1>6, RequestedNextRun DEF HandOver, clientVars
<1> QED
  BY <1>1, <1>2, <1>3, <1>4, <1>5, <1>6 DEF RunnerStep

LEMMA RequestedStep == TypeOK /\ Apart /\ Requested /\ [Next]_vars => Requested'
<1>1. Requested /\ (Quit \/ Tick \/ UNCHANGED vars) => Requested'
  BY RequestedUnchanged DEF Quit, Tick, vars, clientVars, waterVars
<1> QED
  BY <1>1, RequestedClient, RequestedRunner DEF Next

\* The line of the service is that of Line.
LEMMA SameLine ==
  /\ Service!EmptyLine = EmptyLine
  /\ \A line, r : Service!Join(line, r) = Join(line, r)
  /\ \A line, S : Service!Keep(line, S) = Keep(line, S)
  /\ \A line, r : Service!IsFirst(line, r) = IsFirst(line, r)
  /\ \A line, r : Service!Without(line, r) = Without(line, r)
BY DEF Service!EmptyLine, Service!Join, Service!Keep, Service!IsFirst, Service!Without,
       EmptyLine, Join, Keep, IsFirst, Without

LEMMA ServiceInit == Init => Service!Init
<1> SUFFICES ASSUME Init
             PROVE  Service!Init
  OBVIOUS
<1>1. LineOf(queue) = EmptyLine
  BY NewSRQueueType, NobodyInLine, ConstantsAssumption DEF Init
<1> QED
  BY <1>1, SameLine DEF Init, Service!Init

LEMMA ServiceStutter ==
  UNCHANGED <<queue, current, paused, on>> => UNCHANGED (Service!vars)
BY DEF Service!vars

\* Pop and run the next run is to serve the first in line.
LEMMA ServiceServe ==
  ASSUME TypeOK, Apart, NextRun, on = {}
  PROVE  Service!Serve(paused')
<1>1. IsSRQueue(queue, Run) /\ Distinct(queue) /\ queue' = Pop(queue) /\ RunItem(Popped(queue))
  BY DEF TypeOK, Apart, NextRun
<1>2. CASE Live(queue) = {}
  <2>1. Popped(queue) = Nil /\ Live(queue') = {}
    BY <1>1, <1>2, PopLive DEF Popped
  <2>2. DOMAIN LineOf(queue) = {} /\ LineOf(queue') = LineOf(queue)
    BY <1>2, <2>1, LineEmpty, NobodyInLine
  <2>3. current' = Nil /\ on' = {}
    BY <1>1, <2>1 DEF RunItem
  <2> QED
    BY <2>2, <2>3 DEF Service!Serve
<1>3. CASE Live(queue) # {}
  <2> DEFINE r == Popped(queue)
  <2>1. IsFirst(LineOf(queue), r) /\ LineOf(queue') = Without(LineOf(queue), r)
    BY <1>1, <1>3, LinePop
  <2>2. r # Nil
    BY <1>1, <1>3, PopType, NilNotRun
  <2>3. current' = r /\ on' = IF paused' THEN {} ELSE {r.sec}
    BY <1>1, <2>2 DEF RunItem
  <2> QED
    BY <2>1, <2>3, SameLine DEF Service!Serve, IsFirst
<1> QED
  BY <1>2, <1>3

\* Keeping everybody changes nothing.
LEMMA KeepEverybody ==
  ASSUME NEW q, NEW K, DOMAIN LineOf(q) \subseteq K
  PROVE  Keep(LineOf(q), K) = LineOf(q)
<1>1. \A r \in DOMAIN LineOf(q) : LineOf(q)[r] \subseteq DOMAIN LineOf(q)
  BY LineElements DEF InLine, Behind
<1>2. LineOf(q) = [r \in DOMAIN LineOf(q) |-> LineOf(q)[r]]
  BY DEF LineOf
<1> QED
  BY <1>1, <1>2 DEF Keep

LEMMA ServiceRun ==
  ASSUME TypeOK, ValveInterlock, Apart, Requested, HandleRun
  PROVE  Service!Next
<1> DEFINE r == Head(runCh)
<1>1. /\ r \in RequestedRuns /\ r \in Run /\ r \notin Queued /\ r # current /\ r # Nil
      /\ paused' = paused /\ pc = "select"
  <2>1. runCh \in Seq(Run) /\ runCh # <<>> /\ Once(runCh)
    BY DEF HandleRun, TypeOK, Apart
  <2>2. r \in Members(runCh)
    BY <2>1, ReceiveMembers
  <2>3. r \in RequestedRuns
    BY <2>2 DEF Requested
  <2> QED
    BY <2>2, <2>3, RequestedType DEF Apart, HandleRun
<1>2. \/ RunItem(r) /\ queue' = queue /\ current = Nil /\ ~paused
      \/ queue' = Push(queue, r) /\ UNCHANGED waterVars /\ (current # Nil \/ paused)
  BY DEF HandleRun
<1> HIDE DEF r
<1>3. CASE RunItem(r) /\ queue' = queue /\ current = Nil /\ ~paused
  <2>1. on = {}
    BY <1>3 DEF ValveInterlock, Watering
  <2>2. current' = r /\ on' = {r.sec}
    BY <1>1, <1>3, <2>1 DEF RunItem
  <2>3. Service!Accept(r)
    BY <1>1, <1>3, <2>2 DEF Service!Accept, Queued
  <2> QED
    BY <1>1, <2>3 DEF Service!Next
<1>4. CASE queue' = Push(queue, r) /\ UNCHANGED waterVars /\ (current # Nil \/ paused)
  <2>1. LineOf(queue') = Join(LineOf(queue), r)
    BY <1>1, <1>4, LinePush, NilNotRun DEF TypeOK, Queued
  <2>2. Service!Accept(r)
    BY <1>1, <1>4, <2>1, SameLine DEF Service!Accept, Queued, waterVars
  <2> QED
    BY <1>1, <2>2 DEF Service!Next
<1> QED
  BY <1>2, <1>3, <1>4

LEMMA ServiceCancelSec ==
  ASSUME TypeOK, Requested, HandleCancelSec
  PROVE  [Service!Next]_(Service!vars)
<1> DEFINE sec == Head(cancelSecCh)
           K   == {r \in DOMAIN LineOf(queue) : r.sec # sec}
<1>1. queue' = Remove(queue, WithSection(queue, sec)) /\ UNCHANGED <<current, paused, on>>
  BY DEF HandleCancelSec, Withdraw, waterVars
<1>2. LineOf(queue') = Keep(LineOf(queue), K)
  BY <1>1, LineRemoveSection DEF TypeOK
<1>3. CASE \E r \in RequestedRuns : r.sec = sec
  <2>1. PICK r \in RequestedRuns : r.sec = sec
    BY <1>3
  <2>2. Service!WithdrawSection(r.sec)
    BY <1>1, <1>2, <2>1, SameLine DEF Service!WithdrawSection, Service!KeepOnly
  <2> QED
    BY <2>2 DEF Service!Next
<1>4. CASE \A r \in RequestedRuns : r.sec # sec
  <2>1. DOMAIN LineOf(queue) \subseteq K
    BY <1>4, QueuedType DEF Requested
  <2>2. LineOf(queue') = LineOf(queue)
    BY <1>2, <2>1, KeepEverybody
  <2> QED
    BY <1>1, <2>2 DEF Service!vars
<1> QED
  BY <1>3, <1>4

LEMMA ServiceCancelID ==
  ASSUME TypeOK, Apart, Requested, HandleCancelID
  PROVE  [Service!Next]_(Service!vars)
<1> DEFINE id == Head(cancelIDCh)
           K  == {r \in DOMAIN LineOf(queue) : r.id # id}
<1>1. /\ UNCHANGED <<current, paused, on>>
      /\ queue' = Remove(queue, All(queue)) \/ queue' = Remove(queue, ByID(queue, id))
  BY DEF HandleCancelID, Withdraw, waterVars
<1>2. CASE queue' = Remove(queue, All(queue))
  <2>1. LineOf(queue') = EmptyLine
    BY <1>2, LineRemoveAll DEF TypeOK
  <2>2. Keep(LineOf(queue), {}) = EmptyLine
    BY DEF Keep, EmptyLine
  <2>3. Service!WithdrawAll
    BY <1>1, <2>1, <2>2, SameLine DEF Service!WithdrawAll, Service!KeepOnly
  <2> QED
    BY <2>3 DEF Service!Next
<1>3. CASE queue' = Remove(queue, ByID(queue, id))
  <2>1. LineOf(queue') = Keep(LineOf(queue), K)
    <3>1. \A i \in Live(queue) : queue.items[i] \in Placed
      BY LineElements DEF InLine, Placed, Queued
    <3>2. \A i, j \in Live(queue) :
            queue.items[i].id = queue.items[j].id => queue.items[i] = queue.items[j]
      BY <3>1 DEF Apart
    <3> QED
      BY <1>3, <3>2, LineRemoveID DEF TypeOK, Apart
  <2>2. CASE \E r \in RequestedRuns : r.id = id
    <3>1. PICK r \in RequestedRuns : r.id = id
      BY <2>2
    <3>2. Service!WithdrawID(r.id)
      BY <1>1, <2>1, <3>1, SameLine DEF Service!WithdrawID, Service!KeepOnly
    <3> QED
      BY <3>2 DEF Service!Next
  <2>3. CASE \A r \in RequestedRuns : r.id # id
    <3>1. DOMAIN LineOf(queue) \subseteq K
      BY <2>3, QueuedType DEF Requested
    <3>2. LineOf(queue') = LineOf(queue)
      BY <2>1, <3>1, KeepEverybody
    <3> QED
      BY <1>1, <3>2 DEF Service!vars
  <2> QED
    BY <2>2, <2>3
<1> QED
  BY <1>1, <1>2, <1>3

LEMMA ServicePaused ==
  ASSUME TypeOK, ValveInterlock, Apart, HandlePaused
  PROVE  [Service!Next]_(Service!vars)
<1>1. pc = "select" /\ paused \in BOOLEAN /\ paused' \in BOOLEAN
  BY Received DEF HandlePaused, TypeOK
<1>2. CASE paused' = paused /\ UNCHANGED <<queue, waterVars>>
  BY <1>2, ServiceStutter DEF waterVars
<1>3. CASE ~paused /\ paused' /\ current = Nil /\ UNCHANGED <<queue, waterVars>>
  <2>1. on = {}
    BY <1>3 DEF ValveInterlock, Watering
  <2>2. Service!Pause
    BY <1>1, <1>3, <2>1 DEF Service!Pause, waterVars
  <2> QED
    BY <2>2 DEF Service!Next
<1>4. CASE ~paused /\ paused' /\ current # Nil /\ PauseCurrent /\ UNCHANGED queue
  <2>1. on' = {} /\ current' = current
    BY <1>4 DEF PauseCurrent, ValveInterlock
  <2>2. Service!Pause
    BY <1>1, <1>4, <2>1 DEF Service!Pause
  <2> QED
    BY <2>2 DEF Service!Next
<1>5. CASE paused /\ ~paused' /\ current # Nil /\ ResumeCurrent /\ UNCHANGED queue
  <2>1. on' = {current.sec} /\ current' = current
    BY <1>5 DEF ResumeCurrent, ValveInterlock, Watering
  <2>2. Service!Unpause
    BY <1>1, <1>5, <2>1 DEF Service!Unpause
  <2> QED
    BY <2>2 DEF Service!Next
<1>6. CASE paused /\ ~paused' /\ current = Nil /\ NextRun
  <2>1. on = {} /\ paused' = FALSE
    BY <1>1, <1>6 DEF ValveInterlock, Watering
  <2>2. Service!Serve(FALSE)
    BY <1>6, <2>1, ServiceServe
  <2>3. Service!Unpause
    BY <1>1, <1>6, <2>1, <2>2 DEF Service!Unpause
  <2> QED
    BY <2>3 DEF Service!Next
<1> QED
  BY <1>2, <1>3, <1>4, <1>5, <1>6 DEF HandlePaused

\* The valve of a run that ends is closed, and it alone was open.
LEMMA ServiceClose ==
  ASSUME ValveInterlock, current # Nil, NEW how, BeginFinish(how),
         UNCHANGED <<queue, current, paused>>
  PROVE  Service!Next
<1>1. on' = {}
  BY DEF BeginFinish, ValveInterlock
<1>2. Service!Close
  BY <1>1 DEF Service!Close
<1> QED
  BY <1>2 DEF Service!Next

LEMMA ServiceStep ==
  ASSUME TypeOK, SafetyInv, Apart, Requested, [Next]_vars
  PROVE  [Service!Next]_(Service!vars)
<1>1. ValveInterlock /\ EndingMatches /\ TimerArmed
  BY DEF SafetyInv
<1>2. CASE ClientStep
  <2>1. UNCHANGED <<queue, current, paused, on>>
    BY <1>2 DEF ClientStep, GetNextID, SendRun, CancelSection, CancelID, CancelAll, CancelOwn,
       Pause, Unpause, ReceiveDone, runnerVars, waterVars
  <2> QED
    BY <2>1, ServiceStutter
<1>3. CASE Quit \/ Tick \/ NotifyRemoved \/ UNCHANGED vars
  BY <1>3, ServiceStutter DEF Quit, Tick, NotifyRemoved, vars, waterVars
<1>4. CASE HandleRun
  BY <1>1, <1>4, ServiceRun
<1>5. CASE HandleCancelSec
  BY <1>5, ServiceCancelSec
<1>6. CASE HandleCancelID
  BY <1>6, ServiceCancelID
<1>7. CASE HandlePaused
  BY <1>1, <1>7, ServicePaused
<1>8. CASE HandleTimer
  <2>1. current # Nil
    BY <1>1, <1>8 DEF HandleTimer, TimerFired, TimerArmed, Watering
  <2> QED
    BY <1>1, <1>8, <2>1, ServiceClose DEF HandleTimer
<1>9. CASE EndNotify
  <2>1. CASE UNCHANGED <<ending, waterVars>>
    BY <1>9, <2>1, ServiceStutter DEF EndNotify, waterVars
  <2>2. CASE ending = "cancelled" /\ BeginFinish("cancelled")
             /\ UNCHANGED <<current, left, elapsed, onTime>>
    BY <1>1, <1>9, <2>2, ServiceClose DEF EndNotify, EndingMatches
  <2> QED
    BY <1>9, <2>1, <2>2 DEF EndNotify
<1>10. CASE HandOver
  <2>1. current # Nil /\ on = {} /\ paused' = paused /\ NextRun
    BY <1>1, <1>10 DEF HandOver, EndingMatches, ValveInterlock, Watering
  <2>2. Service!Serve(paused)
    BY <2>1, ServiceServe
  <2>3. Service!Advance
    BY <2>1, <2>2 DEF Service!Advance
  <2> QED
    BY <2>3 DEF Service!Next
<1> QED
  BY <1>2, <1>3, <1>4, <1>5, <1>6, <1>7, <1>8, <1>9, <1>10 DEF Next, RunnerStep

\* The runner implements the service: whatever clients call and when, what it waters is
\* what a first-come-first-served service of one valve at a time would water.
THEOREM RunnerIsService == Spec => ImplementsService
<1>1. TypeOK /\ Apart /\ Requested /\ [Next]_vars => Requested'
  BY RequestedStep
<1>2. TypeOK /\ SafetyInv /\ Apart /\ Requested /\ [Next]_vars
        => [Service!Next]_(Service!vars)
  BY ServiceStep
<1>3. Init => Service!Init
  BY ServiceInit
<1>4. Spec => []Requested
  BY <1>1, RequestedInit, RunsApart, TypeCorrect, PTL DEF Spec
<1> QED
  BY <1>2, <1>3, <1>4, RunsApart, RunnerInvariant, PTL DEF Spec, ImplementsService, Service!Spec

-----------------------------------------------------------------------------
(* A stalled runner stays stalled.                                         *)

\* The runs that are no longer with their caller.
SentRuns == {r \in Run : r.id < nextID /\ \A s \in sending : s.id # r.id}

\* The runner has to do with no others: not in a slot of the ring that a popped run
\* stays in, nor in the list of runs to be told.
SentOnly ==
  /\ Members(runCh) \subseteq SentRuns /\ current \in SentRuns \cup {Nil}
  /\ IsSRQueue(queue, SentRuns)
  /\ \A k \in DOMAIN pending : pending[k] \in SentRuns

LEMMA SentOnlyInit == Init => SentOnly
<1> SUFFICES ASSUME Init
             PROVE  SentOnly
  OBVIOUS
<1>1. IsSRQueue(queue, SentRuns)
  BY NewSRQueueType, ConstantsAssumption DEF Init
<1> QED
  BY <1>1 DEF Init, SentOnly, Members, NoRuns

\* As long as no run goes back to its caller, it is enough to look at what the runner has.
LEMMA SentMoved ==
  ASSUME SentOnly, SentRuns \subseteq SentRuns',
         UNCHANGED <<queue, current, pending>>, Members(runCh)' \subseteq SentRuns'
  PROVE  SentOnly'
<1>1. IsSRQueue(queue, SentRuns')
  BY DEF SentOnly, IsSRQueue
<1> QED
  BY <1>1 DEF SentOnly

LEMMA SentUnchanged ==
  ASSUME SentOnly, UNCHANGED <<nextID, sending, runCh, queue, current>>,
         DOMAIN pending' \subseteq DOMAIN pending,
         \A k \in DOMAIN pending' : pending'[k] = pending[k]
  PROVE  SentOnly'
BY DEF SentOnly, SentRuns, Members

LEMMA SentClient == TypeOK /\ Apart /\ SentOnly /\ ClientStep => SentOnly'
<1> SUFFICES ASSUME TypeOK, Apart, SentOnly, ClientStep
             PROVE  SentOnly'
  OBVIOUS
<1>1. ASSUME NEW req \in Request, GetNextID(req)
      PROVE  SentOnly'
  <2>1. /\ nextID' = nextID + 1 /\ nextID \in Int
        /\ \A s \in sending' : s \in sending \/ s.id = nextID
    BY <1>1, ConstantsAssumption DEF GetNextID, TypeOK
  <2>2. \A r \in Run : r.id \in Int
    BY DEF Run, ID
  <2>3. SentRuns \subseteq SentRuns'
    BY <2>1, <2>2 DEF SentRuns
  <2>4. UNCHANGED <<runCh, queue, current, pending>>
    BY <1>1 DEF GetNextID, runnerVars, waterVars
  <2>5. Members(runCh)' \subseteq SentRuns'
    BY <2>3, <2>4 DEF SentOnly, Members
  <2> QED
    BY <2>3, <2>4, <2>5, SentMoved
<1>2. ASSUME NEW r \in sending, SendRun(r)
      PROVE  SentOnly'
  <2>1. /\ runCh' = Append(runCh, r) /\ sending' = sending \ {r} /\ runCh \in Seq(Run)
        /\ UNCHANGED <<nextID, queue, current, pending>> /\ r \in Run
    BY <1>2 DEF SendRun, runnerVars, waterVars, TypeOK
  <2>2. Members(runCh') = Members(runCh) \cup {r}
    BY <2>1, SendMembers
  <2>3. r.id < nextID /\ \A s \in sending \ {r} : s.id # r.id
    BY DEF Apart, Placed
  <2>4. SentRuns \subseteq SentRuns' /\ r \in SentRuns'
    BY <2>1, <2>3 DEF SentRuns
  <2>5. Members(runCh)' \subseteq SentRuns'
    BY <2>2, <2>4 DEF SentOnly, Members
  <2> QED
    BY <2>1, <2>4, <2>5, SentMoved
<1>3. CASE UNCHANGED <<nextID, sending, runCh, queue, current, pending>>
  BY <1>3, SentUnchanged
<1> QED
  BY <1>1, <1>2, <1>3 DEF ClientStep, CancelSection, CancelID, CancelAll, CancelOwn, Pause,
     Unpause, ReceiveDone, runnerVars, waterVars

LEMMA SentNextRun ==
  ASSUME SentOnly, NextRun, UNCHANGED <<nextID, sending, runCh, pending>>
  PROVE  SentOnly'
<1>1. Nil \notin SentRuns /\ SentRuns' = SentRuns
  BY NilNotRun DEF SentRuns
<1>2. IsSRQueue(Pop(queue), SentRuns) /\ Popped(queue) \in SentRuns \cup {Nil}
  BY <1>1, PopType DEF SentOnly
<1> QED
  BY <1>1, <1>2 DEF SentOnly, NextRun, RunItem, Members

LEMMA SentWithdraw ==
  ASSUME SentOnly, NEW slots, NEW endCurrent, Withdraw(slots, endCurrent),
         \/ \E sec : slots = WithSection(queue, sec)
         \/ slots = All(queue)
         \/ \E id : slots = ByID(queue, id),
         UNCHANGED <<nextID, sending, runCh>>
  PROVE  SentOnly'
<1>1. SentRuns' = SentRuns
  BY DEF SentRuns
<1>2. IsSRQueue(queue, SentRuns)
  BY DEF SentOnly
<1>3. IsSRQueue(Remove(queue, slots), SentRuns)
  BY <1>2, RemoveType
<1>4. slots \subseteq {i \in Index(queue) : queue.items[i] \in SentRuns}
  BY <1>2, RemovedSlots
<1>5. \A k \in DOMAIN Notices(slots) : Notices(slots)[k] \in SentRuns
  BY <1>2, <1>4, NoticesType
<1> QED
  BY <1>1, <1>3, <1>5 DEF SentOnly, Withdraw, waterVars, Members

LEMMA SentRunner == TypeOK /\ Apart /\ SentOnly /\ RunnerStep => SentOnly'
<1> SUFFICES ASSUME TypeOK, Apart, SentOnly, RunnerStep
             PROVE  SentOnly'
  OBVIOUS
<1>1. ASSUME HandleRun
      PROVE  SentOnly'
  <2> DEFINE r == Head(runCh)
  <2>1. runCh \in Seq(Run) /\ runCh # <<>> /\ Once(runCh) /\ runCh' = Tail(runCh)
    BY <1>1 DEF HandleRun, TypeOK, Apart
  <2>2. r \in Members(runCh) /\ Members(runCh') = Members(runCh) \ {r}
    BY <2>1, ReceiveMembers
  <2>3. UNCHANGED <<nextID, sending, pending>> /\ SentRuns' = SentRuns
    BY <1>1 DEF HandleRun, SentRuns
  <2>4. r \in SentRuns /\ Members(runCh)' \subseteq SentRuns'
    BY <2>2, <2>3 DEF SentOnly, Members
  <2> HIDE DEF r
  <2>5. CASE current = Nil /\ ~paused
    <3>1. current' = r /\ queue' = queue
      BY <1>1, <2>5 DEF HandleRun, RunItem, r
    <3> QED
      BY <2>3, <2>4, <3>1 DEF SentOnly
  <2>6. CASE current # Nil \/ paused
    <3>1. current' = current /\ queue' = Push(queue, r)
      BY <1>1, <2>6 DEF HandleRun, waterVars, r
    <3>2. IsSRQueue(queue', SentRuns)
      BY <2>4, <3>1, PushType DEF SentOnly
    <3> QED
      BY <2>3, <2>4, <3>1, <3>2 DEF SentOnly
  <2> QED
    BY <2>5, <2>6
<1>2. CASE HandleCancelSec
  BY <1>2, SentWithdraw DEF HandleCancelSec
<1>3. CASE HandleCancelID
  BY <1>3, SentWithdraw DEF HandleCancelID
<1>4. ASSUME HandlePaused
      PROVE  SentOnly'
  <2>1. CASE NextRun
    BY <1>4, <2>1, SentNextRun DEF HandlePaused
  <2>2. CASE UNCHANGED <<queue, current>>
    BY <1>4, <2>2, SentUnchanged DEF HandlePaused
  <2> QED
    BY <1>4, <2>1, <2>2 DEF HandlePaused, PauseCurrent, ResumeCurrent, waterVars
<1>5. CASE HandleTimer \/ EndNotify
  BY <1>5, SentUnchanged DEF HandleTimer, EndNotify, clientVars, waterVars
<1>6. CASE NotifyRemoved
  BY <1>6, SentUnchanged DEF NotifyRemoved, clientVars, waterVars
<1>7. CASE HandOver
  BY <1>7, SentNextRun DEF HandOver, clientVars
<1> QED
  BY <1>1, <1>2, <1>3, <1>4, <1>5, <1>6, <1>7 DEF RunnerStep

LEMMA SentStep == TypeOK /\ Apart /\ SentOnly /\ [Next]_vars => SentOnly'
<1>1. SentOnly /\ (Quit \/ Tick \/ UNCHANGED vars) => SentOnly'
  BY SentUnchanged DEF Quit, Tick, vars, clientVars, waterVars
<1> QED
  BY <1>1, SentClient, SentRunner DEF Next

\* Nobody empties the channel any more, and no case of the runner gets by a full one.
LEMMA StalledStep == TypeOK /\ EndingMatches /\ SentOnly /\ Stalled /\ [Next]_vars => Stalled'
<1> SUFFICES ASSUME TypeOK, EndingMatches, SentOnly, Stalled, [Next]_vars
             PROVE  Stalled'
  OBVIOUS
<1>1. PICK id \in ID : Answering(id) /\ done[id] # "empty" /\ id \notin waiting
  BY DEF Stalled
<1>2. \A r \in sending : r.id # id
  <2>1. CASE pc = "notify"
    BY <1>1, <2>1 DEF Answering, SentOnly, SentRuns
  <2>2. CASE pc = "handover"
    <3>1. current \in SentRuns /\ current.id = id
      BY <1>1, <2>2 DEF Answering, SentOnly, EndingMatches
    <3> QED
      BY <3>1 DEF SentRuns
  <2> QED
    BY <1>1, <2>1, <2>2 DEF Answering
<1>3. ASSUME UNCHANGED <<pc, pending, current>>, done'[id] # "empty", id \notin waiting'
      PROVE  Stalled'
  BY <1>1, <1>3 DEF Stalled, Answering
<1>4. ASSUME ClientStep
      PROVE  Stalled'
  <2>1. UNCHANGED <<pc, pending, current>>
    BY <1>4 DEF ClientStep, GetNextID, SendRun, CancelSection, CancelID, CancelAll, CancelOwn,
       Pause, Unpause, ReceiveDone, runnerVars, waterVars
  <2>2. ASSUME NEW other \in ID, ReceiveDone(other)
        PROVE  done'[id] # "empty" /\ id \notin waiting'
    BY <1>1, <2>2 DEF ReceiveDone, TypeOK
  <2>3. ASSUME NEW r \in sending, SendRun(r)
        PROVE  done'[id] # "empty" /\ id \notin waiting'
    BY <1>1, <1>2, <2>3 DEF SendRun, doneVars
  <2>4. ASSUME NEW other \in ID, CancelOwn(other)
        PROVE  done'[id] # "empty" /\ id \notin waiting'
    BY <1>1, <2>4 DEF CancelOwn, doneVars
  <2>5. CASE UNCHANGED <<done, waiting>>
    BY <1>1, <1>3, <2>1, <2>5
  <2> QED
    BY <1>3, <1>4, <2>1, <2>2, <2>3, <2>4, <2>5 DEF ClientStep, GetNextID, CancelSection,
       CancelID, CancelAll, Pause, Unpause, doneVars
<1>5. ~NotifyRemoved
  <2> SUFFICES ASSUME NotifyRemoved
               PROVE  FALSE
    OBVIOUS
  <2>1. PICK k \in DOMAIN pending :
          (\A j \in DOMAIN pending : k <= j) /\ done[pending[k].id] = "empty"
    BY DEF NotifyRemoved, SendDone
  <2>2. PICK l \in DOMAIN pending :
          pending[l].id = id /\ \A j \in DOMAIN pending : l <= j
    BY <1>1 DEF Answering, NotifyRemoved
  <2>3. k = l
    BY <2>1, <2>2 DEF TypeOK
  <2> QED
    BY <1>1, <2>1, <2>2, <2>3
<1>6. ~EndNotify /\ ~HandOver
  BY <1>1 DEF Answering, EndNotify, HandOver, SendDone
<1>7. pc # "select"
  BY <1>1 DEF Answering
<1>8. ~RunnerStep /\ ~Quit
  BY <1>5, <1>6, <1>7 DEF RunnerStep, HandleRun, HandleCancelSec, HandleCancelID, HandlePaused,
     HandleTimer, Quit
<1>9. CASE Tick \/ UNCHANGED vars
  BY <1>1, <1>3, <1>9 DEF Tick, vars, clientVars, doneVars, waterVars
<1> QED
  BY <1>4, <1>8, <1>9 DEF Next

\* What the liveness properties excuse is no passing delay: a runner that sends on a
\* full Done channel that nobody receives from never gets on.
THEOREM StallsForGood == Spec => StalledForGood
<1>1. TypeOK /\ Apart /\ SentOnly /\ [Next]_vars => SentOnly'
  BY SentStep
<1>2. TypeOK /\ SafetyInv /\ SentOnly /\ [Next]_vars => [Stalled => Stalled']_vars
  BY StalledStep DEF SafetyInv
<1>3. Spec => []SentOnly
  BY <1>1, SentOnlyInit, RunsApart, TypeCorrect, PTL DEF Spec
<1> QED
  BY <1>2, <1>3, RunnerInvariant, PTL DEF Spec, StalledForGood
=============================================================================
