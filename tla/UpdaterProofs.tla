---------------------------- MODULE UpdaterProofs ----------------------------
(***************************************************************************)
(* Theorems about Updater for any sections and programs, any capacity of   *)
(* the channels, any number of changes and of connections.                 *)
(***************************************************************************)
EXTENDS Updater, TLAPS

\* What the types leave out.
ValuesOK ==
  /\ \A t \in Topic : state[t] <= changes /\ (t[1] \in {"valve", "running"} => state[t] \in 0 .. 1)
  /\ runner = "telling" => told \in Topic
  /\ \A i \in 1 .. Len(runnerCh) : runnerCh[i] = RunnerTopic
  /\ saving \in [DOMAIN saving -> 0 .. MaxChanges]
  /\ connRead # <<>> => connRead[1] \in conn /\ connRead[2] \in 0 .. MaxChanges

\* The topics whose announcements are not lost.
Tracked == {"valve"} \X Section \cup {RunnerTopic}

\* An announcement of the topic is still to be taken.
Pending(t) ==
  \/ t # RunnerTopic /\ \E i \in 1 .. Len(secCh) : secCh[i] = t
  \/ runner = "telling" /\ told = t
  \/ t = RunnerTopic /\ (runnerCh # <<>> \/ runner # "select")

\* A topic shows what is the case, or the updater is at it, or it is announced, or
\* UpdateAll has left it out of date; what the updater is about to publish is the case,
\* or announced.
Shown(t) ==
  /\ \/ published[t] = state[t] \/ Pending(t) \/ t \in stale
     \/ updater \in {"exhaust", "read", "publish"} /\ topic = t
  /\ updater = "publish" /\ topic = t => read = state[t] \/ Pending(t)

ShownInv == \A t \in Tracked : Shown(t)

\* Before a reconnection: what is published of a program's data was its data once,
\* and the file, if its last write went through, or what is being written, is not older.
SavedInv ==
  reconnects = 0 =>
    /\ conn = {} /\ connRead = <<>>
    /\ updater = "publish" /\ topic[1] = "data" => read <= state[topic]
    /\ updater # "save" => DOMAIN saving = {}
    /\ \A p \in Program :
         /\ published[<<"data", p>>] <= state[<<"data", p>>]
         /\ updater # "save" /\ ~failed =>
              p \in DOMAIN saved /\ saved[p] >= published[<<"data", p>>]
         /\ p \in DOMAIN saving => saving[p] >= published[<<"data", p>>]

\* While nothing changes, nobody but UpdateAll has anything to do, and what it has
\* published, or read, is the case.
CalmInv ==
  calm => /\ AllCalm
          /\ \A t \in Topic \ conn : published[t] = state[t]
          /\ connRead # <<>> => connRead[2] = state[connRead[1]]

UpdaterInv == ValuesOK /\ ShownInv /\ SavedInv /\ CalmInv

-----------------------------------------------------------------------------
\* Topics of different kinds are different.
LEMMA Topics ==
  /\ RunnerTopic \in Topic /\ RunnerTopic[1] = "section_runner"
  /\ \A sec \in Section : <<"valve", sec>> \in Topic /\ <<"valve", sec>>[1] = "valve"
  /\ \A p \in Program : /\ <<"data", p>> \in Topic /\ <<"data", p>>[1] = "data"
                        /\ <<"running", p>> \in Topic /\ <<"running", p>>[1] = "running"
  /\ \A t \in Tracked : t \in Topic /\ t[1] \in {"valve", "section_runner"}
BY DEF Topic, RunnerTopic, Tracked

\* A change of any topic.
LEMMA ChangeStep ==
  ASSUME TypeOK, ValuesOK, NEW t \in Topic, Change(t)
  PROVE  /\ state' \in [Topic -> 0 .. MaxChanges] /\ changes' \in 0 .. MaxChanges
         /\ \A u \in Topic : u # t => state'[u] = state[u]
         /\ t[1] \notin {"valve", "running"} => state'[t] = state[t] + 1
         /\ \A u \in Topic :
              state'[u] <= changes' /\ (u[1] \in {"valve", "running"} => state'[u] \in 0 .. 1)
<1>1. /\ changes \in 0 .. MaxChanges /\ changes < MaxChanges /\ changes' = changes + 1
      /\ state \in [Topic -> 0 .. MaxChanges]
      /\ state' = [state EXCEPT ![t] = IF t[1] \in {"valve", "running"} THEN 1 - @ ELSE @ + 1]
  BY DEF TypeOK, Change
<1>2. state[t] <= changes /\ (t[1] \in {"valve", "running"} => state[t] \in 0 .. 1)
  BY DEF ValuesOK
<1>3. MaxChanges \in Nat
  BY UpdaterAssumption
<1>4. /\ state'[t] = IF t[1] \in {"valve", "running"} THEN 1 - state[t] ELSE state[t] + 1
      /\ \A u \in Topic : u # t => state'[u] = state[u]
      /\ DOMAIN state' = Topic
  BY <1>1
<1>5. state'[t] \in 0 .. changes' /\ (t[1] \in {"valve", "running"} => state'[t] \in 0 .. 1)
  BY <1>1, <1>2, <1>3, <1>4
<1>6. \A u \in Topic :
        state'[u] <= changes' /\ (u[1] \in {"valve", "running"} => state'[u] \in 0 .. 1)
  BY <1>1, <1>4, <1>5 DEF ValuesOK
<1>7. state' \in [Topic -> 0 .. MaxChanges]
  BY <1>1, <1>3, <1>4, <1>5
<1> QED
  BY <1>1, <1>2, <1>3, <1>4, <1>6, <1>7

-----------------------------------------------------------------------------
LEMMA UpdaterInit == Init => TypeOK /\ UpdaterInv
<1> SUFFICES ASSUME Init
             PROVE  TypeOK /\ UpdaterInv
  OBVIOUS
<1>1. 0 \in 0 .. MaxChanges /\ 0 \in 0 .. MaxReconnects /\ ChanCap >= 0
  BY UpdaterAssumption
<1>2. state = [t \in Topic |-> 0] /\ published = [t \in Topic |-> 0]
  BY DEF Init
<1>3. TypeOK
  <2>1. /\ \A ch \in {secCh, progCh, runnerCh} : ch \in Seq(Topic) /\ Len(ch) <= ChanCap
        /\ DOMAIN saving \subseteq Program /\ saved \in [Program -> 0 .. MaxChanges] \cup {NoData}
    BY <1>1 DEF Init, NoData
  <2>2. state \in [Topic -> 0 .. MaxChanges] /\ published \in [Topic -> 0 .. MaxChanges]
    BY <1>1, <1>2
  <2>3. /\ changes \in 0 .. MaxChanges /\ reconnects \in 0 .. MaxReconnects
        /\ topic \in Topic /\ read \in 0 .. MaxChanges
    BY <1>1, Topics DEF Init
  <2> QED
    BY <2>1, <2>2, <2>3 DEF Init, TypeOK
<1>4. saving = [p \in {} |-> 0] /\ runnerCh = <<>> /\ connRead = <<>>
  BY DEF Init, NoData
<1>5. saving \in [DOMAIN saving -> 0 .. MaxChanges] /\ DOMAIN saving = {}
  BY <1>4
<1>6. ValuesOK
  BY <1>1, <1>2, <1>4, <1>5 DEF Init, ValuesOK
<1>7. ShownInv
  BY <1>2, Topics DEF Init, ShownInv, Shown
<1>8. SavedInv
  <2>1. ASSUME NEW p \in Program
        PROVE  p \in DOMAIN saved /\ saved[p] = 0 /\ published[<<"data", p>>] = 0 /\ state[<<"data", p>>] = 0
    BY <1>2, Topics DEF Init
  <2> QED
    BY <1>5, <2>1 DEF Init, SavedInv
<1>9. CalmInv
  BY DEF Init, CalmInv
<1> QED
  BY <1>3, <1>6, <1>7, <1>8, <1>9 DEF UpdaterInv

\* A step that announces keeps the types.
LEMMA AnnounceTypes == TypeOK /\ ValuesOK /\ Announce => (TypeOK /\ ValuesOK)'
<1> SUFFICES ASSUME TypeOK, ValuesOK, Announce
             PROVE  TypeOK' /\ ValuesOK'
  OBVIOUS
<1> USE Topics DEF announcers, channels, updaterVars, connVars
<1>0. ASSUME NEW t \in Topic, Change(t), UNCHANGED <<channels, updaterVars, published>>,
             runner' \in {"select", "locked", "telling", "after"}, told' \in Topic \cup {<<>>},
             runner' = "telling" => told' \in Topic,
             updating' \subseteq Program, flagging' \subseteq Program
      PROVE  TypeOK' /\ ValuesOK'
  <2>1. TypeOK'
    BY <1>0, ChangeStep DEF Change, TypeOK
  <2>2. ValuesOK'
    BY <1>0, ChangeStep DEF Change, ValuesOK
  <2> QED
    BY <2>1, <2>2
<1>1. CASE Lock
  BY <1>0, <1>1 DEF Lock, TypeOK
<1>2. ASSUME NEW sec \in Section, SetState(sec)
      PROVE  TypeOK' /\ ValuesOK'
  BY <1>0, <1>2 DEF SetState, TypeOK
<1>3. ASSUME NEW p \in Program, Update(p) \/ Flag(p)
      PROVE  TypeOK' /\ ValuesOK'
  BY <1>0, <1>3 DEF Update, Flag, TypeOK, ValuesOK
<1>4. ASSUME NEW ch \in Seq(Topic), NEW t \in Topic, Len(ch) <= ChanCap, Room(ch)
      PROVE  /\ Append(ch, t) \in Seq(Topic) /\ Len(Append(ch, t)) <= ChanCap
             /\ \A i \in 1 .. Len(Append(ch, t)) :
                  Append(ch, t)[i] = t \/ (i \in 1 .. Len(ch) /\ Append(ch, t)[i] = ch[i])
  BY <1>4, UpdaterAssumption DEF Room
<1>5. CASE TellSection
  <2>1. told \in Topic /\ secCh \in Seq(Topic) /\ Len(secCh) <= ChanCap /\ Room(secCh)
    BY <1>5 DEF TellSection, TypeOK, ValuesOK
  <2>2. secCh' \in Seq(Topic) /\ Len(secCh') <= ChanCap
    BY <1>4, <1>5, <2>1 DEF TellSection
  <2> QED
    BY <1>5, <2>2 DEF TellSection, TypeOK, ValuesOK
<1>6. CASE Unlock
  BY <1>6 DEF Unlock, TypeOK, ValuesOK
<1>7. CASE TellState
  <2>1. runnerCh \in Seq(Topic) /\ Len(runnerCh) <= ChanCap /\ Room(runnerCh)
    BY <1>7 DEF TellState, TypeOK
  <2>2. /\ runnerCh' \in Seq(Topic) /\ Len(runnerCh') <= ChanCap
        /\ \A i \in 1 .. Len(runnerCh') : runnerCh'[i] = RunnerTopic
    BY <1>4, <1>7, <2>1 DEF TellState, ValuesOK
  <2> QED
    BY <1>7, <2>2 DEF TellState, TypeOK, ValuesOK
<1>8. ASSUME NEW p \in Program, TellData(p) \/ TellRunning(p)
      PROVE  TypeOK' /\ ValuesOK'
  <2>1. progCh \in Seq(Topic) /\ Len(progCh) <= ChanCap /\ Room(progCh)
    BY <1>8 DEF TellData, TellRunning, TypeOK
  <2>2. progCh' \in Seq(Topic) /\ Len(progCh') <= ChanCap
    BY <1>4, <1>8, <2>1, ZenonT(40) DEF TellData, TellRunning
  <2> QED
    BY <1>8, <2>2, ZenonT(40) DEF TellData, TellRunning, TypeOK, ValuesOK
<1> QED
  BY <1>1, <1>2, <1>3, <1>5, <1>6, <1>7, <1>8 DEF Announce

\* So does a step of the updater, ...
LEMMA UpdaterTypesStep == TypeOK /\ ValuesOK /\ UpdaterStep => (TypeOK /\ ValuesOK)'
<1> SUFFICES ASSUME TypeOK, ValuesOK, UpdaterStep
             PROVE  TypeOK' /\ ValuesOK'
  OBVIOUS
<1> USE Topics DEF announcers, channels, updaterVars, connVars
<1>1. ASSUME NEW ch \in Seq(Topic), Len(ch) <= ChanCap, ch # <<>>
      PROVE  /\ Head(ch) \in Topic /\ Tail(ch) \in Seq(Topic) /\ Len(Tail(ch)) <= ChanCap
             /\ \A i \in 1 .. Len(Tail(ch)) : i + 1 \in 1 .. Len(ch) /\ Tail(ch)[i] = ch[i + 1]
  BY <1>1, UpdaterAssumption
<1>2. CASE TakeSection
  BY <1>1, <1>2 DEF TakeSection, Take, TypeOK, ValuesOK
<1>3. CASE TakeProgram
  BY <1>1, <1>3 DEF TakeProgram, Take, TypeOK, ValuesOK
<1>4. CASE TakeRunner
  BY <1>1, <1>4 DEF TakeRunner, Take, TypeOK, ValuesOK
<1>5. CASE ExhaustChan
  BY <1>1, <1>5, ZenonT(40) DEF ExhaustChan, TypeOK, ValuesOK
<1>6. CASE ReadState
  BY <1>6 DEF ReadState, TypeOK, ValuesOK
<1>7. CASE Publish
  BY <1>7 DEF Publish, TypeOK, ValuesOK
<1>8. CASE WriteFile
  BY <1>8 DEF WriteFile, NoData, TypeOK, ValuesOK
<1>9. ASSUME NEW p \in Program, SaveProgram(p)
      PROVE  TypeOK' /\ ValuesOK'
  BY <1>9 DEF SaveProgram, TypeOK, ValuesOK
<1>10. CASE WriteFails
  BY <1>10 DEF WriteFails, NoData, TypeOK, ValuesOK
<1> QED
  BY <1>2, <1>3, <1>4, <1>5, <1>6, <1>7, <1>8, <1>9, <1>10 DEF UpdaterStep

\* ... and of the connection.
LEMMA ConnTypes == TypeOK /\ ValuesOK /\ ConnStep => (TypeOK /\ ValuesOK)'
<1> SUFFICES ASSUME TypeOK, ValuesOK, ConnStep
             PROVE  TypeOK' /\ ValuesOK'
  OBVIOUS
<1> USE DEF announcers, channels, updaterVars, connVars
<1>1. CASE Connected
  BY <1>1, UpdaterAssumption, SMTT(30) DEF Connected, AllCalm, AllTopics, TypeOK, ValuesOK
<1>2. CASE ConnPublish
  BY <1>2 DEF ConnPublish, TypeOK, ValuesOK
<1>3. ASSUME NEW t \in Topic, ConnRead(t)
      PROVE  TypeOK' /\ ValuesOK'
  BY <1>3 DEF ConnRead, TypeOK, ValuesOK
<1> QED
  BY <1>1, <1>2, <1>3 DEF ConnStep

LEMMA TypesStep == TypeOK /\ ValuesOK /\ [Next]_vars => (TypeOK /\ ValuesOK)'
<1>1. TypeOK /\ ValuesOK /\ UNCHANGED vars => (TypeOK /\ ValuesOK)'
  BY DEF vars, announcers, channels, updaterVars, connVars, TypeOK, ValuesOK
<1> QED
  BY <1>1, AnnounceTypes, UpdaterTypesStep, ConnTypes DEF Next

-----------------------------------------------------------------------------
\* What is announced stays announced until the updater takes it.
LEMMA ShownAnnounce ==
  ASSUME TypeOK, ValuesOK, ShownInv, Announce, NEW t \in Tracked
  PROVE  Shown(t)'
<1> USE Topics DEF announcers, channels, updaterVars, connVars
<1>0. Shown(t)
  BY DEF ShownInv
<1>1. ASSUME NEW u \in Topic, Change(u), UNCHANGED <<updater, topic, read, published>>,
             u = t => Pending(t)', Pending(t) => Pending(t)'
      PROVE  Shown(t)'
  <2>1. UNCHANGED stale
    BY <1>1 DEF Change
  <2>2. u # t => state'[t] = state[t]
    BY <1>1, ChangeStep
  <2> QED
    BY <1>0, <1>1, <2>1, <2>2 DEF Shown
<1>2. ASSUME UNCHANGED <<state, published, connVars, updaterVars>>,
             Pending(t) => Pending(t)'
      PROVE  Shown(t)'
  BY <1>0, <1>2 DEF Shown
<1>3. CASE Lock
  BY <1>1, <1>3 DEF Lock, Pending
<1>4. ASSUME NEW sec \in Section, SetState(sec)
      PROVE  Shown(t)'
  BY <1>1, <1>4 DEF SetState, Pending
<1>5. ASSUME NEW p \in Program, Update(p) \/ Flag(p)
      PROVE  Shown(t)'
  BY <1>1, <1>5 DEF Update, Flag, Pending
<1>6. CASE TellSection
  <2>1. secCh \in Seq(Topic) /\ told \in Topic /\ secCh' = Append(secCh, told)
    BY <1>6 DEF TellSection, TypeOK, ValuesOK
  <2>2. /\ Len(secCh') = Len(secCh) + 1 /\ Len(secCh) \in Nat /\ secCh'[Len(secCh) + 1] = told
        /\ \A i \in 1 .. Len(secCh) : secCh'[i] = secCh[i]
    BY <2>1
  <2>3. Pending(t) => Pending(t)'
    BY <1>6, <2>2 DEF TellSection, Pending
  <2> QED
    BY <1>2, <1>6, <2>3 DEF TellSection
<1>7. CASE Unlock
  BY <1>2, <1>7 DEF Unlock, Pending
<1>8. CASE TellState
  <2>1. runnerCh \in Seq(Topic) /\ runnerCh' = Append(runnerCh, RunnerTopic)
    BY <1>8 DEF TellState, TypeOK
  <2>2. runnerCh' # <<>>
    BY <2>1
  <2> QED
    BY <1>2, <1>8, <2>2 DEF TellState, Pending
<1>9. ASSUME NEW p \in Program, TellData(p) \/ TellRunning(p)
      PROVE  Shown(t)'
  BY <1>2, <1>9 DEF TellData, TellRunning, Pending
<1> QED
  BY <1>3, <1>4, <1>5, <1>6, <1>7, <1>8, <1>9 DEF Announce

\* The updater takes it, and reads it after it has emptied the channel.
LEMMA ShownUpdater ==
  ASSUME TypeOK, ValuesOK, ShownInv, UpdaterStep, NEW t \in Tracked
  PROVE  Shown(t)'
<1> USE Topics DEF announcers, channels, updaterVars, connVars
<1>0. Shown(t) /\ UNCHANGED <<state, runner, told>> /\ t \in Topic
  BY DEF UpdaterStep, TakeSection, TakeProgram, TakeRunner, Take, ExhaustChan, ReadState, Publish,
         WriteFile, WriteFails, SaveProgram, ShownInv
<1>1. ASSUME UNCHANGED <<published, stale>>, updater' # "publish",
             \/ published[t] = state[t] \/ t \in stale
             \/ Pending(t)'
             \/ updater' \in {"exhaust", "read"} /\ topic' = t
      PROVE  Shown(t)'
  BY <1>0, <1>1 DEF Shown
<1>2. CASE TakeSection
  <2>1. /\ secCh \in Seq(Topic) /\ secCh # <<>> /\ topic' = Head(secCh) /\ secCh' = Tail(secCh)
        /\ updater = "select" /\ updater' = "read" /\ UNCHANGED <<published, stale, runnerCh>>
    BY <1>2 DEF TakeSection, Take, TypeOK
  <2>2. ASSUME NEW i \in 1 .. Len(secCh), secCh[i] = t
        PROVE  topic' = t \/ \E j \in 1 .. Len(secCh') : secCh'[j] = t
    <3>1. CASE i = 1
      BY <2>1, <2>2, <3>1
    <3>2. CASE i # 1
      <4>1. i - 1 \in 1 .. Len(secCh') /\ secCh'[i - 1] = secCh[i]
        BY <2>1, <3>2
      <4> QED
        BY <2>2, <4>1
    <3> QED
      BY <3>1, <3>2
  <2>3. Pending(t) => Pending(t)' \/ topic' = t
    BY <1>0, <2>1, <2>2 DEF Pending
  <2> QED
    BY <1>0, <1>1, <2>1, <2>3 DEF Shown
<1>3. CASE TakeProgram
  BY <1>0, <1>1, <1>3 DEF TakeProgram, Take, Shown, Pending
<1>4. CASE TakeRunner
  <2>1. Head(runnerCh) = RunnerTopic
    <3>1. runnerCh \in Seq(Topic) /\ runnerCh # <<>>
      BY <1>4 DEF TakeRunner, Take, TypeOK
    <3>2. Head(runnerCh) = runnerCh[1] /\ 1 \in 1 .. Len(runnerCh)
      BY <3>1
    <3> QED
      BY <3>2 DEF ValuesOK
  <2> QED
    BY <1>0, <1>1, <1>4, <2>1 DEF TakeRunner, Take, Shown, Pending
<1>5. CASE ExhaustChan
  BY <1>0, <1>1, <1>5 DEF ExhaustChan, Shown, Pending
<1>6. CASE ReadState
  BY <1>0, <1>6 DEF ReadState, Shown, Pending
<1>7. CASE Publish
  <2>1. published'[t] = (IF t = topic THEN read ELSE published[t])
    BY <1>0, <1>7 DEF Publish, TypeOK
  <2>2. /\ updater = "publish" /\ updater' \in {"save", "select"}
        /\ UNCHANGED <<topic, secCh, runnerCh>> /\ stale' = stale \ {topic}
    BY <1>7 DEF Publish
  <2>3. Pending(t)' <=> Pending(t)
    BY <1>0, <2>2 DEF Pending
  <2> QED
    BY <1>0, <2>1, <2>2, <2>3 DEF Shown
<1>8. ASSUME WriteFile \/ WriteFails \/ \E p \in Program : SaveProgram(p)
      PROVE  Shown(t)'
  BY <1>0, <1>1, <1>8 DEF WriteFile, WriteFails, SaveProgram, Shown, Pending
<1> QED
  BY <1>2, <1>3, <1>4, <1>5, <1>6, <1>7, <1>8 DEF UpdaterStep

\* UpdateAll publishes what is the case, or leaves the topic out of date.
LEMMA ShownConn ==
  ASSUME TypeOK, ValuesOK, ShownInv, ConnStep, NEW t \in Tracked
  PROVE  Shown(t)'
<1> USE Topics DEF announcers, channels, updaterVars, connVars
<1>0. /\ Shown(t) /\ UNCHANGED <<state, updater, topic, read>> /\ t \in Topic
      /\ Pending(t)' <=> Pending(t)
  BY DEF ConnStep, Connected, ConnPublish, ConnRead, ShownInv, Pending
<1>1. CASE Connected
  BY <1>0, <1>1 DEF Connected, Shown
<1>2. CASE ConnPublish
  <2>1. published'[t] = (IF t = connRead[1] THEN connRead[2] ELSE published[t])
    BY <1>0, <1>2 DEF ConnPublish, TypeOK
  <2> QED
    BY <1>0, <1>2, <2>1 DEF ConnPublish, Shown
<1>3. ASSUME NEW u \in Topic, ConnRead(u)
      PROVE  Shown(t)'
  <2>1. UNCHANGED <<published, stale>>
    BY <1>3 DEF ConnRead
  <2> QED
    BY <1>0, <2>1 DEF Shown
<1> QED
  BY <1>1, <1>2, <1>3 DEF ConnStep

LEMMA ShownStep == TypeOK /\ ValuesOK /\ ShownInv /\ [Next]_vars => ShownInv'
<1> SUFFICES ASSUME TypeOK, ValuesOK, ShownInv, [Next]_vars, NEW t \in Tracked
             PROVE  Shown(t)'
  BY DEF ShownInv, Tracked
<1>1. CASE UNCHANGED vars
  BY <1>1 DEF vars, announcers, channels, updaterVars, connVars, ShownInv, Shown, Pending
<1> QED
  BY <1>1, ShownAnnounce, ShownUpdater, ShownConn DEF Next

-----------------------------------------------------------------------------
\* The data of a program only grows, and what is published or saved was read from it.
LEMMA SavedStep == TypeOK /\ ValuesOK /\ SavedInv /\ [Next]_vars => SavedInv'
<1> SUFFICES ASSUME TypeOK, ValuesOK, SavedInv, [Next]_vars, reconnects' = 0
             PROVE  /\ conn' = {} /\ connRead' = <<>>
                    /\ updater' = "publish" /\ topic'[1] = "data" => read' <= state'[topic']
                    /\ updater' # "save" => DOMAIN saving' = {}
                    /\ \A p \in Program :
                         /\ published'[<<"data", p>>] <= state'[<<"data", p>>]
                         /\ updater' # "save" /\ ~failed' =>
                              p \in DOMAIN saved' /\ saved'[p] >= published'[<<"data", p>>]
                         /\ p \in DOMAIN saving' => saving'[p] >= published'[<<"data", p>>]
  BY DEF SavedInv
<1> USE Topics DEF announcers, channels, updaterVars, connVars
<1>1. reconnects = 0 /\ ~Connected
  <2>1. reconnects \in Nat /\ (Connected => reconnects' = reconnects + 1)
    BY DEF TypeOK, Connected
  <2>2. ~Connected
    BY <2>1
  <2>3. UNCHANGED reconnects
    BY <2>2 DEF Next, Announce, UpdaterStep, ConnStep, vars, Lock, TellSection, Unlock, TellState,
                SetState, Update, TellData, Flag, TellRunning, Change, TakeSection, TakeProgram, TakeRunner,
                Take, ExhaustChan, ReadState, Publish, WriteFile, WriteFails, SaveProgram, ConnPublish, ConnRead
  <2> QED
    BY <2>2, <2>3
<1>2. conn = {} /\ connRead = <<>>
  BY <1>1 DEF SavedInv
<1>3. ~ConnStep
  BY <1>1, <1>2 DEF ConnStep, ConnPublish, ConnRead
<1>4. ASSUME UNCHANGED <<published, updater, topic, read, saving, saved, failed>>,
             conn' = {}, connRead' = <<>>,
             \A t \in Topic : t[1] = "data" => state[t] <= state'[t] /\ state'[t] \in Nat
      PROVE  SavedInv'
  <2>1. /\ topic \in Topic /\ read \in Nat /\ published \in [Topic -> 0 .. MaxChanges]
        /\ state \in [Topic -> 0 .. MaxChanges] /\ MaxChanges \in Nat
    BY UpdaterAssumption DEF TypeOK
  <2>2. updater = "publish" /\ topic[1] = "data" => read <= state'[topic]
    BY <1>1, <1>4, <2>1 DEF SavedInv
  <2>3. ASSUME NEW p \in Program
        PROVE  published[<<"data", p>>] <= state'[<<"data", p>>]
    <3> DEFINE d == <<"data", p>>
    <3>1. d \in Topic /\ d[1] = "data" /\ published[d] <= state[d]
      BY <1>1 DEF SavedInv
    <3>2. published[d] \in Nat /\ state[d] \in Nat /\ state[d] <= state'[d] /\ state'[d] \in Nat
      BY <1>4, <2>1, <3>1
    <3> HIDE DEF d
    <3> QED
      BY <3>1, <3>2 DEF d
  <2> QED
    BY <1>1, <1>4, <2>2, <2>3 DEF SavedInv
<1>5. CASE Announce
  <2>1. UNCHANGED <<published, updater, topic, read, saving, saved, failed>>
    BY <1>5 DEF Announce, Lock, TellSection, Unlock, TellState, SetState, Update, TellData, Flag,
                TellRunning
  <2>2. UNCHANGED <<conn, connRead>>
    BY <1>5 DEF Announce, Lock, TellSection, Unlock, TellState, SetState, Update, TellData, Flag,
                TellRunning, Change
  <2>3. state \in [Topic -> 0 .. MaxChanges] /\ MaxChanges \in Nat
    BY UpdaterAssumption DEF TypeOK
  <2>4. ASSUME NEW u \in Topic, Change(u), NEW t \in Topic, t[1] = "data"
        PROVE  state[t] <= state'[t] /\ state'[t] \in Nat
    <3>1. state'[t] = state[t] \/ state'[t] = state[t] + 1
      BY <2>4, ChangeStep
    <3> QED
      BY <2>3, <3>1
  <2>5. ASSUME NEW t \in Topic, t[1] = "data"
        PROVE  state[t] <= state'[t] /\ state'[t] \in Nat
    <3>1. UNCHANGED state \/ \E u \in Topic : Change(u)
      BY <1>5 DEF Announce, Lock, TellSection, Unlock, TellState, SetState, Update, TellData, Flag,
                  TellRunning
    <3> QED
      BY <2>3, <2>4, <2>5, <3>1
  <2> QED
    BY <1>1, <1>2, <1>4, <2>1, <2>2, <2>5 DEF SavedInv
<1>6. CASE UpdaterStep
  <2>0. /\ topic \in Topic /\ read \in Nat /\ MaxChanges \in Nat
        /\ state \in [Topic -> 0 .. MaxChanges] /\ published \in [Topic -> 0 .. MaxChanges]
    BY UpdaterAssumption DEF TypeOK
  <2>1. /\ UNCHANGED <<state, conn, connRead>> /\ topic \in Topic /\ read \in Nat
        /\ state \in [Topic -> 0 .. MaxChanges] /\ published \in [Topic -> 0 .. MaxChanges]
        /\ MaxChanges \in Nat
    BY <1>6, <2>0
       DEF UpdaterStep, TakeSection, TakeProgram, TakeRunner, Take, ExhaustChan, ReadState, Publish,
           WriteFile, WriteFails, SaveProgram
  <2>2. CASE TakeSection \/ TakeProgram \/ TakeRunner \/ ExhaustChan
    BY <1>1, <1>2, <2>1, <2>2 DEF TakeSection, TakeProgram, TakeRunner, Take, ExhaustChan, SavedInv
  <2>3. CASE ReadState
    BY <1>1, <1>2, <2>1, <2>3 DEF ReadState, SavedInv
  <2>4. CASE Publish
    <3>1. \A t \in Topic : published'[t] = (IF t = topic THEN read ELSE published[t])
      BY <2>1, <2>4 DEF Publish
    <3>2. topic[1] = "data" => updater' = "save" /\ read <= state[topic]
      BY <1>1, <2>4 DEF Publish, Saves, SavedInv
    <3>3. updater = "publish" /\ updater' # "publish" /\ UNCHANGED <<saved, saving, failed>>
      BY <2>4 DEF Publish, Saves
    <3> QED
      BY <1>1, <1>2, <2>1, <3>1, <3>2, <3>3 DEF SavedInv
  <2>5. CASE WriteFile
    BY <1>1, <1>2, <2>1, <2>5 DEF WriteFile, NoData, SavedInv
  <2>6. ASSUME NEW p \in Program, SaveProgram(p)
        PROVE  SavedInv'
    BY <1>1, <1>2, <2>1, <2>6 DEF SaveProgram, SavedInv
  <2>7. CASE WriteFails
    BY <1>1, <1>2, <2>1, <2>7 DEF WriteFails, NoData, SavedInv
  <2> QED
    BY <1>1, <1>6, <2>2, <2>3, <2>4, <2>5, <2>6, <2>7 DEF UpdaterStep, SavedInv
<1>7. CASE UNCHANGED vars
  BY <1>1, <1>7 DEF vars, SavedInv
<1> QED
  BY <1>1, <1>3, <1>5, <1>6, <1>7 DEF Next

\* While it is calm, only UpdateAll is enabled, and changes, which end the calm.
LEMMA CalmStep == TypeOK /\ ValuesOK /\ CalmInv /\ [Next]_vars => CalmInv'
<1> SUFFICES ASSUME TypeOK, ValuesOK, CalmInv, [Next]_vars, calm'
             PROVE  /\ AllCalm'
                    /\ \A t \in Topic \ conn' : published'[t] = state'[t]
                    /\ connRead' # <<>> => connRead'[2] = state'[connRead'[1]]
  BY DEF CalmInv, Topic
<1> USE DEF announcers, channels, updaterVars, connVars
<1>1. ~\E t \in Topic : Change(t)
  BY DEF Change
<1>2. CASE Connected
  BY <1>2 DEF Connected, AllCalm, AllTopics
<1>3. CASE ~Connected
  <2>1. calm
    BY <1>1, <1>3, Topics
       DEF Next, Announce, UpdaterStep, ConnStep, vars, Lock, TellSection, Unlock, TellState,
           SetState, Update, TellData, Flag, TellRunning, TakeSection, TakeProgram, TakeRunner,
           Take, ExhaustChan, ReadState, Publish, WriteFile, WriteFails, SaveProgram, ConnPublish, ConnRead
  <2>2. /\ runner = "select" /\ updating = {} /\ flagging = {} /\ updater = "select"
        /\ secCh = <<>> /\ progCh = <<>> /\ runnerCh = <<>>
    BY <2>1 DEF CalmInv, AllCalm
  <2>3. ~Announce
    BY <1>1, <2>2, Topics DEF Announce, Lock, TellSection, Unlock, TellState, SetState,
                              Update, TellData, Flag, TellRunning
  <2>4. ~UpdaterStep
    BY <2>2 DEF UpdaterStep, TakeSection, TakeProgram, TakeRunner, Take, ExhaustChan, ReadState,
                Publish, WriteFile, WriteFails, SaveProgram
  <2>5. CASE ConnPublish
    <3>1. \A t \in Topic : published'[t] = (IF t = connRead[1] THEN connRead[2] ELSE published[t])
      BY <2>5 DEF ConnPublish, TypeOK
    <3>2. connRead[2] = state[connRead[1]]
      BY <2>1, <2>5 DEF CalmInv, ConnPublish
    <3> QED
      BY <2>1, <2>5, <3>1, <3>2 DEF ConnPublish, CalmInv, AllCalm
  <2>6. ASSUME NEW t \in Topic, ConnRead(t)
        PROVE  CalmInv'
    BY <2>1, <2>6 DEF ConnRead, CalmInv, AllCalm
  <2>7. CASE UNCHANGED vars
    BY <2>1, <2>7 DEF vars, CalmInv, AllCalm
  <2> QED
    BY <1>3, <2>3, <2>4, <2>5, <2>6, <2>7 DEF Next, ConnStep, CalmInv
<1> QED
  BY <1>2, <1>3

-----------------------------------------------------------------------------
\* The invariant of the updater: types, and what is announced, saved and calm.
THEOREM UpdaterInvariant == Spec => [](TypeOK /\ UpdaterInv)
<1>1. Init => TypeOK /\ UpdaterInv
  BY UpdaterInit
<1>2. TypeOK /\ UpdaterInv /\ [Next]_vars => (TypeOK /\ UpdaterInv)'
  BY TypesStep, ShownStep, SavedStep, CalmStep DEF UpdaterInv
<1> QED
  BY <1>1, <1>2, PTL DEF Spec

\* Every variable keeps its type, and no channel holds more than it has room for.
THEOREM UpdaterTypes == Spec => []TypeOK
BY UpdaterInvariant, PTL

\* The topics of valves catch up: no announcement of SetState is lost, and only UpdateAll
\* leaves a topic out of date.
THEOREM ValvesCatchUp == Spec => []SectionsCurrent
<1>1. TypeOK /\ UpdaterInv => SectionsCurrent
  <2> SUFFICES ASSUME UpdaterInv, Quiet, secCh = <<>>, runner # "telling",
                      NEW sec \in Section
               PROVE  <<"valve", sec>> \in stale \/ published[<<"valve", sec>>] = state[<<"valve", sec>>]
    BY DEF SectionsCurrent
  <2>1. <<"valve", sec>> \in Tracked /\ <<"valve", sec>> # RunnerTopic
    BY Topics DEF Tracked
  <2>2. Shown(<<"valve", sec>>)
    BY <2>1 DEF UpdaterInv, ShownInv
  <2> QED
    BY <2>1, <2>2 DEF Shown, Pending, Quiet
<1> QED
  BY <1>1, UpdaterInvariant, PTL

\* The topic of the section runner catches up, though ExhaustChan drops announcements.
THEOREM RunnerCatchesUp == Spec => []RunnerCurrent
<1>1. TypeOK /\ UpdaterInv => RunnerCurrent
  <2> SUFFICES ASSUME UpdaterInv, Quiet, runnerCh = <<>>, runner = "select"
               PROVE  RunnerTopic \in stale \/ published[RunnerTopic] = state[RunnerTopic]
    BY DEF RunnerCurrent
  <2>1. Shown(RunnerTopic)
    BY DEF UpdaterInv, ShownInv, Tracked
  <2> QED
    BY <2>1 DEF Shown, Pending, Quiet
<1> QED
  BY <1>1, UpdaterInvariant, PTL

\* A write of the file that has gone through has saved all that the updater has published
\* of the programs, also what earlier writes failed to save.
THEOREM FileCoversTopics == Spec => []SavedCoversPublished
<1>1. TypeOK /\ UpdaterInv => SavedCoversPublished
  BY DEF UpdaterInv, SavedInv, SavedCoversPublished
<1> QED
  BY <1>1, UpdaterInvariant, PTL

\* After an undisturbed UpdateAll every topic shows what is the case.
THEOREM ReconnectRepairs == Spec => []UpdateAllRepairs
<1>1. TypeOK /\ UpdaterInv => UpdateAllRepairs
  <2> SUFFICES ASSUME TypeOK, UpdaterInv, calm, conn = {}
               PROVE  published = state
    BY DEF UpdateAllRepairs
  <2>1. \A t \in Topic : published[t] = state[t]
    BY DEF UpdaterInv, CalmInv
  <2>2. published \in [Topic -> 0 .. MaxChanges] /\ state \in [Topic -> 0 .. MaxChanges]
    BY DEF TypeOK
  <2> QED
    BY <2>1, <2>2
<1> QED
  BY <1>1, UpdaterInvariant, PTL
=============================================================================
