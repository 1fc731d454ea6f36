------------------------------- MODULE Updater -------------------------------
(***************************************************************************)
(* How changes reach the MQTT broker (mqtt/mqtt_updater.go).  The section  *)
(* runner, the programs and the clients that update them announce each     *)
(* change on one of three buffered channels; the updater goroutine takes   *)
(* an announcement, reads the state it is about and publishes it as a      *)
(* retained message.  It reads under the lock of what it reads, and some   *)
(* of those who announce hold that lock while the channel is full.  When   *)
(* the connection comes back, a goroutine of the MQTT library publishes    *)
(* every topic as well (UpdateAll).                                        *)
(*                                                                         *)
(* State is abstracted to what a topic shows: for each section its valve,  *)
(* for each program the version of its data and its running flag, and the  *)
(* version of the section runner's state.  Which change comes when is left *)
(* open.  The broker keeps, for each topic, the last value published.      *)
(***************************************************************************)
EXTENDS Naturals, Sequences

CONSTANTS
  Section, Program,
  ChanCap,       \* capacity of each channel (10 in NewMQTTUpdater)
  MaxChanges,    \* bound: changes of all kinds together
  MaxReconnects  \* bound: how often the connection is (re)established

RunnerTopic == <<"section_runner">>
Topic == ({"valve"} \X Section) \cup ({"data", "running"} \X Program) \cup {RunnerTopic}

\* UpdateAll publishes the programs, then the sections, then the section runner.
Rank(t) == IF t = RunnerTopic THEN 3 ELSE IF t[1] = "valve" THEN 2 ELSE 1

ASSUME UpdaterAssumption ==
  ChanCap \in Nat \ {0} /\ MaxChanges \in Nat /\ MaxReconnects \in Nat

VARIABLES
  state,      \* what each topic should show: 0 or 1, or a version
  changes,    \* how many changes there were
  \* --- those who announce
  runner,     \* the section runner: "select", "locked", "telling" a valve, "after" a handler
  told,       \* the section whose valve the runner is announcing
  updating,   \* programs whose lock an Update holds while it announces
  flagging,   \* programs that announce their running flag, without a lock
  \* --- channels
  secCh, progCh, runnerCh,
  \* --- the updater goroutine
  updater,    \* "select", "exhaust", "read", "publish" or "save"
  topic,      \* the topic it updates
  read,       \* the value it read for it
  saving,     \* the data of the programs WriteConfig has converted so far
  saved,      \* the data of each program in the config file, NoData if it cannot be parsed
  failed,     \* history: the last write of the file failed
  \* --- the connection handler
  conn,       \* topics UpdateAll still has to publish
  connRead,   \* the value it read for the topic in hand, or none
  reconnects,
  calm,       \* history: all was quiet when it connected, and nothing changed since
  stale,      \* history: topics for which UpdateAll published last what was no longer so
  \* --- the broker
  published

announcers == <<state, changes, runner, told, updating, flagging>>
channels   == <<secCh, progCh, runnerCh>>
updaterVars == <<updater, topic, read, saving, saved, failed>>
connVars   == <<conn, connRead, reconnects, calm, stale>>
vars       == <<announcers, channels, updaterVars, connVars, published>>

NoData == [p \in {} |-> 0]

Init ==
  /\ state = [t \in Topic |-> 0] /\ published = state /\ changes = 0
  /\ runner = "select" /\ told = <<>> /\ updating = {} /\ flagging = {}
  /\ secCh = <<>> /\ progCh = <<>> /\ runnerCh = <<>>
  /\ updater = "select" /\ topic = RunnerTopic /\ read = 0
  /\ saving = NoData /\ saved = [p \in Program |-> 0] /\ failed = FALSE
  /\ conn = {} /\ connRead = <<>> /\ reconnects = 0 /\ calm = FALSE /\ stale = {}

Change(t) ==
  /\ changes < MaxChanges
  /\ changes' = changes + 1
  /\ state' = [state EXCEPT ![t] = IF t[1] \in {"valve", "running"} THEN 1 - @ ELSE @ + 1]
  /\ calm' = FALSE
  /\ UNCHANGED <<conn, connRead, reconnects, stale>>

\* Takes one announcement too many.
MutantRoom(ch) == Len(ch) <= ChanCap

\* A send on a channel does not block.
Room(ch) == Len(ch) < ChanCap

-----------------------------------------------------------------------------
(* The section runner: a handler holds the state's lock and switches       *)
(* valves, announcing each one; after it unlocks it announces the state.   *)

Lock ==
  /\ runner = "select"
  /\ Change(RunnerTopic)
  /\ runner' = "locked"
  /\ UNCHANGED <<told, updating, flagging, channels, updaterVars, published>>

SetState(sec) ==
  /\ runner = "locked"
  /\ Change(<<"valve", sec>>)
  /\ told' = <<"valve", sec>>
  /\ runner' = "telling"
  /\ UNCHANGED <<updating, flagging, channels, updaterVars, published>>

\* sec.updateChan <- SecUpdate: blocks while the channel is full, with the lock held.
TellSection ==
  /\ runner = "telling" /\ Room(secCh)
  /\ secCh' = Append(secCh, told)
  /\ runner' = "locked"
  /\ UNCHANGED <<state, changes, told, updating, flagging, progCh, runnerCh,
                 updaterVars, connVars, published>>

Unlock ==
  /\ runner = "locked"
  /\ runner' = "after"
  /\ UNCHANGED <<state, changes, told, updating, flagging, channels,
                 updaterVars, connVars, published>>

\* stateUpdate
TellState ==
  /\ runner = "after" /\ Room(runnerCh)
  /\ runnerCh' = Append(runnerCh, RunnerTopic)
  /\ runner' = "select"
  /\ UNCHANGED <<state, changes, told, updating, flagging, secCh, progCh,
                 updaterVars, connVars, published>>

-----------------------------------------------------------------------------
(* Programs: Update changes the data and announces it before it unlocks;   *)
(* a run sets or clears the running flag and announces that.               *)

Update(p) ==
  /\ p \notin updating
  /\ Change(<<"data", p>>)
  /\ updating' = updating \cup {p}
  /\ UNCHANGED <<runner, told, flagging, channels, updaterVars, published>>

TellData(p) ==
  /\ p \in updating /\ Room(progCh)
  /\ progCh' = Append(progCh, <<"data", p>>)
  /\ updating' = updating \ {p}
  /\ UNCHANGED <<state, changes, runner, told, flagging, secCh, runnerCh,
                 updaterVars, connVars, published>>

Flag(p) ==
  /\ p \notin flagging
  /\ Change(<<"running", p>>)
  /\ flagging' = flagging \cup {p}
  /\ UNCHANGED <<runner, told, updating, channels, updaterVars, published>>

TellRunning(p) ==
  /\ p \in flagging /\ Room(progCh)
  /\ progCh' = Append(progCh, <<"running", p>>)
  /\ flagging' = flagging \ {p}
  /\ UNCHANGED <<state, changes, runner, told, updating, secCh, runnerCh,
                 updaterVars, connVars, published>>

-----------------------------------------------------------------------------
(* The updater.                                                            *)

\* The topics whose state can be read: its lock is free, or it has none.
Readable(t) ==
  /\ t = RunnerTopic => runner \notin {"locked", "telling"}
  /\ t[1] = "data" => t[2] \notin updating

Take(ch, next) ==
  /\ updater = "select" /\ ch # <<>>
  /\ topic' = Head(ch) /\ updater' = next
  /\ UNCHANGED <<announcers, read, saving, saved, failed, connVars, published>>

\* Empties the channel, as the other two cases do.
MutantTakeSection ==
  /\ Take(secCh, "read") /\ secCh' = <<>>
  /\ UNCHANGED <<progCh, runnerCh>>

\* case secUpdate: every announcement is followed up.
TakeSection ==
  /\ Take(secCh, "read") /\ secCh' = Tail(secCh)
  /\ UNCHANGED <<progCh, runnerCh>>

\* case progUpdate, case srState: first empty the channel.
TakeProgram ==
  /\ Take(progCh, "exhaust") /\ progCh' = Tail(progCh)
  /\ UNCHANGED <<secCh, runnerCh>>

TakeRunner ==
  /\ Take(runnerCh, "exhaust") /\ runnerCh' = Tail(runnerCh)
  /\ UNCHANGED <<secCh, progCh>>

\* ExhaustChan: receive and drop, until nothing is there.
ExhaustChan ==
  /\ updater = "exhaust"
  /\ \/ /\ topic = RunnerTopic /\ runnerCh # <<>>
        /\ runnerCh' = Tail(runnerCh) /\ UNCHANGED <<progCh, updater>>
     \/ /\ topic # RunnerTopic /\ progCh # <<>>
        /\ progCh' = Tail(progCh) /\ UNCHANGED <<runnerCh, updater>>
     \/ /\ (IF topic = RunnerTopic THEN runnerCh ELSE progCh) = <<>>
        /\ updater' = "read" /\ UNCHANGED <<progCh, runnerCh>>
  /\ UNCHANGED <<announcers, secCh, topic, read, saving, saved, failed, connVars, published>>

\* The state is read, under its lock if it has one ...
ReadState ==
  /\ updater = "read" /\ Readable(topic)
  /\ read' = state[topic]
  /\ updater' = "publish"
  /\ UNCHANGED <<announcers, channels, topic, saving, saved, failed, connVars, published>>

\* Writes the file when a program starts or stops.
MutantSaves(t) == t[1] = "running"

\* ProgUpdateData: the config file is written as well.
Saves(t) == t[1] = "data"

\* Empties the channel when it is done, not before it reads.
MutantPublish ==
  /\ updater = "publish"
  /\ published' = [published EXCEPT ![topic] = read]
  /\ updater' = IF Saves(topic) THEN "save" ELSE "select"
  /\ runnerCh' = IF topic = RunnerTopic THEN <<>> ELSE runnerCh
  /\ stale' = stale \ {topic}
  /\ UNCHANGED <<announcers, secCh, progCh, topic, read, saving, saved, failed,
                 conn, connRead, reconnects, calm>>

\* ... and published.
Publish ==
  /\ updater = "publish"
  /\ published' = [published EXCEPT ![topic] = read]
  /\ updater' = IF Saves(topic) THEN "save" ELSE "select"
  /\ stale' = stale \ {topic}
  /\ UNCHANGED <<announcers, channels, topic, read, saving, saved, failed,
                 conn, connRead, reconnects, calm>>

\* WriteConfig converts each program under its lock ...
SaveProgram(p) ==
  /\ updater = "save" /\ p \notin DOMAIN saving /\ p \notin updating
  /\ saving' = [q \in DOMAIN saving \cup {p} |-> IF q = p THEN state[<<"data", p>>] ELSE saving[q]]
  /\ UNCHANGED <<announcers, channels, updater, topic, read, saved, failed, connVars, published>>

\* ... and writes the file.
WriteFile ==
  /\ updater = "save" /\ DOMAIN saving = Program
  /\ saved' = saving /\ failed' = FALSE
  /\ saving' = NoData /\ updater' = "select"
  /\ UNCHANGED <<announcers, channels, topic, read, connVars, published>>

\* That fails: the file cannot be opened, or it has been truncated and is not filled.
\* The updater logs it and goes on; nothing writes the file until data changes again.
WriteFails ==
  /\ updater = "save" /\ DOMAIN saving = Program
  /\ saved' \in {saved, NoData} /\ failed' = TRUE
  /\ saving' = NoData /\ updater' = "select"
  /\ UNCHANGED <<announcers, channels, topic, read, connVars, published>>

-----------------------------------------------------------------------------
(* The connection handler of the MQTT library: UpdateAll.                  *)

\* Everyone who announces, and the updater, has nothing to do.
AllCalm ==
  /\ runner = "select" /\ updating = {} /\ flagging = {}
  /\ channels = <<<<>>, <<>>, <<>>>> /\ updater = "select"

\* Leaves out the running flags.
MutantAllTopics == {t \in Topic : t[1] # "running"}

AllTopics == Topic

Connected ==
  /\ conn = {} /\ reconnects < MaxReconnects
  /\ conn' = AllTopics /\ connRead' = <<>> /\ reconnects' = reconnects + 1
  /\ calm' = AllCalm
  /\ UNCHANGED <<stale, announcers, channels, updaterVars, published>>

ConnRead(t) ==
  /\ t \in conn /\ \A u \in conn : Rank(t) <= Rank(u)
  /\ connRead = <<>> /\ Readable(t)
  /\ connRead' = <<t, state[t]>>
  /\ UNCHANGED <<announcers, channels, updaterVars, conn, reconnects, calm, stale, published>>

ConnPublish ==
  /\ connRead # <<>>
  /\ published' = [published EXCEPT ![connRead[1]] = connRead[2]]
  /\ conn' = conn \ {connRead[1]} /\ connRead' = <<>>
  /\ stale' = IF connRead[2] = state[connRead[1]] THEN stale \ {connRead[1]}
              ELSE stale \cup {connRead[1]}
  /\ UNCHANGED <<announcers, channels, updaterVars, reconnects, calm>>

-----------------------------------------------------------------------------
Announce ==
  \/ Lock \/ TellSection \/ Unlock \/ TellState
  \/ \E sec \in Section : SetState(sec)
  \/ \E p \in Program : Update(p) \/ TellData(p) \/ Flag(p) \/ TellRunning(p)

UpdaterStep ==
  \/ TakeSection \/ TakeProgram \/ TakeRunner \/ ExhaustChan \/ ReadState \/ Publish
  \/ WriteFile \/ WriteFails \/ \E p \in Program : SaveProgram(p)

ConnStep == Connected \/ ConnPublish \/ \E t \in Topic : ConnRead(t)

Next == Announce \/ UpdaterStep \/ ConnStep

Spec == Init /\ [][Next]_vars

-----------------------------------------------------------------------------
(* Properties.                                                             *)

TypeOK ==
  /\ state \in [Topic -> 0 .. MaxChanges] /\ published \in [Topic -> 0 .. MaxChanges]
  /\ changes \in 0 .. MaxChanges /\ reconnects \in 0 .. MaxReconnects
  /\ runner \in {"select", "locked", "telling", "after"} /\ told \in Topic \cup {<<>>}
  /\ updating \subseteq Program /\ flagging \subseteq Program
  /\ \A ch \in {secCh, progCh, runnerCh} : ch \in Seq(Topic) /\ Len(ch) <= ChanCap
  /\ updater \in {"select", "exhaust", "read", "publish", "save"}
  /\ topic \in Topic /\ read \in 0 .. MaxChanges
  /\ DOMAIN saving \subseteq Program /\ saved \in [Program -> 0 .. MaxChanges] \cup {NoData}
  /\ failed \in BOOLEAN /\ calm \in BOOLEAN /\ stale \subseteq Topic /\ conn \subseteq Topic
  /\ (connRead = <<>> \/ connRead[1] \in conn)

\* No publisher is in the middle of a topic.
Quiet == updater = "select" /\ connRead = <<>>

\* "MQTTUpdater updates MQTT topics with the current state of the application": once
\* the announcements of valves are dealt with, their topics show what is the case.  Only
\* UpdateAll can leave one out of date, by publishing what it read before a change, and
\* only until the updater publishes that topic again.
SectionsCurrent ==
  Quiet /\ secCh = <<>> /\ runner # "telling" =>
    \A sec \in Section :
      <<"valve", sec>> \in stale \/ published[<<"valve", sec>>] = state[<<"valve", sec>>]

\* The same for the section runner, whose announcements may be dropped.
RunnerCurrent ==
  Quiet /\ runnerCh = <<>> /\ runner = "select" =>
    RunnerTopic \in stale \/ published[RunnerTopic] = state[RunnerTopic]

\* Once a write of the file has gone through, the file covers all that the updater has
\* published of every program, whichever announcement made it write, and also what
\* earlier writes failed to save.  After a write that failed nothing is promised.
SavedCoversPublished ==
  updater = "select" /\ reconnects = 0 /\ ~failed =>
    \A p \in Program : p \in DOMAIN saved /\ saved[p] >= published[<<"data", p>>]

\* "UpdateAll updates all mqtt data": whatever was lost before, after a connection made
\* when nothing was going on, every topic shows what is the case.
UpdateAllRepairs == calm /\ conn = {} => published = state

-----------------------------------------------------------------------------
(* Statements one would like to make of the code and it does not keep; TLC *)
(* finds a counterexample to each.                                         *)

\* Once the announcements of programs are dealt with, their topics show what is the
\* case.  An announcement is dropped that is about another program than the one taken,
\* or about the other topic of the same one.
ProgramsCurrent ==
  Quiet /\ reconnects = 0 /\ progCh = <<>> =>
    \A p \in Program :
      /\ p \notin updating => published[<<"data", p>>] = state[<<"data", p>>]
      /\ p \notin flagging => published[<<"running", p>>] = state[<<"running", p>>]

\* What the updater has published of a program is in the file too, so a restart does not
\* take it back.  WriteConfig may fail, and the topic has been published by then.
FileCurrent ==
  updater = "select" /\ reconnects = 0 =>
    \A p \in Program : p \in DOMAIN saved /\ saved[p] >= published[<<"data", p>>]

\* The updater never waits for a lock whose holder waits for room in a channel that
\* the updater would have to empty: SetState announces under the lock of the runner's
\* state, and Update under that of the program.
LocksFree ==
  updater = "read" =>
    /\ topic = RunnerTopic => runner # "telling" \/ Room(secCh)
    /\ topic[1] = "data" => topic[2] \notin updating \/ Room(progCh)
=============================================================================
