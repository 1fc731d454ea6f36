# Grinklers in TLA+

Grinklers is a sprinklers controller in Go: it opens one irrigation valve at a
time, on request and by the schedules of its programs, and keeps an MQTT broker
informed. This directory models the controller, model-checks it with TLC and
proves the main invariants of its core with TLAPS. Line numbers below are those
of the sources in this repository.

## 1. Inventory

| Component | State | Operations | Hard behaviours |
| --- | --- | --- | --- |
| Run queue, `logic/section_runner.go:54-187` | slots, head, tail | Push, Pop, RemoveWithSection, RemoveByID, RemoveAll | wrapping, doubling, holes of removed runs, popped runs left in their slots |
| Section runner, `logic/section_runner.go` | queue, current run, paused; the valve and the timer; four channels; one Done channel per run | run, cancel by section, by id, all; pause, unpause, quit | four channels are received in any order, a timer may be handled late, sends on Done in the middle of a handler |
| Program, `logic/program.go` | data under a lock, the running flag, two unbuffered channels | run, cancel, refresh, quit; the goroutine that plans; the goroutines that run | the flag is read and used at different times, an update holds the lock over a rendezvous |
| Program data, `datamodel/program_json.go` | none of its own | Update, ProgramToJSON, conversions | a failure halfway, a send with the lock held |
| Schedule, `sched/sched.go` | times, days of the week, two dates | NextRunAfterTime | ranges without a year that pass the new year, times that have passed today, ends of ranges |
| MQTT updater, `mqtt/mqtt_updater.go` | three channels of capacity 10 | announce, exhaust, read, publish, write the file | dropped announcements, locks, full channels |
| MQTT API, `mqtt/mqtt_api.go` | the connection | requests, UpdateAll when connected | UpdateAll runs beside the updater; requests are handled one at a time |
| Configuration, `config/config.go` | the file | LoadConfig, WriteConfig | written in place: a crash in the middle, a write that fails |
| Server, `grinklers_server/server.go` | where `main` is; the valves it closes | start, wait for a signal, shutdown | parts stopped one by one while the others go on; death with valves open |
| Schedule parser, `sched/parser.go` | tokens, the position of the next | Parse | look-ahead of two, a parser used again, spans of days, 12-hour times |
| HTTP client, `http/http_api.go` | the device's data | Register, Connect | failures that `main` logs and goes on from |
| Section interfaces, `logic/*_section_interface.go` | the pins | Set, Get | pins outlive the process |
| Demo client, errors and logging | - | - | none: sequential code, plain I/O |

How they interact. MQTT requests call the section runner (sends on its buffered
channels) and the programs (sends on an unbuffered channel; `Update` under the
program's lock). A program's run asks the section runner for one run per item
and waits on their Done channels; cancelled, it cancels the rest by id. Section
runner, sections and programs announce changes on the updater's channels,
sections and `Update` with a lock held that the updater needs too. The updater
publishes and writes the file; the MQTT library's goroutine publishes everything
on each connection. `main` starts the section runner, closes every valve, starts the
programs, registers the device, writes the file, connects, and starts the updater;
at an interrupt it stops the updater, the connection, the programs and the section
runner in this order, waits for the last two and closes every valve again.

What makes each correct: the queue is first in, first out, through holes and
growth; the runner opens exactly the valve of the run being watered, waters each
for its time, never idles with work queued, forgets no receiver; a program runs
once at a time, by a plan that follows its data, leaving no section run behind;
a schedule is kept on its days, at its times, in its range; the topics and the
file catch up with the state; the server leaves no valve open when it ends, and
none it does not know of while it runs; the parser accepts the sentences of its
grammar, with their meaning, and nothing else.

## 2. Modules

| Module | What it is |
| --- | --- |
| `SRQueue` | the ring as a record and its operations as operators |
| `Line` | runs in line, as a function from each to those behind it |
| `FifoQueue` | what a client expects of the queue: a line |
| `RingQueue`, `MCRingQueue` | the ring on its own, any operation in any order; refines `FifoQueue` |
| `SectionRunner`, `MCSectionRunner` | clients, channels, goroutine, timer, valves |
| `SectionService` | what the runner promises: a line, the run being served, paused; without channels, ring, timers or Done channels |
| `Program`, `MCProgram` | starter, runs, clients of one program; the section runner is its environment |
| `Schedule` | `sched.go` as operators on a scaled calendar |
| `Planner`, `MCPlanner` | the starter's planning against a clock |
| `Updater`, `MCUpdater` | announcements, updater, connection handler, broker, file |
| `ScheduleGrammar` | what a written schedule is and means, as a set of sentences |
| `Parser`, `MCParser` | `parser.go`, token by token |
| `Server`, `MCServer` | `main`, from start-up to its return, with the parts it starts and stops, death and restart |
| `SRQueueProofs`, `RingQueueProofs`, `SectionRunnerProofs`, `ProgramProofs`, `PlannerProofs`, `UpdaterProofs`, `ServerProofs`, `ParserProofs` | theorems |

An operator named `Mutant...` is a plausible mistake in the operator it precedes.
It is used by nothing; put in that operator's place it must break a property.

**SRQueue.** `items`, `len`, `head`, `tail` are the fields of the struct, a nil
slot is `Nil`. The loops `for i := head; i != tail` are the set `Window`, with
`Offset` the number of steps from head; `Pop`'s recursion over holes is `First`.
`Scanned` is the window and the slot at tail, which two removals also look at. `LineOf`
is the line a ring stands for: the runs in its window, each with those farther from
head behind it. It is the refinement mapping of both abstract specifications. A line is
a function and not a sequence since what an operation does to it can then be said, and
proved, run by run; `SliceIsLine` ties it to `ToSlice`, the sequence clients are shown.

**SectionRunner.** A client's call is drawing the id and the send, two actions
for a run, since two callers may send in the other order. Each `case` of the
`select` is an action `Handle...`. A handler holds the state's lock to its end, so
it is one step, except where it sends on a Done channel, which can block: a
cancel is `Withdraw`, then `NotifyRemoved` for each run, then `EndNotify`, and
the current run ends in `BeginFinish` and `HandOver`. A run's pointer and its
struct are one record without the changing fields, which are `left` (Duration of the
current run) and `elapsed` (now minus UnpauseTime, or minus StartTime). Time is
`Tick`: it moves only while a timer runs, as nothing else depends on it, and no
further than `MaxLate` past the expiry. `CancelID` is called with ids that were
given out; any other finds nothing, and -1 is `CancelAll`.

**Program.** The rendezvous on `runner` and `cancelRun` are one step of two
processes. `lock` names a client only across `Update`'s blocking `Refresh`; the
other critical sections are single steps that need it free. Of the data the
model keeps the number of items, whether it is enabled, whether the schedule has a
next run, and the name. `OnUpdate` can block when its channel is full; that is in
`Updater`, not here.

**Schedule, Planner.** A year of `YearLen` days, a week of `WeekLen`, a day of
`DayLen` ticks; month and day are one day of the year, year 0 means every year as
in the code. `weeks(n)` is n days, as in the code. `ScheduleType` has the schedules
whose times lie within a day; the JSON of a program is not checked for that, and neither are
the minutes and seconds of a written schedule. `Planner` keeps the starter's
loop; its clock only moves on while the starter sleeps, at most `MaxLate` past a due
run, and the starter is at least one tick late, since it reads the clock again
after its timer has fired. `Meant` says which ranges mean something: one in which a single
date names its year, or whose dates of named years are in the wrong order, is read by the
code in some way, and of its runs only `NeverTwice` and `NoneMissed` speak.

**Updater.** What a topic shows is a number: a valve, a flag, or a version. Every
announcer's change, send and unlock are separate actions, with the locks in
`Readable` and `runner`. The model begins when the first publication is done. The
broker keeps the last value of each topic; a publication to a broker that is
away is left to the library, which is external. `UpdateAll`'s order of topics is
`Rank`. `WriteConfig` converts the programs one by one (`SaveProgram`) and then writes the file
(`WriteFile`) or fails to (`WriteFails`): the file is as it was, or truncated and of no use (`NoData`), and the
updater only logs that (`mqtt_updater.go:103-105`). Three history variables serve the properties:
`failed` (the last write failed), `calm` (nothing went on since the connection) and
`stale`, the topics for which `UpdateAll` published last a value that had changed since it was
read, until somebody publishes the topic again.

**ScheduleGrammar, Parser.** `pc` is the place in the functions, an action one step
at one token; `Accept` is `accept` and `expect`, which differ in where they lead
when the token is not there. The local numbers are the record `num`. `tokenize` runs
before the parser in the code; here a token is chosen when the parser first looks
at it, so two inputs are told apart only where the parser tells them apart. `Needed` is
how far it looks: to the next token, or to the one behind it after AND. The
regular expressions are left out: a token is its type, with a number or a weekday.
`ScheduleGrammar` says the same language without a parser, by concatenation of
phrases that carry their meanings; it has the code's one deviation, a date
without its slash (see section 5).

**Server.** The composition: `main`, the section runner, the programs' starters and
bodies, the updater and the handler of MQTT requests, with the channels between
them. It keeps every wait that can hold up another part - full channels, unbuffered
channels, the lock of the runner's state that the updater also takes
(`ReadState`), the wait group - and less of the data than the modules of the parts:
the queue is a sequence, a run's timer fires at some time, of announcements only
their number counts, requests are three of the eight (run and cancel a program, run a section).
A body that finds the flag set has no effect. A handler of the runner is one action up to
each place where it may block: "opening" and "closing" are before `SetState`'s
announcement, with the lock held, "telling" before `stateUpdate`'s, without. A program's
flag is set and cleared before that is announced (`Flag`, `Begin`; `Stop`, `End`), so
its next run may begin while the last has an announcement to make (`ending`).
`Die` is any end of the process that is not the interrupt `main` waits for, the
panic of `ConnectFails` included; the valves (`on`) and the file stay. The file
is "broken" between truncating it and filling it; a write that fails in either place
(`WriteFails`) leaves it as it is then, and `main` goes on (`server.go:76`).

## 3. Runs

| Run | Bounds | Shows |
| --- | --- | --- |
| `MCRingQueue` | 4 runs of 2 sections, rings of 1, 2, 3 slots that grow to 8 | type; `ToSlice` is the line; refinement of `FifoQueue` |
| `MCRunner` | 2 runs of 2 sections, ring of 1, channels of 1; all cancels, pause, unpause; a timer 1 late | one place per run, never idle, no receiver forgotten, section cancels complete, valves, timer, water, full runs, refinement of `SectionService`, no deadlock |
| `MCRunnerLive` | 2 runs of one section, ring of 2, channels of 1; pause, unpause, a program that cancels its run and leaves, cancels of the section and of all, quit; a timer 1 late | a valve closes, runs end, up to finding 1 |
| `MCProgramSafe` | 2 clients, 2 goroutines, 2 items, three kinds of new data | type, one body, plan, nothing left behind, the inductive invariant (with the flag) |
| `MCPlanner` | year of 5 days, week of 3, day of 4 ticks, two years and 2 ticks, 1 refresh | daily schedules are kept, a starter at most 1 tick late; plans lie in range, no run twice |
| `MCUpdater` | 2 sections, 2 programs, channels of 2, 3 changes, 1 reconnection; any write may fail | topics and file catch up |
| `MCParser` | numbers 12 and 100 and one too big, Monday and Saturday, inputs of 10 tokens and the end, any number of parses | type, look-ahead inside the input, what is accepted is a sentence with its meaning, no sentence is refused |
| `MCServer` | 1 program of 2 sections, runner's channels of 1, announcements of 3, 2 events (timers, requests, deaths, a failed write) and a signal | types, valves known, all closed at exit; shutdown, runs and requests come to an end unless something is stuck for good |
| `MCRunnerDone` | 3 runs, cancel-all | **fails**: a Done channel gets a second value |
| `MCProgramUpdateStuck` | 1 client, 1 goroutine | **fails**: an update and the starter block each other |
| `MCPlannerWeekdays` | year of 7 days | **fails**: a run on a day not named |
| `MCPlannerSeason` | year of 7 days, one schedule | **fails**: no next run late in the year |

Why the bounds are enough. A ring of one slot grows when its first run is queued and
wraps; two runs give one current and one queued, which a removal makes a
hole; the ring alone is explored deeper in `MCRingQueue`. Channels of one slot make
every send wait, and still let two channels be received in either order. A timer
that is one tick late makes a remaining time negative. Two goroutines are enough for
two to compete for the flag. The small year has every position of "today"
relative to both ends of a range, the day has times at midnight and after it,
and the horizon covers the new year. Three changes are enough for the runner to
announce two valves under one lock, or for three announcements to meet in one channel.
Ten tokens hold a time with all its parts and a span of days, or two times, or a time and a
date with its year; 12 is the hour that am and pm treat apart and a year that
needs its century, 100 is past both; from Saturday to Monday the week ends.
Two events of the server are a run and a request that meets it, a run and a death,
a request and a second one behind it; with announcement channels of three a run of
the program can fill them, and need not.
The runs that end where a bound is reached (a clock at `Horizon`, changes used up)
or where the system stops (quit, exit; the stops in section 5) say
`CHECK_DEADLOCK FALSE`; `MCRingQueue`, `MCRunner` and `MCParser` do not.

What the liveness properties excuse. `ValveCloses` and `EveryRunEnds` excuse `Stalled`: the runner
sends on a Done channel that is full and that nobody will receive from. This is how finding 1
of section 5 ends at its worst, and it is within the bounds of `MCRunnerLive`: a run that was popped stays in
its slot, its program cancels it and leaves without receiving, the tail comes round to
that slot while another run is being watered, and a cancel of all tells the first run again. The runner then waits
for ever, with the lock held and the valve open. Neither property holds without the excuse. It excuses
no passing delay: `StalledForGood` says that such a runner stays so, and is
proved (`StallsForGood`). What the run shows is that nothing else keeps a valve open or a run from its
end: no order of pauses and of cancels on either channel, no full channel, no late timer.
In `MCRunner`, which finds no deadlock, no program leaves a run; with `"cancelOwn"` finding 1 can block the runner there.

The three liveness properties of `Server` have the premise that it is not stuck for ever. `Stuck` is
an announcement for which nobody makes room, or a cancel for which nobody is left to receive it: 10 and
6 of section 5. A channel that is full for a moment is no excuse. What the properties show is that among what `Server`
has - the order of stops, quits, waits and locks, and three kinds of requests - no other
way exists to hold up the shutdown, a run, or a request. There are more ways outside it: an update
that blocks a starter (finding 2) and a Done channel that is full (finding 1) are
in `Program` and `SectionRunner`, and 9, the locks of updater and announcers, is in `Updater`;
`Server` has no updates of programs, and its runner no slots of a ring.
`RunEnds` has one sequence of two items whose runs end in their order; a sequence without items
and runs that end in another order are in `Program`, for safety only.

Fairness, in `FairSpec` of `SectionRunner`, `Program` and `Server` only. A goroutine does
not stop between statements (weak fairness of its steps). Go's `select` picks
uniformly among ready cases, a mutex is handed to a waiter that has waited, and
senders blocked on a channel are served in order; each such step gets strong
fairness. In `SectionRunner` only new runs and the timer need it: `ValveCloses` and `EveryRunEnds` hold
though no cancel or pause need ever be looked at, and weak fairness is enough for the sends of
runs, of which there are `MaxRuns`. Time passes. A program or `RunSection` that waits on Done receives from it.
No fairness is assumed of calls clients choose to make. A section run that was
given to the section runner ends (`SectionEnds`), which is what `EveryRunEnds`
says of the section runner, unless it stays paused or is stalled. In `Server`, start-up, the runner, the
updater and the bodies get weak fairness, since a step of theirs stays enabled
until it is taken; `main`'s shutdown and the handler of requests get strong fairness, since they
wait for a starter or a runner that is at its `select` again and again, or for
room in a channel that others use too. Nobody has to signal, request, die or restart.

## 4. Proofs

TLAPS checks these for all values of the constants allowed by the named
assumptions (`RingAssumption`, `ConstantsAssumption`, `ProgramAssumption`, `CalendarAssumption`,
`PlannerAssumption`, `UpdaterAssumption`, `ServerAssumption`, `GrammarAssumption`,
`TooBigAssumption`). Those say of what kind a constant is, that ids tell runs apart, that `Nil` and
`NoDate` are no runs and no dates, that the number `Atoi` cannot represent is none of those that can
mean something, and of schedules that their times lie within a day.

*SRQueueProofs.* A new ring is one, and `Push`, `Pop` and any removal keep it one
(`PushType`, `PopType`, `RemoveType`). Distances from head tell slots apart
(`OffsetInjective`), so there is a first live slot whenever there is a live one
(`FirstLive`); `Pop` takes exactly the run it returns out of the live slots, so that
what it skips are holes (`PopLive`), and a removal exactly the slots it clears.
The index arithmetic is written with
`IF` in place of `%`, which the solvers do not handle well. The lemmas on `LineOf` say what each
operation does to the line: `LinePush` that the run joins it, also when the ring grows
and every slot moves, `LinePop` that its first leaves, `LineRemove` that those stay that are
kept, in their order.

*RingQueueProofs.* `RingInvariant`: `Spec => []RingInv`, the type and `Distinct`, no run twice in the
window, without which a popped run might stay in line. `RingShape` and the refinement `RingIsFifo` follow:
each action of the ring, in a state of `RingInv`, is an action of `FifoQueue` on `LineOf(q)`.
`RingSlice` adds that `ToSlice`, which walks the window slot by slot, lists exactly that line in its order:
after k slots it has listed the runs of those slots, each at the place that tells how many are before it.

*SectionRunnerProofs.* `RunnerInvariant`: `Spec => [](TypeOK /\ SafetyInv)`.
`SafetyInv` has the five properties that matter - `ValveInterlock`, `TimerArmed`,
`WaterAccounted`, `FinishedFull`, `WorkConserving` - and two that make them inductive:
`EndingMatches` ties how a run is ending to where the goroutine is, without which
nothing is known of the current run at `HandOver`; `TimerMatches` ties the timer
to the Duration it was armed with, without which a pause could not be shown to
subtract the right time. The step is one lemma per group of actions.
`TypeCorrect`, `OneValve`, `TimerFollowsWater`, `WaterConserved`, `FullRuns` and
`NeverIdle` follow. Three more invariants, each inductive given those before it, are about where runs are.
`Apart` (`RunsApart`): the runs being sent, in the channel, in the ring's window and the current one are
different runs with ids given out, so that a handler that moves a run moves only that one;
from it `OnePlace`. `Awaited`: the run of everybody who waits on Done is in one
of these places, about to be told, or has answered; from it `NobodyForgotten`. `Requested`: every run
anywhere is one that a client may request. `SectionsClear` is about a step: a removal clears the
window of the section (and `Scanned` contains the window), and the current run is ended in the same handler.
`RunnerIsService` is the refinement of `SectionService` by the line of the ring and the current run:
`ServiceServe` says that taking the next run, also past holes, is serving the first in line, and
there is one lemma for each handler; calls, channels, timers and Done channels are stutters.
`StallsForGood` needs a last invariant, `SentOnly`: every run the runner has to do with, in a slot that
a popped run stays in too, is no longer with its caller, so nobody begins to wait for it.

*ProgramProofs.* `ProgramCorrect`: `Spec => []ProgramInv`. `ProgramInv` is
`OneBody`, `RunningAccurate`, `PlanIsCurrent` and `LockDiscipline`, which says who holds
the lock and that the starter is at its plan while an update is between its
refresh and its end: that is why no starter sleeps on an old plan. `SingleRun` and
`PlanUpToDate` follow. `RunsInvariant` is a second invariant, about each goroutine by itself: `RunOK`
says that the index stays inside the sequence that was copied, that everything
before the index has been received from, and that after the waiting loop or the cancelling one
nothing is left. `AllAccountedFor` is its last conjunct; `ProgramTypes` needs
it for the index. Clients and goroutines are arbitrary sets.

*PlannerProofs.* From the bottom: division by a constant that is no number (`DivMod`, `ModUnique`,
`DivMonotone`), days and times of day (`DayType`, `RunOnType`), dates (`AfterLater`: a later date is a later
time), ranges (`RangeCases`, `SeasonCases`), then what `NextRunAfterTime` finds. `NextRunType`: it lies ahead, at a
time of day of the schedule, within the range as seen from the reference. `NextRunFirst`: on a
schedule of every day no time in that range lies before it; the argument is that
searching the reference's own weekday finds a run no later than any. `SeenIsMeant` and `MeantIsSeen`
compare the range as seen with `InRange`, which does not look at a reference: what is seen is always meant, if
the range has a meaning; what is meant is seen if the dates name their years. That the second needs
this is finding 4 of section 5. `PlannerInvariant`: `Spec => []PlannerInv`, whose `AllSeen` says that every time that occurs is run at,
excused by a message or by lateness, up to `Reached`, the clock when it was last read: until the
starter reads it again the plan stands for the times since then (`PlanIsFirst`). `NoTimeIsMissed`,
`RunsOnSchedule`, `PlansInRange`, `StillOpenAfterNewYear` and `NoTimeRunTwice` follow: all that `MCPlanner` checks,
for any calendar, schedules, horizon and lateness. `OnNamedDayOrTheNext` says how far finding 3 goes: a
run on a day of the week that is not named is on the day after a named one.

*UpdaterProofs.* `UpdaterInvariant`: `Spec => [](TypeOK /\ UpdaterInv)`, for any sections
and programs and any capacity. `UpdaterInv` has four parts. `ValuesOK`: a flag or a valve is 0 or 1, and the channels
hold topics of their kind. `ShownInv`: a valve's or the section runner's topic shows its state,
or the updater is at that topic, or an announcement of it is still to be taken, or it is `stale`; and what the
updater has read is current or announced again. The last part is what makes it
inductive, and what the order in the code (drop the merged announcements, then read) is
for. `SavedInv`: versions of a program's data only grow, and what a write of the file has converted is not behind
what was published, nor is the file, unless the last write failed. `CalmInv`: while nothing changes, only `UpdateAll` acts, and what it has
passed shows the state. `UpdaterTypes`, `ValvesCatchUp`, `RunnerCatchesUp`,
`FileCoversTopics` and `ReconnectRepairs` follow: all that `MCUpdater` checks.

*ParserProofs.* `NeverPastEnd`: the parser does not look behind the EOF token, for any input.
`PositionInv` says that EOF only ends the input and that the parser is at most one
token behind what it has seen. A step that takes EOF ends the parse (`GrammarSteady`), and a second
token is looked at only after `AND`, which is not the last. `ParsedTypes`: what is parsed are hours of a
day and days of a week; with the bound on the input, `Bounded`, this is the parser's `TypeOK`. Two
theorems compare small functions of the parser with the grammar, for any input of theirs:
`HoursAsMeant` (am, pm, `hours %= 24`) and `SpanAsMeant`, for the loop over a span of weekdays. The
recursion of that loop is a function on seven days, so that its value follows from the last
day backwards, in six steps.

The parser is then compared with the grammar as a whole, in both directions. `AcceptsAsMeant`: what is
accepted is a sentence and means what the grammar says. Its invariant, `MeaningInv`, adds to the types that
nothing is parsed before a parse (`StillFresh`) and, for every place in the functions, that the
tokens taken so far are the beginning of a phrase with the meaning parsed so far (`SoFar`).
`RefusesNone`: no sentence is refused. For every place there is the set of texts that may still
come (the operators `...Rest`), and `SentenceRest` shows that every sentence is in the one of the
place where the parser starts. `NoneRefused` says that as long as the tokens are those of a
text of that set, what is left of it is in the set of the present place, and the parser not in error. A step leaves it so
since the first token of what may come decides it, and the second one after `AND`: the lemmas `Begins` say
with which tokens each set begins, so that the sets of two alternatives are apart.
Lists have no bound there: `AndMore` is the largest
set of texts that are empty or are `AND`, a phrase and a member of it.

`List` in the grammar is a recursive function on their length. That it exists (`ListOfExists`), and
what its levels are (`ListLevel`, `ListIsMore`), is shown with the least length at which it would be otherwise
(`LeastNat`, from the well-foundedness of the naturals), since the induction theorems of the library cannot be used.

*ServerProofs.* `ServerInvariant`: `Spec => [](TypeOK /\ ServerInv)`, for any sections,
programs, sequences and capacities, over any number of deaths and restarts.
`ServerInv` is `NothingYet` (before `StartPrograms` nothing reaches the runner: that is why
`stopAll` at start-up cannot close the valve of a run), `ValveOfRun` (from then on
an open valve is the current run's, and none is open while one is being closed),
`AllStopped` (from the wait group on the runner has returned, and `stopAll` has closed
the sections it has passed) and `BodiesOK` (a body's index stays inside the runs it
requested, without which types are not inductive). `ServerTypes`, `NoStrayValve` and `DryAtExit` follow.

Only model-checked is liveness: `ValveCloses`, `EveryRunEnds`, `ShutdownEnds`, `RunEnds` and
`RequestsAnswered`, since liveness under fairness and `ENABLED` are out of TLAPS's reach. Every other property of a
passing run - type invariants, safety invariants, action properties and refinements - is a theorem. No module
uses `RECURSIVE`.

## 5. Where code and documentation differ

With a run:

1. `RemoveWithSection` and `RemoveAll` look at the slot at tail, which is not in
   the queue. A run that was popped from it gets a value on Done again (`MCRunnerDone`). If
   the channel still has a value that nobody receives, the runner blocks for ever, and a
   valve that is open stays open (`SectionRunner!NeverStalled`, `MCRunnerLive`, as an invariant).
2. `Update` sends to the starter with the lock held that the starter takes before
   it receives (`MCProgramUpdateStuck`).
3. `weeks(1)` is one day, so a time that has passed today is planned for tomorrow,
   whatever day that is (`MCPlannerWeekdays`).
4. Late in the year, inside a range that passes the new year, there is no next run
   (`MCPlannerSeason`). A range without a year that does not pass it has the same gap after its
   end: nothing is planned for the next year until a message comes (the same run, with the days
   2 to 4 in `NewYearSchedule`).

Without a run of their own, as statements at the end of the modules; TLC refutes
each with the constants given:

5. `SectionRunner!CancelFindsRun`: a cancel overtakes the run it is about
   (`MCRunnerDone` with `Calls = {"cancelID"}`).
6. `Program!CancelReturns`, `Program!CancelFindsRun`: a cancel that finds the flag set
   blocks the starter for ever if the run ends meanwhile; one that finds it not
   yet set is lost (`MCProgramUpdateStuck` with `Calls = {"run", "cancel"}`; the second
   under `Spec`).
7. `Program!ChangesPublished`: an update that fails may leave a new name (`Calls =
   {"badUpdate", "update"}`, as an invariant).
8. `Updater!ProgramsCurrent`: exhausting the channel drops announcements of other
   programs (`ChanCap = 1`, `MaxChanges = 5`).
9. `Updater!LocksFree`: updater and section runner, or updater and an update, wait for
   each other when a channel is full (same constants). `Updater!FileCurrent`: a topic is published before the
   file is written, and a write that fails is only logged, so the file may be older than the
   topic, or unreadable, until data changes again (`MCUpdater`, as an invariant).
10. `Server!MainReturns`: after the signal the updater no longer takes announcements, so
   the channels may fill and the section runner, a program, or `stopAll` with more
   sections than a channel holds waits for ever, and `main` with it; a cancel that is part of a
   quit may meet no receiver, as in 6 (`MCServer`, as a property; `AnnounceCap = 1`
   gives the shorter counterexample).
11. `Server!ClosedWhenDead`: whatever ends the process but an interrupt, SIGTERM
   included (`server.go:24`), leaves the open valve open until somebody starts the server
   again (`MCServer`, as an invariant).
12. `Parser!DatesHaveSlash`: `parseDate` expects the slash between month and day, and
   overwrites the error of its absence (`parser.go:391-392`), so "from 5 12" is a date
   (`MCParser`, as an invariant).

## 6. Not modelled, and the plan

Left out for good: text and JSON formats, the regular expressions of tokens, error
records, logging, the pins themselves and their mock, the content of HTTP requests, the
demo client. Leap days, daylight saving and a clock that is set back are left out of
`Schedule`; ids do not wrap.

The connection to the broker is modelled as far as it reaches the controller: `UpdateAll` on each
connection (`Updater`), requests while there is a session (`Server`). Its retries
(`mqtt_api.go:85-97`), the will and the responses are one loop around calls of the
MQTT library, and a model of them would be a model of that library. For the record,
a connect that times out without an error ends the loop (`mqtt_api.go:87`), and the
subscription is then made on a client that is not connected.

In `Server`, updates of programs, pauses and cancels of sections are left to the modules of the
parts, since what they add - the lock over `Refresh`, the ways in which a run ends - is
there; a started body that loses the race for the flag is left to `Program`.

The development was planned in this order, the most important behaviour first: run
queue and section runner, proofs of the runner's inductive invariant, program and
its proofs, schedule and planner, updater, server with the configuration file and its
proofs, parser. What is left:

1. Proofs: `Server` as a refinement of the modules of its parts, and of a season that passes the new year,
   that up to finding 4's gap and again after the new year none of its times is missed.
2. `Server` with pauses and updates of programs, to see which of the two stops in
   section 5 they reach by other ways.
