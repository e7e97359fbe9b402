# A TLA+ model of dashboard_tactics_pi

`dashboard_tactics_pi` is a plug-in of the OpenCPN chart plotter: it collects
the data of a sailing boat from NMEA 0183, from a Signal K server and from the
plotter, derives tactical values, shows them in instruments, streams them to an
InfluxDB data base, and carries instruments whose user interface is a web page.
This directory holds a model of the parts of it that run concurrently: what the
components do step by step, properties that say what is right, TLC
configurations that check them on small instances, and proofs for every value
of the constants.

Source positions are given relative to `src/`, so `src/RaceStart.cpp` is
`src/src/RaceStart.cpp` of this repository.

## 1. The system

### 1.1 Threads and how parts interact

The plug-in lives in the UI thread of the plotter: events, timers (`wxTimer`)
and dialogs are handlers of it, one at a time, except that a modal dialog runs
an event loop of its own inside a handler, in which other handlers run. A
streamer instrument has a communication thread beside it, which shares the
fields of the instrument with the UI thread. A web instrument has a page in
an embedded browser; the page and the plug-in exchange text: the page puts a
request into an element that a timer of the plug-in reads, the plug-in answers
by running a script that raises an event in the page.

Data goes from a source (`SetNMEASentence`, the Signal K thread, the plotter)
through `dashboard_pi`, which decides by priority whether the source counts, and
`tactics_pi`, which corrects and derives values, to the windows and to every
instrument that has asked for the type of data, the InfluxDB streamer included.

### 1.2 Components

| Component | State | Operations | What is hard |
|---|---|---|---|
| InfluxDB output streamer (`StreamoutSingle.cpp`) | schemas with the time last stored, FIFO of lines and its two counters, overflow state, state of the connection | `SetData`, `OnStreamOutUpdTimer`, `OnClose`, thread `Entry` | two threads on one FIFO; failing, rejecting, silent server; closing at any point |
| Signal K input streamer (`StreamInSkSingle.cpp`) | subscription message, two pending flags, window of all paths, state of the connection | timer, `OnClose`, thread `Entry` | flags read, served and cleared without a lock; loss of the connection at any point |
| Life cycle of the streamers (`dashboard_pi::ApplyConfig`, constructors and destructors) | counters of instances, echoed text, role of each instance | construct, close, configure | replacements overlap: new instances exist before the old ones are closed |
| Signal K data container (`SkData.cpp`) | path lists, subscription list, data base schemas, two flags | subscribe, collect, ordered list | used by both threads without a lock |
| Web instrument base (`InstruJS.cpp`) | hand-shake, request served, instrument state, grace counter, subscription, last value sent | page loading, polling tick, answers, data, close | page runs between two calls of a tick; a request has no identity but its text; values on their way |
| Interface of page and plug-in (`instrujs/src/iface.js`, `ifaceops.ts`, `ifaceopsJS.js`) | the message element, one field per call | set and clear flag, 26 calls that raise events | a single cell as channel |
| Page support (`instrujs/src/persistence.js`, `conf.js`, `confvalid.js`, `menu.js`, `kbd.js`, `data/instrujs/www/common.js`, `confstat.js`) | cookies, local storage, static file, menu | test, load, validate, save, select | what the browser allows; objects of other versions and instruments |
| Race start instrument (`RaceStart.cpp`) | pointers to marks and route, flags of a session | tick, six answers, dialog | modal dialog within a tick; state shared with the page by messages; route manager |
| Race start page (`instrujs/racedashstart`) | state machine, one request, marks confirmed, buttons and panels | 25 transitions, buttons, timers, fades | late answers, requests overwritten before they are read, callbacks of fades |
| Race mark instrument (`RaceMark.cpp`) | route, previous, target and two next marks | tick, messages of the route manager | arrival known by name only; marks and routes that change |
| Race mark page (`instrujs/racedashmark`) | state machine, panel, animation | 12 transitions, two buttons | data during an animation |
| Race overlays (`RaceStartGL.cpp`, `RaceMarkGL.cpp`) | geometry | drawing | floating point |
| Engine monitor (`EngineDJG.cpp`, `instrujs/enginedjg`) | path, value, display style, stored object | getall, path selection, data, swap of style | shared grace counter; a value of the path before; program ends at any moment |
| Time series (`TimesTUI.cpp`, `instrujs/timestui`) | schema, query on its way, rows collected, chart | getalldb, queries, timer | asynchronous queries without an identity; errors; a timer that may be lost |
| InfluxDB client, queries (`instrujs/timestui/influxdb-client/packages/core`) | rest of a chunk, table, whether the query is over | next, error, complete | chunks that end anywhere; errors that come together |
| InfluxDB client, writing and management | | | not used by the page |
| Plug-in core (`dashboard_pi.cpp`) | priority and watchdog of each datum, route messages | `SetNMEASentence`, `SetPositionFix`, `Notify`, `SetPluginMessage`, `ApplyConfig` | sources of different priority that come and go |
| Tactics (`tactics_pi.cpp`, `TacticsFunctions.cpp`) | wind, current, laylines | `TacticsSendSentenceToAllInstruments` and what it derives | several mutexes, entered from two threads |
| Polars (`Polar.cpp`, `PolarPerformance.cpp`, `PerformanceSingle.cpp`) | table of speeds | load, look up | interpolation |
| Windows and containers (`DashboardWindow.cpp`, ...) | list of instruments | set list, send data | layout |
| Histories (`avg_wind.cpp`, `wind_history.cpp`, `baro_history.cpp`) | ring buffers | add sample, average | circular means |
| Filters and clock (`ExpSmooth.cpp`, `DoubleExpSmooth.cpp`, `iirfilter.cpp`, `clock.cpp`) | last values | filter | floating point |
| Display instruments (`instrument.cpp`, `dial.cpp`, `compass.cpp`, `Odograph.cpp`, ...) | last value | set, draw | none |
| Preferences (`DashboardPreferencesDialog.cpp`, `DashboardConfig.cpp`, ...) | configuration | edit, load | none |
| Third-party code (`nmea0183/`, JSON library, `ocpn_plugin.h`) | | | |

### 1.3 What makes each of them correct

* **InfluxDB output**: accepted lines reach the output in order, once, in whole
  batches; the FIFO is bounded; the intervals of the schemas are kept; the panel
  does not feed a dead thread; closing returns; the thread goes on until it is
  stopped.
* **Signal K input**: nothing is read before a subscription; what the
  instruments ask for reaches the server over all failures (with the exceptions
  of 3.3); the window of all paths ends; closing returns.
* **Life cycle**: the counter is exact; at most one instance speaks; HALT is
  true.
* **Page and plug-in**: a question is never wiped by an answer to another one,
  every question is answered, an acknowledged mark exists, the overlay goes off
  when the page rests, buttons and panels fit each other and the state.
* **Engine monitor**: the value shown belongs to the path named beside it; what
  the user has chosen survives the end of the program.
* **Time series**: one query at a time, for the path shown; time runs from left
  to right; the page goes on asking through errors.
* **Data base client**: the rows of the answer, in order, then the end, once.
* **Race mark**: the legs shown follow the course; the present leg is the one
  that is sailed; the page shows marks while there is a route.
* **Plug-in core**: a datum comes from the source of highest priority that
  is alive, silence is shown, and of the two channels Signal K goes first.
* **Tactics**: the locks are taken in one order.
* **Data container**: the lists are consistent when both threads use them.
* **Histories**: a buffer holds the last samples and its mean is theirs.

## 2. Modules

| Module | Models | Uses |
|---|---|---|
| `LossyBatches` | abstract specification: lines leave in order, in whole batches, each batch delivered or lost | |
| `StreamOut` | InfluxDB streamer with its thread | refines `LossyBatches` |
| `StreamOutProofs` | theorems about `StreamOut` | `StreamOut`, TLAPS |
| `Streamers` | instances of a streamer over the windows | |
| `StreamersProofs` | theorems about `Streamers` | `Streamers`, TLAPS |
| `StreamInSk` | Signal K streamer with its thread and the lists of `SkData` | |
| `StreamInSkProofs` | theorems about `StreamInSk` | `StreamInSk`, TLAPS |
| `Iface` | `window.iface`, its events, the message element, state machines of pages | |
| `InstruJS` | poller of a web instrument | |
| `InstruJSPaths` | lists of paths, subscriptions, schemas, push of data | `InstruJS` |
| `Persistence` | where a page keeps its configuration | |
| `CommonJs` | the table of paths an instrument knows | |
| `PageConf` | configuration of a page and its menu | `Iface`, `CommonJs`, `Persistence` |
| `EngineDJG` | the engine monitor | composes `PageConf` and `InstruJSPaths` |
| `EngineDJGProofs` | theorems about `EngineDJG` | `EngineDJG`, TLAPS |
| `TimesTUI` | the line chart | composes `PageConf` and `InstruJSPaths` |
| `QueryCalls` | abstract specification: rows in order, then the end, once | |
| `FluxQuery` | one query of the data base client | refines `QueryCalls` |
| `TimesTUIProofs` | theorems about `TimesTUI` and `FluxQuery` | both, TLAPS |
| `RaceDashStart` | the race start page: states and requests | |
| `RaceStartPanel` | the race start page: buttons, panels, fades | `RaceDashStart` |
| `RaceStart` | the race start instrument | composes `InstruJS` and `RaceDashStart` |
| `RaceStartProofs` | theorems about `RaceStart` and `RaceStartPanel` | both, TLAPS |
| `RaceDashMark` | the race mark page | `Iface` |
| `RaceMark` | the race mark instrument | composes `InstruJS` and `RaceDashMark` |
| `RaceMarkProofs` | theorems about `RaceMark` | `RaceMark`, TLAPS |
| `NavData` | sources of navigation data: channels, priorities, watchdogs | |
| `NavDataProofs` | theorems about `NavData` | `NavData`, TLAPS |
| `MC...` | values of the constants for TLC | |

Operators whose comment begins with *Mistake* are variants of a definition with
one plausible error. They are used by no specification: each is kept beside the
original to show that a property can tell the two apart.

Each module that composes a page and the plug-in has one variable for each
field of the code it needs and one action for each handler; a call across the
boundary is a conjunction of the caller's and the callee's part.

### 2.1 StreamOut

A line is the number of its push, its schema and its time stamp: the text of a
line protocol plays no role. The model starts where the constructor sets
`SSSM_STATE_READY` and runs the thread.

| Action | Code (`src/StreamoutSingle.cpp`) |
|---|---|
| `SetData` = `GetSchema` + `PushLine`, `StartBlocking` or `DropLine` | 245-420. The first schema of the sentence that is due, or is not to be stored, ends the search. The three branches are those of the overflow state. One action: it runs in the UI thread under `m_mtxQLine`, and what it does before that concerns only fields of its own |
| `OnStreamOutUpdTimer`, `CollectAllDbSchemaPaths` | the registration of schemas, 804-845 and `TacticsWindow.cpp` 246 |
| `OnClose`, `ThreadJoined` | 149-189: stop, `Wait()`, destructor |
| `EntryOpens`, `EntryOpenFails` | 440-523 |
| `LoopStops`, `LoopContinues`, `Connect...` | 525-573 |
| `CollectLine`, `BatchComplete`, `CollectStops` | 581-658. The lock is taken per line |
| `WriteFile`, `WriteSocket`, `WriteSocketFails` | 659-699, 761-771 |
| `Reply...` | 700-748. Accepted, rejected, none in time, stop |
| `EntryReturns` | 776-792 |

Lines 749-759, which would recover from an error state after the reply, cannot
be reached: both `break`s before them leave the outer loop. They are in no
action.

### 2.2 Streamers

`ApplyConfig` (`src/dashboard_pi.cpp` 3111-3345) builds a new window with its
instruments before it closes the one that is replaced, so instances of both
exist for a while. `StartWindow`, `Construct`, `BuildDone`, `CloseInstrument`
and `CloseDone` are the steps of it, and `EchoWritten` is the status text of a
communication thread, which may come between any two of them. `Kind` selects
the condition of the two constructors (`StreamoutSingle.cpp` 77-87,
`StreamInSkSingle.cpp` likewise without the exception for HALT). A deleted
window is one for which nothing is built.

### 2.3 StreamInSk

The timer (800-852) notices that the list has grown, rewrites the message path
by path (`TimerRewrites`, `TimerRewritten`: the thread may see a part of it,
hence `subscribeTo' \in SUBSET subscriptions`), counts the window of all paths
and raises flags. The thread (337-787) connects, reads the hello message,
chooses the subscription, clears the flag, writes, and polls the flags between
delta messages. Choosing, clearing and writing are three actions because
nothing locks them. `Fault` is an environment that breaks the connection at
most `MaxFaults` times. The content of delta messages is left out.

### 2.4 InstruJS, RaceDashStart, RaceStart

The page's state machine is the set `Transitions` of
`instrujs/racedashstart/src/statemachine.js`; `Fire` is a transition with its
handlers: the request that it posts or clears. A transition that the state does
not have throws and changes nothing. The message element is `flag`: posting
overwrites.

A tick of the poller (`src/InstruJS.cpp` 438-710) is two actions, `PollPage`
and one of `ServePage`: the page may run between `GetPageText` and `RunScript`,
other handlers of the plug-in may not. `ServePage` is one action per request,
the answer of `RaceStart.cpp` included.

The tick of the instrument (`src/RaceStart.cpp` 583-636) is one action with the
branches `AdoptRoute`, `AskOldMarks`, `LeaveMarks`, `CheckRoute`. The question
about old marks splits it: `dialog` is TRUE while the modal dialog is open and
`AnswerDialog` is the rest. During the dialog the poller goes on but the user
cannot click the page.

The user, the data and the route manager are actions of their own: `Click`,
`DataChanges`, `RouteManager`.

Left out, since they change no state that is modelled: positions and all that
is drawn from them, the dialog about marks that were moved (490-580, it changes
positions only), the loading of the page, changes of luminosity, the data
pushed to an armed page. The check for a valid line in the constructor is the
same as in the first tick.

### 2.5 RaceStartPanel

The same page seen by its user: what stands in the middle, at the sides, in the
lines and in the message. `ClickOn...` are clicks on what the page shows at the
moment, joined with the click of `RaceDashStart`; `Answer` is the plug-in, any
that reads the message element (`Read`) and answers each request once, however
late. A handler of `buttons.ts` that lets panels fade appends its kind to
`fades`: the library queues the animations of one element, and a promise on the
element waits for all of them. `SidesFaded` is the end of the shorter ones,
`FadeOver` the end of the queue, which runs the callbacks in their order
(`CancelFaded`, `ArmedFaded`, `QuitFaded`) and fires `btnfaded`; `AllFaded` says
what is left of several callbacks, without a fold. `Newsldata`
and `MakeTimer` are the data of the line and the count-down (`linedata.ts`).

### 2.6 Iface, Persistence, CommonJs, PageConf

`Iface` lists the calls of `window.iface`: the field each stores its argument
in, the event it raises and the transition the event asks for. The tables for
`ifaceops.ts` and for its compiled copy `ifaceopsJS.js` are apart because the
files are: the time series and race pages use the first, the engine monitor the
second.

`Persistence` has three places for the object of a page: the static file
`confstat.js`, local storage and a cookie. `policy` is what the browser allows,
`tested` what `selfTest` has found out. The jar of cookies is a sequence, since
`getParam` reads the one text that holds all cookies and expects a blank before
each name but the first. `Left` is what earlier versions, other instruments or
runs have kept. `CommonJs` is the table of known paths and the match with
wildcards. `PageConf` puts them together: load, check, save, what the menu
offers and calls.

### 2.7 InstruJSPaths and EngineDJG

`InstruJSPaths` continues the tick of `InstruJS`: `ServeGetall`,
`ServeGetalldb`, `CollectPaths` with the grace counter they share, `Subscribe`,
`CollectSchemas`, `GiveSchema`, and after the request the second half of the
tick, `PushNothing` or `PushNewdata`, which sends a value only when its text has
changed and, for some paths, changed several times. Between the two halves the
communication thread may deliver a value (`DataArrives`). Values are tagged with
their path, which the code cannot see.

| Action | Code of the engine monitor |
|---|---|
| `Loaded`, `InitOk` | load event, polling of `index.js`, `init.js` |
| `Setid`, `Setall`, `Selected`, `Acksubs`, `Newdata`, `Chgconf`, `Swapdisp`, `Closing` | the event handlers with `path.js`, `data.js`, `disp.js`; each with what it saves |
| `Poll`, `Serve`, `Push` | the tick of `InstruJS.cpp` |
| `Click`, `Key` | menu and keyboard (`menu.js`, `kbd.js`) |
| `Restart` | the end of the program at any moment: only the store and the paths known elsewhere survive |

### 2.8 TimesTUI

The line chart has the same plug-in, but asks the data base itself. `queries`
are those on their way (`dataQuery` in `idbclient.ts`), `Row`, `EndOfQuery` and
`Fail` the calls of the client, `Newdata` and `Errdata` the handlers of the page
for the end of a query, `PollShowdata` the timer that starts the next one. The
schema of a path that no streamer knows is empty, and the handler throws in
`JSON.parse`: `pending` says that the transition never came to its end. `Write`
is the streamer that goes on. What the chart says of its painting is left open,
so the timer fires early or late.

### 2.9 FluxQuery and QueryCalls

What `TimesTUI` presumes of a query is `QueryCalls`: rows in order, then an end,
once, and any rows once an answer is spoilt. `FluxQuery` is the code that keeps
it: `Respond`, `FetchFails`, `ErrorText`, `ReadChunk`, `ReadFails`, `ReadDone`
are the steps of `FetchTransport.send`; `NextChunk`, `Error`, `Complete` pass
through `completeCommunicationObserver.ts` and `ChunksToLines.ts`; `NextLine` is
`linesToTables.ts` with `SplitLine`, `Annotation`, `Names` and `ToObject`. A
chunk is a sequence of bytes, of which only those the code looks for are told
apart; a run of others is one byte, a letter of two bytes has two halves.

### 2.10 RaceMark and RaceDashMark

`ActivateRoute`, `ActivateMark`, `Arrive` and `Deactivate` are the route manager
of the plotter with the messages that `dashboard_pi::SetPluginMessage` keeps.
`RaceMarkTick` is `OnThreadTimerTick` (`src/RaceMark.cpp` 711): it adopts a
route, adopts a target, checks that both are still there, and moves the marks on
when the arrived one is the target. It is built of functions on the record
`marks`, since a tick applies several of them one after the other. `gone` is a
mark the user has deleted. Names are unique, as the manual asks for, so a mark
is its name and its GUID. The tables `After` and `Before` hold the next mark of
a course, and the one before, for every set of marks that are gone.

The page is `RaceDashMark`: `Newmrkdata` is the handler that decides between
table and standby text, both of which replace each other at the end of an
animation (`FadeOver`).

### 2.11 NavData

The members of `dashboard_pi` that decide which source is heard are one record,
`nav`: the nine priorities (`pri`, 99 when free), whether `mVar` and `mHdm` hold
a number, the watchdogs, the lock on the depth below the keel, the quality of
the fix, and of what the instruments show the three values a watchdog takes
back. `by` is a history: the way by which a datum came last. `since` counts
ticks since inputs, for the properties only.

Every branch of `SetNMEASentence` (826-2725) is here: sentences that do nothing
but claim one datum are in tables (`NmeaPosition`, `SkWind`, ...) of datum and
rank, the others are actions named for the sentence or path. `Notify` is one
action, as are a fix (`SetPositionFix`) and the variation of the magnetic model
(`SetPluginMessage`). `aboard` is the set of inputs of a behaviour: it is chosen
from `Boats` in `Init` and never changes, which keeps a run small without
favouring an order of inputs.

Left out: the values, hence 999 for an empty field appears as the content
"empty" that takes a claim without giving a value; the watchdogs `mStW` and
`mGPS`, which only blank a display, and `mTim`, which only chooses a time stamp;
the second half of the distribution in `tactics_pi`. A handler is one step,
although delta messages are handled by the communication thread of the Signal K
input: the interleaving of its assignments with those of `Notify` is not
modelled.

## 3. Checks

| Run | Question | Result |
|---|---|---|
| `StreamOutFile` | file as target, two schemas of one sentence with the intervals 2 s and 1 s and one not stored, stamps 0, 0.999 and 2 s apart in any order | `FileKeepsEveryLine`, `IntervalsKept`, `FullBatchesAreWritten`, `RecordingEnds` hold |
| `StreamOutSocket` | server as target that fails to connect, to write, rejects or is silent; FIFO limits 2 and 1, batches of 2, 6 lines | `TypeOK`, `FifoBounded`, `FedThreadIsAlive`, `DeliversBatches` (refinement), `CloseReturns` hold |
| `StreamOutEnds` | does the thread run until it is stopped | `RunsUntilStopped` violated |
| `Streamers` | 2 windows, 4 instances, InfluxDB | `OneSpeaker`, `HaltIsTrue` hold; that the counter is exact (`CountsInstances`) is proved |
| `StreamInSk` | 2 paths, 2 ticks, 2 faults | `SubscribedBeforeReading`, `PathsReachServer`, `AllPathsComeAndGo`, `AllPathsWindowEnds`, `CloseReturns` hold |
| `RaceStart` | page, poller, instrument, user and route manager; routes absent, idle, active, malformed | `QuestionKept`, `AckNamesTheMark`, `AsksBeforeDropping`, `RequestsReachPlugin` hold |
| `RaceStartPanel` | buttons and panels of the page, up to 3 fades on their way, any plug-in | `ButtonsMatchState`, `FadeArms` hold |
| `NavData` | six boats: headings from the plotter, headings on both channels, position and fix, wind and depth, inputs that pass by the priorities, NMEA 2000 | `SignalKFirst`, `ClaimsHold`, `SilenceIsShown`, `CompassTrueStands`, `WmmTakesOver` hold |
| `EngineDJG` | page, poller, storage of any kind of browser, a user who picks, changes and swaps, restarts; two paths | `ShownIsSubscribed`, `StoredIsShown`, `QuestionAnswered` hold |
| `TimesTUI` | page, poller, data base that answers or fails, restarts; two paths | `OneQuery`, `ChartInOrder`, `KeepsAsking` hold |
| `RaceMark` | page, poller, instrument, route manager; two courses, a mark deleted now and then, restarts | `LegsInOrder`, `LegIsSailed`, `PanelMatchesState`, `StandsBy` hold |
| `FluxQuery` | five answers in chunks of up to 3 bytes, or all that are left, that end anywhere; a connection that breaks anywhere | `ImplementsQueryCalls` (refinement), `EndedOnce`, `QueryEnds` hold |

`TypeOK` is an invariant of the run `StreamOutSocket`. The other modules state
it as well (`RaceMark` in `RaceMarkProofs`); section 4 says where it is proved.

`CHECK_DEADLOCK FALSE` is set for `RaceStart`, `RaceStartPanel`, `EngineDJG`,
`TimesTUI` and `FluxQuery`, which may really stop: a closed instrument does
nothing any more, and a query whose last line makes the reader throw never ends.
The streamers have an explicit step `Destroyed`.

### 3.1 Bounds

* `MaxPushed` bounds the lines: 6 is two batches above the FIFO (limit 2, one
  above it, a batch of 2 in the thread), so that overflow, hysteresis, recovery
  and a second batch occur. In `StreamOutFile` 4 lines are two batches; the
  limit is high enough there that no line is dropped, since a dropped sample
  uses up the interval of its schema. Three stamps suffice: intervals are
  compared between two lines, and a third stamp makes the time jump back.
* Two windows are enough for the overlap of a replacement with another living
  window; four instances for two new beside two old ones. The theorems cover
  all numbers, and the Signal K kind.
* Two paths distinguish the list as it was from the list as it is; two ticks an
  open window from its end; two faults a failure during the recovery from
  another one. Failures are bounded so that liveness means: when the server
  stays reachable in the end.
* The race start model has no bounds except the kinds of route. The panels have
  `MaxFades` 3: the fades of Cancel, of the armed page and of Quit, all at once.
* `EngineDJG`: two paths, old and new; one is a dial whose value is sent after
  two changes of its text, the other one a chart in `common.js`, a style this
  instrument does not have. Grace counts of 2 (`GetalldbGrace`, which this page
  never reaches, 3) are the least in which a count can be left half way.
  `Readings` has one text, besides the zeros of subscription and watchdog: two
  equal texts of two paths are the interesting case.
* `TimesTUI`: two paths, of which `common.js` knows one; a chart of
  `NofGraphPoints` 2 points and 3 stamps, so that the chart shifts. `MaxPolls` 2
  is the most calls of the timer that wait at a time. A page that is not
  disturbed has one of them in `showdata`; the user may change the path there,
  and the new path gets its timer while the old one still waits. A third one,
  by another change before any of the two has fired, is not tried.
* `RaceMark`: a course of four marks, the least in which previous, target, next
  and the mark after next are all set, and one of two, sailed the other way
  round, for which the first is left and taken up again. The mark deleted is the
  third of four, which is next, target and previous in turn. `MaxFades` 2 is an
  animation that meets another one: the tick is not shorter than the animation.
* `FluxQuery`: `MaxChunk` 3 is a chunk within a line end, a character or a pair
  of quotes; with the whole rest as a chunk, lines may also come together. `cut`
  is a history: whether a chunk has ended within quotes, see 3.3.
* `NavData` runs with `Timeout` 3 instead of 10: the watchdogs start at 2, and 3
  is the least that separates the start, a running and a fresh watchdog. The
  watchdogs of a boat run with independent phases. Sources compete only for
  the same datum, so a boat holds the rivals of a few data; the only thing all
  inputs share is the watchdog `Src` and the choice of the channel, which every
  boat has. No boat has both a true heading of Signal K and a variation on it:
  see 3.3.

### 3.2 Fairness

The operating system schedules a thread, `wxTimer` fires, blocking calls return
(they have time-outs), `Wait()` returns when the thread has ended: weak fairness
of `Thread`, of the timers, of `ThreadJoined`, of both halves of a poll and of
the page's timers. The browser raises the load event, ends animations and
settles promises: weak fairness of `Loaded`, `InitOk`, `FadeOver`,
`EndOfQuery \/ Fail`, and of the end of a request in `FluxQuery`, one way or the
other. In `RaceMark` the tick of the instrument and the push of data are
strongly fair: they are disabled while another handler of the same thread is
in the middle of its work, and get their turn after it; the user confirms a
message. `Notify` is fair in `NavData`, inputs are not; `WmmTakesOver` assumes
in its premise that the magnetic model keeps sending. Nothing obliges data to
arrive, a user to click or to answer a question, a route to change or a window
to close.

### 3.3 Where code and documents disagree

**A silent server ends the stream** (`StreamOutEnds`, violated). When no answer
comes in time, line 713 asks for a new connection, but the `break` at 721-722
leaves the outer loop, whose comment says "while not to be stopped /
destroyed" (774). The thread is over and nothing starts it again.

The models have the following behaviours as well; no property forbids them,
though a document or comment suggests otherwise:

* *A restart beside halted displays is not configured.* The constructor makes
  the exception ("this is a restart", `StreamoutSingle.cpp` 84-85), but
  `LoadConfig` (851) reads nothing when the counter is above one.
* *A change of the list is lost.* `StreamInSkSingle.cpp` clears the flag (469)
  after the message is made (468); when the timer makes a newer list in between,
  its flag is cleared, and its new path is not sent before the next change or
  loss of the connection. The manual says of an instrument: "Once set, the
  instrument is subscribed to a Signal K key"
  (`docs/readthedocs/source/signalk/signalk.ipynb:434`). `PathsReachServer`
  names the moment, `Overtaken`, and says that nothing else loses a path over
  failing connections, half rewritten messages and windows of all paths.
* *A request for all paths is lost* when the connection fails between clearing
  its flag (473) and writing: a new connection asks for the list.
  `AllPathsComeAndGo` excepts this state, `AllDropped`. It is about requests
  that are not repeated for ever, since each end of a window asks for the list,
  which goes first.
* *All paths are left on.* A window of all paths that begins and ends without a
  connection leaves both flags raised. The list is sent first (467) and all
  paths next (471), the reverse of the order in which they were asked for, and
  the server sends everything from then on. The manual has it "subscribing to
  those data keys only" (`signalk.ipynb:427`). `AllPathsComeAndGo` excepts both
  flags at once.
* *Armed without a line.* The second drop leads to the armed state whatever was
  answered and whichever mark it was (`statemachine.js` 93); a button can be
  pressed twice, because its handler tests a CSS property and not the class
  (`buttons.ts` 188).
* *The line disappears under an armed page.* While the modal dialog about old
  marks is open (`RaceStart.cpp` 476) the poller answers `getusrsl` with the
  pointers that have already been set; the answer No removes them.
* *The buttons to drop a mark disappear.* After Cancel and a quick Start, the
  late end of the first fade empties the sides (`buttons.ts` 172) although the
  page is in `marking`, and the button says Start again. A click on it cancels,
  and another one brings the buttons back. A late fade of Quit does the same.
  `ButtonsMatchState` therefore does not promise that such a page has them; it
  does promise that the button says Cancel just when they are there.
* *A true heading taken for a magnetic one.* Through Signal K a true heading
  claims the priority of the magnetic heading and is stored in `mHdm`
  (`dashboard_pi.cpp` 1991-1994, 2477-2480), so the next variation is added to
  it and the sum is shown as true heading. The sentence HDT of the plotter
  keeps the calculated heading out, and the manual says that the priorities are
  the same for both channels (`docs/readthedocs/source/nmea0183data.ipynb:94`).
  `CompassTrueStands` fails on a boat that has both.
* *A click on the menu of the line chart does nothing* while a query is on its
  way: `chgconf` is a transition of `getschema`, `showdata` and `nodata` only.
  Points of a newly chosen path which are older than the last one drawn are not
  drawn, since `lastDataTimestamp` is kept.
* *A path without a schema stops the page.* `JSON.parse` of an empty text
  (`timestui/src/path.js` 95) throws within a transition, which the library
  then takes for one that is still going on: it refuses every other.
* *A chunk that ends within quotes spoils rows.* The variable `quoted` of
  `bufferReceived` (`ChunksToLines.ts` 57) starts anew with each chunk, wherever
  in a quoted cell the last one ended. The quote that closes the cell then
  opens: line ends behind it are text up to the next quote or the end of the
  chunk, and line ends in the cell end a row. Rows are split or merged, and no
  line end in the quotes is needed for the latter. The interface says that
  `next` may be called many times (`packages/core/src/transport.ts:10`), and the
  fixture of an escaped new line (`chunksToLinesTables.json:19`) wants one line
  of such a cell. `QueryCalls` allows any further rows from such a chunk on
  (`spoilt`, in `FluxQuery` the history `cut`): what the page has been given by
  then is right and stays, and it is told one end.
* *The page waits for ever* when the last line has no line end and makes the
  reader throw: `complete` (`ChunksToLines.ts` 34) has no handler for it.
* *Any arrival out of order is called a name that is not unique*
  (`RaceMark.cpp` 764): a mark skipped by the user, or two marks between two
  ticks.

Two more behaviours have no document that denies them and are listed as
hazards: a source that has died keeps its claim while anything
else talks, since the watchdog of the claims is common to all; and an empty
variation field claims the variation without giving one.

## 4. Proofs

The modules `...Proofs` are checked by TLAPS from the assumptions that the
models state about their constants, nothing else:

| Component | Assumed of the constants |
|---|---|
| `StreamOut` | schemas are records, stamps naturals, the lower limit is below the upper one, a batch has at least one line |
| `Streamers` | the set of instances is finite, the kind is one of two |
| `StreamInSk` | the default paths are paths, the window of all paths lasts at least a tick, the number of faults is natural |
| `RaceStart` | the user may also have no route, and the kinds of route are the four of the code |
| `RaceStartPanel` | nothing (`MaxFades` bounds the runs) |
| `RaceMark` | a course is a sequence of at least two different marks, none of them the empty name; only marks of courses can be deleted |
| `EngineDJG`, `TimesTUI` | the elements of a path are those of the known paths, the grace counts and the ticks of slow paths are positive |
| `TimesTUI` | the chart has at least one point |
| `NavData` | the time-out is at least the value 2 with which the watchdogs start |
| `FluxQuery` | nothing |

Every theorem rests on an inductive invariant `IInv`, which TLC has checked on
the instances of section 3 before it was proved. None of the properties of
section 3 is inductive as it stands, except for those of `Streamers` and
`FluxQuery`, which are together with the types. What is added, and why:

* **StreamOut.** `StopInv` for `NeverFeedsDeadThread`: a thread that is about to
  end has a stop behind it or a state other than READY, and a commanded stop
  excludes that the panel is still fed. `FifoStaysBounded` needs the equation of
  counters and length for the step of `PushLine`, whose guard tests the
  counters, not the queue. `FileKeepsAllLines` and `LinesKeepInterval` speak of
  `Accepted`, what is in the file, in the thread and in the FIFO one behind the
  other, which popping and writing leave as it is; a line that is due is then
  compared with the last one of its schema (`LatestInv`: the time stamp kept is
  that of the latest accepted line), and none is refused since the FIFO has room
  (`RoomInv`) and is open as long as the file is (`FileInv`).
  `StreamerDeliversBatches` is the refinement of `LossyBatches`: with the lines
  numbered from the counters (`NumberInv`) each step is a step of the abstract
  specification or a stutter.
* **Streamers.** The exact counter, uniqueness of the speaker and truth of HALT
  need each other: a constructor lets an instance speak when it counts itself
  alone (then the counter must be exact for nobody else to exist) or when it
  reads HALT (then HALT must be true for nobody else to speak); and HALT remains
  true at a closing only since the one that closes was the only speaker.
* **StreamInSk.** What the server has been told is traced back to the list of
  `SkData` through the message, even a half rewritten one, and the copy the
  thread has made of it (`SubscriptionInv`); between the making of the message
  and the end of the connection there is one (`ToldInv`).
* **RaceStart.** The acknowledgement of a mark does not name it, so that
  `AckIsForTheMark` has to know whose request it answers: `FlagInv` ties the
  message element to the states of the page that post it, `RequestInv` the
  request that the plug-in has read, which the page may have left behind
  between the two halves of a tick, and `MarksInv` says what the page and the
  plug-in know of marks dropped for this race. `AckIsForTheMark` and
  `AsksNotWhileDropping` are action properties.
* **RaceStartPanel.** `ButtonsAreOfTheState` says nothing of a page whose fades
  are on their way, so that the invariant has to: the fade before the armed page
  is the last of the queue as long as the page waits for it, and no other state
  finds it there (`FadesInv`), and the line's data outlive the armed page only
  when a fade of Quit is on its way (`LinesInv`). `CenterInv` knows the middle
  of the page, which is empty only before the buttons are there, and
  `LicenseInv` that a page whose license has not been accepted is still in an
  early state and has no fade on its way. What several callbacks leave on the
  page is `PanelAfterFades`.
* **NavData.** Some thirty handlers are chains of small changes, and what each
  of them may do is one transitive relation, `Moves`; invariants are proved from
  it. A watchdog and the time since the input that arms it add up to at least
  the time-out (`NotBefore`), and to at most the time-out or what it guards has
  been taken back (`NotAfter`). `ClaimsAreKept` and `SignalKKeepsPriority` are
  action properties that follow from the first, `SilenceTakesBack` from the
  second. `CompassTrueKept` is proved for boats which have no variation or whose
  true headings all claim the priority (`TrueInv`): on other boats the property
  fails, see 3.3. `FleetAssumption` in `MCNavData` says that the boats of the
  run are of this kind.
* **RaceMark.** Page and course have an invariant each. `PanelInv` follows the
  queue of animations: the last panel of the queue is the one of the state.
  `LegsFollowEachOther` needs that the messages belong to the active route
  (`MessageInv`); `Follows` is a statement about the positions of marks on the
  course, and the tables of the marks before and after are shown to give
  neighbours. `LegIsTheOneSailed` needs `RegularInv`, where a regularly sailed
  route may be: just activated, over, or on a leg, before the arrival or between
  the arrival and the tick.
* **EngineDJG.** `PathInv` says where the path of the configuration is known to
  be the one of the request, of the subscription, of the value kept and of the
  title, in each state of the page: the text of a value does not say whose it
  is. `StoredInv` says that from the self test on the page uses what the browser
  allows and that the configuration is what would be loaded. Its lemmas are
  about the storage: the self test finds what is allowed and leaves the rest
  of the jar as it was, and what is saved is loaded again, in local storage and
  in the jar of cookies, among cookies of other pages.
* **TimesTUI.** `SchemaInv` says what the page knows in each state: a schema is
  set and the client is ready whenever a query is made, and the request that the
  plug-in answers with a schema is the path of the configuration.
  `ChartStaysInOrder` holds for charts of every length: rows come in order, the
  points drawn are an end of them that begins behind the last point drawn, and a
  chart that shifts is the end of an ordered one.
* **FluxQuery.** Every call that tells the page an end finds `finished` FALSE,
  hence `ended` empty. There is one lemma for each of the three calls of the
  transport, and nothing is used of what the reader makes of a chunk.
  `NothingAfterTheEnd` is an action property that no run states.

Minima of sets of positions, on which the library's search in a sequence is
built, come from the well-foundedness of the naturals (`FirstOf`). Operators of
the library that are defined by recursion cannot be expanded in a proof, which
is why `Younger` and `DeleteParam` are written with a search for a position.

Only model-checked:

* liveness (`FullBatchesAreWritten`, `CloseReturns`, `PathsReachServer`,
  `AllPathsComeAndGo`, `QuestionAnswered` and so on), which the prover does not
  reach;
* `ImplementsQueryCalls`: what `SplitLine`, `Byte` and the other folds of
  `FluxQuery` compute for every answer would need induction over the bytes;
* types of `TimesTUI`, on which no theorem rests.

## 5. Not modelled, and why

* Drawing, layout, dialogs and configuration files: no state that outlives the
  call, or plain input and output.
* Filters, polars, laylines, geometry of start line, legs and marks: real
  arithmetic.
* Unsynchronised `std::list`s in `SkData` and the route that `RaceStart` keeps
  pointers into: the outcome of such a race is not bounded by the program. The
  models keep the presence of a pointer and the sets of paths.
* The parts of the data base client that write or manage: the first is not used
  by the page, the second is generated.
* Third-party code.
* `suspendInstrument` of the race start: nothing calls it.
* The end of a cookie after a year, the alerts of the engine monitor (switched
  off in the code), upgrades of stored objects between versions: there has been
  one version, older ones count as foreign.

## 6. Plan

In this order:

1. Proofs: the types of `TimesTUI`, with the lemmas on the storage which
   `EngineDJGProofs` has; that the calls of `FluxQuery` keep rows that have been
   given (a part of `ImplementsQueryCalls`).
2. `TimesTUI` with `FluxQuery` in the place of `Row`, `EndOfQuery` and `Fail`:
   no name of one stands for something else in the other.
3. An abstract specification of `NavData`, one datum with ranked sources and one
   release, and the refinement; the wind watchdogs of `tactics_pi`.
4. The locks of `tactics_pi` and of the distribution of data, entered from the
   UI thread and from the Signal K thread: no cycle of waiting. The orders
   546/981 and 2279/2350 differ.
5. The path lists of `SkData` and the ring buffers of the histories: operators
   with a reference definition.
