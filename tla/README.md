# A verification of the monitoring system

The repository is a four-channel video monitoring system: a Qt client
(`src/src`) that captures, records and runs YOLO detection, and a Linux server
(`src/server`) that keeps the records in MySQL.  This directory holds TLA+
models of the parts of it where the order of events decides, TLC runs that
check them on small instances, and TLAPS proofs of the properties that matter
most.

## 1. Inventory

| Component | Source | State | Operations | Interacts with |
|---|---|---|---|---|
| **MonitorTask**, one thread per channel, with two RecordTasks | `src/service/monitortask.cpp`, `recordtask.cpp` | stop flag, recording switch, segment length, anomaly pending/active (shared under `m_stateMutex`); two writers, session images, frame counter (its own) | `run`, `setRecordingEnabled`, `setSegmentDurationSeconds`, `notifyAnomalyDetected`, `stop` | UI thread (calls in, queued signals out), DetectTask (direct call per frame) |
| **DetectTask**, one event loop per channel | `src/service/detectask.cpp` | one-frame mailbox, `m_processScheduled`, `m_detectEnable` | `submitFrame` (on the capture thread), `processLatestFrame`, `setDetectEnable` | MonitorTask, Monitorwidget (posted calls, queued results) |
| **Monitorwidget**, the monitor page | `src/view/monitorwidget.cpp` | tasks and threads of 4 channels, latest frame, frame id and boxes, view mode, selected channel, detection switch, login user | start/stop of channels, view switches, frame/result/recording handlers, uploads | everything in the client |
| **ClientApi** | `src/net/clientapi.cpp` | socket, receive buffer, next request id | one call per request type, `onReadyRead`, `handleResponse` | server; the pages, by signals that carry the request id |
| **Pages**: LoginWidget, ReviewWidget (two of them), LogWidget, DetailWidget, SettingWidget, MainWidget | `src/view/*.cpp` | waiting flags and request ids, page numbers, record mode, images to delete, login user | page loads, mode switches, delete, export, related video, login, settings | ClientApi |
| **TcpServer** | `server/net/tcp_server.cpp`, `server/protocol/protocol.cpp` | listening socket, the one client being served, `m_tokenUsers` | accept, receive, token gate, dispatch, send | clients; the services |
| **Services** (Auth, Video, Image, Log) and **DbConnection** | `server/service/*.cpp`, `server/db` | one shared MySQL connection, perhaps in a transaction | a handler per request type | MySQL |
| **Detect / YOLO** | `tool/src/Detect.cpp`, `YOLO.cpp` | the network | pre- and post-processing of one image | DetectTask |
| **Settings** | `src/util/appsettings.cpp` | an INI file | load, save, defaults | SettingWidget, Monitorwidget |
| Not in the shipped build or never called | client-side models, `DbConnectionPool`, `UserService`, `registerwidget`, `selectrl`, OBB/pose/segmentation | | | |

### What is hard, and what makes each part correct

* **Shared flags, three locked regions per frame** (MonitorTask).  The copy of
  the flags a frame is handled with can be old.  Correct means: the two writers
  exclude each other, the shared flag agrees with the writer, every file is
  announced exactly once, no frame is lost when files change, sessions end, a
  stop is obeyed.
* **A lock-free instant between unlocking and posting** (DetectTask).  Correct
  means: exactly one wakeup for a waiting frame, none lost, results in capture
  order, and the whole is a mailbox of the newest frame.
* **Results that are late** (Monitorwidget).  Frames, results and switches
  overtake the user's clicks.  Correct means: the labels show what is held, off
  is off, a result never is of a frame the page has not got, every DetectTask
  ends up switched as wanted, and what starts a recording is drawn.
* **Bounded waits** (stopping the channels).  Correct means: no thread object is
  destroyed under its thread, no frame reaches a deleted DetectTask, the
  teardown ends.
* **Failure at any statement, lost connections, a dying process** (server).
  Correct means: a session is stored whole or not at all, no transaction leaks
  into the next request, answers are true, only a valid token changes the
  database, requests are answered, the backlog is served.
* **Answers out of season** (pages).  Two review pages hear the same signals,
  the user goes on clicking while answers are on their way, dialogs run event
  loops of their own, statements fail, the connection is lost and never made
  again.  Correct means: an answer is for one page and one purpose, a list is
  what the controls above it say, a recording never outlives its file and an
  image only when a snapshot was saved under its name, the video opened is one
  that was recording, and a snapshot is filed under the channel it shows, unless
  its frame came late.
* **Arithmetic at the border** (lists, boxes).  Offset and page count are
  computed on two machines; boxes are scaled, truncated, cut and suppressed.
  Correct means: each row is on one page, boxes lie in the frame, each thing is
  shown once.

`PROJECT.json` lists every hazard at its line with the properties that would
catch it, or with a note why none does.

## 2. Modules

| Module | What it is |
|---|---|
| `MonitorTask` | capture thread, its recorders, the UI's calls and the clock |
| `LatestFrame` | abstract: a mailbox that holds the newest frame |
| `DetectTask` | capture thread's hand-over to the detection thread; implements `LatestFrame` |
| `DetectView` | the monitor page between the capture and the detection threads |
| `ChannelLifecycle` | `stopAllChannels` against the threads it stops |
| `RecordStore` | abstract: what the database means to everybody else |
| `SmartServer` | server, its MySQL connection, and clients as connections; implements `RecordStore` |
| `Records` | the server's queries and edits, as functions of a table |
| `ClientApi` | the client's connection, request numbers and answers |
| `ReviewWidget` | the two review pages with their detail widgets and dialogs |
| `ClientPages` | composes these with login, main window, log page, uploads and a server |
| `Boxes` | from the network's output to the boxes of a detection result |
| `MC…` | constants for TLC |
| `MonitorTaskProofs`, `DetectTaskProofs`, `DetectViewProofs`, `ChannelLifecycleProofs`, `SmartServerProofs`, `SmartServerAnswers`, `ClientPagesProofs`, `ClientRecordsProofs` | theorems and their TLAPS proofs |

### MonitorTask

`pc` is where `run()` is; an action goes from one access to shared state to the
next, so the UI's calls interleave exactly where `m_stateMutex` is free.  `loc`
holds the local copies `normalRecordingEnabled`, `anomalyActive`,
`segmentDurationSeconds`.  A recorder is a record of its writer (`open`) and the
seconds that decide its end: the age of a normal file, the rest of a session.
`unreported` counts files opened less files announced, and exists only for
`FilesAccounted`.  `Tick` is the clock.  Closing a session's writer
(`monitortask.cpp:279`, `344`) and the clearing of the flags under the mutex that
follows (`293`, `356`) are one step: in between the flag is set with the writer
closed, but only the thread itself knows the writer, and a notification then is
lost either way, refused before the clearing or cleared by it.  The guard of `NotifyAnomalyDetected`
says that results come only after the source was opened, which is where the
first frame comes from.

### DetectTask and LatestFrame

`calls` is the event queue of the detection thread, `capture = "post"` the
instant of `submitFrame` between unlocking the mutex and `invokeMethod`.
`LatestFrame` has `Put`, `Take` and `Switch` only; the refinement maps
`m_detectEnable`, the waiting frame and the frame taken last.

### DetectView

The page's queue is split by channel, because handlers of different channels
touch different state; `capture` is how many of the two receivers of
`frameReady` have had the frame being handed out, in the order they were
connected.  A label is the frame painted and the frame its boxes are of.
`Refresh` is what the constructor, the toggle and the view switches share.  The
DetectTasks are mailboxes, as `DetectHandOver` shows they are; an alarm is the
call of `notifyAnomalyDetected`, and what it leads to is `MonitorTask`.

### ChannelLifecycle

A wait of 1500 ms is modelled by what can end it: the thread has finished, or
the thread has no reason to end, or is inside an operation assumed to be able to
take that long (`SlowSource`, `SlowDetector`).  So the prompt instance says what
the code guarantees if no single operation takes 1.5 s, and the slow one what
happens otherwise.

### SmartServer and RecordStore

The server is sequential; its actions go from one socket or MySQL call to the
next, because what may happen in between is what clients, MySQL and the
operating system do.  `committed` is what MySQL holds, `view` what the server's
own connection sees.  A statement takes effect, is refused, or loses the
connection; a statement under way outside a transaction, or a COMMIT, may or may
not have been made then.  `Kill` is the end of the process at any moment.
`RecordStore` knows only whole uploads and single deletions; the refinement maps
its store to `committed`.  Tokens are numbers in the order they were given out,
and clients may use any that reached one of them; the shipped client sends none
(`ClientApi::makeRequest`), which is one of the behaviours allowed.

### Records, ClientApi, ReviewWidget, ClientPages

A chain of modules, each of which extends the one before.  `Records` has a *set*
of answers for each query: rows of one second come in any order (no `ORDER BY`
has a second key), a count may be refused after the page was read, and an edit
that is refused may have been made.  `ClientApi` numbers requests and keeps two
queues, `wire` and `inbound`; losing the connection empties the second, and what
is on the first may still be served.

`ReviewWidget` is one record per page.  Waiting flag and request number of the
code are set and cleared together, so one number per kind of request stands for
both, 0 for none.  Every handler is one action, with the load it ends in: `Load`
is the request *and* the clearing of the list, `LoadToday` loads twice if setting
the date emits `dateChanged`, as it does in the code.  The three dialogs that run
an event loop are the variable `modal`: opening one and going on after it are two
actions, and answers come in between.  What the code copies before the dialog
(the images to delete, the images of a preview) is kept in `modal`; what it reads
after it (frame and channel of a snapshot, the connection) is read then.

`frame` is the file that `m_lastVideoFrame` is of.  A frame that the player has
handed out before `stop` comes afterwards (`late`), when the page may show
another channel: the lambda at `reviewwidget.cpp:270` takes any valid frame.  A
snapshot has any name of `SaveNames`, that of a file there is included, since
`.jpg` is appended after the dialog has asked (`reviewwidget.cpp:399`) and the
user may also say yes.  Two variables are history, which no action reads but to
keep it: `named`, the paths that images have, had or will have, and `again`,
those of them that a snapshot was saved under after that.

`ClientPages` adds who may enter which page, the waiting login, the log page, the
recordings that become uploads, and a server that takes requests one by one.
Answers carry `about`, the request they answer; the protocol does not, and no
action reads it but to remember what a list shows.  The log handlers answer
without a request number (`LogService::queryExceptionLogs`), so that the log page
never fills: the model has it so.

`SendsToken` says whether requests carry the token of the login.  In the code
they do not (`clientapi.cpp:353`), so the server refuses everything but the login
(`PagesGate`), and all that comes after would hold for lists that are never
filled (`GateStaysShut`).  `Pages` therefore checks the client as the server expects it, with this
one difference.

### Boxes

Functions of a sequence of candidates, translated from both layouts of
`yolov8_process`, `detect` and `detectObjects`, with `cv::dnn::NMSBoxes` as its
documentation has it.  They extend `DetectTask`: the boxes are those of the
result emitted last, and `Outputs` says which outputs the network may have for
each frame.  The boxes of a frame are a set, each with its position in the
output; the order in which the code returns them is `Before`, from the best
score down and of equal ones the first found.  `NMSBoxes` says what the loop of
OpenCV leaves instead of running it: the set of boxes with the property that a box is
kept exactly when no box kept before it overlaps it.  That there is such a set,
only one, and that the loop ends with it, is proved (`KeptIsDetermined`,
`LoopKeepsTheSame`).

## 3. Runs

| Run | Question | Bounds, and why they are enough |
|---|---|---|
| `MonitorSafety` | writers, flags, files, images and gaps, whatever the UI does; a stop ends the thread even if no frame comes; while frames come sessions end, disabling closes, notifications start sessions | segments of 1 or 2 s and sessions of 1 s reach every comparison from both sides; images at frames 0 and 2 leave frames without one between and after |
| `MonitorEarlyStop` | *violated*: a stop before `run()` begins is forgotten | |
| `MonitorLostEvent` | *violated*: a detection made while recording is on can be lost | |
| `DetectHandOver` | one wakeup, order; implements the mailbox, with its liveness; the boxes of every result | 27 outputs for each of three frames: three candidates that overlap in a chain, that are as narrow as what is dropped, or that reach over the edges of the frame, in every order of scores at and above the threshold, one of them a car; 5 frames: one detected, one waiting, replacements, and one after the loop has left; 3 calls: two toggles beside the wakeup |
| `ViewSafety` | labels show what is held, off holds no boxes, switches win in order, an alarm is drawn | 2 channels, one selected and one not; 3 frames and a lag of 1 give results in time, late, and overtaken by clicks; 2 switches on their way |
| `LifecyclePrompt` | teardown in order, ends | 2 channels; they share only the order in which they are stopped |
| `LifecycleAbort` | *violated*: a slow source makes the teardown destroy a running thread | |
| `ServerSafety` | atomic sessions, clean connection, true answers, token gate | 2 connections (interchangeable, hence the symmetry), 1 session of 2 images, so that every statement can fail and the image loop runs twice, 1 file whose upload can come before or after it, 1 query, 1 login before or after a restart |
| `ServerLive` | requests are answered, the backlog served | 1 session of 1 image; no symmetry |
| `ServerListens` | *violated*: an answer to a client that has gone can end the server | |
| `Pages` | answers, lists, files and videos of the pages | 5 clicks that lead to a request, between any number of others: the login, a page, a mode, and two more, which suffice for two deletions under way at once, for a related video overtaken by a second one, and for a list overtaken by another mode, filter or page.  3 normal images on 2 channels and pages of 2 rows give a full and a partly filled page, of which the first two are of the same second; a normal video that was running at the time of one image of its channel and had ended by the time of the other, and one of an anomaly; a snapshot under a new name or under that of an image there is; 1 session to be uploaded for channel 2.  `PagesPartition` covers lists up to a row more than a page |
| `PagesGate` | *violated*: who has logged in is served | `SendsToken = FALSE`; 3 clicks |

A run marked *violated* states what a document or a comment of the repository
says and TLC shows a behaviour of the code that contradicts it; the quotation is
in `PROJECT.json` under `findings`.

Deadlock is checked except in the life cycle runs, where the closed page is the
end of the model, and in the runs of the pages, which end when the clicks are
used up.  `MonitorTask` does not end because the UI may still call.

### Fairness

* `ScheduledSpec` of MonitorTask: the operating system runs the thread.
  That frames keep coming and time passes (`FramesAndTime`) is the premise of the
  properties about work the code does per frame, and part of `FairSpec`.  No
  fairness on the UI.
* DetectTask: both threads are scheduled; no frame and no call is owed.
* DetectView: none, as only safety is stated of the page.
* ClientPages: none.  Nothing in the client makes an answer come (no timeout, no
  reconnect), so only safety is stated; that what is waited for is on its way
  (`AnswersFindTheirPage`) is the part of liveness that is the client's.
* ChannelLifecycle: all threads are scheduled, and a teardown once begun goes
  on (it is one function).  Closing the page is not owed.
* SmartServer: the process is scheduled and every MySQL call returns (the MySQL
  client has no default read timeout, so a hung MySQL hangs the server).  No
  client owes a request or a farewell: `BacklogServed` says so in its premise.

## 4. Proofs

Every theorem is for all values of the constants under the named assumptions of
its module: finite sets, naturals for bounds, names that do not clash, that the
outputs of the network are sequences of candidates (`OutputsAssumption`), and two
about what is stored.

* `TablesAssumption` (`ClientPages`): tables are finite, the path of a detected
  image names one image, and it is uploaded once.  The code builds the name from
  channel, millisecond and frame number (`monitortask.cpp:28`) and ends it in
  `.avi` for recordings (`recordtask.cpp:90`) and `.jpg` for images.  A snapshot
  may have any name that does not end in `.avi`, names in use included
  (`ReviewAssumption`; the code appends `.jpg` to names that do not end so).
* `ChannelsAssumption` (`ClientPages`): rows are of the channels that the filter
  of the review page offers.  The client files under `channelId + 1`, for the
  four channels it has.

### The live side

* **MonitorTaskProofs.**  The inductive invariant adds to the properties
  `LocalFlag`: the local copy of `anomalyActive` agrees with the shared flag
  between the snapshot and the end of the frame.  Without it neither writer
  exclusion nor the flag is inductive, because `RecordNormal` and
  `RecordAnomaly` choose their branch by the copy.  `GapFree`, an action
  property, follows from the same invariant.
* **DetectTaskProofs.**  `WakeupToken` is inductive with the types; `FrameOrder`
  and `NoLostWakeup` follow with it.  `RefinesMailbox` maps every step to a
  mailbox step or a stutter: `CallersStep` for the capture thread and the UI,
  where a frame put in has to be newer than all before it (`SubmitPuts`), and
  `DetectorStep` for the detection thread.
  *Boxes*, for any number of candidates, any frame and any network input.  Of
  one candidate: `DecodedInFrame` (what the decoding lets through is not empty
  and lies in the frame, wherever the network puts it) and `SmallHidesSmall`
  (dropping small boxes only after the suppression loses nothing, because at
  80 % overlap the hidden box is small as well; at 60 % this would be false).  Of all
  of them: the boxes of a finite set can be numbered by `Before`, and of the
  numbers for which a statement is false there is a least.  With such a least
  counterexample in place of induction over data, the set that `NMSBoxes`
  stands for exists (`KeptExists`) and is the only one, and a loop as OpenCV's
  has made the same choice after each of its rounds.  `BoxesStayInFrame` and
  `ThingsShownOnce` put these together for every result of every behaviour; that
  needs of DetectTask only that a result is of a frame there was.
* **DetectViewProofs.**  The properties alone are not inductive: that a result
  never comes before its frame (`ResultsFollowFrames`) depends on how far the
  capture thread is with the two receivers of `frameReady`.  `FramesInOrder` and
  `FramesArrive` say where each frame handed out is: it has reached the page, or
  is in the queue behind its predecessors.  The proofs need no bound on
  frames, clicks or channels.
* **ChannelLifecycleProofs.**  `TakenDownInOrder` and `EarlierGone` tell for
  every channel what is left of it, from the stage and the channel being stopped;
  `SecondStopHeard` that `run()` has begun when `stop` is called again, after
  the first 1500 ms: it forgets only a stop that comes before its first line.
  `PromptThreadsSurvive` has the hypothesis that no operation of a source or of
  the detector outlasts a wait, as run `LifecyclePrompt` has; run
  `LifecycleAbort` shows that it cannot be left out.  `FramesFindTheirTask` needs
  no such hypothesis.  `StoppedIsGone` is stated by no run: it is what
  `TeardownEnds` leads to.

### The server

* **SmartServerProofs.**  The invariant says, per point of the handler, which
  rows the transaction holds beyond what is committed; from it come the clean
  connection, the token gate and the refinement of `RecordStore`.
* **SmartServerAnswers.**  `AnswerTruthful` compares an answer with the database
  as it is *now*, long after the answer was given.  It is inductive only with
  what keeps the database so: a job is asked for once (`AskedOnce`), nothing of
  an upload is stored while the upload is ahead (`AheadUntouched`), a deletion
  comes after what it deletes (`DeleteAfterStore`), a rollback leaves no row of
  its transaction (`RollbackUndoes`), and a handler about to answer holds the
  truth already (`AboutToTell`).

### The pages

* **ClientPagesProofs**, about numbers: the two pages, the login and the log have
  slots for a number each.  A number is in one slot at most (`Numbered`), what a
  slot waits for is on one of the two queues (`OnItsWay`), and the list on its
  way is the one the controls ask for (`Matches`).  The last does not follow from
  the properties: without it a click while a list is awaited would leave an
  answer to the wrong question.
  *Whom an answer moves*: `AnswersMoveTakers` (`OnlyTakersMove`) is an action
  property from the same invariant.  Each handler compares numbers, but a number
  is on one page only because of `Numbered`, and so the other page of the same
  kind stays as it is.
  *The gate* (`GateInv`): `UsersAsk` (nobody who has not logged in leaves the
  live view or sends more than a login) holds of dialogs, recordings and late
  answers only because a dialog of a page is open to users alone, and because a
  login that is awaited has a name.  Five statements about one step carry the
  rest: `Requests` (what is sent has the token there is), `Told` and `Stored`
  (who is let in is answered, and changes the tables), `Entry` (who becomes a
  user) and `Shows` (a list is filled by a success alone).  From them:
  `TokenOpensGate` (with the token, whoever has logged in is let in, so the token
  is all that is wrong), `GateStaysShut` (without it, as in the code, no list
  ever has a row and no table changes: run `PagesGate` shows the first refusal,
  the theorem that nothing else ever comes) and `LogStaysEmpty` (the log page
  shows no entry even with the token, as its answers have no number).  Run
  `Pages` checks neither these nor `OnlyTakersMove`.
* **ClientRecordsProofs**, about what the numbers stand for, in four parts.
  *Pages of lists*: `RowsOnPages` for lists and pages of any length; the run
  covers lists of up to a row more than a page.  *Played videos* (`RInv`): what
  is played, listed or on its way is recorded under the channel noted for it, and
  the time a related video was asked for is still the one kept
  (`m_pendingRelatedCaptureTime`).  The exception, a frame that came late, is part
  of the property.  *Files* (`FInv`): no file goes while a row may still need it,
  except that of a name in `again`.  That takes the history of every image the
  client knows of, `Past`: no other of its path is to come (`Ahead`), because
  requests are served in order and once (`Orderly`), and a name is uploaded once
  and, outside `again`, inserted once (`OneInsert`).  Without it a deletion could
  overtake the upload of what it deletes.  *Controls* (`TInv`): the day and
  channel that a related video sets come out of a row, the row out of an answer,
  the answer out of a request with a day that had been chosen, and so the
  invariant goes once around: controls, requests, rows, images, controls.

Every safety property of a passing run is stated by a theorem.  Model-checked
only is liveness, because fairness and ENABLED are out of the prover's reach:
`StopEndsThread`, `SessionEnds`, `DisablingCloses`, `EventStartsSession`,
`EventLoopReturns`, `TeardownEnds`, `RequestsAnswered`, `BacklogServed`, and what
`ImplementsMailbox` says beyond `RefinesMailbox`.

## 5. Not modelled

* **Settings and their file**: one thread writes and reads an INI file in one go;
  what a change means for recording is in `MonitorTask`.
* **Framing of messages**: loops over `recv`, `send` and a buffer that have
  branches of their own only for lengths neither side produces.
* **Export of images** (copies under names not in use, nothing else changes),
  **the player** (pausing, position, a seek that comes late), message boxes,
  drawing, layout and texts.
* **Sending on a connection that breaks in between**: the pages look at
  `isConnected` and send in the same handler.
* **The network itself**, a model that cannot be loaded (no boxes, and tried
  again for the next frame), rounding of floats other than the truncation to
  pixels.
* **DbConnectionPool, the client-side models, UserService, the registration and
  the other networks** are not reachable in the shipped build, so there is no
  state of theirs that the program can be in.
* **Clocks that are set back.**

Two things the code does are modelled, and are exceptions in the properties:
a snapshot saved under the name of an image leaves two rows with one file, which
goes with the first of them that is deleted; and a snapshot of a late frame is
filed under the channel selected by then.  Both occur in run `Pages`.  No
document of the repository speaks of either, so there is no run that refutes
one.

## 6. Plan

1. `MonitorTask`, `DetectTask`, `ChannelLifecycle`, `SmartServer`, with proofs of
   the first, second and fourth (done).
2. `DetectView`, with proofs (done).
3. `Records`, `ClientApi`, `ReviewWidget`, `ClientPages`: the pages, and the
   token gate, with proofs (done).
4. `Boxes`, with proofs (done).
5. Proofs of the life cycle and of `AnswerTruthful` (done).
6. What an answer may move, and the gate with and without its token (done).
   What is left is liveness, which stays model-checked.
