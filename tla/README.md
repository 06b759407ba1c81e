# Bathymetry Survey in TLA+

TLA+ modules of the Bathymetry Survey system (`src/backend`, C++17 with Boost.Asio,
Boost.Beast and spdlog; `src/frontend/src`, React), their TLC configurations, and proofs
checked by TLAPS. `PROJECT.json` maps every definition to the lines it stands for and lists
the runs, mutants, findings, hazards and theorems.

    tlc -workers 2 -config LogDevicesData.cfg MCLogDevicesData     # a run
    tlapm LogDevicesDataProofs.tla                                 # proofs

## 1. The system

The backend reads a sonar and a GPS receiver from two serial ports, keeps their last readings
in global variables, serves them over HTTP, and logs them to a CSV file per client. The
frontend polls the readings, draws the path of the boat on a map, and starts, stops and
downloads the log. The threads of the backend are: main, one io thread per device, `ioc_thread`
for all of HTTP, and one logger thread per client that is logging. There are no tests.

| Component | State | Operations | Hard part |
|---|---|---|---|
| Sensor globals (`GlobalDevicesData`) | five globals, `sonar_mutex`, `gps_mutex` | written by the device threads; read by loggers, HTTP, WebSocket | readings of several variables; two mutexes; HTTP takes none |
| `PingSonarDevice` | port, `buffer_`, `stop_flag_`, io thread | `Start`, `run` (read loop), `Stop` | framing on a lossy line; stop beside a read |
| `GPSDevice` | port, `read_buf_str`, `stop_flag_`, `mutex_`, io thread | `Start`, `on_receive`, `parseGPSLine`, `Stop` | lines in chunks; stop beside a read |
| `LogManager`, `LogData` | `activeLoggers_`, `lastLogFilePathMap_`, `loggerMutex_`, a thread and a file per logger | `startLogging`, `stopLogging`, `getLastLogFilePath`, `run` | join under a lock; file names by the second; buffered rows; spdlog's names |
| `HttpServer`, `HttpSession` | acceptor; `req_`, `res_`, `buffer_` per connection | accept loop; read, handle, write | keep-alive with one response object; blocking handlers |
| main | `keepRunning`, `global_ioc` | start, SIGINT handler, shutdown, static destructors | signal at any statement; order of destruction; ports that do not open |
| `WebSocketServer`, `WebSocketSession` | acceptor, `socket_`; per session a timer, `is_open_`, `first_message_received_` | accept loop, handshake, a message a second, `stop`; main has it commented out | sessions kept alive by their handlers; clients that go at any moment; slow writes |
| `JsonReader`, `Config` | configuration | read once, or throw | - |
| Header, `FetchData` | `isLogging`, `loading`, `alertShownRef` per tab, `clientId` per browser in `localStorage` | toggle, download, `getClientId` | copies of the backend's state; a `clientId` made at first use |
| `MapContainer`, `OfflineMap` | value, interval, path, three flags | start, stop, poll | overlapping polls; late answers; effects |
| Other pages, mocks, build files | none | - | - |

**Interactions.** Device threads and readers share the globals. `HttpSession::handle_get` calls
`LogManager` synchronously on `ioc_thread`, which joins logger threads. `HttpSession` reads log
files while their thread appends to them through a stdio buffer. Logger threads and
`createNewLogFilePath` share the struct of `std::localtime` and spdlog's registry. The signal
handler reaches `ioc` through a global pointer. The frontend reaches the backend by requests
that can overlap, fail, or be answered in another order.

**What makes each component correct.** Globals: a sample is one frame and one sentence. Devices:
what is published was measured, and `Stop` returns and is final. Logging: every running thread
can be stopped, a file holds what was logged, in order, and a download has all of it. HTTP: a
request gets its own answer. WebSocket: a client that stays is served, one that goes is forgotten. main:
SIGINT ends the process, after the log is complete and without using a destroyed object. Frontend: what it shows is what the backend does.

## 2. Modules

| Module | Models | Instance, runs |
|---|---|---|
| `AtomicReadings` | the abstract promise of the globals: frames and sentences published as a whole, a sample of both at one moment | property of `SensorGlobals` |
| `SensorGlobals` | the critical sections of the device and logger threads, one statement per action | `MCSensorGlobals`: `SensorGlobals` |
| `DataDevices` | `/data/devices` composed with `SensorGlobals` | `MCDataDevices`: `DataDevicesTorn` |
| `LogService` | the abstract promise of logging: sessions and files, one atomic step per request | property of `LogDevicesData` |
| `LogDevicesData` | `LogManager`, `LogData`, download, files, buffers, registry, clock, crash | `MCLogDevicesData`: `LogDevicesData`, `LogCalls` |
| `MainProcess` | `JsonReader`, main, signal handler, device and HTTP threads, a logger, exit | itself: `MainProcess`, `MainGraceful` |
| `PingSonarDevice` | the sonar's `Start`, its read loop, byte by byte, and `Stop` | `MCPingSonarDevice` |
| `GPSDevice` | the GPS's `Start`, `on_receive`, `parseGPSLine`, `Stop` | `MCGPSDevice` |
| `HttpSession` | a kept-alive connection | itself |
| `WebSocketServer` | the accept loop and `stop`, and the sessions of its clients | itself |
| `LoggingToggle` | the logging and download buttons of tabs, and the `clientId` of browsers, against `LogManager` | itself |
| `MapPolling` | the live map view against `/data/devices` | itself |
| `SensorGlobalsProofs`, `LogDevicesDataProofs`, `MainProcessProofs`, `PingSonarDeviceProofs`, `GPSDeviceProofs`, `HttpSessionProofs`, `WebSocketServerProofs`, and `FrontendProofs` for `LoggingToggle` and `MapPolling` | theorems | - |

Actions have the name of the function or of the statement they stand for; program counters
(`sonarPc`, `callPc`, `threadPc`, `mainPc`, `ioPc`, `stopPc`) name the next statement, and a helper
(`SonarAt`, `CallAt`, `ThreadAt`, `From`, `IoAt`, `At`) moves one on. An operator whose
comment describes an altered behaviour ("A handler that ...", "A Stop that ...") stands before
the operator it alters and is used by no specification: `PROJECT.json` lists it as a mutant,
which shows that a property notices that change.

### SensorGlobals, AtomicReadings, DataDevices

A reading is identified, not spelled out: each global holds the frame or sentence it came from.
`gpsDateTime`, a string, is stored in two halves. The device threads hold their own mutex; a
logger takes `sonar_mutex` and then `gps_mutex`, loads four globals, releases them and writes a row.
Loads are unordered only where the code leaves the order open: the operands of `+` in
`DataDevices`. A torn or unordered store is not finer than a field, except for the string.

### LogDevicesData

One HTTP thread calls the manager, so `loggerMutex_` is never contended and a call is a sequence
of actions (`StartLogging`, `StartJoin`, `ReadClock`, `LocalTime`, `SpawnLogger`; `StopLogging`,
`StopJoin`; `Download`, `DownloadExists`, `DownloadRead`). A thread opens its file and writes the
header, and then, until `terminateThread_`, sleeps, reads the clock, calls `std::localtime` and
logs. Lines go to a buffer of at most `BufRows` lines that reaches the disk when it is full or the
file is closed; `Crash` loses the buffers and the maps and keeps the disk. A line counts by its end: when a full
stdio buffer cuts a line in two, its beginning is on disk and not counted. Time is in seconds; a row is the time it bears.

All threads and the calls share `tm`, the struct of `std::localtime`. The history `disturbed` holds the files whose stamp, or
one of whose rows, was formatted from the time that another thread or call had put there. `HeadersFirst` and `RowsIncrease`
speak of the other files: they say that this is the only damage concurrent loggers do to the order, and that it stays in the
file it hit.

`LogService` has no thread: a client's session is started, logs lines and is stopped, a line is saved or
unsaved, and a download is answered by the file of the last session as it is at one moment. The mapping
takes the file of an active logger or `lastLogFilePathMap_` for the session, the clients in
`activeLoggers_` for those logging, and the buffer of the thread that has a file open (`Unsaved`) for its
unsaved lines. What it adds to the safety properties: a stop takes effect only when everything logged
is on disk, a start only when the client's session before is over, each line goes to the file of a session
that is going on, and a 404 is the answer only when no file of the last session existed at that moment.

### MainProcess

One action per statement of main that a thread, a signal or an exception can come between, from
`JsonReader::setConfig`, which sets the configuration or throws, on. `Failures` names what can go wrong. The
SIGINT handler runs on the main thread. `Serve` begins a handler of `ioc` (`on_accept`, `on_read`), which goes on by itself
when `ioc` is stopped meanwhile: it may still start or stop a logger, join one, or throw (`AcceptThrows`; `logsDir`, when
`create_directories` throws). At exit the registry of spdlog, created with the first log
file, is destroyed before `logManager`, created before main. `misuse` records the use of a destroyed object, `ioc` by a
signal after main has returned, the registry by a logger; the process then goes on, is aborted, or the thread that used it
never comes back ("stuck"). One client stands for all: two would only wait for each other's joins.

### PingSonarDevice

Bytes are numbers and the four checks are the code's: start bytes, id, length, additive checksum.
The sonar sends message after message; the port is opened at any byte of one (`Openings`, with the history `aligned`), and
the line may lose a byte or change it. The message's last field, `gain_setting`, has two bytes, as in the mock, or four, as in
the documentation the mock quotes (`gainSize`). `Checksum` is the loop
over the bytes, as a recursive function, in a `uint16_t`. `Stop` has no
mutex: its four statements (flag, cancel and close, `io_context` stop, join) are actions beside those of the io
thread, which tests the flag (`Run`), starts a read (`Read`) and handles it. A race inside Boost's `serial_port` is taken
by its outcome: a read that was started on a port closed meanwhile fails.

### GPSDevice

A sentence is two pieces and two end-of-line characters. It shows what the chunks do to lines and
what `mutex_` is for. `parseGPSLine` publishes the sentence in one step (`SensorGlobals` has the
statements); lines it rejects or that make `std::stod` or `substr` throw are the sentences that
are not in `Fixes`.

### HttpSession

The client may send requests ahead; they wait in `buffer_`. `Handle` is what each branch makes of
`res_`, with stale fields where a branch sets none: the content type of a 400, and the Content-Disposition that a
download sets and nobody erases.

### WebSocketServer

A session is what it has outstanding (`pending`): the handshake, the timer or a write. Each handler takes its
operation away and adds the next ones, and a session with none is freed, as its `shared_ptr`s are. Handlers
run one at a time on the io thread; `Stop` and `IocStop` come from main's. A client can stall, or leave with
or without data unread: a write to a socket that was closed succeeds once and makes the next one fail.

### LoggingToggle and MapPolling

Event handlers are split at their awaits. In `LoggingToggle` a reload starts a tab anew while its
request stays under way, and so it can for a fetch that fails (`GivesUp`): the backend may serve it later, after other
requests (`ServeOrphan`). `getClientId` is split between `getItem` and `setItem`, because the scripts
of two tabs of a browser run in processes of their own; within a tab nothing comes between. In `MapPolling` the device stores the coordinates of a fix one by one (`NewReading`),
the backend's handler reads them one by one (`ServePoll`), and the answer is
shown when it is received; every event is rendered, and `OfflineMap`'s effect runs, before the
next one. A coordinate is the number of its fix. One that is 0 is no point for the effect, as in the code: number 0 is the
one before the first fix.

## 3. Runs

Passing runs:

| Run | Shows | Bounds and why they are enough |
|---|---|---|
| `SensorGlobals` | `RowIsOneReading`; the threads implement `AtomicReadings`; `NobodyStarves` | one frame and one sentence: with the values the globals start with, two readings that can be mixed; two loggers: one waits for the other. Each reading can be published again and again |
| `LogDevicesData` | no orphaned thread, free names, complete downloads, a disk that only grows; headers first, rows in order and after the stamp in the files nobody disturbed; the threads implement `LogService` | two clients, three sessions: a client starts twice beside another; three seconds: a file is reopened in its own second, and gets two rows; two-line buffers: full and part-full; one crash |
| `LogCalls` | calls return | two clients, two sessions: a call joins a logger beside another's; one crash |
| `MainProcess` | objects outlive the threads that use them; the log is complete at exit; only a logger left running meets a destroyed registry; after `ioc.stop()` the process ends, but for three exceptions: the sonar's port is closed, a running handler throws, a destroyed object is used | every combination of failures; two signals: one that ends the process and one that finds it ending |
| `PingSonarDevice` | a published pair was measured; on a clean line messages are accepted if and only if the port was opened at the start of one and `gain_setting` has two bytes; `Stop` returns | a fault at every place of the stream. Five openings (1, 2, 8, 30, 32): with messages of 34 bytes each read starts two bytes before the last, and a lost byte moves on by one, so that every byte comes first in a buffer; all 34 openings pass too, in three and a half minutes. A second, compensating fault would defeat any additive checksum |
| `GPSDevice` | the position is the last complete fix; `mutex_` keeps `Stop` away from the read; `Stop` returns and nothing is published after its flag | chunks of 1 to 5 characters of 4-character sentences: within, at and over the end of a line |
| `HttpSession` | an answer is what a new connection would answer, but for two stale headers, and which answers have them; nothing after a close | three requests of ten kinds |
| `WebSocketServer` | one operation per session; a gone client's session is freed; a client that stays is served | two clients and one that does not speak WebSocket: one is accepted, one stalls and one fails its handshake at the same time; one accept error |
| `LoggingToggle` | a button whose last request was answered is right; a logger can be reached from its browser; a pressed button comes back | two tabs, of one browser or of two: the first two properties are about a tab alone in its browser, beside another client; one failure, served later or not |
| `MapPolling` | both coordinates of each point of the path are of fixes; one interval while tracking | two fixes after the initial 0: a handler can read one coordinate of each; three polls, which can overlap; the page left once |

Violating runs, each showing a disagreement of the code with what the repository says (quotes in
`PROJECT.json`, `findings`):

| Run | Disagreement |
|---|---|
| `DataDevicesTorn` | `/data/devices` mixes two readings: it takes no mutex |
| `MainGraceful` | a client that is logging at SIGINT: its thread uses spdlog's destroyed registry |

The code falls short of more than that. Each of these follows from the modules as they are; no run is
spent on them:

| What does not hold | Where it shows |
|---|---|
| a row bears the time it was logged at (`src/README.md:25`) | `RowsIncrease` and `HeadersFirst` without their exemption of `disturbed`: two logger threads and the HTTP thread share the struct of `std::localtime`, and `LogRow` and `SpawnLogger` format what another has put there |
| one header per file | `LogDevicesData`: two sessions in one second share a file |
| a file ends with a whole line | `Write`: a full stdio buffer is written in the middle of a line, and a crash or a download then sees a cut last line |
| 404 "you should log file" (`FetchData.js:48`) only for a client that never logged | `DownloadNotFound` between `SpawnLogger` and `OpenLog`, or after a `Crash` |
| SIGINT ends the process | `MainProcess`: after a `Signal` before `GlobalIoc`, `ioc` is never stopped, and main waits for `ioc_thread` for ever, also without a client: `on_accept` accepts again on the closed acceptor (`AcceptError`) |
| a missing GPS port is reported | `GpsStart` aborts the process |
| a missing sonar port leaves the shutdown intact | `SonarStop` aborts it: `cancel()` on a closed port throws |
| a client cannot end the server | `AcceptThrows`: `remote_endpoint()` of a client that is gone |
| a logs directory that cannot be made is reported to the client | `StartLogger`: what `create_directories` throws leaves `ioc.run()` and aborts the process |
| a handler that throws beside a SIGINT leaves the shutdown intact | `AcceptThrows` and `StartLogger` go on after `ioc.stop()` |
| a second SIGINT is harmless | `Signal` after `Return` uses the destroyed `io_context`: the exit may crash or hang |
| an answer has the headers of its own request | `HttpSession`: after one file every answer of the connection has a Content-Disposition (set in `HttpServer.cpp:167`, never erased), and a 400 has the content type of the answer before |
| the sonar's messages are found wherever the port is opened, and again after a lost byte | `PingSonarDevice`: reads are 32 bytes long from wherever they begin, there is no search for the start bytes, and nothing is published any more (`CleanLineAccepted`, with `aligned` false) |
| messages with the documented four-byte `gain_setting` are accepted (`PingDeviceMockData.py:16`) | `PingSonarDevice` with `gainSize = 4`: none ever is, also when the port was opened at the start of one |
| a point of the map is a place the boat has been at | `MapPolling`: `ServePoll` reads the latitude of one fix and the longitude of the next |
| `wsServer.stop()` beside a running `io_context` (`main.cpp:50`) is safe | `WebSocketServer`: `OnAccept` after `Stop` calls `start()`, which throws for a closed acceptor |
| a browser has a "persistent unique clientId" (`FetchData.js:3`) | `LoggingToggle`: `SetItem` of two tabs of one browser; the first tab's logger is out of reach |
| the button tells whether the backend logs | `LoggingToggle`: after a `Reload`, in a second tab, after "Failed to start logging." when only the answer was lost, and when a request that has failed is served after a later one |
| the view goes forward, and shows nothing after "Tracking stopped" | `MapPolling`: polls overlap, and a poll under way is shown after `handleStop` |

A symmetry set (clients, sessions) is used in `LogDevicesData`, whose properties are safety properties, and one of readings in
`DataDevicesTorn`; the members are interchangeable because the
modules compare them for equality only. `CHECK_DEADLOCK FALSE` stands where the system really stops: the
process exits, a read loop ends at an error, a connection closes, the `io_context` stops, or a bound on input is reached.

## 4. Fairness

- `SensorGlobals`: threads are scheduled (weak). A thread that waits for a mutex is let in if the
  mutex is free again and again (strong): boost::mutex is not a queue, but each holder releases it after a
  few statements, and devices and loggers sleep or wait for input between two uses.
- `LogDevicesData` (run `LogCalls`): threads and the calling thread are scheduled (weak), and a sleep ends. Clients owe
  nothing, the clock moves by the sleeps.
- `MainProcess`: threads are scheduled (weak), and a handler that was begun goes on; no client acts and no signal comes by
  fairness.
- `PingSonarDevice`: the io thread runs, a read on a closed port ends, and a `Stop` that has begun goes on (weak). The sonar
  owes nothing: a read may be pending for ever.
- `GPSDevice`: the io thread runs and `Stop` goes on (weak); `Stop` gets `mutex_` (strong): the io thread
  gives it back after each chunk and sleeps until the next. The receiver owes nothing.
- `WebSocketServer`: the `io_context` runs the handlers that are due, the system hands over the connections it has made,
  and a handshake or a write ends unless its client stalls (weak). No client comes or goes by fairness; a client that
  stalls keeps its session, since the code sets no timeout.
- `LoggingToggle`: the backend serves what it receives (`CallsReturn` is why), the fetch settles,
  the timer fires (weak). `fetch` has no timeout: with a backend that never answers, the button would
  stay disabled.

## 5. Proofs

TLAPS proves, for all values of the constants under the named assumptions (`ThreadAssumption`,
`LogAssumption`, `NoneAssumption` and `HeaderAssumption`, `FailureAssumption`, `GpsAssumption` and `EolAssumption`,
`SessionAssumption`, `ToggleAssumption`, `SonarAssumption`). `HeaderAssumption` says that the line of column names is not a time stamp,
`EolAssumption` that the end of a line is not a piece of a sentence, `SonarAssumption` that a distance fits into the
message's `uint32_t`, that the confidence is a percentage, and that a disturbed byte is a byte.

- `SensorGlobalsProofs`: `TypeCorrect`, `LockingInvariant`, `RowsAreReadings`, `Refinement`.
  `RowIsOneReading` is not inductive: it says nothing of a row being sampled. `LockingInv` adds
  that a mutex is held by exactly the thread that is in its critical section (`MutexInv`), what a
  publishing device has stored so far (`PublishInv`), and that what a logger has loaded is what is
  published now (`TakenInv`). The last two are what mutual exclusion buys, one lemma per thread shows
  that its steps keep them. The refinement maps the globals to the frame and sentence last published as a
  whole, and a sample to the moment both mutexes are held.
- `LogDevicesDataProofs`: `TypeCorrect`, `LoggersInvariant`, and from it `NoOrphans`, `NamesFree`,
  `DownloadsComplete`, `DiskGrows`. `NoOrphanLogger` alone is not inductive: that `erase` and the new entry
  lose no running thread needs that the call has joined the client's old thread (`CallInv`), that a path
  names its client (`ActiveInv`, `OwnPathInv`), and that only a thread with an open file has
  buffered lines or a name in the registry (`FilesInv`).
  `Refinement` shows the implementation of `LogService`. It needs that the buffer chosen by `Unsaved` is that of the only
  thread that has the file open (`UnsavedIsBuffer`, from `LoggersInv`): then a step of a thread changes one
  file's unsaved lines, and the step that ends a stop finds none of its session.
  `HeadersComeFirst` and `RowsAreInOrder` say what the files that were not disturbed contain, for any number of clients,
  sessions, crashes and buffer sizes. A file is disturbed by the very step that formats another's time, so the threads and
  calls of the others need no condition on how they interleave: a row that goes to an undisturbed file is the `clock` of its
  thread. The two properties are not inductive; `OrderInv` gives every undisturbed file
  a limit that its rows do not pass: the clock (`FileOrdered`), for a thread that sleeps the time it fell asleep, for one that
  is about to log the second before its sample, and for a session that starts the stamp of its path, so that a file
  that is reopened has headers only (`ThreadOrder`, `CallOrderInv`). `RowAppended` and `HeaderAppended` are the two writes.
- `WebSocketServerProofs`: `TypeCorrect`, `OneAtATime`, by one invariant whose parts are inductive
  together: a handler of a session with at most one operation leaves it with at most one (`HandlerStep`).
- `GPSDeviceProofs`: `TypeCorrect`, `PortInvariant`, `Quiet`, `LastFixPublished`. That on_receive has the port for itself
  (`HandlerOwnsPort`) needs who holds `mutex_` and how far `Stop` is (`MutexInv`, `StopInv`).
  `LastFixPublished` holds for any number of sentences and any cutting of the stream into chunks. `PublishedIsLastFix` says
  nothing of a line that is not complete; `StreamInv` adds that what is unread, in the chunk and on the wire, is the characters
  of the sentences sent (`UnreadInv`), and that how many on_receive has gone through says what `read_buf_str` holds
  (`CollectedInv`), also for the sentence under way when the port was opened, which never is a line (`CutInv`). A read only moves
  characters from the wire to an empty chunk (`StreamRead`); a character completes a line at its place 3 or not
  at all (`SentenceByte`).
- `MainProcessProofs`: `TypeCorrect`, `ObjectsLast`, `LogIsSaved`, `StoppedLoggersAreSafe`, for any set of failures and
  any number of signals, and whatever handler is running when they come. The order of destruction rests on the joins of main: past one, its thread has ended
  and is not started again (`JoinedInv`). What a logger meets at exit rests on `ExitInv`: a thread is in
  `activeLoggers_` until it was joined, and the registry goes when `ioc_thread`, which alone adds and erases
  loggers, has ended; `~LogManager` then waits for the rest.
- `HttpSessionProofs`: `AnswersAreFresh`, `CloseIsLast`, for any number of requests on a connection. `AnswersFit`
  speaks of written responses; the invariant adds that the response being written is that of the request
  read last, and that requests are answered in order (`OrderInv`). `HandleFits` shows, target by target, that
  what an earlier answer left in `res_` is overwritten, but for the content type of a 400. What is left of a download is part
  of the property: an answer has a Content-Disposition exactly from the first file on, its own included. `HeaderInv` carries
  that from answer to answer through `res_` (`HandleKeeps`).
- `PingSonarDeviceProofs`: `AlignedMessagesAccepted`, `OneFaultPublishesNothingWrong`, for any measurements and any noise, a
  port opened at any byte, messages with either size of `gain_setting`, and a fault at any place. Two arguments meet:
  - What the four checks make of 32 bytes. A whole message of the expected size passes and is decoded to what was measured
    (`WholeAccepted`). One changed byte changes either the sum or the checksum, never both alike (`ChangedRejected`). A buffer
    that begins elsewhere, or holds a longer message, has two wrong bytes among those of the header, or one there and a
    checksum that is out of range, so that one changed byte cannot make it pass (`StreamRejected`); one that
    a byte is missing from has a wrong one wherever it begins (`ShortRejected`). These say for each place of a message what values its byte
    can have (`Fits`, `FitsMessage`): a distance may contain the start bytes, the other fields do not, and no
    measurement can be chosen against that. The sum of 30 bytes is at most 30 * 255, and that of a message with this header
    at least the sum of the header (`ChecksumRange`, `ChecksumAtLeast`); it is determined by the bytes, and one of them
    changes it (`ChecksumEqual`, `ChecksumDiffers`). As there is no induction rule, these are proved by the
    least number of bytes for which they would be false (`LeastElement`, from the well-foundedness of < on Nat).
  - What a buffer can hold. Neither property is inductive, as neither says where the line stands. `LineInv` does: with at
    most one fault the buffer holds the beginning of one message of the expected size with one byte changed at most (`Whole`),
    or is a stretch of the stream that begins elsewhere, with one byte changed at most (`Across`), or one that misses a byte
    (`Short`). `Stream` names the place in a message each byte of it comes from. Each read starts in one of these three (`Fresh`),
    and a byte of the line keeps it there (`WholeStep`, `StreamStep`). With two faults `PublishedWasMeasured` is false: they can
    compensate in a sum.
- `FrontendProofs`, the buttons: `Reachable`, `ButtonIsRight`, for any number of browsers and tabs and every loss, reload and
  late service, of a request given up by a reload or for an error. A `clientId` in use was made in its browser, which has one stored from then on
  (`IdInv`); for the only tab of a browser it is the tab's own (`SingleId`), so that no other tab's request
  touches its logger. `CallInv` ties a request that was served to what the backend does since.
- `FrontendProofs`, the map: `FixesOnly`, `PollsExactly`, for any number of fixes and polls. That the path has coordinates of
  fixes only needs that each coordinate of an answer on its way is one the backend has had (`PollsInv`), and that a start clears
  the path before the position shown is drawn (`TrackingStep`). It does not say that a point is one fix, which is false.

Every safety property of the passing runs is a theorem. Only model-checked: every liveness property and everything that needs
fairness or ENABLED, which TLAPS does not reason about here.
`LogService` and `AtomicReadings` are promises, not code, and have no entry in `PROJECT.json`'s map.

## 6. Not modelled

- `WebSocketSession::read_messages`, which nobody calls; the text of a message, which is sampled under both mutexes as
  a logger does it; that it is sent from a temporary string that is gone before the write ends.
- `Config::getLogFilePath` and its `shared_mutex`: nobody reads the path.
- The conversion of degrees and minutes, and number formatting: a reading is identified by where it came from.
- The other pages, the mocks (they are the devices' environment), build files.
- Data races inside Boost: `PingSonarDevice::Stop` closes the port beside the io thread without a mutex; the
  modules take the outcome, a read that fails or is not started.
- SIGTERM, which has no handler: it is `Crash`.

## 7. Plan

Done: globals (`AtomicReadings`, `SensorGlobals`, `DataDevices`), logging and its abstract specification (`LogService`,
`LogDevicesData`), process and configuration (`MainProcess`), devices with their `Stop` (`PingSonarDevice`,
`GPSDevice`), `HttpSession`, `WebSocketServer`, the stateful parts of the frontend.

Left:

1. The composition of `HttpSession` with `LogDevicesData`: several connections and one blocked handler, and what a client
   learns from its answers.
