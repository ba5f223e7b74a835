# Verification of the AESD sensor and alert system

The repository is a course project for three Raspberry Pis: sensor servers
stream readings over TCP, a client logs them and picks out the alerts, and a
display shows the alerts on an LCD and on LEDs.  This directory holds TLA+
models of those programs, the TLC runs that check them on small instances and
TLAPS proofs for all instances.  `PROJECT.json` lists, for every definition,
the lines it models.

    tlc -workers 2 -config ServerStream.cfg MCSensorServer
    tlapm SensorServer_proof.tla

## 1. The system

    SocketServer (S1,S2) ---TCP 9000---+
                                       +--> SocketClient --"/aesd-server"--> socket_message_rcv_lcd
    SocketServer_sensors (S3,S4) --TCP-+         |                               |       |
                                          sensordata.txt                        LCD     LEDs 1..4

    socketuserserver: receives what someone types, prints it
    q_msg_lcd, socket_lcd, gpio, gpio_led: run on a board by hand, on the same pins and LCD

| Component | State | Operations | Hard part |
|---|---|---|---|
| `Client/SocketServer.c` | globals `newfd`, `sockfd`, `rdBuff`, `socklock`, `signal_flag` | accept one client; two threads sample, format, send; `handle_sig` | two threads and a signal handler on shared globals; short sends; a client that leaves |
| `Client/SocketServer_sensors.c`, `Client/socketserver_ultasonic.c` | the same, and GPIO pins TRIG/ECHO, the I2C bus, descriptors | the same; `GPIO_init`, `read_sensor_data`, `i2c_sensor_read` | waiting for a pin without a timeout; leaked descriptors; one failing call ends both sensors; pins left exported |
| `Client/SocketClient.c` | one socket and `rcv_cmd` per thread, `socklock`, log file, queue | connect to each server; receive, append, forward alerts | `recv` cuts and joins lines; a full queue blocks; threads share the file |
| `Client/socket_message_rcv_lcd.c` | queue, `in_buffer`, `out_buffer`, LED pins, LCD | receive, find `!` and digit, print, blink | crash and restart with a queue, pins and an LCD that survive; the wrong digit; a pin that fails |
| POSIX queue | at most 25 messages | `mq_send`, `mq_receive` block | survives both processes |
| `Client/socketuserserver.c` | `newfd`, `rcv_cmd`, `signal_flag` | accept one client; receive, print | `recv` of any length, 0 for ever, or -1, into the same buffer |
| LCD and GPIO programs | pins under `/sys/class/gpio`, LCD | set up, print or drive pins, end | every program meets what the last one left |

How they interact: a server's line goes through `send()` (which may take only a
part), TCP, `recv()` (which may return any part), the log file, and, when the
chunk holds a `!`, `mq_send()` to the display.  Programs on one board share its
pins and its LCD, one after the other.  The components share nothing else.
What makes each correct:

* server: the connection carries cuts of single readings, none twice and each
  sensor's in order; threads never wait for the client; a signal ends the process;
* server with real sensors: the same whatever the pins and the bus do; alerts are
  those the registers imply;
* client: the log holds the received text exactly once and in order, per server;
  a full queue does not keep other threads from the log;
* queue: nothing lost, repeated or overtaken between log and display;
* display: the alert gets shown, the LED belongs to the alert that is shown, and
  one that stays on (a pin failed, the display was killed) to an alert that was;
* user server: the terminal shows what was typed, once, in order, all of it,
  between its notices that `recv` failed;
* any program on a board: it gets past its set-up, shows what it prints and
  leaves no LED on, whatever was killed before it, and wherever.

The hazards, each with its line, are in `PROJECT.json`.

## 2. Modules

| Module | What it is |
|---|---|
| `Wire` | the text between the programs: a line is three cells, *stamp* (date), *mark* (holds `!` in an alert) and *id* (the sensor's digit and the value) |
| `SensorStream` | abstract: what a server promises of its connection |
| `SensorServer` | `SocketServer.c`: main, threads, handler, the socket as `send()` meets it |
| `HardwareServer` | `SocketServer_sensors.c` and `socketserver_ultasonic.c`: extends `SensorServer`, replaces `Sample` by the steps of the two read functions |
| `UserServer` | `socketuserserver.c`: extends `SensorServer`, one thread that receives and prints |
| `AlertQueue` | the kernel's message queue (external) |
| `SocketClient` | `SocketClient.c` |
| `AlertDisplay` | `socket_message_rcv_lcd.c`, from the queue to what is printed and lit |
| `AlertPath` | abstract: what client, queue and display promise together |
| `AlertPipeline` | composes servers (as `SensorStream`), client, queue and display |
| `Lcd` | the LCD's controller (external), and what `lcd_byte`, `lcd_init`, `lcd_print` send it |
| `Board` | one Raspberry Pi: its pins, its LCD, and six programs on them, one at a time |
| `MC*` | instances for TLC |
| `*_proof` | theorems |

Three refinements are stated with `INSTANCE ... WITH`: `SensorServer` and
`HardwareServer` implement `SensorStream` (`StreamPromise`), `AlertPipeline`
implements `AlertPath` (`PathPromise`).  `AlertPipeline` uses only
`SensorStream`'s step (`Emit`), so the pipeline's results hold for every server.
`AlertPath` has neither threads nor queue nor mutex nor faults: alerts are
raised, taken in the order of their source, and there is a limit on how many wait.

### From code to model

*Server.*  `main` is where `main()` is, `pc[t]` where a sensor's thread is, `hs[p]`
where the handler is on the thread it interrupted.  One action per call that
another thread, a signal or the client can get in between of: test of
`signal_flag`, `syslog` (entered and left, `logOwner`), sample, lock, `sprintf`,
`send`, unlock.  `conn` is the connection as `send()` meets it, up to SIGPIPE.
Every `syslog` is such a call, also main's before it gives up on a call that
failed (`StopLog`, `StopExit`).
A reading is named by sensor, kind and serial number; the serial number is a
history variable that lets "twice" and "in order" be said.

*Real sensors.*  `probe[t]` is where a thread is inside its read function.
`echo` is the ECHO line, driven by the environment without any fairness;
`held` counts descriptors that nobody will close; `data` is the last content of
the accelerometer's registers.

*User server.*  Its loop is at `SensorServer`'s point `sample`; `received` tells
whether it is between `recv` and `printf`.  Characters are numbered as they are
typed, so that `rcv_cmd` and `printed` show which ones they hold.  `printed` is
what `printf` was given, with a `Notice` for each "recv failed".

*Client.*  `cpc[c]` is where the thread of server `c` is: `recv`, `lock`, `write`,
`written`/`unwritten`, `forward`.  `chunk[c]` is `rcv_cmd`.  `logged` and `alerts`
tell what the file holds, per server.  A `write()` that takes a part of the text
(`WriteShort`) is for the code a success: the rest is missing in the log, and a
`!` is looked for in the whole text, so that an entry of `alerts` is the chunk
that is forwarded.

*Display.*  `dpc`, `in_buffer`, `led`; `received` and `shown` are history.
`BangPlace`, `DigitPlace`, `LedOf` are the two searches and the choice of the LED.

*Board.*  A program is `todo`, the straight line of calls it is about to make;
each call is one action with its success and its failures, and `Kill` may come
between any two.  `exported`, `direction`, `level`, `rs` and `lcd` outlive the
program.  A byte is two nibbles; the controller (`Latch`) counts them, starts
with an 8-bit bus and is `slow` while it clears.

### Abstractions

* Text is cells, not characters.  A cut inside a cell behaves as one beside it:
  the searches look for one character of the cell.  `StampDigit` is the first of
  the digits 1 to 4 in the date.
* Bytes outside `rcv_cmd` (`rcv_cmd[80]`, `rcv_cmd[-1]`) are not represented.
* A handler that interrupts a handler on the same thread is left out, as is the
  interior of the client's handler, which ends the process.
* `open()` of the log failing is the same as `write()` failing: both give `rc < 0`.
* `localtime()`'s static result is part of the stamp cell.
* The distance is only "alert or not": elapsed time is unbounded in user space.
  So the ultrasonic server, which differs in scale and threshold, has the same model.
  Descriptors that are open only during a call are not counted.
* Programs on a board run one at a time; two at once on the same pins are nobody's
  intention.  Each program has its own copy of the pin functions: they are the
  same, and the map names lines of several of the copies.
* `digitalWrite` of the data lines and both edges of E are one action: only the
  falling edge has an effect.  Of the data lines only D4, which another program
  uses too, has a direction in the model.  A pin that is made an output through
  sysfs starts low, as the kernel defines `out`.
* The controller's shifts, entry mode and custom characters are one thing: the
  next character does not appear in view.

## 3. Runs

Every run is given a bound for serial numbers (`MaxSerial`), signals, clients,
buffer and queue; `Kinds` and `Cuts` bound what a reading and a short send may be.

| Run | Instance | Shows |
|---|---|---|
| `server_stream` | 2 readings per sensor, send buffer of 4 cells (so the second line is cut), 2 clients, 1 signal; `syslog` not re-entrant | `TypeOK`, `BufferIsMine`, `StreamPromise`, `NewfdIsFixed` |
| `server_signals` | 1 reading per sensor, 2 signals (two handlers at once), every call may fail; assumes a re-entrant `syslog` | `MainNeverReturns`, `TurnComes`, `SignalEndsServer` |
| `server_sigpipe` | client may leave; assumes a re-entrant `syslog` (the counterexample has none in it) | violates `RunsUntilSignal`: SIGPIPE |
| `server_signal_hang` | `ReentrantSyslog = FALSE`, 2 signals | violates `SignalEndsServer`: syslog in the handler |
| `hardware_sensors` | 1 reading per sensor, 1 descriptor left, pins and bus may fail, ECHO may be stuck; 1 signal, `syslog` not re-entrant | `HardwareTypeOK`, `AlertIsTilt`, `StreamPromise`, `AccelTurnComes`, `SignalEndsServer` |
| `hardware_leak` | no call fails; 2 descriptors left, 3 samples | violates `DoesNotGiveUp`: the bus is opened for every sample and never closed |
| `hardware_echo` | no call fails | violates `EchoMeasured`: ECHO is not awaited |
| `user_typing` | buffer of 2, 4 characters, 2 signals, every call may fail, `recv` twice; assumes a re-entrant `syslog` | `UserTypeOK`, `PrintedIsTyped`, `TypedIsPrinted`, `SignalEndsServer` |
| `pipeline_two_servers` | 2 servers with 1 sensor each, chunks of 2 cells, queue of 1, every cut, crashes, failing pins, failing `connect` and `getaddrinfo`; nothing assumed of the display | `TypeOK`, `LogFollowsStream`, `AlertsConserved`, `LedsTellAlerts`, `LogTurn` |
| `pipeline_shown` | 1 server with sensors 3 and 4 (two alerts on one connection), chunks of up to 4 cells, queue of 2, failing and short writes to the log, failing pins | `LedTruth`, `AlertsConserved`, `LedsTellAlerts`, `PathPromise`, `AlertShown` |
| `board_restarts` | 3 programs of six, each killed anywhere, 1 failing call or missed pulse; line of 2 characters; messages with high nibbles 0 and 3 | `TypeOK`, `LcdTruth`, `LedsFollow`, `SetupRepeats` |
| `board_full_init` | 2 programs, no fault | violates `FullInit`: a high nibble 0 is left behind |

`server_signals` and `user_typing` thus leave out the deadlock of `syslog` in the
handler, which no property would survive; it is `server_signal_hang`'s, and
`SignalEndsServer` is to be read with it.  The runs of `hardware_*` and
`server_stream` do not assume it away, but with one signal or none it cannot happen:
only main takes that signal, and no call of main's fails there.

Why the bounds are enough: a server's readings of one sensor must be two for order
and repetition on its connection (`server_stream`), two sensors are needed for mixed
texts, and a buffer that ends inside a line for the cuts.  Between log and display,
order needs two alerts of one server and a queue that holds both: in
`pipeline_shown` the alerts of sensors 3 and 4 come over one connection into a queue
of two, and a queue that let the second pass (`MqSendUrgent`) is found out. In
`pipeline_two_servers` each server has one alert and the queue one place, which is
full after the first: that is where `mq_send` blocks.  Two servers are needed for
the file's mutex and for fairness.  A short write takes one cell (`ShortWrites`), of
texts of up to four.  Two signals put two threads into the handler at once, and more
only wait behind those.  A typed text of twice the buffer fills it, wraps it and
leaves it half full, and two failures (`MaxFailures`) of `recv` leave one behind the
other or one on either side of a line.  On a board, what a program leaves depends on
the pins and the LCD alone, so two killed programs before the one that is judged
combine every leftover of one with every leftover of another; a greeting as wide as
the line before a shorter one would show a missing clear.  The theorems below need
no bounds.

`CHECK_DEADLOCK FALSE` is in every cfg since the processes may end, and the
pipeline waits when nothing is left to send.

### Fairness

Every thread that can run is scheduled eventually: weak fairness of the steps of
each thread, of main and of the handler.  Mutexes are not fair.  The server's owners
give `socklock` back and sleep for a second, so that a waiting thread finds it free
again and again: strong fairness of `Lock` and of entering `syslog`.  In the client
the other threads leave the file's mutex alone only while they block in `recv`.  On
a connection that was closed or refused `recv` returns at once, and the thread spins
through the mutex and may take it every time: starvation is possible and not
excluded.  `LockFile` is therefore strongly fair only while no other thread spins,
and `LogTurn` promises a turn only then (`OthersSpin`).  Strong fairness is
also assumed of threads that wait at a queue that is emptied again and again
(`Forward`), and of the user server's `recv`, which may fail, but not for ever.  Nothing is assumed of clients,
signals, failing calls, the ECHO line or of whoever starts the display;
`FairClientSpec` does not even assume that a display runs.  `Board` has only safety
properties and no fairness.

## 4. Findings

* **SIGPIPE** (`SocketServer.c:85,127`).  After the client has gone the first `send`
  succeeds, the reset arrives and the next one kills the server.  The comment on
  `main` (line 151) says it runs until SIGINT or SIGTERM.
* **syslog in the handler** (`SocketServer.c:43`).  While no call fails it needs two
  signals: one puts main into the handler, so that the second is delivered to the
  thread that is inside `syslog` (line 103).  One is enough if it comes while its own thread
  reports a failed call with `syslog(LOG_ERR)`.
* **Descriptor leak** (`SocketServer_sensors.c:86`).  With the usual limit of 1024 and
  one sample every two seconds the server exits after about half an hour; until
  then, with none left, each distance is the error value 3, an alert.
* **ECHO not awaited** (`SocketServer_sensors.c:341`).  The duration that is computed
  need not be that of a pulse.
* **"full init" of the LCD** (`socket_message_rcv_lcd.c:231`).  A program killed behind
  a high nibble 0 leaves it waiting (so does one whose missed pulse shifted its
  nibbles: `cut` is true of either).  The first 3 of the next `lcd_init` makes it
  0x03, a return home, which takes the controller 1.5 ms; the nibbles behind it
  are not awaited and get lost, and the display may stay off or out of step until
  the program is started once more.  From every other state `lcd_init` recovers,
  which is `LcdTruth` and the theorem `LcdInitResyncs`.

## 5. Proofs

All theorems are for every set of sensors, buffer and queue size, number of
servers, readings, signals, clients, and all faults, from the assumptions
named in the modules (`WireAssumption`, `ServerAssumption`, `HardwareAssumption`,
`UserAssumption`, `QueueAssumption`, `ClientAssumption`, `DisplayAssumption`,
`PipelineAssumption`, `LcdAssumption`, `BoardAssumption`).

| Theorem | Argument |
|---|---|
| `SensorServer_proof!TypeCorrect` | `TypeOK` needs `Room \in Nat`: what `send` accepts is a cut only as the send buffer is never overfull |
| `BufferProtected` | `LockInv`: a thread between `sprintf` and unlock owns the mutex |
| `MainStays` | `HandlerInv`: once `signal_flag` is 0 some thread is in the handler and never leaves it; that thread is not done, so not both joins return; before the first client it can only be main |
| `OneConnection` | `ConnInv`: before the first client there is no connection, and main never goes back to `accept` |
| `ServerImplementsStream` | `SerialInv`: what is in the connection is older than what its sensor is about to send; with `BufferInv` a `Send` is an `Emit` of `SensorStream` or, when nothing is accepted, a stutter |
| `HardwareTypeCorrect`, `HardwareImplementsStream`, `HardwareBufferProtected`, `HardwareMainStays` | `HwStep`: every step is a step of `SensorServer` (the end of a probe is a `Sample`), a stutter, or the `exit(1)` of the I2C code, which disturbs none of the five invariants above; `ProbeInv`: a thread inside a read function is at its sampling point |
| `AxisIsSigned`, `AlertsAreTilts` | mask and subtraction restore every sign extended 10 bit value; the line on its way to `send` is an alert exactly when all three are negative |
| `UserServer_proof!TerminalIsTrue` | between `recv` and `printf` the buffer holds the characters that follow the printed ones, and then zeros: the `'\0'` ends what is printed exactly where `recv` ended.  `Tells` says that of a text with notices in it, and holds again when a notice or a round is put behind |
| `AlertPipeline_proof!TypeCorrect` | types of client, queue and display |
| `AlertsReachDisplay` | `AlertInv`: what is in the queue, together with the alert a thread has in hand, is exactly what was logged and not yet received, in order; `ThreadInv` ties a forwarding thread to the alert it logged last |
| `AlertsTakeThePath` | from `AlertInv`: the message at the head of the queue is its server's oldest (`OldestFirst`), so `Receive` is a `Take`; logging is a `Raise`, for which the queue's length and the one thread bound the backlog; the rest stutters |
| `PipelineLog_proof!LogIsComplete` | for a `ClientFaults` without `"write"` and `ShortWrites = {}`, since a write that fails or is short leaves a gap by the code's own decision: `LogFollowsStream` is inductive with `ThreadInv`; `PrefixGrows` (what `recv` cuts off continues what was logged) and `PrefixStays` (what a server sends later is behind it) carry it |
| `AlertLed_proof!LedIsTrue` | a text cut from whole lines has, behind the `mark` of a line, that line's `id` or nothing; so the first digit behind the `!` is the alert's own, which is all an LED can be lit for |
| `LedsAreAlerts` | `LitInv`: from the print on, until its LED is off or given up, the alert at hand is among those shown, since what is copied to the LCD reaches from its `!` to its digit; a pin that fails and a display that is killed leave each LED as it was, and what was shown stays shown |
| `Board_proof!SetupAlwaysRepeats`, `LedsAlwaysFollow` | `PinsInv`: until a call fails by itself the whole line `todo` is `Sound` on the pins as they are, that is, each pin is exported before it gets a direction and an output before it is written to, by the line or by what was there before (`Driven`), and no call behind an unexport needs a pin; and `Lit`: a lit LED is about to be put out or set up.  `CallMade` and `LedCallMade` take the first call off, `OthersFirst` and `OthersLast` put a text around; `SoundMain` shows it of every program, on any pins |
| `BoardTypeCorrect` | `TypeInv`: besides the types, every call in `todo` is `Proper`, that is, about a pin the programs own and with a value that makes sense; `TypeOK` alone allows the call `direction` with the value 7, behind which the pins lose their types |
| `BoardLcd_proof!ByteInStep`, `LcdInitResyncs` | `InitAt(j, ...)` says what the controller may look like behind the first `j` calls of `lcd_init`; the third 3 at the latest gives the 8-bit bus, the 2 the 4-bit bus, and from there bytes are whole (`LatchedInInit`) |
| `LcdAlwaysTrue` | `LcdInv`, below |
| `UserServer_proof!UserMainStays`, `UserTypeCorrect` | a step of the user server disturbs `HandlerInv` no more than one of `SensorServer`; `TypingInv`: what is read was typed, what is in the buffer was read |

**`LcdAlwaysTrue`** is the longest argument.  `LcdTruth` speaks of the moments at
which a line of calls is done; the inductive invariant `LcdInv` has to say what
is true behind *every* call.  It is a disjunction of four phases: `SettingUp`
(`GPIOinit`), `Initialising` (`InitAt(j)` when `j` calls of `lcd_init` are done),
`Printing` (`PrintAt(j)`, the calls of `lcd_print` before the text) and `Showing`
(`TextAt(i, h)`: `i` bytes and `h` nibbles of the text are on the line).  In each
of them `todo` is exactly what is left of that line, followed by
`gpio_write`s or by the greetings still to come (`Ahead`); so the program and the
controller are always at the same place.  A call brings both to the next place (`InitialisingStep`, ...);
a call that fails drops the rest of `GPIOinit` or of `gpio_write`, never half of a
line for the LCD (`DropStep`); a message, a greeting and a new program begin a
line from a place the invariant allows (`PrintBegins`, `GreetingBegins`,
`StartTogether`).  Killed programs leave any state of the controller in which a
bus of 8 bits has no half byte (`HalfNext`), and that, without the exception
`cut`, is all `InitAt(0)` needs.  TLC found `LcdInv` to hold on the instance of
`board_restarts` before it was proved.

Only model-checked: the liveness properties (`TurnComes`, `SignalEndsServer`,
`AccelTurnComes`, `TypedIsPrinted`, `AlertShown`, `LogTurn`), since
liveness under fairness and ENABLED are beyond the prover.  Every invariant and
every refinement of the passing runs is a theorem.

## 6. Not modelled

* Queue demonstrations: loops around one call on a queue.  One thing about them is
  worth knowing: `socket_message_rcv` and `mq_heap_send` receive from the
  display's own queue, and what they take, the display does not get.
* Accelerometer programs: one reading, printed; `Axis` is their conversion.
* `aesdlcd/lcd.c` leaves the protocol to a library, `gpio_module.c` to a kernel
  module; neither's source is in the repository, nor is that of the module that
  the load and unload scripts are for.
* Buildroot glue, makefiles and the test harness keep no state of the system.
