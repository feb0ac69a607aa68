# A TLA+ project for the StratoSpera flight computer

StratoSpera is the firmware of a stratospheric balloon. The flight computer
("BSM-2", `src/bsm-2/`) runs on a Cortex-M3 under BeRTOS (`src/bertos/`), decides
in which phase of the flight the balloon is, cuts the wires that hold it when the
flight must end, reports on an APRS radio link, obeys commands from the ground
and powers the payload. A boot loader (`src/boot/`) updates it from the SD card. On
the ground a station (`src/scripts/`) files the messages, passes them to a web server
(`src/scripts/webserver/`) and fetches those of other stations, and a page shows the
flight on a map. This directory holds TLA+ models of these programs, the TLC runs
that check them on small instances and the proofs that TLAPS checks for every value of
the constants.

## 1. The system

### 1.1 Components

| Component (source) | State | Operations | What is hard | Correct when |
|---|---|---|---|---|
| Wire cutter (`bsm-2/cutoff.c`) | flags and times of three range checks, maximum altitude, `cut`, `cutoff_pause_time`, two heaters | check every second; procedure of six pulses (90 s); commands cutoff, cutoff_pause, cutoff_resume, cutoff_reset; reload; test pulses | three processes drive the same two outputs; every message inside a check yields the CPU; the procedure lasts long | no heater is left on; one automatic procedure for each reset; a range cuts only after its countdown; the mission timeout does cut |
| Flight status (`bsm-2/status_mgr.c`) | `curr_status`, `curr_vdir`, previous reading, two moving averages, mission start | sample every 10 s, decide, reset, mission start, test status | a verdict is announced before it is stored, and may be reset meanwhile; limits with hysteresis that depend on what they decide | no chatter, averages over the right readings, a decision for every reading |
| Landing buzzer (`bsm-2/landing_buz.c`) | `beep`, timeout | start from two processes, stop from two others | the test of `beep`, the message and the start are apart | it beeps after its timeout and after landing |
| Test mode (`bsm-2/testmode.c`) | mode, test status | START key: heaters, status, telemetry | it acts on data of all the others | it ends, and leaves nothing on |
| Auxiliary power (`bsm-2/measures.c`, `bsm-2/logging.c`) | `aux_out`, `curr_override`, `curr_logged`, the file `pwr_stat.log` | power on (with a second to settle), overcurrent check, override and reset commands, boot | a crash at any step; a lost write; a check that runs inside the settling second | a load that crashes the board is not powered again unasked; an overload is cut |
| Radio downlink (`bsm-2/radio.c`) | `radio_sem`, `radio_msg`, `prev_t`, `radio_pause_time` | `radio_printf`, `radio_sendTelemetry`, pause, resume, acknowledgement | every process shares one buffer under a recursive semaphore; the clock of the GPS stands still and jumps | messages are whole, their timestamps differ, none is stuck |
| Radio uplink, configuration (`bsm-2/uplink.c`, `bsm-2/radio.c`, `bertos/mware/config.c`) | `last_seq`, configuration values | verify, parse, execute, acknowledge | lost answers and retransmissions, reboots; values stored one at a time | a command is not executed twice; a bad value changes nothing |
| Main loop (`bsm-2/main.c`) | — | boot in order, START key, log line | the order of the boot | — |
| Kernel (`bertos/kern`, `bertos/drv/timer.c`) | ready list, semaphores, timers | obtain, release, delay, switch | direct handover of semaphores and of the CPU | mutual exclusion, no lost wake-up |
| AX.25 and AFSK modem (`bertos/net/ax25.c`, `afsk.c`) | two FIFOs, `sending`, preamble and trailer, bit counters, frame buffer | push, modulator and demodulator interrupts, poll | interrupts run between the statements of the processes; FIFOs fill and run empty; stuffing at the end of a symbol | what is sent is received, or lost with a reason; the modulator never sticks |
| GPS (`bsm-2/gps.c`) | `gps_fix`, `gps_clock`, `last_heard` | sentence with and without a fix, one second of `time_process` | two processes set one clock; silence and sentences race | the clock is not ahead; a stale fix is dropped |
| Boot loader (`boot/main.c`, `bertos/io/kblock.c`) | flash, page buffer, two file positions | compare, copy, flush, start | power cuts at any page, errors of card and flash, lengths that fall between chunks | the application starts, on the old or on the new image |
| Ground server (`scripts/webserver/*.cgi`, `*.sh`) | messages, `msg_index`, `last_message` | add, update the index, clear | every request is a process of its own, and shells inside it | the index lists the messages |
| Ground station (`scripts/repeater.py`, `uploader.py`, `downloader.py`) | messages, `.unsent`, `.err`, its index | file, upload, download, restore | lost answers, timeouts, crashes, two writers of the index | no message is lost; all are delivered and mirrored |
| Map page (`scripts/webserver/balloon.js`) | `msg_set`, two tables, selection, status bar | poll, answers in any order, clicks | answers overtake each other and fail | one row for each message, in order |
| Sensors, HADARP, radio board, drivers, decoders, vendored libraries | see PROJECT.json | | | |

### 1.2 How they interact

The processes *main*, *radio*, *status*, *cutoff*, *buzzer* (landing_buz), *curr*
(the current check) and the GPS reader share memory without locks; only the radio
buffer, the log file and the I2C bus have semaphores. The kernel is cooperative
(`CONFIG_KERN_PREEMPT` is 0) and all the processes but the monitor have the same
priority: a process loses the CPU only inside `timer_delay()`, in `sem_obtain()`
when the semaphore is taken, in `sem_release()` when somebody waits
(`proc_wakeup()` switches at once), and in the drivers of the SD card, the modem
and the I2C bus. Every `radio_printf` and every `LOG_INFO` contains such points.
That decides the grain of all the models: **an action is the code between two
points where the CPU can be lost**, a message is one of them, and every interleaving
of the actions of different processes is a behaviour. Functions that only compute
(the decision of the status, the conversions) are operators.

A command of the ground is executed by the radio process inside the decoder of
its message, so it runs between the steps of all the other processes; the START
key does the same from the main process. A mission start reaches, one after the
other with messages in between, the status, the buzzer and the cutter. A configuration
command stores its values one by one, with the other processes running in between.

The modem is shared with interrupts: below the FIFOs the grain is finer, an interrupt
may come between any two accesses. On the ground everything is a process: the threads
of the repeater start uploader and downloader as programs, the server starts a script
for each request, and a system call, a shell command or an HTTP request is a step of
its own. The page is an event loop, whose steps are its callbacks.

## 2. The modules

| Module | What it is |
|---|---|
| `Cutoff` | the wire cutter: checks, countdowns, procedure, pauses, commands, test mode |
| `CutoffHistory` | with what the checks have seen, the procedures begun, the resets |
| `CutoffProofs` | proofs about `Cutoff` and `CutoffHistory` |
| `StatusMgr` | flight status and landing buzzer |
| `StatusHistory` | with the readings behind the averages and the last decision |
| `StatusProofs` | proofs about both |
| `PowerGuard` | auxiliary power with crashes and the power file |
| `Restart` | a restart of the board: the composition of `BootHistory` and `PowerGuard` |
| `Semaphore` | the semaphores of the kernel, as operators on a record |
| `Downlink` | abstract: what the radio promises the processes that send |
| `Radio` | the downlink, over two instances of the semaphores |
| `RadioHistory` | with the timestamps sent, and the refinement mapping to `Downlink` |
| `RadioProofs` | proofs about `Radio` and the refinement |
| `Uplink` | commands and settings from the ground: decoder, parser, configuration |
| `CommandOnce` | abstract: a number is executed at most once between two boots |
| `UplinkHistory` | with the executions counted, and the refinement mapping to `CommandOnce` |
| `UplinkProofs` | proofs about `Uplink` and the refinement |
| `Telemetry`, `TelemetryHistory` | when the telemetry is sent: the loop that catches up |
| `GpsClock` | fix, clock and silence of the GPS |
| `TimingProofs` | proofs about the telemetry's loop and the clock |
| `Boot`, `BootHistory` | the boot loader and the page buffer it writes through |
| `RestartProofs` | proofs about `PowerGuard`, `BootHistory` and their composition `Restart` |
| `Hdlc` | the line code, bit by bit, as functions on a modulator and the demodulator that hears it |
| `Modem` | framing: writer, FIFOs, interrupts, poller |
| `ModemProofs` | proofs about `Modem` and the line code |
| `WebIndex`, `WebHistory` | the scripts of the ground server |
| `Ground`, `GroundHistory` | the ground station, composed with `WebIndex` |
| `Viewer` | the map page |
| `GroundProofs` | proofs about the server, the station and the page |
| `MC*` | the instances that TLC checks |

### 2.1 Cutoff

`cutoff_process` wakes up every period (`Wake`, which samples clock, altitude and
distance), evaluates `cutoff_checkTime` and then the three range checks joined by
`||` (`CheckRange`, `at` being the operand). A check that changes its flag first
sends messages (labels `arm` and `clear`) and only then writes `*_ok` and
`*_ko_time` (`StartCountdown`, `CancelCountdown`): flag and time are one function,
`ko[w]`, which is `NotArmed` while the flag is good. A verdict leads to `Fire`,
that looks at the pause and at `cut` and starts `cutoff_procedure`: `StartPulse`,
`EndPulse`, `NextPulse`, run by the cutter or, on the command, by the radio process,
with `pulse` as the loop counter and `wake` as the end of the delay. `Said` stands
for the messages of the timeout and of its announcement; whether they have been sent
before (the `logged` statics) is a choice. Between `check` and `fire` nothing yields,
and `Yielded` keeps the others out there.

`CmdReset` and `Reset` are the two sides of the message in `cutoff_reset()`;
`MissionStart`, `SetMissionStart`, `ResetStatus`, `Reset` are the four stages of
`status_missionStart()`. `StatusChange` is the flight status as the cutter sees it
(`flying`): any change at any time, which covers what StatusMgr does.

The distance formula is abstracted to a Boolean of the reading. Thresholds are
constants: a change of configuration in flight is its `cutoff_reset()`.

### 2.2 StatusMgr

`Check` is one round of `status_check()`: push the changes into the moving averages
(`Pushed` is the macro of `bertos/algo/moving_avg.h` with its circular buffer, index
and running sum), then `VerticalDir` and `Decide`, the chain of seven conditions. The
verdict is announced (`print`) and stored afterwards (`SetStatus`), whatever happened
meanwhile. The code calls `vertical_dir()` in each of the seven conditions although it
has a side effect; the theorem `VerticalDirSettles` justifies calling it once. Rates
are metres over the full window, so that no division is needed: the code divides by
the length and the period, both constants. Below the ground altitude the code takes
the rate from the pressure; so does `Rate`.

`status_reset()` exists for three callers (no fix, mission start, configuration):
`ResetLogged`, `ResetPrinted`. `landing_buz_start()` is `StartBuzzer` then, after a
message, `BuzzerOn`; `landing_buz_check()` is `CheckTimeout`. `overdue` abstracts the
time of the buzzer to "the timeout has elapsed since the mission start".

### 2.3 PowerGuard

`file` is what `pwr_stat.log` holds: `none`, `empty` (created, not written), `FAIL`
or `OK`. `Pend`, `SwitchOn`, `Settle` are the steps of `power_enable(true)`; the boot
is `InitPower`, `Create`, `Reload`, `CheckPrevious` and then either that or `Unclean`.
`Crash` can come between any two steps and keeps only the file: it stands for a
brown-out, the watchdog and the reset command. Without a card (`works`) writes are
lost and the file cannot be read. Test mode, which the configuration file may ask for at
the end of the boot (`After`), switches the output itself, without the file: `TestOn`
with the START key, `TestOff` five seconds later, `TestEnd`. The processes of the radio
and of the current run beside it. `tripped` and `asked` are history variables: the board crashed
while `power_enable()` was switching the load on, and somebody, the ground or the
START key, has asked for it since the boot.

### 2.4 Semaphore, Radio, Downlink

`Semaphore` translates `sem_obtain()` and `sem_release()`: owner, nesting, queue,
direct handover, and the assertion that a semaphore which is taken at once has no
queue. `Radio` composes two of them, `log_sem` and `radio_sem`, with the code of a
message: log, timestamp (its own critical section), buffer, format, send or discard,
release. `cpu` is the process that holds the CPU and has not come to a yielding point:
it makes the direct switch of `proc_wakeup()` visible, on which the first two results of section 5 depend.
A command that says nothing of its own (`Resume`, or one that is unknown) is only
acknowledged. `Position` is the nested call of `radio_time()` inside the telemetry. `failed` is an
assertion, which on this board is a reset (`__bassert` in `bertos/drv/kdebug.c`).

`Downlink` says what the processes may rely on: one message on air at a time, no
timestamp used twice, every message sent in the end or discarded under a pause,
unless the board resets. The mapping of `RadioHistory` is: *waiting* are the
processes between asking for the log and `radio_send()`, *onAir* is the one in
`ax25_sendVia()`, *dead* is `failed`.

Timestamps are natural numbers: the text that is sent repeats after 24 hours,
the promise is about the value of `tim`.

### 2.5 Uplink, CommandOnce

`Hear` is `radio_uplinkDecoder()` up to `uplink_parse()`: signature and number are
looked at only while `check_auth` is set. Then come `Store` for each setting
(`config_set()` with its conversion and clamping), `Reload`, or `Run` for a command, and
`Acknowledge`. `Number` is the assignment `last_seq = seqn`, which comes after the
execution and before the answer and overwrites the `last_seq = 0` of `radio_reload()`.
`key` and `path` are the copies that `radio_reload()` derives from the settings;
`countdown` is a countdown of the altitude check with the limit it was begun for, `check` the
limit of a check that is in its messages: `Compare` is the comparison with `altmax_meters`, `Arm` the
assignment that follows two messages and a line of log, `Disarm` the end, each at any moment between the
steps of the command, as the module `Cutoff` does it in detail. `cutoff_reset()` in the
reload ends a countdown and does not reach a check; `overtaken` in `UplinkHistory` marks a
check that a reset has missed so. The timeout is no part of it: the code reads
`altmax_timeout` anew in each check. `Reboot` keeps only the configuration file.

The ground may send anything at any time, so that a lost frame, a lost answer, a
repeated or a forged one are all cases of `Hear`. What the ground cannot know, whether
its command was executed, is what `CommandOnce` is about: between two boots, and as long
as the checks stay on, `Execute(n)` happens once for each number (`ExecutedOnce`).

### 2.6 Telemetry, GpsClock

`Telemetry` is the second half of `radio_process()`. The two tick counts of the loop
appear only as their difference `age`, so that their overflow does not matter. `Skip` is one turn
of the inner loop, which does not yield; while it sends, time passes and status,
mission time, interval and test mode may change. `TelemetryHistory` opens a window at
any moment (`Mark`) and counts the telemetries in it.

`GpsClock` relates three variables to the true time: `ahead` is how far `gps_clock` is in
front of the time that the receiver would give, `silent` the time since `last_heard`,
`lap` the position inside the delay of `time_process`, which may be late by `Late`. A
sentence may be up to `MaxDelay` old when it is parsed.

### 2.7 Boot

A file is a sequence of pages, the flash a function; `buf`, `curr`, `dirty` are the page
buffer of `kblock`. A page reaches the flash when the next one is loaded or in the flush
(`Stored`). `Compare` and `Read` take chunks of several pages, `Write` one page. The
error paths are actions: `CardFails`, `WriteFails` (the loader jumps to the end with a dirty
buffer, which the flush tries again), `FlushFails` (not looked at). `PowerUp` is a power
cut or a reset at any step, with a page torn if one was being programmed, and a card
that may be another.

`Restart` composes the loader with the firmware that it starts: the steps of
`PowerGuard` happen only once the loader has reached `START_APP()`, and `CutPower` is
one power cut for both, in the loader or in the firmware. They share the card: one that
the firmware cannot mount (`works`) is for the loader one without a file.

### 2.8 Hdlc, Modem

`Hdlc` holds no state: it has functions on a link, a modulator and the demodulator that hears it.
`Send` is a bit that is sent as a tone and heard: a zero changes the tone, and `Hear`, with `Parse` and
`TakeBit`, takes a tone that has not changed for a one. `SendBit` puts the stuffed zero before it,
`SendSymbol` sends the eight bits of a byte, and `Carried` is a link after a sequence of symbols. `Settles` and
`Passes` say what that must compute, and the run of the modem evaluates them for pairs of
characters and for what noise may have left. The bit clock, the filters and the noise of
the channel are left out.

`Modem` takes a symbol as a unit and models what is around it: `ax25_sendVia()` (a
frame with its escapes and checksum), `afsk_write()` with `Push`, `Start` and `SetTrailer` as three
steps between which the interrupt may run, the interrupt (`Stop`, flags of preamble and
trailer, characters, and `EscapeLost`, where the FIFO ends between an escape and its
character), the other FIFO with its overruns, noise, and `ax25_poll()`. `hit` collects the frames
that met an underrun or an overrun. Its capacities are one less than the buffers, as in
`fifobuf.h`. A character that looks like a reset is escaped like the others; behind an escape that was lost
it is sent without stuffing and ends the frame (`HearReset`). The reset that `ax25_poll()` understands,
one without an escape, is never pushed by this driver.

### 2.9 WebIndex, Ground

Each script of the server has a program counter. `add.cgi` is `Add`, `Check`, `Move`, then
`upd_idx.sh`: `List`, `Index` (the mv), `FindNewest`, `Link`. `clear.cgi` runs `clear.sh` (`Unlink`, `Look`,
`Remove`), the same `upd_idx.sh`, and `Cleared`. With a full disk (`MayFail`) the message may not be
written (`MoveFails`: `add.cgi` has printed OK by then), and `upd_idx.sh`, which runs
under `set -e`, may end at its listing, its link or either mv (`ListFails`, `LinkFails`), and `clear.sh` with
it: the label `partial` is a script whose index or last message is as it was. `Die` is a script killed at
any point.

`Ground` EXTENDS it with the three programs of the station, which share its directory:
`Hear` to `IndexMine` is the repeater, `StartUpload` to `EndUpload` the uploader, `ReadMine` to `IndexGot` the
downloader. An upload is a request that a script of the server serves. Its reply is OK or ERR (`Answer`)
or neither (`Unknown`, the web server's own after a kill: the message stays unsent and
the upload goes on); `Timeout` gives it up with the upload, and the script goes on unheard. Names stand for messages; they are times of the
day, and their order is that of time.

### 2.10 Viewer

The steps are the callbacks: the timer (`Poll`), the index (`IndexArrives`, `IndexLost`), a message
(`MessageArrives`, `MessageLost`), a click, the button, and loading the page. Answers that are
on their way are sets, so they come in any order. `Publish` is the server as the page sees
it: its index is replaced by any other listing (`Indexes`), one that lacks what it had
before too, since `WebIndex` can bring back an older one or clear all. Rows are in the order of the
messages' names, the time of day. The bearing between two positions
is a constant, `Compass` computes its name as the code does. One row is selected at a time:
selections of several rows with the keyboard are left out.

## 3. The runs

| Run | Specification | Shows |
|---|---|---|
| `cutoff` | `CutoffHistory!HSpec` | `WireHeld`, `OncePerReset`, `CountdownServed`; a heated wire is released (`WireReleased`), the mission timeout cuts (`MissionTimeoutCuts`) |
| `status` | `StatusHistory!HSpec` | `ClimbMeasured`, `NoChatter`, and with `TypeOK` that the assertion of `status_check()` is not reached; `BuzzerBeeps` |
| `restart` | `Restart!RestartSpec` | `Outcome`, `InPlace`, `NoNeedlessWrite`, `NoPowerLoop`; `AlwaysStarts`, `OvercurrentCut` |
| `radio` | `RadioHistory!HSpec` | `WholeMessage`, and the refinement `Implements` with its liveness |
| `uplink` | `UplinkHistory!HSpec` | `OkayMeansDone`, `NoMixLeft`, and the refinement `ExecutedOnce` |
| `telemetry` | `TelemetryHistory!HSpec` | `Paced`, `NeverLate`; `Regular` |
| `gps_clock` | `GpsClock!ClockSpec` | `NeverAhead`, `FixFresh`, `CatchesUp` |
| `modem` | `Modem!Spec` | `LostOnlyIfHit`, `InOrder`, `Drains`; `Transparent` of the line code |
| `web` | `WebHistory!HSpec` | `LoneUpdate` |
| `ground` | `GroundHistory!GSpec` | `Accounted`; `Delivered`, `Mirrored` |
| `viewer` | `Viewer!Spec` | `OneRowEach`, and with `TypeOK` that no row without a position is selected; `ShownInTheEnd`, `BarCatchesUp` |
| `radio_assert_claim` | `Radio!Spec` | an assertion of the kernel that fails |

The type invariants of all the modules are theorems; those that a mutant of the code can
break (modem, ground station, page, `StatusMgr`) are checked by the runs too. The history
variables never influence a step, and the fairness of the modules with a history is
that of the modules they extend, so that safety and liveness are checked in one run. The
mutants of PROJECT.json are definitions of the modules marked "mutant": TLC finds each
property violated when the mutant takes the place of the definition it follows.

### 3.1 Bounds

* **Cutoff.** `MaxClock` ends the time: at the horizon every delay and every pause
  counts as elapsed, so that liveness is not lost at the edge. Four periods with
  timeouts of one let a countdown start, expire, be reset and start again, and a
  pause outlast a procedure. `MaxCommands` is 2: pairs are what races are made of, a
  pause and a reset, a manual procedure and a test pulse, two resets. `Rounds` is 1,
  so a procedure has a pulse on each channel; the theorems hold for any number. The one
  reading is above the maximum altitude; the checks are only made in flight, so that
  `StatusChange` brings the balloon in and out of range at any time. The theorems hold
  for any set of readings.
* **StatusMgr.** Three altitudes lie on both sides of the thresholds and of
  their hysteresis, the lowest below the ground altitude, where the pressure decides. A
  window of two is the shortest in which the index wraps over an element that stays;
  `ClimbMeasured` and `NoChatter` are theorems for every length. Only the START key acts:
  the commands of the radio process run the same code.
* **Restart.** Three pages and chunks of two: files of none, one, three and four pages end in a
  chunk, at its end, at the end of the flash and beyond it. A page is that of the file or not: that
different pages get to their places is left to `BootOutcome`, for any contents. One power cut
  leaves every intermediate state; more of them only lead to states that the initial
  ones include already, which have any contents of the flash and of the power file. The
  firmware is otherwise unbounded.
* **Radio.** Three processes are the fewest with an owner, a first waiter and a
  second one, which the failing assertion needs. Three messages or commands give each
  process one, or one process three; `GpsTimes` of 1 and 3 let the clock stand still,
  advance and jump back, `Time` holds every timestamp that can result. The runs do
  not check deadlock: the bounded system stops after its last message, and a failed
  assertion stops it too; the liveness of `Implements` says that it does not stop
  with a message waiting.
* **Uplink.** Two keys, a good and a bad call, four numbers, five frames and two reboots: a
  command, its repetition, a change of the checks and one more on each side of a reboot, with
the altitude check at any time. The payloads hold a
  command that changes two settings of one module, one with an error between good
  settings, one of a module that is not there, the reset with and without its code. The
  run does not check deadlock, since the frames are bounded.
* **Telemetry.** Two intervals and a set-up time; `MaxAge` is more than the longest period,
  twelve, and seven of the shortest, so that several periods are skipped at once. A window
  (`MaxWindow`) holds up to nine telemetries. A window that is full is counted no further.
* **GpsClock.** A second is two ticks, a lap may be one tick late and a sentence two ticks
  old, so that sentences fall between the halves of every lap. `MaxLag` ends a silence.
* **Modem.** Two frames, with characters that look like a reset, a flag and an escape (the
  checksum is a plain one), and FIFOs of two: a FIFO runs full and empty in a frame, at its flags and in its escapes. After the
  frames and the noise the system stops, hence no check for deadlock. `Transparent` takes all 256
  characters, with the seven that end or begin with a run of ones, or look like another
  symbol, before and after each.
* **WebIndex, Ground.** Two scripts make every race of a listing; three names, one of
  which the server refuses. In `ground` one script at a time, which may be killed, one
  crash, one restore and two names: two scripts that overlap can leave a wrong index
  until the next message (section 5), and then the station mirrors that.
* **Viewer.** Five messages, one without a position and one for the other table; three with
  bearings in two sectors and in the last half sector, which has no name (section 5). Three listings: an
  empty one, one with all and one that lacks two; two
  answers on their way, one lost request, one reload. A page whose timer has nothing
  to ask may stop: no check for deadlock.

### 3.2 Fairness

The timer interrupt does not stop (weak fairness of `Tick`), and a process that is
ready runs in the end, because the ready list is first-in first-out among equal
priorities. Where other processes can take the CPU or the semaphore again and again,
so that a step is not continuously enabled in the model although the process stays in
the ready list or in the queue, the fairness is strong: the radio and main process in
`Cutoff` and every process in `Radio`. Commands, key presses, crashes, readings and
changes of status have no fairness; neither have frames, sentences of the GPS, power
cuts, errors, kills or noise. `TestEnd` in `StatusMgr`, `Cutoff` and `PowerGuard` has it since
test mode lasts five minutes at most, and `TestOff`, which follows a delay; `TestOn` is a key press.

The interrupts of the modem and its writer are scheduled (weak fairness). Noise and
polling are not needed for `Drains`. The boot loader is alone. On the ground, processes that
can run do run, the server answers every request it has begun to serve, and of the
requests that a program makes again and again some succeed: strong fairness of the
downloader's requests, and for the uploader, whose request and answer are two steps,
`[]<><<Send>> => []<><<Answer>>`. Without it a network that always times out would
refute `Delivered`, and rightly so. In the page the timer runs, every request for a message is answered
or lost, and of the answers to the index some arrive.

## 4. What is proved

Every theorem is checked by TLAPS from the assumptions named in the modules
(`CutoffConstants`, `StatusConstants`, `RadioConstants`, `TimeBound`, `UplinkConstants`,
`BootConstants`, `GpsConstants`, `TelemetryConstants`, `PeriodBounds`, `WebConstants`, `GroundConstants`,
`ViewerConstants`, `ModemConstants`), which only type the
constants: any thresholds, delays, number of rounds, window length, readings, set of
talking processes, keys and payloads, files and sizes of flash and chunk, scripts, messages
(finitely many), frames that fit the buffer, sizes of FIFOs.

* **Cutoff.** `TypeCorrect`; `HeldAlways` (`[]WireHeld`): `WireHeld` is inductive with
  the types: a step that leaves a heater on either leaves its holder in its pulse
  (`Undisturbed`) or makes one. `CountdownAlwaysServed` and `OncePerResetAlways` rest on
  `HistoryInv`: a countdown that is armed is not older than the unbroken series of
  checks that saw the condition, unless the check has just found it gone and is about
  to clear it. That exception is the window of the messages, and the reason why the
  property is not inductive by itself.
* **StatusMgr.** `VerticalDirSettles` and `ChainTotal`: the chain decides for every
  reading and every threshold, also when the limits are out of order, and calling
  `vertical_dir()` again does not change its answer. `TypeCorrect` then includes that the
  branch with the assertion is never taken. `NeverChatters` rests on `PrintInv` (the
  verdict under way was decided from the present status at the present altitude, or a
  reset has come in between) and `TurnInv` (which decision led to the present status).
  `ClimbAlwaysMeasured` rests on `ClimbInv`: the sum is only ever adjusted, so the invariant says
  of each cell of the circular buffer which change it holds, from the first cell while
  the buffer fills up and from `idx` on when it is full, and that the change which is
  dropped is that of the oldest reading. `PushBuffers` shows that `MOVING_AVG_PUSH` keeps it,
  for every length of the window.
* **PowerGuard.** `PowerTyped`, and `NeverPowerLoop` from `PowerInv`: while a switching on by `power_enable()`
  is under way or has crashed, and the card works, the file says FAIL, until somebody asks;
  test mode switches the load without a change of the file, and only when asked.
* **Restart.** `RestartNeverPowerLoop` and `RestartOutcome`: each step of the composition is a step of one
  of the two and leaves the other's invariant alone, or is the power cut of both.
* **Radio.** `TypeCorrect`, `MessagesWhole`: a process that formats, sends or has sent owns
  `radio_sem` (`CriticalOwns`), and a semaphore is owned exactly while it is nested, through the
  direct handover and the nested telemetry. `Refines`: with `Time = Nat` every step of the
  firmware is a step of `Downlink` or a stutter, from `StampsDiffer`: the timestamps
  taken by different processes differ from each other and from all those sent, and
  none is later than `prev_t`.

* **Uplink.** `TypeCorrect`; `OkayAlwaysMeansDone` and `NoMixEverLeft` rest on `UplinkInv`: the
  settings before `next` are in force unless there was an error (`InForceInv`), `key` and `path` differ
  from the settings only while a command for the radio is between its first setting and
  its reload (`DerivedInv`), and a check or a countdown carries an old limit only during a command for
  the cutter, or when a reset has overtaken the check (`CutterInv`). `ImplementsOnce` is the refinement, from `TimesInv`: the numbers executed since the
  boot are at most `lastSeq`, or the one under way.
* **Boot.** `BootTyped`, `BootOutcome`, `BootInPlace`, `BootNoNeedlessWrite` rest on `BootInv`: up to the copy the flash
  is untouched (`UntouchedInv`), then the two positions agree and what is behind them equals
  the file, through the buffer (`CopyInv`, with `View`), and a dirty buffer holds the page of
  the file that belongs there (`CacheInv`).
* **GpsClock.** `ClockTyped`, `ClockNeverAhead`, `FixAlwaysFresh`, `SilenceMadeUp` rest on `ClockInv`: with a fix the
  clock has stood since the last sentence, so that it is behind by the silence and the
  age of the sentence (`FixInv`); without one it is ahead by at most what is left of the
  current lap (`FreeInv`).
* **Telemetry.** `PacingTyped`, `AlwaysPaced`, `PacingNeverLate` rest on `PaceInv`: the telemetries counted in a window,
  as shortest periods, and the time that start is behind now are paid for by the length of the
  window and one longest period (`OwedInv`); in the loop the period moved last is that
  of the telemetry to come.

* **Ground server.** `WebTyped`; `LoneAlwaysRepairs` (`[]LoneUpdate`) rests on `LoneInv`: beside a script
  that has been alone no other runs (`AloneInv`), and once it has changed the directory its list, its
  newest and the index are, label for label, those of what is stored (`UpdatesAlone`).
  Nothing is assumed of what other scripts did before it, which is the point; a script that the full
  disk ends is at `partial`, of which the property says nothing (item 12 of section 5).
* **Ground station.** `GroundTyped`; `ServerKeepsToWebIndex`: the specification of the composition implies that
  of the server, so that what is shown of the scripts alone holds beside the station.
  `AlwaysAccounted` is under `~MayFail` (item 9 of section 5 is what happens otherwise) and rests on
  `AccountInv`: a script past its move has stored its message (`StoredInv`), and the one that serves
  the uploader has the message that the uploader waits for (`ServedInv`).
* **Map page.** `PageTyped`, `AlwaysOneRowEach` rest on `PageInv`: both tables are strictly ascending and
  hold only messages that were asked for and have come (`TableInv`). `addSorted()` inserts at the
  place that `Place` counts, where `PlaceSplits` shows that it belongs.
* **Modem.** For any frames that fit the buffer and differ, any rooms of the FIFOs, any lengths of preamble and
  trailer and any noise. The interrupt counts on with what it takes, and `ModemTyped` says that it
  never counts past the frames that have begun. That depends on where each of them lies in the first FIFO
  and in what is still to be written: `Standing` gives every frame that has begun a place,
  below zero when it has been taken in part, and `Queued` says that frames follow each other
  without a gap.
  `ModemInOrder` rests on `OrderInv`: the checksums in the second FIFO and in the buffer rise and are
  above those received, so that a buffer with two frames in it, after a lost flag, is
  none that was sent. `ModemLostOnlyIfHit` rests on `LostInv`: a frame that nothing has hit lies in
  the second FIFO as it was written, or has been polled so far (`Lies`, `Polled`, `Decoded`); no escape is
  pending where it begins (`Open` names the places where one is), because an escape left
  behind by an overrun has hit the next frame too; and the interrupt takes it without a
  pause, never between an escape and its character (`AirInv`, `Aligned`).
* **Line code.** `LineCarries`: behind a preamble every sequence of characters and flags, of any length, is heard as
  it was sent. `LineSettles`: a preamble of two flags brings a demodulator in any state into the same one.
  `LineTransparent`, the property `Transparent` of the run, follows. A link is in
  step (`InStep`) when its demodulator is on the tone that is sent, has nothing of a character, and its last bits
  are as many ones as the modulator counts towards the next stuffed zero (`Trailing`). The two
  counters are what has to agree: the modulator may leave a stuffed zero to the next symbol, or drop it when
  that is a flag, and the demodulator may take the first zero of a flag for it. Inside a symbol `Taking` carries
  the bits so far; `Flagging` says that a flag is recognised before eight bits of it have been
  taken for a character. From an unknown state only what the last eight bits are is followed (`Attached`):
  the first edge may be missed, the second flag may not.

The proofs about the modem need an induction over the length of a frame, and over its
characters. The induction theorems of the library take an operator as a parameter and cannot be
instantiated here; `LeastElement` and `SetInduction` in `ModemProofs` derive an induction over
sets of numbers from `WFMin`, which has none. `FlattenIs` and `CarriedIs` show with it that the recursive
functions in `FlattenSeq` and `Carried` exist, and `Shape` and `CarriedInStep` what they compute.

### Only model-checked

Liveness (`WireReleased`, `MissionTimeoutCuts`, `BuzzerBeeps`, `AlwaysStarts`,
`OvercurrentCut`, `Regular`, `Drains`, `Delivered`, `Mirrored`, `ShownInTheEnd`, `BarCatchesUp`, and the fairness
part of `Implements`) is out of the prover's reach. Every other property of the runs is a theorem; what the instances add to
those is that the model can be run, that the cases happen, and that the mutants break them.

## 5. What the models found

**An assertion of the kernel fails in normal use** (`radio_assert_claim`, PROJECT.json
"findings"). A telemetry that waited for `radio_sem` with another message queued behind it
takes the semaphore again in `radio_time()`; `sem_obtain` asserts that the queue is empty
then. With assertions compiled in, the board resets in flight.

Other sentences of the repository that the code does not keep were met while
modelling. Where a definition is named, adding it to the configuration that is named, in
place of its properties, gives the counterexample; the others are behaviours of the
models that no property forbids.

1. *radio_pause lets one message through* (`INVARIANT PauseSilent`, `MCRadio.cfg`). The pause is set
   after the message of the command, whose release switches to a waiting process
   (`bsm-2/radio.c:281-290`).
2. *A status can be set over an empty window* (`PROPERTY StaysUntilFull`, `MCStatus.cfg`): a comment says
   that the status stays until the ascent rate is known, but a reset may overtake the
   message of a verdict (`bsm-2/status_mgr.c:273`).
3. *A number is executed again after a reboot* (`PROPERTY NumbersIncrease`, `MCUplink.cfg`): `last_seq` is
   in RAM, and the signature is the same (`bsm-2/radio.c:64-72`).
4. *A call that was accepted by radio may not be sendable* (`INVARIANT CallSendable`, `MCUplink.cfg`): it is
   copied into the path unseen, and `ax25_sendCall()` asserts that it is alphanumeric, in
   the acknowledgement first (`bertos/net/ax25.c:219`).
5. *Two messages stored at once may leave an index without one of them* (`INVARIANT IndexRight`,
   `MCWeb.cfg`), until the next message: listing and replacing are two steps.
6. *cutoff_reset does not always restart a countdown* (`INVARIANT NoOldCountdown`, `MCUplink.cfg`): a check in the middle of its messages
   overwrites it with a time before the reset, or carries on to the cut that was
   decided (`bsm-2/cutoff.c:293-303`).
7. *A rise above the maximum altitude can cut without its countdown*: the checks after
   one that failed are not evaluated while its cut is paused, and keep the countdown of
   an earlier rise (`bsm-2/cutoff.c:419-424`).
8. *cutoff_pause does not hold a procedure that has begun*: it is looked at once, before the
   first of the pulses (`bsm-2/cutoff.c:429`).
9. *A message can be answered with OK and lost*: `add.cgi` prints OK before it writes
   (`MayFail`), and the uploader forgets the message.
10. *A course a little west of north has no name* on the page: the bearing is rounded to a
    seventeenth point (`balloon.js:103`).
11. *A load that brings the board down in test mode is not remembered*: `testmode.c:72` switches it
    without the power file, which still says OK, and the next boot powers it again
    (`PowerGuard`: `TestOn`, `Crash`).
12. *A full disk can leave an old index although OK was answered*: `upd_idx.sh` ends at the first
    command that fails (`upd_idx.sh:2`, 9-16), and `add.cgi` does not look. Sending the message again does not help, since
    `add.cgi` finds it there (`add.cgi:33`): the next new message does.
13. *A message that leaves the index before a page has asked is never shown by it*, though no request
    failed: an older listing (item 5) or a clear is enough.

## 6. What is not modelled

* The sine, the filters and the bit clock of the modem, the decoding of call signs and the
  digipeater path: signal processing and formats.
* The sensors and the ADC, the HADARP counter and the custom code of one flight, the
  parsing of GPS sentences: their results are readings, which the models choose.
* The camera pulses of `status_set()`, the LEDs, the periodic log line and the format of
  messages, which change nothing that a property here is about.
* The radio board, a firmware of its own that forwards frames and keeps no state.
* An SD card that works now and then: it works or does not for a whole behaviour of
  `PowerGuard`; the FAT file system and the drivers are taken to do what they promise.
* Settings of floating-point numbers and of arrays of Booleans, whose conversion is
  another but whose fate in `uplink_parse()` is the same.
* On the ground the simulators, decoders and loggers, which talk to no other program here.
* The date that the page puts before the time of a message, that of the browser when the message
  comes (`balloon.js:11-13`): across midnight its rows are not in the order of their names.
  A latitude of 0 alone, which the status bar skips too (`balloon.js:208`).
* That `uploader.py` writes the reply of a refusal into the file `.unsent` before it moves it to `.err`:
  `Refused` is one step.
* The vendored libraries of the page. Of the repository's 423385 lines of implementation
  nearly all are in `scripts/webserver/lib/`, ExtJS, GeoExt and OpenLayers; the program's own
  JavaScript is `balloon.js` and `config.js`. `Viewer` models the two functions of ExtJS that the
  state of the page depends on.

## 7. Plan

Done: the cutter, status and buzzer, power, semaphores and downlink; then uplink and
configuration, the pacing of the telemetry, the clock of the GPS, the boot loader and its
composition with the power guard, modem and line code, the ground server with the
station, and the map page (sections 2 to 4). The cutter came first, since it is what can end a
flight or fail to; the status is what feeds it, the power file is a protocol with
crashes, and all of them speak through the radio.

Left, in this order:

1. `Mission`: the composition of status, buzzer and cutter under a mission start, each
   seen through the interface that its module abstracts today (`StatusChange` in `Cutoff`).
2. An abstract specification of `PowerGuard` (a promise to the payload) and its refinement.
3. `Scheduler`: the ready list, `timer_delay()` and signals, to derive from them the
   fairness that is assumed above.
4. Mutual exclusion for `Semaphore` as lemmas of its own.
