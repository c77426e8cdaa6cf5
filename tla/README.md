# SeaTalk driver: a TLA+ verification project

This directory models the SeaTalk kernel driver in `src/`: a Linux module that
talks the one-wire, 4800 baud SeaTalk bus of marine instruments over two GPIO
pins. It clocks every bit from high-resolution timers, receives what it sends,
detects collisions, keeps what other instruments report (statuses and alarms),
and sends sensor values and autopilot commands written to sysfs files.

* [1. The system](#1-the-system): inventory
* [2. The modules](#2-the-modules): which models what, and how they correspond to the code
* [3. What is checked](#3-what-is-checked): the runs, the bounds, the fairness
* [4. What is proved](#4-what-is-proved)
* [5. Disagreements found](#5-disagreements-found)
* [6. What is not modelled](#6-what-is-not-modelled)
* [7. Plan](#7-plan)

## 1. The system

### Components

| component | source | state it keeps | operations |
|---|---|---|---|
| transport layer | `seatalk_transport_layer.c` | `bus_state`, receive and transmit buffers with their counters, the two bit numbers and bytes | `seatalk_receive_bit`, `seatalk_transmit_bit`, `initiate_seatalk_receive_character`, `initiate_seatalk_transmitter` |
| hardware layer | `linux/seatalk_hardware_layer.c` | two hrtimers, the RxD interrupt, the debounce flag | interrupt and timer handlers; starting and stopping the transmitter; reserving and releasing everything |
| boat sensors | `boat_sensor.c` | per sensor: value, expiry, transmitted flag | `update_X_sensor`, `pop_X_sensor_value`, `invalidate_X_sensor` |
| commands | `seatalk_command.c` | one command datagram and its length | three command functions, `send_command`, `get_command_datagram` |
| protocol | `seatalk_protocol.c` | none | `seatalk_datagram_pending`, `get_pending_datagram`; `update_seatalk_state` |
| boat status | `boat_status.c` | per status: value, expiry; one word of active alarms | setters, getters, `initialize_status` |
| timeouts | `timeout.c` | - | the wall clock of the expiries |
| datagram codec | `seatalk_datagram.c` | none | parse and build functions |
| sysfs files | `linux/seatalk_module.c` | none | show and store |
| load and unload | `linux/seatalk_module.c`, `linux/seatalk_hardware_layer.c`, and the two test modules built around the hardware layer | what has been acquired: directories, files, pins, timers, the interrupt | init, its cleanup labels, exit |
| tests, level test, loopback test | `test/`, `linux/level_test/`, `linux/test/` | - | read as statements of intent |

### How they interact

```
 sysfs write --> update_X_sensor / command --> initiate_seatalk_transmitter
                        |                                |  (stop, start tx timer)
                        v                                v
   protocol: get_pending_datagram <---- transmit_bit  (tx timer)  --> TxD pin
                                             |  bus_state, cursor       |
                                             v                        the line
   protocol: update_seatalk_state <---- receive_bit   (rx timer)  <-- RxD pin
                        |                    ^
                        v                    +--- RxD edge interrupt
 sysfs read  <-- get_X (checks the timeout, copies)
```

Three contexts share the state without a lock. The RxD interrupt and the two
timer handlers run with interrupts disabled on the one processor of the boards
this driver is for, so they are atomic with respect to each other; a thread that
reads or writes a file is preempted by them between any two of its accesses. On
a multiprocessor the thread also runs beside them.

### What is hard

* *Waking the transmitter* is a stop and a start of a timer in a thread, after a
  test of a variable the interrupts write. Data that is announced while the bus
  is busy relies on the receiver to start the timer.
* *Two independent timers* keep a byte and its echo in order; nothing but their
  phase does.
* *Collisions and framing errors* come at any byte of a reception or of our own
  datagram; cursors and counters must remain usable.
* *Three-store updates and two-step pops*: a value may be taken before, between
  or after the stores that announce it.
* *Fixed priority*: a command before any sensor, the sensors in a fixed order.
* *Checks and copies*: a getter checks a timeout and then copies words that a
  received datagram may replace.
* *One timeout for several things*: all alarms; all parts of a fix.
* *Packed values*: headings in quarter turns and pairs of degrees, negative
  values in unsigned bytes, nibbles of data beside the length.
* *Time* is the wall clock, in whole seconds, and may be set.
* *Joining a stream*: other talkers are heard from the middle of a datagram on,
  break off, and overlap.
* *Loading step by step*: files can be used before the load is complete and while
  the module goes; any step may fail; what a failed load leaves is there for the
  next one.

`PROJECT.json` lists the hazards one by one, each at its line.

### What makes each component correct

* transport layer: what is on the wire is the byte at the cursor of the loaded
  datagram; a datagram is sent a byte at a time to its end or given up as a
  whole; a datagram that is passed on is as long as it says; the bus never stays
  busy; pending data is sent.
* hardware layer: a reception is clocked from its start bit to its stop bit and
  not disturbed by the edges inside it; the line is never held low; a datagram
  begins after the guard time.
* sensors and commands: the last reading is the one sent; nothing stale is sent;
  a command goes out whole, and the last one issued; everyone's turn comes.
* status: nothing stale is returned; the words returned belong together; an
  alarm is kept while it is reported and goes when it is not.
* timeouts: what was written lives for its time to live, what was not is invalid.
* load and unload: what can be used is ready; what goes leaves nothing behind and
  nothing runs on what is gone; an unload ends.
* codec: a datagram announces its length; parsing gives what was built; a
  datagram whose complements do not fit is dropped; what a sensor sends comes
  back as the status of that name.

## 2. The modules

| module | what it is |
|---|---|
| `StopAndWait` | what the sending side promises: the abstract specification |
| `SeatalkTransport` | the transport layer a character at a time; implements `StopAndWait` |
| `SeatalkStream` | extends it with another talker that sends whole datagrams |
| `SeatalkBus` | extends `SeatalkTransport` with the bits, the timers, the line and another talker |
| `SeatalkSender` | sensors, commands and the choice between them |
| `SeatalkStatus` | received datagrams, statuses, alarms and their readers |
| `SeatalkDatagram` | the bytes of datagrams, and the conversions to and from statuses and sensors |
| `Countdown` | what a timeout promises: an abstract specification |
| `SeatalkTimeout` | expiry times on a clock that may be set; implements `Countdown` while it is not |
| `SeatalkLifecycle` | loading and unloading of the driver and of the two test modules |
| `SeatalkTransportProofs`, `SeatalkStreamProofs`, `SeatalkBusProofs`, `SeatalkSenderProofs`, `SeatalkStatusProofs`, `SeatalkTimeoutProofs`, `SeatalkLifecycleProofs`, `SeatalkDatagramProofs` | theorems |
| `MC...` | the small instances, one `.cfg` per run |

Each `\* Mutant of X` in a module is a plausible slip in `X`, used to make sure
that a property can fail; no specification refers to it.

### SeatalkTransport

A step is what one interrupt does to the layer when a character starts or ends.

| action | code |
|---|---|
| `initiate_seatalk_receive_character` | the function of that name |
| `seatalk_byte_received` | `seatalk_receive_bit`, stop bit high, with `seatalk_byte_received`, `cancel_datagram` and `seatalk_byte_transmitted` in it, and the restart of the tx timer that `receive_bit` does when it returns 1 |
| `FramingError` | `seatalk_receive_bit`, stop bit low |
| `StartCharacter` | `seatalk_transmit_bit` at bit -1 with `seatalk_byte_to_send` in it: the next byte, a new datagram, or sleep |
| `CharacterSent` | `seatalk_transmit_bit`, stop bit |
| `HostUpdate`, `WakeTest`, `WakeCancel`, `WakeStart` | a store, then `initiate_seatalk_transmitter` in its three accesses |
| `DataExpires` | the timeout of a sensor value |

`transmitter` stands for the tx timer and `tx_bit_number`: `"off"`, `"armed"`
between two characters, `"sending"` inside one. The receive counter keeps the
code's marks, 255 before the first byte and 254 before the second. A byte is the
set of its bits that are 1, so `DataBits` may be small and the length nibble is
still read from its bits.

### SeatalkStream

`SeatalkTransport` lets the line bring any character at any time. Here the
characters are those of two senders: the driver, and a talker that sends
datagrams of its own, begins one whenever it likes, and breaks off. `LineHeard`
hears what the characters on the line have in common, since the line is low when
anyone pulls it low, and nothing tells the driver who spoke; `LineGarbled` is a
low stop bit. The driver may be started in the middle of a datagram. `intact`
and `garbled` are history: whether a sender's datagram has been heard so far as
it was sent, and whether the last character was lost to its stop bit. Each
action of the transport layer is taken whole, so a behaviour of `SeatalkStream`
is one of `SeatalkTransport` whose characters have an origin.

### SeatalkBus

Every bit of a character in both directions. Where a bit starts or ends a
character the step includes the step of `SeatalkTransport`, which is how the two
modules are composed; all others leave its variables unchanged. Time advances in
ticks, quarters or twelfths of a bit in the runs. A timer is a number of ticks; a handler
that is held off for `Latency` ticks finds its timer below zero, and `Forward`
is `hrtimer_forward_now`, from the time the timer was due. The line is the AND
of our output and the other talker's. A falling edge raises the RxD interrupt,
which `RxdInterrupt` ignores in the debounce time and inside a character, as
`rxd_irq_handler` and `initiate_seatalk_receive_character` do.

### SeatalkSender

`StoreValue`, `Validate` and `MarkUntransmitted` are the three stores of an
update. `ReadSensor` and `MarkTransmitted` are the two steps of a pop, chained
for the heading and the rudder angle that share a datagram. A command is
built in two stores, then its length is set (the variable holds the command
whose length it is). `TakeCommand` copies as many bytes as that length says,
in one step as on one processor; the command stays pending as it does in the
code. `count` and `slept` are locals of `send_command`, zero outside it.
`EndDatagram` is what `SeatalkTransport` promises of a datagram, sent or
cancelled. With `SMP` off a pop is atomic with respect to the threads; with `SMP` on it is not.

### SeatalkStatus

The tables say which setters each datagram calls, which timeout each setter
restarts, which words each getter copies and which timeouts it checks. The
actions are the handler of a datagram, the three parts of a getter
(`CheckTimeouts`, `CopyWord` for one word at a time, `Return`), the read of an
alarm file and the passing of a second. `age`, `reported` and `asserted` are
history, used by properties only.

`Restarted` is the set of the timeouts an update restarts: that of every setter
it calls, and that of the alarms if it reports one.

### SeatalkTimeout

`Restart` is `restart_timeout`, `Invalidate` `invalidate_timeout`, `Valid` the
macros `VALID_STATUS` and `VALID_SENSOR`. `Initialize` sets `status_initialized`
(or `sensors_initialized`), after which the items are invalidated one at a time
while interrupts and files may already restart them. The clock advances by half
seconds, of which the code sees whole ones, and `SetClock` sets it.
`AsInt` is what storing a time in an `int` does. `age` and `moved` are history:
how long ago an item was written, and by how much the clock was set since.
`SeatalkSender` and `SeatalkStatus` use countdowns in place of expiry times;
`ImplementsCountdown` is what entitles them to.

### SeatalkLifecycle

A load and an unload are lists of steps, put together by operators named for the
functions of the code (`init_sysfs`, `init_seatalk_hardware_signal`, ...); what
runs after a failure is the list of the label that the code goes to. `Acquire`,
`Release` and `Fail` take one step of a list. Beside them run the interrupt and
the two timers, which may start each other, and a program that enters the
function of a file (`Enter`), has its effect there (`Write`) and returns
(`Leave`). The kernel is modelled as far as the code relies on it: a directory
lives until the last reference to it is put, a NULL parent puts a directory at
the top, a name that is taken or a pin that is reserved cannot be had, and
`sysfs_remove_file` waits for programs in the file's function. `Load` may come
again and again, of any of the three modules, and finds what the ones before left
(`orphans`, `leaked`). A call of sysfs on a NULL directory is counted as an error
it returns. `fault` is history: what went wrong in this life of a module.

### SeatalkDatagram

The build and parse functions of 32 kinds of datagram, under their names in
the code. A datagram is a function from 0 to bytes, `Assigned` cuts what the code
assigns to a `char` to eight bits, and a parse function that checks complements
returns the empty set where the code returns -1. Around them is a machine that
handles one datagram at a time: `Report` by another instrument, `TransmitSensor`
by `build_sensor_datagram`, `PullLow` by another talker, `handle_seatalk_datagram`.
An instrument is taken to pack its readings as the build functions do. The
readings and sensor values are those that fit the fields they are put into
(`Readings` by kind, `SensorValues`; assumed of the constants `Reports` and
`Writings`): bit fields are added where the code ORs them, which is the same only
as long as they do not overlap. `status`
holds what the handler sets; alarms and timeouts are in `SeatalkStatus`.
`char` is unsigned, as on the ARM boards. Where it is signed (an x86 build of
the unit tests, for one) two-byte values with a high low byte do not survive.

## 3. What is checked

### Runs that pass

| run | question | instance |
|---|---|---|
| `transport` | Do the counters and cursors of the transport layer agree, under any noise, collision, framing error, wake-up and expiry, and does it implement `StopAndWait`? | two-bit bytes; nothing, three-byte and four-byte datagrams; receive buffer of 6 |
| `stream` | Is a datagram that is heard clearly handed on, as it was sent and with its last byte, whatever came before it; is announced data sent, or does it expire, however the talker talks? | one-bit bytes, datagrams of three and four bytes on both sides, framing errors, `FairStreamSpec` |
| `bus_alone` | Alone on the line, does the driver read back what it sends, bit for bit, ignore the edges inside its own characters, wait for each echo and for the guard time, and end each datagram? | eight-bit bytes, a real keystroke datagram, guard time of 10 bits, twelfths of a bit, each timer and interrupt up to a twelfth late, `BusFairSpec` |
| `bus_talker` | Are the two timers what the transport layer takes them for with another talker on the line, and is the line always released? | frames of 4 bits, guard time of 3 bits |
| `sender` | Is the last reading sent, nothing stale, a command whole unless one is being built; do the command and the first sensor get their turn? | heading and rudder, two values, two commands |
| `status` | Are alarms of two instruments kept apart, do they end when none is reported, and stay ended; is a date and time fresh? | depth and wind datagrams with an alarm each, date and time datagrams, the getter that puts these two together |
| `timeout` | Does a value live for its time to live by the clock, is nothing valid that was not written, and does a timeout count down while nobody sets the clock? | two items, a time to live of 2 seconds, 5 seconds of clock, an `int` of four bits, set twice by up to two seconds either way |
| `lifecycle` | Is all that the interrupt uses there while it is hooked; does an unload or a cleanup end, and leave nothing? | the whole tree of 14 directories and 75 files, all three modules, one failure in each load, any number of loads, `FairSpec` |
| `datagram` | Does every datagram announce its length, parse to what was built, notice cleared bits under complements, and does the echo of a sensor show its value? | every heading in both turning directions; the boundaries of all other fields; up to two cleared bits |

### Why the bounds are enough

* Two data bits give length nibbles from 0 to 3, so the marks 255 and 254, the
  replaced count, counting down and the last byte all occur; noise can produce
  any byte in which bit 1 is clear, and the datagrams hold bytes outside that
  set, so equal and unequal echoes both occur. The bytes beyond the receive
  buffer are dropped in the model (the code writes past its end, see section 5).
* The short frames of `bus_talker` keep what matters of the real ones: the guard
  time is a bit shorter than a frame. `bus_alone` has the real lengths. A quarter
  of a bit is the receiver's sampling offset (`START_BIT_DELAY`): three ticks in
  `bus_alone`, where `DEBOUNCE_NANOS` is four (60 of 208 microseconds, rounded up)
  and a delay of one tick is all that this leaves room for (section 4).
* In `sender` the heading and the rudder angle are the two sensors whose pops are
  chained. A time to live of 2 seconds is the least in which a value is old and
  still valid. Two commands are the least with which one is built while another is
  pending, gives way to it, or is sent with its length; with a poll that gives up
  after one round (`MAX_COMMAND_LOOPS` 0) the second is built before and after the
  first was taken. More sensors add priorities of the same kind.
* In `status` the depth and wind datagrams have alarms, the date and time
  datagrams the separate timeouts. One reading suffices because freshness is
  told from `age`.
* In `stream` three and four bytes are the shortest datagrams and the shortest
  with a count to come down; one-bit bytes make collisions and equal bytes
  frequent. The receive buffer holds one datagram; what comes beyond is dropped.
  With noise on top the run also passes (748,000 states, two minutes).
* In `timeout` an `int` ends at 7, so expiry times reach its end but the clock
  does not; the settings are as long as the time to live.
* In `lifecycle` one failure at a time is what each cleanup label is for, and
  since loads repeat, failures of different loads combine. Directories that
  cannot be created are left out of the listed run; with them it passes as well
  (`AllMayFail`, 508,000 states, two minutes). One program is enough: the files'
  functions do not wait for each other.
* In `datagram` the fields of a value are bytes, nibbles and single bits, so the
  values around 0, 255/256, 32767/32768, 65535 and the largest one reach every
  carry; headings are complete because quarter turns, pairs and the turning
  direction interact. Two cleared bits may hit a byte and its complement. Out of
  the bounds, because no instrument reports it: wind above 127.9 knots, water
  below -10 degrees, headings of 360 and more.

### Fairness

* `SeatalkTransport!FairSpec`: a reception that began ends, because its timer
  runs (weak fairness of `Receive`); the thread is scheduled (weak fairness of
  `Wake`). The transmit timer needs strong fairness, since a wake-up stops it for
  an instant: it excludes only a host that stores a value in every bit time,
  4800 times a second, for ever.
* `SeatalkStream!FairStreamSpec` is the same of the composed steps. Nothing
  obliges the talker to speak, or to stop.
* `SeatalkLifecycle!FairSpec`: the kernel goes on with a load or an unload that
  it began, and a program in a file's function returns. The longest is
  `send_command`, which polls a bounded number of times.
* `SeatalkBus!BusFairSpec`: time passes, and due timers and interrupts are
  served. Nobody is obliged to talk and the host is not obliged to send.
* `SeatalkSender!FairSpec`: weak fairness of the transmit interrupt while there
  is something to take or finish, which is what `DataIsSent` and
  `DatagramEnds` show of the layers below; threads finish what they began.

Deadlock is checked in every run: the models never stop.

### Mutants

Every property of every passing run has a mutant in `PROJECT.json`, a small
change to one definition that makes TLC find that property violated.

## 4. What is proved

`SeatalkTransportProofs`, for every `DataBits`, set of datagrams, set of bytes
heard, buffer that holds a datagram, with and without framing errors
(`TransportAssumption`):

* `TypeCorrect`: the type invariant. It is not inductive alone: a confirmation
  decrements a counter, which stays a natural number only because the cursor is
  inside the datagram while the driver transmits. `SendInv` is `TypeOK` with
  `WireFollowsCursor`, and is inductive.
* `WireFollowsCursorHolds`, from the same invariant.
* `ReceptionCountedHolds`: `ReceiveInv` is `ReceptionCounted` strengthened by
  what the count says before the first bytes; the length nibble's bound keeps
  the buffer from being cut short of a datagram.
* `BusyStateIsLeftHolds`: a reception or a timer is always there to leave a busy
  state. `BusyInv` adds the place of the host in the wake-up call.
* `PendingDataHasTimerIfClean`: without framing errors no wake-up is lost, so
  they are the only cause of the disagreement of section 5.
* `TransportImplementsStopAndWait`: the refinement, step by step, by the same
  mapping the run checks.

`SeatalkStreamProofs`, for all datagrams of the driver and the talker
(`StreamAssumption`), with and without noise and framing errors:

* `StreamTypeCorrect`, and with it the type invariant.
* `ClearIsHandledHolds`. `StreamInv` adds to `ReceptionCounted` and the types
  that the driver's datagram is the loaded one (`Loaded`), and is inductive with
  `ClearIsHandled` itself: the position of a clear datagram in the buffer and the
  bytes still to come determine each other.
* `DataHasTimerHolds`: the same argument as for `BusyStateIsLeft`, with the one
  way out recorded in `garbled`.

`SeatalkBusProofs`, for every frame, length of a bit, sampling point, debounce
time of at most a bit, guard time, latency below a bit and set of bytes of the
other talker (`BusAssumption`):

* `BusImplementsTransport`: `BusSpec` implements `SeatalkTransport!Spec`, for a
  `SeatalkTransport` that hears every byte and framing errors. `SeatalkBus` does
  not refer to `Heard`, so this takes nothing away; what is proved of the
  character model thereby holds of the handlers that clock it bit by bit.
* `BusTypeCorrect`, with `TypeCorrect` of the transport layer through that
  refinement. The types of the hardware (`HardwareTypes`) are inductive with
  `ForwardWithinInterval`: a late timer is moved to within an interval from now.
* `LayersAgreeHolds`, while the wake-up call is not preempted (`HostPreempted`
  off; when it is preempted it is violated, as `MCSeatalkBusPreempted` shows with
  `LayersAgree` in its place). `LayersInv` adds that the receive timer runs during
  the debounce time.
* `NotHeldLowHolds`, preempted or not. `LowInv` keeps of `LayersAgree` what
  preemption leaves true: a transmitter inside a character has its timer, and
  the line is low only there. The one step that could give it a timer longer
  than a bit, the end of a reception, needs the line high.

Its last section is about a driver that is alone on the line and served in time
(`ServedInTime`): no other talker, the wake-up call not preempted, datagrams that
fit the receive buffer, and interrupts that are late by less than half of
`START_BIT_DELAY` and so little that `START_BIT_DELAY`, `DEBOUNCE_NANOS` and four
times the delay stay below a bit. With the constants of the code this means 24
microseconds (52 + 60 + 4 * 24 < 208), for the edge and for each timer. The run
`bus_alone` is an instance of it; `MCSeatalkBusLate`, where interrupts are late by a
quarter of a bit, shows that something of the kind is needed (section 5).

* `AloneInvariant`: `AloneInv`. Between two characters the debounce time ends before
  the next may begin and the line has been high for what is gone of the guard
  time. Inside a character the receive timer is behind the transmit timer by
  `START_BIT_DELAY` and at most two delays, those of the start bit and of its edge,
  modulo a bit: so each bit is sampled after it has been put on the line
  (`Unsampled`) and before the next one is (`Sampled`), whatever else is late. What
  has been sampled is the lower bits of the byte on the wire.
* `EchoIsPrefixHolds`, `EchoBeforeNextHolds`, `GuardTimeKeptHolds` and
  `MidCharacterEdgeIgnoredHolds` from it, and `NoFalseCollisionHolds`: the driver
  never takes its own character for somebody else's.

`SeatalkSenderProofs`, for every set of sensors, readings, commands and time to
live (`SenderAssumption`):

* `SenderTypeCorrect`. `TypeInv` adds to `TypeOK` the types of what is popped and
  loaded, and `slept <= 2 * SLEEP_DURATION * count`, which bounds the sleep.
* `SenderTakesNothingStale`, with `SMP` off. `AgeBound` says that a value's age
  and what is left of its time do not exceed the time to live together, and that
  in the middle of an update the value is new; what is popped is alive.
* `SenderSendsLastValue`, with `SMP` and `Collisions` off; with either of them on
  it is violated (section 5). `ValueInv` follows the value through its three
  places: in the interrupt's hands (`PoppedIsCurrent`), in the loaded datagram
  and on the bus (`LatestIsCurrent`). `PopOrder` is needed for the rudder, whose
  pop is thrown away: a heading must never be thrown away with it.
* `SenderCommandsMixOnlyInBuild`, for any number of commands, without a bound or
  another assumption. `CommandInv` says that the two halves of the buffer agree
  except in the middle of a build, and with the length except from the first store
  of a build to the setting of the length. A command stays pending for ever, so
  each but the first is built over one that may be taken at any moment: in that
  time, and only then, a datagram is half of one and half of the next, or has the
  length of the wrong one (`CommandsIntact`, section 5).

`SeatalkStatusProofs`, for every set of datagrams heard, readings and time to
live (`StatusAssumption`), and for tables in which no plain setter restarts the
timeout of the alarms (`TablesAssumption`, which TLC evaluates for the tables of
the module):

* `TypeCorrect`.
* `AlarmKeptHolds`. `AlarmInv` adds `TimeoutOutlives`: the common timeout has at
  least as long to run as any alarm reported within the time to live. Without
  it a second may end the timeout while an alarm is fresh.
* `AlarmsEndTogetherHolds`. `EndInv` names the witness: the common timeout is
  always that of the alarm reported last (`Latest`), which is still active.
* `NoAlarmRevivedHolds`.
* `ReturnedIsFreshHolds`, for getters each of whose timeouts is restarted only by
  setters of everything that is valid by it (`SetTogether`). TLC evaluates that
  this is so for all getters but those of the GPS fix and the navigation status,
  whose flags stand in for it (section 5). `FreshInv` bounds the age of each
  field by what has gone of its timeout.

`SeatalkTimeoutProofs`, for every time to live and all settings of the clock, as
long as the clock and a time to live fit an `int` (`ClockFits`):

* `LivesItsTimeHolds`. `TimeInv` says how the clock and a value's age belong
  together: the time since it was written, by the clock, is its age and the
  settings since, to within the half second the code does not see.
* `UnwrittenIsInvalidHolds`, `CountsDownHolds` from the same invariant.
* `TimeoutImplementsCountdown`: without settings every step maps to a step of
  `Countdown` or a stutter.

`SeatalkLifecycleProofs`, for each of the three modules, whatever fails and for
any number of loads one after the other (`LifecycleAssumption`). None of the
safety invariants is inductive: that an unload leaves nothing behind depends on
what the load acquired and on what is still to come of the unload's list.

* `LifecycleInvariant`: `LifecycleInv`. While a module is loaded, what it has
  acquired is what the steps behind it in the list say (`Loading`); while it is
  undone or unloaded, everything not yet released has its release ahead
  (`Undoing`, `Unloading`); afterwards nothing is left but what the findings of
  section 5 name (`Gone`). An interrupt or a receiver's timer that is still armed
  has the cancelling of both timers ahead, the receiver's first: it is the one
  that starts the other.
* `TypeCorrect`, `InterruptAlwaysBacked`, `CodeStaysHolds` from this invariant, and
  `NothingLeftHolds` for the step out of an unload.

`SeatalkDatagramProofs`, for every set of reports whose readings fit their fields,
every set of sensor values that do, and every number of bits pulled low
(`ReportsAssumption`, `WritingsAssumption`, `DamageAssumption`). TLC checks some
hundred values at the boundaries; the theorems cover all of them.

* One lemma for each of the 32 kinds says that what is built of a reading has the
  bytes, the length nibble and the complements of its kind, and that parsing gives
  the reading back (`Resolved`). `ReportBuilt` and `SensorBuilt` put them together.
* `DatagramInvariant`: `DatagramInv`. As long as nothing is pulled low a datagram is
  what was built of its origin. Once something is, the pairs of a byte and its
  complement are kept as sums, none above 255 and one below: a bit pulled low only
  takes away.
* `TypeCorrect`, `LengthAnnouncedHolds`, `EchoShowsReadingHolds`.
* `RoundTripsHold`, as long as no engine turns backwards, which the parse function
  gets wrong (`RpmIsSigned`, section 5).
* `DamageNoticedHolds`. The code of a 85 and 86 asks of two bytes only that every
  bit is set in one of them; `FullIsLarge` says that such bytes add up to 255 at
  least, so that a sum below it is noticed there too.

Model-checked only is liveness (`DataIsSent`, `DatagramEnds`, `CommandIsSent`,
`CleanupEnds`, `FirstSensorIsSentOrCommand`), since fairness and `ENABLED` are out
of the prover's reach.

## 5. Disagreements found

Three runs expect a violation; their findings quote the text that is contradicted.

| run | property | what happens |
|---|---|---|
| `transport_lost_wake` | `PendingDataHasTimer` | a framing error ends the reception the new value was waiting for; nothing starts the timer |
| `sender_starved` | `FirstSensorIsSent` | after the first command no sensor is ever sent again |
| `datagram_mode` | `ModeIsShown` | an autopilot in auto mode is shown as in vane mode; vane and track are shown as standby |

Further counterexamples have a configuration to be run by hand. Where it names
several properties it checks the first; put another one in its place to see it.

| configuration | property | what happens |
|---|---|---|
| `MCSeatalkBusGuard` | `GuardTimeKept` | the guard timer started by one character runs out inside the next one of the same talker (`seatalk_transport_layer.c:186`; comment at `linux/seatalk_hardware_layer.c:111`) |
| `MCSeatalkBusPreempted` | `NoFalseCollision` | an interrupt inside the wake-up call begins a character whose bit is then stretched by the restart: a collision with oneself (`seatalk_transport_layer.c:154`) |
| `MCSeatalkBusLate` | `EchoBeforeNext` | an edge served a quarter of a bit late: the next character begins before the echo is complete (`linux/seatalk_hardware_layer.c:52`; comment at `seatalk_transport_layer.c:35`) |
| `MCSeatalkBusLate` | `MidCharacterEdgeIgnored` | `rx_bit_number` says that no character is received until the first bit is sampled; an edge before that restarts the receiver (`seatalk_transport_layer.c:100`) |
| `MCSeatalkStreamLosses` | `WinnerIsHandled` | the first byte of the datagram that won a collision is dropped, and with it the datagram (`seatalk_transport_layer.c:63`) |
| `MCSeatalkStreamLosses` | `HandledWasSent` | its other bytes are appended to what was in the buffer, and make up a datagram nobody sent (`seatalk_transport_layer.c:78`) |
| `MCSeatalkStreamLosses` | `HandledOnce` | a complete datagram is handled again with every byte that follows without a command bit; in the code these bytes are stored past the datagram, and in the end past `receive_buffer` (`seatalk_transport_layer.c:78`) |
| `MCSeatalkStreamLosses` | `ConfirmedWasHeard` | only the byte is compared with what was sent, not the command bit (`seatalk_transport_layer.c:63`; comment at line 34) |
| `MCSeatalkSenderCancelled` | `LastValueSent` | a collision loses the value: it was marked as transmitted when it was popped (`boat_sensor.c:34`) |
| `MCSeatalkSenderSmp` | `LastValueSent` | on a multiprocessor an update falls between the read and the mark of a pop (`boat_sensor.c:33`) |
| `MCSeatalkSenderCommands` | `CommandsIntact` | the next command is built in the buffer a retransmission copies from, and sets its length later (`seatalk_command.c:45`); `CommandsMixOnlyInBuild` is what does hold |
| `MCSeatalkSenderCommands` | `GivesUpAfterDelay` | milliseconds are passed as microseconds (`seatalk_command.c:39`) |
| `MCSeatalkSenderRudder` | `PendingMeansDatagram` | a rudder angle is pending but builds nothing (`seatalk_protocol.c:101`) |
| `MCSeatalkStatusAlarms` | `AlarmTimesOut` | an alarm lives on for as long as any other is reported (`seatalk_protocol.c:170`; `README.md:24`: "All sensor and status values time out after 5 seconds") |
| `MCSeatalkStatusAlarms` | `AlarmEnds` | an instrument's report without an alarm does not clear it (`seatalk_protocol.c:318`) |
| `MCSeatalkStatusAlarms` | `NoPhantomAlarm` | the result of the getter is ignored, an unwritten variable is shown (`linux/seatalk_module.c:108`) |
| `MCSeatalkStatusParts` | `FlaggedIsFresh` | the parts of a fix and of the navigation status share a timeout, and their flags are never cleared (`boat_status.c:254`) |
| `MCSeatalkStatusParts` | `ReturnedIsOneReading` | a date and a time of different readings are returned together: around midnight they may be a day off (`boat_status.c:258`) |
| `MCSeatalkStatusTorn` | `ReturnedIsOneReading` | a datagram is handled between two words of a copy (`boat_status.c:22`) |
| `MCSeatalkTimeoutSet` | `StaysExpired` | an expired value is back when the clock is set back (`timeout.c:15`) |
| `MCSeatalkTimeout2038` | `UnwrittenIsInvalid` | when seconds do not fit an `int` the time is negative and `TIMEOUT_DEFAULT` lies in the future (`timeout.c:16`, `timeout.h:1-2`) |
| `MCSeatalkLifecycleFaults` | `FilesInPlace` | a pin that is busy fails the load, which leaves its directories; the next load cannot make `seatalk` and puts `sensors`, `commands` and `status` at the top (`linux/seatalk_module.c:620`; `README.md:54-58`) |
| `MCSeatalkLifecycleFaults` | `NoUnloadedCode` | the files of a load that failed after `init_sysfs` stay and call into a module that is gone (`linux/seatalk_module.c:634`) |
| `MCSeatalkLifecycleFaults` | `NoPinFreedTwice` | the pins are freed where the interrupt is requested and again by the caller (`linux/seatalk_hardware_layer.c:170`, `linux/seatalk_module.c:632`) |
| `MCSeatalkLifecycleFaults` | `NoUnreservedPin` | the pins are freed before the timers that drive them are cancelled (`linux/seatalk_hardware_layer.c:178`) |
| `MCSeatalkLifecycleFaults` | `CleanupComplete` | a file's function starts the transmit timer after it was cancelled (`linux/seatalk_module.c:641-643`) |
| `MCSeatalkLifecycleFaults` | `NoUninitializedTimer` | a file is written before the timers are initialized (`linux/seatalk_module.c:614`) |
| `MCSeatalkLifecycleFaults` | `NothingWiped` | what was received or written before the end of the load is invalidated by it (`linux/seatalk_module.c:626`) |
| `MCSeatalkLifecycleFaults` | `NoPinLeaked` | the level test keeps its pins when its pin has no interrupt (`linux/level_test/seatalk_level_test_module.c:231`) |
| `MCSeatalkDatagramEcho` | `EchoInventsNothing` | the echo of a water speed sets the average water speed to 0, that of a rudder angle sets a turning direction (`seatalk_protocol.c:235`) |
| `MCSeatalkDatagramEcho` | `EchoShowsWaterSpeed` | the water speed is the one sensor that its echo does not show (`seatalk_protocol.c:231`) |
| `MCSeatalkDatagramHeading` | `HeadingInRange` | heading 0 turning right is parsed as 360 from the autopilot's datagram; the other datagram's parser takes it modulo 360 (`seatalk_datagram.c:1083`) |
| `MCSeatalkDatagramRpm` | `RpmIsSigned` | an engine speed of -100 is read as 65436; the comment at line 198 says signed (`seatalk_datagram.c:237`) |
| `MCSeatalkDatagramLevel` | `LevelIsSentAsDocumented` | response levels are sent as 0 and 1; the comment at line 1215 says 1 and 2 (`seatalk_datagram.c:1217`) |

Two more configurations pass and are kept to be run by hand:
`MCSeatalkTransportClean` (without framing errors announced data always has a
timer, and is sent or expires, under any noise) and `MCSeatalkTimeoutCountdown`
(`ImplementsCountdown`, with a clock nobody sets).

## 6. What is not modelled

* datagrams that change nothing in the driver (59, 68, 70, 88, a1, a2), and a5,
  whose build function is unfinished (`test/seatalk_datagram_test.c` has none
  for it); the text of the sysfs files;
* several threads that issue commands at once, whose builds could mix for good
  (`CommandsMixOnlyInBuild` is about commands issued one at a time); several readers at once (readers
  do not change anything, so they do not disturb each other);
* setters and `invalidate_X_sensor` functions that nothing calls;
* clock drift between the talkers; the other talker's characters start at any
  tick;
* what the level test measures and the bytes of the loopback test: loops around a
  line that is wired back, whose results are times; of both the loading and
  unloading is modelled;
* what a store function of a sysfs file returns, and what a program makes of it;
* the unit tests.

## 7. Plan

In order:

1. *Proofs*: what the driver keeps of `EchoIsPrefix` beside another talker that
   obeys the guard time.
2. *Store functions*: what they return, and a program that writes again what was
   not taken.
3. *Concurrent commands*: several threads in the command functions.

The number of runs is kept at a dozen: a new module takes one or two, and the
properties of an existing one go into its run. A violation whose configuration
remains to be run by hand makes room for it.
