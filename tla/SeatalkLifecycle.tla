-------------------------- MODULE SeatalkLifecycle --------------------------
(***************************************************************************)
(* Loading and unloading (linux/seatalk_module.c, the reserving half of    *)
(* linux/seatalk_hardware_layer.c) and the same of the two test modules    *)
(* that are built around the hardware layer.  A load is a list of          *)
(* acquisitions, any of which may fail and then hands over to a list of    *)
(* releases; an unload is a list of releases.  Beside it run the           *)
(* interrupt, the two timers and a program that uses the files as soon as  *)
(* they appear.                                                            *)
(*                                                                         *)
(* The machine is the computer's: a module may be loaded again, by itself  *)
(* or after another, and finds what earlier loads left behind.             *)
(***************************************************************************)
EXTENDS Naturals, Sequences, SequencesExt

CONSTANTS
  Drivers,        \* the modules that are loaded, one at a time
  MayFail,        \* the acquisitions that may fail for lack of something
  MaxFailures     \* bound on such failures in one load

Driver == {"seatalk", "loopback_test", "level_test"}
Acquisition == {"create_dir", "create_file", "reserve", "map_irq", "request_irq"}

ASSUME LifecycleAssumption ==
  /\ Drivers \subseteq Driver
  /\ MayFail \subseteq Acquisition
  /\ MaxFailures \in Nat

-----------------------------------------------------------------------------
(* The sysfs tree *)

RootDirectories == <<"sensors", "commands", "status">>
StatusDirectories ==
  << "alarms", "engine_single", "engine_port", "engine_starboard", "position",
     "fix_quality", "navigation", "waypoint_position", "gmt_date_and_time",
     "autopilot" >>

Directories(d) ==
  <<"seatalk">> \o (IF d = "seatalk" THEN RootDirectories \o StatusDirectories
                                     ELSE <<>>)
Directory == ToSet(Directories("seatalk"))

Parent(dir) ==
  IF dir = "waypoint_position" THEN "navigation"
  ELSE CASE dir \in ToSet(StatusDirectories) -> "status"
         [] dir \in ToSet(RootDirectories)   -> "seatalk"

\* The m-th to n-th file of a directory.
Numbered(dir, m, n) == [i \in 1 .. n - m + 1 |-> <<dir, m + i - 1>>]

EngineFiles(n) ==
  << <<"engine_single", n>>, <<"engine_port", n>>, <<"engine_starboard", n>> >>

\* The files in the order in which they are created.
VFILES ==
     Numbered("status", 1, 14)      \o Numbered("alarms", 1, 13)
  \o EngineFiles(1)                 \o EngineFiles(2)
  \o Numbered("position", 1, 6)     \o Numbered("fix_quality", 1, 7)
  \o Numbered("navigation", 1, 1)   \o Numbered("waypoint_position", 1, 6)
  \o Numbered("navigation", 2, 5)   \o Numbered("gmt_date_and_time", 1, 6)
  \o Numbered("autopilot", 1, 2)    \o Numbered("sensors", 1, 9)
  \o Numbered("commands", 1, 1)

Files(d) == IF d = "seatalk" THEN VFILES ELSE Numbered("seatalk", 1, 2)

\* The files whose functions drive the line: sensors and commands; send; level
\* and speed_test.
Drives(d, file) ==
  CASE d = "seatalk"       -> file[1] \in {"sensors", "commands"}
    [] d = "loopback_test" -> file[2] = 1
    [] d = "level_test"    -> TRUE

-----------------------------------------------------------------------------
(* The lists of steps *)

Pin == {"rxd", "txd"}
Timer == {"rx", "tx"}

Each(op, things) == [i \in DOMAIN things |-> [do |-> op, on |-> things[i]]]

\* Mutant of init_seatalk_hardware_signal: the second pin is named where its
\* timer is meant.
Mutant_init_seatalk_hardware_signal ==
  << [do |-> "reserve", on |-> "rxd"], [do |-> "init_timer", on |-> "rx"],
     [do |-> "reserve", on |-> "txd"], [do |-> "init_timer", on |-> "txd"] >>

init_seatalk_hardware_signal ==
  << [do |-> "reserve", on |-> "rxd"], [do |-> "init_timer", on |-> "rx"],
     [do |-> "reserve", on |-> "txd"], [do |-> "init_timer", on |-> "tx"] >>

FreePins == Each("free", <<"txd", "rxd">>)

\* Mutant of exit_seatalk_hardware_signal: the timers are cancelled in the
\* other order.
Mutant_exit_seatalk_hardware_signal ==
  FreePins \o Each("cancel", <<"tx", "rx">>)

exit_seatalk_hardware_signal == FreePins \o Each("cancel", <<"rx", "tx">>)

init_irq == Each("map_irq", <<"rxd">>) \o Each("request_irq", <<"rxd">>)
exit_irq == Each("free_irq", <<"rxd">>)

init_sysfs(d) == Each("create_dir", Directories(d)) \o Each("create_file", Files(d))

\* Mutant of CleanFrom: the root directory is not given back.
Mutant_CleanFrom(d, n) ==
     Each("remove_file", Reverse(SubSeq(Files(d), 1, n)))
  \o Each("put_dir", Reverse(Tail(Directories(d))))

\* The labels clean_X: from the file that could not be created back to the first.
CleanFrom(d, n) ==
     Each("remove_file", Reverse(SubSeq(Files(d), 1, n)))
  \o Each("put_dir", Reverse(Directories(d)))

\* The directories are given back in the order of their creation, but the root
\* directories after those of the status and the root of all last.
exit_sysfs(d) ==
  IF d = "seatalk"
  THEN    Each("remove_file", VFILES)
       \o Each("put_dir", StatusDirectories \o RootDirectories \o <<"seatalk">>)
  ELSE CleanFrom(d, 2)

\* The status and the sensors of the driver itself are initialized last.
init_seatalk_module(d) ==
     init_sysfs(d) \o init_seatalk_hardware_signal \o init_irq
  \o (IF d = "seatalk" THEN Each("initialize", <<"status", "sensors">>) ELSE <<>>)

\* Mutant of exit_seatalk_module: the interrupt is released last.
Mutant_exit_seatalk_module(d) ==
  exit_seatalk_hardware_signal \o exit_sysfs(d) \o exit_irq

exit_seatalk_module(d) == exit_irq \o exit_seatalk_hardware_signal \o exit_sysfs(d)

\* Where the interrupt cannot be had: init_seatalk_hardware_irq frees the pins
\* and its caller does so again; the level test has labels of its own.
IrqCleanup(d, op) ==
  IF d # "level_test"
  THEN FreePins \o exit_seatalk_hardware_signal
  ELSE CASE op = "map_irq"     -> exit_sysfs(d)
         [] op = "request_irq" -> exit_seatalk_hardware_signal \o exit_sysfs(d)

\* Mutant of SignalCleanup: the caller's cleanup is that of a failed interrupt.
Mutant_SignalCleanup(d, pin) ==
  (IF pin = "txd" THEN Each("free", <<"rxd">>) ELSE <<>>)
    \o exit_seatalk_hardware_signal

\* Where a pin cannot be had.
SignalCleanup(d, pin) ==
     (IF pin = "txd" THEN Each("free", <<"rxd">>) ELSE <<>>)
  \o (IF d = "level_test" THEN exit_sysfs(d) ELSE <<>>)

\* What runs instead of the rest of a load when its n-th step failed.  The
\* failure of any other step goes unnoticed.
Cleanup(d, n) ==
  LET failing == init_seatalk_module(d)[n]
  IN  CASE failing.do = "create_file" -> CleanFrom(d, n - Len(Directories(d)))
        [] failing.do = "reserve"     -> SignalCleanup(d, failing.on)
        [] failing.do \in {"map_irq", "request_irq"} -> IrqCleanup(d, failing.do)
        [] OTHER                      -> <<>>

InitSteps == [d \in Driver |-> init_seatalk_module(d)]
ExitSteps == [d \in Driver |-> exit_seatalk_module(d)]
CleanupSteps == [d \in Driver |-> [n \in DOMAIN InitSteps[d] |-> Cleanup(d, n)]]

-----------------------------------------------------------------------------

VARIABLES
  driver,         \* the module being loaded, loaded or unloaded
  program, at,    \* what the kernel does with it and the next step of that:
                  \* "load", "loaded", "unload", "gone", or "undo" after a
                  \* failure
  failed,         \* the step of the load that failed, or 0
  failures,       \* how many acquisitions failed in this load, one directory
                  \* more or less included
  pointer,        \* the path of a directory, or NULL
  put,            \* directories given back
  files,          \* files present
  held,           \* pins reserved
  timers,         \* timers initialized
  irq,            \* whether the interrupt is hooked
  pending,        \* timers running
  stored,         \* what was stored before it is initialized
  writer,         \* the file in whose function a program is, or Nobody
  late,           \* whether it started a timer after they were cancelled
  orphans,        \* paths of directories that outlived their module
  leaked,         \* pins that did
  fault           \* what went wrong in this life of the module

sysfsVars == <<pointer, put, files>>
pinVars == <<held, timers, irq, pending>>
pastVars == <<orphans, leaked>>
loaderVars == <<driver, program, at, failed, failures>>
vars == <<loaderVars, sysfsVars, pinVars, stored, writer, late, pastVars, fault>>

NULL == <<>>
Nobody == <<"nobody", 0>>

\* A directory is there until it has been given back and so have all the
\* directories in it, which hold a reference to it.
Present(dir) ==
  /\ pointer[dir] # NULL
  /\ \E e \in Directory :
       pointer[e] # NULL /\ e \notin put /\ IsPrefix(pointer[dir], pointer[e])

Paths == {pointer[dir] : dir \in {dir \in Directory : Present(dir)}}

InitModule ==
  /\ pointer = [dir \in Directory |-> NULL]
  /\ put = {} /\ files = {}
  /\ held = {} /\ timers = {} /\ irq = FALSE /\ pending = {}
  /\ stored = {} /\ late = FALSE

Init ==
  /\ driver \in Drivers
  /\ program = "gone" /\ at = 1 /\ failed = 0 /\ failures = 0
  /\ InitModule
  /\ writer = Nobody
  /\ orphans = {} /\ leaked = {}
  /\ fault = {}

-----------------------------------------------------------------------------
(* The kernel's thread *)

Steps ==
  CASE program = "load"   -> InitSteps[driver]
    [] program = "unload" -> ExitSteps[driver]
    [] program = "undo"   -> CleanupSteps[driver][failed]
    [] OTHER              -> <<>>

Running == program \in {"load", "unload", "undo"}
step == Steps[at]

\* insmod.  A timer that outlived its module runs out before another is loaded,
\* and the files that did are of no more interest: their directories keep the
\* new ones from being made.
Load ==
  /\ program = "gone" /\ pending = {} /\ writer = Nobody
  /\ driver' \in Drivers
  /\ program' = "load" /\ at' = 1 /\ failed' = 0 /\ failures' = 0
  /\ files' = {} /\ late' = FALSE /\ fault' = {}
  /\ UNCHANGED <<pointer, put, pinVars, stored, writer, pastVars>>

\* rmmod.
Unload ==
  /\ program = "loaded"
  /\ program' = "unload" /\ at' = 1
  /\ UNCHANGED <<driver, failed, failures, sysfsVars, pinVars, stored, writer,
                 late, pastVars, fault>>

\* What is busy already cannot be had.
Path(dir) ==
  IF dir = "seatalk" THEN <<dir>> ELSE Append(pointer[Parent(dir)], dir)

Conflict ==
  \/ step.do = "create_dir" /\ Path(step.on) \in orphans
  \/ step.do = "create_file" /\ pointer[step.on[1]] = NULL
  \/ step.do = "reserve" /\ step.on \in leaked \cup held

Fault(what, when) == fault' = IF when THEN fault \cup {what} ELSE fault

\* An acquisition that fails hands over to the cleanup, except that nobody
\* looks at the result of creating a directory: a NULL is used as the parent of
\* its subdirectories, which are then made at the top, and of its files.
Fail ==
  /\ program = "load" /\ at <= Len(Steps)
  /\ \/ Conflict /\ UNCHANGED failures
     \/ /\ step.do \in MayFail /\ failures < MaxFailures
        /\ failures' = failures + 1
  /\ IF step.do = "create_dir"
     THEN at' = at + 1 /\ UNCHANGED <<program, failed>>
     ELSE program' = "undo" /\ at' = 1 /\ failed' = at
  /\ UNCHANGED <<driver, sysfsVars, pinVars, stored, writer, late, pastVars, fault>>

Advance ==
  /\ at' = at + 1
  /\ UNCHANGED <<driver, program, failed, failures>>

Acquire ==
  /\ program = "load" /\ at <= Len(Steps) /\ ~Conflict
  /\ Advance
  /\ \/ /\ step.do = "create_dir"
        /\ pointer' = [pointer EXCEPT ![step.on] = Path(step.on)]
        /\ UNCHANGED <<put, files, pinVars, stored, fault>>
     \/ /\ step.do = "create_file"
        /\ files' = files \cup {step.on}
        /\ UNCHANGED <<pointer, put, pinVars, stored, fault>>
     \/ /\ step.do = "reserve"
        /\ held' = held \cup {step.on}
        /\ UNCHANGED <<sysfsVars, timers, irq, pending, stored, fault>>
     \/ /\ step.do = "init_timer"
        /\ timers' = timers \cup {step.on}
        /\ UNCHANGED <<sysfsVars, held, irq, pending, stored, fault>>
     \/ /\ step.do = "map_irq"
        /\ UNCHANGED <<sysfsVars, pinVars, stored, fault>>
     \/ /\ step.do = "request_irq"
        /\ irq' = TRUE
        /\ UNCHANGED <<sysfsVars, held, timers, pending, stored, fault>>
     \/ /\ step.do = "initialize"
        /\ stored' = stored \ {step.on}
        /\ Fault("wiped", step.on \in stored)
        /\ UNCHANGED <<sysfsVars, pinVars>>
  /\ UNCHANGED <<writer, late, pastVars>>

\* sysfs_remove_file waits for the programs that are in the file's function.
Release ==
  /\ program \in {"unload", "undo"} /\ at <= Len(Steps)
  /\ Advance
  /\ \/ /\ step.do = "remove_file" /\ writer # step.on
        /\ files' = files \ {step.on}
        /\ UNCHANGED <<pointer, put, pinVars, fault>>
     \/ /\ step.do = "put_dir"
        /\ put' = put \cup {step.on}
        /\ UNCHANGED <<pointer, files, pinVars, fault>>
     \/ /\ step.do = "free"
        /\ held' = held \ {step.on}
        /\ Fault("freed twice", step.on \notin held)
        /\ UNCHANGED <<sysfsVars, timers, irq, pending>>
     \/ /\ step.do = "cancel"
        /\ pending' = pending \ {step.on}
        /\ UNCHANGED <<sysfsVars, held, timers, irq, fault>>
     \/ /\ step.do = "free_irq"
        /\ irq' = FALSE
        /\ UNCHANGED <<sysfsVars, held, timers, pending, fault>>
  /\ UNCHANGED <<stored, writer, late, pastVars>>

\* The load is complete; or the module goes, and leaves behind what it has not
\* released.  Timers that run and files that remain keep their pointers into it.
Finish ==
  /\ Running /\ at = Len(Steps) + 1
  /\ at' = 1
  /\ \/ /\ program = "load"
        /\ program' = "loaded"
        /\ UNCHANGED <<sysfsVars, pinVars, stored, late, pastVars, fault>>
     \/ /\ program # "load"
        /\ program' = "gone"
        /\ orphans' = orphans \cup Paths
        /\ leaked' = leaked \cup held
        /\ pointer' = [dir \in Directory |-> NULL] /\ put' = {}
        /\ held' = {} /\ timers' = {} /\ irq' = FALSE
        /\ stored' = {}
        /\ Fault("unloaded code", writer # Nobody)
        /\ UNCHANGED <<files, pending, late>>
  /\ UNCHANGED <<driver, failed, failures, writer>>

-----------------------------------------------------------------------------
(* Beside it *)

HandlerVars == <<loaderVars, sysfsVars, held, timers, irq, writer, late, pastVars>>

\* A handler that runs out of its module, or drives a pin that is not reserved.
HandlerFaults(pin) ==
     fault
  \cup (IF program = "gone" THEN {"unloaded code"} ELSE {})
  \cup (IF program # "gone" /\ pin \notin held THEN {"unreserved pin"} ELSE {})

\* A start bit.  The level test's handler only counts.
Interrupt ==
  /\ irq /\ driver # "level_test"
  /\ pending' = pending \cup {"rx"}
  /\ UNCHANGED <<HandlerVars, stored, fault>>

\* The receiver's timer: it goes on, or the character ends and the guard timer
\* is started; the last one of a datagram stores statuses.
ReceiveBit ==
  /\ "rx" \in pending
  /\ pending' \in {pending, pending \ {"rx"}, (pending \ {"rx"}) \cup {"tx"}}
  /\ stored' \in {stored, stored \cup {s \in {"status"} : program = "load"}}
  /\ fault' = HandlerFaults("rxd")
  /\ UNCHANGED HandlerVars

TransmitBit ==
  /\ "tx" \in pending
  /\ pending' \in {pending, pending \ {"tx"}}
  /\ fault' = HandlerFaults("txd")
  /\ UNCHANGED <<HandlerVars, stored>>

\* sysfs lets nobody into a file that is being removed.
Removing(file) ==
  /\ program \in {"unload", "undo"} /\ at <= Len(Steps)
  /\ step = [do |-> "remove_file", on |-> file]

\* A program calls the function of a file.
Enter ==
  /\ writer = Nobody
  /\ \E file \in files :
       /\ Drives(driver, file)
       /\ ~Removing(file)
       /\ writer' = file
  /\ Fault("unloaded code", program = "gone")
  /\ UNCHANGED <<loaderVars, sysfsVars, pinVars, stored, late, pastVars>>

Cancelled(timer) ==
  /\ program \in {"unload", "undo"}
  /\ \E i \in 1 .. at - 1 : Steps[i] = [do |-> "cancel", on |-> timer]

\* The store: a value that wakes the transmitter, which stops and starts its
\* timer if the bus is idle; or a level put on the line.
Write ==
  /\ writer # Nobody /\ program # "gone"
  /\ \/ /\ driver = "level_test"
        /\ fault' = HandlerFaults("txd")
        /\ UNCHANGED <<pending, stored, late>>
     \/ /\ driver # "level_test"
        /\ \/ /\ pending' = pending \cup ({"tx"} \cap timers)
              /\ late' = (late \/ Cancelled("tx"))
              /\ Fault("uninitialized timer", "tx" \notin timers)
           \/ UNCHANGED <<pending, late, fault>>
        /\ stored' = stored \cup {s \in {"sensors"} :
                         program = "load" /\ writer[1] = "sensors"}
  /\ UNCHANGED <<loaderVars, sysfsVars, held, timers, irq, writer, pastVars>>

\* Mutant of Leave: a command waits until the transmitter runs, however long.
Mutant_Leave ==
  /\ writer # Nobody
  /\ writer[1] = "commands" /\ program # "gone" => "tx" \in pending
  /\ writer' = Nobody
  /\ UNCHANGED <<loaderVars, sysfsVars, pinVars, stored, late, pastVars, fault>>

\* The function returns: a command after the delay of send_command at the
\* latest.
Leave ==
  /\ writer # Nobody
  /\ writer' = Nobody
  /\ UNCHANGED <<loaderVars, sysfsVars, pinVars, stored, late, pastVars, fault>>

-----------------------------------------------------------------------------

Kernel == Fail \/ Acquire \/ Release \/ Finish

Next ==
  \/ Load \/ Unload
  \/ Kernel
  \/ Interrupt \/ ReceiveBit \/ TransmitBit
  \/ Enter \/ Write \/ Leave

Spec == Init /\ [][Next]_vars

\* The kernel goes on with what it began, and a program in a file's function
\* returns from it, which needs nothing else to happen.
FairSpec == Spec /\ WF_vars(Kernel) /\ WF_vars(Leave)

-----------------------------------------------------------------------------
(* Properties *)

TypeOK ==
  /\ driver \in Drivers
  /\ program \in {"gone", "load", "undo", "loaded", "unload"}
  /\ at \in 1 .. Len(Steps) + 1
  /\ failures \in 0 .. MaxFailures
  /\ files \subseteq ToSet(Files(driver))
  /\ put \subseteq Directory
  /\ held \cup leaked \subseteq Pin
  /\ timers \cup pending \subseteq Timer
  /\ writer \in files \cup {Nobody}

\* Whoever may use the interrupt finds everything ready: as long as it is
\* hooked both pins are reserved and both timers can be started.
InterruptBacked == irq => held = Pin /\ timers = Timer

\* What failed in this load.
FailedAt(ops) == failed # 0 /\ InitSteps[driver][failed].do \in ops

\* Nothing calls into a module that is gone, neither a timer nor a file: but for
\* a transmit timer that a file's function started after it had been cancelled,
\* and the files that stay when a pin or the interrupt could not be had.
CodeStays ==
  "unloaded code" \in fault =>
    /\ driver # "level_test"
    /\ late \/ FailedAt({"reserve", "map_irq", "request_irq"})

\* Each pin is freed at most once, but for a failed interrupt.
PinsFreedOnce == "freed twice" \in fault => FailedAt({"map_irq", "request_irq"})

\* A module that goes leaves nothing behind: not when it is unloaded, and not
\* when one of its files could not be created.  (When a pin or the interrupt
\* cannot be had, the tree stays.)
NothingLeft ==
  [][program' = "gone" /\ program # "gone" =>
       /\ ~irq
       /\ held # {} => driver = "level_test" /\ FailedAt({"map_irq"})
       /\ Paths # {} \/ files # {} =>
            driver # "level_test" /\ FailedAt({"reserve", "map_irq", "request_irq"})]_vars

\* An unload, and a cleanup, comes to its end, however the files are used.
CleanupEnds == program \in {"unload", "undo"} ~> program = "gone"

\* When the module says that it is loaded its files are where they are said to
\* be.
FilesInPlace ==
  program = "loaded" /\ driver = "seatalk" =>
    \A dir \in ToSet(RootDirectories) : pointer[dir] = <<"seatalk", dir>>

\* When the module says that its cleanup is complete nothing of it runs.
CleanupComplete == program = "gone" /\ failed = 0 => pending = {}

\* Nothing that is not there is used.
NoFault(what) == what \notin fault
NoPinFreedTwice == NoFault("freed twice")
NoUnreservedPin == NoFault("unreserved pin")
NoUninitializedTimer == NoFault("uninitialized timer")
NoUnloadedCode == NoFault("unloaded code")

\* What is stored as soon as it can be is not wiped by the rest of the load.
NothingWiped == NoFault("wiped")

\* The level test gives its pins back.
NoPinLeaked == leaked = {}

=============================================================================
