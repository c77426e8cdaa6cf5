----------------------- MODULE SeatalkLifecycleProofs -----------------------
(***************************************************************************)
(* Proofs about SeatalkLifecycle, for every choice of the drivers and of   *)
(* what may fail, and for any number of loads.                             *)
(***************************************************************************)
EXTENDS SeatalkLifecycle, SequenceTheorems, TLAPS

-----------------------------------------------------------------------------
(* The invariant.  What a load has acquired is what the steps behind it    *)
(* say; what an unload or a cleanup has not released yet has its release   *)
(* still ahead.                                                            *)

Step(what, thing) == [do |-> what, on |-> thing]

Has(list, s) == \E i \in 1 .. Len(list) : list[i] = s
Behind(s) == \E i \in 1 .. at - 1 : Steps[i] = s
Ahead(s) == \E i \in at .. Len(Steps) : Steps[i] = s

\* Where a pin or the interrupt cannot be had the tree stays.
Unresolved == {"reserve", "map_irq", "request_irq"}
TreeStays == driver # "level_test" /\ FailedAt(Unresolved)
PinsStay == driver = "level_test" /\ FailedAt({"map_irq"})

Shape ==
  /\ pointer = [dir \in Directory |-> pointer[dir]]
  /\ \A dir \in Directory : pointer[dir] # NULL => Has(Directories(driver), dir)
  /\ irq \in BOOLEAN /\ late \in BOOLEAN
  /\ program = "undo" => FailedAt({"create_file"} \cup Unresolved)
  /\ failed \in 0 .. Len(InitSteps[driver])
  /\ program \in {"load", "loaded", "unload"} => failed = 0

\* What the timers that run need
Clocked ==
  /\ driver = "level_test" => pending = {}
  /\ program # "gone" =>
       /\ pending \subseteq timers
       /\ "rx" \in pending => timers = Timer

\* The receiver's timer, which starts the transmitter's, is cancelled first.
BothAhead ==
  \E i, j \in at .. Len(Steps) :
    i < j /\ Steps[i] = Step("cancel", "rx") /\ Steps[j] = Step("cancel", "tx")

Loading ==
  program = "load" =>
    /\ \A pin \in Pin : pin \in held <=> Behind(Step("reserve", pin))
    /\ \A timer \in Timer : timer \in timers <=> Behind(Step("init_timer", timer))
    /\ irq => Behind(Step("request_irq", "rxd"))
    /\ \A file \in files : Behind(Step("create_file", file))

TreeAhead ==
  /\ \A file \in files : Ahead(Step("remove_file", file))
  /\ \A dir \in Directory :
       pointer[dir] # NULL /\ dir \notin put => Ahead(Step("put_dir", dir))

PinsAhead == \A pin \in held : Ahead(Step("free", pin))

Undoing ==
  program = "undo" =>
    /\ ~irq
    /\ TreeStays \/ TreeAhead
    /\ PinsStay \/ PinsAhead
    /\ TreeStays \/ driver = "level_test" \/ timers = {}

Unloading ==
  program = "unload" =>
    /\ TreeAhead /\ PinsAhead
    /\ irq => at = 1
    /\ irq \/ "rx" \in pending => BothAhead
    /\ "tx" \in pending => late \/ Ahead(Step("cancel", "tx"))

Gone ==
  program = "gone" =>
    /\ ~irq /\ held = {} /\ timers = {}
    /\ \A dir \in Directory : pointer[dir] = NULL
    /\ files # {} => TreeStays
    /\ pending # {} => driver # "level_test" /\ (late \/ TreeStays)

LifecycleInv ==
  /\ TypeOK /\ Shape /\ Clocked
  /\ Loading /\ Undoing /\ Unloading /\ Gone
  /\ InterruptBacked /\ CodeStays

-----------------------------------------------------------------------------
(* Lists                                                                   *)

LEMMA ListOfItsElements ==
  ASSUME NEW T, NEW s \in Seq(T)
  PROVE  /\ s \in Seq(ToSet(s))
         /\ \A x \in ToSet(s) : Has(s, x)
         /\ \A i \in 1 .. Len(s) : s[i] \in ToSet(s)
  BY LenProperties DEF ToSet, Has

LEMMA EachProperties ==
  ASSUME NEW T, NEW things \in Seq(T), NEW op, NEW S,
         \A t \in T : Step(op, t) \in S
  PROVE  /\ Each(op, things) \in Seq(S)
         /\ Len(Each(op, things)) = Len(things)
         /\ \A i \in 1 .. Len(things) : Each(op, things)[i] = Step(op, things[i])
         /\ \A t : Has(things, t) => Has(Each(op, things), Step(op, t))
<1>1. DOMAIN things = 1 .. Len(things) /\ Len(things) \in Nat
  BY LenProperties
<1>2. \A i \in 1 .. Len(things) : things[i] \in T
  BY ElementOfSeq
<1> QED
  BY <1>1, <1>2 DEF Each, Step, Has

LEMMA ConcatParts ==
  ASSUME NEW S, NEW s \in Seq(S), NEW t \in Seq(S)
  PROVE  /\ s \o t \in Seq(S)
         /\ Len(s \o t) = Len(s) + Len(t)
         /\ \A i \in 1 .. Len(s) : (s \o t)[i] = s[i]
         /\ \A i \in 1 .. Len(t) : (s \o t)[Len(s) + i] = t[i]
<1>1. Len(s) \in Nat /\ Len(t) \in Nat
  BY LenProperties
<1>2. \A i \in 1 .. Len(t) :
        Len(s) + i \in 1 .. Len(s) + Len(t) /\ ~(Len(s) + i <= Len(s)) /\ Len(s) + i - Len(s) = i
  BY <1>1
<1>3. \A i \in 1 .. Len(s) : i \in 1 .. Len(s) + Len(t) /\ i <= Len(s)
  BY <1>1
<1> QED
  BY <1>2, <1>3, ConcatProperties

LEMMA HasConcat ==
  ASSUME NEW S, NEW s \in Seq(S), NEW t \in Seq(S)
  PROVE  /\ s \o t \in Seq(S)
         /\ Len(s \o t) = Len(s) + Len(t)
         /\ \A x : Has(s \o t, x) <=> Has(s, x) \/ Has(t, x)
<1>1. Len(s) \in Nat /\ Len(t) \in Nat
  BY LenProperties
<1>2. ASSUME NEW x, NEW i \in 1 .. Len(s), s[i] = x PROVE Has(s \o t, x)
  BY <1>1, <1>2, ConcatParts DEF Has
<1>3. ASSUME NEW x, NEW i \in 1 .. Len(t), t[i] = x PROVE Has(s \o t, x)
  <2>1. Len(s) + i \in 1 .. Len(s) + Len(t)
    BY <1>1
  <2> QED
    BY <1>3, <2>1, ConcatParts DEF Has
<1>4. ASSUME NEW x, NEW i \in 1 .. Len(s) + Len(t), (s \o t)[i] = x
      PROVE  Has(s, x) \/ Has(t, x)
  <2>1. CASE i <= Len(s)
    BY <1>1, <1>4, <2>1, ConcatProperties DEF Has
  <2>2. CASE ~(i <= Len(s))
    <3>1. i - Len(s) \in 1 .. Len(t)
      BY <1>1, <2>2
    <3> QED
      BY <1>4, <2>2, <3>1, ConcatProperties DEF Has
  <2> QED
    BY <2>1, <2>2
<1> QED
  BY <1>2, <1>3, <1>4, ConcatProperties DEF Has

LEMMA ReverseProperties ==
  ASSUME NEW S, NEW s \in Seq(S)
  PROVE  /\ Reverse(s) \in Seq(S)
         /\ Len(Reverse(s)) = Len(s)
         /\ \A x : Has(s, x) => Has(Reverse(s), x)
<1>1. Len(s) \in Nat
  BY LenProperties
<1>2. \A i \in 1 .. Len(s) : Len(s) - i + 1 \in 1 .. Len(s) /\ Len(s) - (Len(s) - i + 1) + 1 = i
  BY <1>1
<1>3. \A i \in 1 .. Len(s) : s[i] \in S
  BY ElementOfSeq
<1>4. Reverse(s) \in Seq(S) /\ Len(Reverse(s)) = Len(s)
  BY <1>1, <1>2, <1>3 DEF Reverse
<1>5. \A i \in 1 .. Len(s) : Reverse(s)[Len(s) - i + 1] = s[i]
  BY <1>1, <1>2 DEF Reverse
<1> QED
  BY <1>2, <1>4, <1>5 DEF Has

DirectoryName ==
  { "seatalk", "sensors", "commands", "status", "alarms", "engine_single",
    "engine_port", "engine_starboard", "position", "fix_quality", "navigation",
    "waypoint_position", "gmt_date_and_time", "autopilot" }

LEMMA DirectoryLists ==
  /\ StatusDirectories \in Seq(Directory)
  /\ RootDirectories \in Seq(Directory)
  /\ <<"seatalk">> \in Seq(Directory)
  /\ \A d \in Driver : Directories(d) \in Seq(Directory) /\ Directories(d) # << >>
<1>1. StatusDirectories \in Seq(DirectoryName) /\ RootDirectories \in Seq(DirectoryName)
      /\ <<"seatalk">> \in Seq(DirectoryName) /\ << >> \in Seq(DirectoryName)
  BY DEF StatusDirectories, RootDirectories, DirectoryName
<1>2. RootDirectories \o StatusDirectories \in Seq(DirectoryName)
  BY <1>1, HasConcat
<1>3. ASSUME NEW d \in Driver PROVE Directories(d) \in Seq(DirectoryName)
  BY <1>1, <1>2, HasConcat DEF Directories
<1>4. Directories("seatalk") \in Seq(Directory)
      /\ \A x : Has(Directories("seatalk"), x) => x \in Directory
  BY <1>3, ListOfItsElements DEF Directory, Driver, Has
<1>5. \A x : Has(<<"seatalk">>, x) \/ Has(RootDirectories, x) \/ Has(StatusDirectories, x)
             => x \in Directory
  BY <1>1, <1>2, <1>4, HasConcat DEF Directories
<1>6. ASSUME NEW s \in Seq(DirectoryName), \A x : Has(s, x) => x \in Directory
      PROVE  s \in Seq(Directory)
  <2>1. \A i \in 1 .. Len(s) : s[i] \in Directory
    BY <1>6 DEF Has
  <2> QED
    BY <1>6, <2>1, LenProperties
<1>7. StatusDirectories \in Seq(Directory) /\ RootDirectories \in Seq(Directory)
      /\ <<"seatalk">> \in Seq(Directory)
  BY <1>1, <1>5, <1>6
<1>8. ASSUME NEW d \in Driver, d # "seatalk" PROVE Directories(d) = <<"seatalk">>
  BY <1>1, <1>8, ConcatEmptySeq DEF Directories
<1>9. Len(<<"seatalk">>) = 1
  OBVIOUS
<1>10. \A d \in Driver : Directories(d) # << >>
  BY <1>1, <1>2, <1>8, <1>9, HasConcat, EmptySeq DEF Directories
<1> QED
  BY <1>4, <1>7, <1>8, <1>10

LEMMA NumberedList ==
  ASSUME NEW dir \in DirectoryName, NEW m \in Nat, NEW n \in Nat, m <= n
  PROVE  Numbered(dir, m, n) \in Seq(DirectoryName \X Nat)
<1>1. n - m + 1 \in Nat
  OBVIOUS
<1>2. \A i \in 1 .. n - m + 1 : m + i - 1 \in Nat
  OBVIOUS
<1>3. Numbered(dir, m, n) \in [1 .. n - m + 1 -> DirectoryName \X Nat]
  BY <1>1, <1>2 DEF Numbered
<1> QED
  BY <1>1, <1>3, SeqDef

LEMMA FileLists == \A d \in Driver : Files(d) \in Seq(DirectoryName \X Nat)
<1> DEFINE Lists == Seq(DirectoryName \X Nat)
<1>1. ASSUME NEW n \in Nat PROVE EngineFiles(n) \in Lists
  <2>1. <<"engine_single", n>> \in DirectoryName \X Nat
        /\ <<"engine_port", n>> \in DirectoryName \X Nat
        /\ <<"engine_starboard", n>> \in DirectoryName \X Nat
    BY DEF DirectoryName
  <2> QED
    BY <2>1 DEF EngineFiles
<1>2. \A s, t \in Lists : s \o t \in Lists
  BY ConcatProperties
<1>3. \A dir \in DirectoryName, m, n \in Nat : m <= n => Numbered(dir, m, n) \in Lists
  BY NumberedList
<1> HIDE DEF Lists
<1>4. VFILES \in Lists
  <2>1. /\ Numbered("status", 1, 14) \in Lists /\ Numbered("alarms", 1, 13) \in Lists
        /\ Numbered("position", 1, 6) \in Lists /\ Numbered("fix_quality", 1, 7) \in Lists
        /\ Numbered("navigation", 1, 1) \in Lists
        /\ Numbered("waypoint_position", 1, 6) \in Lists
    BY <1>3 DEF DirectoryName
  <2>2. /\ Numbered("navigation", 2, 5) \in Lists
        /\ Numbered("gmt_date_and_time", 1, 6) \in Lists
        /\ Numbered("autopilot", 1, 2) \in Lists /\ Numbered("sensors", 1, 9) \in Lists
        /\ Numbered("commands", 1, 1) \in Lists
    BY <1>3 DEF DirectoryName
  <2>3. EngineFiles(1) \in Lists /\ EngineFiles(2) \in Lists
    BY <1>1
  <2> QED
    BY <1>2, <2>1, <2>2, <2>3, Zenon DEF VFILES
<1>5. \A d \in Driver : Files(d) \in Lists
  BY <1>3, <1>4 DEF Files, DirectoryName
<1> QED
  BY <1>5 DEF Lists

-----------------------------------------------------------------------------
(* The lists of a load, an unload and a cleanup                            *)

StepOf(d) ==
       [do : {"create_dir", "put_dir"}, on : Directory]
  \cup [do : {"create_file", "remove_file"}, on : ToSet(Files(d))]
  \cup [do : {"reserve", "free"}, on : Pin]
  \cup [do : {"init_timer", "cancel"}, on : Timer]
  \cup [do : {"map_irq", "request_irq", "free_irq"}, on : {"rxd"}]
  \cup [do : {"initialize"}, on : {"status", "sensors"}]

Dirs(d) == Len(Directories(d))
Made(d) == Len(Directories(d)) + Len(Files(d))

LEMMA ListLengths ==
  ASSUME NEW d \in Driver
  PROVE  /\ Dirs(d) \in Nat /\ Len(Files(d)) \in Nat /\ Made(d) \in Nat
         /\ Made(d) = Dirs(d) + Len(Files(d))
  BY DirectoryLists, FileLists, LenProperties DEF Dirs, Made

LEMMA FilesOfTheirOwn ==
  ASSUME NEW d \in Driver
  PROVE  Files(d) \in Seq(ToSet(Files(d)))
  BY FileLists, ListOfItsElements

LEMMA SysfsSteps ==
  ASSUME NEW d \in Driver
  PROVE  /\ init_sysfs(d) \in Seq(StepOf(d))
         /\ Len(init_sysfs(d)) = Made(d)
         /\ \A i \in 1 .. Made(d) :
              init_sysfs(d)[i] = IF i <= Dirs(d)
                                 THEN Step("create_dir", Directories(d)[i])
                                 ELSE Step("create_file", Files(d)[i - Dirs(d)])
<1> DEFINE made == Each("create_dir", Directories(d))
           filed == Each("create_file", Files(d))
<1>1. \A t \in Directory : Step("create_dir", t) \in StepOf(d)
  BY DEF Step, StepOf
<1>2. \A t \in ToSet(Files(d)) : Step("create_file", t) \in StepOf(d)
  BY DEF Step, StepOf
<1>0. Directories(d) \in Seq(Directory) /\ Len(Directories(d)) = Dirs(d)
  BY DirectoryLists DEF Dirs
<1>3. made \in Seq(StepOf(d)) /\ Len(made) = Dirs(d)
  BY <1>0, <1>1, EachProperties
<1>4. filed \in Seq(StepOf(d)) /\ Len(filed) = Len(Files(d))
  BY <1>2, FilesOfTheirOwn, EachProperties
<1>5. \A i \in 1 .. Dirs(d) : made[i] = Step("create_dir", Directories(d)[i])
  <2>1. \A i \in 1 .. Len(Directories(d)) : made[i] = Step("create_dir", Directories(d)[i])
    BY <1>0, <1>1, EachProperties
  <2> QED
    BY <1>0, <2>1
<1>6. \A i \in 1 .. Len(Files(d)) : filed[i] = Step("create_file", Files(d)[i])
  BY <1>2, FilesOfTheirOwn, EachProperties
<1>7. init_sysfs(d) = made \o filed
  BY DEF init_sysfs
<1> HIDE DEF made, filed
<1>8. init_sysfs(d) \in Seq(StepOf(d)) /\ Len(init_sysfs(d)) = Made(d)
  <2>1. init_sysfs(d) \in Seq(StepOf(d)) /\ Len(init_sysfs(d)) = Len(made) + Len(filed)
    BY <1>3, <1>4, <1>7, ConcatProperties
  <2> QED
    BY <1>3, <1>4, <2>1, ListLengths
<1>9. \A i \in 1 .. Made(d) :
        init_sysfs(d)[i] = IF i <= Dirs(d) THEN made[i] ELSE filed[i - Dirs(d)]
  BY <1>3, <1>4, <1>7, ListLengths, ConcatProperties
<1>10. \A i \in 1 .. Made(d) :
         IF i <= Dirs(d) THEN i \in 1 .. Dirs(d) ELSE i - Dirs(d) \in 1 .. Len(Files(d))
  BY ListLengths
<1> QED
  BY <1>5, <1>6, <1>8, <1>9, <1>10

LEMMA HardwareSteps ==
  ASSUME NEW d \in Driver
  PROVE  /\ init_seatalk_hardware_signal \in Seq(StepOf(d))
         /\ Len(init_seatalk_hardware_signal) = 4
         /\ init_seatalk_hardware_signal
              = << Step("reserve", "rxd"), Step("init_timer", "rx"),
                   Step("reserve", "txd"), Step("init_timer", "tx") >>
         /\ init_irq \in Seq(StepOf(d)) /\ Len(init_irq) = 2
         /\ init_irq[1] = Step("map_irq", "rxd")
         /\ init_irq[2] = Step("request_irq", "rxd")
<1> DEFINE S == StepOf(d)
<1>1. /\ Step("reserve", "rxd") \in S /\ Step("reserve", "txd") \in S
      /\ Step("init_timer", "rx") \in S /\ Step("init_timer", "tx") \in S
      /\ Step("map_irq", "rxd") \in S /\ Step("request_irq", "rxd") \in S
  BY DEF Step, StepOf, Pin, Timer
<1> HIDE DEF S
<1>2. init_seatalk_hardware_signal
        = << Step("reserve", "rxd"), Step("init_timer", "rx"),
             Step("reserve", "txd"), Step("init_timer", "tx") >>
  BY DEF init_seatalk_hardware_signal, Step
<1>3. init_seatalk_hardware_signal \in Seq(S) /\ Len(init_seatalk_hardware_signal) = 4
  BY <1>1, <1>2
<1> DEFINE mapped == Each("map_irq", <<"rxd">>)
           requested == Each("request_irq", <<"rxd">>)
<1>4. /\ mapped \in Seq(S) /\ Len(mapped) = 1 /\ mapped[1] = Step("map_irq", "rxd")
      /\ requested \in Seq(S) /\ Len(requested) = 1
      /\ requested[1] = Step("request_irq", "rxd")
  <2>1. ASSUME NEW op PROVE Each(op, <<"rxd">>) = << Step(op, "rxd") >>
    BY DEF Each, Step
  <2>2. mapped = << Step("map_irq", "rxd") >> /\ requested = << Step("request_irq", "rxd") >>
    BY <2>1
  <2> HIDE DEF mapped, requested
  <2> QED
    BY <1>1, <2>2
<1>5. init_irq = mapped \o requested
  BY DEF init_irq
<1> HIDE DEF mapped, requested
<1>6. init_irq \in Seq(S) /\ Len(init_irq) = 2
  BY <1>4, <1>5, ConcatProperties
<1>7. /\ \A i \in 1 .. Len(mapped) : init_irq[i] = mapped[i]
      /\ \A i \in 1 .. Len(requested) : init_irq[Len(mapped) + i] = requested[i]
  <2>1. mapped \in Seq(S) /\ requested \in Seq(S)
    BY <1>4
  <2> QED
    BY <1>5, <2>1, ConcatParts
<1>8. init_irq[1] = Step("map_irq", "rxd") /\ init_irq[2] = Step("request_irq", "rxd")
  BY <1>4, <1>7
<1> QED
  BY <1>2, <1>3, <1>6, <1>8 DEF S

LEMMA LoadSteps ==
  ASSUME NEW d \in Driver
  PROVE  /\ InitSteps[d] \in Seq(StepOf(d))
         /\ Len(InitSteps[d]) \in Nat /\ Made(d) + 6 <= Len(InitSteps[d])
         /\ \A i \in 1 .. Made(d) :
              InitSteps[d][i] = IF i <= Dirs(d)
                                THEN Step("create_dir", Directories(d)[i])
                                ELSE Step("create_file", Files(d)[i - Dirs(d)])
         /\ InitSteps[d][Made(d) + 1] = Step("reserve", "rxd")
         /\ InitSteps[d][Made(d) + 2] = Step("init_timer", "rx")
         /\ InitSteps[d][Made(d) + 3] = Step("reserve", "txd")
         /\ InitSteps[d][Made(d) + 4] = Step("init_timer", "tx")
         /\ InitSteps[d][Made(d) + 5] = Step("map_irq", "rxd")
         /\ InitSteps[d][Made(d) + 6] = Step("request_irq", "rxd")
         /\ \A i \in Made(d) + 7 .. Len(InitSteps[d]) : InitSteps[d][i].do = "initialize"
<1> DEFINE S == StepOf(d)
           tree == init_sysfs(d)
           pins == init_seatalk_hardware_signal
           irqs == init_irq
           rest == IF d = "seatalk" THEN Each("initialize", <<"status", "sensors">>) ELSE << >>
           first == tree \o pins
           second == first \o irqs
           all == second \o rest
<1>1. tree \in Seq(S) /\ Len(tree) = Made(d) /\ Made(d) \in Nat
  BY SysfsSteps, ListLengths
<1>2. pins \in Seq(S) /\ Len(pins) = 4 /\ irqs \in Seq(S) /\ Len(irqs) = 2
  BY HardwareSteps
<1>3. rest \in Seq(S) /\ \A i \in 1 .. Len(rest) : rest[i].do = "initialize"
  <2> DEFINE own == {"status", "sensors"}
             things == <<"status", "sensors">>
             last == Each("initialize", things)
  <2>1. \A t \in own : Step("initialize", t) \in S
    BY DEF Step, StepOf
  <2>2. things \in Seq(own)
    OBVIOUS
  <2> HIDE DEF own, things, S
  <2>3. last \in Seq(S) /\ Len(last) = Len(things)
    BY <2>1, <2>2, EachProperties
  <2>4. \A i \in 1 .. Len(things) : last[i] = Step("initialize", things[i])
    BY <2>1, <2>2, EachProperties
  <2>5. << >> \in Seq(S) /\ Len(<< >>) = 0
    BY EmptySeq
  <2> HIDE DEF S, last
  <2>6. CASE d = "seatalk"
    <3>1. rest = last
      BY <2>6 DEF last, things
    <3>2. \A x : Step("initialize", x).do = "initialize"
      BY DEF Step
    <3>3. \A i \in 1 .. Len(things) : last[i].do = "initialize"
      BY <2>4, <3>2
    <3> QED
      BY <2>3, <3>1, <3>3
  <2>7. CASE d # "seatalk"
    BY <2>5, <2>7
  <2> QED
    BY <2>6, <2>7
<1>4. InitSteps[d] = all
  BY DEF InitSteps, init_seatalk_module
<1> HIDE DEF S, tree, pins, irqs, rest
<1>5. Len(rest) \in Nat
  BY <1>3, LenProperties
<1>6. tree \in Seq(S) /\ pins \in Seq(S) /\ irqs \in Seq(S) /\ rest \in Seq(S)
  BY <1>1, <1>2, <1>3
<1>7. first \in Seq(S) /\ Len(first) = Made(d) + 4
  <2>1. first \in Seq(S) /\ Len(first) = Len(tree) + Len(pins)
    BY <1>6, ConcatProperties
  <2> QED
    BY <1>1, <1>2, <2>1
<1>8. /\ \A i \in 1 .. Len(tree) : first[i] = tree[i]
      /\ \A i \in 1 .. Len(pins) : first[Len(tree) + i] = pins[i]
  BY <1>6, ConcatParts
<1> HIDE DEF first
<1>9. second \in Seq(S) /\ Len(second) = Made(d) + 6
  <2>1. first \in Seq(S)
    BY <1>7
  <2>2. second \in Seq(S) /\ Len(second) = Len(first) + Len(irqs)
    BY <1>6, <2>1, ConcatProperties
  <2> QED
    BY <1>1, <1>2, <1>7, <2>2
<1>10. /\ \A i \in 1 .. Len(first) : second[i] = first[i]
       /\ \A i \in 1 .. Len(irqs) : second[Len(first) + i] = irqs[i]
  <2>1. first \in Seq(S)
    BY <1>7
  <2> QED
    BY <1>6, <2>1, ConcatParts
<1> HIDE DEF second
<1>11. all \in Seq(S) /\ Len(all) = Made(d) + 6 + Len(rest)
  <2>1. second \in Seq(S)
    BY <1>9
  <2>2. all \in Seq(S) /\ Len(all) = Len(second) + Len(rest)
    BY <1>6, <2>1, ConcatProperties
  <2> QED
    BY <1>1, <1>5, <1>9, <2>2
<1>12. /\ \A i \in 1 .. Len(second) : all[i] = second[i]
       /\ \A i \in 1 .. Len(rest) : all[Len(second) + i] = rest[i]
  <2>1. second \in Seq(S)
    BY <1>9
  <2> QED
    BY <1>6, <2>1, ConcatParts
<1> HIDE DEF all
<1>13. \A i \in 1 .. Made(d) : all[i] = tree[i]
  BY <1>1, <1>7, <1>8, <1>9, <1>10, <1>12
<1>14. \A i \in 1 .. 4 : all[Made(d) + i] = pins[i]
  BY <1>1, <1>2, <1>7, <1>8, <1>9, <1>10, <1>12
<1>15. \A i \in 1 .. 2 : all[Made(d) + 4 + i] = irqs[i]
  BY <1>1, <1>2, <1>7, <1>9, <1>10, <1>12
<1>16. \A i \in Made(d) + 7 .. Len(all) : all[i].do = "initialize"
  <2> SUFFICES ASSUME NEW i \in Made(d) + 7 .. Len(all) PROVE all[i].do = "initialize"
    OBVIOUS
  <2>1. i - (Made(d) + 6) \in 1 .. Len(rest) /\ Len(second) + (i - (Made(d) + 6)) = i
    BY <1>1, <1>5, <1>9, <1>11
  <2>2. all[i] = rest[i - (Made(d) + 6)]
    BY <1>12, <2>1
  <2> QED
    BY <1>3, <2>1, <2>2
<1>17. /\ all[Made(d) + 1] = pins[1] /\ all[Made(d) + 2] = pins[2]
       /\ all[Made(d) + 3] = pins[3] /\ all[Made(d) + 4] = pins[4]
  BY <1>14
<1>18. all[Made(d) + 5] = irqs[1] /\ all[Made(d) + 6] = irqs[2]
  <2>1. Made(d) + 4 + 1 = Made(d) + 5 /\ Made(d) + 4 + 2 = Made(d) + 6
    BY <1>1
  <2> QED
    BY <1>15, <2>1
<1>19. /\ pins[1] = Step("reserve", "rxd") /\ pins[2] = Step("init_timer", "rx")
       /\ pins[3] = Step("reserve", "txd") /\ pins[4] = Step("init_timer", "tx")
  BY HardwareSteps DEF pins
<1>20. irqs[1] = Step("map_irq", "rxd") /\ irqs[2] = Step("request_irq", "rxd")
  BY HardwareSteps DEF irqs
<1>21. \A i \in 1 .. Made(d) :
         all[i] = IF i <= Dirs(d) THEN Step("create_dir", Directories(d)[i])
                                  ELSE Step("create_file", Files(d)[i - Dirs(d)])
  BY <1>13, SysfsSteps DEF tree
<1>22. all \in Seq(StepOf(d)) /\ Len(all) \in Nat /\ Made(d) + 6 <= Len(all)
  BY <1>1, <1>5, <1>11 DEF S
<1> QED
  BY <1>4, <1>16, <1>17, <1>18, <1>19, <1>20, <1>21, <1>22

LEMMA LoadPositions ==
  ASSUME NEW d \in Driver, NEW n \in 1 .. Len(InitSteps[d])
  PROVE  /\ InitSteps[d][n].do = "create_dir" <=> n \in 1 .. Dirs(d)
         /\ InitSteps[d][n].do = "create_file" <=> n \in Dirs(d) + 1 .. Made(d)
         /\ InitSteps[d][n].do = "reserve" <=> n \in {Made(d) + 1, Made(d) + 3}
         /\ InitSteps[d][n].do = "init_timer" <=> n \in {Made(d) + 2, Made(d) + 4}
         /\ InitSteps[d][n].do = "map_irq" <=> n = Made(d) + 5
         /\ InitSteps[d][n].do = "request_irq" <=> n = Made(d) + 6
<1> DEFINE list == InitSteps[d]
           what == list[n].do
<1>1. Dirs(d) \in Nat /\ Made(d) \in Nat /\ Dirs(d) <= Made(d) /\ Len(list) \in Nat
  BY ListLengths, LoadSteps
<1>2. \A s, x : Step(s, x).do = s
  BY DEF Step
<1>3. n \in 1 .. Made(d) => what = IF n <= Dirs(d) THEN "create_dir" ELSE "create_file"
  BY <1>2, LoadSteps
<1>4. /\ n \in {Made(d) + 1, Made(d) + 3} => what = "reserve"
      /\ n \in {Made(d) + 2, Made(d) + 4} => what = "init_timer"
      /\ n = Made(d) + 5 => what = "map_irq"
      /\ n = Made(d) + 6 => what = "request_irq"
  BY <1>2, LoadSteps
<1>5. n \in Made(d) + 7 .. Len(list) => what = "initialize"
  BY LoadSteps
<1> HIDE DEF list, what
<1>6. \/ n \in 1 .. Dirs(d)
      \/ n \in Dirs(d) + 1 .. Made(d)
      \/ n \in {Made(d) + 1, Made(d) + 3}
      \/ n \in {Made(d) + 2, Made(d) + 4}
      \/ n = Made(d) + 5 \/ n = Made(d) + 6
      \/ n \in Made(d) + 7 .. Len(list)
  BY <1>1 DEF list
<1>7. /\ what = "create_dir" <=> n \in 1 .. Dirs(d)
      /\ what = "create_file" <=> n \in Dirs(d) + 1 .. Made(d)
      /\ what = "reserve" <=> n \in {Made(d) + 1, Made(d) + 3}
      /\ what = "init_timer" <=> n \in {Made(d) + 2, Made(d) + 4}
      /\ what = "map_irq" <=> n = Made(d) + 5
      /\ what = "request_irq" <=> n = Made(d) + 6
  <2> DEFINE D == Dirs(d)
             M == Made(d)
  <2>1. D \in Nat /\ M \in Nat /\ D <= M /\ n \in Nat /\ n > 0
    BY <1>1
  <2>2. n \in 1 .. D => what = "create_dir"
    BY <1>3, <2>1
  <2>3. n \in D + 1 .. M => what = "create_file"
    BY <1>3, <2>1
  <2> HIDE DEF D, M
  <2>4. CASE n \in 1 .. D
    BY <2>1, <2>2, <2>4 DEF D, M
  <2>5. CASE n \in D + 1 .. M
    BY <2>1, <2>3, <2>5 DEF D, M
  <2>6. CASE n \in {M + 1, M + 3}
    <3>1. what = "reserve"
      BY <1>4, <2>6 DEF M
    <3> QED
      BY <2>1, <2>6, <3>1 DEF D, M
  <2>7. CASE n \in {M + 2, M + 4}
    <3>1. what = "init_timer"
      BY <1>4, <2>7 DEF M
    <3> QED
      BY <2>1, <2>7, <3>1 DEF D, M
  <2>8. CASE n = M + 5 \/ n = M + 6
    <3>1. (n = M + 5 => what = "map_irq") /\ (n = M + 6 => what = "request_irq")
      BY <1>4 DEF M
    <3> QED
      BY <2>1, <2>8, <3>1 DEF D, M
  <2>9. CASE n \in M + 7 .. Len(list)
    <3>1. what = "initialize" /\ n > M + 6
      BY <1>5, <1>1, <2>1, <2>9 DEF M
    <3> QED
      BY <2>1, <3>1 DEF D, M
  <2> QED
    BY <1>6, <2>4, <2>5, <2>6, <2>7, <2>8, <2>9 DEF D, M
<1> QED
  BY <1>7 DEF what, list

\* The directories are all given back, and of the files as many as there are.
LEMMA CleanFromSteps ==
  ASSUME NEW d \in Driver, NEW n \in 0 .. Len(Files(d))
  PROVE  /\ CleanFrom(d, n) \in Seq(StepOf(d))
         /\ \A i \in 1 .. n : Has(CleanFrom(d, n), Step("remove_file", Files(d)[i]))
         /\ \A dir : Has(Directories(d), dir) => Has(CleanFrom(d, n), Step("put_dir", dir))
<1> DEFINE S == StepOf(d)
           taken == SubSeq(Files(d), 1, n)
           removed == Each("remove_file", Reverse(taken))
           given == Each("put_dir", Reverse(Directories(d)))
<1>1. Len(Files(d)) \in Nat
  BY ListLengths
<1>2. \A i \in 1 .. n : Files(d)[i] \in ToSet(Files(d))
  <2>1. \A i \in 1 .. n : i \in 1 .. Len(Files(d))
    BY <1>1
  <2> QED
    BY <2>1, FilesOfTheirOwn, ElementOfSeq
<1>3. taken \in Seq(ToSet(Files(d))) /\ Len(taken) = n
  BY <1>1, <1>2, SubSeqProperties
<1>4. \A i \in 1 .. n : taken[i] = Files(d)[i]
  BY <1>1, <1>2, SubSeqProperties
<1>5. \A i \in 1 .. n : Has(taken, Files(d)[i])
  BY <1>3, <1>4 DEF Has
<1>6. \A t \in ToSet(Files(d)) : Step("remove_file", t) \in S
  BY DEF Step, StepOf
<1>7. \A t \in Directory : Step("put_dir", t) \in S
  BY DEF Step, StepOf
<1> HIDE DEF S, taken
<1>8. Reverse(taken) \in Seq(ToSet(Files(d))) /\ \A x : Has(taken, x) => Has(Reverse(taken), x)
  BY <1>3, ReverseProperties
<1>9. removed \in Seq(S) /\ \A x : Has(Reverse(taken), x) => Has(removed, Step("remove_file", x))
  BY <1>6, <1>8, EachProperties
<1>10. Directories(d) \in Seq(Directory)
  BY DirectoryLists
<1>11. /\ Reverse(Directories(d)) \in Seq(Directory)
       /\ \A x : Has(Directories(d), x) => Has(Reverse(Directories(d)), x)
  BY <1>10, ReverseProperties
<1>12. given \in Seq(S) /\ \A x : Has(Reverse(Directories(d)), x) => Has(given, Step("put_dir", x))
  BY <1>7, <1>11, EachProperties
<1>13. CleanFrom(d, n) = removed \o given
  BY DEF CleanFrom, taken
<1> HIDE DEF removed, given
<1>14. removed \in Seq(S) /\ given \in Seq(S)
  BY <1>9, <1>12
<1>15. /\ removed \o given \in Seq(S)
       /\ \A x : Has(removed, x) \/ Has(given, x) => Has(removed \o given, x)
  BY <1>14, HasConcat
<1>16. CleanFrom(d, n) \in Seq(StepOf(d))
  BY <1>13, <1>15 DEF S
<1>17. \A i \in 1 .. n : Has(CleanFrom(d, n), Step("remove_file", Files(d)[i]))
  BY <1>5, <1>8, <1>9, <1>13, <1>15
<1>18. \A dir : Has(Directories(d), dir) => Has(CleanFrom(d, n), Step("put_dir", dir))
  BY <1>11, <1>12, <1>13, <1>15
<1> QED
  BY <1>16, <1>17, <1>18

\* What a list of releases gives back of the tree, and of the pins.
CoversTree(list, d) ==
  /\ \A file \in ToSet(Files(d)) : Has(list, Step("remove_file", file))
  /\ \A dir : Has(Directories(d), dir) => Has(list, Step("put_dir", dir))
CoversPins(list) == \A pin \in Pin : Has(list, Step("free", pin))

LEMMA ExitSysfsSteps ==
  ASSUME NEW d \in Driver
  PROVE  exit_sysfs(d) \in Seq(StepOf(d)) /\ CoversTree(exit_sysfs(d), d)
<1>1. CASE d = "seatalk"
  <2> DEFINE S == StepOf(d)
             removed == Each("remove_file", VFILES)
             inner == StatusDirectories \o RootDirectories
             outwards == inner \o <<"seatalk">>
             given == Each("put_dir", outwards)
  <2>1. VFILES = Files(d)
    BY <1>1 DEF Files
  <2>2. VFILES \in Seq(ToSet(Files(d)))
    BY <2>1, FilesOfTheirOwn
  <2>3. \A t \in ToSet(Files(d)) : Step("remove_file", t) \in S
    BY DEF Step, StepOf
  <2>4. \A t \in Directory : Step("put_dir", t) \in S
    BY DEF Step, StepOf
  <2>5. /\ inner \in Seq(Directory)
        /\ \A x : Has(inner, x) <=> Has(StatusDirectories, x) \/ Has(RootDirectories, x)
    BY DirectoryLists, HasConcat
  <2>6. /\ outwards \in Seq(Directory)
        /\ \A x : Has(outwards, x) <=> Has(inner, x) \/ Has(<<"seatalk">>, x)
    BY <2>5, DirectoryLists, HasConcat
  <2>7. \A x : Has(Directories(d), x) => Has(outwards, x)
    <3> DEFINE down == RootDirectories \o StatusDirectories
    <3>1. Directories(d) = <<"seatalk">> \o down
      BY <1>1 DEF Directories
    <3>2. /\ down \in Seq(Directory)
          /\ \A x : Has(down, x) <=> Has(RootDirectories, x) \/ Has(StatusDirectories, x)
      BY DirectoryLists, HasConcat
    <3>3. \A x : Has(<<"seatalk">> \o down, x) <=> Has(<<"seatalk">>, x) \/ Has(down, x)
      BY <3>2, DirectoryLists, HasConcat
    <3> QED
      BY <2>5, <2>6, <3>1, <3>2, <3>3
  <2> HIDE DEF S, inner, outwards
  <2>8. removed \in Seq(S) /\ \A x : Has(VFILES, x) => Has(removed, Step("remove_file", x))
    BY <2>2, <2>3, EachProperties
  <2>9. given \in Seq(S) /\ \A x : Has(outwards, x) => Has(given, Step("put_dir", x))
    BY <2>4, <2>6, EachProperties
  <2>10. exit_sysfs(d) = removed \o given
    BY <1>1 DEF exit_sysfs, outwards, inner
  <2> HIDE DEF removed, given
  <2>11. removed \in Seq(S) /\ given \in Seq(S)
    BY <2>8, <2>9
  <2>12. /\ removed \o given \in Seq(S)
         /\ \A x : Has(removed, x) \/ Has(given, x) => Has(removed \o given, x)
    BY <2>11, HasConcat
  <2>13. \A file \in ToSet(Files(d)) : Has(VFILES, file)
    BY <2>1, FileLists, ListOfItsElements
  <2>14. CoversTree(removed \o given, d)
    BY <2>7, <2>8, <2>9, <2>12, <2>13 DEF CoversTree
  <2> QED
    BY <2>10, <2>12, <2>14 DEF S
<1>2. CASE d # "seatalk"
  <2>1. Files(d) = [i \in 1 .. 2 |-> <<"seatalk", i>>]
    BY <1>2 DEF Files, Numbered
  <2>2. Len(Files(d)) = 2 /\ DOMAIN Files(d) = 1 .. 2
    BY <2>1
  <2>3. exit_sysfs(d) = CleanFrom(d, 2)
    BY <1>2 DEF exit_sysfs
  <2>4. /\ CleanFrom(d, 2) \in Seq(StepOf(d))
        /\ \A i \in 1 .. 2 : Has(CleanFrom(d, 2), Step("remove_file", Files(d)[i]))
        /\ \A dir : Has(Directories(d), dir) => Has(CleanFrom(d, 2), Step("put_dir", dir))
    <3>1. 2 \in 0 .. Len(Files(d))
      BY <2>2
    <3> QED
      BY <3>1, CleanFromSteps
  <2>5. \A file \in ToSet(Files(d)) : \E i \in 1 .. 2 : file = Files(d)[i]
    BY <2>2 DEF ToSet
  <2> QED
    BY <2>3, <2>4, <2>5 DEF CoversTree
<1> QED
  BY <1>1, <1>2

LEMMA FreePinsSteps ==
  ASSUME NEW d \in Driver
  PROVE  /\ FreePins \in Seq(StepOf(d)) /\ CoversPins(FreePins) /\ Len(FreePins) = 2
         /\ exit_seatalk_hardware_signal \in Seq(StepOf(d))
         /\ CoversPins(exit_seatalk_hardware_signal)
         /\ Len(exit_seatalk_hardware_signal) = 4
         /\ exit_seatalk_hardware_signal[3] = Step("cancel", "rx")
         /\ exit_seatalk_hardware_signal[4] = Step("cancel", "tx")
<1> DEFINE S == StepOf(d)
           cancels == Each("cancel", <<"rx", "tx">>)
<1>1. /\ Step("free", "txd") \in S /\ Step("free", "rxd") \in S
      /\ Step("cancel", "rx") \in S /\ Step("cancel", "tx") \in S
  BY DEF Step, StepOf, Pin, Timer
<1> HIDE DEF S
<1>2. FreePins = << Step("free", "txd"), Step("free", "rxd") >>
  BY DEF FreePins, Each, Step
<1>3. cancels = << Step("cancel", "rx"), Step("cancel", "tx") >>
  BY DEF Each, Step
<1>4. FreePins \in Seq(S) /\ Len(FreePins) = 2
  BY <1>1, <1>2
<1>5. CoversPins(FreePins)
  BY <1>2 DEF CoversPins, Has, Pin
<1>6. exit_seatalk_hardware_signal = FreePins \o cancels
  BY DEF exit_seatalk_hardware_signal
<1> HIDE DEF cancels
<1>7. cancels \in Seq(S) /\ Len(cancels) = 2
  BY <1>1, <1>3
<1>8. FreePins \in Seq(S) /\ cancels \in Seq(S)
  BY <1>4, <1>7
<1>9. /\ FreePins \o cancels \in Seq(S) /\ Len(FreePins \o cancels) = Len(FreePins) + Len(cancels)
      /\ \A x : Has(FreePins, x) \/ Has(cancels, x) => Has(FreePins \o cancels, x)
  BY <1>8, HasConcat
<1>10. \A i \in 1 .. Len(cancels) : (FreePins \o cancels)[Len(FreePins) + i] = cancels[i]
  BY <1>8, ConcatParts
<1>11. (FreePins \o cancels)[3] = cancels[1] /\ (FreePins \o cancels)[4] = cancels[2]
  BY <1>4, <1>7, <1>10
<1>12. cancels[1] = Step("cancel", "rx") /\ cancels[2] = Step("cancel", "tx")
  BY <1>3
<1>13. CoversPins(FreePins \o cancels)
  BY <1>5, <1>9 DEF CoversPins
<1>14. Len(FreePins \o cancels) = 4
  BY <1>4, <1>7, <1>9
<1> QED
  BY <1>4, <1>5, <1>6, <1>9, <1>11, <1>12, <1>13, <1>14 DEF S

LEMMA UnloadSteps ==
  ASSUME NEW d \in Driver
  PROVE  /\ ExitSteps[d] \in Seq(StepOf(d)) /\ Len(ExitSteps[d]) \in Nat /\ 5 <= Len(ExitSteps[d])
         /\ ExitSteps[d][1] = Step("free_irq", "rxd")
         /\ ExitSteps[d][4] = Step("cancel", "rx")
         /\ ExitSteps[d][5] = Step("cancel", "tx")
         /\ CoversTree(ExitSteps[d], d) /\ CoversPins(ExitSteps[d])
<1> DEFINE S == StepOf(d)
           irqs == exit_irq
           pins == exit_seatalk_hardware_signal
           tree == exit_sysfs(d)
           first == irqs \o pins
           all == first \o tree
<1>1. irqs = << Step("free_irq", "rxd") >>
  BY DEF exit_irq, Each, Step
<1>2. Step("free_irq", "rxd") \in S
  BY DEF StepOf, Step
<1>3. pins \in Seq(S) /\ CoversPins(pins) /\ Len(pins) = 4
  BY FreePinsSteps
<1>4. pins[3] = Step("cancel", "rx") /\ pins[4] = Step("cancel", "tx")
  BY FreePinsSteps
<1>5. tree \in Seq(S) /\ CoversTree(tree, d)
  BY ExitSysfsSteps
<1>6. ExitSteps[d] = all
  BY DEF ExitSteps, exit_seatalk_module
<1> HIDE DEF S, irqs, pins, tree
<1>7. irqs \in Seq(S) /\ Len(irqs) = 1
  BY <1>1, <1>2
<1>8. irqs \in Seq(S) /\ pins \in Seq(S) /\ tree \in Seq(S)
  BY <1>3, <1>5, <1>7
<1>9. /\ first \in Seq(S) /\ Len(first) = Len(irqs) + Len(pins)
      /\ \A x : Has(irqs, x) \/ Has(pins, x) => Has(first, x)
  BY <1>8, HasConcat
<1>10. /\ \A i \in 1 .. Len(irqs) : first[i] = irqs[i]
       /\ \A i \in 1 .. Len(pins) : first[Len(irqs) + i] = pins[i]
  BY <1>8, ConcatParts
<1> HIDE DEF first
<1>11. first \in Seq(S)
  BY <1>9
<1>12. /\ all \in Seq(S) /\ Len(all) = Len(first) + Len(tree)
       /\ \A x : Has(first, x) \/ Has(tree, x) => Has(all, x)
  BY <1>8, <1>11, HasConcat
<1>13. \A i \in 1 .. Len(first) : all[i] = first[i]
  BY <1>8, <1>11, ConcatParts
<1> HIDE DEF all
<1>14. Len(first) = 5
  BY <1>3, <1>7, <1>9
<1>15. all[1] = irqs[1] /\ all[4] = pins[3] /\ all[5] = pins[4]
  BY <1>3, <1>7, <1>10, <1>13, <1>14
<1>16. irqs[1] = Step("free_irq", "rxd")
  BY <1>1
<1>17. CoversTree(all, d) /\ CoversPins(all)
  BY <1>3, <1>5, <1>9, <1>12 DEF CoversTree, CoversPins
<1>18. Len(tree) \in Nat
  BY <1>8, LenProperties
<1>19. Len(all) \in Nat /\ 5 <= Len(all)
  BY <1>12, <1>14, <1>18
<1>20. all \in Seq(StepOf(d))
  BY <1>12 DEF S
<1> QED
  BY <1>4, <1>6, <1>15, <1>16, <1>17, <1>19, <1>20

\* What follows the failure of the n-th step of a load
LEMMA UndoSteps ==
  ASSUME NEW d \in Driver, NEW n \in 1 .. Len(InitSteps[d])
  PROVE  LET list == CleanupSteps[d][n]
             what == InitSteps[d][n].do
         IN  /\ list \in Seq(StepOf(d)) /\ Len(list) \in Nat
             /\ what = "create_file" =>
                  /\ \A i \in Dirs(d) + 1 .. n :
                       Has(list, Step("remove_file", Files(d)[i - Dirs(d)]))
                  /\ \A dir : Has(Directories(d), dir) => Has(list, Step("put_dir", dir))
             /\ what \in Unresolved /\ d = "level_test" => CoversTree(list, d)
             /\ what = "reserve" /\ n = Made(d) + 3 => Has(list, Step("free", "rxd"))
             /\ what = "map_irq" /\ d # "level_test" => CoversPins(list)
             /\ what = "request_irq" => CoversPins(list)
<1> DEFINE list == CleanupSteps[d][n]
           what == InitSteps[d][n].do
           S == StepOf(d)
           tree == exit_sysfs(d)
           pins == exit_seatalk_hardware_signal
<1>1. DOMAIN InitSteps[d] = 1 .. Len(InitSteps[d])
  BY LoadSteps, LenProperties
<1>2. list = Cleanup(d, n)
  BY <1>1 DEF CleanupSteps
<1>3. InitSteps[d] = init_seatalk_module(d)
  BY DEF InitSteps
<1>4. << >> \in Seq(S)
  BY EmptySeq
<1>5. /\ tree \in Seq(S) /\ CoversTree(tree, d)
      /\ pins \in Seq(S) /\ CoversPins(pins)
      /\ FreePins \in Seq(S) /\ CoversPins(FreePins)
  BY ExitSysfsSteps, FreePinsSteps
<1>6. /\ FreePins \o pins \in Seq(S)
      /\ \A x : Has(FreePins, x) \/ Has(pins, x) => Has(FreePins \o pins, x)
  BY <1>5, HasConcat
<1>7. /\ pins \o tree \in Seq(S)
      /\ \A x : Has(pins, x) \/ Has(tree, x) => Has(pins \o tree, x)
  BY <1>5, HasConcat
<1> HIDE DEF S, tree, pins, list
<1>8. list \in Seq(S) =>  list \in Seq(StepOf(d)) /\ Len(list) \in Nat
  BY LenProperties DEF S
<1>9. CASE what = "create_file"
  <2>1. n \in Dirs(d) + 1 .. Made(d) /\ Dirs(d) \in Nat /\ Made(d) = Dirs(d) + Len(Files(d))
        /\ Len(Files(d)) \in Nat
    BY <1>9, LoadPositions, ListLengths
  <2>2. n - Dirs(d) \in 0 .. Len(Files(d))
    BY <2>1
  <2>3. list = CleanFrom(d, n - Dirs(d))
    BY <1>2, <1>3, <1>9 DEF Cleanup, Dirs
  <2>4. \A i \in Dirs(d) + 1 .. n : i - Dirs(d) \in 1 .. n - Dirs(d)
    BY <2>1
  <2>5. /\ list \in Seq(S)
        /\ \A i \in 1 .. n - Dirs(d) : Has(list, Step("remove_file", Files(d)[i]))
        /\ \A dir : Has(Directories(d), dir) => Has(list, Step("put_dir", dir))
    BY <2>2, <2>3, CleanFromSteps DEF S
  <2> QED
    BY <1>8, <1>9, <2>4, <2>5 DEF Unresolved, list
<1>10. CASE what = "reserve"
  <2> DEFINE pin == InitSteps[d][n].on
             own == IF pin = "txd" THEN Each("free", <<"rxd">>) ELSE << >>
             rest == IF d = "level_test" THEN exit_sysfs(d) ELSE << >>
  <2>1. list = own \o rest
    BY <1>2, <1>3, <1>10 DEF Cleanup, SignalCleanup
  <2>2. Each("free", <<"rxd">>) = << Step("free", "rxd") >>
    BY DEF Each, Step
  <2>3. Step("free", "rxd") \in S
    BY DEF S, StepOf, Step, Pin
  <2>4. << Step("free", "rxd") >> \in Seq(S) /\ Has(<< Step("free", "rxd") >>, Step("free", "rxd"))
    BY <2>3 DEF Has
  <2>5. own \in Seq(S) /\ (pin = "txd" => Has(own, Step("free", "rxd")))
    BY <1>4, <2>2, <2>4
  <2>6. rest \in Seq(S) /\ (d = "level_test" => CoversTree(rest, d))
    BY <1>4, <1>5 DEF tree
  <2>7. n = Made(d) + 3 => pin = "txd"
    BY LoadSteps DEF Step
  <2> HIDE DEF own, rest, pin
  <2>8. list \in Seq(S) /\ \A x : Has(own, x) \/ Has(rest, x) => Has(list, x)
    BY <2>1, <2>5, <2>6, HasConcat
  <2>9. d = "level_test" => CoversTree(list, d)
    BY <2>6, <2>8 DEF CoversTree
  <2> QED
    BY <1>8, <1>10, <2>5, <2>7, <2>8, <2>9 DEF list
<1>11. CASE what \in {"map_irq", "request_irq"} /\ d # "level_test"
  <2>1. list = FreePins \o pins
    <3>1. list = IrqCleanup(d, what)
      BY <1>2, <1>3, <1>11 DEF Cleanup
    <3>2. \A op : IrqCleanup(d, op) = FreePins \o pins
      BY <1>11 DEF IrqCleanup, pins
    <3> QED
      BY <3>1, <3>2
  <2>2. CoversPins(list)
    BY <1>5, <1>6, <2>1 DEF CoversPins
  <2> QED
    BY <1>6, <1>8, <1>11, <2>1, <2>2 DEF list
<1>12. CASE what = "map_irq" /\ d = "level_test"
  <2>1. list = tree
    BY <1>2, <1>3, <1>12 DEF Cleanup, IrqCleanup, tree
  <2> QED
    BY <1>5, <1>8, <1>12, <2>1 DEF list
<1>13. CASE what = "request_irq" /\ d = "level_test"
  <2>1. list = pins \o tree
    BY <1>2, <1>3, <1>13 DEF Cleanup, IrqCleanup, pins, tree
  <2>2. CoversPins(list) /\ CoversTree(list, d)
    BY <1>5, <1>7, <2>1 DEF CoversPins, CoversTree
  <2> QED
    BY <1>7, <1>8, <1>13, <2>1, <2>2 DEF list
<1>14. CASE what \notin {"create_file"} \cup Unresolved
  <2>1. list = << >>
    BY <1>2, <1>3, <1>14 DEF Cleanup, Unresolved
  <2> QED
    BY <1>4, <1>8, <1>14, <2>1 DEF list, Unresolved
<1> QED
  BY <1>9, <1>10, <1>11, <1>12, <1>13, <1>14 DEF Unresolved

-----------------------------------------------------------------------------
(* The invariant is inductive: first what runs beside the kernel's thread  *)

LEMMA StepsInReach ==
  ASSUME TypeOK, Shape
  PROVE  /\ driver \in Driver
         /\ Steps \in Seq(StepOf(driver)) /\ Len(Steps) \in Nat
         /\ program = "load" => Steps = InitSteps[driver]
         /\ program = "unload" => Steps = ExitSteps[driver]
         /\ program = "undo" =>
              /\ failed \in 1 .. Len(InitSteps[driver])
              /\ Steps = CleanupSteps[driver][failed]
         /\ program \in {"loaded", "gone"} => Len(Steps) = 0
<1>1. driver \in Driver
  BY LifecycleAssumption DEF TypeOK
<1>2. CASE program = "load"
  BY <1>1, <1>2, LoadSteps DEF Steps
<1>3. CASE program = "unload"
  BY <1>1, <1>3, UnloadSteps DEF Steps
<1>4. CASE program = "undo"
  <2>1. Steps = CleanupSteps[driver][failed]
    BY <1>4 DEF Steps
  <2>2. Len(InitSteps[driver]) \in Nat
    BY <1>1, LoadSteps
  <2>3. failed \in 1 .. Len(InitSteps[driver])
    BY <1>4, <2>2 DEF Shape, FailedAt
  <2> QED
    BY <1>1, <1>4, <2>1, <2>3, UndoSteps
<1>5. CASE program \in {"loaded", "gone"}
  <2>1. Steps = << >>
    BY <1>5 DEF Steps
  <2> QED
    BY <1>1, <1>5, <2>1, EmptySeq
<1> QED
  BY <1>2, <1>3, <1>4, <1>5 DEF TypeOK

\* What no handler and no program changes
Still == UNCHANGED <<loaderVars, sysfsVars, held, timers, irq, pastVars>>

LEMMA StillSteps ==
  ASSUME Still
  PROVE  /\ Steps' = Steps
         /\ \A s : (Ahead(s)' <=> Ahead(s)) /\ (Behind(s)' <=> Behind(s))
         /\ BothAhead' <=> BothAhead
         /\ \A ops : FailedAt(ops)' <=> FailedAt(ops)
         /\ (TreeStays' <=> TreeStays) /\ (PinsStay' <=> PinsStay)
         /\ (TreeAhead' <=> TreeAhead) /\ (PinsAhead' <=> PinsAhead)
<1>1. /\ driver' = driver /\ program' = program /\ at' = at /\ failed' = failed
      /\ pointer' = pointer /\ put' = put /\ files' = files /\ held' = held
  BY DEF Still, loaderVars, sysfsVars
<1>2. Steps' = Steps
  BY <1>1 DEF Steps
<1>3. \A s : (Ahead(s)' <=> Ahead(s)) /\ (Behind(s)' <=> Behind(s))
  BY <1>1, <1>2 DEF Ahead, Behind
<1>4. (\A ops : FailedAt(ops)' <=> FailedAt(ops)) /\ (BothAhead' <=> BothAhead)
  BY <1>1, <1>2 DEF FailedAt, BothAhead
<1>5. (TreeStays' <=> TreeStays) /\ (PinsStay' <=> PinsStay)
  BY <1>1, <1>4 DEF TreeStays, PinsStay
<1>6. (TreeAhead' <=> TreeAhead) /\ (PinsAhead' <=> PinsAhead)
  BY <1>1, <1>3 DEF TreeAhead, PinsAhead
<1> QED
  BY <1>2, <1>3, <1>4, <1>5, <1>6

\* What is left to show of a step beside the kernel's thread
BesideKept ==
  /\ writer' \in files \cup {Nobody}
  /\ late \in BOOLEAN => late' \in BOOLEAN
  /\ pending' \subseteq Timer
  /\ Clocked'
  /\ program = "unload" =>
       /\ irq \/ "rx" \in pending' => BothAhead
       /\ "tx" \in pending' => late' \/ Ahead(Step("cancel", "tx"))
  /\ program = "gone" /\ pending' # {} => driver # "level_test" /\ (late' \/ TreeStays)
  /\ CodeStays'

LEMMA BesideStep ==
  ASSUME LifecycleInv, Still, BesideKept
  PROVE  LifecycleInv'
<1>1. /\ driver' = driver /\ program' = program /\ at' = at /\ failed' = failed
      /\ failures' = failures /\ pointer' = pointer /\ put' = put /\ files' = files
      /\ held' = held /\ timers' = timers /\ irq' = irq /\ leaked' = leaked
  BY DEF Still, loaderVars, sysfsVars, pastVars
<1>2. TypeOK'
  BY <1>1, StillSteps DEF LifecycleInv, TypeOK, BesideKept
<1>3. Shape'
  BY <1>1, StillSteps DEF LifecycleInv, Shape, BesideKept
<1>4. Loading'
  BY <1>1, StillSteps DEF LifecycleInv, Loading
<1>5. Undoing'
  BY <1>1, StillSteps DEF LifecycleInv, Undoing
<1>6. Unloading'
  BY <1>1, StillSteps DEF LifecycleInv, Unloading, BesideKept
<1>7. Gone'
  BY <1>1, StillSteps DEF LifecycleInv, Gone, BesideKept
<1>8. InterruptBacked'
  BY <1>1 DEF LifecycleInv, InterruptBacked
<1> QED
  BY <1>2, <1>3, <1>4, <1>5, <1>6, <1>7, <1>8 DEF LifecycleInv, BesideKept

LEMMA CancelledOrAhead ==
  ASSUME TypeOK, Shape, program = "unload"
  PROVE  Cancelled("tx") \/ Ahead(Step("cancel", "tx"))
<1>1. driver \in Driver /\ Steps = ExitSteps[driver] /\ Len(Steps) \in Nat
  BY StepsInReach
<1>2. Steps[5] = Step("cancel", "tx") /\ 5 <= Len(Steps)
  BY <1>1, UnloadSteps
<1>3. at \in 1 .. Len(Steps) + 1
  BY DEF TypeOK
<1>4. 5 \in 1 .. at - 1 \/ 5 \in at .. Len(Steps)
  BY <1>1, <1>2, <1>3
<1> QED
  BY <1>2, <1>4 DEF Ahead, Cancelled, Step

\* The fault that CodeStays is about is only added by a step that the rest of the
\* invariant rules out where it matters.
LEMMA FaultExcused ==
  ASSUME LifecycleInv, Still, late => late',
         "unloaded code" \in fault' =>
           "unloaded code" \in fault \/ (driver # "level_test" /\ (late \/ TreeStays))
  PROVE  CodeStays'
<1>1. driver' = driver /\ \A ops : FailedAt(ops)' <=> FailedAt(ops)
  BY StillSteps DEF Still, loaderVars
<1>2. SUFFICES ASSUME "unloaded code" \in fault'
               PROVE  driver # "level_test" /\ (late' \/ FailedAt(Unresolved))
  BY <1>1 DEF CodeStays, Unresolved
<1> QED
  BY <1>2 DEF LifecycleInv, CodeStays, TreeStays, Unresolved

LEMMA InterruptStep == LifecycleInv /\ Interrupt => LifecycleInv'
<1> SUFFICES ASSUME LifecycleInv, Interrupt PROVE LifecycleInv'
  OBVIOUS
<1>1. /\ irq /\ driver # "level_test" /\ pending' = pending \cup {"rx"}
      /\ Still /\ late' = late /\ fault' = fault /\ writer' = writer
      /\ program' = program /\ driver' = driver /\ timers' = timers
  BY DEF Interrupt, HandlerVars, Still, loaderVars
<1>2. program # "gone" /\ timers = Timer
  BY <1>1 DEF LifecycleInv, Gone, InterruptBacked
<1>3. Clocked'
  BY <1>1, <1>2 DEF LifecycleInv, Clocked, Timer
<1>4. CodeStays'
  BY <1>1, FaultExcused
<1>5. pending' \subseteq Timer
  BY <1>1 DEF LifecycleInv, TypeOK, Timer
<1>6. BesideKept
  BY <1>1, <1>2, <1>3, <1>4, <1>5 DEF BesideKept, LifecycleInv, TypeOK, Unloading
<1> QED
  BY <1>1, <1>6, BesideStep

LEMMA ReceiveBitStep == LifecycleInv /\ ReceiveBit => LifecycleInv'
<1> SUFFICES ASSUME LifecycleInv, ReceiveBit PROVE LifecycleInv'
  OBVIOUS
<1>1. /\ "rx" \in pending
      /\ pending' \in {pending, pending \ {"rx"}, (pending \ {"rx"}) \cup {"tx"}}
      /\ fault' = HandlerFaults("rxd")
      /\ Still /\ late' = late /\ writer' = writer
      /\ program' = program /\ driver' = driver /\ timers' = timers
  BY DEF ReceiveBit, HandlerVars, Still, loaderVars
<1>2. driver # "level_test" /\ (program # "gone" => timers = Timer)
  BY <1>1 DEF LifecycleInv, Clocked
<1>3. pending' \subseteq pending \cup {"tx"}
  BY <1>1
<1>4. Clocked'
  BY <1>1, <1>2, <1>3 DEF LifecycleInv, Clocked, Timer
<1>5. program = "gone" => late \/ TreeStays
  BY <1>1 DEF LifecycleInv, Gone
<1>6. CodeStays'
  BY <1>1, <1>2, <1>5, FaultExcused DEF HandlerFaults
<1>7. pending' \subseteq Timer
  BY <1>3 DEF LifecycleInv, TypeOK, Timer
<1>8. program = "unload" => BothAhead /\ Ahead(Step("cancel", "tx"))
  BY <1>1 DEF LifecycleInv, Unloading, BothAhead, Ahead
<1>9. BesideKept
  BY <1>1, <1>2, <1>3, <1>4, <1>5, <1>6, <1>7, <1>8
     DEF BesideKept, LifecycleInv, TypeOK, Unloading
<1> QED
  BY <1>1, <1>9, BesideStep

LEMMA TransmitBitStep == LifecycleInv /\ TransmitBit => LifecycleInv'
<1> SUFFICES ASSUME LifecycleInv, TransmitBit PROVE LifecycleInv'
  OBVIOUS
<1>1. /\ "tx" \in pending /\ pending' \subseteq pending
      /\ fault' = HandlerFaults("txd")
      /\ Still /\ late' = late /\ writer' = writer
      /\ program' = program /\ driver' = driver /\ timers' = timers
  BY DEF TransmitBit, HandlerVars, Still, loaderVars
<1>2. driver # "level_test" /\ (program = "gone" => late \/ TreeStays)
  BY <1>1 DEF LifecycleInv, Clocked, Gone
<1>3. Clocked'
  BY <1>1 DEF LifecycleInv, Clocked
<1>4. CodeStays'
  BY <1>1, <1>2, FaultExcused DEF HandlerFaults
<1>5. BesideKept
  BY <1>1, <1>2, <1>3, <1>4 DEF BesideKept, LifecycleInv, TypeOK, Unloading, Gone
<1> QED
  BY <1>1, <1>5, BesideStep

LEMMA EnterStep == LifecycleInv /\ Enter => LifecycleInv'
<1> SUFFICES ASSUME LifecycleInv, Enter PROVE LifecycleInv'
  OBVIOUS
<1>1. /\ writer' \in files
      /\ fault' = IF program = "gone" THEN fault \cup {"unloaded code"} ELSE fault
      /\ Still /\ late' = late /\ pending' = pending
      /\ program' = program /\ driver' = driver /\ timers' = timers
  BY DEF Enter, Fault, Still, loaderVars, pinVars
<1>2. program = "gone" => TreeStays
  BY <1>1 DEF LifecycleInv, Gone
<1>3. Clocked'
  BY <1>1 DEF LifecycleInv, Clocked
<1>4. CodeStays'
  BY <1>1, <1>2, FaultExcused DEF TreeStays
<1>5. BesideKept
  BY <1>1, <1>3, <1>4 DEF BesideKept, LifecycleInv, TypeOK, Unloading, Gone
<1> QED
  BY <1>1, <1>5, BesideStep

LEMMA LeaveStep == LifecycleInv /\ Leave => LifecycleInv'
<1> SUFFICES ASSUME LifecycleInv, Leave PROVE LifecycleInv'
  OBVIOUS
<1>1. /\ writer' = Nobody /\ fault' = fault
      /\ Still /\ late' = late /\ pending' = pending
      /\ program' = program /\ driver' = driver /\ timers' = timers
  BY DEF Leave, Still, loaderVars, pinVars
<1>2. Clocked'
  BY <1>1 DEF LifecycleInv, Clocked
<1>3. CodeStays'
  BY <1>1, FaultExcused
<1>4. BesideKept
  BY <1>1, <1>2, <1>3 DEF BesideKept, LifecycleInv, TypeOK, Unloading, Gone
<1> QED
  BY <1>1, <1>4, BesideStep

\* A store that wakes the transmitter after its timer has been cancelled is late.
LEMMA WriteStep == LifecycleInv /\ Write => LifecycleInv'
<1> SUFFICES ASSUME LifecycleInv, Write PROVE LifecycleInv'
  OBVIOUS
<1>1. /\ program # "gone" /\ Still /\ writer' = writer
      /\ program' = program /\ driver' = driver /\ timers' = timers
  BY DEF Write, Still, loaderVars
<1>2. \/ pending' = pending /\ late' = late
      \/ /\ driver # "level_test"
         /\ pending' = pending \cup ({"tx"} \cap timers)
         /\ late' = (late \/ Cancelled("tx"))
  BY DEF Write
<1>3. "unloaded code" \in fault' => "unloaded code" \in fault
  <2>1. fault' \subseteq fault \cup {"unreserved pin", "uninitialized timer"}
    <3>1. HandlerFaults("txd") \subseteq fault \cup {"unreserved pin"}
      BY <1>1 DEF HandlerFaults
    <3> QED
      BY <3>1 DEF Write, Fault
  <2> QED
    BY <2>1
<1>4. late \in BOOLEAN
  BY DEF LifecycleInv, Shape
<1>5. late' \in BOOLEAN /\ (late => late')
  <2>1. Cancelled("tx") \in BOOLEAN
    BY Zenon DEF Cancelled
  <2> QED
    BY <1>2, <1>4, <2>1
<1>6. CodeStays'
  BY <1>1, <1>3, <1>5, FaultExcused
<1>7. Clocked'
  BY <1>1, <1>2 DEF LifecycleInv, Clocked
<1>8. pending' \subseteq Timer
  BY <1>2 DEF LifecycleInv, TypeOK
<1>9. program = "unload" =>
        /\ irq \/ "rx" \in pending' => BothAhead
        /\ "tx" \in pending' => late' \/ Ahead(Step("cancel", "tx"))
  <2> SUFFICES ASSUME program = "unload"
               PROVE  /\ irq \/ "rx" \in pending' => BothAhead
                      /\ "tx" \in pending' => late' \/ Ahead(Step("cancel", "tx"))
    OBVIOUS
  <2>1. Cancelled("tx") \/ Ahead(Step("cancel", "tx"))
    BY CancelledOrAhead DEF LifecycleInv
  <2> QED
    BY <1>2, <1>5, <2>1 DEF LifecycleInv, Unloading
<1>10. BesideKept
  BY <1>1, <1>5, <1>6, <1>7, <1>8, <1>9 DEF BesideKept, LifecycleInv, TypeOK
<1> QED
  BY <1>1, <1>10, BesideStep

-----------------------------------------------------------------------------
(* The kernel's thread                                                     *)

LEMMA LifecycleInvInit == Init => LifecycleInv
<1> SUFFICES ASSUME Init PROVE LifecycleInv
  OBVIOUS
<1>1. /\ driver \in Drivers /\ driver \in Driver
      /\ program = "gone" /\ at = 1 /\ failed = 0 /\ failures = 0
      /\ pointer = [dir \in Directory |-> NULL] /\ put = {} /\ files = {}
      /\ held = {} /\ timers = {} /\ irq = FALSE /\ pending = {} /\ late = FALSE
      /\ writer = Nobody /\ leaked = {} /\ fault = {}
  BY LifecycleAssumption DEF Init, InitModule
<1>2. Len(Steps) = 0
  BY <1>1, EmptySeq DEF Steps
<1>3. Len(InitSteps[driver]) \in Nat
  BY <1>1, LoadSteps
<1>4. TypeOK
  BY <1>1, <1>2, LifecycleAssumption DEF TypeOK
<1>5. Shape
  <2>1. \A dir \in Directory : pointer[dir] = NULL
    BY <1>1
  <2>2. pointer = [dir \in Directory |-> pointer[dir]]
    BY <1>1
  <2>3. failed \in 0 .. Len(InitSteps[driver])
    BY <1>1, <1>3
  <2> QED
    BY <1>1, <2>1, <2>2, <2>3 DEF Shape
<1>6. Clocked /\ Loading /\ Undoing /\ Unloading
  BY <1>1 DEF Clocked, Loading, Undoing, Unloading
<1>7. Gone /\ InterruptBacked /\ CodeStays
  BY <1>1 DEF Gone, InterruptBacked, CodeStays
<1> QED
  BY <1>4, <1>5, <1>6, <1>7 DEF LifecycleInv

LEMMA LoadStep == LifecycleInv /\ Load => LifecycleInv'
<1> SUFFICES ASSUME LifecycleInv, Load PROVE LifecycleInv'
  OBVIOUS
<1>1. /\ program = "gone" /\ pending = {} /\ writer = Nobody
      /\ driver' \in Drivers /\ driver' \in Driver
      /\ program' = "load" /\ at' = 1 /\ failed' = 0 /\ failures' = 0
      /\ files' = {} /\ late' = FALSE /\ fault' = {}
      /\ pointer' = pointer /\ put' = put /\ held' = held /\ timers' = timers
      /\ irq' = irq /\ pending' = pending /\ writer' = writer /\ leaked' = leaked
  BY LifecycleAssumption DEF Load, pinVars, pastVars
<1>2. ~irq /\ held = {} /\ timers = {} /\ \A dir \in Directory : pointer[dir] = NULL
  BY <1>1 DEF LifecycleInv, Gone
<1>3. Steps' = InitSteps[driver']
  BY <1>1 DEF Steps
<1>4. Len(InitSteps[driver']) \in Nat
  BY <1>1, LoadSteps
<1>5. TypeOK'
  BY <1>1, <1>3, <1>4, LifecycleAssumption DEF LifecycleInv, TypeOK
<1>6. Shape'
  <2>1. \A dir \in Directory : pointer'[dir] = NULL
    BY <1>1, <1>2
  <2>2. pointer' = [dir \in Directory |-> pointer'[dir]]
    BY <1>1 DEF LifecycleInv, Shape
  <2>3. failed' \in 0 .. Len(InitSteps[driver'])
    BY <1>1, <1>4
  <2> QED
    BY <1>1, <2>1, <2>2, <2>3 DEF LifecycleInv, Shape
<1>7. Clocked'
  BY <1>1 DEF Clocked
<1>8. ASSUME NEW s PROVE ~Behind(s)'
  BY <1>1 DEF Behind
<1>9. Loading'
  BY <1>1, <1>2, <1>8 DEF Loading
<1>10. Undoing' /\ Unloading' /\ Gone'
  BY <1>1 DEF Undoing, Unloading, Gone
<1>11. InterruptBacked' /\ CodeStays'
  BY <1>1, <1>2 DEF InterruptBacked, CodeStays
<1> QED
  BY <1>5, <1>6, <1>7, <1>9, <1>10, <1>11 DEF LifecycleInv

LEMMA UnloadStep == LifecycleInv /\ Unload => LifecycleInv'
<1> SUFFICES ASSUME LifecycleInv, Unload PROVE LifecycleInv'
  OBVIOUS
<1>1. /\ program = "loaded" /\ program' = "unload" /\ at' = 1
      /\ driver' = driver /\ failed' = failed /\ failures' = failures
      /\ pointer' = pointer /\ put' = put /\ files' = files
      /\ held' = held /\ timers' = timers /\ irq' = irq /\ pending' = pending
      /\ writer' = writer /\ late' = late /\ leaked' = leaked /\ fault' = fault
  BY DEF Unload, sysfsVars, pinVars, pastVars
<1>2. driver \in Driver
  BY LifecycleAssumption DEF LifecycleInv, TypeOK
<1>3. Steps' = ExitSteps[driver]
  BY <1>1 DEF Steps
<1>4. Len(Steps') \in Nat /\ 5 <= Len(Steps')
  BY <1>2, <1>3, UnloadSteps
<1>5. TypeOK'
  BY <1>1, <1>4 DEF LifecycleInv, TypeOK
<1>6. Shape'
  BY <1>1 DEF LifecycleInv, Shape, FailedAt
<1>7. Clocked'
  BY <1>1 DEF LifecycleInv, Clocked
<1>8. \A s : Has(ExitSteps[driver], s) => Ahead(s)'
  BY <1>1, <1>3 DEF Has, Ahead
<1>9. CoversTree(ExitSteps[driver], driver) /\ CoversPins(ExitSteps[driver])
  BY <1>2, UnloadSteps
<1>10. TreeAhead'
  <2>1. files \subseteq ToSet(Files(driver))
    BY DEF LifecycleInv, TypeOK
  <2>2. \A dir \in Directory : pointer[dir] # NULL => Has(Directories(driver), dir)
    BY DEF LifecycleInv, Shape
  <2>3. \A file \in files' : Ahead(Step("remove_file", file))'
    BY <1>1, <1>8, <1>9, <2>1 DEF CoversTree
  <2>4. \A dir \in Directory : pointer'[dir] # NULL => Ahead(Step("put_dir", dir))'
    BY <1>1, <1>8, <1>9, <2>2 DEF CoversTree
  <2> QED
    BY <2>3, <2>4 DEF TreeAhead
<1>11. PinsAhead'
  <2>1. held' \subseteq Pin
    BY <1>1 DEF LifecycleInv, TypeOK
  <2> QED
    BY <1>8, <1>9, <2>1 DEF PinsAhead, CoversPins
<1>12. BothAhead' /\ Ahead(Step("cancel", "tx"))'
  <2>1. Steps'[4] = Step("cancel", "rx") /\ Steps'[5] = Step("cancel", "tx")
    BY <1>2, <1>3, UnloadSteps
  <2>2. 4 \in at' .. Len(Steps') /\ 5 \in at' .. Len(Steps')
    BY <1>1, <1>4
  <2> QED
    BY <2>1, <2>2 DEF BothAhead, Ahead
<1>13. Unloading'
  BY <1>1, <1>10, <1>11, <1>12 DEF Unloading
<1>14. Loading' /\ Undoing' /\ Gone'
  BY <1>1 DEF Loading, Undoing, Gone
<1>15. InterruptBacked' /\ CodeStays'
  BY <1>1 DEF LifecycleInv, InterruptBacked, CodeStays, FailedAt
<1> QED
  BY <1>5, <1>6, <1>7, <1>13, <1>14, <1>15 DEF LifecycleInv

\* Going on to the next step of a list
Onward == at' = at + 1 /\ UNCHANGED <<driver, program, failed>>

LEMMA NextStep ==
  ASSUME TypeOK, Shape, Onward, at <= Len(Steps)
  PROVE  /\ Steps' = Steps /\ at' \in 1 .. Len(Steps) + 1
         /\ step \in StepOf(driver) /\ at \in 1 .. Len(Steps)
         /\ driver' = driver /\ program' = program /\ failed' = failed
         /\ \A s : Behind(s)' <=> Behind(s) \/ step = s
         /\ \A s : Ahead(s) => Ahead(s)' \/ step = s
         /\ BothAhead => BothAhead' \/ step = Step("cancel", "rx")
         /\ BothAhead => Ahead(Step("cancel", "tx"))'
         /\ \A ops : FailedAt(ops)' <=> FailedAt(ops)
         /\ (TreeStays' <=> TreeStays) /\ (PinsStay' <=> PinsStay)
<1>1. /\ at' = at + 1
      /\ driver' = driver /\ program' = program /\ failed' = failed
  BY DEF Onward
<1>2. Steps' = Steps
  BY <1>1 DEF Steps
<1>3. at \in 1 .. Len(Steps) /\ Len(Steps) \in Nat
  BY StepsInReach DEF TypeOK
<1>4. step \in StepOf(driver)
  BY <1>3, StepsInReach, ElementOfSeq DEF step
<1>5. \A s : Behind(s)' <=> Behind(s) \/ step = s
  <2>1. \A i : i \in 1 .. at' - 1 <=> i \in 1 .. at - 1 \/ i = at
    BY <1>1, <1>3
  <2> QED
    BY <1>2, <2>1 DEF Behind, step
<1>6. \A i \in at .. Len(Steps) : i \in at' .. Len(Steps) \/ i = at
  BY <1>1, <1>3
<1>7. \A s : Ahead(s) => Ahead(s)' \/ step = s
  BY <1>2, <1>6 DEF Ahead, step
<1>8. ASSUME BothAhead
      PROVE  (BothAhead' \/ step = Step("cancel", "rx")) /\ Ahead(Step("cancel", "tx"))'
  <2>1. PICK i \in at .. Len(Steps) : \E j \in at .. Len(Steps) :
          i < j /\ Steps[i] = Step("cancel", "rx") /\ Steps[j] = Step("cancel", "tx")
    BY <1>8 DEF BothAhead
  <2>2. PICK j \in at .. Len(Steps) :
          i < j /\ Steps[i] = Step("cancel", "rx") /\ Steps[j] = Step("cancel", "tx")
    BY <2>1
  <2>3. j \in at' .. Len(Steps)
    BY <1>1, <1>3, <2>1, <2>2
  <2> QED
    BY <1>2, <1>6, <2>2, <2>3 DEF BothAhead, Ahead, step
<1>9. \A ops : FailedAt(ops)' <=> FailedAt(ops)
  BY <1>1 DEF FailedAt
<1>10. (TreeStays' <=> TreeStays) /\ (PinsStay' <=> PinsStay)
  BY <1>1, <1>9 DEF TreeStays, PinsStay
<1>11. at' \in 1 .. Len(Steps) + 1
  BY <1>1, <1>3
<1> QED
  BY <1>1, <1>2, <1>3, <1>4, <1>5, <1>7, <1>8, <1>9, <1>10, <1>11

\* A step is told by what it does and on what.
LEMMA StepForm ==
  ASSUME NEW d, NEW s \in StepOf(d)
  PROVE  /\ s = Step(s.do, s.on)
         /\ s.do \in {"create_dir", "put_dir"} => s.on \in Directory
         /\ s.do \in {"create_file", "remove_file"} => s.on \in ToSet(Files(d))
         /\ s.do \in {"reserve", "free"} => s.on \in Pin
         /\ s.do \in {"init_timer", "cancel"} => s.on \in Timer
         /\ s.do \in {"map_irq", "request_irq", "free_irq"} => s.on = "rxd"
  BY DEF StepOf, Step

LEMMA StepParts ==
  /\ \A what, thing : Step(what, thing).do = what /\ Step(what, thing).on = thing
  /\ \A what, thing, other : Step(what, thing) = Step(what, other) => thing = other
<1>1. \A what, thing : Step(what, thing).do = what /\ Step(what, thing).on = thing
  BY DEF Step
<1> QED
  BY <1>1

\* What of a load comes before what
LEMMA BehindInLoad ==
  ASSUME TypeOK, Shape, program = "load", at <= Len(Steps)
  PROVE  /\ step.do = "create_dir" => Has(Directories(driver), step.on)
         /\ step.do \in {"create_file"} \cup Unresolved => ~Behind(Step("request_irq", "rxd"))
         /\ step.do = "create_file" =>
              \A pin, timer : ~Behind(Step("reserve", pin)) /\ ~Behind(Step("init_timer", timer))
         /\ step.do = "reserve" =>
              \A pin : Behind(Step("reserve", pin)) => at = Made(driver) + 3 /\ pin = "rxd"
         /\ step.do = "request_irq" =>
              /\ \A pin \in Pin : Behind(Step("reserve", pin))
              /\ \A timer \in Timer : Behind(Step("init_timer", timer))
<1> DEFINE list == InitSteps[driver]
           M == Made(driver)
           D == Dirs(driver)
<1>1. driver \in Driver /\ Steps = list /\ Len(list) \in Nat
  BY StepsInReach
<1>2. at \in 1 .. Len(list) /\ step = list[at]
  BY <1>1 DEF TypeOK, step
<1>3. M \in Nat /\ D \in Nat /\ D <= M
  BY <1>1, ListLengths
<1>4. /\ step.do = "create_dir" <=> at \in 1 .. D
      /\ step.do = "create_file" <=> at \in D + 1 .. M
      /\ step.do = "reserve" <=> at \in {M + 1, M + 3}
      /\ step.do = "map_irq" <=> at = M + 5
      /\ step.do = "request_irq" <=> at = M + 6
  BY <1>1, <1>2, LoadPositions
<1>5. ASSUME NEW what, NEW thing, Behind(Step(what, thing))
      PROVE  \E i \in 1 .. Len(list) : i < at /\ list[i] = Step(what, thing) /\ list[i].do = what
  <2>1. PICK i \in 1 .. at - 1 : Steps[i] = Step(what, thing)
    BY <1>5 DEF Behind
  <2>2. i \in 1 .. Len(list) /\ i < at
    BY <1>1, <1>2, <2>1
  <2> QED
    BY <1>1, <2>1, <2>2, StepParts
<1>6. ASSUME NEW thing, Behind(Step("request_irq", thing)) PROVE M + 6 < at
  <2>1. PICK i \in 1 .. Len(list) : i < at /\ list[i].do = "request_irq"
    BY <1>5, <1>6
  <2>2. i = M + 6
    BY <1>1, <2>1, LoadPositions
  <2> QED
    BY <2>1, <2>2
<1>7. ASSUME NEW thing, Behind(Step("init_timer", thing)) PROVE M + 2 <= at
  <2>1. PICK i \in 1 .. Len(list) : i < at /\ list[i].do = "init_timer"
    BY <1>5, <1>7
  <2>2. i \in {M + 2, M + 4}
    BY <1>1, <2>1, LoadPositions
  <2> QED
    BY <1>2, <1>3, <2>1, <2>2
<1>8. ASSUME NEW thing, Behind(Step("reserve", thing))
      PROVE  M + 1 < at /\ (at <= M + 3 => thing = "rxd")
  <2>1. PICK i \in 1 .. Len(list) :
          i < at /\ list[i] = Step("reserve", thing) /\ list[i].do = "reserve"
    BY <1>5, <1>8
  <2>2. i \in {M + 1, M + 3}
    BY <1>1, <2>1, LoadPositions
  <2>3. list[M + 1] = Step("reserve", "rxd")
    BY <1>1, LoadSteps
  <2>4. i = M + 1 => thing = "rxd"
    BY <2>1, <2>3, StepParts
  <2> QED
    BY <1>2, <1>3, <2>1, <2>2, <2>4
<1>9. step.do = "create_dir" => Has(Directories(driver), step.on)
  <2> SUFFICES ASSUME step.do = "create_dir" PROVE Has(Directories(driver), step.on)
    OBVIOUS
  <2>1. at \in 1 .. D /\ at \in 1 .. M /\ at <= D
    BY <1>3, <1>4
  <2>2. step = Step("create_dir", Directories(driver)[at])
    BY <1>1, <1>2, <2>1, LoadSteps
  <2> QED
    BY <2>1, <2>2, StepParts DEF Has, Dirs
<1>10. step.do = "request_irq" =>
         /\ \A pin \in Pin : Behind(Step("reserve", pin))
         /\ \A timer \in Timer : Behind(Step("init_timer", timer))
  <2> SUFFICES ASSUME step.do = "request_irq"
               PROVE  /\ \A pin \in Pin : Behind(Step("reserve", pin))
                      /\ \A timer \in Timer : Behind(Step("init_timer", timer))
    OBVIOUS
  <2>1. \A i \in 1 .. 4 : M + i \in 1 .. at - 1
    BY <1>3, <1>4
  <2>2. /\ Steps[M + 1] = Step("reserve", "rxd") /\ Steps[M + 2] = Step("init_timer", "rx")
        /\ Steps[M + 3] = Step("reserve", "txd") /\ Steps[M + 4] = Step("init_timer", "tx")
    BY <1>1, LoadSteps
  <2>3. /\ M + 1 \in 1 .. at - 1 /\ M + 2 \in 1 .. at - 1
        /\ M + 3 \in 1 .. at - 1 /\ M + 4 \in 1 .. at - 1
    BY <2>1
  <2> HIDE DEF M
  <2>4. /\ Behind(Step("reserve", "rxd")) /\ Behind(Step("reserve", "txd"))
        /\ Behind(Step("init_timer", "rx")) /\ Behind(Step("init_timer", "tx"))
    BY <2>2, <2>3 DEF Behind
  <2> QED
    BY <2>4 DEF Pin, Timer
<1> HIDE DEF M, D, list
<1>11. step.do \in {"create_file"} \cup Unresolved => at <= M + 6
  BY <1>3, <1>4 DEF Unresolved
<1>12. step.do = "create_file" => at <= M
  BY <1>3, <1>4
<1>13. step.do = "reserve" => at \in {M + 1, M + 3}
  BY <1>4
<1>14. step.do \in {"create_file"} \cup Unresolved => ~Behind(Step("request_irq", "rxd"))
  BY <1>2, <1>3, <1>6, <1>11
<1>15. step.do = "create_file" =>
         \A pin, timer : ~Behind(Step("reserve", pin)) /\ ~Behind(Step("init_timer", timer))
  BY <1>2, <1>3, <1>7, <1>8, <1>12
<1>16. step.do = "reserve" =>
         \A pin : Behind(Step("reserve", pin)) => at = Made(driver) + 3 /\ pin = "rxd"
  BY <1>3, <1>8, <1>13 DEF M
<1> QED
  BY <1>9, <1>10, <1>14, <1>15, <1>16

\* A directory that could not be made goes unnoticed; whatever else fails hands
\* over to the cleanup, which gives back what is behind.
LEMMA FailStep == LifecycleInv /\ Fail => LifecycleInv'
<1> SUFFICES ASSUME LifecycleInv, Fail PROVE LifecycleInv'
  OBVIOUS
<1>1. /\ program = "load" /\ at <= Len(Steps)
      /\ step.do \in {"create_dir", "create_file"} \cup Unresolved
      /\ driver' = driver /\ pointer' = pointer /\ put' = put /\ files' = files
      /\ held' = held /\ timers' = timers /\ irq' = irq /\ pending' = pending
      /\ writer' = writer /\ late' = late /\ leaked' = leaked /\ fault' = fault
  BY LifecycleAssumption DEF Fail, Conflict, Acquisition, Unresolved, sysfsVars, pinVars, pastVars
<1>2. failures' \in 0 .. MaxFailures
  BY LifecycleAssumption DEF Fail, LifecycleInv, TypeOK
<1>3. TypeOK /\ Shape
  BY DEF LifecycleInv
<1>4. driver \in Driver /\ Steps = InitSteps[driver] /\ Len(Steps) \in Nat /\ at \in 1 .. Len(Steps)
  BY <1>1, <1>3, StepsInReach DEF TypeOK
<1>5. CASE step.do = "create_dir"
  <2>1. program' = "load" /\ Onward
    BY <1>1, <1>5 DEF Fail, Onward
  <2>2. /\ Steps' = Steps /\ at' \in 1 .. Len(Steps) + 1
        /\ \A ops : FailedAt(ops)' <=> FailedAt(ops)
    BY <1>1, <1>3, <2>1, NextStep
  <2>3. \A what, thing : what # "create_dir" =>
          (Behind(Step(what, thing))' <=> Behind(Step(what, thing)))
    <3>1. \A s : Behind(s)' <=> Behind(s) \/ step = s
      BY <1>1, <1>3, <2>1, NextStep
    <3> QED
      BY <1>5, <3>1, StepParts
  <2>4. TypeOK'
    BY <1>1, <1>2, <1>3, <2>1, <2>2 DEF TypeOK
  <2>5. Shape'
    BY <1>1, <1>3, <2>1, <2>2 DEF Shape, Onward
  <2>6. Clocked'
    BY <1>1, <2>1 DEF LifecycleInv, Clocked
  <2>7. Loading'
    BY <1>1, <2>1, <2>3 DEF LifecycleInv, Loading
  <2>8. Undoing' /\ Unloading' /\ Gone'
    BY <2>1 DEF Undoing, Unloading, Gone
  <2>9. InterruptBacked' /\ CodeStays'
    BY <1>1, <2>2 DEF LifecycleInv, InterruptBacked, CodeStays
  <2> QED
    BY <2>4, <2>5, <2>6, <2>7, <2>8, <2>9 DEF LifecycleInv
<1>6. CASE step.do \in {"create_file"} \cup Unresolved
  <2> DEFINE list == CleanupSteps[driver][at]
  <2>1. program' = "undo" /\ at' = 1 /\ failed' = at
    BY <1>1, <1>6 DEF Fail, Unresolved
  <2>2. Steps' = list /\ InitSteps[driver][at] = step /\ at \in 1 .. Len(InitSteps[driver])
    BY <1>1, <1>4, <2>1 DEF Steps, step
  <2>3. list \in Seq(StepOf(driver)) /\ Len(list) \in Nat
    BY <1>4, <2>2, UndoSteps
  <2>4. \A ops : FailedAt(ops)' <=> step.do \in ops
    BY <1>1, <1>4, <2>1, <2>2 DEF FailedAt
  <2>5. \A s : Has(list, s) => Ahead(s)'
    BY <2>1, <2>2 DEF Has, Ahead
  <2>6. TypeOK'
    BY <1>1, <1>2, <1>3, <2>1, <2>2, <2>3 DEF TypeOK
  <2>7. Shape'
    <3>1. failed' \in 0 .. Len(InitSteps[driver'])
      BY <1>1, <1>4, <2>1
    <3> QED
      BY <1>1, <1>3, <1>6, <2>1, <2>4, <3>1 DEF Shape
  <2>8. Clocked'
    BY <1>1, <2>1 DEF LifecycleInv, Clocked
  <2>9. ~irq'
    BY <1>1, <1>3, <1>6, BehindInLoad DEF LifecycleInv, Loading
  <2>10. driver # "level_test" /\ step.do \in Unresolved => TreeStays'
    BY <1>1, <2>4 DEF TreeStays
  <2>11. ASSUME step.do = "create_file" PROVE Undoing'
    <3>1. held' = {} /\ timers' = {}
      BY <1>1, <1>3, <2>11, BehindInLoad DEF LifecycleInv, Loading, TypeOK
    <3>2. ASSUME NEW file \in files PROVE Ahead(Step("remove_file", file))'
      <4>1. PICK i \in 1 .. at - 1 : Steps[i] = Step("create_file", file)
        BY <1>1 DEF LifecycleInv, Loading, Behind
      <4>2. i \in 1 .. Len(InitSteps[driver]) /\ i < at
        BY <1>4, <4>1
      <4>3. InitSteps[driver][i].do = "create_file"
        BY <1>4, <4>1, StepParts
      <4>4. i \in Dirs(driver) + 1 .. Made(driver)
        BY <1>4, <4>2, <4>3, LoadPositions
      <4>5. Dirs(driver) \in Nat /\ Made(driver) \in Nat
        BY <1>4, ListLengths
      <4>6. i \in 1 .. Made(driver) /\ ~(i <= Dirs(driver)) /\ i \in Dirs(driver) + 1 .. at
        BY <1>4, <4>2, <4>4, <4>5
      <4>7. Steps[i] = Step("create_file", Files(driver)[i - Dirs(driver)])
        BY <1>4, <4>6, LoadSteps
      <4>8. file = Files(driver)[i - Dirs(driver)]
        BY <4>1, <4>7, StepParts
      <4>9. Has(list, Step("remove_file", Files(driver)[i - Dirs(driver)]))
        BY <1>4, <2>2, <2>11, <4>6, UndoSteps
      <4> QED
        BY <2>5, <4>8, <4>9
    <3>3. ASSUME NEW dir \in Directory, pointer[dir] # NULL PROVE Ahead(Step("put_dir", dir))'
      <4>1. Has(Directories(driver), dir)
        BY <1>3, <3>3 DEF Shape
      <4>2. Has(list, Step("put_dir", dir))
        BY <1>4, <2>2, <2>11, <4>1, UndoSteps
      <4> QED
        BY <2>5, <4>2
    <3>4. TreeAhead' /\ PinsAhead'
      BY <1>1, <3>1, <3>2, <3>3 DEF TreeAhead, PinsAhead
    <3> QED
      BY <2>1, <2>9, <3>1, <3>4 DEF Undoing
  <2>12. ASSUME step.do \in Unresolved PROVE Undoing'
    <3>1. TreeStays' \/ TreeAhead'
      <4>1. CASE driver = "level_test"
        <5>1. CoversTree(list, driver)
          BY <1>4, <2>2, <2>12, <4>1, UndoSteps
        <5>2. files \subseteq ToSet(Files(driver))
          BY <1>3 DEF TypeOK
        <5>3. \A dir \in Directory : pointer[dir] # NULL => Has(Directories(driver), dir)
          BY <1>3 DEF Shape
        <5>4. \A file \in files' : Ahead(Step("remove_file", file))'
          BY <1>1, <2>5, <5>1, <5>2 DEF CoversTree
        <5>5. \A dir \in Directory : pointer'[dir] # NULL => Ahead(Step("put_dir", dir))'
          BY <1>1, <2>5, <5>1, <5>3 DEF CoversTree
        <5> QED
          BY <5>4, <5>5 DEF TreeAhead
      <4> QED
        BY <2>10, <2>12, <4>1
    <3>2. PinsStay' \/ PinsAhead'
      <4>1. CASE step.do = "reserve"
        <5>1. ASSUME NEW pin \in held' PROVE Ahead(Step("free", pin))'
          <6>1. Behind(Step("reserve", pin))
            BY <1>1, <1>3, <5>1 DEF LifecycleInv, Loading, TypeOK
          <6>2. at = Made(driver) + 3 /\ pin = "rxd"
            BY <1>1, <1>3, <4>1, <6>1, BehindInLoad
          <6>3. Has(list, Step("free", "rxd"))
            BY <1>4, <2>2, <4>1, <6>2, UndoSteps
          <6> QED
            BY <2>5, <6>2, <6>3
        <5> QED
          BY <5>1 DEF PinsAhead
      <4>2. CASE step.do = "map_irq" /\ driver = "level_test"
        BY <1>1, <2>4, <4>2 DEF PinsStay
      <4>3. CASE step.do = "request_irq" \/ (step.do = "map_irq" /\ driver # "level_test")
        <5>1. CoversPins(list)
          BY <1>4, <2>2, <4>3, UndoSteps
        <5>2. held' \subseteq Pin
          BY <1>1, <1>3 DEF TypeOK
        <5> QED
          BY <2>5, <5>1, <5>2 DEF CoversPins, PinsAhead
      <4> QED
        BY <2>12, <4>1, <4>2, <4>3 DEF Unresolved
    <3> QED
      BY <1>1, <2>1, <2>9, <2>10, <2>12, <3>1, <3>2 DEF Undoing
  <2>13. Loading' /\ Unloading' /\ Gone' /\ InterruptBacked'
    BY <2>1, <2>9 DEF Loading, Unloading, Gone, InterruptBacked
  <2>14. CodeStays'
    <3>1. ~FailedAt(Unresolved)
      BY <1>1, <1>3 DEF Shape, FailedAt
    <3> QED
      BY <1>1, <3>1 DEF LifecycleInv, CodeStays, Unresolved
  <2> QED
    BY <1>6, <2>6, <2>7, <2>8, <2>11, <2>12, <2>13, <2>14 DEF LifecycleInv
<1> QED
  BY <1>1, <1>5, <1>6

LEMMA AcquireStep == LifecycleInv /\ Acquire => LifecycleInv'
<1> SUFFICES ASSUME LifecycleInv, Acquire PROVE LifecycleInv'
  OBVIOUS
<1>1. /\ program = "load" /\ at <= Len(Steps) /\ Onward
      /\ failures' = failures /\ put' = put /\ pending' = pending
      /\ writer' = writer /\ late' = late /\ leaked' = leaked
  BY DEF Acquire, Advance, Onward, pastVars, sysfsVars, pinVars
<1>2. TypeOK /\ Shape
  BY DEF LifecycleInv
<1>3. /\ Steps' = Steps /\ at' \in 1 .. Len(Steps) + 1 /\ step \in StepOf(driver)
      /\ driver' = driver /\ program' = program /\ failed' = failed
  BY <1>1, <1>2, NextStep
<1>4. \A s : Behind(s)' <=> Behind(s) \/ step = s
  BY <1>1, <1>2, NextStep
<1>5. \A ops : FailedAt(ops)' <=> FailedAt(ops)
  BY <1>1, <1>2, NextStep
<1>6. \/ step.do = "create_dir" /\ pointer' = [pointer EXCEPT ![step.on] = Path(step.on)]
      \/ step.do # "create_dir" /\ pointer' = pointer
  BY DEF Acquire, sysfsVars
<1>7. /\ files' = IF step.do = "create_file" THEN files \cup {step.on} ELSE files
      /\ held' = IF step.do = "reserve" THEN held \cup {step.on} ELSE held
      /\ timers' = IF step.do = "init_timer" THEN timers \cup {step.on} ELSE timers
      /\ irq' = IF step.do = "request_irq" THEN TRUE ELSE irq
  BY DEF Acquire, sysfsVars, pinVars
<1>8. "unloaded code" \in fault' => "unloaded code" \in fault
  <2>1. fault' \subseteq fault \cup {"wiped"}
    BY DEF Acquire, Fault
  <2> QED
    BY <2>1
<1>9. /\ step = Step(step.do, step.on)
      /\ step.do = "create_dir" => step.on \in Directory
      /\ step.do = "create_file" => step.on \in ToSet(Files(driver))
      /\ step.do = "reserve" => step.on \in Pin
      /\ step.do = "init_timer" => step.on \in Timer
      /\ step.do = "request_irq" => step.on = "rxd"
  BY <1>3, StepForm
<1>10. files' \subseteq ToSet(Files(driver)) /\ held' \subseteq Pin /\ timers' \subseteq Timer
  BY <1>2, <1>7, <1>9 DEF TypeOK
<1>11. held \subseteq held' /\ timers \subseteq timers' /\ files \subseteq files'
  BY <1>7
<1>12. TypeOK'
  BY <1>1, <1>2, <1>3, <1>10, <1>11 DEF TypeOK
<1>13. Shape'
  <2>1. pointer' = [dir \in Directory |-> pointer'[dir]]
    BY <1>2, <1>6 DEF Shape
  <2>2. \A dir \in Directory : pointer'[dir] # NULL => Has(Directories(driver), dir)
    <3>1. step.do = "create_dir" => Has(Directories(driver), step.on)
      BY <1>1, <1>2, BehindInLoad
    <3> QED
      BY <1>2, <1>6, <3>1 DEF Shape
  <2>3. irq' \in BOOLEAN
    BY <1>2, <1>7 DEF Shape
  <2> QED
    BY <1>1, <1>2, <1>3, <1>5, <2>1, <2>2, <2>3 DEF Shape
<1>14. Clocked'
  BY <1>1, <1>3, <1>10, <1>11 DEF LifecycleInv, Clocked
<1>15. Loading'
  <2>1. \A pin \in Pin : pin \in held' <=> Behind(Step("reserve", pin))'
    <3>1. \A pin \in Pin : step = Step("reserve", pin) <=> step.do = "reserve" /\ step.on = pin
      BY <1>9, StepParts
    <3> QED
      BY <1>1, <1>4, <1>7, <3>1 DEF LifecycleInv, Loading
  <2>2. \A timer \in Timer : timer \in timers' <=> Behind(Step("init_timer", timer))'
    <3>1. \A timer \in Timer :
            step = Step("init_timer", timer) <=> step.do = "init_timer" /\ step.on = timer
      BY <1>9, StepParts
    <3> QED
      BY <1>1, <1>4, <1>7, <3>1 DEF LifecycleInv, Loading
  <2>3. irq' => Behind(Step("request_irq", "rxd"))'
    BY <1>1, <1>4, <1>7, <1>9 DEF LifecycleInv, Loading
  <2>4. \A file \in files' : Behind(Step("create_file", file))'
    BY <1>1, <1>4, <1>7, <1>9 DEF LifecycleInv, Loading
  <2> QED
    BY <2>1, <2>2, <2>3, <2>4 DEF Loading
<1>16. Undoing' /\ Unloading' /\ Gone'
  BY <1>1, <1>3 DEF Undoing, Unloading, Gone
<1>17. InterruptBacked'
  <2>1. CASE step.do = "request_irq"
    <3>1. held = Pin /\ timers = Timer
      BY <1>1, <1>2, <2>1, BehindInLoad DEF LifecycleInv, Loading, TypeOK
    <3> QED
      BY <1>7, <2>1, <3>1 DEF InterruptBacked
  <2>2. CASE step.do # "request_irq"
    BY <1>7, <1>10, <1>11, <2>2 DEF LifecycleInv, InterruptBacked
  <2> QED
    BY <2>1, <2>2
<1>18. CodeStays'
  BY <1>1, <1>3, <1>5, <1>8 DEF LifecycleInv, CodeStays
<1> QED
  BY <1>12, <1>13, <1>14, <1>15, <1>16, <1>17, <1>18 DEF LifecycleInv

\* A step of an unload or a cleanup takes away what it says and leaves the rest
\* ahead.
LEMMA ReleaseStep == LifecycleInv /\ Release => LifecycleInv'
<1> SUFFICES ASSUME LifecycleInv, Release PROVE LifecycleInv'
  OBVIOUS
<1>1. /\ program \in {"unload", "undo"} /\ at <= Len(Steps) /\ Onward
      /\ failures' = failures /\ pointer' = pointer /\ timers' = timers
      /\ writer' = writer /\ late' = late /\ leaked' = leaked
  BY DEF Release, Advance, Onward, pastVars, sysfsVars, pinVars
<1>2. TypeOK /\ Shape
  BY DEF LifecycleInv
<1>3. /\ Steps' = Steps /\ at' \in 1 .. Len(Steps) + 1 /\ step \in StepOf(driver)
      /\ driver' = driver /\ program' = program /\ failed' = failed
  BY <1>1, <1>2, NextStep
<1>4. \A s : Ahead(s) => Ahead(s)' \/ step = s
  BY <1>1, <1>2, NextStep
<1>5. (\A ops : FailedAt(ops)' <=> FailedAt(ops))
      /\ (TreeStays' <=> TreeStays) /\ (PinsStay' <=> PinsStay)
  BY <1>1, <1>2, NextStep
<1>6. /\ files' = IF step.do = "remove_file" THEN files \ {step.on} ELSE files
      /\ put' = IF step.do = "put_dir" THEN put \cup {step.on} ELSE put
      /\ held' = IF step.do = "free" THEN held \ {step.on} ELSE held
      /\ pending' = IF step.do = "cancel" THEN pending \ {step.on} ELSE pending
      /\ irq' = IF step.do = "free_irq" THEN FALSE ELSE irq
  BY DEF Release, sysfsVars, pinVars
<1>7. step.do = "remove_file" => writer # step.on
  BY DEF Release
<1>8. "unloaded code" \in fault' => "unloaded code" \in fault
  <2>1. fault' \subseteq fault \cup {"freed twice"}
    BY DEF Release, Fault
  <2> QED
    BY <2>1
<1>9. step.do = "put_dir" => step.on \in Directory
  BY <1>3, StepForm
<1>10. files' \subseteq files /\ held' \subseteq held /\ pending' \subseteq pending
  BY <1>6
<1>11. ~irq'
  <2>1. CASE program = "undo"
    BY <1>6, <2>1 DEF LifecycleInv, Undoing
  <2>2. CASE program = "unload"
    <3>1. at = 1 => step.do = "free_irq"
      BY <1>2, <2>2, StepsInReach, UnloadSteps, StepParts DEF step
    <3> QED
      BY <1>6, <2>2, <3>1 DEF LifecycleInv, Unloading
  <2> QED
    BY <1>1, <2>1, <2>2
<1>12. TypeOK'
  <2>1. writer \in files' \cup {Nobody}
    BY <1>2, <1>6, <1>7 DEF TypeOK
  <2>2. put' \subseteq Directory
    BY <1>2, <1>6, <1>9 DEF TypeOK
  <2> QED
    BY <1>1, <1>2, <1>3, <1>10, <2>1, <2>2 DEF TypeOK
<1>13. Shape'
  <2>1. irq' \in BOOLEAN
    BY <1>2, <1>6 DEF Shape
  <2> QED
    BY <1>1, <1>2, <1>3, <1>5, <2>1 DEF Shape
<1>14. Clocked'
  BY <1>1, <1>3, <1>10 DEF LifecycleInv, Clocked
<1>15. TreeAhead => TreeAhead'
  <2>1. ASSUME TreeAhead, NEW file \in files' PROVE Ahead(Step("remove_file", file))'
    BY <1>4, <1>6, <2>1, StepParts DEF TreeAhead
  <2>2. ASSUME TreeAhead, NEW dir \in Directory, pointer'[dir] # NULL, dir \notin put'
        PROVE  Ahead(Step("put_dir", dir))'
    BY <1>1, <1>4, <1>6, <2>2, StepParts DEF TreeAhead
  <2> QED
    BY <2>1, <2>2 DEF TreeAhead
<1>16. PinsAhead => PinsAhead'
  BY <1>4, <1>6, StepParts DEF PinsAhead
<1>17. Undoing'
  BY <1>1, <1>3, <1>5, <1>11, <1>15, <1>16 DEF LifecycleInv, Undoing
<1>18. Unloading'
  <2> SUFFICES ASSUME program = "unload" PROVE Unloading'
    BY <1>3 DEF Unloading
  <2>1. "rx" \in pending' => BothAhead'
    <3>1. BothAhead => BothAhead' \/ step = Step("cancel", "rx")
      BY <1>1, <1>2, NextStep
    <3>2. step = Step("cancel", "rx") => "rx" \notin pending'
      BY <1>6, StepParts
    <3> QED
      BY <1>10, <3>1, <3>2 DEF LifecycleInv, Unloading
  <2>2. "tx" \in pending' => late' \/ Ahead(Step("cancel", "tx"))'
    <3>1. step = Step("cancel", "tx") => "tx" \notin pending'
      BY <1>6, StepParts
    <3> QED
      BY <1>1, <1>4, <1>10, <3>1 DEF LifecycleInv, Unloading
  <2> QED
    BY <1>11, <1>15, <1>16, <2>1, <2>2 DEF LifecycleInv, Unloading
<1>19. Loading' /\ Gone' /\ InterruptBacked'
  BY <1>1, <1>3, <1>11 DEF Loading, Gone, InterruptBacked
<1>20. CodeStays'
  BY <1>1, <1>3, <1>5, <1>8 DEF LifecycleInv, CodeStays
<1> QED
  BY <1>12, <1>13, <1>14, <1>17, <1>18, <1>19, <1>20 DEF LifecycleInv

\* At the end of a list nothing is ahead any more.
LEMMA FinishStep == LifecycleInv /\ Finish => LifecycleInv'
<1> SUFFICES ASSUME LifecycleInv, Finish PROVE LifecycleInv'
  OBVIOUS
<1>1. /\ program \in {"load", "unload", "undo"} /\ at = Len(Steps) + 1 /\ at' = 1
      /\ driver' = driver /\ failed' = failed /\ failures' = failures /\ writer' = writer
  BY DEF Finish, Running
<1>2. TypeOK /\ Shape /\ driver \in Driver /\ Len(Steps) \in Nat
  BY StepsInReach DEF LifecycleInv
<1>3. \A ops : FailedAt(ops)' <=> FailedAt(ops)
  BY <1>1 DEF FailedAt
<1>4. CASE program = "load"
  <2>1. /\ program' = "loaded" /\ pointer' = pointer /\ put' = put /\ files' = files
        /\ held' = held /\ timers' = timers /\ irq' = irq /\ pending' = pending
        /\ late' = late /\ leaked' = leaked /\ fault' = fault
    BY <1>4 DEF Finish, sysfsVars, pinVars, pastVars
  <2>2. Len(Steps') = 0
    BY <2>1, EmptySeq DEF Steps
  <2>3. TypeOK'
    BY <1>1, <1>2, <2>1, <2>2 DEF TypeOK
  <2>4. Shape'
    BY <1>1, <1>2, <1>4, <2>1 DEF Shape
  <2>5. Clocked'
    BY <1>1, <1>4, <2>1 DEF LifecycleInv, Clocked
  <2>6. Loading' /\ Undoing' /\ Unloading' /\ Gone'
    BY <2>1 DEF Loading, Undoing, Unloading, Gone
  <2>7. InterruptBacked' /\ CodeStays'
    BY <1>1, <1>3, <2>1 DEF LifecycleInv, InterruptBacked, CodeStays
  <2> QED
    BY <2>3, <2>4, <2>5, <2>6, <2>7 DEF LifecycleInv
<1>5. CASE program \in {"unload", "undo"}
  <2>1. /\ program' = "gone" /\ leaked' = leaked \cup held
        /\ pointer' = [dir \in Directory |-> NULL] /\ put' = {}
        /\ held' = {} /\ timers' = {} /\ irq' = FALSE
        /\ files' = files /\ pending' = pending /\ late' = late
        /\ fault' = IF writer # Nobody THEN fault \cup {"unloaded code"} ELSE fault
    BY <1>5 DEF Finish, Fault
  <2>2. Len(Steps') = 0
    BY <2>1, EmptySeq DEF Steps
  <2>3. TypeOK'
    <3>1. held' \cup leaked' \subseteq Pin /\ timers' \cup pending' \subseteq Timer
      BY <1>2, <2>1 DEF TypeOK
    <3>2. at' \in 1 .. Len(Steps') + 1
      BY <1>1, <2>2
    <3>3. put' \subseteq Directory
      BY <2>1
    <3> QED
      BY <1>1, <1>2, <2>1, <3>1, <3>2, <3>3 DEF TypeOK
  <2>4. Shape'
    <3>1. \A dir \in Directory : pointer'[dir] = NULL
      BY <2>1
    <3>2. pointer' = [dir \in Directory |-> pointer'[dir]]
      BY <2>1
    <3> QED
      BY <1>1, <1>2, <2>1, <3>1, <3>2 DEF Shape
  <2>5. Clocked'
    BY <1>1, <2>1 DEF LifecycleInv, Clocked
  <2>6. (\A s : ~Ahead(s)) /\ ~BothAhead
    BY <1>1, <1>2 DEF Ahead, BothAhead
  <2>7. TreeStays' <=> TreeStays
    BY <1>1, <1>3 DEF TreeStays
  <2>8. files # {} => TreeStays
    BY <1>5, <2>6 DEF LifecycleInv, Undoing, Unloading, TreeAhead
  <2>9. pending # {} => driver # "level_test" /\ (late \/ TreeStays)
    <3> SUFFICES ASSUME pending # {} PROVE driver # "level_test" /\ (late \/ TreeStays)
      OBVIOUS
    <3>1. driver # "level_test" /\ pending \subseteq timers
      BY <1>5 DEF LifecycleInv, Clocked
    <3>2. CASE program = "undo"
      BY <3>1, <3>2 DEF LifecycleInv, Undoing
    <3>3. CASE program = "unload"
      <4>1. "rx" \notin pending
        BY <2>6, <3>3 DEF LifecycleInv, Unloading
      <4>2. "tx" \in pending
        BY <1>2, <4>1 DEF TypeOK, Timer
      <4> QED
        BY <2>6, <3>1, <3>3, <4>2 DEF LifecycleInv, Unloading
    <3> QED
      BY <1>5, <3>2, <3>3
  <2>10. Gone'
    <3>1. \A dir \in Directory : pointer'[dir] = NULL
      BY <2>1
    <3> QED
      BY <1>1, <2>1, <2>7, <2>8, <2>9, <3>1 DEF Gone
  <2>11. Loading' /\ Undoing' /\ Unloading' /\ InterruptBacked'
    BY <2>1 DEF Loading, Undoing, Unloading, InterruptBacked
  <2>12. CodeStays'
    <3>1. writer # Nobody => TreeStays
      BY <1>2, <2>8 DEF TypeOK
    <3> QED
      BY <1>1, <1>3, <2>1, <3>1 DEF LifecycleInv, CodeStays, TreeStays, Unresolved
  <2> QED
    BY <2>3, <2>4, <2>5, <2>10, <2>11, <2>12 DEF LifecycleInv
<1> QED
  BY <1>1, <1>4, <1>5

LEMMA LifecycleInvStep == LifecycleInv /\ [Next]_vars => LifecycleInv'
<1> SUFFICES ASSUME LifecycleInv, [Next]_vars PROVE LifecycleInv'
  OBVIOUS
<1>1. CASE UNCHANGED vars
  <2>1. /\ Still /\ writer' = writer /\ late' = late /\ pending' = pending /\ fault' = fault
        /\ driver' = driver /\ program' = program /\ timers' = timers
    BY <1>1 DEF vars, Still, sysfsVars, pinVars, pastVars, loaderVars
  <2>2. Clocked'
    BY <2>1 DEF LifecycleInv, Clocked
  <2>3. CodeStays'
    BY <2>1, FaultExcused
  <2>4. BesideKept
    BY <2>1, <2>2, <2>3 DEF BesideKept, LifecycleInv, TypeOK, Unloading, Gone
  <2> QED
    BY <2>1, <2>4, BesideStep
<1>2. CASE Load \/ Unload
  BY <1>2, LoadStep, UnloadStep
<1>3. CASE Kernel
  BY <1>3, FailStep, AcquireStep, ReleaseStep, FinishStep DEF Kernel
<1>4. CASE Interrupt \/ ReceiveBit \/ TransmitBit
  BY <1>4, InterruptStep, ReceiveBitStep, TransmitBitStep
<1>5. CASE Enter \/ Write \/ Leave
  BY <1>5, EnterStep, WriteStep, LeaveStep
<1> QED
  BY <1>1, <1>2, <1>3, <1>4, <1>5 DEF Next

-----------------------------------------------------------------------------
(* Theorems                                                                *)

\* The invariant above holds of every history of loads and unloads.
THEOREM LifecycleInvariant == Spec => []LifecycleInv
  BY LifecycleInvInit, LifecycleInvStep, PTL DEF Spec

\* The variables have their types, and the next step of what the kernel does is in
\* reach of its list.
THEOREM TypeCorrect == Spec => []TypeOK
<1>1. LifecycleInv => TypeOK
  BY DEF LifecycleInv
<1> QED
  BY <1>1, LifecycleInvariant, PTL

\* As long as the interrupt is hooked both pins are reserved and both timers
\* initialized, whatever failed and whatever the files are used for meanwhile.
THEOREM InterruptAlwaysBacked == Spec => []InterruptBacked
<1>1. LifecycleInv => InterruptBacked
  BY DEF LifecycleInv
<1> QED
  BY <1>1, LifecycleInvariant, PTL

\* A timer or a file calls into a module that is gone only if a store started the
\* transmitter's timer after it had been cancelled, or a pin or the interrupt could
\* not be had.
THEOREM CodeStaysHolds == Spec => []CodeStays
<1>1. LifecycleInv => CodeStays
  BY DEF LifecycleInv
<1> QED
  BY <1>1, LifecycleInvariant, PTL

\* A module that is unloaded, or whose files could not all be made, leaves neither a
\* directory nor a file nor a pin nor the interrupt behind.
THEOREM NothingLeftHolds == Spec => NothingLeft
<1>1. LifecycleInv /\ [Next]_vars =>
        [program' = "gone" /\ program # "gone" =>
           /\ ~irq
           /\ held # {} => driver = "level_test" /\ FailedAt({"map_irq"})
           /\ Paths # {} \/ files # {} =>
                driver # "level_test" /\ FailedAt({"reserve", "map_irq", "request_irq"})]_vars
  <2> SUFFICES ASSUME LifecycleInv, [Next]_vars, program' = "gone", program # "gone"
               PROVE  /\ ~irq
                      /\ held # {} => PinsStay
                      /\ Paths # {} \/ files # {} => TreeStays
    BY DEF PinsStay, TreeStays, Unresolved
  <2>1. Finish
    BY DEF Next, Kernel, Load, Unload, Fail, Acquire, Release, Advance, Interrupt, ReceiveBit,
           TransmitBit, HandlerVars, Enter, Write, Leave, loaderVars, vars
  <2>2. program \in {"unload", "undo"} /\ at = Len(Steps) + 1
    BY <2>1 DEF Finish, Running
  <2>3. Len(Steps) \in Nat
    BY StepsInReach DEF LifecycleInv
  <2>4. \A s : ~Ahead(s)
    BY <2>2, <2>3 DEF Ahead
  <2>5. ~irq
    <3>1. program = "unload" => 5 <= Len(Steps)
      BY StepsInReach, UnloadSteps DEF LifecycleInv
    <3> QED
      BY <2>2, <2>3, <3>1 DEF LifecycleInv, Undoing, Unloading
  <2>6. held # {} => PinsStay
    BY <2>2, <2>4 DEF LifecycleInv, Undoing, Unloading, PinsAhead
  <2>7. TreeStays \/ TreeAhead
    BY <2>2 DEF LifecycleInv, Undoing, Unloading
  <2>8. TreeAhead => files = {} /\ \A dir \in Directory : ~Present(dir)
    BY <2>4 DEF TreeAhead, Present
  <2>9. TreeAhead => files = {} /\ Paths = {}
    BY <2>8 DEF Paths
  <2> QED
    BY <2>5, <2>6, <2>7, <2>9
<1> QED
  BY <1>1, LifecycleInvariant, PTL DEF Spec, NothingLeft

=============================================================================
