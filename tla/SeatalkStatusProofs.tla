------------------------- MODULE SeatalkStatusProofs -------------------------
(***************************************************************************)
(* Proofs about the alarms of SeatalkStatus, for every time to live and    *)
(* every choice of the datagrams heard and the alarms raised.              *)
(***************************************************************************)
EXTENDS SeatalkStatus, TLAPS

-----------------------------------------------------------------------------
(* AlarmKept is not inductive: that an alarm is active and the alarms have *)
(* not timed out does not say for how long.  Each alarm is outlived by the *)
(* shared timeout: what is left of it is at least the time to live less    *)
(* the age of the alarm's last report.                                     *)

AlarmTypes ==
  /\ expiry["active_alarms"] \in 0 .. STATUS_TIME_TO_LIVE
  /\ reported \in [Alarm -> (0 .. STATUS_TIME_TO_LIVE) \cup {None}]

TimeoutOutlives(a) ==
  /\ a \in active_alarms
  /\ expiry["active_alarms"] >= STATUS_TIME_TO_LIVE - reported[a]

AlarmInv ==
  /\ AlarmTypes
  /\ \A a \in Alarm :
       reported[a] \in 0 .. STATUS_TIME_TO_LIVE - 1 => TimeoutOutlives(a)

LEMMA AlarmsHaveTimeout == "active_alarms" \in Status
  BY DEF Status

LEMMA AlarmInvInit == Init => AlarmInv
<1> SUFFICES ASSUME Init PROVE AlarmInv
  OBVIOUS
<1>1. expiry["active_alarms"] = 0
  BY AlarmsHaveTimeout DEF Init
<1>2. reported = [a \in Alarm |-> None]
  BY DEF Init
<1>3. AlarmTypes
  BY <1>1, <1>2, StatusAssumption DEF AlarmTypes
<1>4. \A a \in Alarm : reported[a] \notin 0 .. STATUS_TIME_TO_LIVE - 1
  BY <1>2, StatusAssumption
<1> QED
  BY <1>3, <1>4 DEF AlarmInv

\* A datagram restarts the timeout or leaves it alone, and it restarts it if it
\* reports an alarm.
LEMMA AlarmInvUpdate ==
  ASSUME AlarmInv,
         NEW command, NEW setters, NEW reading, NEW alarms,
         update_seatalk_state(command, setters, alarms, reading)
  PROVE  AlarmInv'
<1> DEFINE left == expiry["active_alarms"]
<1>1. left \in 0 .. STATUS_TIME_TO_LIVE /\ STATUS_TIME_TO_LIVE \in Nat
  BY StatusAssumption DEF AlarmInv, AlarmTypes
<1>2. left' = left \/ left' = STATUS_TIME_TO_LIVE
  BY AlarmsHaveTimeout DEF update_seatalk_state, Restarted
<1>3. alarms # {} => left' = STATUS_TIME_TO_LIVE
  BY AlarmsHaveTimeout DEF update_seatalk_state, Restarted
<1>4. reported' = [a \in Alarm |-> IF a \in alarms THEN 0 ELSE reported[a]]
  BY DEF update_seatalk_state
<1>5. AlarmTypes'
  BY <1>1, <1>2, <1>4 DEF AlarmInv, AlarmTypes
<1>6. ASSUME NEW a \in Alarm, reported'[a] \in 0 .. STATUS_TIME_TO_LIVE - 1
      PROVE  TimeoutOutlives(a)'
  <2>1. CASE a \in alarms
    <3>1. a \in active_alarms' /\ left' = STATUS_TIME_TO_LIVE /\ reported'[a] = 0
      BY <1>3, <1>4, <2>1 DEF update_seatalk_state, set_active_alarms
    <3> QED
      BY <1>1, <3>1 DEF TimeoutOutlives
  <2>2. CASE a \notin alarms
    <3>1. reported'[a] = reported[a]
      BY <1>4, <2>2
    <3>2. a \in active_alarms /\ left >= STATUS_TIME_TO_LIVE - reported[a]
      BY <1>6, <3>1 DEF AlarmInv, TimeoutOutlives
    <3>3. valid("active_alarms")
      BY <1>1, <1>6, <3>1, <3>2 DEF valid
    <3>4. a \in active_alarms'
      BY <3>2, <3>3 DEF update_seatalk_state, set_active_alarms
    <3>5. left' >= STATUS_TIME_TO_LIVE - reported'[a]
      BY <1>1, <1>2, <1>6, <3>1, <3>2
    <3> QED
      BY <3>4, <3>5 DEF TimeoutOutlives
  <2> QED
    BY <2>1, <2>2
<1> QED
  BY <1>5, <1>6 DEF AlarmInv

\* A second that passes is one of the timeout's and one of every alarm's.
LEMMA AlarmInvSecond == AlarmInv /\ Second => AlarmInv'
<1> SUFFICES ASSUME AlarmInv, Second PROVE AlarmInv'
  OBVIOUS
<1> DEFINE left == expiry["active_alarms"]
<1>1. left \in 0 .. STATUS_TIME_TO_LIVE /\ STATUS_TIME_TO_LIVE \in Nat
  BY StatusAssumption DEF AlarmInv, AlarmTypes
<1>2. left' = IF left > 0 THEN left - 1 ELSE 0
  BY AlarmsHaveTimeout DEF Second, valid
<1>3. reported' = [a \in Alarm |->
                     IF reported[a] = None THEN None ELSE Older(reported[a])]
  BY DEF Second
<1>4. \A a \in Alarm : reported[a] \in (0 .. STATUS_TIME_TO_LIVE) \cup {None}
  BY DEF AlarmInv, AlarmTypes
<1>5. AlarmTypes'
  BY <1>1, <1>2, <1>3, <1>4 DEF AlarmTypes, Older
<1>6. ASSUME NEW a \in Alarm, reported'[a] \in 0 .. STATUS_TIME_TO_LIVE - 1
      PROVE  TimeoutOutlives(a)'
  <2>1. reported[a] # None
    BY <1>3, <1>6, StatusAssumption
  <2>2. reported[a] \in 0 .. STATUS_TIME_TO_LIVE - 1 /\ reported'[a] = reported[a] + 1
    BY <1>1, <1>3, <1>4, <1>6, <2>1 DEF Older
  <2>3. a \in active_alarms /\ left >= STATUS_TIME_TO_LIVE - reported[a]
    BY <2>2 DEF AlarmInv, TimeoutOutlives
  <2>4. left' >= STATUS_TIME_TO_LIVE - reported'[a]
    BY <1>1, <1>2, <1>6, <2>2, <2>3
  <2>5. active_alarms' = active_alarms
    BY DEF Second
  <2> QED
    BY <2>3, <2>4, <2>5 DEF TimeoutOutlives
<1> QED
  BY <1>5, <1>6 DEF AlarmInv

LEMMA AlarmInvStep == AlarmInv /\ [Next]_vars => AlarmInv'
<1> SUFFICES ASSUME AlarmInv, [Next]_vars PROVE AlarmInv'
  OBVIOUS
<1>1. CASE handle_seatalk_datagram
  BY <1>1, AlarmInvUpdate DEF handle_seatalk_datagram
<1>2. CASE Second
  BY <1>2, AlarmInvSecond
<1>3. CASE UNCHANGED <<statusVars, ghostVars>>
  BY <1>3 DEF AlarmInv, AlarmTypes, TimeoutOutlives, statusVars, ghostVars
<1> QED
  BY <1>1, <1>2, <1>3
     DEF Next, CheckTimeouts, CopyWord, Return, ShowAlarm, vars

\* An alarm that was reported within the time to live is active, whatever other
\* alarms were reported since and however long the time to live is.
THEOREM AlarmKeptHolds == Spec => []AlarmKept
<1>1. AlarmInv => AlarmKept
  <2> SUFFICES ASSUME AlarmInv,
                      NEW a \in Alarm, reported[a] \in 0 .. STATUS_TIME_TO_LIVE - 1
               PROVE  valid("active_alarms") /\ a \in active_alarms
    BY DEF AlarmKept
  <2>1. TimeoutOutlives(a)
    BY DEF AlarmInv
  <2>2. expiry["active_alarms"] > 0
    BY <2>1, StatusAssumption DEF TimeoutOutlives, AlarmInv, AlarmTypes
  <2> QED
    BY <2>1, <2>2 DEF TimeoutOutlives, valid
<1> QED
  BY <1>1, AlarmInvInit, AlarmInvStep, PTL DEF Spec

-----------------------------------------------------------------------------
(* Types                                                                   *)

LEMMA TypeOKInit == Init => TypeOK
<1> SUFFICES ASSUME Init PROVE TypeOK
  OBVIOUS
<1>1. expiry \in [Status -> 0 .. STATUS_TIME_TO_LIVE]
  BY StatusAssumption DEF Init
<1>2. age \in [Field -> 0 .. STATUS_TIME_TO_LIVE]
  BY StatusAssumption DEF Init
<1>3. field \in [Field -> Readings \cup {None}]
  BY DEF Init
<1>4. reported \in [Alarm -> (0 .. STATUS_TIME_TO_LIVE) \cup {None}]
  BY DEF Init
<1> QED
  BY <1>1, <1>2, <1>3, <1>4 DEF Init, TypeOK

LEMMA TypeOKUpdate ==
  ASSUME TypeOK, NEW command \in Heard, NEW setters \in Updates(command),
         NEW reading \in Readings, NEW alarms \in SUBSET (AlarmsIn(command) \cap AlarmsUsed),
         update_seatalk_state(command, setters, alarms, reading)
  PROVE  TypeOK'
<1>1. alarms \subseteq Alarm
  BY StatusAssumption
<1>2. field' \in [Field -> Readings \cup {None}] /\ age' \in [Field -> 0 .. STATUS_TIME_TO_LIVE]
  BY StatusAssumption DEF update_seatalk_state, TypeOK
<1>3. expiry' \in [Status -> 0 .. STATUS_TIME_TO_LIVE]
  BY StatusAssumption DEF update_seatalk_state, TypeOK
<1>4. reported' \in [Alarm -> (0 .. STATUS_TIME_TO_LIVE) \cup {None}]
  BY StatusAssumption DEF update_seatalk_state, TypeOK
<1>5. active_alarms' \subseteq Alarm /\ asserted' \subseteq Alarm
  BY <1>1 DEF update_seatalk_state, set_active_alarms, TypeOK
<1> QED
  BY <1>2, <1>3, <1>4, <1>5 DEF update_seatalk_state, TypeOK

LEMMA TypeOKStep == TypeOK /\ [Next]_vars => TypeOK'
<1> SUFFICES ASSUME TypeOK, [Next]_vars PROVE TypeOK'
  OBVIOUS
<1> USE DEF statusVars, ghostVars
<1>1. CASE handle_seatalk_datagram
  BY <1>1, TypeOKUpdate DEF handle_seatalk_datagram
<1>2. CASE CheckTimeouts
  <2> PICK getter \in Asked :
        reader' = [getter |-> getter, left |-> WordsUnder(Getter[getter]),
                   copy |-> [f \in {} |-> None]]
    BY <1>2 DEF CheckTimeouts
  <2>1. WordsUnder(Getter[getter]) \subseteq Field
    BY DEF WordsUnder, Field
  <2>2. /\ reader'.copy \in [DOMAIN reader'.copy -> Readings \cup {None}]
        /\ DOMAIN reader'.copy = {}
    OBVIOUS
  <2>3. reader' \in [getter : Asked, left : SUBSET Field, copy : {reader'.copy}]
    BY <2>1
  <2> QED
    BY <1>2, <2>2, <2>3 DEF CheckTimeouts, TypeOK
<1>3. CASE CopyWord
  <2>0. PICK f \in reader.left :
        reader' = [reader EXCEPT
                     !.left = @ \ {f},
                     !.copy = [g \in DOMAIN @ \cup {f} |-> IF g = f THEN field[f] ELSE @[g]]]
    BY <1>3 DEF CopyWord
  <2> DEFINE words == DOMAIN reader.copy
             copy == [g \in words \cup {f} |-> IF g = f THEN field[f] ELSE reader.copy[g]]
  <2>1. /\ reader \in [getter : Asked, left : SUBSET Field, copy : {reader.copy}]
        /\ reader.copy \in [words -> Readings \cup {None}]
        /\ words \subseteq Field
    BY <1>3 DEF CopyWord, TypeOK
  <2>2. f \in Field /\ field[f] \in Readings \cup {None}
    BY <2>1 DEF TypeOK
  <2>3. reader' = [getter |-> reader.getter, left |-> reader.left \ {f}, copy |-> copy]
    BY <2>0, <2>1
  <2>4. copy \in [words \cup {f} -> Readings \cup {None}] /\ DOMAIN copy = words \cup {f}
    BY <2>1, <2>2
  <2>6. words \cup {f} \subseteq Field
    <3>1. words \subseteq Field
      BY <2>1
    <3> HIDE DEF words
    <3> QED
      BY <3>1, <2>2
  <2> HIDE DEF copy, words
  <2>5. reader'.copy = copy /\ reader' \in [getter : Asked, left : SUBSET Field, copy : {copy}]
    <3>1. reader.getter \in Asked /\ reader.left \ {f} \subseteq Field
      BY <2>1
    <3> QED
      BY <2>3, <3>1
  <2>7. /\ reader'.copy \in [DOMAIN reader'.copy -> Readings \cup {None}]
        /\ DOMAIN reader'.copy \subseteq Field
    BY <2>4, <2>5, <2>6
  <2> QED
    BY <1>3, <2>5, <2>7 DEF CopyWord, TypeOK
<1>4. CASE Return
  BY <1>4 DEF Return, TypeOK
<1>5. CASE ShowAlarm
  BY <1>5, StatusAssumption DEF ShowAlarm, TypeOK
<1>6. CASE Second
  BY <1>6, StatusAssumption DEF Second, TypeOK, valid, Older
<1>7. CASE UNCHANGED vars
  BY <1>7 DEF vars, TypeOK
<1> QED
  BY <1>1, <1>2, <1>3, <1>4, <1>5, <1>6, <1>7 DEF Next

\* The type invariant.
THEOREM TypeCorrect == Spec => []TypeOK
  BY TypeOKInit, TypeOKStep, PTL DEF Spec

-----------------------------------------------------------------------------
(* The end of the alarms.  The shared timeout is that of one of the alarms *)
(* that are active, the one that was reported last.                        *)

Latest(a) == a \in active_alarms /\ reported[a] = STATUS_TIME_TO_LIVE - expiry["active_alarms"]

EndInv == TypeOK /\ (valid("active_alarms") => \E a \in active_alarms : Latest(a))

\* A datagram restarts the timeout of the alarms if and only if it reports one.
LEMMA AlarmsRestarted ==
  ASSUME NEW command \in Heard, NEW setters \in Updates(command), NEW alarms
  PROVE  "active_alarms" \in Restarted(setters, alarms) <=> alarms # {}
<1>1. setters \subseteq DOMAIN Setter
  BY TablesAssumption
<1>2. \A s \in setters : Setter[s].timeout # "active_alarms"
  BY <1>1, TablesAssumption
<1> QED
  BY <1>2 DEF Restarted

LEMMA EndInvUpdate ==
  ASSUME EndInv, NEW command \in Heard, NEW setters \in Updates(command),
         NEW reading \in Readings, NEW alarms \in SUBSET (AlarmsIn(command) \cap AlarmsUsed),
         update_seatalk_state(command, setters, alarms, reading)
  PROVE  EndInv'
<1>1. TypeOK'
  BY TypeOKUpdate DEF EndInv
<1>2. SUFFICES ASSUME valid("active_alarms")' PROVE \E a \in active_alarms' : Latest(a)'
  BY <1>1 DEF EndInv
<1>3. reported' = [a \in Alarm |-> IF a \in alarms THEN 0 ELSE reported[a]]
  BY DEF update_seatalk_state
<1>4. alarms \subseteq Alarm
  BY StatusAssumption
<1>5. CASE alarms = {}
  <2>1. expiry'["active_alarms"] = expiry["active_alarms"]
    BY <1>5, AlarmsRestarted, AlarmsHaveTimeout DEF update_seatalk_state
  <2>2. active_alarms' = active_alarms
    BY <1>5 DEF update_seatalk_state, set_active_alarms
  <2>3. PICK a \in active_alarms : Latest(a)
    BY <1>2, <2>1 DEF EndInv, valid
  <2>4. reported'[a] = reported[a]
    BY <1>3, <1>5, <2>3 DEF EndInv, TypeOK
  <2> QED
    BY <2>1, <2>2, <2>3, <2>4 DEF Latest
<1>6. CASE alarms # {}
  <2>1. PICK a \in alarms : TRUE
    BY <1>6
  <2>2. expiry'["active_alarms"] = STATUS_TIME_TO_LIVE
    BY <1>6, AlarmsRestarted, AlarmsHaveTimeout DEF update_seatalk_state
  <2>3. a \in active_alarms'
    BY <1>6, <2>1 DEF update_seatalk_state, set_active_alarms
  <2>4. reported'[a] = 0
    BY <1>3, <1>4, <2>1
  <2> QED
    BY <2>2, <2>3, <2>4, StatusAssumption DEF Latest
<1> QED
  BY <1>5, <1>6

LEMMA EndInvStep == EndInv /\ [Next]_vars => EndInv'
<1> SUFFICES ASSUME EndInv, [Next]_vars PROVE EndInv'
  OBVIOUS
<1>1. CASE handle_seatalk_datagram
  BY <1>1, EndInvUpdate DEF handle_seatalk_datagram
<1>2. TypeOK'
  BY TypeOKStep DEF EndInv
<1>3. CASE Second
  <2>1. SUFFICES ASSUME valid("active_alarms")' PROVE \E a \in active_alarms' : Latest(a)'
    BY <1>2 DEF EndInv
  <2>2. /\ valid("active_alarms")
        /\ expiry'["active_alarms"] = expiry["active_alarms"] - 1
        /\ expiry["active_alarms"] \in 1 .. STATUS_TIME_TO_LIVE
    BY <1>3, <2>1, AlarmsHaveTimeout, StatusAssumption DEF Second, valid, EndInv, TypeOK
  <2>3. PICK a \in active_alarms : Latest(a)
    BY <2>2 DEF EndInv
  <2>4. reported[a] \in 0 .. STATUS_TIME_TO_LIVE - 1
    BY <2>2, <2>3, StatusAssumption DEF Latest
  <2>5. reported'[a] = reported[a] + 1
    <3>1. a \in Alarm
      BY <2>3 DEF EndInv, TypeOK
    <3>2. reported[a] # None /\ reported[a] < STATUS_TIME_TO_LIVE
      BY <2>4, StatusAssumption
    <3> QED
      BY <1>3, <3>1, <3>2 DEF Second, Older
  <2>6. active_alarms' = active_alarms
    BY <1>3 DEF Second
  <2> QED
    BY <2>2, <2>3, <2>5, <2>6, StatusAssumption DEF Latest
<1>4. CASE UNCHANGED <<statusVars, ghostVars>>
  BY <1>2, <1>4 DEF EndInv, Latest, valid, statusVars, ghostVars
<1> QED
  BY <1>1, <1>3, <1>4 DEF Next, CheckTimeouts, CopyWord, Return, ShowAlarm, vars

\* When no alarm has been reported for the time to live, none is shown, for every
\* time to live and whatever else is broadcast.
THEOREM AlarmsEndTogetherHolds == Spec => []AlarmsEndTogether
<1>1. Init => EndInv
  <2>1. Init => ~valid("active_alarms")
    BY AlarmsHaveTimeout DEF Init, valid
  <2> QED
    BY <2>1, TypeOKInit DEF EndInv
<1>2. EndInv => AlarmsEndTogether
  <2> SUFFICES ASSUME EndInv, valid("active_alarms")
               PROVE  \E a \in active_alarms : reported[a] \in 0 .. STATUS_TIME_TO_LIVE - 1
    BY DEF AlarmsEndTogether
  <2>1. PICK a \in active_alarms : Latest(a)
    BY DEF EndInv
  <2>2. expiry["active_alarms"] \in 1 .. STATUS_TIME_TO_LIVE
    BY AlarmsHaveTimeout, StatusAssumption DEF EndInv, TypeOK, valid
  <2> QED
    BY <2>1, <2>2, StatusAssumption DEF Latest
<1> QED
  BY <1>1, <1>2, EndInvStep, PTL DEF Spec

\* Alarms that have timed out do not come back with the next one.
THEOREM NoAlarmRevivedHolds == Spec => NoAlarmRevived
<1>1. TypeOK /\ [Next]_vars =>
        [~valid("active_alarms") /\ valid("active_alarms")'
           => \A a \in active_alarms' : reported'[a] = 0]_vars
  <2> SUFFICES ASSUME TypeOK, [Next]_vars, ~valid("active_alarms"), valid("active_alarms")'
               PROVE  \A a \in active_alarms' : reported'[a] = 0
    OBVIOUS
  <2>1. CASE handle_seatalk_datagram
    <3> PICK command \in Heard, reading \in Readings :
          \E setters \in Updates(command),
             alarms \in SUBSET (AlarmsIn(command) \cap AlarmsUsed) :
            update_seatalk_state(command, setters, alarms, reading)
      BY <2>1 DEF handle_seatalk_datagram
    <3> PICK setters \in Updates(command), alarms \in SUBSET (AlarmsIn(command) \cap AlarmsUsed) :
          update_seatalk_state(command, setters, alarms, reading)
      OBVIOUS
    <3>1. alarms # {}
      BY AlarmsRestarted, AlarmsHaveTimeout DEF update_seatalk_state, valid
    <3>2. active_alarms' = alarms
      BY <3>1 DEF update_seatalk_state, set_active_alarms
    <3>3. alarms \subseteq Alarm
      BY StatusAssumption
    <3> QED
      BY <3>2, <3>3 DEF update_seatalk_state
  <2>2. CASE Second
    BY <2>2, AlarmsHaveTimeout DEF Second, valid
  <2>3. CASE UNCHANGED statusVars
    BY <2>3 DEF statusVars, valid
  <2> QED
    BY <2>1, <2>2, <2>3 DEF Next, CheckTimeouts, CopyWord, Return, ShowAlarm, vars
<1> QED
  BY <1>1, TypeCorrect, PTL DEF Spec, NoAlarmRevived

-----------------------------------------------------------------------------
(* Freshness.  Where every setter of a timeout sets all that is valid by   *)
(* it, what is left of the timeout bounds the age of each of these fields. *)

FreshInv ==
  /\ TypeOK
  /\ \A timeout \in Status : SetTogether(timeout) =>
       \A f \in WordsUnder({timeout}) :
         valid(timeout) => age[f] <= STATUS_TIME_TO_LIVE - expiry[timeout]

LEMMA FreshInvUpdate ==
  ASSUME FreshInv, NEW command \in Heard, NEW setters \in Updates(command),
         NEW reading \in Readings, NEW alarms \in SUBSET (AlarmsIn(command) \cap AlarmsUsed),
         update_seatalk_state(command, setters, alarms, reading)
  PROVE  FreshInv'
<1>1. TypeOK'
  BY TypeOKUpdate DEF FreshInv
<1>2. ASSUME NEW timeout \in Status, SetTogether(timeout),
             NEW f \in WordsUnder({timeout}), valid(timeout)'
      PROVE  age'[f] <= STATUS_TIME_TO_LIVE - expiry'[timeout]
  <2> DEFINE words == UNION {Setter[s].words : s \in setters}
  <2>1. f \in Field
    BY DEF WordsUnder, Field
  <2>2. age'[f] = IF f \in words THEN 0 ELSE age[f]
    BY <2>1 DEF update_seatalk_state
  <2>3. CASE timeout \in Restarted(setters, alarms)
    <3>1. timeout # "active_alarms"
      BY TablesAssumption DEF WordsUnder
    <3>2. PICK s \in setters : Setter[s].timeout = timeout
      BY <2>3, <3>1 DEF Restarted
    <3>3. s \in DOMAIN Setter
      BY TablesAssumption
    <3>4. f \in Setter[s].words
      BY <1>2, <3>2, <3>3 DEF SetTogether
    <3>5. f \in words
      BY <3>4
    <3>6. age'[f] = 0
      BY <2>2, <3>5
    <3>7. expiry'[timeout] = STATUS_TIME_TO_LIVE
      BY <2>3 DEF update_seatalk_state
    <3> QED
      BY <3>6, <3>7, StatusAssumption
  <2>4. CASE timeout \notin Restarted(setters, alarms)
    <3>1. expiry'[timeout] = expiry[timeout]
      BY <2>4 DEF update_seatalk_state
    <3>2. age[f] <= STATUS_TIME_TO_LIVE - expiry[timeout]
      BY <1>2, <3>1 DEF FreshInv, valid
    <3>3. expiry[timeout] \in 0 .. STATUS_TIME_TO_LIVE /\ age[f] \in 0 .. STATUS_TIME_TO_LIVE
      BY <2>1 DEF FreshInv, TypeOK
    <3> QED
      BY <2>2, <3>1, <3>2, <3>3, StatusAssumption
  <2> QED
    BY <2>3, <2>4
<1> QED
  BY <1>1, <1>2 DEF FreshInv, SetTogether

LEMMA FreshInvStep == FreshInv /\ [Next]_vars => FreshInv'
<1> SUFFICES ASSUME FreshInv, [Next]_vars PROVE FreshInv'
  OBVIOUS
<1>1. CASE handle_seatalk_datagram
  BY <1>1, FreshInvUpdate DEF handle_seatalk_datagram
<1>2. TypeOK'
  BY TypeOKStep DEF FreshInv
<1>3. CASE Second
  <2>1. ASSUME NEW timeout \in Status, SetTogether(timeout),
               NEW f \in WordsUnder({timeout}), valid(timeout)'
        PROVE  age'[f] <= STATUS_TIME_TO_LIVE - expiry'[timeout]
    <3>1. f \in Field
      BY DEF WordsUnder, Field
    <3>2. expiry[timeout] \in 0 .. STATUS_TIME_TO_LIVE /\ age[f] \in 0 .. STATUS_TIME_TO_LIVE
      BY <3>1 DEF FreshInv, TypeOK
    <3>3. valid(timeout) /\ expiry'[timeout] = expiry[timeout] - 1
      BY <1>3, <2>1, <3>2, StatusAssumption DEF Second, valid
    <3>4. age[f] <= STATUS_TIME_TO_LIVE - expiry[timeout]
      BY <2>1, <3>3 DEF FreshInv
    <3>5. age'[f] <= age[f] + 1
      BY <1>3, <3>1, <3>2, StatusAssumption DEF Second, Older
    <3>6. age'[f] \in 0 .. STATUS_TIME_TO_LIVE
      BY <1>2, <3>1 DEF TypeOK
    <3> QED
      BY <3>2, <3>3, <3>4, <3>5, <3>6, StatusAssumption
  <2> QED
    BY <1>2, <2>1 DEF FreshInv, SetTogether
<1>4. CASE UNCHANGED <<statusVars, ghostVars>>
  BY <1>2, <1>4 DEF FreshInv, SetTogether, valid, statusVars, ghostVars
<1> QED
  BY <1>1, <1>3, <1>4 DEF Next, CheckTimeouts, CopyWord, Return, ShowAlarm, vars

\* A getter whose timeouts are each restarted only together with all that is
\* valid by it returns nothing older than the time to live, however many timeouts
\* it has; TLC evaluates the condition for the getters of the driver.
THEOREM ReturnedIsFreshHolds ==
  ASSUME \A getter \in Asked : \A timeout \in Getter[getter] :
           timeout \in Status /\ SetTogether(timeout)
  PROVE  Spec => ReturnedIsFresh
<1>1. Init => FreshInv
  <2>1. Init => \A timeout \in Status : ~valid(timeout)
    BY DEF Init, valid
  <2> QED
    BY <2>1, TypeOKInit DEF FreshInv
<1>2. FreshInv /\ [Next]_vars =>
        [reader = NoReader /\ reader' # NoReader => \A f \in reader'.left : Fresh(f)]_vars
  <2> SUFFICES ASSUME FreshInv, [Next]_vars, reader = NoReader, reader' # NoReader,
                      NEW f \in reader'.left
               PROVE  Fresh(f)
    OBVIOUS
  <2>1. CheckTimeouts
    BY DEF Next, handle_seatalk_datagram, update_seatalk_state, CopyWord, Return,
           ShowAlarm, Second, vars
  <2>2. PICK getter \in Asked :
          /\ AllValid(getter)
          /\ reader' = [getter |-> getter, left |-> WordsUnder(Getter[getter]),
                        copy |-> [g \in {} |-> None]]
    BY <2>1 DEF CheckTimeouts
  <2>3. PICK s \in DOMAIN Setter : Setter[s].timeout \in Getter[getter] /\ f \in Setter[s].words
    BY <2>2 DEF WordsUnder
  <2> DEFINE timeout == Setter[s].timeout
  <2>4. f \in Field /\ f \in WordsUnder({timeout})
    BY <2>3 DEF WordsUnder, Field
  <2>5. timeout \in Status /\ SetTogether(timeout) /\ valid(timeout)
    BY <2>2, <2>3 DEF AllValid
  <2>6. age[f] <= STATUS_TIME_TO_LIVE - expiry[timeout]
    BY <2>4, <2>5 DEF FreshInv
  <2>7. expiry[timeout] \in 1 .. STATUS_TIME_TO_LIVE /\ age[f] \in 0 .. STATUS_TIME_TO_LIVE
    BY <2>4, <2>5, StatusAssumption DEF FreshInv, TypeOK, valid
  <2> QED
    BY <2>6, <2>7, StatusAssumption DEF Fresh
<1> QED
  BY <1>1, <1>2, FreshInvStep, PTL DEF Spec, ReturnedIsFresh

=============================================================================
