------------------------ MODULE SeatalkTimeoutProofs ------------------------
(***************************************************************************)
(* Proofs about the timeouts, for every set of items, time to live, width  *)
(* of an int and way of setting the clock, as long as the clock and the    *)
(* expiry times fit into an int (until January 2038, for 32 bits).         *)
(***************************************************************************)
EXTENDS SeatalkTimeout, TLAPS

ClockFits == LastSecond + TIME_TO_LIVE <= INT_MAX

\* The half seconds since the beginning of the second in which i was written,
\* by the clock.
Elapsed(i) == 2 * second + half - 2 * (expiry[i] - TIME_TO_LIVE)

\* LivesItsTime is not inductive: it does not say when a value was written.  Its
\* expiry time does, but for the half of the second.
Written(i) ==
  IF age[i] = None THEN expiry[i] = TIMEOUT_DEFAULT
  ELSE Elapsed(i) - (age[i] + 2 * moved[i]) \in {0, 1}

TimeInv == TypeOK /\ \A i \in Items : Written(i)

LEMMA GetTime == ASSUME ClockFits, TypeOK PROVE get_time = second
  BY TimeoutAssumption DEF ClockFits, TypeOK, get_time, AsInt

LEMMA NewExpiry ==
  ASSUME ClockFits, TypeOK
  PROVE  AsInt(get_time + TIME_TO_LIVE) = second + TIME_TO_LIVE
  BY GetTime, TimeoutAssumption DEF ClockFits, TypeOK, AsInt

LEMMA TimeInvInit == Init => TimeInv
<1> SUFFICES ASSUME Init PROVE TimeInv
  OBVIOUS
<1>1. TypeOK
  <2>1. settings \in 0 .. MaxSettings
    BY TimeoutAssumption DEF Init
  <2>2. expiry \in [Items -> Int] /\ moved \in [Items -> Int]
    BY DEF Init, TIMEOUT_DEFAULT
  <2>3. age \in [Items -> Nat \cup {None}]
    BY DEF Init
  <2> QED
    BY <2>1, <2>2, <2>3 DEF Init, TypeOK
<1>2. \A i \in Items : Written(i)
  BY DEF Init, Written
<1> QED
  BY <1>1, <1>2 DEF TimeInv

LEMMA TimeInvStep == ASSUME ClockFits, TimeInv, [Next]_vars PROVE TimeInv'
<1> USE TimeoutAssumption DEF TypeOK, TIMEOUT_DEFAULT
<1>1. ASSUME NEW j \in Items, Restart(j) PROVE TimeInv'
  <2>1. expiry' = [expiry EXCEPT ![j] = second + TIME_TO_LIVE]
    BY <1>1, NewExpiry DEF Restart, TimeInv
  <2>2. TypeOK'
    BY <1>1, <2>1 DEF Restart, TimeInv, clockVars
  <2>3. ASSUME NEW i \in Items PROVE Written(i)'
    <3>1. CASE i = j
      BY <1>1, <2>1, <3>1 DEF Restart, TimeInv, clockVars, Written, Elapsed
    <3>2. CASE i # j
      BY <1>1, <2>1, <3>2 DEF Restart, TimeInv, clockVars, Written, Elapsed
    <3> QED
      BY <3>1, <3>2
  <2> QED
    BY <2>2, <2>3 DEF TimeInv
<1>2. ASSUME NEW j \in Items, Invalidate(j) PROVE TimeInv'
  BY <1>2 DEF Invalidate, TimeInv, clockVars, Written, Elapsed
<1>3. CASE Initialize
  BY <1>3 DEF Initialize, TimeInv, clockVars, Written, Elapsed
<1>4. CASE HalfSecond
  <2>1. TypeOK'
    BY <1>4 DEF HalfSecond, TimeInv, itemVars
  <2>2. ASSUME NEW i \in Items PROVE Written(i)'
    <3>1. CASE age[i] = None
      BY <1>4, <3>1 DEF HalfSecond, TimeInv, itemVars, Written
    <3>2. CASE age[i] # None
      <4>1. age'[i] = age[i] + 1 /\ moved' = moved /\ expiry' = expiry
        BY <1>4, <3>2 DEF HalfSecond, itemVars, TimeInv
      <4>2. Elapsed(i)' = Elapsed(i) + 1
        <5>1. /\ second \in Int /\ second' \in Int /\ half \in Int /\ half' \in Int
              /\ expiry[i] \in Int /\ expiry'[i] = expiry[i] /\ TIME_TO_LIVE \in Int
          BY <2>1, <4>1 DEF TimeInv
        <5>2. CASE half = 0
          BY <1>4, <5>1, <5>2 DEF HalfSecond, Elapsed
        <5>3. CASE half = 1
          BY <1>4, <5>1, <5>3 DEF HalfSecond, Elapsed
        <5> QED
          BY <5>2, <5>3 DEF TimeInv
      <4>3. Elapsed(i) \in Int /\ age[i] \in Int /\ moved[i] \in Int
        BY <3>2 DEF Elapsed, TimeInv
      <4>4. Elapsed(i)' - (age'[i] + 2 * moved'[i]) = Elapsed(i) - (age[i] + 2 * moved[i])
        BY <4>1, <4>2, <4>3
      <4> QED
        BY <3>2, <4>1, <4>3, <4>4 DEF Written, TimeInv
    <3> QED
      BY <3>1, <3>2
  <2> QED
    BY <2>1, <2>2 DEF TimeInv
<1>5. CASE SetClock
  <2> PICK seconds \in Settings :
        /\ second + seconds \in 0 .. LastSecond
        /\ second' = second + seconds
        /\ moved' = [i \in Items |-> moved[i] + seconds]
    BY <1>5 DEF SetClock
  <2>1. TypeOK'
    BY <1>5 DEF SetClock, TimeInv, itemVars
  <2>2. ASSUME NEW i \in Items PROVE Written(i)'
    BY <1>5 DEF SetClock, TimeInv, itemVars, Written, Elapsed
  <2> QED
    BY <2>1, <2>2 DEF TimeInv
<1>6. CASE UNCHANGED vars
  BY <1>6 DEF vars, clockVars, itemVars, TimeInv, Written, Elapsed
<1> QED
  BY <1>1, <1>2, <1>3, <1>4, <1>5, <1>6 DEF Next

-----------------------------------------------------------------------------

\* By the clock a value is valid for the time to live, less the part of a second
\* that had passed when it was written.
THEOREM LivesItsTimeHolds == ASSUME ClockFits PROVE Spec => []LivesItsTime
<1>1. TimeInv => LivesItsTime
  <2> SUFFICES ASSUME TimeInv, NEW i \in Items, age[i] # None, initialized
               PROVE  IF Valid(i) THEN age[i] + 2 * moved[i] < 2 * TIME_TO_LIVE
                      ELSE age[i] + 2 * moved[i] > 2 * (TIME_TO_LIVE - 1)
    BY DEF LivesItsTime
  <2>1. Valid(i) <=> second < expiry[i]
    BY GetTime DEF TimeInv, Valid, timeout_still_valid
  <2>2. Elapsed(i) - (age[i] + 2 * moved[i]) \in {0, 1}
    BY DEF TimeInv, Written
  <2>3. /\ age[i] \in Int /\ moved[i] \in Int /\ expiry[i] \in Int
        /\ second \in Int /\ TIME_TO_LIVE \in Int /\ half \in {0, 1}
    BY TimeoutAssumption DEF TimeInv, TypeOK
  <2> QED
    BY <2>1, <2>2, <2>3 DEF Elapsed
<1> QED
  BY <1>1, TimeInvInit, TimeInvStep, PTL DEF Spec

\* A status that nobody has broadcast and a sensor that nobody has written are
\* invalid, wherever the clock is set to.
THEOREM UnwrittenIsInvalidHolds == ASSUME ClockFits PROVE Spec => []UnwrittenIsInvalid
<1>1. TimeInv => UnwrittenIsInvalid
  BY GetTime, TimeoutAssumption
     DEF TimeInv, UnwrittenIsInvalid, Valid, timeout_still_valid, Written, TypeOK,
         TIMEOUT_DEFAULT
<1> QED
  BY <1>1, TimeInvInit, TimeInvStep, PTL DEF Spec

-----------------------------------------------------------------------------
(* The refinement *)

LEMMA LeftIs ==
  ASSUME ClockFits, TypeOK
  PROVE  left = [i \in Items |-> IF second < expiry[i] THEN expiry[i] - second ELSE 0]
  BY GetTime DEF left, timeout_still_valid

LEMMA StepCountsDown ==
  ASSUME ClockFits, TypeOK, TypeOK', [Next]_vars, settings' = settings
  PROVE  [Timeouts!Next]_left
<1> USE TimeoutAssumption DEF TypeOK
<1> DEFINE Remains(i) == IF second < expiry[i] THEN expiry[i] - second ELSE 0
<1>1. left = [i \in Items |-> Remains(i)]
  BY LeftIs
<1>2. left' = [i \in Items |-> Remains(i)']
  <2>1. get_time' = second'
    <3>1. second' \in Int /\ INT_MAX \in Int /\ ~(second' > INT_MAX)
      BY DEF ClockFits
    <3> QED
      BY <3>1 DEF get_time, AsInt
  <2> QED
    BY <2>1 DEF left, timeout_still_valid
<1> HIDE DEF left
<1>4. ASSUME NEW j \in Items, Restart(j) PROVE Timeouts!Restart(j)
  <2>1. expiry' = [expiry EXCEPT ![j] = second + TIME_TO_LIVE] /\ second' = second
    BY <1>4, NewExpiry DEF Restart, clockVars
  <2>2. \A i \in Items : Remains(i)' = IF i = j THEN TIME_TO_LIVE ELSE Remains(i)
    BY <2>1
  <2> QED
    BY <1>1, <1>2, <2>2 DEF Timeouts!Restart
<1>5. ASSUME NEW j \in Items, Invalidate(j) PROVE Timeouts!Invalidate(j)
  <2>1. expiry' = [expiry EXCEPT ![j] = 0] /\ second' = second
    BY <1>5 DEF Invalidate, clockVars, TIMEOUT_DEFAULT
  <2>2. \A i \in Items : Remains(i)' = IF i = j THEN 0 ELSE Remains(i)
    BY <2>1
  <2> QED
    BY <1>1, <1>2, <2>2 DEF Timeouts!Invalidate
<1>6. CASE HalfSecond
  <2>1. expiry' = expiry
    BY <1>6 DEF HalfSecond, itemVars
  <2>2. CASE half = 0
    BY <1>1, <1>2, <1>6, <2>1, <2>2 DEF HalfSecond
  <2>3. CASE half = 1
    <3>1. second' = second + 1
      BY <1>6, <2>3 DEF HalfSecond
    <3>2. \A i \in Items : Remains(i)' = IF Remains(i) > 0 THEN Remains(i) - 1 ELSE 0
      BY <2>1, <3>1
    <3>3. Timeouts!Second
      BY <1>1, <1>2, <3>2 DEF Timeouts!Second
    <3> QED
      BY <3>3 DEF Timeouts!Next
  <2> QED
    BY <2>2, <2>3
<1>7. CASE Initialize \/ UNCHANGED vars
  BY <1>1, <1>2, <1>7 DEF Initialize, clockVars, itemVars, vars
<1>8. ~SetClock
  BY DEF SetClock
<1> QED
  BY <1>4, <1>5, <1>6, <1>7, <1>8 DEF Next, Timeouts!Next

\* But for the setting of the clock, the expiry times count down by whole
\* seconds as SeatalkSender and SeatalkStatus let them.
THEOREM CountsDownHolds == ASSUME ClockFits PROVE Spec => CountsDown
<1>1. TypeOK /\ TypeOK' /\ [Next]_vars => [settings' # settings \/ Timeouts!Next]_left
  BY StepCountsDown
<1>2. TimeInv => TypeOK
  BY DEF TimeInv
<1> QED
  BY <1>1, <1>2, TimeInvInit, TimeInvStep, PTL DEF Spec, CountsDown

\* A clock that nobody sets makes a countdown of the timeouts.
THEOREM TimeoutImplementsCountdown ==
  ASSUME ClockFits, Settings = {}
  PROVE  Spec => ImplementsCountdown
<1>1. Init => Timeouts!Init
  <2> SUFFICES ASSUME Init PROVE left = [i \in Items |-> 0]
    BY DEF Timeouts!Init
  <2> QED
    BY TimeInvInit, LeftIs DEF Init, TimeInv, TypeOK, TIMEOUT_DEFAULT
<1>2. TypeOK /\ TypeOK' /\ [Next]_vars => [Timeouts!Next]_left
  <2>1. [Next]_vars => settings' = settings
    BY DEF Next, Restart, Invalidate, Initialize, HalfSecond, SetClock, vars, clockVars
  <2> QED
    BY <2>1, StepCountsDown
<1>3. TimeInv => TypeOK
  BY DEF TimeInv
<1> QED
  BY <1>1, <1>2, <1>3, TimeInvInit, TimeInvStep, PTL DEF Spec, ImplementsCountdown, Timeouts!Spec

=============================================================================
