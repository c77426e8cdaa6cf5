--------------------------- MODULE SeatalkTimeout ---------------------------
(***************************************************************************)
(* The timeouts of statuses and sensors (timeout.c and the macros of       *)
(* boat_status.c and boat_sensor.c around it): an expiry time on the wall  *)
(* clock, in whole seconds and as wide as an int.  The clock may be set    *)
(* while values wait to expire.                                            *)
(***************************************************************************)
EXTENDS Integers

CONSTANTS
  Items,            \* the statuses or the sensors
  TIME_TO_LIVE,
  INT_MAX,
  Settings,         \* seconds by which the clock may be set forward or back
  MaxSettings,      \* bound: how often it is
  LastSecond,       \* bound: when the model ends
  None              \* the age of what was never written

ASSUME TimeoutAssumption ==
  /\ TIME_TO_LIVE \in Nat \ {0}
  /\ INT_MAX \in Nat
  /\ Settings \subseteq Int /\ MaxSettings \in Nat
  /\ LastSecond \in Nat
  /\ None \notin Int

VARIABLES
  second, half,     \* the clock, in seconds and halves of one
  initialized,      \* status_initialized, sensors_initialized
  fresh,            \* items that are still to be invalidated after that
  expiry,           \* X_expiry
  settings,         \* how often the clock has been set
  age,              \* half seconds since an item was written, or None
  moved             \* seconds by which the clock was set since

clockVars == <<second, half, settings>>
itemVars == <<initialized, fresh, expiry>>
vars == <<clockVars, itemVars, age, moved>>

TIMEOUT_DEFAULT == 0

\* Loaded at any time.
Init ==
  /\ second \in 0 .. LastSecond /\ half \in 0 .. 1
  /\ settings = 0
  /\ initialized = FALSE /\ fresh = {}
  /\ expiry = [i \in Items |-> TIMEOUT_DEFAULT]
  /\ age = [i \in Items |-> None]
  /\ moved = [i \in Items |-> 0]

\* A number of seconds as an int: what does not fit comes round from below.
AsInt(n) == IF n > INT_MAX THEN n - 2 * (INT_MAX + 1) ELSE n

get_time == AsInt(second)

\* Mutant of timeout_still_valid: the last second is counted in.
Mutant_timeout_still_valid(i) == get_time <= expiry[i]

timeout_still_valid(i) == get_time < expiry[i]

\* VALID_STATUS, VALID_SENSOR
Valid(i) == initialized /\ timeout_still_valid(i)

\* Mutant of Restart: the time to live is added to what is left.
Mutant_Restart(i) ==
  /\ expiry' = [expiry EXCEPT ![i] = AsInt(TIME_TO_LIVE +
                  (IF expiry[i] > get_time THEN expiry[i] ELSE get_time))]
  /\ age' = [age EXCEPT ![i] = 0]
  /\ moved' = [moved EXCEPT ![i] = 0]
  /\ UNCHANGED <<clockVars, initialized, fresh>>

\* VALIDATE_STATUS, VALIDATE_SENSOR: also before the initialization, in the
\* receive interrupt or from a file.
Restart(i) ==
  /\ expiry' = [expiry EXCEPT ![i] = AsInt(get_time + TIME_TO_LIVE)]
  /\ age' = [age EXCEPT ![i] = 0]
  /\ moved' = [moved EXCEPT ![i] = 0]
  /\ UNCHANGED <<clockVars, initialized, fresh>>

\* initialize_status, initialize_sensors: first the flag is set ...
Initialize ==
  /\ ~initialized /\ initialized' = TRUE
  /\ fresh' = Items
  /\ UNCHANGED <<clockVars, expiry, age, moved>>

\* Mutant of Invalidate: a new time to live is the default.
Mutant_Invalidate(i) ==
  /\ i \in fresh
  /\ fresh' = fresh \ {i}
  /\ expiry' = [expiry EXCEPT ![i] = get_time + TIME_TO_LIVE]
  /\ age' = [age EXCEPT ![i] = None]
  /\ UNCHANGED <<clockVars, initialized, moved>>

\* ... then the items are invalidated one by one.
Invalidate(i) ==
  /\ i \in fresh
  /\ fresh' = fresh \ {i}
  /\ expiry' = [expiry EXCEPT ![i] = TIMEOUT_DEFAULT]
  /\ age' = [age EXCEPT ![i] = None]
  /\ UNCHANGED <<clockVars, initialized, moved>>

HalfSecond ==
  /\ second < LastSecond \/ half = 0
  /\ half' = 1 - half
  /\ second' = second + half
  /\ age' = [i \in Items |-> IF age[i] = None THEN None ELSE age[i] + 1]
  /\ UNCHANGED <<settings, itemVars, moved>>

\* Somebody sets the clock: the user, or a time server once there is a network.
SetClock ==
  /\ settings < MaxSettings /\ settings' = settings + 1
  /\ \E seconds \in Settings :
       /\ second + seconds \in 0 .. LastSecond
       /\ second' = second + seconds
       /\ moved' = [i \in Items |-> moved[i] + seconds]
  /\ UNCHANGED <<half, itemVars, age>>

Next ==
  \/ \E i \in Items : Restart(i) \/ Invalidate(i)
  \/ Initialize
  \/ HalfSecond
  \/ SetClock

Spec == Init /\ [][Next]_vars

-----------------------------------------------------------------------------
(* Properties *)

TypeOK ==
  /\ second \in 0 .. LastSecond
  /\ half \in 0 .. 1
  /\ settings \in 0 .. MaxSettings
  /\ initialized \in BOOLEAN
  /\ fresh \subseteq Items
  /\ expiry \in [Items -> Int]
  /\ age \in [Items -> Nat \cup {None}]
  /\ moved \in [Items -> Int]

\* A value lives for its time to live, by the clock: less than that if it is
\* valid, and more than a second less if it is not, for the second in which it
\* was written counts as a whole one.  Setting the clock adds to a value's life
\* what it is set back by, and takes from it what it is set forward by.
LivesItsTime ==
  \A i \in Items : age[i] # None /\ initialized =>
    LET lived == age[i] + 2 * moved[i]
    IN  IF Valid(i) THEN lived < 2 * TIME_TO_LIVE
                    ELSE lived > 2 * (TIME_TO_LIVE - 1)

\* What was never written, or not since the initialization, is not valid, be the
\* clock what it may.
UnwrittenIsInvalid == \A i \in Items : Valid(i) => age[i] # None

left == [i \in Items |-> IF timeout_still_valid(i) THEN expiry[i] - get_time ELSE 0]

Timeouts == INSTANCE Countdown

\* As long as nobody sets the clock, a timeout is a countdown of whole seconds.
CountsDown == [][settings' # settings \/ Timeouts!Next]_left

\* If nobody ever does, it implements one.
ImplementsCountdown == Timeouts!Spec

\* A value that has expired does not come back without being written.
StaysExpired ==
  [][\A i \in Items : initialized /\ ~Valid(i) /\ Valid(i)' => age'[i] = 0]_vars

=============================================================================
