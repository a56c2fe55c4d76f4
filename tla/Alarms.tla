------------------------------- MODULE Alarms --------------------------------
(***************************************************************************)
(* The system clock of the HAL (HAL/src/alt_tick.c, alt_alarm_start.c,     *)
(* alt_settod.c, alt_gettod.c, inc/sys/alt_alarm.h, alt_llist.h): a count  *)
(* of ticks that wraps, and the ring of the alarms.                        *)
(*                                                                         *)
(* alt_tick runs in the timer's interrupt and goes round the ring; what it *)
(* calls back may start and stop any alarm, its own and the one alt_tick   *)
(* has read to go to next among them.  The program does so between two     *)
(* ticks, with interrupts disabled.  An alarm is started only when it is   *)
(* not on the ring: alt_alarm_start does not look.                         *)
(***************************************************************************)
EXTENDS Integers, FiniteSets

CONSTANTS
  Alarm,           \* the alarms of the program
  Head, Unset,     \* alt_alarm_list; the pointers of an alarm never started
  Wrap,            \* 2^32
  Rate,            \* ticks per second of the clock
  ALT_US,          \* microseconds in a second (1000000)
  MaxTicks,        \* longest interval asked for: at most Wrap - 1
  Times            \* times of day settimeofday is given

ASSUME AlarmAssumption ==
  /\ IsFiniteSet(Alarm)
  /\ Wrap \in Nat /\ Rate \in Nat /\ ALT_US \in Nat
  /\ Rate > 0 /\ ALT_US > 0
  /\ MaxTicks \in Nat /\ MaxTicks < Wrap
  /\ Head \notin Alarm /\ Unset \notin Alarm \cup {Head}

VARIABLES
  rate,            \* _alt_tick_rate: 0 until the clock's driver has started
  nticks,          \* _alt_nticks
  next, previous,  \* the ring: alt_llist
  time, rollover,  \* of each alarm
  alarm, cached,   \* alt_tick's alarm and next; Head outside alt_tick
  called,          \* alt_tick is in the alarm's callback
  resettime,       \* alt_resettime
  started,         \* history: alarms started and not stopped since
  wait             \* history: ticks until each alarm is due; Wrap: that or more

ring == <<next, previous>>
tick == <<alarm, cached, called>>
vars == <<rate, nticks, ring, time, rollover, tick, resettime, started, wait>>

Mod(n) == n % Wrap
Cap(n) == IF n < Wrap THEN n ELSE Wrap

Init ==
  /\ rate = 0 /\ nticks = 0
  /\ next = [a \in Alarm \cup {Head} |-> IF a = Head THEN Head ELSE Unset]
  /\ previous = next
  /\ time = [a \in Alarm |-> 0] /\ rollover = [a \in Alarm |-> FALSE]
  /\ alarm = Head /\ cached = Head /\ called = FALSE
  /\ resettime = [sec |-> 0, usec |-> 0]
  /\ started = {} /\ wait = [a \in Alarm |-> 0]

-----------------------------------------------------------------------------
(* Faulty form: list->next is written before entry->next is read off it.   *)
InsertSwapped(a) ==
  /\ next' = [next EXCEPT ![Head] = a, ![a] = a]
  /\ previous' = [previous EXCEPT ![next[Head]] = a, ![a] = Head]

(* alt_llist_insert: first in the ring.                                    *)
Insert(a) ==
  /\ next' = [next EXCEPT ![a] = next[Head], ![Head] = a]
  /\ previous' = [previous EXCEPT ![next[Head]] = a, ![a] = Head]

(* Faulty form: the alarm keeps its pointers into the ring.                *)
Unlink(a) ==
  /\ previous' = [previous EXCEPT ![next[a]] = previous[a]]
  /\ next' = [next EXCEPT ![previous[a]] = next[a]]

(* alt_llist_remove: it is made to point to itself, so that removing it    *)
(* again is harmless.                                                      *)
Remove(a) ==
  /\ previous' = [previous EXCEPT ![next[a]] = previous[a], ![a] = a]
  /\ next' = [next EXCEPT ![previous[a]] = next[a], ![a] = a]

(* Faulty form: the wrap of the count is not looked for.                   *)
NeverWraps(at) == FALSE

(* The time computed is past the wrap of the count.                        *)
Wraps(at) == Mod(at) < nticks

SetTime(a, at) ==
  /\ time' = [time EXCEPT ![a] = Mod(at)]
  /\ rollover' = [rollover EXCEPT ![a] = Wraps(at)]

(* alt_alarm_start.  Without a clock it fails.                             *)
Start(a, n) ==
  /\ rate # 0 /\ a \notin started
  /\ SetTime(a, n + nticks + 1) /\ Insert(a)
  /\ started' = started \cup {a} /\ wait' = [wait EXCEPT ![a] = Cap(n + 1)]
  /\ UNCHANGED <<rate, nticks, tick, resettime>>

(* alt_alarm_stop, of any alarm that was ever started.                     *)
Stop(a) ==
  /\ next[a] # Unset
  /\ Remove(a)
  /\ started' = started \ {a} /\ wait' = [wait EXCEPT ![a] = 0]
  /\ UNCHANGED <<rate, nticks, time, rollover, tick, resettime>>

-----------------------------------------------------------------------------
(* The clock.                                                              *)

(* alt_sysclk_init.                                                        *)
SysclkInit ==
  /\ rate = 0 /\ rate' = Rate
  /\ UNCHANGED <<nticks, ring, time, rollover, tick, resettime, started, wait>>

Tick ==
  /\ rate # 0 /\ alarm = Head
  /\ nticks' = Mod(nticks + 1) /\ alarm' = next[Head]
  /\ wait' = [a \in Alarm |->
                IF a \in started /\ wait[a] < Wrap THEN wait[a] - 1 ELSE wait[a]]
  /\ UNCHANGED <<rate, ring, time, rollover, cached, called, resettime, started>>

Expired(a, roll) == time[a] <= nticks /\ ~roll

(* The count has wrapped: the alarm may be due from now on.  An alarm that *)
(* is due is called back, from which alt_tick returns by Return.           *)
Visit ==
  /\ alarm # Head /\ ~called
  /\ LET roll == rollover[alarm] /\ nticks # 0
     IN  /\ rollover' = [rollover EXCEPT ![alarm] = roll]
         /\ called' = Expired(alarm, roll)
         /\ alarm' = IF Expired(alarm, roll) THEN alarm ELSE next[alarm]
  /\ cached' = next[alarm]
  /\ UNCHANGED <<rate, nticks, ring, time, resettime, started, wait>>

(* A callback stops and starts alarms.                                     *)
Callback ==
  /\ called
  /\ \E a \in Alarm : Stop(a) \/ \E n \in 0..MaxTicks : Start(a, n)

(* alarm->time += n.  The flag is set and never cleared here.              *)
Renew(n) ==
  LET at == Mod(time[alarm] + n)
  IN  /\ time' = [time EXCEPT ![alarm] = at]
      /\ rollover' = [rollover EXCEPT ![alarm] = @ \/ Wraps(at)]

(* Faulty form: the next alarm is read off the ring after the callback.    *)
ReturnNext(n) ==
  /\ called /\ called' = FALSE
  /\ IF n = 0
     THEN /\ Remove(alarm) /\ started' = started \ {alarm}
          /\ alarm' = next'[alarm] /\ UNCHANGED <<time, rollover>>
     ELSE /\ Renew(n) /\ alarm' = next[alarm] /\ UNCHANGED <<ring, started>>
  /\ wait' = [wait EXCEPT ![alarm] = IF alarm \in started' THEN Cap(@ + n) ELSE 0]
  /\ UNCHANGED <<rate, nticks, cached, resettime>>

(* The callback returns the ticks to its next call, or 0 for no more.      *)
Return(n) ==
  /\ called /\ called' = FALSE /\ alarm' = cached
  /\ IF n = 0
     THEN Remove(alarm) /\ started' = started \ {alarm} /\ UNCHANGED <<time, rollover>>
     ELSE Renew(n) /\ UNCHANGED <<ring, started>>
  /\ wait' = [wait EXCEPT ![alarm] = IF alarm \in started' THEN Cap(@ + n) ELSE 0]
  /\ UNCHANGED <<rate, nticks, cached, resettime>>

-----------------------------------------------------------------------------
(* The time of day.                                                        *)

(* Seconds and microseconds of the count: the product has 64 bits in       *)
(* gettimeofday and 32 in settimeofday.                                    *)
Sec  == nticks \div Rate
Usec64 == (nticks * (ALT_US \div Rate)) % ALT_US
Usec32 == Mod(nticks * (ALT_US \div Rate)) % ALT_US

(* Faulty form: microseconds above a second are not carried.               *)
Uncarried(t) ==
  IF t.usec < 0 THEN [sec |-> t.sec - 1, usec |-> t.usec + ALT_US] ELSE t

(* The two loops of gettimeofday; a time before 0 is 0.                    *)
Normal(t) ==
  IF t.usec < 0
  THEN IF t.sec <= 0 THEN [sec |-> 0, usec |-> 0]
       ELSE [sec |-> t.sec - 1, usec |-> t.usec + ALT_US]
  ELSE [sec |-> t.sec + t.usec \div ALT_US, usec |-> t.usec % ALT_US]

GetTimeOfDay ==
  Normal([sec |-> resettime.sec + Sec, usec |-> resettime.usec + Usec64])

SetTimeOfDay(t) ==
  /\ rate # 0 /\ alarm = Head
  /\ resettime' = [sec |-> t.sec - Sec, usec |-> t.usec - Usec32]
  /\ UNCHANGED <<rate, nticks, ring, time, rollover, tick, started, wait>>

-----------------------------------------------------------------------------
Program ==
  /\ alarm = Head
  /\ \E a \in Alarm : Stop(a) \/ \E n \in 0..MaxTicks : Start(a, n)

TickStep == Visit \/ \E n \in 0..MaxTicks : Return(n)

Next == SysclkInit \/ Program \/ (\E t \in Times : SetTimeOfDay(t)) \/ Tick \/ TickStep \/ Callback

(* The handler runs on, and a callback returns.                            *)
Spec == Init /\ [][Next]_vars /\ WF_vars(TickStep)

-----------------------------------------------------------------------------
(* An alarm is called back in the tick in which it is due, never before    *)
(* and never later, whether or not the count wraps in between; one due in  *)
(* Wrap ticks or more, which the count cannot tell, may come early.        *)
CalledOnTime ==
  [][/\ ~called /\ called' /\ alarm \in started => wait[alarm] \in {0, Wrap}
     /\ alarm' = Head => \A a \in started' : wait'[a] # 0]_vars

(* "nticks - The time to elapse until the alarm executes."                 *)
(* (alt_alarm_start.c:45), for every interval the argument can hold.       *)
NotCalledEarly ==
  [][~called /\ called' /\ alarm \in started => wait[alarm] = 0]_vars

(* "alt_alarm_stop() is used to unregister a callback." (alt_alarm.h:73):  *)
(* an alarm that has been stopped is not called back.                      *)
StoppedIsNotCalled == [][~called /\ called' => alarm \in started]_vars

(* Once round the ring meets each alarm that was started and not stopped,  *)
(* and no other, and it can be gone round either way.                      *)
Reached ==
  LET R[n \in 0..Cardinality(Alarm)] ==
        IF n = 0 THEN {next[Head]} ELSE R[n - 1] \cup {next[a] : a \in R[n - 1] \ {Head, Unset}}
  IN  R[Cardinality(Alarm)]

RingIsStarted ==
  /\ Reached = started \cup {Head}
  /\ \A a \in Reached : previous[next[a]] = a

(* alt_tick goes to, or has read to go to, an alarm that is on no ring.    *)
Stray == alarm # Head /\ (IF called THEN cached ELSE alarm) \notin started \cup {Head}

(* alt_tick leaves the ring in one way only: a callback stops the alarm    *)
(* that was read to come next.  What else callbacks stop, their own alarm  *)
(* included, and what they start, does not lead it off.                    *)
KeepsToRing == [][~Stray /\ Stray' => called /\ cached \in started \ started']_vars

(* On the ring alt_tick gets back to its head, whatever callbacks take off *)
(* it and put on it.  Off the ring it stays on an alarm that points to     *)
(* itself, until that alarm is started again.                              *)
TickEnds == alarm # Head ~> alarm = Head \/ Stray

(* Between two calls of settimeofday the time of day goes forward by the   *)
(* microseconds of a tick at each tick, carries included, until the count  *)
(* wraps.  When the rate does not divide a second the seconds and the      *)
(* microseconds, cut off apart, turn over in different ticks: the time is  *)
(* then off by a second for a while, never by more.                        *)
ClockAdvances ==
  [][nticks' = nticks + 1 =>
       \E s \in IF ALT_US % Rate = 0 THEN {0} ELSE {-1, 0, 1} :
         LET t == GetTimeOfDay
             us == t.usec + ALT_US \div Rate
         IN  GetTimeOfDay' = [sec |-> t.sec + s + us \div ALT_US, usec |-> us % ALT_US]]_vars

(* "the current "wall clock" time. This is calculated using the elapsed    *)
(* number of system clock ticks" (alt_gettod.c:57): it does not go back as *)
(* ticks go on.                                                            *)
TimeGoesOn ==
  [][nticks' = nticks + 1 =>
       LET t == GetTimeOfDay
           u == GetTimeOfDay'
       IN  t.sec < u.sec \/ (t.sec = u.sec /\ t.usec <= u.usec)]_vars

(* "an immediate call to gettimeofday() would return the value specified   *)
(* by t" (alt_settod.c:61).                                                *)
SetIsGot ==
  [][\A t \in Times : SetTimeOfDay(t) => GetTimeOfDay' = t]_vars
=============================================================================
