------------------------------- MODULE TimerSet -------------------------------
(***************************************************************************)
(* What a TimerManager promises its event loop, without the list: every    *)
(* user of the manager has at most one timer, a timer runs out when its    *)
(* deadline has passed and never before, and a checkout hands over ALL the *)
(* users whose timers have run out.                                        *)
(***************************************************************************)
EXTENDS Integers

CONSTANTS
  Users,            \* what the timers carry (T of TimerManager<T>)
  Timeouts,         \* the values setTimeout may be given
  TimeoutMayShrink, \* setTimeout may be given less than the current value
  MaxTime           \* bound on the clock

VARIABLES
  now,              \* system_clock
  m_timeout,        \* the timeout every Timer holds a reference to
  armed,            \* the users that have a timer
  deadline,         \* when the timer runs out
  expired           \* the users handed over and not yet disposed of

vars == <<now, m_timeout, armed, deadline, expired>>

Init ==
  /\ now = 0
  /\ m_timeout \in Timeouts
  /\ armed = {}
  /\ deadline = [x \in Users |-> 0]
  /\ expired = {}

Arm(x) ==
  /\ x \notin expired
  /\ armed' = armed \cup {x}
  /\ deadline' = [deadline EXCEPT ![x] = now + m_timeout]
  /\ UNCHANGED <<now, m_timeout, expired>>

Disarm(x) ==
  /\ x \in armed
  /\ armed' = armed \ {x}
  /\ deadline' = [deadline EXCEPT ![x] = 0]
  /\ UNCHANGED <<now, m_timeout, expired>>

RunOut ==
  LET late == {x \in armed : deadline[x] <= now} IN
  /\ armed' = armed \ late
  /\ expired' = expired \cup late
  /\ deadline' = [x \in Users |-> IF x \in late THEN 0 ELSE deadline[x]]
  /\ UNCHANGED <<now, m_timeout>>

Dispose ==
  /\ expired' = {}
  /\ UNCHANGED <<now, m_timeout, armed, deadline>>

Advance ==
  /\ now < MaxTime
  /\ now' = now + 1
  /\ UNCHANGED <<m_timeout, armed, deadline, expired>>

SetTimeout(t) ==
  /\ TimeoutMayShrink \/ t > m_timeout
  /\ m_timeout' = t
  /\ UNCHANGED <<now, armed, deadline, expired>>

Next ==
  \/ \E x \in Users : Arm(x) \/ Disarm(x)
  \/ RunOut
  \/ Dispose
  \/ Advance
  \/ \E t \in Timeouts : SetTimeout(t)

Spec == Init /\ [][Next]_vars
=============================================================================
