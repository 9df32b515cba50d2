----------------------------- MODULE TimerManager -----------------------------
(***************************************************************************)
(* TimerManager<T> of src/util/timermanager.h, driven the way EventLoop    *)
(* drives it: start for a new connection, restart after each request,      *)
(* destory when the connection closes, checkout once per turn of the loop  *)
(* (what it hands over is deleted before the next turn), takeFirst in the  *)
(* destructor of the loop.                                                 *)
(*                                                                         *)
(* The clock is system_clock in ticks.  Every Timer keeps a REFERENCE to   *)
(* WebServer::m_timeout, so a setTimeout during the run changes what the   *)
(* next restart of an older timer uses.                                    *)
(***************************************************************************)
EXTENDS Integers, TimerList

CONSTANTS Users, Timeouts, TimeoutMayShrink, MaxTime

ASSUME UsersAssumption    == Users # {}
ASSUME TimeoutsAssumption == Timeouts # {} /\ Timeouts \subseteq Nat
ASSUME ShrinkAssumption   == TimeoutMayShrink \in BOOLEAN
ASSUME MaxTimeAssumption  == MaxTime \in Nat

VARIABLES
  now,
  m_timeout,
  m_list,       \* the users in the order of the std::list
  deadline,     \* Timer::m_deadline of the user's timer
  expired       \* the vector checkout appends to

vars == <<now, m_timeout, m_list, deadline, expired>>

Init ==
  /\ now = 0
  /\ m_timeout \in Timeouts
  /\ m_list = <<>>
  /\ deadline = [x \in Users |-> 0]
  /\ expired = <<>>

\* start(m_timeout, x): the list is searched with the new timer's deadline.
Start(x) ==
  /\ x \notin Range(m_list)
  /\ x \notin Range(expired)
  /\ \E k \in StartPoints(m_list, deadline, now + m_timeout) :
        m_list' = Emplace(m_list, k, x)
  /\ deadline' = [deadline EXCEPT ![x] = now + m_timeout]
  /\ UNCHANGED <<now, m_timeout, expired>>

\* Timer::reset.
Reset(x) == [deadline EXCEPT ![x] = now + m_timeout]

\* restart(timerIt): the deadline is reset first, then the list is searched.
Restart(x) ==
  LET dl == Reset(x)
      Points == RestartPoints(m_list, dl, dl[x])
  IN \E j \in 1..Len(m_list) :
       /\ m_list[j] = x
       /\ deadline' = dl
       /\ \/ \E k \in Points : m_list' = Splice(m_list, j, k)
          \/ Points = {} /\ UNCHANGED m_list
       /\ UNCHANGED <<now, m_timeout, expired>>

\* destory(it)
Destory(x) ==
  \E j \in 1..Len(m_list) :
    /\ m_list[j] = x
    /\ m_list' = RemoveAt(m_list, j)
    /\ deadline' = [deadline EXCEPT ![x] = 0]
    /\ UNCHANGED <<now, m_timeout, expired>>

\* Mutant of Checkout: the vector is overwritten.
Checkout_overwrites ==
  \E n \in ExpiredPrefixes(m_list, deadline, now) :
    /\ expired' = Taken(m_list, n)
    /\ m_list' = Remaining(m_list, n)
    /\ deadline' = [x \in Users |-> IF x \in Range(Taken(m_list, n))
                                    THEN 0 ELSE deadline[x]]
    /\ UNCHANGED <<now, m_timeout>>

\* checkout(expired)
Checkout ==
  \E n \in ExpiredPrefixes(m_list, deadline, now) :
    /\ expired' = expired \o Taken(m_list, n)
    /\ m_list' = Remaining(m_list, n)
    /\ deadline' = [x \in Users |-> IF x \in Range(Taken(m_list, n))
                                    THEN 0 ELSE deadline[x]]
    /\ UNCHANGED <<now, m_timeout>>

\* takeFirst(): the head, whatever its deadline.
TakeFirst ==
  /\ m_list # <<>>
  /\ m_list' = Tail(m_list)
  /\ deadline' = [deadline EXCEPT ![Head(m_list)] = 0]
  /\ UNCHANGED <<now, m_timeout, expired>>

\* EventLoop deletes what checkout handed over: m_errorQueue.resize(0).
Dispose ==
  /\ expired # <<>>
  /\ expired' = <<>>
  /\ UNCHANGED <<now, m_timeout, m_list, deadline>>

Advance ==
  /\ now < MaxTime
  /\ now' = now + 1
  /\ UNCHANGED <<m_timeout, m_list, deadline, expired>>

\* WebServer::setTimeout; every Timer sees the new value.
SetTimeout(t) ==
  /\ t # m_timeout
  /\ TimeoutMayShrink \/ t > m_timeout
  /\ m_timeout' = t
  /\ UNCHANGED <<now, m_list, deadline, expired>>

Next ==
  \/ \E x \in Users : Start(x) \/ Restart(x) \/ Destory(x)
  \/ Checkout
  \/ TakeFirst
  \/ Dispose
  \/ Advance
  \/ \E t \in Timeouts : SetTimeout(t)

Spec == Init /\ [][Next]_vars

-----------------------------------------------------------------------------
(* Every variable has its type, and no timer runs longer from now than the *)
(* longest timeout (start and Timer::reset both count from now).           *)
TypeOK ==
  /\ now \in 0..MaxTime
  /\ m_timeout \in Timeouts
  /\ m_list \in Seq(Users)
  /\ deadline \in [Users -> Nat]
  /\ \A x \in Users : \E t \in Timeouts : deadline[x] <= now + t
  /\ expired \in Seq(Users)

(* The list is searched and drained as if it were ordered by deadline, but *)
(* no operation sorts it: start, restart, destory and checkout each have   *)
(* to leave it ordered.                                                    *)
ListOrdered == Ordered(m_list, deadline)

(* What the order rests on: no user is on the list twice or still waiting  *)
(* to be disposed of, and a timeout that never shrinks makes every new     *)
(* deadline the latest so far.                                             *)
TimersInv ==
  /\ TypeOK
  /\ IsInjective(m_list)
  /\ Range(m_list) \cap Range(expired) = {}
  /\ ~TimeoutMayShrink =>
       /\ \A x \in Users : deadline[x] <= now + m_timeout
       /\ ListOrdered

(* A checkout leaves no timer behind whose deadline has passed, and takes  *)
(* none whose deadline has not (README.md: "Use timer to close timeout     *)
(* connections"): checkout only looks at the front of the list.            *)
CheckoutExact ==
  [][Checkout =>
       /\ \A x \in Range(m_list') : deadline[x] > now
       /\ \A x \in Range(m_list) \ Range(m_list') : deadline[x] <= now]_vars

(* The list implements the set of timers. *)
Abstract == INSTANCE TimerSet WITH armed <- Range(m_list), expired <- Range(expired)
ImplementsTimerSet == Abstract!Spec
=============================================================================
