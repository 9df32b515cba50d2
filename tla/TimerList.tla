------------------------------ MODULE TimerList ------------------------------
(***************************************************************************)
(* The ordered std::list inside TimerManager (src/util/timermanager.h) as  *)
(* operators on a sequence of user data.  Time(x) of the code, the         *)
(* deadline of the timer that carries x, is the function dl.               *)
(*                                                                         *)
(* The two insertion loops walk from end() towards begin() and stop behind *)
(* the first element that is less than the new timer.  Their result is     *)
(* stated as the set of positions where the loop stops: it has exactly one *)
(* member for start and at most one for restart, whose loop has no branch  *)
(* for "no element is less".                                               *)
(***************************************************************************)
EXTENDS Integers, SequencesExt

\* *std::prev(it) < timer holds first for the k-th element, walking backwards.
StopsBehind(list, dl, d, k) ==
  /\ dl[list[k]] < d
  /\ \A i \in (k+1)..Len(list) : ~(dl[list[i]] < d)

\* Mutant: start puts the new element in front.
StartPoints_front(list, dl, d) == {0}

\* start: where the new element goes; 0 is m_list.begin().
StartPoints(list, dl, d) ==
  {k \in 0..Len(list) :
     \/ k > 0 /\ StopsBehind(list, dl, d, k)
     \/ k = 0 /\ \A i \in 1..Len(list) : ~(dl[list[i]] < d)}

\* Mutant: restart does not move the element.
RestartPoints_none(list, dl, d) == {}

\* restart: where the element is moved; no member: the list is left as it is.
RestartPoints(list, dl, d) ==
  {k \in 1..Len(list) : StopsBehind(list, dl, d, k)}

\* m_list.emplace(it, timer)
Emplace(list, k, x) == InsertAt(list, k + 1, x)

\* m_list.splice(it, m_list, timerIt): the j-th element is moved behind the k-th.
Splice(list, j, k) ==
  IF j <= k THEN InsertAt(RemoveAt(list, j), k, list[j])
            ELSE InsertAt(RemoveAt(list, j), k + 1, list[j])

\* Mutants: < for <=; a tick too early.
ExpiredPrefixes_strict(list, dl, now) ==
  {n \in 0..Len(list) :
     /\ \A i \in 1..n : dl[list[i]] < now
     /\ n < Len(list) => ~(dl[list[n + 1]] < now)}
ExpiredPrefixes_early(list, dl, now) ==
  {n \in 0..Len(list) :
     /\ \A i \in 1..n : dl[list[i]] <= now + 1
     /\ n < Len(list) => ~(dl[list[n + 1]] <= now + 1)}

\* checkout: the prefix whose deadlines have passed, up to the first that has not.
ExpiredPrefixes(list, dl, now) ==
  {n \in 0..Len(list) :
     /\ \A i \in 1..n : dl[list[i]] <= now
     /\ n < Len(list) => ~(dl[list[n + 1]] <= now)}

Taken(list, n) == SubSeq(list, 1, n)
\* Mutant of Remaining: no pop_front.
Remaining_all(list, n) == list
Remaining(list, n) == SubSeq(list, n + 1, Len(list))

\* Timers in the order of their deadlines.
Ordered(list, dl) ==
  \A i, j \in 1..Len(list) : i < j => dl[list[i]] <= dl[list[j]]
=============================================================================
