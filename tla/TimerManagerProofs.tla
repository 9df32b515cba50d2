-------------------------- MODULE TimerManagerProofs --------------------------
(***************************************************************************)
(* Proofs about TimerManager, for any users, timeouts and clock bound: the *)
(* list stays ordered although nothing sorts it, so that a checkout, which *)
(* looks only at the front, takes exactly the timers that have run out;    *)
(* and the list implements the set of timers of TimerSet.                  *)
(***************************************************************************)
EXTENDS TimerManager, TimerListProofs

(* The users of two lists, one behind the other. *)
LEMMA ConcatUsers ==
  ASSUME NEW S, NEW s \in Seq(S), NEW t \in Seq(S)
  PROVE  s \o t \in Seq(S) /\ Range(s \o t) = Range(s) \cup Range(t)
<1>1. /\ s \o t \in Seq(S) /\ Len(s \o t) = Len(s) + Len(t)
      /\ Len(s) \in Nat /\ Len(t) \in Nat
  BY LenProperties, ConcatProperties
<1>2. \A i \in 1..Len(s) : (s \o t)[i] = s[i]
  BY ConcatProperties
<1>3. \A i \in 1..Len(t) : (s \o t)[Len(s) + i] = t[i]
  BY ConcatProperties
<1>4. /\ Range(s) = {s[i] : i \in 1..Len(s)}
      /\ Range(t) = {t[i] : i \in 1..Len(t)}
      /\ Range(s \o t) = {(s \o t)[i] : i \in 1..Len(s \o t)}
  BY <1>1, RangeIs
<1> DEFINE c == s \o t
<1>5. /\ \A i \in 1..Len(s) : i \in 1..Len(c) /\ c[i] = s[i]
      /\ \A i \in 1..Len(t) : Len(s) + i \in 1..Len(c) /\ c[Len(s) + i] = t[i]
  BY <1>1, <1>2, <1>3
<1>6. \A h \in 1..Len(c) : (\E i \in 1..Len(s) : c[h] = s[i]) \/ (\E i \in 1..Len(t) : c[h] = t[i])
  <2>. SUFFICES ASSUME NEW h \in 1..Len(c)
               PROVE (\E i \in 1..Len(s) : c[h] = s[i]) \/ (\E i \in 1..Len(t) : c[h] = t[i])
    OBVIOUS
  <2>1. CASE h <= Len(s)
    BY <1>1, <1>2, <2>1
  <2>2. CASE h > Len(s)
    <3>1. h - Len(s) \in 1..Len(t) /\ Len(s) + (h - Len(s)) = h
      BY <1>1, <2>2
    <3>. QED BY <1>5, <3>1
  <2>. QED BY <1>1, <2>1, <2>2
<1>. HIDE DEF c
<1>7. Range(s) \cup Range(t) = {c[i] : i \in 1..Len(c)}
  <2>1. ASSUME NEW y \in Range(s) \cup Range(t) PROVE y \in {c[i] : i \in 1..Len(c)}
    BY <1>4, <1>5
  <2>2. ASSUME NEW h \in 1..Len(c) PROVE c[h] \in Range(s) \cup Range(t)
    BY <1>4, <1>6
  <2>. QED BY <2>1, <2>2
<1>. QED BY <1>1, <1>4, <1>7 DEF c

(* takeFirst erases the first element. *)
LEMMA TailIsErase ==
  ASSUME NEW S, NEW s \in Seq(S), s # <<>>
  PROVE  1 \in 1..Len(s) /\ Head(s) = s[1] /\ Tail(s) = RemoveAt(s, 1)
<1>1. 1 \in 1..Len(s) /\ Head(s) = s[1] /\ Len(s) \in Nat
  BY LenProperties, EmptySeq
<1>2. Tail(s) \in Seq(S) /\ Len(Tail(s)) = Len(s) - 1
  BY HeadTailProperties
<1>3. \A i \in 1..Len(s) - 1 : Tail(s)[i] = s[i + 1]
  BY HeadTailProperties
<1>4. RemoveAt(s, 1) \in Seq(S) /\ Len(RemoveAt(s, 1)) = Len(s) - 1
  BY <1>1, RemoveShape
<1>5. \A i \in 1..Len(s) - 1 : RemoveAt(s, 1)[i] = s[i + 1]
  BY <1>1, RemoveShape
<1> DEFINE r == RemoveAt(s, 1)
<1>. HIDE DEF r
<1>6. Tail(s) = r
  BY <1>2, <1>3, <1>4, <1>5, SeqEqual DEF r
<1>. QED BY <1>1, <1>6 DEF r

-----------------------------------------------------------------------------
(* What holds of every state that satisfies the invariant. *)
LEMMA Facts ==
  ASSUME TimersInv
  PROVE  /\ now \in Nat /\ m_timeout \in Nat /\ now + m_timeout \in Nat
         /\ m_list \in Seq(Users) /\ expired \in Seq(Users)
         /\ Range(m_list) \subseteq Users
         /\ deadline \in [Users -> Int]
<1>1. /\ now \in Nat /\ m_timeout \in Nat /\ m_list \in Seq(Users) /\ expired \in Seq(Users)
      /\ deadline \in [Users -> Nat]
  BY TimeoutsAssumption, MaxTimeAssumption DEF TimersInv, TypeOK
<1>2. Range(m_list) \subseteq Users
  BY <1>1, RangeIs, ElementOfSeq
<1>. QED BY <1>1, <1>2

(* Moving one deadline to now + m_timeout keeps the bounds on deadlines. *)
LEMMA ResetBounds ==
  ASSUME TimersInv, NEW x \in Users
  PROVE  /\ Reset(x) \in [Users -> Nat]
         /\ \A y \in Users : \E t \in Timeouts : Reset(x)[y] <= now + t
         /\ (\A y \in Users : deadline[y] <= now + m_timeout)
              => \A y \in Users : Reset(x)[y] <= now + m_timeout
<1>1. now \in Nat /\ m_timeout \in Timeouts /\ now + m_timeout \in Nat /\ deadline \in [Users -> Nat]
  BY Facts DEF TimersInv, TypeOK
<1>2. \A y \in Users : Reset(x)[y] = IF y = x THEN now + m_timeout ELSE deadline[y]
  BY <1>1 DEF Reset
<1>3. \A y \in Users : \E t \in Timeouts : Reset(x)[y] <= now + t
  <2>. SUFFICES ASSUME NEW y \in Users PROVE \E t \in Timeouts : Reset(x)[y] <= now + t
    OBVIOUS
  <2>1. CASE y = x
    BY <1>1, <1>2, <2>1
  <2>2. CASE y # x
    BY <1>2, <2>2 DEF TimersInv, TypeOK
  <2>. QED BY <2>1, <2>2
<1>. QED BY <1>1, <1>2, <1>3 DEF Reset

LEMMA InitInv == Init => TimersInv
<1>. SUFFICES ASSUME Init PROVE TimersInv
  OBVIOUS
<1>1. TypeOK
  BY TimeoutsAssumption, MaxTimeAssumption DEF Init, TypeOK
<1>2. IsInjective(m_list) /\ Range(m_list) \cap Range(expired) = {}
  BY DEF Init, IsInjective, Range
<1>3. ListOrdered
  BY DEF Init, ListOrdered, Ordered
<1>4. \A x \in Users : deadline[x] <= now + m_timeout
  BY TimeoutsAssumption DEF Init
<1>. QED BY <1>1, <1>2, <1>3, <1>4 DEF TimersInv

(* start adds the user, its deadline behind all that run out no later. *)
LEMMA StartInv == ASSUME TimersInv, NEW x \in Users, Start(x) PROVE TimersInv'
<1>. USE Facts
<1>1. PICK k \in StartPoints(m_list, deadline, now + m_timeout) : m_list' = Emplace(m_list, k, x)
  BY DEF Start
<1>2. k \in 0..Len(m_list) /\ x \notin Range(m_list) /\ x \notin Range(expired)
  BY DEF Start, StartPoints
<1>3. deadline' = Reset(x) /\ UNCHANGED <<now, m_timeout, expired>>
  BY DEF Start, Reset
<1>4. m_list' \in Seq(Users)
  BY <1>1, <1>2, EmplaceShape
<1>5. TypeOK'
  BY <1>3, <1>4, ResetBounds DEF TimersInv, TypeOK
<1>6. Range(m_list') = Range(m_list) \cup {x} /\ IsInjective(m_list')
  BY <1>1, <1>2, EmplaceUsers DEF TimersInv
<1>7. (Range(m_list) \cap Range(expired) = {})'
  BY <1>2, <1>3, <1>6 DEF TimersInv
<1>8. ASSUME ~TimeoutMayShrink PROVE (\A y \in Users : deadline[y] <= now + m_timeout)' /\ ListOrdered'
  <2>1. (\A y \in Users : deadline[y] <= now + m_timeout)'
    BY <1>3, <1>8, ResetBounds DEF TimersInv
  <2>2. deadline' \in [Users -> Int]
    BY <1>5 DEF TypeOK
  <2>3. ListOrdered'
    BY <1>1, <1>2, <1>3, <1>8, <2>2, StartOrdered DEF TimersInv, ListOrdered, Reset
  <2>. QED BY <2>1, <2>3
<1>. QED BY <1>5, <1>6, <1>7, <1>8 DEF TimersInv

(* restart moves the user; that its new deadline is no earlier than the old  *)
(* one is where the fixed timeout is needed.                                 *)
LEMMA RestartInv == ASSUME TimersInv, NEW x \in Users, Restart(x) PROVE TimersInv'
<1>. USE Facts
<1> DEFINE dl == Reset(x)
           P == RestartPoints(m_list, dl, dl[x])
<1>1. PICK j \in 1..Len(m_list) :
        /\ m_list[j] = x
        /\ deadline' = dl
        /\ \/ \E k \in P : m_list' = Splice(m_list, j, k)
           \/ P = {} /\ UNCHANGED m_list
        /\ UNCHANGED <<now, m_timeout, expired>>
  BY DEF Restart
<1>2. P \subseteq 1..Len(m_list)
  BY DEF RestartPoints
<1>3. dl[x] = now + m_timeout /\ dl = [deadline EXCEPT ![m_list[j]] = dl[x]]
  BY <1>1 DEF Reset
<1>. HIDE DEF dl, P
<1>4. m_list' \in Seq(Users) /\ Range(m_list') = Range(m_list) /\ IsInjective(m_list')
  <2>1. CASE UNCHANGED m_list
    BY <2>1 DEF TimersInv
  <2>2. CASE \E k \in P : m_list' = Splice(m_list, j, k)
    BY <1>2, <2>2, SpliceUsers DEF TimersInv
  <2>. QED BY <1>1, <2>1, <2>2
<1>5. TypeOK'
  BY <1>1, <1>4, ResetBounds DEF TimersInv, TypeOK, dl
<1>6. (Range(m_list) \cap Range(expired) = {})'
  BY <1>1, <1>4 DEF TimersInv
<1>7. ASSUME ~TimeoutMayShrink PROVE (\A y \in Users : deadline[y] <= now + m_timeout)' /\ ListOrdered'
  <2>1. (\A y \in Users : deadline[y] <= now + m_timeout)'
    BY <1>1, <1>7, ResetBounds DEF TimersInv, dl
  <2>2. dl \in [Users -> Int] /\ deadline[m_list[j]] <= dl[x]
    BY <1>1, <1>3, <1>5, <1>7 DEF TimersInv, TypeOK
  <2>3. /\ \A k \in RestartPoints(m_list, dl, dl[x]) : Ordered(Splice(m_list, j, k), dl)
        /\ RestartPoints(m_list, dl, dl[x]) = {} /\ deadline[m_list[j]] <= dl[x] => Ordered(m_list, dl)
    BY <1>3, <1>7, <2>2, RestartOrdered DEF TimersInv, ListOrdered
  <2>. QED BY <1>1, <2>1, <2>2, <2>3 DEF ListOrdered, P
<1>. QED BY <1>4, <1>5, <1>6, <1>7 DEF TimersInv

(* erase of the j-th element, whose deadline is forgotten. *)
LEMMA EraseInv ==
  ASSUME TimersInv, NEW j \in 1..Len(m_list),
         m_list' = RemoveAt(m_list, j),
         deadline' = [deadline EXCEPT ![m_list[j]] = 0],
         UNCHANGED <<now, m_timeout, expired>>
  PROVE  TimersInv'
<1>. USE Facts
<1>1. m_list' \in Seq(Users)
  BY RemoveShape
<1>2. Range(m_list') = Range(m_list) \ {m_list[j]} /\ IsInjective(m_list')
  BY RemoveUsers DEF TimersInv
<1>3. deadline \in [Users -> Nat] /\ deadline' \in [Users -> Nat]
  BY DEF TimersInv, TypeOK
<1>4. \A y \in Users : deadline'[y] <= deadline[y]
  BY <1>3
<1>5. TypeOK'
  <2>1. \A y \in Users : \E t \in Timeouts : deadline'[y] <= now + t
    <3>. SUFFICES ASSUME NEW y \in Users PROVE \E t \in Timeouts : deadline'[y] <= now + t
      OBVIOUS
    <3>1. PICK t \in Timeouts : deadline[y] <= now + t
      BY DEF TimersInv, TypeOK
    <3>. QED BY <1>3, <1>4, <3>1, TimeoutsAssumption
  <2>. QED BY <1>1, <1>3, <2>1 DEF TimersInv, TypeOK
<1>6. ASSUME ~TimeoutMayShrink PROVE (\A y \in Users : deadline[y] <= now + m_timeout)' /\ ListOrdered'
  <2>1. Ordered(m_list', deadline)
    BY <1>6, RemoveOrdered DEF TimersInv, ListOrdered
  <2>2. \A y \in Range(m_list') : deadline'[y] = deadline[y]
    BY <1>2, <1>3
  <2>3. ListOrdered'
    BY <1>1, <2>1, <2>2, OrderedSame DEF ListOrdered
  <2>4. (\A y \in Users : deadline[y] <= now + m_timeout)'
    BY <1>3, <1>4, <1>6 DEF TimersInv
  <2>. QED BY <2>3, <2>4
<1>. QED BY <1>2, <1>5, <1>6 DEF TimersInv

LEMMA DestoryInv == ASSUME TimersInv, NEW x \in Users, Destory(x) PROVE TimersInv'
BY EraseInv DEF Destory

LEMMA TakeFirstInv == ASSUME TimersInv, TakeFirst PROVE TimersInv'
<1>1. 1 \in 1..Len(m_list) /\ Head(m_list) = m_list[1] /\ Tail(m_list) = RemoveAt(m_list, 1)
  BY Facts, TailIsErase DEF TakeFirst
<1>. QED BY <1>1, EraseInv DEF TakeFirst

(* checkout hands over a prefix of the list. *)
LEMMA CheckoutInv == ASSUME TimersInv, Checkout PROVE TimersInv'
<1>. USE Facts
<1>1. PICK n \in ExpiredPrefixes(m_list, deadline, now) :
        /\ expired' = expired \o Taken(m_list, n)
        /\ m_list' = Remaining(m_list, n)
        /\ deadline' = [x \in Users |-> IF x \in Range(Taken(m_list, n)) THEN 0 ELSE deadline[x]]
        /\ UNCHANGED <<now, m_timeout>>
  BY DEF Checkout
<1>2. n \in 0..Len(m_list)
  BY DEF ExpiredPrefixes
<1>3. Taken(m_list, n) \in Seq(Users) /\ m_list' \in Seq(Users)
  BY <1>1, <1>2, SplitShape
<1>4. /\ Range(Taken(m_list, n)) \cup Range(m_list') = Range(m_list)
      /\ Range(Taken(m_list, n)) \cap Range(m_list') = {}
      /\ IsInjective(m_list')
  BY <1>1, <1>2, SplitUsers DEF TimersInv
<1>5. expired' \in Seq(Users) /\ Range(expired') = Range(expired) \cup Range(Taken(m_list, n))
  BY <1>1, <1>3, ConcatUsers
<1>6. deadline \in [Users -> Nat] /\ deadline' \in [Users -> Nat]
  BY <1>1 DEF TimersInv, TypeOK
<1>7. \A y \in Users : deadline'[y] <= deadline[y]
  BY <1>1, <1>6
<1>8. TypeOK'
  <2>1. \A y \in Users : \E t \in Timeouts : deadline'[y] <= now + t
    <3>. SUFFICES ASSUME NEW y \in Users PROVE \E t \in Timeouts : deadline'[y] <= now + t
      OBVIOUS
    <3>1. PICK t \in Timeouts : deadline[y] <= now + t
      BY DEF TimersInv, TypeOK
    <3>. QED BY <1>6, <1>7, <3>1, TimeoutsAssumption
  <2>. QED BY <1>1, <1>3, <1>5, <1>6, <2>1 DEF TimersInv, TypeOK
<1>9. ASSUME ~TimeoutMayShrink PROVE (\A y \in Users : deadline[y] <= now + m_timeout)' /\ ListOrdered'
  <2>1. Ordered(m_list', deadline)
    <3>1. Ordered(m_list, deadline) /\ now \in Int /\ deadline \in [Users -> Int]
      BY <1>9 DEF TimersInv, ListOrdered
    <3>. QED BY <1>1, <3>1, CheckoutSplit
  <2>2. \A y \in Range(m_list') : deadline'[y] = deadline[y]
    BY <1>1, <1>4
  <2>3. ListOrdered'
    BY <1>3, <2>1, <2>2, OrderedSame DEF ListOrdered
  <2>4. (\A y \in Users : deadline[y] <= now + m_timeout)'
    BY <1>1, <1>6, <1>7, <1>9 DEF TimersInv
  <2>. QED BY <2>3, <2>4
<1>. QED BY <1>4, <1>5, <1>8, <1>9 DEF TimersInv

LEMMA DisposeInv == ASSUME TimersInv, Dispose PROVE TimersInv'
<1>1. Range(expired') = {} /\ expired' \in Seq(Users)
  BY DEF Dispose, Range
<1>. QED BY <1>1 DEF Dispose, TimersInv, TypeOK, ListOrdered, Ordered

LEMMA AdvanceInv == ASSUME TimersInv, Advance PROVE TimersInv'
<1>. USE Facts
<1>1. now' = now + 1 /\ now' \in 0..MaxTime /\ UNCHANGED <<m_timeout, m_list, deadline, expired>>
  BY MaxTimeAssumption DEF Advance, TimersInv, TypeOK
<1>2. \A x \in Users : \E t \in Timeouts : deadline[x] <= now' + t
  <2>. SUFFICES ASSUME NEW x \in Users PROVE \E t \in Timeouts : deadline[x] <= now' + t
    OBVIOUS
  <2>1. PICK t \in Timeouts : deadline[x] <= now + t
    BY DEF TimersInv, TypeOK
  <2>. QED BY <1>1, <2>1, TimeoutsAssumption
<1>3. TypeOK'
  BY <1>1, <1>2 DEF TimersInv, TypeOK
<1>4. ~TimeoutMayShrink => (\A x \in Users : deadline[x] <= now + m_timeout)' /\ ListOrdered'
  BY <1>1 DEF TimersInv, ListOrdered, Ordered
<1>. QED BY <1>1, <1>3, <1>4 DEF TimersInv

LEMMA SetTimeoutInv == ASSUME TimersInv, NEW t \in Timeouts, SetTimeout(t) PROVE TimersInv'
<1>. USE Facts
<1>1. m_timeout' = t /\ t \in Nat /\ UNCHANGED <<now, m_list, deadline, expired>>
  BY TimeoutsAssumption DEF SetTimeout
<1>2. TypeOK'
  BY <1>1 DEF TimersInv, TypeOK
<1>3. ASSUME ~TimeoutMayShrink PROVE (\A x \in Users : deadline[x] <= now + m_timeout)' /\ ListOrdered'
  <2>1. t > m_timeout
    BY <1>3 DEF SetTimeout
  <2>. QED BY <1>1, <1>3, <2>1 DEF TimersInv, ListOrdered, Ordered
<1>. QED BY <1>1, <1>2, <1>3 DEF TimersInv

LEMMA NextInv == TimersInv /\ [Next]_vars => TimersInv'
<1>. SUFFICES ASSUME TimersInv, [Next]_vars PROVE TimersInv'
  OBVIOUS
<1>1. CASE \E x \in Users : Start(x) \/ Restart(x) \/ Destory(x)
  BY <1>1, StartInv, RestartInv, DestoryInv
<1>2. CASE Checkout \/ TakeFirst \/ Dispose \/ Advance
  BY <1>2, CheckoutInv, TakeFirstInv, DisposeInv, AdvanceInv
<1>3. CASE \E t \in Timeouts : SetTimeout(t)
  BY <1>3, SetTimeoutInv
<1>4. CASE UNCHANGED vars
  BY <1>4 DEF vars, TimersInv, TypeOK, ListOrdered, Ordered
<1>. QED BY <1>1, <1>2, <1>3, <1>4 DEF Next

(* No user is ever on the list twice, or on it and handed over, and no timer *)
(* runs longer than the longest timeout, whatever setTimeout is given.       *)
THEOREM TimersInvariant == Spec => []TimersInv
<1>. QED BY InitInv, NextInv, PTL DEF Spec

(* Nothing sorts the list of timers, yet it stays in the order of the        *)
(* deadlines, as long as setTimeout is never given less than before.         *)
THEOREM ListStaysOrdered ==
  ASSUME TimeoutMayShrink = FALSE
  PROVE  Spec => []ListOrdered
<1>1. TimersInv => ListOrdered
  BY DEF TimersInv
<1>. QED BY <1>1, TimersInvariant, PTL

(* checkout looks only at the front of the list and still takes exactly the  *)
(* timers that have run out.                                                 *)
THEOREM CheckoutTakesExactly ==
  ASSUME TimeoutMayShrink = FALSE
  PROVE  Spec => CheckoutExact
<1>1. ASSUME TimersInv, Checkout
      PROVE  /\ \A x \in Range(m_list') : deadline[x] > now
             /\ \A x \in Range(m_list) \ Range(m_list') : deadline[x] <= now
  <2>. USE Facts
  <2>1. PICK n \in ExpiredPrefixes(m_list, deadline, now) : m_list' = Remaining(m_list, n)
    BY <1>1 DEF Checkout
  <2>2. n \in 0..Len(m_list)
    BY DEF ExpiredPrefixes
  <2>3. /\ \A x \in Range(Taken(m_list, n)) : deadline[x] <= now
        /\ \A x \in Range(m_list') : now < deadline[x]
    BY <1>1, <2>1, CheckoutSplit DEF TimersInv, ListOrdered
  <2>4. Range(Taken(m_list, n)) \cup Range(m_list') = Range(m_list)
    BY <1>1, <2>1, <2>2, SplitUsers DEF TimersInv
  <2>5. \A x \in Range(m_list') : deadline[x] \in Int
    BY <1>1, <2>4
  <2>. QED BY <1>1, <2>3, <2>4, <2>5
<1>. QED BY <1>1, TimersInvariant, PTL DEF Spec, CheckoutExact

-----------------------------------------------------------------------------
(* The refinement: a list of users implements the set of them. *)

LEMMA InitRefines == Init => Abstract!Init
<1>1. Init => Range(m_list) = {} /\ Range(expired) = {}
  BY DEF Init, Range
<1>. QED BY <1>1 DEF Init, Abstract!Init

(* start and restart both arm the user's timer. *)
LEMMA ArmRefines ==
  ASSUME TimersInv, NEW x \in Users, Start(x) \/ Restart(x)
  PROVE  Abstract!Arm(x)
<1>. USE Facts
<1>1. CASE Start(x)
  <2>1. PICK k \in StartPoints(m_list, deadline, now + m_timeout) : m_list' = Emplace(m_list, k, x)
    BY <1>1 DEF Start
  <2>2. k \in 0..Len(m_list) /\ x \notin Range(m_list)
    BY <1>1 DEF Start, StartPoints
  <2>3. Range(m_list') = Range(m_list) \cup {x}
    BY <2>1, <2>2, EmplaceUsers DEF TimersInv
  <2>. QED BY <1>1, <2>3 DEF Start, Abstract!Arm
<1>2. CASE Restart(x)
  <2> DEFINE dl == Reset(x)
             P == RestartPoints(m_list, dl, dl[x])
  <2>1. PICK j \in 1..Len(m_list) :
          /\ m_list[j] = x
          /\ deadline' = dl
          /\ \/ \E k \in P : m_list' = Splice(m_list, j, k)
             \/ P = {} /\ UNCHANGED m_list
          /\ UNCHANGED <<now, m_timeout, expired>>
    BY <1>2 DEF Restart
  <2>2. P \subseteq 1..Len(m_list)
    BY DEF RestartPoints
  <2>3. x \in Range(m_list) /\ x \notin Range(expired)
    BY <2>1, RangeIs DEF TimersInv
  <2>. HIDE DEF P
  <2>4. Range(m_list') = Range(m_list)
    <3>1. CASE \E k \in P : m_list' = Splice(m_list, j, k)
      BY <2>2, <3>1, SpliceUsers DEF TimersInv
    <3>. QED BY <2>1, <3>1
  <2>. QED BY <2>1, <2>3, <2>4 DEF Abstract!Arm, Reset
<1>. QED BY <1>1, <1>2

(* destory and takeFirst disarm one timer. *)
LEMMA DisarmRefines ==
  ASSUME TimersInv, (\E x \in Users : Destory(x)) \/ TakeFirst
  PROVE  \E x \in Users : Abstract!Disarm(x)
<1>. USE Facts
<1>1. \E j \in 1..Len(m_list) :
        /\ m_list' = RemoveAt(m_list, j)
        /\ deadline' = [deadline EXCEPT ![m_list[j]] = 0]
        /\ UNCHANGED <<now, m_timeout, expired>>
  <2>1. CASE \E x \in Users : Destory(x)
    BY <2>1 DEF Destory
  <2>2. CASE TakeFirst
    <3>1. 1 \in 1..Len(m_list) /\ Head(m_list) = m_list[1] /\ Tail(m_list) = RemoveAt(m_list, 1)
      BY <2>2, TailIsErase DEF TakeFirst
    <3>. QED BY <2>2, <3>1 DEF TakeFirst
  <2>. QED BY <2>1, <2>2
<1>2. PICK j \in 1..Len(m_list) :
        /\ m_list' = RemoveAt(m_list, j)
        /\ deadline' = [deadline EXCEPT ![m_list[j]] = 0]
        /\ UNCHANGED <<now, m_timeout, expired>>
  BY <1>1
<1>3. Range(m_list') = Range(m_list) \ {m_list[j]}
  BY <1>2, RemoveUsers DEF TimersInv
<1>4. m_list[j] \in Users /\ m_list[j] \in Range(m_list)
  BY RangeIs
<1>. QED BY <1>2, <1>3, <1>4 DEF Abstract!Disarm

(* A checkout hands over all that have run out, because the list is ordered. *)
LEMMA RunOutRefines ==
  ASSUME TimersInv, ~TimeoutMayShrink, Checkout
  PROVE  Abstract!RunOut
<1>. USE Facts
<1>1. PICK n \in ExpiredPrefixes(m_list, deadline, now) :
        /\ expired' = expired \o Taken(m_list, n)
        /\ m_list' = Remaining(m_list, n)
        /\ deadline' = [x \in Users |-> IF x \in Range(Taken(m_list, n)) THEN 0 ELSE deadline[x]]
        /\ UNCHANGED <<now, m_timeout>>
  BY DEF Checkout
<1>2. n \in 0..Len(m_list)
  BY DEF ExpiredPrefixes
<1> DEFINE t == Taken(m_list, n)
<1>3. t \in Seq(Users)
  BY <1>2, SplitShape
<1>4. /\ Range(t) \cup Range(m_list') = Range(m_list)
      /\ Range(t) \cap Range(m_list') = {}
  BY <1>1, <1>2, SplitUsers DEF TimersInv
<1>5. Range(expired') = Range(expired) \cup Range(t)
  BY <1>1, <1>3, ConcatUsers
<1>6. Ordered(m_list, deadline) /\ now \in Int /\ deadline \in [Users -> Int]
  BY DEF TimersInv, ListOrdered
<1>7. /\ \A x \in Range(t) : deadline[x] <= now
      /\ \A x \in Range(m_list') : now < deadline[x]
  BY <1>1, <1>6, CheckoutSplit
<1>. HIDE DEF t
<1>8. Range(t) = {x \in Range(m_list) : deadline[x] <= now}
  BY <1>4, <1>6, <1>7
<1>9. Range(m_list') = Range(m_list) \ Range(t)
  BY <1>4
<1>. QED BY <1>1, <1>5, <1>8, <1>9 DEF Abstract!RunOut, t

LEMMA StepRefines ==
  ASSUME TimersInv, ~TimeoutMayShrink, [Next]_vars
  PROVE  [Abstract!Next]_(Abstract!vars)
<1>1. CASE \E x \in Users : Start(x) \/ Restart(x)
  BY <1>1, ArmRefines DEF Abstract!Next
<1>2. CASE (\E x \in Users : Destory(x)) \/ TakeFirst
  BY <1>2, DisarmRefines DEF Abstract!Next
<1>3. CASE Checkout
  BY <1>3, RunOutRefines DEF Abstract!Next
<1>4. CASE Dispose
  <2>1. Range(expired') = {}
    BY <1>4 DEF Dispose, Range
  <2>. QED BY <1>4, <2>1 DEF Dispose, Abstract!Dispose, Abstract!Next
<1>5. CASE Advance
  BY <1>5 DEF Advance, Abstract!Advance, Abstract!Next
<1>6. CASE \E t \in Timeouts : SetTimeout(t)
  BY <1>6 DEF SetTimeout, Abstract!SetTimeout, Abstract!Next
<1>7. CASE UNCHANGED vars
  BY <1>7 DEF vars, Abstract!vars
<1>. QED BY <1>1, <1>2, <1>3, <1>4, <1>5, <1>6, <1>7 DEF Next

(* The ordered list with its two insertion loops and its checkout of a       *)
(* prefix is the set of timers that TimerSet promises: at most one timer per *)
(* user, none expires early, and a checkout hands over all that have run out.*)
THEOREM ListImplementsTimerSet ==
  ASSUME TimeoutMayShrink = FALSE
  PROVE  Spec => ImplementsTimerSet
<1>1. Init => Abstract!Init
  BY InitRefines
<1>2. TimersInv /\ [Next]_vars => [Abstract!Next]_(Abstract!vars)
  BY StepRefines
<1>. QED BY <1>1, <1>2, TimersInvariant, PTL DEF Spec, ImplementsTimerSet, Abstract!Spec
=============================================================================
