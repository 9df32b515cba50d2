--------------------------- MODULE TimerListProofs ---------------------------
(***************************************************************************)
(* What the list operations of TimerManager do to the users on the list    *)
(* and to their order, for lists of any length: the lemmas on which the    *)
(* proofs about TimerManager and the event loops rest.                     *)
(***************************************************************************)
EXTENDS TimerList, SequenceTheorems, WellFoundedInduction, TLAPS

(* Element by element: emplace shifts what lies behind the position. *)
LEMMA EmplaceShape ==
  ASSUME NEW S, NEW s \in Seq(S), NEW k \in 0..Len(s), NEW x \in S
  PROVE  /\ Emplace(s, k, x) \in Seq(S)
         /\ Len(Emplace(s, k, x)) = Len(s) + 1
         /\ \A i \in 1..k : Emplace(s, k, x)[i] = s[i]
         /\ Emplace(s, k, x)[k + 1] = x
         /\ \A i \in k + 1..Len(s) : Emplace(s, k, x)[i + 1] = s[i]
<1> DEFINE a == SubSeq(s, 1, k)
           b == SubSeq(s, k + 1, Len(s))
<1>1. Emplace(s, k, x) = (a \o <<x>>) \o b
  <2>1. (k + 1) - 1 = k
    OBVIOUS
  <2>. QED BY <2>1, Zenon DEF Emplace, InsertAt
<1>2. \A i \in 1..Len(s) : s[i] \in S
  BY ElementOfSeq
<1>3. /\ a \in Seq(S) /\ Len(a) = k
      /\ \A i \in 1..k : a[i] = s[i]
  BY <1>2, SubSeqProperties
<1>4. /\ b \in Seq(S) /\ Len(b) = Len(s) - k
      /\ \A i \in 1..Len(s) - k : b[i] = s[k + i]
  <2>1. \A i \in k + 1..Len(s) : s[i] \in S
    BY <1>2
  <2>. QED BY <2>1, SubSeqProperties
<1>5. <<x>> \in Seq(S) /\ Len(<<x>>) = 1 /\ <<x>>[1] = x
  OBVIOUS
<1>6. /\ a \o <<x>> \in Seq(S)
      /\ Len(a \o <<x>>) = k + 1
      /\ \A i \in 1..k : (a \o <<x>>)[i] = s[i]
      /\ (a \o <<x>>)[k + 1] = x
  <2> HIDE DEF a
  <2>. QED BY <1>3, <1>5, ConcatProperties
<1>. DEFINE ax == a \o <<x>>
<1>. HIDE DEF a, b, ax
<1>7. /\ ax \o b \in Seq(S)
      /\ Len(ax \o b) = Len(s) + 1
      /\ \A i \in 1..k + 1 : (ax \o b)[i] = ax[i]
      /\ \A i \in k + 1..Len(s) : (ax \o b)[i + 1] = b[i - k]
  BY <1>4, <1>6, ConcatProperties DEF ax
<1>8. ASSUME NEW i \in k + 1..Len(s)
      PROVE  (ax \o b)[i + 1] = s[i]
  <2>1. (ax \o b)[i + 1] = b[i - k]
    BY <1>7
  <2>2. Len(s) \in Nat
    BY LenProperties
  <2>3. i - k \in 1..Len(s) - k /\ k + (i - k) = i
    BY <2>2
  <2>4. b[i - k] = s[k + (i - k)]
    BY <1>4, <2>3
  <2>. QED BY <2>1, <2>3, <2>4
<1>. QED BY <1>1, <1>6, <1>7, <1>8 DEF ax

(* Element by element: erase closes the gap. *)
LEMMA RemoveShape ==
  ASSUME NEW S, NEW s \in Seq(S), NEW j \in 1..Len(s)
  PROVE  /\ RemoveAt(s, j) \in Seq(S)
         /\ Len(RemoveAt(s, j)) = Len(s) - 1
         /\ \A i \in 1..j - 1 : RemoveAt(s, j)[i] = s[i]
         /\ \A i \in j..Len(s) - 1 : RemoveAt(s, j)[i] = s[i + 1]
<1> DEFINE a == SubSeq(s, 1, j - 1)
           b == SubSeq(s, j + 1, Len(s))
<1>1. RemoveAt(s, j) = a \o b
  BY DEF RemoveAt
<1>2. \A i \in 1..Len(s) : s[i] \in S
  BY ElementOfSeq
<1>3. /\ a \in Seq(S) /\ Len(a) = j - 1
      /\ \A i \in 1..j - 1 : a[i] = s[i]
  BY <1>2, SubSeqProperties
<1>4. /\ b \in Seq(S) /\ Len(b) = Len(s) - j
      /\ \A i \in 1..Len(s) - j : b[i] = s[j + i]
  <2>1. \A i \in j + 1..Len(s) : s[i] \in S
    BY <1>2
  <2>. QED BY <2>1, SubSeqProperties
<1>. HIDE DEF a, b
<1>5. /\ a \o b \in Seq(S)
      /\ Len(a \o b) = Len(s) - 1
      /\ \A i \in 1..j - 1 : (a \o b)[i] = a[i]
      /\ \A i \in j..Len(s) - 1 : (a \o b)[i] = b[i - (j - 1)]
  BY <1>3, <1>4, ConcatProperties
<1>6. ASSUME NEW i \in j..Len(s) - 1
      PROVE  (a \o b)[i] = s[i + 1]
  <2>1. (a \o b)[i] = b[i - (j - 1)]
    BY <1>5
  <2>2. Len(s) \in Nat
    BY LenProperties
  <2>3. i - (j - 1) \in 1..Len(s) - j /\ j + (i - (j - 1)) = i + 1
    BY <2>2
  <2>4. b[i - (j - 1)] = s[j + (i - (j - 1))]
    BY <1>4, <2>3
  <2>. QED BY <2>1, <2>3, <2>4
<1>. QED BY <1>1, <1>3, <1>5, <1>6

(* Element by element: what checkout takes and what it leaves. *)
LEMMA SplitShape ==
  ASSUME NEW S, NEW s \in Seq(S), NEW n \in 0..Len(s)
  PROVE  /\ Taken(s, n) \in Seq(S) /\ Len(Taken(s, n)) = n
         /\ \A i \in 1..n : Taken(s, n)[i] = s[i]
         /\ Remaining(s, n) \in Seq(S) /\ Len(Remaining(s, n)) = Len(s) - n
         /\ \A i \in 1..Len(s) - n : Remaining(s, n)[i] = s[n + i]
<1>1. \A i \in 1..Len(s) : s[i] \in S
  BY ElementOfSeq
<1>2. \A i \in n + 1..Len(s) : s[i] \in S
  BY <1>1
<1>. QED BY <1>1, <1>2, SubSeqProperties DEF Taken, Remaining

LEMMA RangeIs ==
  ASSUME NEW S, NEW s \in Seq(S)
  PROVE  Range(s) = {s[i] : i \in 1..Len(s)}
BY LenProperties DEF Range

LEMMA InjectiveIs ==
  ASSUME NEW S, NEW s \in Seq(S)
  PROVE  IsInjective(s) <=> \A i, j \in 1..Len(s) : s[i] = s[j] => i = j
BY LenProperties DEF IsInjective

(* start adds one user, who must not have been on the list. *)
LEMMA EmplaceUsers ==
  ASSUME NEW S, NEW s \in Seq(S), NEW k \in 0..Len(s), NEW x \in S,
         IsInjective(s), x \notin Range(s)
  PROVE  /\ Range(Emplace(s, k, x)) = Range(s) \cup {x}
         /\ IsInjective(Emplace(s, k, x))
<1> DEFINE e == Emplace(s, k, x)
<1>1. /\ e \in Seq(S) /\ Len(e) = Len(s) + 1
      /\ \A i \in 1..k : e[i] = s[i]
      /\ e[k + 1] = x
      /\ \A i \in k + 1..Len(s) : e[i + 1] = s[i]
  <2>1. e \in Seq(S) /\ Len(e) = Len(s) + 1
    BY EmplaceShape
  <2>2. \A i \in 1..k : e[i] = s[i]
    BY EmplaceShape
  <2>3. e[k + 1] = x
    BY EmplaceShape
  <2>4. \A i \in k + 1..Len(s) : e[i + 1] = s[i]
    BY EmplaceShape
  <2>. QED BY <2>1, <2>2, <2>3, <2>4
<1>2. \A i \in 1..Len(s) : s[i] # x
  BY RangeIs
<1>3. \A i, j \in 1..Len(s) : s[i] = s[j] => i = j
  BY InjectiveIs
<1>. HIDE DEF e
<1>4. \A i \in 1..Len(s) : \E j \in 1..Len(e) : e[j] = s[i]
  <2>. SUFFICES ASSUME NEW i \in 1..Len(s) PROVE \E j \in 1..Len(e) : e[j] = s[i]
    OBVIOUS
  <2>1. CASE i <= k
    BY <1>1, <2>1
  <2>2. CASE i > k
    <3>1. i + 1 \in 1..Len(e) /\ e[i + 1] = s[i]
      BY <1>1, <2>2
    <3>. QED BY <3>1
  <2>. QED BY <2>1, <2>2
<1>5. k + 1 \in 1..Len(e) /\ e[k + 1] = x
  BY <1>1
<1>6. \A j \in 1..Len(e) : e[j] = x \/ \E i \in 1..Len(s) : e[j] = s[i]
  <2>. SUFFICES ASSUME NEW j \in 1..Len(e), e[j] # x
               PROVE  \E i \in 1..Len(s) : e[j] = s[i]
    OBVIOUS
  <2>1. CASE j <= k
    BY <1>1, <2>1
  <2>2. CASE j > k
    <3>1. j - 1 \in 1..Len(s) /\ e[j] = s[j - 1]
      BY <1>1, <2>2
    <3>. QED BY <3>1
  <2>. QED BY <2>1, <2>2
<1>7. Range(e) = Range(s) \cup {x}
  <2>1. Range(e) = {e[i] : i \in 1..Len(e)} /\ Range(s) = {s[i] : i \in 1..Len(s)}
    BY <1>1, RangeIs
  <2>. QED BY <2>1, <1>4, <1>5, <1>6
<1>8. \A i, j \in 1..Len(e) : e[i] = e[j] => i = j
  <2>1. \A i \in 1..Len(e) :
          \/ i \in 1..k /\ e[i] = s[i]
          \/ i = k + 1 /\ e[i] = x
          \/ i - 1 \in k + 1..Len(s) /\ e[i] = s[i - 1]
    <3>. SUFFICES ASSUME NEW i \in 1..Len(e), ~(i <= k), i # k + 1
                 PROVE  i - 1 \in k + 1..Len(s) /\ e[i] = s[i - 1]
      BY <1>1
    <3>1. i - 1 \in k + 1..Len(s) /\ (i - 1) + 1 = i
      BY <1>1
    <3>. QED BY <1>1, <3>1
  <2>2. k \in Nat /\ Len(s) \in Nat /\ k <= Len(s) /\ Len(e) = Len(s) + 1
    BY <1>1
  <2>. SUFFICES ASSUME NEW i \in 1..Len(e), NEW j \in 1..Len(e), e[i] = e[j], i < j
               PROVE  FALSE
    BY <1>1, <2>2
  <2>3. CASE i \in 1..k
    BY <1>2, <1>3, <2>1, <2>2, <2>3
  <2>4. CASE i = k + 1
    BY <1>2, <2>1, <2>2, <2>4
  <2>5. CASE i - 1 \in k + 1..Len(s) /\ e[i] = s[i - 1]
    <3>0. i \in Int /\ j \in Int /\ i > k + 1 /\ j > k + 1
      BY <2>2, <2>5
    <3>1. j - 1 \in k + 1..Len(s) /\ e[j] = s[j - 1]
      BY <2>1, <2>2, <3>0
    <3>2. i - 1 \in 1..Len(s) /\ j - 1 \in 1..Len(s)
      BY <2>2, <2>5, <3>1
    <3>3. s[i - 1] = s[j - 1]
      BY <2>5, <3>1
    <3>. QED BY <1>3, <3>0, <3>2, <3>3
  <2>. QED BY <2>1, <2>3, <2>4, <2>5
<1>9. IsInjective(e)
  BY <1>1, <1>8, InjectiveIs
<1>. QED BY <1>7, <1>9 DEF e

(* destory takes away exactly the user whose iterator it was given. *)
LEMMA RemoveUsers ==
  ASSUME NEW S, NEW s \in Seq(S), NEW j \in 1..Len(s), IsInjective(s)
  PROVE  /\ Range(RemoveAt(s, j)) = Range(s) \ {s[j]}
         /\ IsInjective(RemoveAt(s, j))
<1> DEFINE r == RemoveAt(s, j)
<1>1. /\ r \in Seq(S) /\ Len(r) = Len(s) - 1
      /\ \A i \in 1..j - 1 : r[i] = s[i]
      /\ \A i \in j..Len(s) - 1 : r[i] = s[i + 1]
  BY RemoveShape
<1>2. \A h, i \in 1..Len(s) : s[h] = s[i] => h = i
  BY InjectiveIs
<1>. HIDE DEF r
<1>3. \A i \in 1..Len(s) : i # j => \E h \in 1..Len(r) : r[h] = s[i]
  <2>. SUFFICES ASSUME NEW i \in 1..Len(s), i # j PROVE \E h \in 1..Len(r) : r[h] = s[i]
    OBVIOUS
  <2>1. CASE i < j
    BY <1>1, <2>1
  <2>2. CASE i > j
    <3>1. i - 1 \in 1..Len(r) /\ r[i - 1] = s[i]
      BY <1>1, <2>2
    <3>. QED BY <3>1
  <2>. QED BY <2>1, <2>2
<1>4. \A h \in 1..Len(r) : \E i \in 1..Len(s) : i # j /\ r[h] = s[i]
  <2>. SUFFICES ASSUME NEW h \in 1..Len(r)
               PROVE  \E i \in 1..Len(s) : i # j /\ r[h] = s[i]
    OBVIOUS
  <2>1. CASE h < j
    BY <1>1, <2>1
  <2>2. CASE h >= j
    <3>1. h + 1 \in 1..Len(s) /\ h + 1 # j /\ r[h] = s[h + 1]
      BY <1>1, <2>2
    <3>. QED BY <3>1
  <2>. QED BY <2>1, <2>2
<1>5. Range(r) = Range(s) \ {s[j]}
  <2>1. Range(r) = {r[i] : i \in 1..Len(r)} /\ Range(s) = {s[i] : i \in 1..Len(s)}
    BY <1>1, RangeIs
  <2>. QED BY SMTT(40), <2>1, <1>2, <1>3, <1>4
<1>6. \A h, i \in 1..Len(r) : r[h] = r[i] => h = i
  BY <1>1, <1>2
<1>7. IsInjective(r)
  BY <1>1, <1>6, InjectiveIs
<1>. QED BY <1>5, <1>7 DEF r

(* restart moves a user and leaves the users as they were. *)
LEMMA SpliceUsers ==
  ASSUME NEW S, NEW s \in Seq(S), NEW j \in 1..Len(s), NEW k \in 1..Len(s), IsInjective(s)
  PROVE  /\ Splice(s, j, k) \in Seq(S)
         /\ Range(Splice(s, j, k)) = Range(s)
         /\ IsInjective(Splice(s, j, k))
<1> DEFINE r == RemoveAt(s, j)
           m == IF j <= k THEN k - 1 ELSE k
<1>1. r \in Seq(S) /\ Len(r) = Len(s) - 1 /\ m \in 0..Len(r)
  BY RemoveShape
<1>2. Range(r) = Range(s) \ {s[j]} /\ IsInjective(r)
  BY RemoveUsers
<1>3. s[j] \in S /\ s[j] \in Range(s)
  BY ElementOfSeq, RangeIs
<1>4. Splice(s, j, k) = Emplace(r, m, s[j])
  BY DEF Splice, Emplace
<1>. HIDE DEF r, m
<1>5. Emplace(r, m, s[j]) \in Seq(S)
  BY <1>1, <1>3, EmplaceShape
<1>6. s[j] \notin Range(r)
  BY <1>2
<1>7. /\ Range(Emplace(r, m, s[j])) = Range(r) \cup {s[j]}
      /\ IsInjective(Emplace(r, m, s[j]))
  BY <1>1, <1>2, <1>3, <1>6, EmplaceUsers
<1>. QED BY <1>2, <1>3, <1>4, <1>5, <1>7

(* checkout splits the users in two. *)
LEMMA SplitUsers ==
  ASSUME NEW S, NEW s \in Seq(S), NEW n \in 0..Len(s), IsInjective(s)
  PROVE  /\ Range(Taken(s, n)) \cup Range(Remaining(s, n)) = Range(s)
         /\ Range(Taken(s, n)) \cap Range(Remaining(s, n)) = {}
         /\ IsInjective(Remaining(s, n))
<1> DEFINE t == Taken(s, n)
           r == Remaining(s, n)
<1>1. /\ t \in Seq(S) /\ Len(t) = n /\ \A i \in 1..n : t[i] = s[i]
      /\ r \in Seq(S) /\ Len(r) = Len(s) - n /\ \A i \in 1..Len(s) - n : r[i] = s[n + i]
  BY SplitShape
<1>2. \A h, i \in 1..Len(s) : s[h] = s[i] => h = i
  BY InjectiveIs
<1>. HIDE DEF t, r
<1>3. /\ Range(s) = {s[i] : i \in 1..Len(s)}
      /\ Range(t) = {t[i] : i \in 1..Len(t)}
      /\ Range(r) = {r[i] : i \in 1..Len(r)}
  BY <1>1, RangeIs
<1>4. \A i \in 1..Len(s) : (\E h \in 1..Len(t) : t[h] = s[i]) \/ (\E h \in 1..Len(r) : r[h] = s[i])
  <2>. SUFFICES ASSUME NEW i \in 1..Len(s)
               PROVE (\E h \in 1..Len(t) : t[h] = s[i]) \/ (\E h \in 1..Len(r) : r[h] = s[i])
    OBVIOUS
  <2>1. CASE i <= n
    BY <1>1, <2>1
  <2>2. CASE i > n
    <3>1. i - n \in 1..Len(r) /\ r[i - n] = s[i]
      BY <1>1, <2>2
    <3>. QED BY <3>1
  <2>. QED BY <2>1, <2>2
<1>5. \A h \in 1..Len(t) : h \in 1..Len(s) /\ t[h] = s[h]
  BY <1>1
<1>6. \A h \in 1..Len(r) : n + h \in 1..Len(s) /\ r[h] = s[n + h]
  BY <1>1
<1>7. Range(t) \cup Range(r) = Range(s)
  BY ZenonT(60), <1>3, <1>4, <1>5, <1>6
<1>8. \A h \in 1..Len(t), i \in 1..Len(r) : t[h] # r[i]
  BY <1>1, <1>2, <1>5, <1>6
<1>9. Range(t) \cap Range(r) = {}
  BY <1>3, <1>8
<1>10. \A h, i \in 1..Len(r) : r[h] = r[i] => h = i
  BY <1>1, <1>2
<1>11. IsInjective(r)
  BY <1>1, <1>10, InjectiveIs
<1>. QED BY <1>7, <1>9, <1>11 DEF t, r

-----------------------------------------------------------------------------
(* The order of the list. *)

(* Every element of the list with one more is the new one or an old one, and *)
(* one lies before another as it did.                                        *)
LEMMA EmplaceFrom ==
  ASSUME NEW S, NEW s \in Seq(S), NEW k \in 0..Len(s), NEW x \in S,
         NEW i \in 1..Len(Emplace(s, k, x))
  PROVE  \/ i \in 1..k /\ Emplace(s, k, x)[i] = s[i]
         \/ i = k + 1 /\ Emplace(s, k, x)[i] = x
         \/ i - 1 \in k + 1..Len(s) /\ Emplace(s, k, x)[i] = s[i - 1]
<1> DEFINE e == Emplace(s, k, x)
<1>1. /\ Len(e) = Len(s) + 1
      /\ \A h \in 1..k : e[h] = s[h]
      /\ e[k + 1] = x
      /\ \A h \in k + 1..Len(s) : e[h + 1] = s[h]
  <2>1. Len(e) = Len(s) + 1
    BY EmplaceShape
  <2>2. \A h \in 1..k : e[h] = s[h]
    BY EmplaceShape
  <2>3. e[k + 1] = x
    BY EmplaceShape
  <2>4. \A h \in k + 1..Len(s) : e[h + 1] = s[h]
    BY EmplaceShape
  <2>. QED BY <2>1, <2>2, <2>3, <2>4
<1>2. Len(s) \in Nat /\ k \in Nat
  BY LenProperties
<1>. HIDE DEF e
<1>3. i \in 1..Len(e)
  BY DEF e
<1>4. CASE i <= k
  BY <1>1, <1>2, <1>3, <1>4 DEF e
<1>5. CASE i = k + 1
  BY <1>1, <1>5 DEF e
<1>6. CASE i > k + 1
  <2>1. i - 1 \in k + 1..Len(s) /\ (i - 1) + 1 = i
    BY <1>1, <1>2, <1>3, <1>6
  <2>2. e[(i - 1) + 1] = s[i - 1]
    BY <1>1, <2>1
  <2>. QED BY <2>1, <2>2 DEF e
<1>. QED BY <1>2, <1>3, <1>4, <1>5, <1>6

(* A timer is put behind what runs out no later and before what runs out no  *)
(* earlier.                                                                  *)
LEMMA EmplaceOrdered ==
  ASSUME NEW S, NEW s \in Seq(S), NEW k \in 0..Len(s), NEW x \in S,
         NEW dl \in [S -> Int],
         Ordered(s, dl),
         \A i \in 1..k : dl[s[i]] <= dl[x],
         \A i \in k + 1..Len(s) : dl[x] <= dl[s[i]]
  PROVE  Ordered(Emplace(s, k, x), dl)
<1> DEFINE e == Emplace(s, k, x)
<1>1. \A i \in 1..Len(e) :
        \/ i \in 1..k /\ e[i] = s[i]
        \/ i = k + 1 /\ e[i] = x
        \/ i - 1 \in k + 1..Len(s) /\ e[i] = s[i - 1]
  BY EmplaceFrom
<1>2. Len(s) \in Nat /\ k \in Nat /\ k <= Len(s)
  BY LenProperties
<1>3. \A i \in 1..Len(s) : dl[s[i]] \in Int
  BY ElementOfSeq
<1>. HIDE DEF e
<1>4. ASSUME NEW i \in 1..Len(e), NEW j \in 1..Len(e), i < j
      PROVE  dl[e[i]] <= dl[e[j]]
  <2>. USE DEF Ordered
  <2>1. CASE i \in 1..k /\ e[i] = s[i]
    <3>1. CASE j \in 1..k /\ e[j] = s[j]
      <4>1. i \in 1..Len(s) /\ j \in 1..Len(s)
        BY <1>2, <2>1, <3>1
      <4>. QED BY <1>4, <2>1, <3>1, <4>1
    <3>2. CASE j = k + 1 /\ e[j] = x
      BY <2>1, <3>2
    <3>3. CASE j - 1 \in k + 1..Len(s) /\ e[j] = s[j - 1]
      <4>1. i \in 1..Len(s) /\ j - 1 \in 1..Len(s) /\ i < j - 1
        BY <1>2, <2>1, <3>3
      <4>. QED BY <2>1, <3>3, <4>1
    <3>. QED BY <1>1, <3>1, <3>2, <3>3
  <2>2. CASE i = k + 1 /\ e[i] = x
    <3>1. j - 1 \in k + 1..Len(s) /\ e[j] = s[j - 1]
      BY <1>1, <1>2, <1>4, <2>2
    <3>. QED BY <2>2, <3>1
  <2>3. CASE i - 1 \in k + 1..Len(s) /\ e[i] = s[i - 1]
    <3>1. j - 1 \in k + 1..Len(s) /\ e[j] = s[j - 1]
      BY <1>1, <1>2, <1>4, <2>3
    <3>2. i - 1 \in 1..Len(s) /\ j - 1 \in 1..Len(s) /\ i - 1 < j - 1
      BY <1>2, <1>4, <2>3, <3>1
    <3>. QED BY <2>3, <3>1, <3>2
  <2>. QED BY <1>1, <2>1, <2>2, <2>3
<1>. QED BY <1>4 DEF Ordered, e

(* Deadlines of others do not matter.                                        *)
LEMMA OrderedSame ==
  ASSUME NEW S, NEW s \in Seq(S), NEW dl, NEW dm, Ordered(s, dl),
         \A y \in Range(s) : dm[y] = dl[y]
  PROVE  Ordered(s, dm)
<1>1. \A i \in 1..Len(s) : s[i] \in Range(s)
  BY RangeIs
<1>. QED BY <1>1 DEF Ordered

(* A list that has lost an element is ordered.                               *)
LEMMA RemoveOrdered ==
  ASSUME NEW S, NEW s \in Seq(S), NEW j \in 1..Len(s), NEW dl, Ordered(s, dl)
  PROVE  Ordered(RemoveAt(s, j), dl)
<1> DEFINE r == RemoveAt(s, j)
<1>1. /\ Len(r) = Len(s) - 1
      /\ \A i \in 1..j - 1 : r[i] = s[i]
      /\ \A i \in j..Len(s) - 1 : r[i] = s[i + 1]
  BY RemoveShape
<1>2. Len(s) \in Nat
  BY LenProperties
<1>. HIDE DEF r
<1>3. \A i \in 1..Len(r) : (i < j /\ r[i] = s[i]) \/ (i >= j /\ r[i] = s[i + 1])
  BY <1>1, <1>2
<1>4. ASSUME NEW h \in 1..Len(r), NEW i \in 1..Len(r), h < i
      PROVE  dl[r[h]] <= dl[r[i]]
  <2>. USE DEF Ordered
  <2>0. /\ h \in 1..Len(s) /\ h + 1 \in 1..Len(s) /\ i \in 1..Len(s) /\ i + 1 \in 1..Len(s)
        /\ h < i + 1 /\ h + 1 < i + 1
    BY <1>1, <1>2, <1>4
  <2>1. CASE h < j /\ r[h] = s[h]
    BY <1>3, <1>4, <2>0, <2>1
  <2>2. CASE h >= j /\ r[h] = s[h + 1]
    <3>1. r[i] = s[i + 1]
      BY <1>2, <1>3, <1>4, <2>2
    <3>. QED BY <2>0, <2>2, <3>1
  <2>. QED BY <1>3, <2>1, <2>2
<1>. QED BY <1>4 DEF Ordered, r

(* start keeps the order: dl has the new deadline already.                   *)
LEMMA StartOrdered ==
  ASSUME NEW S, NEW s \in Seq(S), NEW x \in S, x \notin Range(s),
         NEW dl \in [S -> Int], NEW dm \in [S -> Int], NEW d,
         Ordered(s, dl), dm = [dl EXCEPT ![x] = d], NEW k \in StartPoints(s, dl, d)
  PROVE  Ordered(Emplace(s, k, x), dm)
<1>1. k \in 0..Len(s)
  BY DEF StartPoints
<1>2. \A i \in 1..Len(s) : s[i] \in Range(s) /\ s[i] \in S /\ s[i] # x
  BY RangeIs, ElementOfSeq
<1>3. dm[x] = d /\ d \in Int /\ \A i \in 1..Len(s) : dm[s[i]] = dl[s[i]] /\ dl[s[i]] \in Int
  BY <1>2
<1>4. Ordered(s, dm)
  BY <1>3 DEF Ordered
<1>5. Len(s) \in Nat
  BY LenProperties
<1>6. \A i \in k + 1..Len(s) : dm[x] <= dm[s[i]]
  BY <1>1, <1>3, <1>5 DEF StartPoints, StopsBehind
<1>7. \A i \in 1..k : dm[s[i]] <= dm[x]
  <2>. SUFFICES ASSUME NEW i \in 1..k PROVE dm[s[i]] <= dm[x]
    OBVIOUS
  <2>1. dl[s[k]] < d /\ k \in 1..Len(s) /\ i \in 1..Len(s)
    BY <1>1, <1>5 DEF StartPoints, StopsBehind
  <2>2. dl[s[i]] <= dl[s[k]]
    <3>1. CASE i = k
      BY <1>3, <2>1, <3>1
    <3>2. CASE i < k
      BY <2>1, <3>2 DEF Ordered
    <3>. QED BY <2>1, <3>1, <3>2
  <2>. QED BY <1>3, <2>1, <2>2
<1>. QED BY <1>1, <1>4, <1>6, <1>7, EmplaceOrdered

(* The greatest of some positions; the loops that walk backwards find it.     *)
LEMMA GreatestPosition ==
  ASSUME NEW n \in Nat, NEW B \in SUBSET (1..n), B # {}
  PROVE  \E k \in B : \A i \in B : i <= k
<1> DEFINE T == {h \in Nat : h < n /\ n - h \in B}
<1>1. PICK b \in B : TRUE
  OBVIOUS
<1>2. \A i \in B : n - i \in T /\ n - (n - i) = i
  OBVIOUS
<1>3. T \subseteq Nat /\ T # {}
  BY <1>1, <1>2
<1> DEFINE R == {p \in Nat \X Nat : p[1] < p[2]}
<1>4. IsWellFoundedOn(R, Nat)
  BY NatLessThanWellFounded DEF OpToRel
<1>5. PICK h \in T : \A g \in T : ~(<<g, h>> \in R)
  <2>. HIDE DEF T, R
  <2>. QED BY <1>3, <1>4, WFMin, Zenon
<1>6. \A g \in T : ~(g < h)
  BY <1>5
<1>7. h \in Nat /\ n - h \in B
  BY <1>5
<1>8. ASSUME NEW i \in B PROVE i <= n - h
  <2>1. n - i \in T
    BY <1>2
  <2>2. ~(n - i < h) /\ i \in Int
    BY <1>6, <2>1
  <2>. QED BY <1>7, <2>2
<1>. QED BY <1>7, <1>8

(* restart keeps the order, moved or not, unless the new deadline is earlier *)
(* than the old one: then the loop that finds no place would have to move it *)
(* to the front and does not.                                                *)
LEMMA RestartOrdered ==
  ASSUME NEW S, NEW s \in Seq(S), IsInjective(s), NEW j \in 1..Len(s),
         NEW dl \in [S -> Int], NEW dm \in [S -> Int], NEW d,
         dm = [dl EXCEPT ![s[j]] = d], Ordered(s, dl)
  PROVE  /\ \A k \in RestartPoints(s, dm, d) : Ordered(Splice(s, j, k), dm)
         /\ RestartPoints(s, dm, d) = {} /\ dl[s[j]] <= d => Ordered(s, dm)
<1> DEFINE x == s[j]
           r == RemoveAt(s, j)
<1>1. Len(s) \in Nat /\ \A i \in 1..Len(s) : s[i] \in S /\ s[i] \in Range(s)
  BY LenProperties, ElementOfSeq, RangeIs
<1>2. \A h, i \in 1..Len(s) : s[h] = s[i] => h = i
  BY InjectiveIs
<1>3. x \in S /\ dm[x] = d /\ d \in Int
  BY <1>1
<1>4. \A i \in 1..Len(s) : i # j => dm[s[i]] = dl[s[i]] /\ dl[s[i]] \in Int
  BY <1>1, <1>2
<1>5. /\ r \in Seq(S) /\ Len(r) = Len(s) - 1
      /\ \A i \in 1..j - 1 : r[i] = s[i]
      /\ \A i \in j..Len(s) - 1 : r[i] = s[i + 1]
  <2>1. r \in Seq(S) /\ Len(r) = Len(s) - 1
    BY RemoveShape
  <2>2. \A i \in 1..j - 1 : r[i] = s[i]
    BY RemoveShape
  <2>3. \A i \in j..Len(s) - 1 : r[i] = s[i + 1]
    BY RemoveShape
  <2>. QED BY <2>1, <2>2, <2>3
<1>6. Range(r) = Range(s) \ {x}
  BY RemoveUsers
<1>7. Ordered(r, dm)
  <2>1. Ordered(r, dl)
    BY RemoveOrdered
  <2>2. \A y \in Range(r) : dm[y] = dl[y]
    <3>1. Range(s) \subseteq S
      BY <1>1, RangeIs
    <3>. QED BY <1>6, <3>1
  <2>. QED BY <1>5, <2>1, <2>2, OrderedSame
<1>8. ASSUME NEW k \in RestartPoints(s, dm, d) PROVE Ordered(Splice(s, j, k), dm)
  <2> DEFINE m == IF j <= k THEN k - 1 ELSE k
  <2>1. k \in 1..Len(s) /\ dm[s[k]] < d /\ \A i \in k + 1..Len(s) : ~(dm[s[i]] < d)
    BY DEF RestartPoints, StopsBehind
  <2>2. k # j
    BY <1>3, <2>1
  <2>3. m \in 0..Len(r) /\ m <= k /\ (j <= k => m = k - 1) /\ (j > k => m = k)
    <3>1. Len(r) = Len(s) - 1
      BY <1>5
    <3>2. Len(s) \in Nat /\ j \in 1..Len(s) /\ k \in 1..Len(s)
      BY <1>1, <2>1
    <3>. HIDE DEF r
    <3>3. CASE j <= k
      BY <3>1, <3>2, <3>3
    <3>4. CASE j > k
      BY <3>1, <3>2, <3>4
    <3>. QED BY <3>2, <3>3, <3>4
  <2>4. Splice(s, j, k) = Emplace(r, m, x)
    <3>1. (k - 1) + 1 = k
      BY <2>1
    <3>. QED BY <3>1, Zenon DEF Splice, Emplace
  <2>5. \A i \in 1..m : dm[r[i]] <= dm[x]
    <3>. SUFFICES ASSUME NEW i \in 1..m PROVE dm[r[i]] <= dm[x]
      OBVIOUS
    <3>1. ASSUME NEW h \in 1..Len(s), h <= k, h # j PROVE dm[s[h]] <= d
      <4>1. CASE h = k
        BY <1>3, <1>4, <2>1, <2>2, <4>1
      <4>2. CASE h < k
        <5>1. dl[s[h]] <= dl[s[k]]
          BY <2>1, <3>1, <4>2 DEF Ordered
        <5>. QED BY <1>3, <1>4, <2>1, <2>2, <3>1, <5>1
      <4>. QED BY <2>1, <3>1, <4>1, <4>2
    <3>2. CASE i < j
      <4>1. r[i] = s[i] /\ i \in 1..Len(s) /\ i <= k
        BY <1>5, <2>1, <2>3, <3>2
      <4>. QED BY <1>3, <3>1, <3>2, <4>1
    <3>3. CASE i >= j
      <4>1. i \in j..Len(s) - 1 /\ i + 1 \in 1..Len(s) /\ i + 1 <= k
        BY <1>1, <1>5, <2>1, <2>3, <3>3
      <4>2. r[i] = s[i + 1]
        BY <1>5, <4>1
      <4>3. dm[s[i + 1]] <= d
        <5>1. i + 1 # j
          BY <3>3
        <5>. QED BY <3>1, <4>1, <5>1
      <4>. QED BY <1>3, <4>2, <4>3
    <3>. QED BY <2>3, <3>2, <3>3
  <2>6. \A i \in m + 1..Len(r) : dm[x] <= dm[r[i]]
    <3>. SUFFICES ASSUME NEW i \in m + 1..Len(r) PROVE dm[x] <= dm[r[i]]
      OBVIOUS
    <3>1. CASE i < j
      <4>1. i \in 1..j - 1 /\ i \in k + 1..Len(s) /\ i \in 1..Len(s) /\ i # j
        <5>1. i \in m + 1..Len(s) - 1 /\ Len(s) \in Nat /\ j \in 1..Len(s) /\ k \in 1..Len(s)
          BY <1>1, <1>5, <2>1
        <5>2. (j <= k => m = k - 1) /\ (j > k => m = k) /\ m \in Int /\ m >= 0
          BY <1>5, <2>3
        <5>. HIDE DEF m
        <5>. QED BY <3>1, <5>1, <5>2
      <4>2. r[i] = s[i]
        BY <1>5, <4>1
      <4>3. dm[s[i]] \in Int /\ ~(dm[s[i]] < d)
        BY <1>4, <2>1, <4>1
      <4>. QED BY <1>3, <4>2, <4>3
    <3>2. CASE i >= j
      <4>1. i \in j..Len(s) - 1 /\ i + 1 \in k + 1..Len(s) /\ i + 1 \in 1..Len(s) /\ i + 1 # j
        BY <1>1, <1>5, <2>1, <2>2, <2>3, <3>2
      <4>2. r[i] = s[i + 1]
        BY <1>5, <4>1
      <4>3. dm[s[i + 1]] \in Int /\ ~(dm[s[i + 1]] < d)
        BY <1>4, <2>1, <4>1
      <4>. QED BY <1>3, <4>2, <4>3
    <3>. QED BY <1>1, <1>5, <2>3, <3>1, <3>2
  <2>7. dm \in [S -> Int]
    OBVIOUS
  <2>. HIDE DEF x, r, m
  <2>8. Ordered(Emplace(r, m, x), dm)
    BY <1>3, <1>5, <1>7, <2>3, <2>5, <2>6, <2>7, EmplaceOrdered
  <2>. QED BY <2>4, <2>8
<1>9. ASSUME RestartPoints(s, dm, d) = {}, dl[s[j]] <= d PROVE Ordered(s, dm)
  <2>1. \A i \in 1..Len(s) : dm[s[i]] \in Int
    BY <1>3, <1>4
  \* Otherwise the loop stops behind the last that runs out before d.
  <2>2. \A i \in 1..Len(s) : d <= dm[s[i]]
    <3> DEFINE B == {i \in 1..Len(s) : dm[s[i]] < d}
    <3>1. ASSUME B # {} PROVE FALSE
      <4>1. PICK k \in B : \A i \in B : i <= k
        <5>1. B \in SUBSET (1..Len(s)) /\ Len(s) \in Nat
          BY <1>1
        <5>. HIDE DEF B
        <5>. QED BY <3>1, <5>1, GreatestPosition
      <4>2. k \in 1..Len(s) /\ dm[s[k]] < d
        BY <4>1
      <4>3. \A i \in k + 1..Len(s) : ~(dm[s[i]] < d)
        <5>. SUFFICES ASSUME NEW i \in k + 1..Len(s) PROVE ~(dm[s[i]] < d)
          OBVIOUS
        <5>1. i \in 1..Len(s) /\ ~(i <= k)
          BY <1>1, <4>2
        <5>. QED BY <4>1, <5>1
      <4>4. k \in RestartPoints(s, dm, d)
        BY <4>2, <4>3 DEF RestartPoints, StopsBehind
      <4>. QED BY <1>9, <4>4
    <3>2. ASSUME NEW i \in 1..Len(s) PROVE ~(dm[s[i]] < d)
      BY <3>1
    <3>. QED BY <1>3, <2>1, <3>2
  <2>3. ASSUME NEW h \in 1..Len(s), NEW i \in 1..Len(s), h < i
        PROVE  dm[s[h]] <= dm[s[i]]
    <3>1. dl[s[h]] <= dl[s[i]]
      BY <2>3 DEF Ordered
    <3>2. CASE h = j
      BY <1>3, <2>2, <3>2
    <3>3. CASE h # j /\ i = j
      BY <1>3, <1>4, <1>9, <3>1, <3>3
    <3>4. CASE h # j /\ i # j
      BY <1>4, <3>1, <3>4
    <3>. QED BY <3>2, <3>3, <3>4
  <2>. QED BY <2>3 DEF Ordered
<1>. QED BY <1>8, <1>9

(* What checkout leaves is ordered, and when the list was, checkout has taken *)
(* exactly those whose deadlines have passed, although it looks only at the   *)
(* front.                                                                     *)
LEMMA CheckoutSplit ==
  ASSUME NEW S, NEW s \in Seq(S), NEW dl \in [S -> Int], NEW now \in Int,
         Ordered(s, dl), NEW n \in ExpiredPrefixes(s, dl, now)
  PROVE  /\ Ordered(Remaining(s, n), dl)
         /\ \A x \in Range(Taken(s, n)) : dl[x] <= now
         /\ \A x \in Range(Remaining(s, n)) : now < dl[x]
<1> DEFINE t == Taken(s, n)
           r == Remaining(s, n)
<1>1. n \in 0..Len(s) /\ Len(s) \in Nat
  BY LenProperties DEF ExpiredPrefixes
<1>2. \A i \in 1..Len(s) : s[i] \in S /\ dl[s[i]] \in Int
  BY ElementOfSeq
<1>3. /\ t \in Seq(S) /\ Len(t) = n /\ \A i \in 1..n : t[i] = s[i]
      /\ r \in Seq(S) /\ Len(r) = Len(s) - n /\ \A i \in 1..Len(s) - n : r[i] = s[n + i]
  BY <1>1, SplitShape
<1>. HIDE DEF t, r
<1>4. \A i \in 1..Len(r) : n + i \in 1..Len(s) /\ r[i] = s[n + i]
  BY <1>1, <1>3
<1>5. Ordered(r, dl)
  <2>. SUFFICES ASSUME NEW h \in 1..Len(r), NEW i \in 1..Len(r), h < i
               PROVE  dl[r[h]] <= dl[r[i]]
    BY DEF Ordered
  <2>1. n + h < n + i
    BY <1>1, <1>3
  <2>. QED BY <1>4, <2>1 DEF Ordered
<1>6. \A x \in Range(t) : dl[x] <= now
  <2>1. \A i \in 1..n : dl[s[i]] <= now
    BY DEF ExpiredPrefixes
  <2>2. Range(t) = {t[i] : i \in 1..Len(t)}
    BY <1>3, RangeIs
  <2>. QED BY <1>3, <2>1, <2>2
<1>7. \A x \in Range(r) : now < dl[x]
  <2>1. Range(r) = {r[i] : i \in 1..Len(r)}
    BY <1>3, RangeIs
  <2>2. ASSUME NEW i \in 1..Len(r) PROVE now < dl[r[i]]
    <3>1. n < Len(s) /\ n + 1 \in 1..Len(s)
      BY <1>1, <1>3
    <3>2. now < dl[s[n + 1]]
      BY <1>2, <3>1 DEF ExpiredPrefixes
    <3>3. dl[s[n + 1]] <= dl[s[n + i]]
      <4>1. CASE i = 1
        BY <1>2, <3>1, <4>1
      <4>2. CASE i > 1
        <5>1. n + 1 < n + i
          BY <1>1, <4>2
        <5>. QED BY <1>4, <3>1, <5>1 DEF Ordered
      <4>. QED BY <1>3, <4>1, <4>2
    <3>. QED BY <1>2, <1>4, <3>1, <3>2, <3>3
  <2>. QED BY <2>1, <2>2
<1>. QED BY <1>5, <1>6, <1>7 DEF t, r
=============================================================================
