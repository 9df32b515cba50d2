--------------------------- MODULE HttpServicesProofs ---------------------------
(***************************************************************************)
(* Proofs about HttpServices, for any handlers, requests and connections:  *)
(* the order of registration does not matter, and a handler is called with *)
(* a request that came on the connection it answers, unless the one before *)
(* it was refused; a connection is answered once behind its limit and no   *)
(* more.  A request that arrives whole is parsed as it was meant: the last *)
(* sections follow HttpRequest through what a client has written.  The     *)
(* functions that HttpRequest defines by recursion, and FlattenSeq, exist  *)
(* because a smallest place where they did not would have one before it    *)
(* (LeastNumber).                                                          *)
(***************************************************************************)
EXTENDS HttpServices, SequenceTheorems, WellFoundedInduction, TLAPS

-----------------------------------------------------------------------------
(* Sequences joined. *)

(* A set of numbers that is not empty has a least one. *)
LEMMA LeastNumber ==
  ASSUME NEW S \in SUBSET Nat, S # {}
  PROVE  \E m \in S : \A x \in S : m <= x
<1>1. IsWellFoundedOn(OpToRel(<, Nat), Nat)
  BY NatLessThanWellFounded
<1>2. PICK m \in S : \A y \in S : ~ (<<y, m>> \in OpToRel(<, Nat))
  BY <1>1, WFMin
<1>3. \A y \in S : ~ (y < m)
  BY <1>2 DEF OpToRel
<1>4. \A y \in S : m <= y
  BY <1>3
<1>. QED BY <1>4

\* g joins the first n of the sequences, one after the other.
Joins(g, seqs, n) == g = [i \in 1..n |-> IF i = 1 THEN seqs[i] ELSE g[i - 1] \o seqs[i]]

(* There is such a function. *)
LEMMA JoinExists ==
  ASSUME NEW seqs, NEW n \in Nat \ {0}
  PROVE  \E g : Joins(g, seqs, n)
<1> DEFINE Bad == {m \in 1..n : ~ \E g : Joins(g, seqs, m)}
<1>. SUFFICES ASSUME Bad # {} PROVE FALSE
  <2>1. n \in 1..n
    OBVIOUS
  <2>. QED BY <2>1
<1>1. PICK m \in Bad : \A x \in Bad : m <= x
  <2>1. Bad \in SUBSET Nat
    OBVIOUS
  <2>. HIDE DEF Bad
  <2>. QED BY <2>1, LeastNumber
<1>2. CASE m = 1
  <2>. DEFINE g == [i \in 1..m |-> seqs[i]]
  <2>1. \A i \in 1..m : i = 1
    BY <1>2
  <2>2. g = [i \in 1..m |-> IF i = 1 THEN seqs[i] ELSE g[i - 1] \o seqs[i]]
    BY <2>1
  <2>3. Joins(g, seqs, m)
    BY <2>2 DEF Joins
  <2>. QED BY <2>3
<1>3. CASE m # 1
  <2>1. m \in Nat /\ m - 1 \in 1..n /\ m - 1 \notin Bad
    BY <1>1, <1>3
  <2>2. PICK g : Joins(g, seqs, m - 1)
    BY <2>1
  <2>. DEFINE h == [i \in 1..m |-> IF i = m THEN g[m - 1] \o seqs[m] ELSE g[i]]
  <2>3. \A i \in 1..m - 1 : g[i] = IF i = 1 THEN seqs[i] ELSE g[i - 1] \o seqs[i]
    BY <2>2 DEF Joins
  <2>4. \A i \in 1..m : h[i] = IF i = 1 THEN seqs[i] ELSE h[i - 1] \o seqs[i]
    <3>. TAKE i \in 1..m
    <3>1. CASE i = m
      <4>1. m \in 1..m /\ m - 1 \in 1..m /\ m - 1 # m
        BY <2>1
      <4>2. h[m] = g[m - 1] \o seqs[m]
        BY <4>1
      <4>3. h[m - 1] = g[m - 1]
        BY <4>1
      <4>. QED BY <1>3, <3>1, <4>2, <4>3
    <3>2. CASE i # m /\ i = 1
      <4>1. i \in 1..m - 1 /\ h[i] = g[i]
        BY <2>1, <3>2
      <4>. QED BY <2>3, <3>2, <4>1
    <3>3. CASE i # m /\ i # 1
      <4>1. i \in 1..m - 1 /\ h[i] = g[i] /\ h[i - 1] = g[i - 1]
        BY <2>1, <3>3
      <4>. QED BY <2>3, <3>3, <4>1
    <3>. QED BY <3>1, <3>2, <3>3
  <2>5. Joins(h, seqs, m)
    BY <2>4 DEF Joins
  <2>. QED BY <2>5
<1>. QED BY <1>2, <1>3

(* It joins sequences to a sequence. *)
LEMMA JoinType ==
  ASSUME NEW S, NEW seqs, NEW n \in Nat \ {0}, \A i \in 1..n : seqs[i] \in Seq(S),
         NEW g, Joins(g, seqs, n)
  PROVE  g[n] \in Seq(S)
<1> DEFINE Bad == {m \in 1..n : g[m] \notin Seq(S)}
<1>. SUFFICES ASSUME Bad # {} PROVE FALSE
  <2>1. n \in 1..n
    OBVIOUS
  <2>. QED BY <2>1
<1>1. PICK m \in Bad : \A x \in Bad : m <= x
  <2>1. Bad \in SUBSET Nat
    OBVIOUS
  <2>. HIDE DEF Bad
  <2>. QED BY <2>1, LeastNumber
<1>2. \A i \in 1..n : g[i] = IF i = 1 THEN seqs[i] ELSE g[i - 1] \o seqs[i]
  BY DEF Joins
<1>3. CASE m = 1
  BY <1>2, <1>3
<1>4. CASE m # 1
  <2>1. m \in Nat /\ m - 1 \in 1..n /\ m - 1 \notin Bad
    BY <1>1, <1>4
  <2>2. g[m - 1] \in Seq(S) /\ seqs[m] \in Seq(S) /\ g[m] = g[m - 1] \o seqs[m]
    BY <1>2, <1>4, <2>1
  <2>3. g[m] \in Seq(S)
    BY <2>2, ConcatProperties
  <2>. QED BY <2>3
<1>. QED BY <1>3, <1>4

LEMMA FlattenJoins ==
  ASSUME NEW seqs, Len(seqs) \in Nat \ {0}
  PROVE  \E g : Joins(g, seqs, Len(seqs)) /\ FlattenSeq(seqs) = g[Len(seqs)]
<1> DEFINE n == Len(seqs)
           g == CHOOSE f : f = [i \in 1..n |-> IF i = 1 THEN seqs[i] ELSE f[i - 1] \o seqs[i]]
<1>1. FlattenSeq(seqs) = g[n]
  BY Zenon DEF FlattenSeq
<1>2. \E f : f = [i \in 1..n |-> IF i = 1 THEN seqs[i] ELSE f[i - 1] \o seqs[i]]
  <2>. HIDE DEF n
  <2>1. \E f : Joins(f, seqs, n)
    BY JoinExists DEF n
  <2>. QED BY <2>1 DEF Joins
<1>3. g = [i \in 1..n |-> IF i = 1 THEN seqs[i] ELSE g[i - 1] \o seqs[i]]
  BY <1>2, Zenon
<1>4. Joins(g, seqs, n)
  BY <1>3, Zenon DEF Joins
<1>. HIDE DEF g
<1>. QED BY <1>1, <1>4

LEMMA FlattenType ==
  ASSUME NEW S, NEW seqs \in Seq(Seq(S))
  PROVE  FlattenSeq(seqs) \in Seq(S)
<1> DEFINE n == Len(seqs)
<1>1. n \in Nat /\ \A i \in 1..n : seqs[i] \in Seq(S)
  BY LenProperties, ElementOfSeq
<1>2. CASE n = 0
  <2>1. seqs = <<>>
    BY <1>2, EmptySeq
  <2>2. FlattenSeq(seqs) = <<>>
    BY <1>2, <2>1 DEF FlattenSeq
  <2>. QED BY <2>2
<1>3. CASE n # 0
  <2>1. PICK g : Joins(g, seqs, n) /\ FlattenSeq(seqs) = g[n]
    BY <1>1, <1>3, FlattenJoins
  <2>. HIDE DEF n
  <2>. QED BY <1>1, <1>3, <2>1, JoinType
<1>. QED BY <1>2, <1>3

(* A function on the first numbers is a sequence. *)
LEMMA IsSeq ==
  ASSUME NEW S, NEW n \in Nat, NEW f \in [1..n -> S]
  PROVE  f \in Seq(S) /\ Len(f) = n
<1>1. f \in Seq(S)
  BY SeqDef
<1>2. DOMAIN f = 1..n /\ DOMAIN f = 1..Len(f) /\ Len(f) \in Nat
  BY <1>1, LenProperties
<1>. QED BY <1>1, <1>2

LEMMA PairType == ASSUME NEW S, NEW x \in S, NEW y \in S PROVE <<x, y>> \in Seq(S)
OBVIOUS

\* u is s with t behind it.
Behind(u, s, t) ==
  /\ Len(u) = Len(s) + Len(t)
  /\ \A i \in 1..Len(s) : u[i] = s[i]
  /\ \A i \in 1..Len(t) : u[Len(s) + i] = t[i]

LEMMA ConcatBehind ==
  ASSUME NEW S, NEW s \in Seq(S), NEW t \in Seq(S)
  PROVE  s \o t \in Seq(S) /\ Behind(s \o t, s, t)
<1>1. Len(s) \in Nat /\ Len(t) \in Nat
  BY LenProperties
<1>2. /\ s \o t \in Seq(S) /\ Len(s \o t) = Len(s) + Len(t)
      /\ \A i \in 1..Len(s) + Len(t) : (s \o t)[i] = IF i <= Len(s) THEN s[i] ELSE t[i - Len(s)]
  BY ConcatProperties
<1>3. ASSUME NEW i \in 1..Len(s) PROVE (s \o t)[i] = s[i]
  <2>1. i \in 1..Len(s) + Len(t) /\ i <= Len(s)
    BY <1>1
  <2>. QED BY <1>2, <2>1
<1>4. ASSUME NEW i \in 1..Len(t) PROVE (s \o t)[Len(s) + i] = t[i]
  <2>1. Len(s) + i \in 1..Len(s) + Len(t) /\ ~(Len(s) + i <= Len(s)) /\ Len(s) + i - Len(s) = i
    BY <1>1
  <2>. QED BY <1>2, <2>1
<1>. QED BY <1>2, <1>3, <1>4 DEF Behind

(* Sequences of the same length, joined. *)
LEMMA Widths ==
  ASSUME NEW w \in {2, 6}, NEW m \in Nat \ {0}
  PROVE  /\ w * (m - 1) \in Nat /\ w * (m - 1) + w = w * m /\ w * 1 = w /\ w * (1 - 1) = 0
         /\ \A i \in 1..m - 1 : \A j \in 1..w : w * (i - 1) + j \in 1..w * (m - 1)
<1>1. CASE w = 2
  BY <1>1
<1>2. CASE w = 6
  BY <1>2
<1>. QED BY <1>1, <1>2

\* s is the first n of the sequences, each w long, one after the other.
Placed(s, seqs, n, w) ==
  /\ Len(s) = w * n
  /\ \A i \in 1..n : \A j \in 1..w : s[w * (i - 1) + j] = seqs[i][j]

LEMMA JoinPlaces ==
  ASSUME NEW S, NEW w \in {2, 6}, NEW seqs, NEW n \in Nat \ {0},
         \A i \in 1..n : seqs[i] \in Seq(S) /\ Len(seqs[i]) = w,
         NEW g, Joins(g, seqs, n)
  PROVE  Placed(g[n], seqs, n, w)
<1> DEFINE Right(m) == /\ g[m] \in Seq(S) /\ Len(g[m]) = w * m
                       /\ \A i \in 1..m : \A j \in 1..w : g[m][w * (i - 1) + j] = seqs[i][j]
           Bad == {m \in 1..n : ~Right(m)}
<1>. SUFFICES ASSUME Bad # {} PROVE FALSE
  <2>1. n \in 1..n
    OBVIOUS
  <2>. QED BY <2>1 DEF Placed
<1>1. PICK m \in Bad : \A x \in Bad : m <= x
  <2>1. Bad \in SUBSET Nat
    OBVIOUS
  <2>. HIDE DEF Bad
  <2>. QED BY <2>1, LeastNumber
<1>2. \A i \in 1..n : g[i] = IF i = 1 THEN seqs[i] ELSE g[i - 1] \o seqs[i]
  BY DEF Joins
<1>3. /\ m \in Nat \ {0} /\ m \in 1..n /\ seqs[m] \in Seq(S) /\ Len(seqs[m]) = w
  OBVIOUS
<1>4. /\ w * (m - 1) \in Nat /\ w * (m - 1) + w = w * m /\ w * 1 = w /\ w * (1 - 1) = 0
      /\ \A i \in 1..m - 1 : \A j \in 1..w : w * (i - 1) + j \in 1..w * (m - 1)
  BY <1>3, Widths
<1>5. CASE m = 1
  <2>1. g[m] = seqs[m]
    BY <1>2, <1>3, <1>5
  <2>2. Len(g[m]) = w * m
    BY <1>3, <1>4, <1>5, <2>1
  <2>3. ASSUME NEW i \in 1..m, NEW j \in 1..w PROVE g[m][w * (i - 1) + j] = seqs[i][j]
    <3>1. i = m /\ i - 1 = 1 - 1
      BY <1>5
    <3>2. w * (i - 1) + j = j
      <4>1. w * (i - 1) = 0
        BY <1>4, <3>1, Zenon
      <4>. QED BY <4>1
    <3>. QED BY <2>1, <3>1, <3>2
  <2>. QED BY <1>3, <2>1, <2>2, <2>3
<1>6. CASE m # 1
  <2>1. m - 1 \in 1..n /\ m - 1 \notin Bad
    <3>1. m - 1 \in 1..n
      BY <1>3, <1>6
    <3>2. m - 1 \notin Bad
      <4>. HIDE DEF Bad
      <4>1. ASSUME m - 1 \in Bad PROVE m <= m - 1
        BY <1>1, <4>1
      <4>. QED BY <1>3, <4>1
    <3>. QED BY <3>1, <3>2
  <2>2. Right(m - 1)
    BY <2>1
  <2>. HIDE DEF Bad
  <2>3. g[m] = g[m - 1] \o seqs[m]
    BY <1>2, <1>3, <1>6
  <2>4. g[m - 1] \in Seq(S) /\ Len(g[m - 1]) = w * (m - 1)
    BY <2>2
  <2>5. /\ g[m] \in Seq(S) /\ Len(g[m]) = w * (m - 1) + w
        /\ \A i \in 1..w * (m - 1) : g[m][i] = g[m - 1][i]
        /\ \A i \in 1..w : g[m][w * (m - 1) + i] = seqs[m][i]
    <3> DEFINE old == g[m - 1]
               new == seqs[m]
    <3>1. old \in Seq(S) /\ new \in Seq(S) /\ Len(old) = w * (m - 1) /\ Len(new) = w
      BY <1>3, <2>4
    <3>2. g[m] = old \o new
      BY <2>3
    <3>. HIDE DEF old, new
    <3>3. old \o new \in Seq(S) /\ Behind(old \o new, old, new)
      BY <3>1, ConcatBehind
    <3>. QED BY <3>1, <3>2, <3>3 DEF Behind, old, new
  <2>6. ASSUME NEW i \in 1..m, NEW j \in 1..w PROVE g[m][w * (i - 1) + j] = seqs[i][j]
    <3>1. CASE i = m
      BY <2>5, <3>1
    <3>2. CASE i # m
      <4>1. i \in 1..m - 1
        BY <1>3, <3>2
      <4>2. w * (i - 1) + j \in 1..w * (m - 1)
        BY <1>4, <4>1
      <4>3. g[m - 1][w * (i - 1) + j] = seqs[i][j]
        BY <2>2, <4>1
      <4>. QED BY <2>5, <4>2, <4>3
    <3>. QED BY <3>1, <3>2
  <2>7. Len(g[m]) = w * m
    BY <1>4, <2>5
  <2>8. Right(m)
    BY <2>5, <2>6, <2>7
  <2>. QED BY <1>1, <2>8 DEF Bad
<1>. QED BY <1>5, <1>6

LEMMA FlattenPlaces ==
  ASSUME NEW S, NEW w \in {2, 6}, NEW seqs \in Seq(Seq(S)),
         \A i \in 1..Len(seqs) : Len(seqs[i]) = w
  PROVE  Placed(FlattenSeq(seqs), seqs, Len(seqs), w)
<1> DEFINE n == Len(seqs)
<1>1. n \in Nat /\ \A i \in 1..n : seqs[i] \in Seq(S)
  BY LenProperties, ElementOfSeq
<1>2. CASE n = 0
  <2>1. seqs = <<>>
    BY <1>2, EmptySeq
  <2>2. FlattenSeq(seqs) = <<>>
    BY <1>2, <2>1 DEF FlattenSeq
  <2>3. Len(FlattenSeq(seqs)) = 0 /\ w * 0 = 0
    <3>1. Len(<<>>) = 0
      OBVIOUS
    <3>. QED BY <2>2, <3>1
  <2>4. \A i \in 1..n : FALSE
    BY <1>2
  <2>. QED BY <1>2, <2>3, <2>4 DEF Placed
<1>3. CASE n # 0
  <2>1. PICK g : Joins(g, seqs, n) /\ FlattenSeq(seqs) = g[n]
    BY <1>1, <1>3, FlattenJoins
  <2>. HIDE DEF n
  <2>2. Placed(g[n], seqs, n, w)
    <3>1. \A i \in 1..n : seqs[i] \in Seq(S) /\ Len(seqs[i]) = w
      BY <1>1 DEF n
    <3>2. n \in Nat \ {0} /\ Joins(g, seqs, n)
      BY <1>1, <1>3, <2>1
    <3>. QED BY <3>1, <3>2, JoinPlaces, Zenon
  <2>. QED BY <2>1, <2>2 DEF n
<1>. QED BY <1>2, <1>3

-----------------------------------------------------------------------------
(* What a client writes. *)

LEMMA RequestShape ==
  ASSUME NEW r \in DOMAIN Requests
  PROVE  /\ r \in 1..Len(Requests) /\ Len(Requests) \in Nat
         /\ Requests[r].method \in Text /\ Requests[r].uri \in Text
         /\ Requests[r].args \in Seq(Text)
         /\ Requests[r].headers \in Seq(Text \X Text)
         /\ Requests[r].body \in Seq(Text)
<1> DEFINE R == [method : Text, uri : Text, args : Seq(Text),
                 headers : Seq(Text \X Text), close : BOOLEAN, body : Seq(Text)]
<1>1. Requests \in Seq(R)
  BY ServicesAssumption
<1>. HIDE DEF R
<1>2. DOMAIN Requests = 1..Len(Requests) /\ Len(Requests) \in Nat
  BY <1>1, LenProperties
<1>3. Requests[r] \in R
  BY <1>1, <1>2, ElementOfSeq
<1>. QED BY <1>2, <1>3 DEF R

LEMMA Delimiters ==
  /\ Space \in Text /\ CR \in Text /\ LF \in Text
  /\ "?" \in Text /\ "&" \in Text /\ ":" \in Text /\ "HTTP/1.1" \in Text
BY WordAssumption

LEMMA QueryPlaces ==
  ASSUME NEW args \in Seq(Text)
  PROVE  /\ Query(args) \in Seq(Text) /\ Len(Query(args)) = 2 * Len(args)
         /\ \A i \in 1..Len(args) : /\ Query(args)[2 * i - 1] = IF i = 1 THEN "?" ELSE "&"
                                    /\ Query(args)[2 * i] = args[i]
<1> DEFINE asked == [i \in DOMAIN args |-> <<IF i = 1 THEN "?" ELSE "&", args[i]>>]
           n == Len(args)
<1>1. DOMAIN args = 1..n /\ n \in Nat
  BY LenProperties
<1>2. ASSUME NEW i \in 1..n
      PROVE  /\ asked[i] \in Seq(Text) /\ Len(asked[i]) = 2
             /\ asked[i][1] = IF i = 1 THEN "?" ELSE "&"
             /\ asked[i][2] = args[i]
  <2>1. args[i] \in Text
    BY ElementOfSeq
  <2>2. asked[i] = <<IF i = 1 THEN "?" ELSE "&", args[i]>>
    BY <1>1
  <2>3. (IF i = 1 THEN "?" ELSE "&") \in Text
    BY Delimiters
  <2>. HIDE DEF asked
  <2>. QED BY <2>1, <2>2, <2>3, PairType
<1>3. asked \in [1..n -> Seq(Text)]
  BY <1>1, <1>2
<1>4. Query(args) = FlattenSeq(asked)
  BY DEF Query
<1>. HIDE DEF asked, n
<1>5. asked \in Seq(Seq(Text)) /\ Len(asked) = n
  BY <1>1, <1>3, IsSeq
<1>6. Placed(FlattenSeq(asked), asked, n, 2)
  BY <1>2, <1>5, FlattenPlaces
<1>7. FlattenSeq(asked) \in Seq(Text)
  BY <1>5, FlattenType
<1>8. ASSUME NEW i \in 1..n
      PROVE  /\ Query(args)[2 * i - 1] = IF i = 1 THEN "?" ELSE "&"
             /\ Query(args)[2 * i] = args[i]
  <2>1. 2 * (i - 1) + 1 = 2 * i - 1 /\ 2 * (i - 1) + 2 = 2 * i
    BY <1>1
  <2>2. \A j \in 1..2 : Query(args)[2 * (i - 1) + j] = asked[i][j]
    BY <1>4, <1>6 DEF Placed
  <2>. QED BY <1>2, <2>1, <2>2
<1>. QED BY <1>4, <1>6, <1>7, <1>8 DEF Placed, n

LEMMA HeaderPlaces ==
  ASSUME NEW headers \in Seq(Text \X Text)
  PROVE  /\ HeaderLines(headers) \in Seq(Text) /\ Len(HeaderLines(headers)) = 6 * Len(headers)
         /\ \A i \in 1..Len(headers) :
              /\ HeaderLines(headers)[6 * i - 5] = headers[i][1]
              /\ HeaderLines(headers)[6 * i - 4] = ":"
              /\ HeaderLines(headers)[6 * i - 3] = Space
              /\ HeaderLines(headers)[6 * i - 2] = headers[i][2]
              /\ HeaderLines(headers)[6 * i - 1] = CR
              /\ HeaderLines(headers)[6 * i] = LF
<1> DEFINE lines == [i \in DOMAIN headers |->
                       <<headers[i][1], ":", Space, headers[i][2], CR, LF>>]
           n == Len(headers)
<1>1. DOMAIN headers = 1..n /\ n \in Nat
  BY LenProperties
<1>2. ASSUME NEW i \in 1..n
      PROVE  /\ lines[i] \in Seq(Text) /\ Len(lines[i]) = 6
             /\ lines[i][1] = headers[i][1] /\ lines[i][2] = ":" /\ lines[i][3] = Space
             /\ lines[i][4] = headers[i][2] /\ lines[i][5] = CR /\ lines[i][6] = LF
  <2>1. headers[i] \in Text \X Text
    BY ElementOfSeq
  <2>2. headers[i][1] \in Text /\ headers[i][2] \in Text
    BY <2>1
  <2>3. lines[i] = <<headers[i][1], ":", Space, headers[i][2], CR, LF>>
    BY <1>1
  <2> DEFINE first == <<headers[i][1], ":", Space>>
             second == <<headers[i][2], CR, LF>>
  <2>. HIDE DEF lines
  <2>4. first \in Seq(Text) /\ second \in Seq(Text)
    BY <2>2, Delimiters
  <2>5. lines[i] = first \o second
    BY <2>3
  <2>6. lines[i] \in Seq(Text)
    <3>. HIDE DEF first, second
    <3>. QED BY <2>4, <2>5, ConcatProperties
  <2>. QED BY <2>3, <2>6
<1>3. lines \in [1..n -> Seq(Text)]
  BY <1>1, <1>2
<1>4. HeaderLines(headers) = FlattenSeq(lines)
  BY DEF HeaderLines
<1>. HIDE DEF lines, n
<1>5. lines \in Seq(Seq(Text)) /\ Len(lines) = n
  BY <1>1, <1>3, IsSeq
<1>6. Placed(FlattenSeq(lines), lines, n, 6)
  BY <1>2, <1>5, FlattenPlaces
<1>7. FlattenSeq(lines) \in Seq(Text)
  BY <1>5, FlattenType
<1>8. ASSUME NEW i \in 1..n
      PROVE  /\ HeaderLines(headers)[6 * i - 5] = headers[i][1]
             /\ HeaderLines(headers)[6 * i - 4] = ":"
             /\ HeaderLines(headers)[6 * i - 3] = Space
             /\ HeaderLines(headers)[6 * i - 2] = headers[i][2]
             /\ HeaderLines(headers)[6 * i - 1] = CR
             /\ HeaderLines(headers)[6 * i] = LF
  <2>1. /\ 6 * (i - 1) + 1 = 6 * i - 5 /\ 6 * (i - 1) + 2 = 6 * i - 4
        /\ 6 * (i - 1) + 3 = 6 * i - 3 /\ 6 * (i - 1) + 4 = 6 * i - 2
        /\ 6 * (i - 1) + 5 = 6 * i - 1 /\ 6 * (i - 1) + 6 = 6 * i
    BY <1>1
  <2>2. \A j \in 1..6 : HeaderLines(headers)[6 * (i - 1) + j] = lines[i][j]
    BY <1>4, <1>6 DEF Placed
  <2>3. /\ 1 \in 1..6 /\ 2 \in 1..6 /\ 3 \in 1..6 /\ 4 \in 1..6 /\ 5 \in 1..6 /\ 6 \in 1..6
    OBVIOUS
  <2>. QED BY <1>2, <2>1, <2>2, <2>3
<1>. QED BY <1>4, <1>6, <1>7, <1>8 DEF Placed, n

(* Six sequences, one behind the other: the parts of a request. *)
PartsOf(T, A, Q, V, H, E, B, n, m, b) ==
  /\ Len(T) = 9 + 2 * n + 6 * m + b
  /\ \A i \in 1..3 : T[i] = A[i]
  /\ \A i \in 1..2 * n : T[3 + i] = Q[i]
  /\ \A i \in 1..4 : T[3 + 2 * n + i] = V[i]
  /\ \A i \in 1..6 * m : T[7 + 2 * n + i] = H[i]
  /\ \A i \in 1..2 : T[7 + 2 * n + 6 * m + i] = E[i]
  /\ \A i \in 1..b : T[9 + 2 * n + 6 * m + i] = B[i]
LEMMA Assembled ==
  ASSUME NEW S, NEW A \in Seq(S), NEW Q \in Seq(S), NEW V \in Seq(S), NEW H \in Seq(S),
         NEW E \in Seq(S), NEW B \in Seq(S), NEW n \in Nat, NEW m \in Nat, NEW b \in Nat,
         Len(A) = 3, Len(Q) = 2 * n, Len(V) = 4, Len(H) = 6 * m, Len(E) = 2, Len(B) = b
  PROVE  /\ A \o Q \o V \o H \o E \o B \in Seq(S)
         /\ PartsOf(A \o Q \o V \o H \o E \o B, A, Q, V, H, E, B, n, m, b)
<1> DEFINE AQ == A \o Q
           AQV == AQ \o V
           AQVH == AQV \o H
           AQVHE == AQVH \o E
           T == AQVHE \o B
<1>1. /\ AQ \in Seq(S) /\ Len(AQ) = 3 + 2 * n
      /\ \A i \in 1..3 : AQ[i] = A[i]
      /\ \A i \in 1..2 * n : AQ[3 + i] = Q[i]
  <2>1. AQ \in Seq(S) /\ Behind(AQ, A, Q)
    BY ConcatBehind, Zenon
  <2>. HIDE DEF AQ
  <2>. QED BY <2>1 DEF Behind
<1>. HIDE DEF AQ
<1>2. /\ AQV \in Seq(S) /\ Len(AQV) = 7 + 2 * n
      /\ \A i \in 1..3 + 2 * n : AQV[i] = AQ[i]
      /\ \A i \in 1..4 : AQV[3 + 2 * n + i] = V[i]
  <2>1. AQV \in Seq(S) /\ Behind(AQV, AQ, V)
    BY <1>1, ConcatBehind, Zenon
  <2>. HIDE DEF AQV
  <2>. QED BY <1>1, <2>1 DEF Behind
<1>. HIDE DEF AQV
<1>3. /\ AQVH \in Seq(S) /\ Len(AQVH) = 7 + 2 * n + 6 * m
      /\ \A i \in 1..7 + 2 * n : AQVH[i] = AQV[i]
      /\ \A i \in 1..6 * m : AQVH[7 + 2 * n + i] = H[i]
  <2>1. AQVH \in Seq(S) /\ Behind(AQVH, AQV, H)
    BY <1>2, ConcatBehind, Zenon
  <2>. HIDE DEF AQVH
  <2>. QED BY <1>2, <2>1 DEF Behind
<1>. HIDE DEF AQVH
<1>4. /\ AQVHE \in Seq(S) /\ Len(AQVHE) = 9 + 2 * n + 6 * m
      /\ \A i \in 1..7 + 2 * n + 6 * m : AQVHE[i] = AQVH[i]
      /\ \A i \in 1..2 : AQVHE[7 + 2 * n + 6 * m + i] = E[i]
  <2>1. AQVHE \in Seq(S) /\ Behind(AQVHE, AQVH, E)
    BY <1>3, ConcatBehind, Zenon
  <2>. HIDE DEF AQVHE
  <2>. QED BY <1>3, <2>1 DEF Behind
<1>. HIDE DEF AQVHE
<1>5. /\ T \in Seq(S) /\ Len(T) = 9 + 2 * n + 6 * m + b
      /\ \A i \in 1..9 + 2 * n + 6 * m : T[i] = AQVHE[i]
      /\ \A i \in 1..b : T[9 + 2 * n + 6 * m + i] = B[i]
  <2>1. T \in Seq(S) /\ Behind(T, AQVHE, B)
    BY <1>4, ConcatBehind, Zenon
  <2>. HIDE DEF T
  <2>. QED BY <1>4, <2>1 DEF Behind
<1>. HIDE DEF T
<1>6. \A i \in 1..7 + 2 * n + 6 * m : T[i] = AQVH[i]
  BY <1>4, <1>5
<1>7. \A i \in 1..7 + 2 * n : T[i] = AQV[i]
  BY <1>3, <1>6
<1>8. \A i \in 1..3 + 2 * n : T[i] = AQ[i]
  <2>. TAKE i \in 1..3 + 2 * n
  <2>1. i \in 1..7 + 2 * n
    OBVIOUS
  <2>. QED BY <1>2, <1>7, <2>1
<1>9. ASSUME NEW i \in 1..3 PROVE T[i] = A[i]
  <2>1. i \in 1..3 + 2 * n
    OBVIOUS
  <2>. QED BY <1>1, <1>8, <2>1
<1>10. ASSUME NEW i \in 1..2 * n PROVE T[3 + i] = Q[i]
  <2>1. 3 + i \in 1..3 + 2 * n
    OBVIOUS
  <2>2. T[3 + i] = AQ[3 + i]
    BY <1>8, <2>1, Zenon
  <2>. QED BY <1>1, <2>2
<1>11. ASSUME NEW i \in 1..4 PROVE T[3 + 2 * n + i] = V[i]
  <2> DEFINE place == 3 + 2 * n + i
  <2>1. place \in 1..7 + 2 * n
    OBVIOUS
  <2>2. AQV[place] = V[i]
    BY <1>2
  <2>. HIDE DEF place
  <2>3. T[place] = V[i]
    BY <1>7, <2>1, <2>2, Zenon
  <2>. QED BY <2>3 DEF place
<1>12. \A i \in 1..6 * m : T[7 + 2 * n + i] = H[i]
  BY <1>3, <1>6
<1>13. \A i \in 1..2 : T[7 + 2 * n + 6 * m + i] = E[i]
  <2>. TAKE i \in 1..2
  <2>1. 7 + 2 * n + 6 * m + i \in 1..9 + 2 * n + 6 * m
    OBVIOUS
  <2>2. T[7 + 2 * n + 6 * m + i] = AQVHE[7 + 2 * n + 6 * m + i]
    BY <1>5, <2>1, Zenon
  <2>3. AQVHE[7 + 2 * n + 6 * m + i] = E[i]
    BY <1>4
  <2>. QED BY <2>2, <2>3
<1>. QED BY <1>5, <1>9, <1>10, <1>11, <1>12, <1>13 DEF PartsOf, T, AQVHE, AQVH, AQV, AQ

(* Where everything is in a request, of which the head ends in an empty line: *)
(* n arguments, m headers and a body of b words.                             *)
IsRequest(T, q, n, m, b) ==
  /\ Len(T) = 9 + 2 * n + 6 * m + b
  /\ T[1] = q.method /\ T[2] = Space /\ T[3] = q.uri
  /\ \A i \in 1..n : /\ T[3 + (2 * i - 1)] = IF i = 1 THEN "?" ELSE "&"
                     /\ T[3 + 2 * i] = q.args[i]
  /\ T[4 + 2 * n] = Space /\ T[5 + 2 * n] = "HTTP/1.1" /\ T[6 + 2 * n] = CR
  /\ \A i \in 1..m :
       /\ T[7 + 2 * n + (6 * i - 5)] = q.headers[i][1]
       /\ T[7 + 2 * n + (6 * i - 4)] = ":"
       /\ T[7 + 2 * n + (6 * i - 3)] = Space
       /\ T[7 + 2 * n + (6 * i - 2)] = q.headers[i][2]
       /\ T[7 + 2 * n + (6 * i - 1)] = CR
  /\ T[8 + 2 * n + 6 * m] = CR
  /\ \A i \in 1..b : T[9 + 2 * n + 6 * m + i] = q.body[i]

LEMMA MessagePlaces ==
  ASSUME NEW r \in DOMAIN Requests, NEW q, q = Requests[r], NEW n \in Nat, NEW m \in Nat,
         NEW b \in Nat, Len(q.args) = n, Len(q.headers) = m, Len(q.body) = b
  PROVE  Message(q) \in Seq(Text) /\ IsRequest(Message(q), q, n, m, b)
<1>1. /\ q.method \in Text /\ q.uri \in Text /\ q.args \in Seq(Text)
      /\ q.headers \in Seq(Text \X Text) /\ q.body \in Seq(Text)
  BY RequestShape
<1> DEFINE A == <<q.method, Space, q.uri>>
           Q == Query(q.args)
           V == <<Space, "HTTP/1.1", CR, LF>>
           H == HeaderLines(q.headers)
           E == <<CR, LF>>
           B == q.body
           T == A \o Q \o V \o H \o E \o B
<1>2. Message(q) = T
  BY DEF Message, MessageHead
<1>3. /\ A \in Seq(Text) /\ Len(A) = 3 /\ A[1] = q.method /\ A[2] = Space /\ A[3] = q.uri
      /\ V \in Seq(Text) /\ Len(V) = 4 /\ V[1] = Space /\ V[2] = "HTTP/1.1" /\ V[3] = CR
      /\ E \in Seq(Text) /\ Len(E) = 2 /\ E[1] = CR /\ B \in Seq(Text) /\ Len(B) = b
  BY <1>1, Delimiters
<1>4. /\ Q \in Seq(Text) /\ Len(Q) = 2 * n
      /\ \A i \in 1..n : Q[2 * i - 1] = (IF i = 1 THEN "?" ELSE "&") /\ Q[2 * i] = q.args[i]
  BY <1>1, QueryPlaces
<1>5. /\ H \in Seq(Text) /\ Len(H) = 6 * m
      /\ \A i \in 1..m :
           /\ H[6 * i - 5] = q.headers[i][1] /\ H[6 * i - 4] = ":" /\ H[6 * i - 3] = Space
           /\ H[6 * i - 2] = q.headers[i][2] /\ H[6 * i - 1] = CR
  BY <1>1, HeaderPlaces
<1>. HIDE DEF A, Q, V, H, E, B
<1>6. /\ T \in Seq(Text) /\ Len(T) = 9 + 2 * n + 6 * m + b
      /\ \A i \in 1..3 : T[i] = A[i]
      /\ \A i \in 1..2 * n : T[3 + i] = Q[i]
      /\ \A i \in 1..4 : T[3 + 2 * n + i] = V[i]
      /\ \A i \in 1..6 * m : T[7 + 2 * n + i] = H[i]
      /\ \A i \in 1..2 : T[7 + 2 * n + 6 * m + i] = E[i]
      /\ \A i \in 1..b : T[9 + 2 * n + 6 * m + i] = B[i]
  <2>1. T \in Seq(Text) /\ PartsOf(T, A, Q, V, H, E, B, n, m, b)
    <3>1. /\ A \in Seq(Text) /\ Q \in Seq(Text) /\ V \in Seq(Text)
          /\ H \in Seq(Text) /\ E \in Seq(Text) /\ B \in Seq(Text)
      BY <1>3, <1>4, <1>5
    <3>2. Len(A) = 3 /\ Len(Q) = 2 * n /\ Len(V) = 4 /\ Len(H) = 6 * m /\ Len(E) = 2 /\ Len(B) = b
      BY <1>3, <1>4, <1>5
    <3>. QED BY <3>1, <3>2, Assembled
  <2>. HIDE DEF T
  <2>. QED BY <2>1 DEF PartsOf
<1>. HIDE DEF T
<1>7. T[1] = q.method /\ T[2] = Space /\ T[3] = q.uri
  BY <1>3, <1>6
<1>8. ASSUME NEW i \in 1..n
      PROVE  /\ T[3 + (2 * i - 1)] = IF i = 1 THEN "?" ELSE "&"
             /\ T[3 + 2 * i] = q.args[i]
  <2>1. 2 * i - 1 \in 1..2 * n /\ 2 * i \in 1..2 * n
    OBVIOUS
  <2>2. T[3 + (2 * i - 1)] = Q[2 * i - 1] /\ T[3 + 2 * i] = Q[2 * i]
    BY <1>6, <2>1, Zenon
  <2>. QED BY <1>4, <2>2
<1>9. T[4 + 2 * n] = Space /\ T[5 + 2 * n] = "HTTP/1.1" /\ T[6 + 2 * n] = CR
  <2>1. 3 + 2 * n + 1 = 4 + 2 * n /\ 3 + 2 * n + 2 = 5 + 2 * n /\ 3 + 2 * n + 3 = 6 + 2 * n
    OBVIOUS
  <2>2. T[3 + 2 * n + 1] = V[1] /\ T[3 + 2 * n + 2] = V[2] /\ T[3 + 2 * n + 3] = V[3]
    BY <1>6
  <2>. QED BY <1>3, <2>1, <2>2
<1>10. ASSUME NEW i \in 1..m
       PROVE  /\ T[7 + 2 * n + (6 * i - 5)] = q.headers[i][1]
              /\ T[7 + 2 * n + (6 * i - 4)] = ":"
              /\ T[7 + 2 * n + (6 * i - 3)] = Space
              /\ T[7 + 2 * n + (6 * i - 2)] = q.headers[i][2]
              /\ T[7 + 2 * n + (6 * i - 1)] = CR
  <2>1. /\ 6 * i - 5 \in 1..6 * m /\ 6 * i - 4 \in 1..6 * m /\ 6 * i - 3 \in 1..6 * m
        /\ 6 * i - 2 \in 1..6 * m /\ 6 * i - 1 \in 1..6 * m
    OBVIOUS
  <2>2. \A j \in 1..6 * m : T[7 + 2 * n + j] = H[j]
    BY <1>6
  <2>3. /\ T[7 + 2 * n + (6 * i - 5)] = H[6 * i - 5]
        /\ T[7 + 2 * n + (6 * i - 4)] = H[6 * i - 4]
        /\ T[7 + 2 * n + (6 * i - 3)] = H[6 * i - 3]
        /\ T[7 + 2 * n + (6 * i - 2)] = H[6 * i - 2]
        /\ T[7 + 2 * n + (6 * i - 1)] = H[6 * i - 1]
    BY <2>1, <2>2, Zenon
  <2>. QED BY <1>5, <2>3
<1>11. T[8 + 2 * n + 6 * m] = CR
  <2>1. 7 + 2 * n + 6 * m + 1 = 8 + 2 * n + 6 * m
    OBVIOUS
  <2>2. T[7 + 2 * n + 6 * m + 1] = E[1]
    BY <1>6
  <2>. QED BY <1>3, <2>1, <2>2
<1>12. \A i \in 1..b : T[9 + 2 * n + 6 * m + i] = q.body[i]
  BY <1>6, Zenon DEF B
<1>13. IsRequest(T, q, n, m, b)
  BY <1>6, <1>7, <1>8, <1>9, <1>10, <1>11, <1>12 DEF IsRequest
<1>. QED BY <1>2, <1>6, <1>13

(* What a client writes is made of texts. *)
LEMMA MessageType ==
  ASSUME NEW r \in DOMAIN Requests
  PROVE  Message(Requests[r]) \in Seq(Text)
<1> DEFINE q == Requests[r]
<1>1. q.args \in Seq(Text) /\ q.headers \in Seq(Text \X Text) /\ q.body \in Seq(Text)
  BY RequestShape
<1>2. Len(q.args) \in Nat /\ Len(q.headers) \in Nat /\ Len(q.body) \in Nat
  BY <1>1, LenProperties
<1>. QED BY <1>2, MessagePlaces

(* Tokens that lie in what is written come from their connection. *)
LEMMA TokensOf ==
  ASSUME NEW c \in Conns, NEW r, NEW first \in Nat \ {0}, NEW last \in Nat,
         Written(r) \in Seq(Text), last <= Len(Written(r))
  PROVE  Tokens(c, r, first, last) \in Seq(Token) /\ AllOf(Tokens(c, r, first, last), c)
<1> DEFINE n == IF first <= last THEN last + 1 - first ELSE 0
           tokens == [i \in 1..n |-> [text |-> Written(r)[first + i - 1], conn |-> c]]
<1>1. n \in Nat /\ 1..n = 1..last + 1 - first
  OBVIOUS
<1>2. Tokens(c, r, first, last) = tokens
  BY <1>1 DEF Tokens
<1>3. \A i \in 1..n : tokens[i] \in Token /\ tokens[i].conn = c
  <2>. TAKE i \in 1..n
  <2>1. first + i - 1 \in 1..Len(Written(r))
    OBVIOUS
  <2>2. Written(r)[first + i - 1] \in Text
    BY <2>1, ElementOfSeq
  <2>. QED BY <2>2 DEF Token
<1>4. tokens \in Seq(Token)
  <2>1. tokens \in [1..n -> Token]
    BY <1>3
  <2>. QED BY <1>1, <2>1, IsSeq
<1>5. AllOf(tokens, c)
  BY <1>3 DEF AllOf
<1>. QED BY <1>2, <1>4, <1>5

(* Tokens of a connection, one sequence behind the other, are its own. *)
LEMMA AllOfConcat ==
  ASSUME NEW c, NEW s \in Seq(Token), NEW t \in Seq(Token), AllOf(s, c), AllOf(t, c)
  PROVE  AllOf(s \o t, c)
<1>1. s \o t \in Seq(Token) /\ Len(s \o t) = Len(s) + Len(t) /\ Len(s) \in Nat /\ Len(t) \in Nat
  BY ConcatProperties, LenProperties
<1>2. DOMAIN (s \o t) = 1..Len(s) + Len(t) /\ DOMAIN s = 1..Len(s) /\ DOMAIN t = 1..Len(t)
  BY <1>1, LenProperties
<1>3. ASSUME NEW i \in 1..Len(s) + Len(t) PROVE (s \o t)[i].conn = c
  <2>1. CASE i <= Len(s)
    <3>1. (s \o t)[i] = s[i] /\ i \in DOMAIN s
      BY <1>1, <1>2, <2>1, ConcatProperties
    <3>. QED BY <3>1 DEF AllOf
  <2>2. CASE ~(i <= Len(s))
    <3>1. (s \o t)[i] = t[i - Len(s)] /\ i - Len(s) \in DOMAIN t
      BY <1>1, <1>2, <2>2, ConcatProperties
    <3>. QED BY <3>1 DEF AllOf
  <2>. QED BY <2>1, <2>2
<1>. QED BY <1>2, <1>3 DEF AllOf

-----------------------------------------------------------------------------
(* The invariant. *)

LEMMA InitInv == Init => ServicesInv
<1>. SUFFICES ASSUME Init PROVE ServicesInv
  OBVIOUS
<1>. USE DEF Init
<1>1. TypeOK
  <2>1. Len(Requests) \in Nat
    BY ServicesAssumption, LenProperties
  <2>2. <<>> \in Seq(Token)
    BY EmptySeq
  <2>3. m_rawData \in Seq(Token) /\ arrived \in [Conns -> Seq(Token)]
    BY <2>2
  <2>4. sending \in [Conns -> (0..Len(Requests)) \X (Nat \ {0})]
    <3>1. <<0, 1>> \in (0..Len(Requests)) \X (Nat \ {0})
      BY <2>1
    <3>. QED BY <3>1
  <2>5. pieces \in 0..MaxPieces /\ open \in [Conns -> BOOLEAN]
    BY ServicesAssumption
  <2>6. times \in [Conns -> IF m_maxTimes = 0 THEN {0} ELSE Nat]
    OBVIOUS
  <2>7. /\ calls \in [Conns -> Nat] /\ replies \in [Conns -> Nat]
        /\ \A c \in Conns : replies[c] <= calls[c]
    OBVIOUS
  <2>. QED BY <2>3, <2>4, <2>5, <2>6, <2>7 DEF TypeOK
<1>2. ServicesFit
  BY DEF ServicesFit, Registered, Status405
<1>3. SendingFits /\ \A c \in Conns : AllOf(arrived[c], c)
  BY DEF SendingFits, AllOf
<1>. QED BY <1>1, <1>2, <1>3 DEF ServicesInv

(* A handler has its method and its URI, and without a method no URI. *)
LEMMA HandlerShape ==
  ASSUME NEW h \in Handlers
  PROVE  h = [method |-> h.method, uri |-> h.uri] /\ (h.method = any => h.uri = any)
BY ServicesAssumption

(* What is registered now. *)
LEMMA NowRegistered ==
  ASSUME NEW h \in Handlers, added' = added \cup {h}
  PROVE  \A m, u : Registered(m, u)' <=> Registered(m, u) \/ (m = h.method /\ u = h.uri)
BY HandlerShape DEF Registered

LEMMA AddServiceFits ==
  ASSUME ServicesFit, NEW h \in Handlers, added' = added \cup {h}, AddService(h)
  PROVE  ServicesFit'
<1> DEFINE uris(m) == {k.uri : k \in {l \in added : l.method = m}}
           now(m) == {k.uri : k \in {l \in added' : l.method = m}}
<1>1. /\ h.uri # any /\ h.method # any /\ m_default' = m_default
      /\ m_services' = [x \in DOMAIN m_services \cup {h.method} |->
           IF x = h.method THEN [Entry(h.method) EXCEPT !.uris = @ \cup {h.uri}]
                           ELSE m_services[x]]
  BY HandlerShape DEF AddService, SetEntry
<1>2. DOMAIN m_services' = {k.method : k \in added'} \ {any}
  BY <1>1 DEF ServicesFit
<1>3. \A m : Registered(m, any)' <=> Registered(m, any)
  BY <1>1, NowRegistered
<1>4. ASSUME NEW m \in DOMAIN m_services'
      PROVE  m_services'[m] = [uris |-> now(m) \ {any},
               default |-> IF Registered(m, any)' THEN <<"200", m, any>> ELSE Status404]
  <2>1. CASE m # h.method
    <3>1. m \in DOMAIN m_services /\ m_services'[m] = m_services[m] /\ now(m) = uris(m)
      BY <1>1, <1>4, <2>1
    <3>. QED BY <1>3, <3>1 DEF ServicesFit
  <2>2. CASE m = h.method
    <3>1. Entry(m) = [uris |-> uris(m) \ {any},
                      default |-> IF Registered(m, any) THEN <<"200", m, any>> ELSE Status404]
      <4>1. CASE m \in DOMAIN m_services
        BY <4>1 DEF Entry, ServicesFit
      <4>2. CASE m \notin DOMAIN m_services
        <5>1. \A k \in added : k.method # m
          BY <1>1, <2>2, <4>2 DEF ServicesFit
        <5>2. uris(m) = {} /\ ~Registered(m, any)
          BY <5>1 DEF Registered
        <5>. QED BY <4>2, <5>2 DEF Entry
      <4>. QED BY <4>1, <4>2
    <3>2. now(m) \ {any} = (uris(m) \ {any}) \cup {h.uri}
      BY <1>1, <2>2
    <3>3. m_services'[m] = [Entry(m) EXCEPT !.uris = @ \cup {h.uri}]
      BY <1>1, <1>4, <2>2
    <3>. HIDE DEF uris, now
    <3>. QED BY <1>3, <3>1, <3>2, <3>3
  <2>. QED BY <2>1, <2>2
<1>5. m_default' = IF Registered(any, any)' THEN <<"200", any, any>> ELSE Status405
  BY <1>1, <1>3 DEF ServicesFit
<1>. QED BY <1>2, <1>4, <1>5 DEF ServicesFit

LEMMA SetMethodDefaultFits ==
  ASSUME ServicesFit, NEW h \in Handlers, added' = added \cup {h}, SetMethodDefault(h)
  PROVE  ServicesFit'
<1> DEFINE uris(m) == {k.uri : k \in {l \in added : l.method = m}}
           now(m) == {k.uri : k \in {l \in added' : l.method = m}}
<1>1. /\ h.uri = any /\ h.method # any /\ m_default' = m_default
      /\ m_services' = [x \in DOMAIN m_services \cup {h.method} |->
           IF x = h.method THEN [Entry(h.method) EXCEPT !.default = Handler(h)]
                           ELSE m_services[x]]
  BY DEF SetMethodDefault, SetEntry
<1>2. DOMAIN m_services' = {k.method : k \in added'} \ {any}
  BY <1>1 DEF ServicesFit
<1>3. \A m : now(m) \ {any} = uris(m) \ {any}
  BY <1>1
<1>4. \A m : Registered(m, any)' <=> Registered(m, any) \/ m = h.method
  BY <1>1, NowRegistered
<1>5. ASSUME NEW m \in DOMAIN m_services'
      PROVE  m_services'[m] = [uris |-> now(m) \ {any},
               default |-> IF Registered(m, any)' THEN <<"200", m, any>> ELSE Status404]
  <2>1. CASE m # h.method
    <3>1. m \in DOMAIN m_services /\ m_services'[m] = m_services[m]
      BY <1>1, <1>5, <2>1
    <3>. QED BY <1>3, <1>4, <2>1, <3>1 DEF ServicesFit
  <2>2. CASE m = h.method
    <3>1. \E d : Entry(m) = [uris |-> uris(m) \ {any}, default |-> d]
      <4>1. CASE m \in DOMAIN m_services
        BY <4>1 DEF Entry, ServicesFit
      <4>2. CASE m \notin DOMAIN m_services
        <5>1. uris(m) = {}
          BY <1>1, <2>2, <4>2 DEF ServicesFit
        <5>. QED BY <4>2, <5>1 DEF Entry
      <4>. QED BY <4>1, <4>2
    <3>2. m_services'[m] = [Entry(m) EXCEPT !.default = Handler(h)]
      BY <1>1, <1>5, <2>2
    <3>3. Handler(h) = <<"200", m, any>> /\ Registered(m, any)'
      BY <1>1, <1>4, <2>2 DEF Handler
    <3>. HIDE DEF uris, now
    <3>. QED BY <1>3, <3>1, <3>2, <3>3
  <2>. QED BY <2>1, <2>2
<1>6. m_default' = IF Registered(any, any)' THEN <<"200", any, any>> ELSE Status405
  BY <1>1, <1>4 DEF ServicesFit
<1>. QED BY <1>2, <1>5, <1>6 DEF ServicesFit

LEMMA SetDefaultFits ==
  ASSUME ServicesFit, NEW h \in Handlers, added' = added \cup {h}, SetDefault(h)
  PROVE  ServicesFit'
<1>1. h.uri = any /\ h.method = any /\ m_default' = <<"200", any, any>>
      /\ m_services' = m_services
  BY HandlerShape DEF SetDefault, Handler
<1>2. \A m : m # any => {k.uri : k \in {l \in added' : l.method = m}}
                       = {k.uri : k \in {l \in added : l.method = m}}
  BY <1>1
<1>3. Registered(any, any)' /\ \A m : m # any => (Registered(m, any)' <=> Registered(m, any))
  BY <1>1, NowRegistered
<1>4. {k.method : k \in added'} \ {any} = {k.method : k \in added} \ {any}
  BY <1>1
<1>5. any \notin DOMAIN m_services
  BY DEF ServicesFit
<1>6. ASSUME NEW m \in DOMAIN m_services'
      PROVE  m_services'[m] = [uris |-> {k.uri : k \in {l \in added' : l.method = m}} \ {any},
               default |-> IF Registered(m, any)' THEN <<"200", m, any>> ELSE Status404]
  <2>1. m # any /\ m \in DOMAIN m_services
    BY <1>1, <1>5, <1>6
  <2>2. m_services[m] = [uris |-> {k.uri : k \in {l \in added : l.method = m}} \ {any},
          default |-> IF Registered(m, any) THEN <<"200", m, any>> ELSE Status404]
    BY <2>1 DEF ServicesFit
  <2>. QED BY <1>1, <1>2, <1>3, <2>1, <2>2
<1>7. DOMAIN m_services' = {k.method : k \in added'} \ {any}
  BY <1>1, <1>4 DEF ServicesFit
<1>. QED BY <1>1, <1>3, <1>6, <1>7 DEF ServicesFit

LEMMA RegisterInv ==
  ASSUME ServicesInv, NEW h \in Handlers, Register(h)
  PROVE  ServicesInv'
<1>1. ServicesFit'
  BY AddServiceFits, SetMethodDefaultFits, SetDefaultFits DEF Register, ServicesInv
<1>2. UNCHANGED <<phase, request, arrived, clients, open, times, call, calls, replies>>
      /\ added' = added \cup {h}
  BY DEF Register
<1>3. TypeOK'
  BY <1>2 DEF ServicesInv, TypeOK, request, clients
<1>. QED
  BY <1>1, <1>2, <1>3 DEF ServicesInv, SendingFits, AllOf, request, clients

LEMMA ExecInv ==
  ASSUME ServicesInv, Exec
  PROVE  ServicesInv'
<1>1. UNCHANGED <<services, request, arrived, clients, open, times, call, calls, replies>>
      /\ phase' = "serving"
  BY DEF Exec
<1>2. TypeOK'
  BY <1>1 DEF ServicesInv, TypeOK, services, request, clients
<1>. QED
  BY <1>1, <1>2 DEF ServicesInv, ServicesFit, Registered, SendingFits, AllOf, services,
                    request, clients

LEMMA ProcessInv ==
  ASSUME ServicesInv, NEW c \in Conns, Process(c)
  PROVE  ServicesInv'
<1> DEFINE raw == m_rawData \o arrived[c]
           parsed == Parse(raw)
<1>1. /\ open[c] /\ arrived' = [arrived EXCEPT ![c] = <<>>]
      /\ Refuse(c, raw, parsed) \/ Answer(c, raw, parsed)
      /\ UNCHANGED <<phase, services, clients>>
  BY DEF Process
<1>2. m_rawData \in Seq(Token) /\ arrived[c] \in Seq(Token) /\ raw \in Seq(Token)
  BY ConcatProperties DEF ServicesInv, TypeOK
<1>3. ~refused => AllOf(raw, c)
  <2>1. m_rawData = <<>> => raw = arrived[c]
    BY <1>2, ConcatEmptySeq
  <2>. QED BY <2>1 DEF ServicesInv
<1>4. <<>> \in Seq(Token) /\ arrived' \in [Conns -> Seq(Token)]
  <2>1. <<>> \in Seq(Token)
    BY EmptySeq
  <2>. QED BY <1>1, <2>1 DEF ServicesInv, TypeOK
<1>5. \A k \in Conns : AllOf(arrived[k], k)'
  <2>. TAKE k \in Conns
  <2>1. arrived'[k] = IF k = c THEN <<>> ELSE arrived[k]
    BY <1>1 DEF ServicesInv, TypeOK
  <2>. QED BY <2>1 DEF ServicesInv, AllOf
<1>6. ServicesFit' /\ SendingFits'
  BY <1>1 DEF ServicesInv, ServicesFit, Registered, SendingFits, services, clients
<1>. HIDE DEF raw, parsed
<1>7. CASE Refuse(c, raw, parsed)
  <2>1. /\ m_rawData' = raw /\ refused' = TRUE /\ open' = [open EXCEPT ![c] = FALSE]
        /\ UNCHANGED <<times, call, calls, replies>>
    BY <1>7 DEF Refuse
  <2>2. TypeOK'
    BY <1>1, <1>2, <1>4, <2>1 DEF ServicesInv, TypeOK, services, clients
  <2>3. (call # none /\ ~call.behind => AllOf(call.raw, call.conn))'
    BY <2>1 DEF ServicesInv, AllOf
  <2>. QED BY <1>5, <1>6, <2>1, <2>2, <2>3 DEF ServicesInv
<1>8. CASE Answer(c, raw, parsed)
  <2>1. /\ m_rawData' = <<>> /\ m_urlArguments' = <<>> /\ refused' = FALSE
        /\ times' = [times EXCEPT ![c] = Counted(@)]
        /\ calls' = [calls EXCEPT ![c] = @ + 1]
    BY <1>8 DEF Answer, Cleared
  <2>2. PICK keepAlive \in SaysKeepAlive(parsed.keepAlive) :
          /\ call' = [conn |-> c, raw |-> raw, end |-> parsed.end, body |-> m_body',
                      handler |-> CallHandler(parsed.method, parsed.uri),
                      args |-> m_urlArguments \o parsed.args,
                      keepAlive |-> keepAlive, behind |-> refused]
          /\ Replied(c, keepAlive) \/ WriteFails(c) \/ NothingWritten
    BY <1>8 DEF Answer
  <2>3. call'.conn = c /\ call'.raw = raw /\ call'.behind = refused
    BY <2>2
  <2>4. (call # none /\ ~call.behind => AllOf(call.raw, call.conn))'
    BY <1>3, <2>3 DEF AllOf
  <2>5. times' \in [Conns -> IF m_maxTimes = 0 THEN {0} ELSE Nat]
    <3>1. Counted(times[c]) \in IF m_maxTimes = 0 THEN {0} ELSE Nat
      BY DEF ServicesInv, TypeOK, Counted
    <3>. QED BY <2>1, <3>1 DEF ServicesInv, TypeOK
  <2>6. /\ open' \in [Conns -> BOOLEAN] /\ calls' \in [Conns -> Nat]
        /\ replies' \in [Conns -> Nat]
        /\ \A k \in Conns : replies'[k] <= calls'[k]
    <3>1. /\ open \in [Conns -> BOOLEAN] /\ calls \in [Conns -> Nat]
          /\ replies \in [Conns -> Nat] /\ \A k \in Conns : replies[k] <= calls[k]
      BY DEF ServicesInv, TypeOK
    <3>2. calls' \in [Conns -> Nat]
          /\ \A k \in Conns : calls'[k] = IF k = c THEN calls[k] + 1 ELSE calls[k]
      BY <2>1, <3>1
    <3>3. CASE Replied(c, keepAlive)
      <4>1. KeepsOpen(keepAlive, times'[c]) \in BOOLEAN
        BY DEF KeepsOpen
      <4>2. /\ replies' = [replies EXCEPT ![c] = @ + 1]
            /\ open' = [open EXCEPT ![c] = KeepsOpen(keepAlive, times'[c])]
        BY <3>3 DEF Replied
      <4>3. open' \in [Conns -> BOOLEAN]
        BY <3>1, <4>1, <4>2
      <4>4. replies' \in [Conns -> Nat]
            /\ \A k \in Conns : replies'[k] = IF k = c THEN replies[k] + 1 ELSE replies[k]
        BY <3>1, <4>2
      <4>. QED BY <3>1, <3>2, <4>3, <4>4
    <3>4. CASE WriteFails(c)
      BY <3>1, <3>2, <3>4 DEF WriteFails
    <3>5. CASE NothingWritten
      BY <3>1, <3>2, <3>5 DEF NothingWritten
    <3>. QED BY <2>2, <3>3, <3>4, <3>5
  <2>7. TypeOK'
    BY <1>1, <1>4, <2>1, <2>5, <2>6 DEF ServicesInv, TypeOK, services, clients
  <2>. QED BY <1>5, <1>6, <2>1, <2>4, <2>7 DEF ServicesInv
<1>9. Refuse(c, raw, parsed) \/ Answer(c, raw, parsed)
  BY <1>1 DEF raw, parsed
<1>. QED BY <1>7, <1>8, <1>9

(* Tokens of a connection arrive there. *)
LEMMA ArrivesInv ==
  ASSUME ServicesInv, NEW c \in Conns, NEW r, NEW first \in Nat \ {0}, NEW last \in Nat,
         Written(r) \in Seq(Text), last <= Len(Written(r)), Arrives(c, r, first, last),
         sending' \in [Conns -> (0..Len(Requests)) \X (Nat \ {0})], SendingFits'
  PROVE  ServicesInv'
<1> DEFINE new == Tokens(c, r, first, last)
<1>1. /\ pieces < MaxPieces /\ pieces' = pieces + 1
      /\ arrived' = [arrived EXCEPT ![c] = @ \o new]
      /\ UNCHANGED <<phase, services, request, open, times, call, calls, replies>>
  BY DEF Arrives
<1>2. new \in Seq(Token) /\ AllOf(new, c)
  BY TokensOf
<1>. HIDE DEF new
<1>3. /\ arrived \in [Conns -> Seq(Token)] /\ arrived[c] \in Seq(Token)
      /\ \A k \in Conns : AllOf(arrived[k], k)
  BY DEF ServicesInv, TypeOK
<1>4. arrived[c] \o new \in Seq(Token) /\ AllOf(arrived[c] \o new, c)
  BY <1>2, <1>3, ConcatProperties, AllOfConcat
<1>5. arrived' \in [Conns -> Seq(Token)]
  BY <1>1, <1>3, <1>4
<1>6. \A k \in Conns : AllOf(arrived[k], k)'
  <2>. TAKE k \in Conns
  <2>1. arrived'[k] = IF k = c THEN arrived[c] \o new ELSE arrived[k]
    BY <1>1, <1>3
  <2>. QED BY <1>3, <1>4, <2>1 DEF AllOf
<1>7. pieces' \in 0..MaxPieces
  <2>1. pieces \in 0..MaxPieces /\ MaxPieces \in Nat
    BY ServicesAssumption DEF ServicesInv, TypeOK
  <2>. QED BY <1>1, <2>1
<1>8. TypeOK'
  BY <1>1, <1>5, <1>7 DEF ServicesInv, TypeOK, services, request
<1>. QED
  BY <1>1, <1>6, <1>8 DEF ServicesInv, ServicesFit, Registered, services, request, AllOf

LEMMA SendInv ==
  ASSUME ServicesInv, NEW c \in Conns, Send(c)
  PROVE  ServicesInv'
<1>1. /\ sending \in [Conns -> (0..Len(Requests)) \X (Nat \ {0})]
      /\ sending[c] \in (0..Len(Requests)) \X (Nat \ {0}) /\ SendingFits
  BY DEF ServicesInv, TypeOK
<1>2. CASE SendGarbage(c)
  <2>1. UNCHANGED sending /\ Arrives(c, 0, 1, Len(Garbage))
    BY <1>2 DEF SendGarbage
  <2>2. Written(0) = Garbage /\ Garbage \in Seq(Text) /\ Len(Garbage) \in Nat
    BY ServicesAssumption, LenProperties DEF Written
  <2>3. SendingFits'
    BY <1>1, <2>1 DEF SendingFits
  <2>. QED BY <1>1, <2>1, <2>2, <2>3, ArrivesInv
<1>3. ASSUME NEW r \in DOMAIN Requests, SendRequest(c, r) PROVE ServicesInv'
  <2> DEFINE length == Len(Messages[r])
             first == sending[c][2]
  <2>1. first > 1 => r = sending[c][1]
    BY <1>3 DEF SendRequest
  <2>2. PICK last \in {n \in Cuts : first <= n /\ n < length} \cup {length} :
          /\ sending' = [sending EXCEPT ![c] = IF last = length THEN <<0, 1>>
                                                               ELSE <<r, last + 1>>]
          /\ Arrives(c, r, first, last)
    BY <1>3 DEF SendRequest
  <2>3. r \in 1..Len(Requests) /\ Len(Requests) \in Nat
    BY RequestShape
  <2>4. /\ Written(r) = Messages[r] /\ Messages[r] \in Seq(Text) /\ length \in Nat
    BY <2>3, MessageType, LenProperties DEF Written, Messages
  <2>5. first \in Nat \ {0} /\ last \in Nat /\ last <= length
    <3>1. first \in Nat \ {0}
      BY <1>1
    <3>2. (last \in Cuts /\ last < length) \/ last = length
      BY <2>2
    <3>3. Cuts \subseteq Nat
      BY ServicesAssumption
    <3>. QED BY <2>4, <3>1, <3>2, <3>3
  <2>6. last # length => last + 1 \in Nat \ {0} /\ last + 1 <= length
    BY <2>2, <2>4, <2>5
  <2> DEFINE next == IF last = length THEN <<0, 1>> ELSE <<r, last + 1>>
  <2>7. /\ next \in (0..Len(Requests)) \X (Nat \ {0})
        /\ next[2] > 1 => next[1] \in DOMAIN Requests /\ next[2] <= Len(Messages[next[1]])
    BY <2>3, <2>6
  <2>. HIDE DEF next
  <2>8. sending' = [sending EXCEPT ![c] = next]
    BY <2>2 DEF next
  <2>9. sending' \in [Conns -> (0..Len(Requests)) \X (Nat \ {0})]
    BY <1>1, <2>7, <2>8
  <2>10. SendingFits'
    <3>1. \A k \in Conns : sending'[k] = IF k = c THEN next ELSE sending[k]
      BY <1>1, <2>8
    <3>. QED BY <1>1, <2>7, <3>1 DEF SendingFits
  <2>. QED BY <2>2, <2>4, <2>5, <2>9, <2>10, ArrivesInv
<1>. QED BY <1>2, <1>3 DEF Send

LEMMA StutterInv ==
  ASSUME ServicesInv, UNCHANGED vars
  PROVE  ServicesInv'
<1>1. TypeOK'
  BY DEF ServicesInv, TypeOK, vars, services, request, clients
<1>. QED
  BY <1>1 DEF ServicesInv, ServicesFit, Registered, SendingFits, AllOf, vars, services,
              request, clients

LEMMA StepInv == ServicesInv /\ [Next]_vars => ServicesInv'
<1>. SUFFICES ASSUME ServicesInv, [Next]_vars PROVE ServicesInv'
  OBVIOUS
<1>1. ASSUME NEW h \in Handlers, Register(h) PROVE ServicesInv'
  BY <1>1, RegisterInv
<1>2. CASE Exec
  BY <1>2, ExecInv
<1>3. ASSUME NEW c \in Conns, Process(c) PROVE ServicesInv'
  BY <1>3, ProcessInv
<1>4. ASSUME NEW c \in Conns, Send(c) PROVE ServicesInv'
  BY <1>4, SendInv
<1>5. CASE UNCHANGED vars
  BY <1>5, StutterInv
<1>. QED BY <1>1, <1>2, <1>3, <1>4, <1>5 DEF Next

(* What registration has built fits the handlers that were registered, what  *)
(* waits in a socket came on its connection, and only a refused request      *)
(* leaves something in m_rawData.                                            *)
THEOREM ServicesInvariant == Spec => []ServicesInv
<1>1. Init => ServicesInv
  BY InitInv
<1>2. ServicesInv /\ [Next]_vars => ServicesInv'
  BY StepInv
<1>. QED BY <1>1, <1>2, PTL DEF Spec

-----------------------------------------------------------------------------
(* What callHandler finds. *)

(* For every method a client uses, whatever the URI. *)
LEMMA HandlerFound ==
  ASSUME ServicesInv, NEW r \in DOMAIN Requests, NEW uri
  PROVE  CallHandler(<<Requests[r].method>>, uri) = Chosen(<<Requests[r].method>>, uri)
<1>. SUFFICES ASSUME NEW method, method = <<Requests[r].method>>
              PROVE  CallHandler(method, uri) = Chosen(method, uri)
  OBVIOUS
<1>1. method # any /\ ServicesFit
  BY ServicesAssumption DEF ServicesInv
<1>2. added \subseteq Handlers
  BY DEF ServicesInv, TypeOK
<1>3. \A u : Registered(method, u) <=>
               method \in DOMAIN m_services
               /\ u \in {h.uri : h \in {k \in added : k.method = method}}
  BY <1>1, <1>2, HandlerShape DEF Registered, ServicesFit
<1>4. method \in DOMAIN m_services <=> \E h \in added : h.method = method
  BY <1>1 DEF ServicesFit
<1>5. CASE method \in DOMAIN m_services
  <2>1. m_services[method] =
          [uris |-> {h.uri : h \in {k \in added : k.method = method}} \ {any},
           default |-> IF Registered(method, any) THEN <<"200", method, any>> ELSE Status404]
    BY <1>1, <1>5 DEF ServicesFit
  <2>2. CASE Registered(method, uri) /\ uri # any
    BY <1>3, <1>5, <2>1, <2>2 DEF CallHandler, Chosen, Handler
  <2>3. CASE Registered(method, uri) /\ uri = any
    BY <1>3, <1>5, <2>1, <2>3 DEF CallHandler, Chosen, Handler
  <2>4. CASE ~Registered(method, uri)
    BY <1>3, <1>4, <1>5, <2>1, <2>4 DEF CallHandler, Chosen
  <2>. QED BY <2>2, <2>3, <2>4
<1>6. CASE method \notin DOMAIN m_services
  <2>1. ~Registered(method, uri) /\ ~Registered(method, any)
    BY <1>3, <1>6
  <2>2. CallHandler(method, uri) =
          IF Registered(any, any) THEN <<"200", any, any>> ELSE Status405
    BY <1>1, <1>6 DEF CallHandler, ServicesFit
  <2>. QED BY <1>4, <1>6, <2>1, <2>2 DEF Chosen
<1>. QED BY <1>5, <1>6

(* addService and setDefaultService can be called in any order: callHandler  *)
(* finds the handler of the method and the URI, else the defaults in turn.   *)
THEOREM AnyOrderOfRegistration == Spec => []OrderOfRegistration
<1>1. ServicesInv => OrderOfRegistration
  BY HandlerFound DEF OrderOfRegistration
<1>. QED BY <1>1, ServicesInvariant, PTL

-----------------------------------------------------------------------------
(* Calls and answers. *)

(* process hands nobody another's request, unless the one before it was      *)
(* refused and has left its data in m_rawData.                               *)
THEOREM HandlersSeeOwnRequest == Spec => []OwnRequest
<1>1. ServicesInv => OwnRequest
  BY DEF ServicesInv, AllOf, OwnRequest, Own
<1>. QED BY <1>1, ServicesInvariant, PTL

(* What is answered was counted, and the answer behind the last one allowed  *)
(* closes the connection.                                                    *)
LEMMA ProcessLimit ==
  ASSUME ServicesInv, CountedFit, m_maxTimes # 0, NEW k \in Conns, Process(k),
         NEW c \in Conns
  PROVE  /\ replies'[c] <= times'[c]
         /\ open'[c] => replies'[c] <= m_maxTimes
         /\ replies'[c] <= m_maxTimes + 1
<1>1. /\ times \in [Conns -> Nat] /\ replies \in [Conns -> Nat] /\ open \in [Conns -> BOOLEAN]
      /\ m_maxTimes \in Nat /\ times[c] \in Nat /\ replies[c] \in Nat
  BY ServicesAssumption DEF ServicesInv, TypeOK
<1>2. /\ replies[c] <= times[c] /\ replies[c] <= m_maxTimes + 1
      /\ open[c] => replies[c] <= m_maxTimes
  BY DEF CountedFit
<1>3. open[k]
  BY DEF Process
<1>4. PICK raw, parsed : Refuse(k, raw, parsed) \/ Answer(k, raw, parsed)
  BY Zenon DEF Process
<1>5. CASE Refuse(k, raw, parsed)
  <2>1. times' = times /\ replies' = replies /\ open' = [open EXCEPT ![k] = FALSE]
    BY <1>5 DEF Refuse
  <2>. QED BY <1>1, <1>2, <2>1
<1>6. CASE Answer(k, raw, parsed)
  <2>1. times' = [times EXCEPT ![k] = @ + 1]
    BY <1>1, <1>6 DEF Answer, Counted
  <2>2. PICK keepAlive : Replied(k, keepAlive) \/ WriteFails(k) \/ NothingWritten
    BY <1>6 DEF Answer
  <2>3. CASE Replied(k, keepAlive)
    <3>1. /\ replies' = [replies EXCEPT ![k] = @ + 1]
          /\ open' = [open EXCEPT ![k] = KeepsOpen(keepAlive, times'[k])]
      BY <2>3 DEF Replied
    <3>2. CASE c = k
      <4>1. replies'[c] = replies[c] + 1 /\ times'[c] = times[c] + 1
        BY <1>1, <2>1, <3>1, <3>2
      <4>2. open'[c] => times'[c] <= m_maxTimes
        BY <1>1, <3>1, <3>2 DEF KeepsOpen
      <4>. QED BY <1>1, <1>2, <1>3, <3>2, <4>1, <4>2
    <3>3. CASE c # k
      BY <1>1, <1>2, <2>1, <3>1, <3>3
    <3>. QED BY <3>2, <3>3
  <2>4. CASE WriteFails(k)
    BY <1>1, <1>2, <2>1, <2>4 DEF WriteFails
  <2>5. CASE NothingWritten
    BY <1>1, <1>2, <2>1, <2>5 DEF NothingWritten
  <2>. QED BY <2>2, <2>3, <2>4, <2>5
<1>. QED BY <1>4, <1>5, <1>6

LEMMA LimitStep == ServicesInv /\ CountedFit /\ [Next]_vars => CountedFit'
<1>. SUFFICES ASSUME ServicesInv, CountedFit, [Next]_vars, m_maxTimes # 0, NEW c \in Conns
              PROVE  /\ replies'[c] <= times'[c]
                     /\ open'[c] => replies'[c] <= m_maxTimes
                     /\ replies'[c] <= m_maxTimes + 1
  BY DEF CountedFit
<1>1. CASE \E k \in Conns : Process(k)
  BY <1>1, ProcessLimit
<1>2. CASE ~ \E k \in Conns : Process(k)
  <2>1. open' = open /\ times' = times /\ replies' = replies
    BY <1>2 DEF Next, Register, Exec, Send, SendGarbage, SendRequest, Arrives, vars
  <2>. QED BY <2>1 DEF CountedFit
<1>. QED BY <1>1, <1>2

(* With any limit, any requests and any cuts of them: no connection is       *)
(* answered more often than once behind the limit.                           *)
THEOREM AnswersStayLimited == Spec => []AnswersAreLimited
<1>1. Init => CountedFit
  BY ServicesAssumption DEF Init, CountedFit
<1>2. CountedFit => AnswersAreLimited
  BY DEF CountedFit, AnswersAreLimited
<1>. QED BY <1>1, <1>2, LimitStep, ServicesInvariant, PTL DEF Spec

-----------------------------------------------------------------------------
(* The parser: referTil. *)

LEMMA MinLeast ==
  ASSUME NEW S \in SUBSET Nat, S # {}
  PROVE  Min(S) \in S /\ \A x \in S : Min(S) <= x
<1>1. \E m \in S : \A x \in S : m <= x
  BY LeastNumber
<1>. QED BY <1>1, Zenon DEF Min

LEMMA MinIs ==
  ASSUME NEW S \in SUBSET Nat, NEW m \in S, \A x \in S : m <= x
  PROVE  Min(S) = m
<1>1. Min(S) \in S /\ \A x \in S : Min(S) <= x
  BY MinLeast
<1>2. Min(S) <= m /\ m <= Min(S) /\ m \in Nat /\ Min(S) \in Nat
  BY <1>1
<1>. QED BY <1>2

(* The length of one word. *)
LEMMA LengthOne ==
  ASSUME NEW text \in Text
  PROVE  Length(<<text>>) = Word[text].length
<1> DEFINE Upto(f) == f = [i \in 0..Len(<<text>>) |->
                             IF i = 0 THEN 0 ELSE f[i - 1] + Word[<<text>>[i]].length]
           g == CHOOSE f : Upto(f)
<1>1. Len(<<text>>) = 1 /\ <<text>>[1] = text /\ 0 \in 0..1 /\ 1 \in 0..1
      /\ Word[text].length \in Nat
  BY WordAssumption
<1>2. Length(<<text>>) = g[Len(<<text>>)]
  BY Zenon DEF Length
<1>3. \E f : Upto(f)
  <2>. DEFINE h == [i \in 0..1 |-> IF i = 0 THEN 0 ELSE Word[text].length]
  <2>1. h[0] = 0
    OBVIOUS
  <2>2. \A i \in 0..1 : h[i] = IF i = 0 THEN 0 ELSE h[i - 1] + Word[<<text>>[i]].length
    <3>. TAKE i \in 0..1
    <3>1. CASE i = 0
      BY <3>1
    <3>2. CASE i = 1
      BY <1>1, <2>1, <3>2
    <3>. QED BY <3>1, <3>2
  <2>3. h = [i \in 0..1 |-> IF i = 0 THEN 0 ELSE h[i - 1] + Word[<<text>>[i]].length]
    BY <2>2
  <2>4. Upto(h)
    BY <1>1, <2>3
  <2>. QED BY <2>4
<1>4. Upto(g)
  BY <1>3, Zenon
<1>. HIDE DEF g
<1>5. g[1] = g[0] + Word[text].length /\ g[0] = 0
  BY <1>1, <1>4
<1>. QED BY <1>1, <1>2, <1>5

(* What is found lies behind the start. *)
LEMMA ReferBound ==
  ASSUME NEW d \in Seq(Token), NEW max \in Nat, NEW offset \in Nat, NEW limits,
         Found(ReferTil(max, d, offset, limits))
  PROVE  ReferTil(max, d, offset, limits).end \in offset..Len(d)
<1> DEFINE ends == {i \in offset..Len(d) : d[i].text \in limits}
<1>1. Len(d) \in Nat
  BY LenProperties
<1>2. ends # {} /\ ReferTil(max, d, offset, limits).end = Min(ends)
  BY DEF ReferTil, Found, NotFound
<1>3. ends \in SUBSET Nat /\ ends \subseteq offset..Len(d)
  BY <1>1
<1>. HIDE DEF ends
<1>. QED BY <1>2, <1>3, MinLeast

(* A word with a limit behind it. *)
LEMMA ReferOne ==
  ASSUME NEW d \in Seq(Token), NEW max \in Nat, NEW at \in 1..Len(d), NEW limits,
         at + 1 <= Len(d), d[at].text \notin limits, d[at + 1].text \in limits,
         max = 0 \/ Word[d[at].text].length < max
  PROVE  ReferTil(max, d, at, limits) = [dst |-> <<d[at].text>>, end |-> at + 1]
<1> DEFINE ends == {i \in at..Len(d) : d[i].text \in limits}
           dst == Texts(SubSeq(d, at, Min(ends) - 1))
<1>1. Len(d) \in Nat /\ d[at] \in Token
  BY LenProperties, ElementOfSeq
<1>2. Min(ends) = at + 1
  <2>1. ends \in SUBSET Nat /\ at + 1 \in ends /\ \A x \in ends : at + 1 <= x
    BY <1>1
  <2>. HIDE DEF ends
  <2>. QED BY <2>1, MinIs
<1>3. at + 1 \in ends
  BY <1>1
<1>. HIDE DEF ends
<1>4. SubSeq(d, at, at) = <<d[at]>>
  <2>1. /\ SubSeq(d, at, at) \in Seq(Token) /\ Len(SubSeq(d, at, at)) = 1
        /\ SubSeq(d, at, at)[1] = d[at]
    <3>1. \A i \in at..at : d[i] \in Token
      BY <1>1
    <3>. QED BY <3>1, SubSeqProperties
  <2>2. <<d[at]>> \in Seq(Token) /\ Len(<<d[at]>>) = 1 /\ <<d[at]>>[1] = d[at]
    BY <1>1
  <2>3. \A i \in 1..Len(SubSeq(d, at, at)) : SubSeq(d, at, at)[i] = <<d[at]>>[i]
    BY <2>1, <2>2
  <2>. QED BY <2>1, <2>2, <2>3, SeqEqual, Zenon
<1>5. dst = <<d[at].text>>
  <2>1. dst = Texts(<<d[at]>>)
    <3>1. Min(ends) - 1 = at
      BY <1>2
    <3>. QED BY <1>4, <3>1
  <2>2. Texts(<<d[at]>>) = [i \in 1..1 |-> d[at].text]
    BY DEF Texts
  <2>3. <<d[at].text>> = [i \in 1..1 |-> d[at].text]
    OBVIOUS
  <2>. QED BY <2>1, <2>2, <2>3
<1>6. ~(max > 0 /\ Length(dst) >= max)
  <2>1. d[at].text \in Text
    BY <1>1 DEF Token
  <2>2. Length(dst) = Word[d[at].text].length /\ Word[d[at].text].length \in Nat
    BY <1>5, <2>1, LengthOne, WordAssumption
  <2>. QED BY <2>2
<1>. HIDE DEF dst
<1>7. ReferTil(max, d, at, limits) =
        IF ends = {} \/ (max > 0 /\ Length(dst) >= max) THEN NotFound
        ELSE [dst |-> dst, end |-> Min(ends)]
  BY Zenon DEF ReferTil, ends, dst
<1>. QED BY <1>2, <1>3, <1>5, <1>6, <1>7

-----------------------------------------------------------------------------
(* The parser: arguments. *)

\* One argument, with what comes after it.
Argument(d, i) == ReferTil(0, d, i + 1, {"&", Space})
ArgumentStep(d, i, rest) ==
  IF ~Found(Argument(d, i)) THEN [list |-> <<>>, end |-> 0]
  ELSE IF d[Argument(d, i).end].text # "&"
       THEN [list |-> <<Argument(d, i).dst>>, end |-> Argument(d, i).end]
       ELSE [list |-> <<Argument(d, i).dst>> \o rest.list, end |-> rest.end]
ArgumentsFrom(f, d, lo) ==
  f = [i \in lo..Len(d) |-> ArgumentStep(d, i, f[Argument(d, i).end])]

(* The recursion of Arguments goes on behind the place it comes from.        *)
LEMMA ArgumentsExist ==
  ASSUME NEW d \in Seq(Token)
  PROVE  \E f : ArgumentsFrom(f, d, 1)
<1> DEFINE n == Len(d)
           Bad == {k \in 0..n : ~ \E f : ArgumentsFrom(f, d, n + 1 - k)}
<1>1. n \in Nat
  BY LenProperties
<1>. HIDE DEF n
<1>. SUFFICES ASSUME Bad # {} PROVE FALSE
  <2>1. n \in 0..n /\ n + 1 - n = 1
    BY <1>1
  <2>. QED BY <2>1
<1>2. PICK k \in Bad : \A x \in Bad : k <= x
  <2>1. Bad \in SUBSET Nat
    BY <1>1
  <2>. HIDE DEF Bad
  <2>. QED BY <2>1, LeastNumber
<1>3. CASE k = 0
  <2>. DEFINE f == [i \in n + 1..n |-> ArgumentStep(d, i, 0)]
  <2>1. \A i \in n + 1..n : FALSE
    BY <1>1
  <2>2. f = [i \in n + 1..n |-> ArgumentStep(d, i, f[Argument(d, i).end])]
    BY <2>1
  <2>3. ArgumentsFrom(f, d, n + 1 - k)
    <3>1. n + 1 - k = n + 1
      BY <1>1, <1>3
    <3>. HIDE DEF f
    <3>. QED BY <2>2, <3>1 DEF ArgumentsFrom, n
  <2>. QED BY <2>3
<1>4. CASE k # 0
  <2>. DEFINE lo == n + 1 - k
  <2>1. k \in Nat /\ k - 1 \in 0..n /\ k - 1 \notin Bad /\ n + 1 - (k - 1) = lo + 1
        /\ lo \in 1..n
    <3>1. k \in 1..n
      BY <1>1, <1>2, <1>4
    <3>2. k - 1 \notin Bad
      <4>. HIDE DEF Bad
      <4>1. ASSUME k - 1 \in Bad PROVE k <= k - 1
        BY <1>2, <4>1
      <4>. QED BY <3>1, <4>1
    <3>. HIDE DEF Bad
    <3>. QED BY <1>1, <3>1, <3>2
  <2>2. PICK f : ArgumentsFrom(f, d, lo + 1)
    BY <2>1
  <2>. HIDE DEF lo
  <2>3. \A i \in lo + 1..n : f[i] = ArgumentStep(d, i, f[Argument(d, i).end])
    BY <2>2 DEF ArgumentsFrom, n
  <2>. DEFINE h == [i \in lo..n |-> IF i = lo THEN ArgumentStep(d, i, f[Argument(d, i).end])
                                              ELSE f[i]]
  <2>4. \A i \in lo..n : h[i] = ArgumentStep(d, i, f[Argument(d, i).end])
    <3>. TAKE i \in lo..n
    <3>1. CASE i = lo
      BY <3>1
    <3>2. CASE i # lo
      <4>1. i \in lo + 1..n
        BY <2>1, <3>2
      <4>. QED BY <2>3, <3>2, <4>1
    <3>. QED BY <3>1, <3>2
  <2>5. ASSUME NEW i \in lo..n
        PROVE  ArgumentStep(d, i, f[Argument(d, i).end]) = ArgumentStep(d, i, h[Argument(d, i).end])
    <3>1. CASE Found(Argument(d, i))
      <4>1. Argument(d, i).end \in i + 1..n
        BY <1>1, <2>1, <3>1, ReferBound DEF Argument, n
      <4>2. Argument(d, i).end \in lo..n /\ Argument(d, i).end # lo
        BY <1>1, <2>1, <4>1
      <4>3. h[Argument(d, i).end] = f[Argument(d, i).end]
        BY <4>2
      <4>. QED BY <4>3
    <3>2. CASE ~Found(Argument(d, i))
      BY <3>2 DEF ArgumentStep
    <3>. QED BY <3>1, <3>2
  <2>6. h = [i \in lo..n |-> ArgumentStep(d, i, h[Argument(d, i).end])]
    <3>1. \A i \in lo..n : h[i] = ArgumentStep(d, i, h[Argument(d, i).end])
      BY <2>4, <2>5
    <3>2. h = [i \in lo..n |-> h[i]]
      OBVIOUS
    <3>. HIDE DEF h
    <3>. QED BY <3>1, <3>2
  <2>7. ArgumentsFrom(h, d, n + 1 - k)
    <3>. HIDE DEF h
    <3>. QED BY <2>6 DEF ArgumentsFrom, n, lo
  <2>. QED BY <2>7
<1>. QED BY <1>3, <1>4

LEMMA ArgumentsAre ==
  ASSUME NEW d \in Seq(Token), NEW at
  PROVE  \E f : /\ ArgumentsFrom(f, d, 1)
                /\ Arguments(d, at) = IF d[at].text = "?" THEN f[at]
                                                          ELSE [list |-> <<>>, end |-> at]
<1> DEFINE Is(f) == f = [i \in 1..Len(d) |->
              LET arg  == ReferTil(0, d, i + 1, {"&", Space})
                  rest == f[arg.end]
              IN IF ~Found(arg) THEN [list |-> <<>>, end |-> 0]
                 ELSE IF d[arg.end].text # "&" THEN [list |-> <<arg.dst>>, end |-> arg.end]
                 ELSE [list |-> <<arg.dst>> \o rest.list, end |-> rest.end]]
           g == CHOOSE f : Is(f)
<1>1. \A f : Is(f) <=> ArgumentsFrom(f, d, 1)
  BY DEF ArgumentsFrom, ArgumentStep, Argument
<1>2. Is(g)
  BY <1>1, ArgumentsExist, Zenon
<1>3. Arguments(d, at) = IF d[at].text = "?" THEN g[at] ELSE [list |-> <<>>, end |-> at]
  BY Zenon DEF Arguments
<1>. HIDE DEF g, Is
<1>. QED BY <1>1, <1>2, <1>3

LEMMA Previous ==
  ASSUME NEW n \in Nat, NEW j \in 0..n - 1, NEW k, k = n - j, k # n
  PROVE  k \in 1..n - 1 /\ j - 1 \in 0..n - 1 /\ n - (j - 1) = k + 1
OBVIOUS

LEMMA FirstAndRest ==
  ASSUME NEW n \in Nat, NEW all, all = [i \in 1..n + 1 |-> all[i]]
  PROVE  <<all[1]>> \o [i \in 1..n |-> all[i + 1]] = all
<1> DEFINE S == {all[i] : i \in 1..n + 1}
           rest == [i \in 1..n |-> all[i + 1]]
<1>1. all \in [1..n + 1 -> S] /\ all[1] \in S /\ rest \in [1..n -> S]
  <2>1. \A i \in 1..n + 1 : all[i] \in S
    OBVIOUS
  <2>2. \A i \in 1..n : i + 1 \in 1..n + 1
    OBVIOUS
  <2>3. 1 \in 1..n + 1
    OBVIOUS
  <2>. HIDE DEF S
  <2>. QED BY <2>1, <2>2, <2>3
<1>2. \A i \in 1..n : rest[i] = all[i + 1]
  OBVIOUS
<1>. HIDE DEF S, rest
<1>3. /\ all \in Seq(S) /\ Len(all) = n + 1 /\ rest \in Seq(S) /\ Len(rest) = n
      /\ <<all[1]>> \in Seq(S) /\ Len(<<all[1]>>) = 1 /\ <<all[1]>>[1] = all[1]
  <2>1. n + 1 \in Nat
    OBVIOUS
  <2>. QED BY <1>1, <2>1, IsSeq
<1>4. /\ <<all[1]>> \o rest \in Seq(S) /\ Len(<<all[1]>> \o rest) = 1 + n
      /\ \A i \in 1..1 + n : (<<all[1]>> \o rest)[i] =
                               IF i <= 1 THEN <<all[1]>>[i] ELSE rest[i - 1]
  BY <1>3, ConcatProperties
<1>5. \A i \in 1..n + 1 : (<<all[1]>> \o rest)[i] = all[i]
  <2>. TAKE i \in 1..n + 1
  <2>1. i \in 1..1 + n
    OBVIOUS
  <2>2. CASE i = 1
    BY <1>3, <1>4, <2>1, <2>2
  <2>3. CASE i # 1
    <3>1. i - 1 \in 1..n /\ i - 1 + 1 = i /\ ~(i <= 1)
      BY <2>3
    <3>. QED BY <1>2, <1>4, <2>1, <3>1
  <2>. QED BY <2>2, <2>3
<1>6. <<all[1]>> \o rest = all
  <2>1. Len(<<all[1]>> \o rest) = Len(all)
    BY <1>3, <1>4
  <2>. QED BY <1>3, <1>4, <1>5, <2>1, SeqEqual
<1>. QED BY <1>6 DEF rest

(* Behind a question mark: words with an ampersand between them and a space  *)
(* behind the last.                                                          *)
LEMMA ArgumentsFound ==
  ASSUME NEW d \in Seq(Token), NEW at \in 1..Len(d), NEW n \in Nat \ {0},
         at + 2 * n <= Len(d), d[at].text = "?", d[at + 2 * n].text = Space,
         \A k \in 1..n : d[at + 2 * k - 1].text \notin {"&", Space},
         \A k \in 1..n - 1 : d[at + 2 * k].text = "&"
  PROVE  Arguments(d, at) = [list |-> [k \in 1..n |-> <<d[at + 2 * k - 1].text>>],
                             end |-> at + 2 * n]
<1>1. Len(d) \in Nat
  BY LenProperties
<1>2. PICK f : ArgumentsFrom(f, d, 1) /\ Arguments(d, at) = f[at]
  BY ArgumentsAre
<1>3. \A i \in 1..Len(d) : f[i] = ArgumentStep(d, i, f[Argument(d, i).end])
  BY <1>2 DEF ArgumentsFrom
<1>4. ASSUME NEW k \in 1..n
      PROVE  Argument(d, at + 2 * k - 2) = [dst |-> <<d[at + 2 * k - 1].text>>, end |-> at + 2 * k]
  <2>1. /\ at + 2 * k - 1 \in 1..Len(d) /\ at + 2 * k <= Len(d)
        /\ at + 2 * k - 1 + 1 = at + 2 * k /\ at + 2 * k - 2 + 1 = at + 2 * k - 1
    BY <1>1
  <2>2. d[at + 2 * k].text \in {"&", Space}
    <3>1. k = n \/ k \in 1..n - 1
      OBVIOUS
    <3>. QED BY <3>1
  <2>3. d[at + 2 * k - 1].text \notin {"&", Space}
    OBVIOUS
  <2>. DEFINE p == at + 2 * k - 1
  <2>4. /\ p \in 1..Len(d) /\ p + 1 <= Len(d) /\ p + 1 = at + 2 * k
        /\ d[p].text \notin {"&", Space} /\ d[p + 1].text \in {"&", Space}
        /\ Argument(d, at + 2 * k - 2) = ReferTil(0, d, p, {"&", Space})
    <3>1. p + 1 = at + 2 * k /\ at + 2 * k - 2 + 1 = p
      BY <2>1
    <3>. QED BY <2>1, <2>2, <2>3, <3>1 DEF Argument
  <2>. HIDE DEF p
  <2>5. ReferTil(0, d, p, {"&", Space}) = [dst |-> <<d[p].text>>, end |-> p + 1]
    BY <2>4, ReferOne
  <2>. QED BY <2>4, <2>5 DEF p
<1> DEFINE Text_(k) == <<d[at + 2 * k - 1].text>>
           Right(k) == f[at + 2 * k - 2] = [list |-> [i \in 1..n + 1 - k |-> Text_(k + i - 1)],
                                            end |-> at + 2 * n]
           Bad == {j \in 0..n - 1 : ~Right(n - j)}
<1>5. Bad = {}
  <2>. SUFFICES ASSUME Bad # {} PROVE FALSE
    OBVIOUS
  <2>1. PICK j \in Bad : \A x \in Bad : j <= x
    <3>1. Bad \in SUBSET Nat
      OBVIOUS
    <3>. HIDE DEF Bad
    <3>. QED BY <3>1, LeastNumber
  <2>. DEFINE k == n - j
  <2>2. k \in 1..n /\ j \in 0..n - 1 /\ at + 2 * k - 2 \in 1..Len(d)
    BY <1>1
  <2>. HIDE DEF k
  <2>3. f[at + 2 * k - 2] =
          ArgumentStep(d, at + 2 * k - 2, f[Argument(d, at + 2 * k - 2).end])
    BY <1>3, <2>2
  <2>4. /\ Argument(d, at + 2 * k - 2).dst = Text_(k)
        /\ Argument(d, at + 2 * k - 2).end = at + 2 * k
    <3>1. Argument(d, at + 2 * k - 2) = [dst |-> Text_(k), end |-> at + 2 * k]
      BY <1>4, <2>2
    <3>. HIDE DEF Text_
    <3>. QED BY <3>1
  <2>5. Found(Argument(d, at + 2 * k - 2))
    BY <2>2, <2>4 DEF Found
  <2>6. CASE k = n
    <3>1. d[at + 2 * k].text # "&"
      BY <2>6 DEF Space
    <3>2. f[at + 2 * k - 2] = [list |-> <<Text_(k)>>, end |-> at + 2 * k]
      BY <2>3, <2>4, <2>5, <3>1, Zenon DEF ArgumentStep
    <3>3. <<Text_(k)>> = [i \in 1..n + 1 - k |-> Text_(k + i - 1)]
      <4>1. n + 1 - k = 1 /\ \A i \in 1..1 : k + i - 1 = k
        BY <2>6
      <4>2. [i \in 1..1 |-> Text_(k + i - 1)] = [i \in 1..1 |-> Text_(k)]
        BY <4>1
      <4>3. [i \in 1..n + 1 - k |-> Text_(k + i - 1)] = [i \in 1..1 |-> Text_(k + i - 1)]
        BY <4>1
      <4>4. ASSUME NEW x PROVE <<x>> = [i \in 1..1 |-> x]
        OBVIOUS
      <4>. QED BY <4>2, <4>3, <4>4
    <3>4. Right(k)
      BY <2>6, <3>2, <3>3
    <3>. QED BY <2>1, <3>4 DEF k
  <2>7. CASE k # n
    <3>1. k \in 1..n - 1 /\ j - 1 \in 0..n - 1 /\ j - 1 \notin Bad /\ n - (j - 1) = k + 1
      <4>1. k \in 1..n - 1 /\ j - 1 \in 0..n - 1 /\ n - (j - 1) = k + 1
        <5>1. k = n - j /\ k # n
          BY <2>7, Zenon DEF k
        <5>. QED BY <2>2, <5>1, Previous
      <4>2. j - 1 \notin Bad
        <5>. HIDE DEF Bad
        <5>1. ASSUME j - 1 \in Bad PROVE j <= j - 1
          BY <2>1, <5>1
        <5>. QED BY <2>2, <5>1
      <4>. QED BY <4>1, <4>2
    <3>2. Right(k + 1)
      BY <3>1
    <3>3. f[at + 2 * k] = [list |-> [i \in 1..n - k |-> Text_(k + 1 + i - 1)], end |-> at + 2 * n]
      <4>1. at + 2 * (k + 1) - 2 = at + 2 * k /\ n + 1 - (k + 1) = n - k
        BY <3>1
      <4>. QED BY <3>2, <4>1
    <3>4. d[at + 2 * k].text = "&"
      BY <3>1
    <3> DEFINE rest == [i \in 1..n - k |-> Text_(k + 1 + i - 1)]
    <3>5. f[at + 2 * k - 2] = [list |-> <<Text_(k)>> \o rest, end |-> at + 2 * n]
      <4>1. f[at + 2 * k].list = rest /\ f[at + 2 * k].end = at + 2 * n
        <5>1. f[at + 2 * k] = [list |-> rest, end |-> at + 2 * n]
          BY <3>3
        <5>. HIDE DEF rest
        <5>. QED BY <5>1
      <4>. HIDE DEF rest
      <4>. QED BY <2>3, <2>4, <2>5, <3>4, <4>1, Zenon DEF ArgumentStep
    <3>6. <<Text_(k)>> \o rest = [i \in 1..n + 1 - k |-> Text_(k + i - 1)]
      <4>. DEFINE all == [i \in 1..n - k + 1 |-> Text_(k + i - 1)]
      <4>1. n - k \in Nat /\ n + 1 - k = n - k + 1 /\ 1 \in 1..n - k + 1 /\ k + 1 - 1 = k
        BY <3>1
      <4>2. all[1] = Text_(k)
        BY <4>1
      <4>3. \A i \in 1..n - k : i + 1 \in 1..n - k + 1 /\ k + (i + 1) - 1 = k + 1 + i - 1
        BY <3>1
      <4>4. rest = [i \in 1..n - k |-> all[i + 1]]
        <5>1. \A i \in 1..n - k : all[i + 1] = Text_(k + 1 + i - 1)
          BY <4>3
        <5>. HIDE DEF all
        <5>. QED BY <5>1
      <4>5. all = [i \in 1..n - k + 1 |-> all[i]]
        OBVIOUS
      <4>. HIDE DEF rest, all, Text_
      <4>6. <<all[1]>> \o [i \in 1..n - k |-> all[i + 1]] = all
        BY <4>1, <4>5, FirstAndRest
      <4>. QED BY <4>1, <4>2, <4>4, <4>6 DEF all
    <3>7. Right(k)
      BY <3>5, <3>6
    <3>. QED BY <2>1, <3>7 DEF k
  <2>. QED BY <2>6, <2>7
<1>6. Right(1)
  <2>1. n - 1 \in 0..n - 1 /\ n - 1 \notin Bad /\ n - (n - 1) = 1
    <3>. HIDE DEF Bad
    <3>. QED BY <1>5
  <2>. QED BY <2>1
<1>7. Arguments(d, at) = [list |-> [i \in 1..n |-> Text_(1 + i - 1)], end |-> at + 2 * n]
  <2>1. at + 2 * 1 - 2 = at /\ n + 1 - 1 = n
    OBVIOUS
  <2>. QED BY <1>2, <1>6, <2>1
<1>8. [i \in 1..n |-> Text_(1 + i - 1)] = [k \in 1..n |-> Text_(k)]
  <2>1. \A i \in 1..n : 1 + i - 1 = i
    OBVIOUS
  <2>. QED BY <2>1
<1>. QED BY <1>7, <1>8

-----------------------------------------------------------------------------
(* The parser: headers. *)

\* One header, with what comes after it.
HeaderName(d, i) == ReferTil(0, d, i, {":"})
HeaderValue(d, i) == ReferTil(0, d, SkipSpaces(d, HeaderName(d, i).end + 1), {CR})
HeaderStep(d, i, rest) ==
  IF i > Len(d) \/ d[i].text = CR THEN [list |-> <<>>, end |-> i + 2]
  ELSE IF ~Found(HeaderName(d, i)) \/ ~Found(HeaderValue(d, i))
       THEN [list |-> <<>>, end |-> 0]
       ELSE [list |-> <<[name |-> HeaderName(d, i).dst, value |-> HeaderValue(d, i).dst]>>
                      \o rest.list,
             end |-> rest.end]
HeadersFrom(f, d, lo) ==
  f = [i \in {j \in Nat : lo <= j} |-> HeaderStep(d, i, f[HeaderValue(d, i).end + 2])]

LEMMA HeaderGoesOn ==
  ASSUME NEW d \in Seq(Token), NEW i \in Nat,
         Found(HeaderName(d, i)), Found(HeaderValue(d, i))
  PROVE  HeaderValue(d, i).end \in Nat /\ i < HeaderValue(d, i).end
<1>1. Len(d) \in Nat
  BY LenProperties
<1>2. HeaderName(d, i).end \in i..Len(d)
  BY ReferBound DEF HeaderName
<1> DEFINE at == HeaderName(d, i).end + 1
           behind == {k \in at..Len(d) : d[k].text # Space} \cup {Len(d) + 1}
<1>3. at \in Nat /\ i < at /\ at <= Len(d) + 1
  BY <1>1, <1>2
<1>. HIDE DEF at
<1>4. behind \in SUBSET Nat /\ behind # {} /\ \A k \in behind : at <= k
  BY <1>1, <1>3
<1>5. SkipSpaces(d, at) = Min(behind)
  BY DEF SkipSpaces
<1>. HIDE DEF behind
<1>6. SkipSpaces(d, at) \in Nat /\ at <= SkipSpaces(d, at)
  BY <1>4, <1>5, MinLeast
<1>7. HeaderValue(d, i).end \in SkipSpaces(d, at)..Len(d)
  BY <1>6, ReferBound DEF HeaderValue, at
<1>. QED BY <1>1, <1>3, <1>6, <1>7

(* The recursion of ParseRequestHeaders goes on behind the place it comes    *)
(* from.                                                                     *)
LEMMA HeadersExist ==
  ASSUME NEW d \in Seq(Token)
  PROVE  \E f : HeadersFrom(f, d, 0)
<1> DEFINE n == Len(d)
           Bad == {k \in 0..n + 1 : ~ \E f : HeadersFrom(f, d, n + 1 - k)}
<1>1. n \in Nat
  BY LenProperties
<1>. HIDE DEF n
<1>. SUFFICES ASSUME Bad # {} PROVE FALSE
  <2>1. n + 1 \in 0..n + 1 /\ n + 1 - (n + 1) = 0
    BY <1>1
  <2>. QED BY <2>1
<1>2. PICK k \in Bad : \A x \in Bad : k <= x
  <2>1. Bad \in SUBSET Nat
    BY <1>1
  <2>. HIDE DEF Bad
  <2>. QED BY <2>1, LeastNumber
<1>3. CASE k = 0
  <2>. DEFINE Places == {i \in Nat : n + 1 <= i}
              f == [i \in Places |-> HeaderStep(d, i, 0)]
  <2>1. \A i \in Places : \A rest : HeaderStep(d, i, 0) = HeaderStep(d, i, rest)
    <3>1. \A i \in Places : i > Len(d)
      BY <1>1 DEF n
    <3>. HIDE DEF Places
    <3>. QED BY <3>1 DEF HeaderStep
  <2>2. f = [i \in Places |-> HeaderStep(d, i, f[HeaderValue(d, i).end + 2])]
    <3>. HIDE DEF Places
    <3>1. \A i \in Places : HeaderStep(d, i, 0) = HeaderStep(d, i, f[HeaderValue(d, i).end + 2])
      BY <2>1, Zenon
    <3>. QED BY <3>1
  <2>3. HeadersFrom(f, d, n + 1 - k)
    <3>1. n + 1 - k = n + 1
      BY <1>1, <1>3
    <3>. HIDE DEF f
    <3>. QED BY <2>2, <3>1 DEF HeadersFrom
  <2>. QED BY <2>3
<1>4. CASE k # 0
  <2>. DEFINE lo == n + 1 - k
  <2>1. k \in Nat /\ k - 1 \in 0..n + 1 /\ k - 1 \notin Bad /\ n + 1 - (k - 1) = lo + 1
        /\ lo \in Nat
    <3>1. k \in 1..n + 1
      BY <1>1, <1>2, <1>4
    <3>2. k - 1 \notin Bad
      <4>. HIDE DEF Bad
      <4>1. ASSUME k - 1 \in Bad PROVE k <= k - 1
        BY <1>2, <4>1
      <4>. QED BY <3>1, <4>1
    <3>. HIDE DEF Bad
    <3>. QED BY <1>1, <3>1, <3>2
  <2>2. PICK f : HeadersFrom(f, d, lo + 1)
    BY <2>1
  <2>. HIDE DEF lo
  <2>. DEFINE Old == {i \in Nat : lo + 1 <= i}
              Places == {i \in Nat : lo <= i}
              next(i) == HeaderValue(d, i).end + 2
  <2>3. \A i \in Old : f[i] = HeaderStep(d, i, f[next(i)])
    BY <2>2 DEF HeadersFrom
  <2>. DEFINE h == [i \in Places |-> IF i = lo THEN HeaderStep(d, i, f[next(i)]) ELSE f[i]]
  <2>4. \A i \in Places : h[i] = HeaderStep(d, i, f[next(i)])
    <3>. TAKE i \in Places
    <3>1. CASE i = lo
      BY <3>1
    <3>2. CASE i # lo
      <4>1. i \in Old
        BY <2>1, <3>2
      <4>. QED BY <2>3, <3>2, <4>1
    <3>. QED BY <3>1, <3>2
  <2>5. ASSUME NEW i \in Places
        PROVE  HeaderStep(d, i, f[next(i)]) = HeaderStep(d, i, h[next(i)])
    <3>1. CASE Found(HeaderName(d, i)) /\ Found(HeaderValue(d, i))
      <4>1. HeaderValue(d, i).end \in Nat /\ i < HeaderValue(d, i).end
        BY <3>1, HeaderGoesOn
      <4>2. next(i) \in Places /\ next(i) # lo
        BY <2>1, <4>1
      <4>3. h[next(i)] = f[next(i)]
        <5>. HIDE DEF next, Places
        <5>. QED BY <4>2
      <4>. HIDE DEF h, next
      <4>. QED BY <4>3
    <3>2. CASE ~(Found(HeaderName(d, i)) /\ Found(HeaderValue(d, i)))
      <4>. HIDE DEF h, next
      <4>. QED BY <3>2 DEF HeaderStep
    <3>. QED BY <3>1, <3>2
  <2>6. h = [i \in Places |-> HeaderStep(d, i, h[next(i)])]
    <3>1. \A i \in Places : h[i] = HeaderStep(d, i, h[next(i)])
      BY <2>4, <2>5, Zenon
    <3>2. h = [i \in Places |-> h[i]]
      OBVIOUS
    <3>. HIDE DEF h
    <3>. QED BY <3>1, <3>2
  <2>7. HeadersFrom(h, d, n + 1 - k)
    <3>. HIDE DEF h
    <3>. QED BY <2>6 DEF HeadersFrom, lo
  <2>. QED BY <2>7
<1>. QED BY <1>3, <1>4

LEMMA HeadersAre ==
  ASSUME NEW d \in Seq(Token), NEW offset
  PROVE  \E f : HeadersFrom(f, d, 0) /\ ParseRequestHeaders(d, offset) = f[offset]
<1> DEFINE Is(f) == f = [i \in Nat |->
        IF i > Len(d) \/ d[i].text = CR THEN [list |-> <<>>, end |-> i + 2]
        ELSE LET name  == ReferTil(0, d, i, {":"})
                 value == ReferTil(0, d, SkipSpaces(d, name.end + 1), {CR})
                 rest  == f[value.end + 2]
             IN IF ~Found(name) \/ ~Found(value) THEN [list |-> <<>>, end |-> 0]
                ELSE [list |-> <<[name |-> name.dst, value |-> value.dst]>> \o rest.list,
                      end |-> rest.end]]
           g == CHOOSE f : Is(f)
<1>1. \A f : Is(f) <=> HeadersFrom(f, d, 0)
  <2>1. Nat = {j \in Nat : 0 <= j}
    OBVIOUS
  <2>. QED BY <2>1, Zenon DEF HeadersFrom, HeaderStep, HeaderName, HeaderValue
<1>2. Is(g)
  BY <1>1, HeadersExist, Zenon
<1>3. ParseRequestHeaders(d, offset) = g[offset]
  BY Zenon DEF ParseRequestHeaders
<1>. HIDE DEF g, Is
<1>. QED BY <1>1, <1>2, <1>3

(* Headers as they should be, with an empty line behind the last one.        *)
LEMMA HeadersFound ==
  ASSUME NEW d \in Seq(Token), NEW at \in 1..Len(d), NEW n \in Nat,
         at + 6 * n <= Len(d), d[at + 6 * n].text = CR,
         \A k \in 1..n : LET i == at + 6 * k - 6 IN
           /\ d[i].text \notin {":", CR} /\ d[i + 1].text = ":"
           /\ d[i + 2].text = Space /\ d[i + 3].text \notin {Space, CR}
           /\ d[i + 4].text = CR
  PROVE  ParseRequestHeaders(d, at) =
           [list |-> [k \in 1..n |-> [name |-> <<d[at + 6 * k - 6].text>>,
                                      value |-> <<d[at + 6 * k - 3].text>>]],
            end |-> at + 6 * n + 2]
<1>1. Len(d) \in Nat
  BY LenProperties
<1>2. PICK f : HeadersFrom(f, d, 0) /\ ParseRequestHeaders(d, at) = f[at]
  BY HeadersAre
<1>3. \A i \in Nat : f[i] = HeaderStep(d, i, f[HeaderValue(d, i).end + 2])
  <2>1. Nat = {j \in Nat : 0 <= j}
    OBVIOUS
  <2>. QED BY <1>2, <2>1 DEF HeadersFrom
<1>4. ASSUME NEW i \in 1..Len(d), i + 4 <= Len(d),
             d[i].text \notin {":", CR}, d[i + 1].text = ":",
             d[i + 2].text = Space, d[i + 3].text \notin {Space, CR}, d[i + 4].text = CR
      PROVE  HeaderStep(d, i, f[HeaderValue(d, i).end + 2]) =
               [list |-> <<[name |-> <<d[i].text>>, value |-> <<d[i + 3].text>>]>>
                         \o f[i + 6].list,
                end |-> f[i + 6].end]
  <2>1. HeaderName(d, i) = [dst |-> <<d[i].text>>, end |-> i + 1]
    <3>1. i + 1 <= Len(d) /\ d[i].text \notin {":"} /\ d[i + 1].text \in {":"}
      BY <1>1, <1>4
    <3>. QED BY <3>1, ReferOne DEF HeaderName
  <2>2. SkipSpaces(d, i + 2) = i + 3
    <3>. DEFINE behind == {k \in i + 2..Len(d) : d[k].text # Space} \cup {Len(d) + 1}
    <3>1. i + 3 \in behind /\ behind \in SUBSET Nat
      BY <1>1, <1>4
    <3>2. \A k \in behind : i + 3 <= k
      <4>. TAKE k \in behind
      <4>1. k # i + 2
        BY <1>1, <1>4
      <4>. QED BY <1>1, <1>4, <4>1
    <3>3. SkipSpaces(d, i + 2) = Min(behind)
      BY DEF SkipSpaces
    <3>. HIDE DEF behind
    <3>. QED BY <3>1, <3>2, <3>3, MinIs
  <2>3. HeaderValue(d, i) = [dst |-> <<d[i + 3].text>>, end |-> i + 4]
    <3>. DEFINE p == i + 3
    <3>1. /\ p \in 1..Len(d) /\ p + 1 <= Len(d) /\ p + 1 = i + 4
          /\ d[p].text \notin {CR} /\ d[p + 1].text \in {CR}
      BY <1>1, <1>4
    <3>2. HeaderName(d, i).end + 1 = i + 2
      BY <2>1
    <3>3. HeaderValue(d, i) = ReferTil(0, d, p, {CR})
      BY <2>2, <3>2 DEF HeaderValue
    <3>. HIDE DEF p
    <3>4. ReferTil(0, d, p, {CR}) = [dst |-> <<d[p].text>>, end |-> p + 1]
      BY <3>1, ReferOne
    <3>. QED BY <3>1, <3>3, <3>4 DEF p
  <2>4. Found(HeaderName(d, i)) /\ Found(HeaderValue(d, i))
    BY <2>1, <2>3 DEF Found
  <2>5. /\ HeaderName(d, i).dst = <<d[i].text>> /\ HeaderValue(d, i).dst = <<d[i + 3].text>>
        /\ HeaderValue(d, i).end + 2 = i + 6
    BY <2>1, <2>3
  <2>6. ~(i > Len(d) \/ d[i].text = CR)
    BY <1>1, <1>4
  <2>. QED BY <2>4, <2>5, <2>6, Zenon DEF HeaderStep
<1> DEFINE Item(k) == [name |-> <<d[at + 6 * k - 6].text>>, value |-> <<d[at + 6 * k - 3].text>>]
           Right(k) == f[at + 6 * k - 6] =
                         [list |-> [i \in 1..n + 1 - k |-> Item(k + i - 1)],
                          end |-> at + 6 * n + 2]
           Bad == {j \in 0..n : ~Right(n + 1 - j)}
<1>5. Bad = {}
  <2>. SUFFICES ASSUME Bad # {} PROVE FALSE
    OBVIOUS
  <2>1. PICK j \in Bad : \A x \in Bad : j <= x
    <3>1. Bad \in SUBSET Nat
      OBVIOUS
    <3>. HIDE DEF Bad
    <3>. QED BY <3>1, LeastNumber
  <2>. DEFINE k == n + 1 - j
  <2>2. k \in 1..n + 1 /\ j \in 0..n /\ at + 6 * k - 6 \in Nat
    BY <1>1
  <2>. HIDE DEF k
  <2>3. CASE k = n + 1
    <3>1. at + 6 * k - 6 = at + 6 * n /\ n + 1 - k = 0
      BY <1>1, <2>3
    <3>2. f[at + 6 * n] = [list |-> <<>>, end |-> at + 6 * n + 2]
      <4>1. at + 6 * n \in Nat
        BY <1>1
      <4>. QED BY <1>3, <4>1 DEF HeaderStep
    <3>3. [i \in 1..n + 1 - k |-> Item(k + i - 1)] = <<>>
      <4>1. \A i \in 1..n + 1 - k : FALSE
        BY <3>1
      <4>2. [i \in 1..0 |-> Item(k + i - 1)] = <<>>
        OBVIOUS
      <4>. QED BY <3>1, <4>2
    <3>4. Right(k)
      <4>. HIDE DEF Item
      <4>. QED BY <3>1, <3>2, <3>3
    <3>. QED BY <2>1, <3>4 DEF k
  <2>4. CASE k # n + 1
    <3>1. k \in 1..n /\ j - 1 \in 0..n /\ j - 1 \notin Bad /\ n + 1 - (j - 1) = k + 1
      <4>1. k \in 1..n /\ j - 1 \in 0..n /\ n + 1 - (j - 1) = k + 1
        <5>1. k = n + 1 - j /\ k # n + 1
          BY <2>4, Zenon DEF k
        <5>2. n + 1 \in Nat /\ j \in 0..n + 1 - 1
          BY <2>2
        <5>3. k \in 1..n + 1 - 1 /\ j - 1 \in 0..n + 1 - 1 /\ n + 1 - (j - 1) = k + 1
          BY <5>1, <5>2, Previous
        <5>. QED BY <5>3
      <4>2. j - 1 \notin Bad
        <5>. HIDE DEF Bad
        <5>1. ASSUME j - 1 \in Bad PROVE j <= j - 1
          BY <2>1, <5>1
        <5>. QED BY <2>2, <5>1
      <4>. QED BY <4>1, <4>2
    <3>2. Right(k + 1)
      BY <3>1
    <3> DEFINE rest == [i \in 1..n - k |-> Item(k + 1 + i - 1)]
               p == at + 6 * k - 6
    <3>3. f[p + 6] = [list |-> rest, end |-> at + 6 * n + 2]
      <4>1. at + 6 * (k + 1) - 6 = p + 6 /\ n + 1 - (k + 1) = n - k
        BY <3>1
      <4>. HIDE DEF Item, p
      <4>. QED BY <3>2, <4>1
    <3>4. p \in 1..Len(d) /\ p + 4 <= Len(d) /\ p + 3 = at + 6 * k - 3 /\ p \in Nat
      BY <1>1, <3>1
    <3>5. /\ d[p].text \notin {":", CR} /\ d[p + 1].text = ":" /\ d[p + 2].text = Space
          /\ d[p + 3].text \notin {Space, CR} /\ d[p + 4].text = CR
      BY <3>1
    <3>6. Item(k) = [name |-> <<d[p].text>>, value |-> <<d[p + 3].text>>]
      BY <3>4
    <3>. HIDE DEF p
    <3>7. f[p] = [list |-> <<[name |-> <<d[p].text>>, value |-> <<d[p + 3].text>>]>>
                           \o f[p + 6].list,
                  end |-> f[p + 6].end]
      BY <1>3, <1>4, <3>4, <3>5
    <3>8. f[p] = [list |-> <<Item(k)>> \o rest, end |-> at + 6 * n + 2]
      <4>1. f[p + 6].list = rest /\ f[p + 6].end = at + 6 * n + 2
        <5>. HIDE DEF rest
        <5>. QED BY <3>3
      <4>. HIDE DEF rest, Item
      <4>. QED BY <3>6, <3>7, <4>1, Zenon
    <3>9. <<Item(k)>> \o rest = [i \in 1..n + 1 - k |-> Item(k + i - 1)]
      <4>. HIDE DEF Item
      <4>. DEFINE all == [i \in 1..n - k + 1 |-> Item(k + i - 1)]
      <4>1. n - k \in Nat /\ n + 1 - k = n - k + 1 /\ 1 \in 1..n - k + 1 /\ k + 1 - 1 = k
        BY <3>1
      <4>2. all[1] = Item(k)
        BY <4>1
      <4>3. \A i \in 1..n - k : i + 1 \in 1..n - k + 1 /\ k + (i + 1) - 1 = k + 1 + i - 1
        BY <3>1
      <4>4. rest = [i \in 1..n - k |-> all[i + 1]]
        <5>1. \A i \in 1..n - k : all[i + 1] = Item(k + 1 + i - 1)
          BY <4>3
        <5>. HIDE DEF all
        <5>. QED BY <5>1
      <4>5. all = [i \in 1..n - k + 1 |-> all[i]]
        OBVIOUS
      <4>. HIDE DEF rest, all
      <4>6. <<all[1]>> \o [i \in 1..n - k |-> all[i + 1]] = all
        BY <4>1, <4>5, FirstAndRest
      <4>. QED BY <4>1, <4>2, <4>4, <4>6 DEF all
    <3>10. Right(k)
      <4>. HIDE DEF rest, Item
      <4>. QED BY <3>8, <3>9 DEF p
    <3>. QED BY <2>1, <3>10 DEF k
  <2>. QED BY <2>3, <2>4
<1>6. Right(1)
  <2>1. n \in 0..n /\ n \notin Bad /\ n + 1 - n = 1
    <3>. HIDE DEF Bad
    <3>. QED BY <1>5
  <2>. QED BY <2>1
<1>7. ParseRequestHeaders(d, at) = [list |-> [i \in 1..n |-> Item(1 + i - 1)], end |-> at + 6 * n + 2]
  <2>1. at + 6 * 1 - 6 = at /\ n + 1 - 1 = n
    BY <1>1
  <2>. HIDE DEF Item
  <2>. QED BY <1>2, <1>6, <2>1
<1>8. [i \in 1..n |-> Item(1 + i - 1)] = [k \in 1..n |-> Item(k)]
  <2>. HIDE DEF Item
  <2>1. \A i \in 1..n : 1 + i - 1 = i
    OBVIOUS
  <2>. QED BY <2>1
<1>. QED BY <1>7, <1>8

-----------------------------------------------------------------------------
(* The parser reads what a client has written. *)

(* The texts of data, place by place. *)
LEMMA TextsOf ==
  ASSUME NEW d \in Seq(Token), NEW T, T = Texts(d)
  PROVE  Len(d) \in Nat /\ Len(T) = Len(d) /\ \A i \in 1..Len(d) : T[i] = d[i].text
<1>1. Len(d) \in Nat /\ DOMAIN d = 1..Len(d)
  BY LenProperties
<1>2. T = [i \in 1..Len(d) |-> d[i].text]
  BY <1>1 DEF Texts
<1>3. \A i \in 1..Len(d) : T[i] \in {d[j].text : j \in 1..Len(d)}
  BY <1>2
<1>4. T \in [1..Len(d) -> {d[j].text : j \in 1..Len(d)}]
  BY <1>2, <1>3
<1>5. Len(T) = Len(d)
  BY <1>1, <1>4, IsSeq
<1>. QED BY <1>1, <1>2, <1>5

(* The request line. *)
LEMMA LineParsed ==
  ASSUME NEW d \in Seq(Token), NEW q, NEW n \in Nat, NEW m \in Nat, NEW b \in Nat,
         IsRequest(Texts(d), q, n, m, b), WellFormed(q), DOMAIN q.args = 1..n
  PROVE  ParseRequestLine(d) =
           [method |-> <<q.method>>, uri |-> UriUnescape(<<q.uri>>),
            args |-> [i \in 1..n |-> <<q.args[i]>>], end |-> 8 + 2 * n]
<1> DEFINE T == Texts(d)
           length == Len(d)
<1>1. length \in Nat /\ Len(T) = length /\ \A i \in 1..length : T[i] = d[i].text
  BY TextsOf
<1>2. IsRequest(T, q, n, m, b)
  OBVIOUS
<1>. HIDE DEF T, length
<1>3. /\ T[1] = q.method /\ T[2] = Space /\ T[3] = q.uri
      /\ \A i \in 1..n : /\ T[3 + (2 * i - 1)] = IF i = 1 THEN "?" ELSE "&"
                         /\ T[3 + 2 * i] = q.args[i]
      /\ T[4 + 2 * n] = Space /\ T[5 + 2 * n] = "HTTP/1.1" /\ T[6 + 2 * n] = CR
  BY <1>2 DEF IsRequest
<1>4. length = 9 + 2 * n + 6 * m + b
  BY <1>1, <1>2 DEF IsRequest
<1>5. /\ 1 \in 1..length /\ 2 \in 1..length /\ 3 \in 1..length /\ 4 + 2 * n \in 1..length
      /\ 5 + 2 * n \in 1..length /\ 6 + 2 * n \in 1..length
  BY <1>4
<1>6. /\ d[1].text = q.method /\ d[2].text = Space /\ d[3].text = q.uri
      /\ d[4 + 2 * n].text = Space /\ d[5 + 2 * n].text = "HTTP/1.1" /\ d[6 + 2 * n].text = CR
  BY <1>1, <1>3, <1>5, Zenon
<1>7. ASSUME NEW i \in 1..n
      PROVE  /\ d[3 + (2 * i - 1)].text = IF i = 1 THEN "?" ELSE "&"
             /\ d[3 + 2 * i].text = q.args[i]
  <2>1. 3 + (2 * i - 1) \in 1..length /\ 3 + 2 * i \in 1..length
    BY <1>4
  <2>2. /\ T[3 + (2 * i - 1)] = d[3 + (2 * i - 1)].text
        /\ T[3 + 2 * i] = d[3 + 2 * i].text
    BY <1>1, <2>1, Zenon
  <2>. QED BY <1>3, <2>2, Zenon
<1>8. /\ Len(d) = 9 + 2 * n + 6 * m + b
      /\ d[1].text = q.method /\ d[2].text = Space /\ d[3].text = q.uri
      /\ \A i \in 1..n : /\ d[3 + (2 * i - 1)].text = IF i = 1 THEN "?" ELSE "&"
                         /\ d[3 + 2 * i].text = q.args[i]
      /\ d[4 + 2 * n].text = Space /\ d[5 + 2 * n].text = "HTTP/1.1" /\ d[6 + 2 * n].text = CR
  BY <1>4, <1>6, <1>7 DEF length
<1>9. /\ q.method # Space /\ Word[q.method].length < 8 /\ q.uri \notin {"?", Space}
      /\ \A i \in 1..n : q.args[i] \notin {"&", Space}
  BY DEF WellFormed
<1>10. ReferTil(8, d, 1, {Space}) = [dst |-> <<q.method>>, end |-> 2]
  <2>1. 1 \in 1..Len(d) /\ 1 + 1 <= Len(d) /\ 1 + 1 = 2
    BY <1>8
  <2>2. d[1].text \notin {Space} /\ d[1 + 1].text \in {Space} /\ Word[d[1].text].length < 8
    BY <1>8, <1>9, <2>1
  <2>3. ReferTil(8, d, 1, {Space}) = [dst |-> <<d[1].text>>, end |-> 1 + 1]
    BY <2>1, <2>2, ReferOne
  <2>. QED BY <1>8, <2>1, <2>3
<1>11. /\ n = 0 => d[4].text = Space
       /\ n # 0 => d[4].text = "?"
  <2>1. n = 0 => 4 + 2 * n = 4
    OBVIOUS
  <2>2. n # 0 => 1 \in 1..n /\ 3 + (2 * 1 - 1) = 4
    OBVIOUS
  <2>. QED BY <1>8, <2>1, <2>2
<1>12. ReferTil(0, d, 3, {"?", Space}) = [dst |-> <<q.uri>>, end |-> 4]
  <2>1. 3 \in 1..Len(d) /\ 3 + 1 <= Len(d) /\ 3 + 1 = 4
    BY <1>8
  <2>2. d[3].text \notin {"?", Space} /\ d[3 + 1].text \in {"?", Space}
    BY <1>8, <1>9, <1>11, <2>1
  <2>3. ReferTil(0, d, 3, {"?", Space}) = [dst |-> <<d[3].text>>, end |-> 3 + 1]
    BY <2>1, <2>2, ReferOne
  <2>. QED BY <1>8, <2>1, <2>3
<1>13. Arguments(d, 4) = [list |-> [i \in 1..n |-> <<q.args[i]>>], end |-> 4 + 2 * n]
  <2>1. CASE n = 0
    <3>1. PICK f : Arguments(d, 4) = IF d[4].text = "?" THEN f[4] ELSE [list |-> <<>>, end |-> 4]
      BY ArgumentsAre
    <3>2. d[4].text # "?"
      BY <1>11, <2>1 DEF Space
    <3>3. 4 + 2 * n = 4 /\ [i \in 1..n |-> <<q.args[i]>>] = <<>>
      <4>1. [i \in 1..0 |-> <<q.args[i]>>] = <<>>
        OBVIOUS
      <4>. QED BY <2>1, <4>1
    <3>. QED BY <3>1, <3>2, <3>3
  <2>2. CASE n # 0
    <3>1. 4 \in 1..Len(d) /\ n \in Nat \ {0} /\ 4 + 2 * n <= Len(d)
      BY <1>8, <2>2
    <3>2. d[4].text = "?" /\ d[4 + 2 * n].text = Space
      BY <1>8, <1>11, <2>2
    <3>3. ASSUME NEW k \in 1..n
          PROVE  d[4 + 2 * k - 1].text = q.args[k] /\ d[4 + 2 * k - 1].text \notin {"&", Space}
      <4>1. 4 + 2 * k - 1 = 3 + 2 * k
        OBVIOUS
      <4>2. d[4 + 2 * k - 1].text = q.args[k]
        BY <1>8, <4>1
      <4>. QED BY <1>9, <4>2
    <3>4. ASSUME NEW k \in 1..n - 1
          PROVE  d[4 + 2 * k].text = "&"
      <4>1. k + 1 \in 1..n /\ k + 1 # 1 /\ 3 + (2 * (k + 1) - 1) = 4 + 2 * k
        OBVIOUS
      <4>2. d[3 + (2 * (k + 1) - 1)].text = IF k + 1 = 1 THEN "?" ELSE "&"
        BY <1>8, <4>1, Zenon
      <4>. QED BY <4>1, <4>2
    <3>5. Arguments(d, 4) = [list |-> [k \in 1..n |-> <<d[4 + 2 * k - 1].text>>], end |-> 4 + 2 * n]
      BY <3>1, <3>2, <3>3, <3>4, ArgumentsFound
    <3>6. [k \in 1..n |-> <<d[4 + 2 * k - 1].text>>] = [k \in 1..n |-> <<q.args[k]>>]
      BY <3>3
    <3>. QED BY <3>5, <3>6
  <2>. QED BY <2>1, <2>2
<1>14. ReferTil(10, d, 5 + 2 * n, {CR}) = [dst |-> <<"HTTP/1.1">>, end |-> 6 + 2 * n]
  <2> DEFINE p == 5 + 2 * n
  <2>1. p \in 1..Len(d) /\ p + 1 <= Len(d) /\ p + 1 = 6 + 2 * n
    BY <1>8
  <2>2. d[p].text = "HTTP/1.1" /\ d[p + 1].text \in {CR}
    BY <1>8, <2>1
  <2>. HIDE DEF p
  <2>3. d[p].text \notin {CR} /\ Word[d[p].text].length < 10
    BY <2>2, WordAssumption DEF CR
  <2>4. ReferTil(10, d, p, {CR}) = [dst |-> <<d[p].text>>, end |-> p + 1]
    BY <2>1, <2>2, <2>3, ReferOne
  <2>. QED BY <2>1, <2>2, <2>4 DEF p
<1> DEFINE method == ReferTil(8, d, 1, {Space})
           uri == ReferTil(0, d, method.end + 1, {"?", Space})
           args == Arguments(d, uri.end)
           version == ReferTil(10, d, args.end + 1, {CR})
           line(list, end) == [method |-> method.dst, uri |-> UriUnescape(uri.dst),
                               args |-> list, end |-> end]
<1>15. ParseRequestLine(d) =
         IF ~Found(method) \/ ~Found(uri) THEN line(<<>>, 0)
         ELSE IF args.end = 0 \/ ~Found(version) THEN line(args.list, 0)
         ELSE line(args.list, version.end + 2)
  BY Zenon DEF ParseRequestLine
<1>16. method.dst = <<q.method>> /\ method.end = 2 /\ Found(method)
  <2>1. method = [dst |-> <<q.method>>, end |-> 2]
    BY <1>10
  <2>. HIDE DEF method
  <2>. QED BY <2>1 DEF Found
<1>. HIDE DEF method
<1>17. uri.dst = <<q.uri>> /\ uri.end = 4 /\ Found(uri)
  <2>1. method.end + 1 = 3
    BY <1>16
  <2>2. uri = [dst |-> <<q.uri>>, end |-> 4]
    BY <1>12, <2>1
  <2>. HIDE DEF uri
  <2>. QED BY <2>2 DEF Found
<1>. HIDE DEF uri
<1>18. args.list = [i \in 1..n |-> <<q.args[i]>>] /\ args.end = 4 + 2 * n
  <2>1. args = [list |-> [i \in 1..n |-> <<q.args[i]>>], end |-> 4 + 2 * n]
    BY <1>13, <1>17
  <2>. HIDE DEF args
  <2>. QED BY <2>1
<1>. HIDE DEF args
<1>19. version.end = 6 + 2 * n /\ Found(version)
  <2>1. args.end + 1 = 5 + 2 * n /\ 6 + 2 * n # 0
    BY <1>18
  <2>2. version = [dst |-> <<"HTTP/1.1">>, end |-> 6 + 2 * n]
    BY <1>14, <2>1
  <2>. HIDE DEF version
  <2>. QED BY <2>1, <2>2 DEF Found
<1>. HIDE DEF version
<1>20. ParseRequestLine(d) = line(args.list, version.end + 2)
  <2>1. args.end # 0
    BY <1>18
  <2>. HIDE DEF line
  <2>. QED BY <1>15, <1>16, <1>17, <1>19, <2>1, Zenon
<1>21. version.end + 2 = 8 + 2 * n
  BY <1>19
<1>. QED BY <1>16, <1>17, <1>18, <1>20, <1>21

(* The headers. *)
LEMMA RequestHeadersParsed ==
  ASSUME NEW d \in Seq(Token), NEW q, NEW n \in Nat, NEW m \in Nat, NEW b \in Nat,
         IsRequest(Texts(d), q, n, m, b), WellFormed(q), DOMAIN q.headers = 1..m
  PROVE  ParseRequestHeaders(d, 8 + 2 * n) =
           [list |-> [i \in 1..m |-> [name |-> <<q.headers[i][1]>>, value |-> <<q.headers[i][2]>>]],
            end |-> 10 + 2 * n + 6 * m]
<1> DEFINE at == 8 + 2 * n
           T == Texts(d)
           length == Len(d)
<1>1. length \in Nat /\ Len(T) = length /\ \A i \in 1..length : T[i] = d[i].text
  BY TextsOf
<1>2. IsRequest(T, q, n, m, b)
  OBVIOUS
<1>. HIDE DEF T, length, at
<1>3. length = 9 + 2 * n + 6 * m + b
  BY <1>1, <1>2 DEF IsRequest
<1>4. \A i \in 1..m :
        /\ T[7 + 2 * n + (6 * i - 5)] = q.headers[i][1]
        /\ T[7 + 2 * n + (6 * i - 4)] = ":"
        /\ T[7 + 2 * n + (6 * i - 3)] = Space
        /\ T[7 + 2 * n + (6 * i - 2)] = q.headers[i][2]
        /\ T[7 + 2 * n + (6 * i - 1)] = CR
  BY <1>2 DEF IsRequest
<1>5. \A i \in 1..m : q.headers[i][1] \notin {":", CR} /\ q.headers[i][2] \notin {Space, CR}
  BY DEF WellFormed
<1>6. at \in 1..length /\ at + 6 * m <= length /\ d[at + 6 * m].text = CR
  <2>1. at \in 1..length /\ at + 6 * m \in 1..length /\ at + 6 * m = 8 + 2 * n + 6 * m
    BY <1>3 DEF at
  <2>2. T[8 + 2 * n + 6 * m] = CR
    BY <1>2 DEF IsRequest
  <2>. QED BY <1>1, <2>1, <2>2
<1>7. ASSUME NEW k \in 1..m
      PROVE  /\ d[at + 6 * k - 6].text = q.headers[k][1] /\ d[at + 6 * k - 6 + 1].text = ":"
             /\ d[at + 6 * k - 6 + 2].text = Space
             /\ d[at + 6 * k - 6 + 3].text = q.headers[k][2]
             /\ d[at + 6 * k - 6 + 4].text = CR
             /\ at + 6 * k - 3 = at + 6 * k - 6 + 3
  <2> DEFINE i == at + 6 * k - 6
  <2>1. /\ i \in 1..length /\ i + 1 \in 1..length /\ i + 2 \in 1..length
        /\ i + 3 \in 1..length /\ i + 4 \in 1..length
    <3>1. i = 2 + 2 * n + 6 * k
      BY DEF at
    <3>2. i \in Nat /\ 1 <= i /\ i + 4 <= 6 + 2 * n + 6 * m
      BY <3>1
    <3>. HIDE DEF i
    <3>3. length \in Nat /\ i + 4 <= length
      BY <1>3, <3>2
    <3>. QED BY <3>2, <3>3
  <2>2. at + 6 * k - 3 = i + 3
    BY DEF at
  <2>3. /\ 7 + 2 * n + (6 * k - 5) = i /\ 7 + 2 * n + (6 * k - 4) = i + 1
        /\ 7 + 2 * n + (6 * k - 3) = i + 2 /\ 7 + 2 * n + (6 * k - 2) = i + 3
        /\ 7 + 2 * n + (6 * k - 1) = i + 4
    BY DEF at
  <2>4. /\ T[i] = d[i].text /\ T[i + 1] = d[i + 1].text /\ T[i + 2] = d[i + 2].text
        /\ T[i + 3] = d[i + 3].text /\ T[i + 4] = d[i + 4].text
    <3>. HIDE DEF i
    <3>. QED BY <1>1, <2>1, Zenon
  <2>5. /\ T[i] = q.headers[k][1] /\ T[i + 1] = ":" /\ T[i + 2] = Space
        /\ T[i + 3] = q.headers[k][2] /\ T[i + 4] = CR
    <3>1. /\ T[7 + 2 * n + (6 * k - 5)] = q.headers[k][1]
          /\ T[7 + 2 * n + (6 * k - 4)] = ":"
          /\ T[7 + 2 * n + (6 * k - 3)] = Space
          /\ T[7 + 2 * n + (6 * k - 2)] = q.headers[k][2]
          /\ T[7 + 2 * n + (6 * k - 1)] = CR
      BY <1>4
    <3>. HIDE DEF i
    <3>. QED BY <2>3, <3>1, Zenon
  <2>. HIDE DEF i
  <2>6. /\ d[i].text = q.headers[k][1] /\ d[i + 1].text = ":" /\ d[i + 2].text = Space
        /\ d[i + 3].text = q.headers[k][2] /\ d[i + 4].text = CR
    BY <2>4, <2>5
  <2>. QED BY <2>2, <2>6, Zenon DEF i
<1>8. \A k \in 1..m : LET i == at + 6 * k - 6 IN
        /\ d[i].text \notin {":", CR} /\ d[i + 1].text = ":"
        /\ d[i + 2].text = Space /\ d[i + 3].text \notin {Space, CR}
        /\ d[i + 4].text = CR
  BY <1>5, <1>7
<1>9. ParseRequestHeaders(d, at) =
        [list |-> [k \in 1..m |-> [name |-> <<d[at + 6 * k - 6].text>>,
                                   value |-> <<d[at + 6 * k - 3].text>>]],
         end |-> at + 6 * m + 2]
  BY <1>6, <1>8, HeadersFound DEF length
<1>10. [k \in 1..m |-> [name |-> <<d[at + 6 * k - 6].text>>, value |-> <<d[at + 6 * k - 3].text>>]]
     = [k \in 1..m |-> [name |-> <<q.headers[k][1]>>, value |-> <<q.headers[k][2]>>]]
  BY <1>7
<1>11. at + 6 * m + 2 = 10 + 2 * n + 6 * m
  BY DEF at
<1>. QED BY <1>9, <1>10, <1>11 DEF at

(* The first Connection header decides. *)
LEMMA KeepAliveRead ==
  ASSUME NEW q, NEW m \in Nat, DOMAIN q.headers = 1..m, WellFormed(q), NEW list,
         list = [i \in 1..m |-> [name |-> <<q.headers[i][1]>>, value |-> <<q.headers[i][2]>>]]
  PROVE  KeepAlive(list) <=> ~q.close
<1> DEFINE connection == <<"Connection">>
           places == {i \in DOMAIN list : SameName(list[i].name, connection)}
<1>1. /\ DOMAIN list = 1..m
      /\ \A i \in 1..m : list[i].name = <<q.headers[i][1]>> /\ list[i].value = <<q.headers[i][2]>>
  OBVIOUS
<1>2. q.close <=> Closes(q.headers)
  BY DEF WellFormed
<1>3. places \in SUBSET Nat /\ places \subseteq 1..m
      /\ \A i \in 1..m : i \in places <=> SameName(<<q.headers[i][1]>>, connection)
  BY <1>1
<1>4. Values(list, connection) = IF places = {} THEN {} ELSE {list[Min(places)].value}
  BY Zenon DEF Values
<1>. HIDE DEF places, connection
<1>5. CASE places = {}
  <2>1. KeepAlive(list)
    BY <1>4, <1>5 DEF KeepAlive, connection
  <2>2. ~Closes(q.headers)
    BY <1>3, <1>5 DEF Closes, connection
  <2>. QED BY <1>2, <2>1, <2>2
<1>6. CASE places # {}
  <2> DEFINE first == Min(places)
  <2>1. first \in places /\ \A i \in places : first <= i
    BY <1>3, <1>6, MinLeast
  <2>. HIDE DEF first
  <2>2. first \in 1..m /\ list[first].value = <<q.headers[first][2]>>
    BY <1>1, <1>3, <2>1
  <2>3. KeepAlive(list) <=> Folded(<<q.headers[first][2]>>) # <<"close">>
    <3>1. Values(list, connection) = {<<q.headers[first][2]>>}
      BY <1>4, <1>6, <2>2 DEF first
    <3>. QED BY <3>1 DEF KeepAlive, connection
  <2>4. \A j \in 1..first - 1 : j \notin places /\ j \in 1..m
    BY <2>1, <2>2
  <2>5. Closes(q.headers) <=> Folded(<<q.headers[first][2]>>) = <<"close">>
    <3>1. ASSUME Folded(<<q.headers[first][2]>>) = <<"close">> PROVE Closes(q.headers)
      <4>1. SameName(<<q.headers[first][1]>>, connection)
        BY <1>3, <2>1, <2>2
      <4>2. \A j \in 1..first - 1 : ~SameName(<<q.headers[j][1]>>, connection)
        BY <1>3, <2>4
      <4>. QED BY <2>2, <3>1, <4>1, <4>2 DEF Closes, connection
    <3>2. ASSUME Closes(q.headers) PROVE Folded(<<q.headers[first][2]>>) = <<"close">>
      <4>1. PICK i \in 1..m : /\ SameName(<<q.headers[i][1]>>, connection)
                              /\ \A j \in 1..i - 1 : ~SameName(<<q.headers[j][1]>>, connection)
                              /\ Folded(<<q.headers[i][2]>>) = <<"close">>
        BY <3>2 DEF Closes, connection
      <4>2. i \in places /\ first <= i
        BY <1>3, <2>1, <4>1
      <4>3. ~(first < i)
        <5>1. SUFFICES ASSUME first < i PROVE FALSE
          OBVIOUS
        <5>2. first \in 1..i - 1
          BY <2>2, <5>1
        <5>. QED BY <1>3, <2>1, <2>2, <4>1, <5>2
      <4>4. first = i
        BY <2>2, <4>2, <4>3
      <4>. QED BY <4>1, <4>4
    <3>. QED BY <3>1, <3>2
  <2>. QED BY <1>2, <2>3, <2>5
<1>. QED BY <1>5, <1>6

(* A request that has arrived whole, and nothing else, is parsed as it was   *)
(* meant.                                                                    *)
LEMMA RequestParsed ==
  ASSUME NEW r \in DOMAIN Requests, NEW q, q = Requests[r], NEW d \in Seq(Token),
         Texts(d) = Messages[r]
  PROVE  /\ Parse(d).valid /\ Parse(d).method = <<q.method>>
         /\ Parse(d).uri = UriUnescape(<<q.uri>>)
         /\ Parse(d).args = [i \in DOMAIN q.args |-> <<q.args[i]>>]
         /\ Parse(d).keepAlive <=> ~q.close
         /\ Parse(d).end \in Nat \ {0} /\ Len(d) = Parse(d).end - 1 + Len(q.body)
         /\ \A i \in 1..Len(q.body) : d[Parse(d).end - 1 + i].text = q.body[i]
<1> DEFINE line == ParseRequestLine(d)
           headers == ParseRequestHeaders(d, line.end)
           valid == d # <<>> /\ line.end # 0 /\ headers.end # 0
<1>1. /\ q.args \in Seq(Text) /\ q.headers \in Seq(Text \X Text) /\ q.body \in Seq(Text)
      /\ WellFormed(q)
  BY RequestShape, RequestsAssumption
<1>2. PICK n \in Nat, m \in Nat, b \in Nat :
        Len(q.args) = n /\ Len(q.headers) = m /\ Len(q.body) = b
  BY <1>1, LenProperties
<1>3. DOMAIN q.args = 1..n /\ DOMAIN q.headers = 1..m
  BY <1>1, <1>2, LenProperties
<1>4. IsRequest(Texts(d), q, n, m, b)
  <2>1. Texts(d) = Message(q)
    BY DEF Messages
  <2>. QED BY <1>2, <2>1, MessagePlaces
<1>5. /\ Len(d) = 9 + 2 * n + 6 * m + b
      /\ \A i \in 1..b : d[9 + 2 * n + 6 * m + i].text = q.body[i]
  <2> DEFINE T == Texts(d)
  <2>1. Len(d) \in Nat /\ Len(T) = Len(d) /\ \A i \in 1..Len(d) : T[i] = d[i].text
    BY TextsOf
  <2>. HIDE DEF T
  <2>2. Len(d) = 9 + 2 * n + 6 * m + b /\ \A i \in 1..b : T[9 + 2 * n + 6 * m + i] = q.body[i]
    BY <1>4, <2>1 DEF IsRequest, T
  <2>3. ASSUME NEW i \in 1..b PROVE 9 + 2 * n + 6 * m + i \in 1..Len(d)
    BY <2>2
  <2>. QED BY <2>1, <2>2, <2>3, Zenon
<1>6. line = [method |-> <<q.method>>, uri |-> UriUnescape(<<q.uri>>),
              args |-> [i \in 1..n |-> <<q.args[i]>>], end |-> 8 + 2 * n]
  BY <1>1, <1>3, <1>4, LineParsed
<1>7. headers = [list |-> [i \in 1..m |-> [name |-> <<q.headers[i][1]>>,
                                           value |-> <<q.headers[i][2]>>]],
                 end |-> 10 + 2 * n + 6 * m]
  <2>1. line.end = 8 + 2 * n
    BY <1>6
  <2>2. ParseRequestHeaders(d, 8 + 2 * n) =
          [list |-> [i \in 1..m |-> [name |-> <<q.headers[i][1]>>, value |-> <<q.headers[i][2]>>]],
           end |-> 10 + 2 * n + 6 * m]
    <3>1. WellFormed(q) /\ DOMAIN q.headers = 1..m
      BY <1>1, <1>3
    <3>. QED BY <1>4, <3>1, RequestHeadersParsed
  <2>. QED BY <2>1, <2>2
<1>8. KeepAlive(headers.list) <=> ~q.close
  <2> DEFINE list == [i \in 1..m |-> [name |-> <<q.headers[i][1]>>, value |-> <<q.headers[i][2]>>]]
  <2>1. headers.list = list
    BY <1>7
  <2>. HIDE DEF headers
  <2>2. KeepAlive(list) <=> ~q.close
    BY <1>1, <1>3, KeepAliveRead
  <2>. QED BY <2>1, <2>2
<1>9. valid
  <2>1. d # <<>>
    <3>1. Len(<<>>) = 0
      OBVIOUS
    <3>2. Len(d) # 0
      BY <1>5
    <3>. QED BY <3>1, <3>2
  <2>2. line.end # 0 /\ headers.end # 0
    BY <1>6, <1>7
  <2>. QED BY <2>1, <2>2
<1>10. Parse(d) =
         [valid |-> valid, method |-> line.method, uri |-> line.uri, args |-> line.args,
          keepAlive |-> valid => KeepAlive(headers.list),
          end |-> IF valid THEN headers.end ELSE 0]
  BY Zenon DEF Parse
<1>11. /\ line.method = <<q.method>> /\ line.uri = UriUnescape(<<q.uri>>)
       /\ line.args = [i \in 1..n |-> <<q.args[i]>>]
       /\ headers.end = 10 + 2 * n + 6 * m
  BY <1>6, <1>7
<1>. HIDE DEF line, headers, valid
<1>12. /\ Parse(d).valid /\ Parse(d).method = <<q.method>>
       /\ Parse(d).uri = UriUnescape(<<q.uri>>)
       /\ Parse(d).args = [i \in 1..n |-> <<q.args[i]>>]
       /\ Parse(d).keepAlive <=> ~q.close
       /\ Parse(d).end = 10 + 2 * n + 6 * m
  <2>1. /\ Parse(d).valid = valid /\ Parse(d).method = line.method /\ Parse(d).uri = line.uri
        /\ Parse(d).args = line.args
        /\ Parse(d).keepAlive = (valid => KeepAlive(headers.list))
        /\ Parse(d).end = IF valid THEN headers.end ELSE 0
    BY <1>10
  <2>2. Parse(d).valid
    BY <1>9, <2>1, Zenon
  <2>3. Parse(d).keepAlive <=> ~q.close
    BY <1>8, <1>9, <2>1, Zenon
  <2>4. Parse(d).end = 10 + 2 * n + 6 * m
    BY <1>9, <1>11, <2>1, Zenon
  <2>. QED BY <1>11, <2>1, <2>2, <2>3, <2>4, Zenon
<1>13. /\ 10 + 2 * n + 6 * m \in Nat \ {0} /\ 10 + 2 * n + 6 * m - 1 = 9 + 2 * n + 6 * m
  OBVIOUS
<1>. QED BY <1>2, <1>3, <1>5, <1>12, <1>13

-----------------------------------------------------------------------------
(* What process makes of a whole request. *)

(* Only process takes what waits in a socket: what arrives is put behind it. *)
LEMMA ArrivesBehind ==
  ASSUME ServicesInv, NEW k \in Conns, NEW r, NEW first \in Nat \ {0}, NEW last \in Nat,
         Written(r) \in Seq(Text), last <= Len(Written(r)), Arrives(k, r, first, last),
         NEW c \in Conns, arrived[c] # <<>>
  PROVE  arrived'[c] # <<>>
<1> DEFINE new == Tokens(k, r, first, last)
<1>1. arrived' = [arrived EXCEPT ![k] = @ \o new] /\ new \in Seq(Token)
  BY TokensOf DEF Arrives
<1>. HIDE DEF new
<1>2. /\ arrived \in [Conns -> Seq(Token)] /\ arrived[c] \in Seq(Token)
  BY DEF ServicesInv, TypeOK
<1>3. arrived'[c] = arrived[c] \/ arrived'[c] = arrived[c] \o new
  BY <1>1, <1>2
<1>4. Len(arrived[c] \o new) # 0
  <2>1. Len(arrived[c] \o new) = Len(arrived[c]) + Len(new)
    BY <1>1, <1>2, ConcatProperties
  <2>2. Len(arrived[c]) \in Nat /\ Len(new) \in Nat /\ Len(arrived[c]) # 0
    BY <1>1, <1>2, LenProperties, EmptySeq
  <2>. QED BY <2>1, <2>2
<1>5. Len(<<>>) = 0
  OBVIOUS
<1>. QED BY <1>3, <1>4, <1>5

LEMMA SendBehind ==
  ASSUME ServicesInv, NEW k \in Conns, Send(k), NEW c \in Conns, arrived[c] # <<>>
  PROVE  arrived'[c] # <<>>
<1>1. CASE SendGarbage(k)
  <2>1. Arrives(k, 0, 1, Len(Garbage))
    BY <1>1 DEF SendGarbage
  <2>2. Written(0) = Garbage /\ Garbage \in Seq(Text) /\ Len(Garbage) \in Nat
    BY ServicesAssumption, LenProperties DEF Written
  <2>. QED BY <2>1, <2>2, ArrivesBehind
<1>2. ASSUME NEW r \in DOMAIN Requests, SendRequest(k, r) PROVE arrived'[c] # <<>>
  <2> DEFINE length == Len(Messages[r])
             first == sending[k][2]
  <2>1. PICK last \in {n \in Cuts : first <= n /\ n < length} \cup {length} :
          Arrives(k, r, first, last)
    BY <1>2 DEF SendRequest
  <2>2. r \in 1..Len(Requests) /\ Len(Requests) \in Nat
    BY RequestShape
  <2>3. Written(r) = Messages[r] /\ Messages[r] \in Seq(Text) /\ length \in Nat
    BY <2>2, MessageType, LenProperties DEF Written, Messages
  <2>4. first \in Nat \ {0}
    BY DEF ServicesInv, TypeOK
  <2>5. last \in Nat /\ last <= length
    <3>1. (last \in Cuts /\ last < length) \/ last = length
      BY <2>1
    <3>. QED BY <2>3, <3>1, ServicesAssumption
  <2>. QED BY <2>1, <2>3, <2>4, <2>5, ArrivesBehind
<1>. QED BY <1>1, <1>2 DEF Send

LEMMA ProcessedBy ==
  ASSUME ServicesInv, [Next]_vars, NEW c \in Conns, Processed(c)
  PROVE  Process(c)
<1>1. arrived \in [Conns -> Seq(Token)] /\ arrived[c] # <<>> /\ arrived'[c] = <<>>
  BY DEF ServicesInv, TypeOK, Processed
<1>2. ASSUME NEW h \in Handlers, Register(h) PROVE FALSE
  BY <1>1, <1>2 DEF Register
<1>3. CASE Exec
  BY <1>1, <1>3 DEF Exec
<1>4. ASSUME NEW k \in Conns, Process(k) PROVE k = c
  <2>1. arrived' = [arrived EXCEPT ![k] = <<>>]
    BY <1>4 DEF Process
  <2>. QED BY <1>1, <2>1
<1>5. ASSUME NEW k \in Conns, Send(k) PROVE FALSE
  BY <1>1, <1>5, SendBehind
<1>6. CASE UNCHANGED vars
  BY <1>1, <1>6 DEF vars
<1>. QED BY <1>2, <1>3, <1>4, <1>5, <1>6 DEF Next

(* A whole request is understood.                                            *)
LEMMA WholeUnderstood ==
  ASSUME ServicesInv, NEW c \in Conns, Process(c), ~refused,
         NEW r \in DOMAIN Requests, Texts(arrived[c]) = Messages[r]
  PROVE  Understood(c, Requests[r])
<1> DEFINE q == Requests[r]
           raw == m_rawData \o arrived[c]
           parsed == Parse(raw)
           n == Len(q.body)
<1>1. /\ q.method \in Text /\ q.uri \in Text /\ q.args \in Seq(Text)
      /\ q.headers \in Seq(Text \X Text) /\ q.body \in Seq(Text)
      /\ m_isAutoKeepAlive \in BOOLEAN
  BY RequestShape, ServicesAssumption
<1>2. m_rawData = <<>> /\ m_urlArguments = <<>> /\ arrived[c] \in Seq(Token)
  BY DEF ServicesInv, TypeOK
<1>3. raw = arrived[c]
  BY <1>2, ConcatEmptySeq
<1>4. Refuse(c, raw, parsed) \/ Answer(c, raw, parsed)
  BY DEF Process
<1>. HIDE DEF raw
<1>5. raw \in Seq(Token) /\ Texts(raw) = Messages[r]
  BY <1>2, <1>3
<1>6. /\ parsed.valid /\ parsed.method = <<q.method>>
      /\ parsed.uri = UriUnescape(<<q.uri>>)
      /\ parsed.args = [i \in DOMAIN q.args |-> <<q.args[i]>>]
      /\ parsed.keepAlive <=> ~q.close
      /\ parsed.end \in Nat \ {0} /\ Len(raw) = parsed.end - 1 + n
      /\ \A i \in 1..n : raw[parsed.end - 1 + i].text = q.body[i]
  BY <1>5, RequestParsed
<1>. HIDE DEF parsed, n, q
<1>7. Answer(c, raw, parsed)
  BY <1>4, <1>6 DEF Refuse
<1>8. /\ calls' = [calls EXCEPT ![c] = @ + 1] /\ m_body' = Body(raw, parsed.end)
  BY <1>7 DEF Answer
<1>9. PICK keepAlive \in SaysKeepAlive(parsed.keepAlive) :
        call' = [conn |-> c, raw |-> raw, end |-> parsed.end, body |-> m_body',
                 handler |-> CallHandler(parsed.method, parsed.uri),
                 args |-> m_urlArguments \o parsed.args,
                 keepAlive |-> keepAlive, behind |-> refused]
  BY <1>7 DEF Answer
<1>10. /\ call'.raw = raw /\ call'.body = Body(raw, parsed.end)
       /\ call'.handler = CallHandler(parsed.method, parsed.uri)
       /\ call'.args = m_urlArguments \o parsed.args /\ call'.keepAlive = keepAlive
  BY <1>8, <1>9
<1>11. calls'[c] = calls[c] + 1
  BY <1>8 DEF ServicesInv, TypeOK
<1>12. call'.handler = Chosen(<<q.method>>, UriUnescape(<<q.uri>>))
  <2>1. CallHandler(<<q.method>>, UriUnescape(<<q.uri>>))
          = Chosen(<<q.method>>, UriUnescape(<<q.uri>>))
    BY HandlerFound DEF q
  <2>. QED BY <1>6, <1>10, <2>1
<1>13. call'.args = [i \in DOMAIN q.args |-> <<q.args[i]>>]
  <2> DEFINE args == [i \in DOMAIN q.args |-> <<q.args[i]>>]
             count == Len(q.args)
  <2>1. count \in Nat /\ DOMAIN q.args = 1..count
    BY <1>1, LenProperties
  <2>. HIDE DEF count
  <2>2. args = [i \in 1..count |-> <<q.args[i]>>]
    BY <2>1
  <2>3. \A i \in 1..count : args[i] \in {<<q.args[j]>> : j \in 1..count}
    BY <2>2
  <2>4. args \in [1..count -> {<<q.args[j]>> : j \in 1..count}]
    BY <2>2, <2>3
  <2>. HIDE DEF args
  <2>5. args \in Seq({<<q.args[j]>> : j \in 1..count})
    BY <2>1, <2>4, IsSeq
  <2>6. <<>> \o args = args
    BY <2>5, ConcatEmptySeq
  <2>. QED BY <1>2, <1>6, <1>10, <2>6 DEF args
<1>14. call'.keepAlive = (m_isAutoKeepAlive => ~q.close)
  <2>1. keepAlive = (m_isAutoKeepAlive => parsed.keepAlive)
    BY DEF SaysKeepAlive
  <2>2. (m_isAutoKeepAlive => parsed.keepAlive) = (m_isAutoKeepAlive => ~q.close)
    BY <1>6
  <2>. QED BY <1>10, <2>1, <2>2
<1>15. ASSUME q.body # <<>> PROVE Texts(Shown') = q.body
  <2>1. n \in Nat \ {0} /\ DOMAIN q.body = 1..n /\ q.body = [i \in 1..n |-> q.body[i]]
    BY <1>1, <1>15, LenProperties, EmptySeq DEF n
  <2> DEFINE end == parsed.end
             length == Len(raw)
  <2>2. end \in Nat \ {0} /\ length = end - 1 + n
    BY <1>6
  <2>3. \A i \in 1..n : raw[end - 1 + i].text = q.body[i]
    BY <1>6
  <2>4. call'.body = IF end <= length THEN <<end, length>> ELSE m_body
    BY <1>10 DEF Body
  <2>. HIDE DEF end, length
  <2>5. call'.body = <<end, length>>
    BY <2>1, <2>2, <2>4
  <2>6. call'.body[1] = end /\ call'.body[2] = length
    BY <2>5
  <2> DEFINE shown == [i \in 1..length + 1 - end |->
                         IF end + i - 1 <= length THEN raw[end + i - 1] ELSE none]
  <2>7. Shown' = shown
    BY <1>10, <2>6 DEF Shown, length
  <2>8. length + 1 - end = n /\ \A i \in 1..n : end + i - 1 <= length /\ end + i - 1 = end - 1 + i
    BY <2>1, <2>2
  <2>9. shown = [i \in 1..n |-> raw[end - 1 + i]]
    BY <2>8
  <2>. HIDE DEF shown
  <2>10. Texts(shown) = [i \in 1..n |-> raw[end - 1 + i].text]
    BY <2>9 DEF Texts
  <2>11. [i \in 1..n |-> raw[end - 1 + i].text] = [i \in 1..n |-> q.body[i]]
    BY <2>3
  <2>. QED BY <2>1, <2>7, <2>10, <2>11
<1>. QED BY <1>11, <1>12, <1>13, <1>14, <1>15 DEF Understood, q

(* parse reads what a client writes: a request that has arrived whole, and   *)
(* in one piece, reaches the handler of its method and URI with its          *)
(* arguments, its body and the wish to keep the connection, unless one       *)
(* before it was refused and has left its data and its arguments.            *)
THEOREM WholeRequestsAreUnderstood == Spec => UnderstoodWhole
<1>1. ServicesInv /\ [Next]_vars =>
        [\A c \in Conns : ~refused /\ Processed(c) => UnderstoodIfWhole(c)]_vars
  <2>. SUFFICES ASSUME ServicesInv, [Next]_vars, NEW c \in Conns, ~refused, Processed(c)
                PROVE  UnderstoodIfWhole(c)
    OBVIOUS
  <2>1. Process(c)
    BY ProcessedBy
  <2>. QED BY <2>1, WholeUnderstood DEF UnderstoodIfWhole
<1>. QED BY <1>1, ServicesInvariant, PTL DEF Spec, UnderstoodWhole
=============================================================================
