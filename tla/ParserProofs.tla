---------------------------- MODULE ParserProofs ----------------------------
(***************************************************************************)
(* Proofs about what is read.                                              *)
(*                                                                         *)
(* RequestParser: for every stream of bytes the parts of a request are     *)
(* separated and its header loop ends; of every request that follows HTTP, *)
(* what is read is what was asked for, as far as it came.                  *)
(*                                                                         *)
(* ArgumentsParser: its single pass with a skip gives every argument the   *)
(* meaning that its neighbour to the left decides.                         *)
(*                                                                         *)
(* DateTime: every date is read as it is written, and one wrong word never *)
(* spoils the field of another.                                            *)
(***************************************************************************)
EXTENDS RequestParser, ArgumentsParser, DateTime,
        SequenceTheorems, FiniteSetTheorems, WellFoundedInduction, TLAPS

-----------------------------------------------------------------------------
(* Numbers, and where a sequence stands in another.                        *)

\* A set of numbers has a least one.
LEMMA LeastNatural ==
  ASSUME NEW S \in SUBSET Nat, S # {}
  PROVE  \E least \in S : \A n \in S : least <= n
  <1>1. PICK least \in S : \A n \in S : ~ (<<n, least>> \in OpToRel(<, Nat))
    BY NatLessThanWellFounded, WFMin, Zenon
  <1>2. \A n \in S : ~ (n < least)
    BY <1>1, Zenon DEF OpToRel
  <1> QED BY <1>2

\* Induction over the numbers, for the set of those a statement holds of.
LEMMA SetInduction ==
  ASSUME NEW S, 0 \in S, \A n \in Nat : n \in S => n + 1 \in S
  PROVE  Nat \subseteq S
  <1> SUFFICES ASSUME Nat \ S # {} PROVE FALSE
    OBVIOUS
  <1>1. PICK least \in Nat \ S : \A n \in Nat \ S : least <= n
    BY LeastNatural
  <1>2. least - 1 \in Nat /\ least - 1 \in S /\ least = (least - 1) + 1
    BY <1>1
  <1> QED BY <1>1, <1>2

\* A part of a sequence stands after the first from of its elements.
Stands(bytes, from, part) == \A k \in 1 .. Len(part) : bytes[from + k] = part[k]

\* Two sequences in one: the second stands after the first.
LEMMA Joined ==
  ASSUME NEW S, NEW a \in Seq(S), NEW b \in Seq(S), NEW c, c = a \o b
  PROVE  /\ c \in Seq(S) /\ Len(a) \in Nat /\ Len(b) \in Nat /\ Len(c) = Len(a) + Len(b)
         /\ \A k \in 1 .. Len(a) : c[k] = a[k]
         /\ Stands(c, Len(a), b)
  <1>1. /\ c \in Seq(S) /\ Len(c) = Len(a) + Len(b) /\ Len(a) \in Nat /\ Len(b) \in Nat
        /\ \A k \in 1 .. Len(a) + Len(b) : c[k] = IF k <= Len(a) THEN a[k] ELSE b[k - Len(a)]
    BY ConcatProperties, LenProperties
  <1>2. \A k \in 1 .. Len(a) : c[k] = a[k]
    BY <1>1
  <1>3. ASSUME NEW k \in 1 .. Len(b) PROVE c[Len(a) + k] = b[k]
    <2>1. Len(a) + k \in 1 .. Len(a) + Len(b) /\ ~(Len(a) + k <= Len(a)) /\ (Len(a) + k) - Len(a) = k
      BY <1>1
    <2> QED BY <1>1, <2>1
  <1> QED BY <1>1, <1>2, <1>3 DEF Stands

\* What stands in a sequence stands in one that begins with it.
LEMMA StandsInLonger ==
  ASSUME NEW a, NEW c, NEW from \in Nat, NEW part, NEW m \in Nat, Len(part) \in Nat,
         Stands(a, from, part), from + Len(part) <= m, \A k \in 1 .. m : c[k] = a[k]
  PROVE  Stands(c, from, part)
  <1> SUFFICES ASSUME NEW k \in 1 .. Len(part) PROVE c[from + k] = part[k]
    BY DEF Stands
  <1>1. from + k \in 1 .. m
    OBVIOUS
  <1> QED BY <1>1 DEF Stands

-----------------------------------------------------------------------------
(* Sequences one after the other.                                          *)

\* f joins the first n of the sequences of s, one by one; the m-th of them starts at From.
Joins(f, s, n) == f = [k \in 1 .. n |-> IF k = 1 THEN s[k] ELSE f[k - 1] \o s[k]]

From(f, m) == IF m = 1 THEN 0 ELSE Len(f[m - 1])

\* One sequence more can be joined,
LEMMA JoinsAgain ==
  ASSUME NEW s, NEW n \in Nat, NEW f, Joins(f, s, n)
  PROVE  \E g : Joins(g, s, n + 1)
  <1>1. PICK g : g = [k \in 1 .. n + 1 |-> IF k = n + 1 THEN (IF k = 1 THEN s[k] ELSE f[k - 1] \o s[k]) ELSE f[k]]
    OBVIOUS
  <1>2. PICK h : h = [k \in 1 .. n + 1 |-> IF k = 1 THEN s[k] ELSE g[k - 1] \o s[k]]
    OBVIOUS
  <1>3. ASSUME NEW k \in 1 .. n + 1 PROVE g[k] = h[k]
    <2>1. CASE k = 1
      <3>1. CASE n = 0
        BY <1>1, <1>2, <2>1, <3>1
      <3>2. CASE n # 0
        <4>1. 1 \in 1 .. n /\ k # n + 1
          BY <2>1, <3>2
        <4>2. f[1] = s[1]
          BY <4>1 DEF Joins
        <4> QED BY <1>1, <1>2, <2>1, <4>1, <4>2
      <3> QED BY <3>1, <3>2
    <2>2. CASE k # 1
      <3>1. k - 1 \in 1 .. n + 1 /\ k - 1 # n + 1
        BY <2>2
      <3>2. g[k - 1] = f[k - 1]
        BY <1>1, <3>1
      <3>3. h[k] = f[k - 1] \o s[k]
        BY <1>2, <2>2, <3>2
      <3>4. CASE k = n + 1
        BY <1>1, <2>2, <3>3, <3>4
      <3>5. CASE k # n + 1
        <4>1. k \in 1 .. n /\ g[k] = f[k]
          BY <1>1, <3>5
        <4>2. f[k] = f[k - 1] \o s[k]
          BY <2>2, <4>1 DEF Joins
        <4> QED BY <3>3, <4>1, <4>2
      <3> QED BY <3>4, <3>5
    <2> QED BY <2>1, <2>2
  <1>4. g = h
    BY <1>1, <1>2, <1>3
  <1>5. Joins(g, s, n + 1)
    BY <1>2, <1>4 DEF Joins
  <1> QED BY <1>5

\* and so any number of them: the recursive function of FlattenSeq exists.
LEMMA JoinsAny ==
  ASSUME NEW s, NEW n \in Nat
  PROVE  \E f : Joins(f, s, n)
  <1> DEFINE Good == {m \in Nat : \E f : Joins(f, s, m)}
  <1>1. 0 \in Good
    <2>1. PICK f : f = [k \in 1 .. 0 |-> s[k]]
      OBVIOUS
    <2>2. Joins(f, s, 0)
      BY <2>1 DEF Joins
    <2> QED BY <2>2
  <1>2. ASSUME NEW m \in Nat, m \in Good PROVE m + 1 \in Good
    <2>1. PICK f : Joins(f, s, m)
      BY <1>2
    <2>2. \E g : Joins(g, s, m + 1)
      BY <2>1, JoinsAgain
    <2> QED BY <2>2
  <1> HIDE DEF Good
  <1>3. Nat \subseteq Good
    BY <1>1, <1>2, SetInduction
  <1>4. n \in Good
    BY <1>3
  <1> QED BY <1>4 DEF Good

\* The n-th stage holds the ones before it, each where it starts.
Staged(f, s, n, S) ==
  /\ f[n] \in Seq(S)
  /\ \A m \in 1 .. n :
       /\ Len(f[m]) \in Nat /\ Len(f[m]) <= Len(f[n])
       /\ From(f, m) \in Nat /\ Len(f[m]) = From(f, m) + Len(s[m])
       /\ Stands(f[n], From(f, m), s[m])

\* The first alone.
LEMMA StagedFirst ==
  ASSUME NEW S, NEW s \in Seq(Seq(S)), NEW f, Joins(f, s, Len(s)), Len(s) # 0
  PROVE  Staged(f, s, 1, S)
  <1>0. Len(s) \in Nat /\ 1 \in 1 .. Len(s)
    BY LenProperties
  <1>1. f[1] = s[1] /\ s[1] \in Seq(S) /\ Len(s[1]) \in Nat
    <2>1. f[1] = s[1]
      BY <1>0 DEF Joins
    <2>2. s[1] \in Seq(S)
      BY <1>0
    <2> QED BY <2>1, <2>2, LenProperties
  <1>2. Stands(f[1], 0, s[1])
    BY <1>1 DEF Stands
  <1>3. From(f, 1) = 0 /\ \A m \in 1 .. 1 : m = 1
    BY DEF From
  <1> QED BY <1>1, <1>2, <1>3 DEF Staged

\* One more, after those before.
LEMMA StagedNext ==
  ASSUME NEW S, NEW s \in Seq(Seq(S)), NEW f, Joins(f, s, Len(s)),
         NEW n \in Nat, n >= 1, n + 1 <= Len(s), Staged(f, s, n, S)
  PROVE  Staged(f, s, n + 1, S)
  <1>0. n + 1 \in 1 .. Len(s) /\ s[n + 1] \in Seq(S) /\ n + 1 # 1 /\ (n + 1) - 1 = n
    <2>1. Len(s) \in Nat
      BY LenProperties
    <2>2. n + 1 \in 1 .. Len(s) /\ n + 1 # 1 /\ (n + 1) - 1 = n
      BY <2>1
    <2> QED BY <2>2
  <1>1. f[n + 1] = f[n] \o s[n + 1]
    BY <1>0 DEF Joins
  <1>2. PICK a, b, c : a = f[n] /\ b = s[n + 1] /\ c = f[n + 1]
    OBVIOUS
  <1>3. a \in Seq(S) /\ b \in Seq(S) /\ c = a \o b
    BY <1>0, <1>1, <1>2 DEF Staged
  <1>4. /\ c \in Seq(S) /\ Len(a) \in Nat /\ Len(b) \in Nat /\ Len(c) = Len(a) + Len(b)
        /\ \A k \in 1 .. Len(a) : c[k] = a[k]
        /\ Stands(c, Len(a), b)
    <2>1. PICK Elements : a \in Seq(Elements) /\ b \in Seq(Elements) /\ c = a \o b /\ Elements = S
      BY <1>3
    <2>2. c \in Seq(Elements) /\ Len(a) \in Nat /\ Len(b) \in Nat /\ Len(c) = Len(a) + Len(b)
      BY <2>1, Joined
    <2>3. \A k \in 1 .. Len(a) : c[k] = a[k]
      BY <2>1, Joined
    <2>4. Stands(c, Len(a), b)
      BY <2>1, Joined
    <2> QED BY <2>1, <2>2, <2>3, <2>4
  <1>5. ASSUME NEW m \in 1 .. n + 1
        PROVE  /\ Len(f[m]) \in Nat /\ Len(f[m]) <= Len(c)
               /\ From(f, m) \in Nat /\ Len(f[m]) = From(f, m) + Len(s[m])
               /\ Stands(c, From(f, m), s[m])
    <2>1. CASE m = n + 1
      <3>1. From(f, m) = Len(a)
        BY <1>0, <1>2, <2>1 DEF From
      <3>2. f[m] = c /\ s[m] = b
        BY <1>2, <2>1
      <3>3. Len(c) \in Nat /\ Len(c) <= Len(c)
        BY <1>4
      <3> QED BY <1>4, <3>1, <3>2, <3>3
    <2>2. CASE m # n + 1
      <3>1. m \in 1 .. n /\ m \in 1 .. Len(s)
        BY <1>0, <2>2
      <3>2. PICK from, part : from = From(f, m) /\ part = s[m]
        OBVIOUS
      <3>3. /\ Len(f[m]) \in Nat /\ Len(f[m]) <= Len(a) /\ from \in Nat /\ Len(f[m]) = from + Len(part)
            /\ Stands(a, from, part)
        BY <1>2, <3>1, <3>2 DEF Staged
      <3>4. Len(part) \in Nat
        <4>1. part \in Seq(S)
          BY <3>1, <3>2
        <4> QED BY <4>1, LenProperties
      <3>5. Stands(c, from, part)
        <4>1. PICK last \in Nat : last = Len(a)
          BY <1>4
        <4>2. from + Len(part) <= last /\ \A k \in 1 .. last : c[k] = a[k]
          BY <1>4, <3>3, <4>1
        <4> QED BY <3>3, <3>4, <4>2, StandsInLonger
      <3>6. Len(f[m]) <= Len(c)
        BY <1>4, <3>3
      <3> QED BY <3>2, <3>3, <3>5, <3>6
    <2> QED BY <2>1, <2>2
  <1> QED BY <1>2, <1>4, <1>5 DEF Staged

\* All of them.
LEMMA StagedAll ==
  ASSUME NEW S, NEW s \in Seq(Seq(S)), NEW f, Joins(f, s, Len(s)), Len(s) # 0
  PROVE  Staged(f, s, Len(s), S)
  <1> DEFINE Good == {n \in Nat : n + 1 <= Len(s) => Staged(f, s, n + 1, S)}
  <1>1. Len(s) \in Nat
    BY LenProperties
  <1>2. 0 \in Good
    <2>1. 0 + 1 = 1
      OBVIOUS
    <2> QED BY <2>1, StagedFirst
  <1>3. ASSUME NEW n \in Nat, n \in Good PROVE n + 1 \in Good
    <2> SUFFICES ASSUME (n + 1) + 1 <= Len(s) PROVE Staged(f, s, (n + 1) + 1, S)
      OBVIOUS
    <2>1. PICK k \in Nat : k = n + 1
      OBVIOUS
    <2>2. k >= 1 /\ k + 1 <= Len(s) /\ Staged(f, s, k, S)
      BY <1>1, <1>3, <2>1
    <2>3. Staged(f, s, k + 1, S)
      BY <2>2, StagedNext
    <2> QED BY <2>1, <2>3
  <1> HIDE DEF Good
  <1>4. Nat \subseteq Good
    BY <1>2, <1>3, SetInduction
  <1>5. PICK n \in Nat : n + 1 = Len(s)
    <2>1. Len(s) - 1 \in Nat /\ (Len(s) - 1) + 1 = Len(s)
      BY <1>1
    <2> QED BY <2>1
  <1>6. n \in Good /\ n + 1 <= Len(s)
    BY <1>1, <1>4, <1>5
  <1>7. Staged(f, s, n + 1, S)
    BY <1>6 DEF Good
  <1> QED BY <1>5, <1>7

\* Where each sequence stands in all of them, one after the other.
LEMMA Flattened ==
  ASSUME NEW S, NEW s \in Seq(Seq(S))
  PROVE  \E off \in [0 .. Len(s) -> Nat] :
           /\ off[0] = 0
           /\ FlattenSeq(s) \in Seq(S) /\ Len(FlattenSeq(s)) = off[Len(s)]
           /\ \A n \in 1 .. Len(s) :
                /\ off[n] = off[n - 1] + Len(s[n]) /\ off[n] <= off[Len(s)]
                /\ Stands(FlattenSeq(s), off[n - 1], s[n])
  <1>0. Len(s) \in Nat
    BY LenProperties
  <1>1. CASE Len(s) = 0
    <2>1. s = <<>> /\ FlattenSeq(s) = <<>>
      BY <1>1 DEF FlattenSeq
    <2>2. PICK off : off = [n \in 0 .. 0 |-> 0]
      OBVIOUS
    <2>3. off \in [0 .. Len(s) -> Nat] /\ off[0] = 0 /\ 1 .. Len(s) = {}
      BY <1>1, <2>2
    <2>4. FlattenSeq(s) \in Seq(S) /\ Len(FlattenSeq(s)) = 0
      BY <2>1, EmptySeq
    <2> QED BY <1>1, <2>3, <2>4
  <1>2. CASE Len(s) # 0
    <2> DEFINE flatten[m \in 1 .. Len(s)] == IF m = 1 THEN s[m] ELSE flatten[m - 1] \o s[m]
    <2>1. FlattenSeq(s) = flatten[Len(s)]
      BY <1>2 DEF FlattenSeq
    <2>2. flatten = [m \in 1 .. Len(s) |-> IF m = 1 THEN s[m] ELSE flatten[m - 1] \o s[m]]
      <3>1. PICK f : Joins(f, s, Len(s))
        BY <1>0, JoinsAny
      <3>2. f = [m \in 1 .. Len(s) |-> IF m = 1 THEN s[m] ELSE f[m - 1] \o s[m]]
        BY <3>1 DEF Joins
      <3> QED BY <3>2
    <2> HIDE DEF flatten
    <2>3. PICK f : f = flatten
      OBVIOUS
    <2>4. Joins(f, s, Len(s))
      BY <2>2, <2>3 DEF Joins
    <2>5. Staged(f, s, Len(s), S)
      BY <1>2, <2>4, StagedAll
    <2>6. FlattenSeq(s) = f[Len(s)]
      BY <2>1, <2>3
    <2>7. PICK off : off = [n \in 0 .. Len(s) |-> IF n = 0 THEN 0 ELSE Len(f[n])]
      OBVIOUS
    <2>8. \A n \in 1 .. Len(s) : off[n] = Len(f[n]) /\ off[n - 1] = From(f, n)
      BY <1>0, <2>7 DEF From
    <2>9. off \in [0 .. Len(s) -> Nat] /\ off[0] = 0 /\ off[Len(s)] = Len(f[Len(s)])
      <3>1. \A n \in 0 .. Len(s) : n = 0 \/ n \in 1 .. Len(s)
        BY <1>0
      <3>2. \A n \in 0 .. Len(s) : off[n] \in Nat
        BY <2>5, <2>7, <2>8, <3>1 DEF Staged
      <3> QED BY <1>0, <1>2, <2>7, <3>2
    <2>10. PICK whole : whole = f[Len(s)]
      OBVIOUS
    <2>11. ASSUME NEW n \in 1 .. Len(s)
           PROVE  /\ off[n] = off[n - 1] + Len(s[n]) /\ off[n] <= off[Len(s)]
                  /\ Stands(whole, off[n - 1], s[n])
      <3>1. PICK from : from = off[n - 1] /\ from = From(f, n)
        BY <2>8
      <3>2. Stands(whole, from, s[n]) /\ Len(f[n]) = from + Len(s[n]) /\ Len(f[n]) <= Len(whole)
        BY <2>5, <2>10, <3>1 DEF Staged
      <3> QED BY <2>8, <2>9, <2>10, <3>1, <3>2
    <2>12. whole \in Seq(S) /\ Len(whole) = off[Len(s)] /\ FlattenSeq(s) = whole
      BY <2>5, <2>6, <2>9, <2>10 DEF Staged
    <2> QED BY <2>9, <2>11, <2>12
  <1> QED BY <1>1, <1>2

-----------------------------------------------------------------------------
(* Where the parts of a request stand in what is sent.                     *)

\* Joined, with what stood before.
LEMMA JoinedAgain ==
  ASSUME NEW S, NEW a \in Seq(S), NEW b \in Seq(S), NEW c, c = a \o b
  PROVE  /\ c \in Seq(S) /\ Len(a) \in Nat /\ Len(b) \in Nat /\ Len(c) = Len(a) + Len(b)
         /\ Stands(c, Len(a), b)
         /\ \A from \in Nat, part \in Seq(S) :
              Stands(a, from, part) /\ from + Len(part) <= Len(a) => Stands(c, from, part)
         /\ \A from \in Nat, part \in Seq(S) :
              Stands(b, from, part) /\ from + Len(part) <= Len(b) => Stands(c, Len(a) + from, part)
  <1>1. c \in Seq(S) /\ Len(a) \in Nat /\ Len(b) \in Nat /\ Len(c) = Len(a) + Len(b)
    BY Joined
  <1>2. \A k \in 1 .. Len(a) : c[k] = a[k]
    BY Joined
  <1>3. Stands(c, Len(a), b)
    BY Joined
  <1>4. ASSUME NEW from \in Nat, NEW part \in Seq(S), Stands(a, from, part), from + Len(part) <= Len(a)
        PROVE  Stands(c, from, part)
    <2>1. Len(part) \in Nat
      BY LenProperties
    <2>2. ASSUME NEW k \in 1 .. Len(part) PROVE c[from + k] = part[k]
      <3>1. from + k \in 1 .. Len(a)
        BY <1>1, <1>4, <2>1
      <3> QED BY <1>2, <1>4, <3>1 DEF Stands
    <2> QED BY <2>2 DEF Stands
  <1>5. ASSUME NEW from \in Nat, NEW part \in Seq(S), Stands(b, from, part), from + Len(part) <= Len(b)
        PROVE  Stands(c, Len(a) + from, part)
    <2>1. Len(part) \in Nat
      BY LenProperties
    <2>2. ASSUME NEW k \in 1 .. Len(part) PROVE c[(Len(a) + from) + k] = part[k]
      <3>1. from + k \in 1 .. Len(b) /\ (Len(a) + from) + k = Len(a) + (from + k)
        BY <1>1, <1>5, <2>1
      <3>2. c[Len(a) + (from + k)] = b[from + k]
        BY <1>3, <3>1 DEF Stands
      <3> QED BY <1>5, <3>1, <3>2 DEF Stands
    <2> QED BY <2>2 DEF Stands
  <1> QED BY <1>1, <1>3, <1>4, <1>5

\* A sequence stands in itself.
LEMMA WhollyThere ==
  ASSUME NEW S, NEW a \in Seq(S)
  PROVE  Stands(a, 0, a)
  BY LenProperties DEF Stands

\* The parts of a request one after the other, with one blank and two line ends.
Laid(whole, type, one, p, v, two, lines) ==
  /\ Len(whole) = Len(type) + Len(p) + Len(v) + Len(lines) + 6
  /\ Stands(whole, 0, type) /\ Stands(whole, Len(type), one)
  /\ Stands(whole, Len(type) + 1, p) /\ Stands(whole, Len(type) + Len(p) + 1, one)
  /\ Stands(whole, Len(type) + Len(p) + 2, v) /\ Stands(whole, Len(type) + Len(p) + Len(v) + 2, two)
  /\ Stands(whole, Len(type) + Len(p) + Len(v) + 4, lines)
  /\ Stands(whole, Len(type) + Len(p) + Len(v) + Len(lines) + 4, two)

\* Where each of the seven parts of a request begins.
LEMMA RequestJoined ==
  ASSUME NEW S, NEW type \in Seq(S), NEW p \in Seq(S), NEW v \in Seq(S), NEW lines \in Seq(S),
         NEW one \in Seq(S), NEW two \in Seq(S), Len(one) = 1, Len(two) = 2,
         NEW whole, whole = (type \o one \o p \o one \o v) \o two \o lines \o two
  PROVE  whole \in Seq(S) /\ Laid(whole, type, one, p, v, two, lines)
  <1>0. PICK lt, lp, lv, ll \in Nat : lt = Len(type) /\ lp = Len(p) /\ lv = Len(v) /\ ll = Len(lines)
    BY LenProperties
  <1>1. PICK a : a = type \o one
    OBVIOUS
  <1>2. PICK b : b = a \o p
    OBVIOUS
  <1>3. PICK c : c = b \o one
    OBVIOUS
  <1>4. PICK d : d = c \o v
    OBVIOUS
  <1>5. PICK e : e = d \o two
    OBVIOUS
  <1>6. PICK f : f = e \o lines
    OBVIOUS
  <1>7. whole = f \o two
    BY <1>1, <1>2, <1>3, <1>4, <1>5, <1>6
  <1>11. /\ a \in Seq(S) /\ Len(a) = lt + 1
         /\ Stands(a, 0, type) /\ Stands(a, lt, one)
    <2>1. type \in Seq(S) /\ one \in Seq(S) /\ a = type \o one
      BY <1>1
    <2>2. a \in Seq(S) /\ Len(a) = Len(type) + Len(one)
      BY <2>1, ConcatProperties
    <2>3. Stands(a, Len(type), one)
      BY <2>1, JoinedAgain
    <2>4. \A from \in Nat, part \in Seq(S) :
            Stands(type, from, part) /\ from + Len(part) <= Len(type) => Stands(a, from, part)
      BY <2>1, JoinedAgain
    <2>5. Stands(type, 0, type) /\ 0 + Len(type) <= Len(type)
      BY <1>0, WhollyThere
    <2> QED BY <1>0, <2>1, <2>2, <2>3, <2>4, <2>5
  <1>12. /\ b \in Seq(S) /\ Len(b) = lt + lp + 1
         /\ Stands(b, 0, type) /\ Stands(b, lt, one) /\ Stands(b, lt + 1, p)
    <2>1. a \in Seq(S) /\ p \in Seq(S) /\ b = a \o p
      BY <1>2, <1>11
    <2>2. b \in Seq(S) /\ Len(b) = Len(a) + Len(p)
      BY <2>1, JoinedAgain
    <2>3. Stands(b, Len(a), p)
      BY <2>1, JoinedAgain
    <2>4. \A from \in Nat, part \in Seq(S) :
            Stands(a, from, part) /\ from + Len(part) <= Len(a) => Stands(b, from, part)
      BY <2>1, JoinedAgain
    <2>5. Stands(b, 0, type)
      <3>1. 0 + Len(type) <= Len(a) /\ 0 \in Nat
        BY <1>0, <1>11
      <3> QED BY <1>11, <2>4, <3>1
    <2>6. Stands(b, lt, one)
      <3>1. lt + Len(one) <= Len(a) /\ lt \in Nat
        BY <1>0, <1>11
      <3> QED BY <1>11, <2>4, <3>1
    <2>7. Stands(b, lt + 1, p)
      BY <1>11, <2>3
    <2>8. Len(b) = lt + lp + 1
      BY <1>0, <1>11, <2>2
    <2> QED BY <2>2, <2>5, <2>6, <2>7, <2>8
  <1>13. /\ c \in Seq(S) /\ Len(c) = lt + lp + 2
         /\ Stands(c, 0, type) /\ Stands(c, lt, one) /\ Stands(c, lt + 1, p) /\ Stands(c, lt + lp + 1, one)
    <2>1. b \in Seq(S) /\ one \in Seq(S) /\ c = b \o one
      BY <1>3, <1>12
    <2>2. c \in Seq(S) /\ Len(c) = Len(b) + Len(one)
      BY <2>1, ConcatProperties
    <2>3. Stands(c, Len(b), one)
      BY <2>1, JoinedAgain
    <2>4. \A from \in Nat, part \in Seq(S) :
            Stands(b, from, part) /\ from + Len(part) <= Len(b) => Stands(c, from, part)
      BY <2>1, JoinedAgain
    <2> QED BY <1>0, <1>12, <2>1, <2>2, <2>3, <2>4
  <1>14. /\ d \in Seq(S) /\ Len(d) = lt + lp + lv + 2
         /\ Stands(d, 0, type) /\ Stands(d, lt, one) /\ Stands(d, lt + 1, p) /\ Stands(d, lt + lp + 1, one)
         /\ Stands(d, lt + lp + 2, v)
    <2>1. c \in Seq(S) /\ v \in Seq(S) /\ d = c \o v
      BY <1>4, <1>13
    <2>2. d \in Seq(S) /\ Len(d) = Len(c) + Len(v)
      BY <2>1, JoinedAgain
    <2>3. Stands(d, Len(c), v)
      BY <2>1, JoinedAgain
    <2>4. \A from \in Nat, part \in Seq(S) :
            Stands(c, from, part) /\ from + Len(part) <= Len(c) => Stands(d, from, part)
      BY <2>1, JoinedAgain
    <2>5. Stands(d, 0, type)
      <3>1. 0 + Len(type) <= Len(c) /\ 0 \in Nat
        BY <1>0, <1>13
      <3> QED BY <1>13, <2>4, <3>1
    <2>6. Stands(d, lt, one)
      <3>1. lt + Len(one) <= Len(c) /\ lt \in Nat
        BY <1>0, <1>13
      <3> QED BY <1>13, <2>4, <3>1
    <2>7. Stands(d, lt + 1, p)
      <3>1. lt + 1 + Len(p) <= Len(c) /\ lt + 1 \in Nat
        BY <1>0, <1>13
      <3> QED BY <1>13, <2>4, <3>1
    <2>8. Stands(d, lt + lp + 1, one)
      <3>1. lt + lp + 1 + Len(one) <= Len(c) /\ lt + lp + 1 \in Nat
        BY <1>0, <1>13
      <3> QED BY <1>13, <2>4, <3>1
    <2>9. Stands(d, lt + lp + 2, v)
      BY <1>13, <2>3
    <2>10. Len(d) = lt + lp + lv + 2
      BY <1>0, <1>13, <2>2
    <2> QED BY <2>2, <2>5, <2>6, <2>7, <2>8, <2>9, <2>10
  <1>15. /\ e \in Seq(S) /\ Len(e) = lt + lp + lv + 4
         /\ Stands(e, 0, type) /\ Stands(e, lt, one) /\ Stands(e, lt + 1, p) /\ Stands(e, lt + lp + 1, one)
         /\ Stands(e, lt + lp + 2, v) /\ Stands(e, lt + lp + lv + 2, two)
    <2>1. d \in Seq(S) /\ two \in Seq(S) /\ e = d \o two
      BY <1>5, <1>14
    <2>2. e \in Seq(S) /\ Len(e) = Len(d) + Len(two)
      BY <2>1, ConcatProperties
    <2>3. Stands(e, Len(d), two)
      BY <2>1, JoinedAgain
    <2>4. \A from \in Nat, part \in Seq(S) :
            Stands(d, from, part) /\ from + Len(part) <= Len(d) => Stands(e, from, part)
      BY <2>1, JoinedAgain
    <2>5. Stands(e, 0, type)
      <3>1. 0 + Len(type) <= Len(d) /\ 0 \in Nat
        BY <1>0, <1>14
      <3> QED BY <1>14, <2>4, <3>1
    <2>6. Stands(e, lt, one)
      <3>1. lt + Len(one) <= Len(d) /\ lt \in Nat
        BY <1>0, <1>14
      <3> QED BY <1>14, <2>4, <3>1
    <2>7. Stands(e, lt + 1, p)
      <3>1. lt + 1 + Len(p) <= Len(d) /\ lt + 1 \in Nat
        BY <1>0, <1>14
      <3> QED BY <1>14, <2>4, <3>1
    <2>8. Stands(e, lt + lp + 1, one)
      <3>1. lt + lp + 1 + Len(one) <= Len(d) /\ lt + lp + 1 \in Nat
        BY <1>0, <1>14
      <3> QED BY <1>14, <2>4, <3>1
    <2>9. Stands(e, lt + lp + 2, v)
      <3>1. lt + lp + 2 + Len(v) <= Len(d) /\ lt + lp + 2 \in Nat
        BY <1>0, <1>14
      <3> QED BY <1>14, <2>4, <3>1
    <2>10. Stands(e, lt + lp + lv + 2, two)
      BY <1>14, <2>3
    <2>11. Len(e) = lt + lp + lv + 4
      BY <1>0, <1>14, <2>2
    <2> QED BY <2>2, <2>5, <2>6, <2>7, <2>8, <2>9, <2>10, <2>11
  <1>16. /\ f \in Seq(S) /\ Len(f) = lt + lp + lv + ll + 4
         /\ Stands(f, 0, type) /\ Stands(f, lt, one) /\ Stands(f, lt + 1, p) /\ Stands(f, lt + lp + 1, one)
         /\ Stands(f, lt + lp + 2, v) /\ Stands(f, lt + lp + lv + 2, two) /\ Stands(f, lt + lp + lv + 4, lines)
    <2>1. e \in Seq(S) /\ lines \in Seq(S) /\ f = e \o lines
      BY <1>6, <1>15
    <2>2. f \in Seq(S) /\ Len(f) = Len(e) + Len(lines)
      BY <2>1, JoinedAgain
    <2>3. Stands(f, Len(e), lines)
      BY <2>1, JoinedAgain
    <2>4. \A from \in Nat, part \in Seq(S) :
            Stands(e, from, part) /\ from + Len(part) <= Len(e) => Stands(f, from, part)
      BY <2>1, JoinedAgain
    <2>5. Stands(f, 0, type)
      <3>1. 0 + Len(type) <= Len(e) /\ 0 \in Nat
        BY <1>0, <1>15
      <3> QED BY <1>15, <2>4, <3>1
    <2>6. Stands(f, lt, one)
      <3>1. lt + Len(one) <= Len(e) /\ lt \in Nat
        BY <1>0, <1>15
      <3> QED BY <1>15, <2>4, <3>1
    <2>7. Stands(f, lt + 1, p)
      <3>1. lt + 1 + Len(p) <= Len(e) /\ lt + 1 \in Nat
        BY <1>0, <1>15
      <3> QED BY <1>15, <2>4, <3>1
    <2>8. Stands(f, lt + lp + 1, one)
      <3>1. lt + lp + 1 + Len(one) <= Len(e) /\ lt + lp + 1 \in Nat
        BY <1>0, <1>15
      <3> QED BY <1>15, <2>4, <3>1
    <2>9. Stands(f, lt + lp + 2, v)
      <3>1. lt + lp + 2 + Len(v) <= Len(e) /\ lt + lp + 2 \in Nat
        BY <1>0, <1>15
      <3> QED BY <1>15, <2>4, <3>1
    <2>10. Stands(f, lt + lp + lv + 2, two)
      <3>1. lt + lp + lv + 2 + Len(two) <= Len(e) /\ lt + lp + lv + 2 \in Nat
        BY <1>0, <1>15
      <3> QED BY <1>15, <2>4, <3>1
    <2>11. Stands(f, lt + lp + lv + 4, lines)
      BY <1>15, <2>3
    <2>12. Len(f) = lt + lp + lv + ll + 4
      BY <1>0, <1>15, <2>2
    <2> QED BY <2>2, <2>5, <2>6, <2>7, <2>8, <2>9, <2>10, <2>11, <2>12
  <1>17. /\ whole \in Seq(S) /\ Len(whole) = lt + lp + lv + ll + 6
         /\ Stands(whole, 0, type) /\ Stands(whole, lt, one) /\ Stands(whole, lt + 1, p) /\ Stands(whole, lt + lp + 1, one)
         /\ Stands(whole, lt + lp + 2, v) /\ Stands(whole, lt + lp + lv + 2, two)
         /\ Stands(whole, lt + lp + lv + 4, lines) /\ Stands(whole, lt + lp + lv + ll + 4, two)
    <2>1. f \in Seq(S) /\ two \in Seq(S) /\ whole = f \o two
      BY <1>7, <1>16
    <2>2. whole \in Seq(S) /\ Len(whole) = Len(f) + Len(two)
      BY <2>1, ConcatProperties
    <2>3. Stands(whole, Len(f), two)
      BY <2>1, JoinedAgain
    <2>4. \A from \in Nat, part \in Seq(S) :
            Stands(f, from, part) /\ from + Len(part) <= Len(f) => Stands(whole, from, part)
      BY <2>1, JoinedAgain
    <2>5. Stands(whole, 0, type)
      <3>1. 0 + Len(type) <= Len(f) /\ 0 \in Nat
        BY <1>0, <1>16
      <3> QED BY <1>16, <2>4, <3>1
    <2>6. Stands(whole, lt, one)
      <3>1. lt + Len(one) <= Len(f) /\ lt \in Nat
        BY <1>0, <1>16
      <3> QED BY <1>16, <2>4, <3>1
    <2>7. Stands(whole, lt + 1, p)
      <3>1. lt + 1 + Len(p) <= Len(f) /\ lt + 1 \in Nat
        BY <1>0, <1>16
      <3> QED BY <1>16, <2>4, <3>1
    <2>8. Stands(whole, lt + lp + 1, one)
      <3>1. lt + lp + 1 + Len(one) <= Len(f) /\ lt + lp + 1 \in Nat
        BY <1>0, <1>16
      <3> QED BY <1>16, <2>4, <3>1
    <2>9. Stands(whole, lt + lp + 2, v)
      <3>1. lt + lp + 2 + Len(v) <= Len(f) /\ lt + lp + 2 \in Nat
        BY <1>0, <1>16
      <3> QED BY <1>16, <2>4, <3>1
    <2>10. Stands(whole, lt + lp + lv + 2, two)
      <3>1. lt + lp + lv + 2 + Len(two) <= Len(f) /\ lt + lp + lv + 2 \in Nat
        BY <1>0, <1>16
      <3> QED BY <1>16, <2>4, <3>1
    <2>11. Stands(whole, lt + lp + lv + 4, lines)
      <3>1. lt + lp + lv + 4 + Len(lines) <= Len(f) /\ lt + lp + lv + 4 \in Nat
        BY <1>0, <1>16
      <3> QED BY <1>16, <2>4, <3>1
    <2>12. Stands(whole, lt + lp + lv + ll + 4, two)
      BY <1>16, <2>3
    <2>13. Len(whole) = lt + lp + lv + ll + 6
      BY <1>0, <1>16, <2>2
    <2> QED BY <2>2, <2>5, <2>6, <2>7, <2>8, <2>9, <2>10, <2>11, <2>12, <2>13
  <1> QED BY <1>0, <1>17 DEF Laid

-----------------------------------------------------------------------------
(* Where the words and the lines of a request stand.                       *)

\* The parts of a request begin after so many bytes.
PathAt(r) == Len(r.request_type) + 1

ProtocolAt(r) == Len(r.request_type) + Len(r.path) + 2

LinesAt(r) == Len(r.request_type) + Len(r.path) + Len(r.protocol) + 4

\* The lines after the request line, without their new lines: the headers and the empty
\* one.
LineOf(r, n) == IF n <= Len(r.headers) THEN r.headers[n] \o <<Return>> ELSE <<Return>>

LineStarts(r, at) ==
  /\ at \in [1 .. Len(r.headers) + 1 -> Nat] /\ at[1] = LinesAt(r)
  /\ \A n \in 1 .. Len(r.headers) + 1 :
       /\ Stands(Rendered(r), at[n], LineOf(r, n))
       /\ Rendered(r)[at[n] + Len(LineOf(r, n)) + 1] = NewLine
       /\ n <= Len(r.headers) => at[n + 1] = at[n] + Len(LineOf(r, n)) + 1
       /\ at[n] + Len(LineOf(r, n)) + 1 <= Len(Rendered(r))
  /\ at[Len(r.headers) + 1] + 2 = Len(Rendered(r))

\* The parts of a request.
LEMMA RequestTypes ==
  ASSUME NEW r \in Requests
  PROVE  /\ r.request_type \in Seq(Bytes) /\ r.path \in Seq(Bytes) /\ r.protocol \in Seq(Bytes)
         /\ r.request_type \in WordsOfBytes /\ r.path \in WordsOfBytes /\ r.path # <<>> /\ r.protocol \in WordsOfBytes
         /\ r.headers \in Seq(Seq(Bytes \ {NewLine}) \ {<<>>})
         /\ r.headers \in Seq(Seq(Bytes))
         /\ Len(r.request_type) \in Nat /\ Len(r.path) \in Nat /\ Len(r.protocol) \in Nat /\ Len(r.headers) \in Nat
  <1>1. /\ r.request_type \in WordsOfBytes /\ r.path \in WordsOfBytes /\ r.path # <<>> /\ r.protocol \in WordsOfBytes
        /\ r.headers \in Seq(Seq(Bytes \ {NewLine}) \ {<<>>})
    BY RequestsAssumption
  <1>2. \A word \in WordsOfBytes : word \in Seq(Bytes)
    BY DEF WordsOfBytes
  <1>3. r.headers \in Seq(Seq(Bytes))
    <2>1. \A h \in Seq(Bytes \ {NewLine}) \ {<<>>} : h \in Seq(Bytes)
      OBVIOUS
    <2> QED BY <1>1, <2>1
  <1> QED BY <1>1, <1>2, <1>3, LenProperties

\* One line, and its end.
LEMMA LineEnds ==
  ASSUME NEW h \in Seq(Bytes), NEW bare, bare = h \o <<Return>>
  PROVE  /\ bare \in Seq(Bytes) /\ Len(h) \in Nat /\ Len(bare) = Len(h) + 1
         /\ Line(h) \in Seq(Bytes) /\ Len(Line(h)) = Len(bare) + 1
         /\ \A k \in 1 .. Len(bare) : Line(h)[k] = bare[k]
         /\ Line(h)[Len(bare) + 1] = NewLine /\ bare[Len(bare)] = Return
         /\ \A k \in 1 .. Len(h) : bare[k] = h[k]
  <1>1. PICK one, two : one = <<Return>> /\ two = <<Return, NewLine>>
    OBVIOUS
  <1>2. /\ one \in Seq(Bytes) /\ Len(one) = 1 /\ one[1] = Return
        /\ two \in Seq(Bytes) /\ Len(two) = 2 /\ two[1] = Return /\ two[2] = NewLine
    <2>1. Return \in Bytes /\ NewLine \in Bytes
      BY DEF Bytes
    <2> QED BY <1>1, <2>1
  <1>3. PICK whole : whole = Line(h)
    OBVIOUS
  <1>4. bare = h \o one /\ whole = h \o two
    BY <1>1, <1>3 DEF Line
  <1>5. /\ bare \in Seq(Bytes) /\ Len(h) \in Nat /\ Len(bare) = Len(h) + Len(one)
        /\ \A k \in 1 .. Len(h) + Len(one) : bare[k] = IF k <= Len(h) THEN h[k] ELSE one[k - Len(h)]
    BY <1>2, <1>4, ConcatProperties, LenProperties
  <1>6. /\ whole \in Seq(Bytes) /\ Len(whole) = Len(h) + Len(two)
        /\ \A k \in 1 .. Len(h) + Len(two) : whole[k] = IF k <= Len(h) THEN h[k] ELSE two[k - Len(h)]
    BY <1>2, <1>4, ConcatProperties
  <1>7. bare[Len(h) + 1] = Return /\ whole[Len(h) + 1] = Return /\ whole[Len(h) + 2] = NewLine
    <2>1. Len(h) + 1 \in 1 .. Len(h) + Len(one) /\ ~(Len(h) + 1 <= Len(h)) /\ (Len(h) + 1) - Len(h) = 1
      BY <1>2, <1>5
    <2>2. /\ Len(h) + 1 \in 1 .. Len(h) + Len(two) /\ Len(h) + 2 \in 1 .. Len(h) + Len(two)
          /\ ~(Len(h) + 2 <= Len(h)) /\ (Len(h) + 2) - Len(h) = 2
      BY <1>2, <1>5
    <2>3. bare[Len(h) + 1] = Return
      BY <1>2, <1>5, <2>1
    <2>4. whole[Len(h) + 1] = Return
      BY <1>2, <1>6, <2>1, <2>2
    <2>5. whole[Len(h) + 2] = NewLine
      BY <1>2, <1>6, <2>2
    <2> QED BY <2>3, <2>4, <2>5
  <1>8. \A k \in 1 .. Len(h) : bare[k] = h[k] /\ whole[k] = h[k]
    BY <1>2, <1>5, <1>6
  <1>9. Len(bare) = Len(h) + 1 /\ Len(whole) = Len(h) + 2
    BY <1>2, <1>5, <1>6
  <1>10. \A k \in 1 .. Len(bare) : whole[k] = bare[k]
    <2>1. \A k \in 1 .. Len(bare) : k \in 1 .. Len(h) \/ k = Len(h) + 1
      BY <1>5, <1>9
    <2> QED BY <1>7, <1>8, <2>1
  <1> QED BY <1>3, <1>5, <1>6, <1>7, <1>8, <1>9, <1>10

\* A line with its new line.
LEMMA EndedLine ==
  ASSUME NEW h \in Seq(Bytes), NEW bare, bare = h \o <<Return>>, NEW ended, ended = Line(h)
  PROVE  /\ Len(bare) \in Nat /\ Len(ended) = Len(bare) + 1
         /\ \A k \in 1 .. Len(bare) : ended[k] = bare[k]
         /\ ended[Len(bare) + 1] = NewLine
  <1>1. /\ Len(h) \in Nat /\ Len(bare) = Len(h) + 1 /\ Len(Line(h)) = Len(bare) + 1
        /\ \A k \in 1 .. Len(bare) : Line(h)[k] = bare[k]
        /\ Line(h)[Len(bare) + 1] = NewLine
    BY LineEnds
  <1> QED BY <1>1

\* Where the words and the lines of a request stand in what its client sends.
LEMMA RenderedParts ==
  ASSUME NEW r \in Requests
  PROVE  /\ Rendered(r) \in Seq(Bytes)
         /\ Stands(Rendered(r), 0, r.request_type) /\ Rendered(r)[Len(r.request_type) + 1] = Space
         /\ Stands(Rendered(r), PathAt(r), r.path) /\ Rendered(r)[PathAt(r) + Len(r.path) + 1] = Space
         /\ Stands(Rendered(r), ProtocolAt(r), r.protocol \o <<Return>>)
         /\ Rendered(r)[LinesAt(r)] = NewLine
         /\ LinesAt(r) <= Len(Rendered(r))
         /\ \E at : LineStarts(r, at)
  <1>1. PICK type, p, v : type = r.request_type /\ p = r.path /\ v = r.protocol
    OBVIOUS
  <1>2. PICK h : h = r.headers
    OBVIOUS
  <1>3. type \in Seq(Bytes) /\ p \in Seq(Bytes) /\ v \in Seq(Bytes) /\ h \in Seq(Seq(Bytes))
        /\ Len(type) \in Nat /\ Len(p) \in Nat /\ Len(v) \in Nat /\ Len(h) \in Nat
    BY <1>1, <1>2, RequestTypes
  <1>4. PICK one, two, empty : one = <<Space>> /\ two = <<Return, NewLine>> /\ empty = <<>>
    OBVIOUS
  <1>5. /\ one \in Seq(Bytes) /\ Len(one) = 1 /\ one[1] = Space
        /\ two \in Seq(Bytes) /\ Len(two) = 2 /\ two[1] = Return /\ two[2] = NewLine
        /\ empty \o two = two
    <2>1. Return \in Bytes /\ NewLine \in Bytes /\ Space \in Bytes
      BY DEF Bytes
    <2>2. two \in Seq(Bytes)
      BY <1>4, <2>1
    <2> QED BY <1>4, <2>1, <2>2
  <1>6. PICK all : all = [n \in DOMAIN h |-> Line(h[n])]
    OBVIOUS
  <1>7. PICK lines, whole : lines = FlattenSeq(all) /\ whole = Rendered(r)
    OBVIOUS
  <1>8. all \in Seq(Seq(Bytes)) /\ Len(all) = Len(h) /\ \A n \in 1 .. Len(h) : all[n] = Line(h[n])
    <2>1. DOMAIN h = 1 .. Len(h)
      BY <1>3
    <2>2. \A n \in 1 .. Len(h) : Line(h[n]) \in Seq(Bytes)
      <3> SUFFICES ASSUME NEW n \in 1 .. Len(h) PROVE Line(h[n]) \in Seq(Bytes)
        OBVIOUS
      <3>1. PICK hn, bare : hn = h[n] /\ bare = hn \o <<Return>>
        OBVIOUS
      <3>2. hn \in Seq(Bytes)
        BY <1>3, <3>1
      <3>3. Line(hn) \in Seq(Bytes)
        BY <3>1, <3>2, LineEnds
      <3> QED BY <3>1, <3>3
    <2> QED BY <1>3, <1>6, <2>1, <2>2
  <1>9. PICK off \in [0 .. Len(h) -> Nat] :
          /\ off[0] = 0
          /\ lines \in Seq(Bytes) /\ Len(lines) = off[Len(h)]
          /\ \A n \in 1 .. Len(h) :
               /\ off[n] = off[n - 1] + Len(all[n]) /\ off[n] <= off[Len(h)]
               /\ Stands(lines, off[n - 1], all[n])
    <2>1. PICK n : n = Len(all)
      OBVIOUS
    <2>2. PICK off \in [0 .. Len(all) -> Nat] :
          /\ off[0] = 0
          /\ FlattenSeq(all) \in Seq(Bytes) /\ Len(FlattenSeq(all)) = off[Len(all)]
          /\ \A k \in 1 .. Len(all) :
               /\ off[k] = off[k - 1] + Len(all[k]) /\ off[k] <= off[Len(all)]
               /\ Stands(FlattenSeq(all), off[k - 1], all[k])
      BY <1>8, Flattened
    <2> QED BY <1>7, <1>8, <2>2
  <1>10. whole = (type \o one \o p \o one \o v) \o two \o lines \o two
    BY <1>1, <1>2, <1>4, <1>5, <1>6, <1>7 DEF Rendered, Line
  <1>11. /\ whole \in Seq(Bytes) /\ Len(whole) = Len(type) + Len(p) + Len(v) + Len(lines) + 6
         /\ Stands(whole, 0, type) /\ Stands(whole, Len(type), one)
         /\ Stands(whole, Len(type) + 1, p) /\ Stands(whole, Len(type) + Len(p) + 1, one)
         /\ Stands(whole, Len(type) + Len(p) + 2, v) /\ Stands(whole, Len(type) + Len(p) + Len(v) + 2, two)
         /\ Stands(whole, Len(type) + Len(p) + Len(v) + 4, lines)
         /\ Stands(whole, Len(type) + Len(p) + Len(v) + Len(lines) + 4, two)
    <2>1. whole \in Seq(Bytes) /\ Laid(whole, type, one, p, v, two, lines)
      BY <1>3, <1>5, <1>9, <1>10, RequestJoined
    <2> QED BY <2>1 DEF Laid
  <1>12. PICK base \in Nat : base = Len(type) + Len(p) + Len(v) + 4
    BY <1>3
  <1>13. PathAt(r) = Len(type) + 1 /\ ProtocolAt(r) = Len(type) + Len(p) + 2 /\ LinesAt(r) = base
    BY <1>1, <1>12 DEF PathAt, ProtocolAt, LinesAt
  <1>14. whole[Len(type) + 1] = Space /\ whole[Len(type) + Len(p) + 1 + 1] = Space
    BY <1>3, <1>5, <1>11 DEF Stands
  <1>15. whole[Len(type) + Len(p) + Len(v) + 2 + 1] = Return /\ whole[Len(type) + Len(p) + Len(v) + 2 + 2] = NewLine
    BY <1>3, <1>5, <1>11 DEF Stands
  <1>16. Len(lines) \in Nat /\ Len(whole) = base + Len(lines) + 2 /\ Stands(whole, base, lines) /\ Stands(whole, base + Len(lines), two)
    <2>1. Len(lines) \in Nat
      BY <1>9, LenProperties
    <2>2. Len(type) + Len(p) + Len(v) + Len(lines) + 4 = base + Len(lines)
      BY <1>3, <1>12, <2>1
    <2> QED BY <1>3, <1>11, <1>12, <2>1, <2>2
  <1>17. Stands(whole, Len(type) + Len(p) + 2, v \o <<Return>>)
    <2>1. PICK bare : bare = v \o <<Return>>
      OBVIOUS
    <2>2. Len(bare) = Len(v) + 1 /\ bare[Len(bare)] = Return /\ \A k \in 1 .. Len(v) : bare[k] = v[k]
      BY <1>3, <2>1, LineEnds
    <2>3. ASSUME NEW k \in 1 .. Len(bare) PROVE whole[(Len(type) + Len(p) + 2) + k] = bare[k]
      <3>1. CASE k = Len(bare)
        <4>1. (Len(type) + Len(p) + 2) + k = Len(type) + Len(p) + Len(v) + 2 + 1
          BY <1>3, <2>2, <3>1
        <4> QED BY <1>15, <2>2, <3>1, <4>1
      <3>2. CASE k # Len(bare)
        <4>1. k \in 1 .. Len(v)
          <5>1. PICK m \in Nat : m = Len(v)
            BY <1>3
          <5>2. k \in 1 .. m + 1 /\ k # m + 1
            BY <2>2, <3>2, <5>1
          <5> QED BY <5>1, <5>2
        <4>2. Stands(whole, Len(type) + Len(p) + 2, v)
          BY <1>11
        <4>3. whole[(Len(type) + Len(p) + 2) + k] = v[k]
          BY <4>1, <4>2 DEF Stands
        <4>4. bare[k] = v[k]
          BY <2>2, <4>1
        <4> QED BY <4>3, <4>4
      <3> QED BY <3>1, <3>2
    <2> QED BY <2>1, <2>3 DEF Stands
  <1>18. PICK at : at = [n \in 1 .. Len(h) + 1 |-> base + off[n - 1]]
    OBVIOUS
  <1>19. LineStarts(r, at)
    <2>1. at \in [1 .. Len(h) + 1 -> Nat] /\ at[1] = base
      <3>1. \A n \in 1 .. Len(h) + 1 : n - 1 \in 0 .. Len(h)
        BY <1>3
      <3> QED BY <1>3, <1>9, <1>18, <3>1
    <2>2. at[Len(h) + 1] = base + Len(lines)
      BY <1>3, <1>9, <1>18
    <2>3. ASSUME NEW n \in 1 .. Len(h) + 1
          PROVE  /\ Stands(whole, at[n], LineOf(r, n))
                 /\ whole[at[n] + Len(LineOf(r, n)) + 1] = NewLine
                 /\ n <= Len(h) => at[n + 1] = at[n] + Len(LineOf(r, n)) + 1
                 /\ at[n] + Len(LineOf(r, n)) + 1 <= Len(whole)
      <3>1. CASE n = Len(h) + 1
        <4>1. PICK bare : bare = LineOf(r, n)
          OBVIOUS
        <4>2. bare = <<Return>> /\ ~(n <= Len(h))
          BY <1>2, <1>3, <3>1, <4>1 DEF LineOf
        <4>3. Len(bare) = 1 /\ bare[1] = Return
          BY <4>2
        <4>4. whole[(base + Len(lines)) + 1] = Return /\ whole[(base + Len(lines)) + 2] = NewLine
          BY <1>5, <1>16 DEF Stands
        <4>5. Stands(whole, at[n], bare)
          BY <2>2, <3>1, <4>3, <4>4 DEF Stands
        <4>6. at[n] = base + Len(lines) /\ at[n] + Len(bare) + 1 = (base + Len(lines)) + 2
          BY <1>16, <2>2, <3>1, <4>3
        <4> QED BY <1>16, <4>1, <4>2, <4>4, <4>5, <4>6
      <3>2. CASE n # Len(h) + 1
        <4>1. n \in 1 .. Len(h) /\ n <= Len(h) /\ h[n] \in Seq(Bytes)
          <5>1. n \in 1 .. Len(h) /\ n <= Len(h)
            <6>1. PICK headers \in Nat : headers = Len(h)
              BY <1>3
            <6>2. n \in 1 .. headers + 1 /\ n # headers + 1
              BY <3>2, <6>1
            <6>3. n \in 1 .. headers /\ n <= headers
              BY <6>2
            <6> QED BY <6>1, <6>3
          <5> QED BY <1>3, <5>1
        <4>2. PICK bare, ended : bare = h[n] \o <<Return>> /\ ended = all[n]
          OBVIOUS
        <4>3. LineOf(r, n) = bare
          BY <1>2, <4>1, <4>2 DEF LineOf
        <4>4. /\ Len(bare) \in Nat /\ Len(ended) = Len(bare) + 1
              /\ \A k \in 1 .. Len(bare) : ended[k] = bare[k]
              /\ ended[Len(bare) + 1] = NewLine
          <5>1. ended = Line(h[n])
            BY <1>8, <4>1, <4>2
          <5>2. PICK hn : hn = h[n]
            OBVIOUS
          <5>3. hn \in Seq(Bytes) /\ bare = hn \o <<Return>> /\ ended = Line(hn)
            BY <4>1, <4>2, <5>1, <5>2
          <5> QED BY <5>3, EndedLine
        <4>5. /\ off[n] = off[n - 1] + Len(ended) /\ off[n] <= off[Len(h)] /\ off[n - 1] \in Nat /\ off[n] \in Nat
              /\ Stands(lines, off[n - 1], ended)
          <5>1. n \in 0 .. Len(h) /\ n - 1 \in 0 .. Len(h)
            BY <1>3, <4>1
          <5>2. off[n] \in Nat /\ off[n - 1] \in Nat
            BY <1>9, <5>1
          <5> QED BY <1>9, <4>1, <4>2, <5>2
        <4>6. PICK from \in Nat, bytes \in Nat, room \in Nat :
                from = off[n - 1] /\ bytes = Len(bare) /\ room = Len(lines)
          BY <1>16, <4>4, <4>5
        <4>7. at[n] = base + from /\ off[n] = from + bytes + 1 /\ from + bytes + 1 <= room
          <5>1. at[n] = base + from
            BY <1>18, <4>6
          <5>2. off[n] = from + (bytes + 1) /\ off[n] <= room
            BY <1>9, <4>4, <4>5, <4>6
          <5>3. from + (bytes + 1) = from + bytes + 1
            OBVIOUS
          <5> QED BY <5>1, <5>2, <5>3
        <4>8. ASSUME NEW k \in 1 .. bytes + 1 PROVE whole[(base + from) + k] = ended[k]
          <5>1. lines[from + k] = ended[k]
            BY <4>4, <4>5, <4>6 DEF Stands
          <5>2. from + k \in 1 .. room /\ base + (from + k) = (base + from) + k
            BY <4>7
          <5>3. whole[base + (from + k)] = lines[from + k]
            BY <1>16, <4>6, <5>2 DEF Stands
          <5> QED BY <5>1, <5>2, <5>3
        <4>9. Stands(whole, at[n], bare)
          <5>1. \A k \in 1 .. bytes : k \in 1 .. bytes + 1
            OBVIOUS
          <5>2. \A k \in 1 .. bytes : ended[k] = bare[k]
            BY <4>4, <4>6
          <5>3. \A k \in 1 .. bytes : whole[(base + from) + k] = bare[k]
            BY <4>8, <5>1, <5>2
          <5> QED BY <4>6, <4>7, <5>3 DEF Stands
        <4>10. whole[at[n] + Len(bare) + 1] = NewLine
          <5>1. bytes + 1 \in 1 .. bytes + 1 /\ (base + from) + (bytes + 1) = (base + from) + bytes + 1
            OBVIOUS
          <5>2. whole[(base + from) + (bytes + 1)] = NewLine
            BY <4>4, <4>6, <4>8, <5>1
          <5> QED BY <4>6, <4>7, <5>1, <5>2
        <4>11. at[n + 1] = at[n] + Len(bare) + 1
          <5>1. n + 1 \in 1 .. Len(h) + 1 /\ (n + 1) - 1 = n
            BY <1>3, <4>1
          <5>2. at[n + 1] = base + (from + bytes + 1)
            BY <1>18, <4>7, <5>1
          <5>3. base + (from + bytes + 1) = (base + from) + bytes + 1
            OBVIOUS
          <5> QED BY <4>6, <4>7, <5>2, <5>3
        <4>12. at[n] + Len(bare) + 1 <= Len(whole)
          <5>1. (base + from) + bytes + 1 <= base + room + 2
            BY <4>7
          <5>2. Len(whole) = base + room + 2
            BY <1>16, <4>6
          <5> QED BY <4>6, <4>7, <5>1, <5>2
        <4> QED BY <4>3, <4>9, <4>10, <4>11, <4>12
      <3> QED BY <3>1, <3>2
    <2> QED BY <1>2, <1>7, <1>13, <1>16, <2>1, <2>2, <2>3 DEF LineStarts
  <1>20. base = Len(type) + Len(p) + Len(v) + 2 + 2 /\ base <= Len(whole) /\ (Len(type) + 1) + Len(p) + 1 = Len(type) + Len(p) + 1 + 1
    BY <1>3, <1>12, <1>16
  <1> QED BY <1>1, <1>7, <1>11, <1>13, <1>14, <1>15, <1>17, <1>19, <1>20

-----------------------------------------------------------------------------
(* The parts are separated.                                                *)

\* The buffer's cursor is inside it, and at its start while it is empty.
InBuffer ==
  /\ Len(data) \in Nat
  /\ position \in 0 .. Len(data)
  /\ pc = "recv" => position = 0

-----------------------------------------------------------------------------
(* What ReadDataChunk takes and where it leaves the cursor.                *)

\* The end of a chunk is the first place where one can end.
LEMMA ChunkEnds ==
  ASSUME InBuffer, NEW delim
  PROVE  /\ ChunkEnd(delim) \in position .. size /\ Ends(ChunkEnd(delim), delim)
         /\ \A q \in position .. ChunkEnd(delim) - 1 : ~Ends(q, delim)
  <1> DEFINE S == {p \in position .. size : Ends(p, delim)}
  <1>1. size \in Nat /\ position \in Nat /\ position <= size
    BY DEF InBuffer, size
  <1>2. S \in SUBSET Nat /\ size \in S
    BY <1>1 DEF Ends
  <1>3. PICK least \in S : \A n \in S : least <= n
    BY <1>2, LeastNatural
  <1>4. least \in position .. size /\ Ends(least, delim)
    OBVIOUS
  <1>5. ASSUME NEW q \in position .. least - 1 PROVE ~Ends(q, delim)
    <2>1. q \in position .. size /\ ~(least <= q)
      BY <1>1, <1>4
    <2> QED BY <2>1, <1>3
  <1> QED BY <1>4, <1>5 DEF ChunkEnd

\* A chunk holds no delimiter, and is as long as the cursor went.
LEMMA ChunkParts ==
  ASSUME InBuffer, NEW delim
  PROVE  /\ Without(Chunk(delim), {delim, NewLine})
         /\ Len(Chunk(delim)) = ChunkEnd(delim) - position
         /\ \E S : Chunk(delim) \in Seq(S)
  <1> DEFINE last == ChunkEnd(delim)
             S == {data[n] : n \in position + 1 .. last}
  <1>1. size \in Nat /\ position \in Nat /\ last \in Nat /\ position <= last /\ last <= size
    BY ChunkEnds DEF InBuffer, size
  <1>2. \A q \in position .. last - 1 : data[q + 1] \notin {delim, NewLine}
    BY ChunkEnds DEF Ends
  <1> HIDE DEF last
  <1>3. /\ SubSeq(data, position + 1, last) \in Seq(S)
        /\ Len(SubSeq(data, position + 1, last))
             = IF position + 1 <= last THEN last - (position + 1) + 1 ELSE 0
        /\ \A n \in 1 .. last - (position + 1) + 1 :
             SubSeq(data, position + 1, last)[n] = data[position + 1 + n - 1]
    <2>1. position + 1 \in Int /\ last \in Int /\ \A n \in position + 1 .. last : data[n] \in S
      BY <1>1
    <2> HIDE DEF S
    <2> QED BY <2>1, SubSeqProperties
  <1>4. Len(Chunk(delim)) = last - position /\ Chunk(delim) \in Seq(S)
    BY <1>1, <1>3 DEF Chunk, last
  <1>5. ASSUME NEW n \in DOMAIN Chunk(delim) PROVE Chunk(delim)[n] \notin {delim, NewLine}
    <2>1. n \in 1 .. last - position
      BY <1>4, LenProperties
    <2>2. Chunk(delim)[n] = data[position + 1 + n - 1]
      BY <2>1, <1>1, <1>3 DEF Chunk, last
    <2>3. position + n - 1 \in position .. last - 1 /\ position + 1 + n - 1 = position + n - 1 + 1
      BY <2>1, <1>1
    <2> QED BY <2>2, <2>3, <1>2
  <1> QED BY <1>4, <1>5 DEF Without, last

\* Past the delimiter of a line.
LEMMA LineAdvances ==
  ASSUME InBuffer
  PROVE  /\ AfterChunk(NewLine) \in 0 .. size
         /\ AfterChunk(NewLine) > position \/ Chunk(NewLine) = <<>>
  <1>1. ChunkEnd(NewLine) \in position .. size
    BY ChunkEnds
  <1>2. AfterChunk(NewLine) = IF ChunkEnd(NewLine) < size THEN ChunkEnd(NewLine) + 1 ELSE size
    BY ParserAssumption DEF AfterChunk, AfterDelimiter
  <1>3. AfterChunk(NewLine) \in 0 .. size
    BY <1>1, <1>2 DEF InBuffer, size
  <1>4. CASE AfterChunk(NewLine) > position
    BY <1>3, <1>4
  <1>5. CASE ~(AfterChunk(NewLine) > position)
    <2>1. ChunkEnd(NewLine) = position
      BY <1>1, <1>2, <1>5 DEF InBuffer, size
    <2>2. PICK S : Chunk(NewLine) \in Seq(S)
      BY ChunkParts
    <2>3. Len(Chunk(NewLine)) = 0
      <3>1. Len(Chunk(NewLine)) = ChunkEnd(NewLine) - position
        BY ChunkParts
      <3> QED BY <3>1, <2>1 DEF InBuffer
    <2>4. Chunk(NewLine) = <<>>
      BY <2>2, <2>3
    <2> QED BY <1>3, <2>4
  <1> QED BY <1>4, <1>5

\* Past the spaces after a word.
LEMMA WordAdvances ==
  ASSUME InBuffer
  PROVE  AfterChunk(Space) \in 0 .. size
  <1> DEFINE first == AfterDelimiter(Space)
             S == {p \in first .. size : p = size \/ data[p + 1] # Space}
  <1>1. first \in 0 .. size /\ size \in Nat
    BY ChunkEnds DEF AfterDelimiter, InBuffer, size
  <1> HIDE DEF first
  <1>2. S \in SUBSET Nat /\ size \in S
    BY <1>1
  <1>3. PICK least \in S : \A n \in S : least <= n
    BY <1>2, LeastNatural
  <1>4. ASSUME NEW q \in first .. least - 1 PROVE data[q + 1] = Space
    <2>1. q \in first .. size /\ ~(least <= q)
      BY <1>1, <1>3
    <2> QED BY <2>1, <1>3
  <1>5. \E p \in first .. size :
          /\ p = size \/ data[p + 1] # Space
          /\ \A q \in first .. p - 1 : data[q + 1] = Space
    BY <1>3, <1>4
  <1>6. AfterChunk(Space) \in first .. size
    BY <1>5 DEF AfterChunk, first
  <1> QED BY <1>1, <1>6

-----------------------------------------------------------------------------

\* The streams are sequences, and so is what becomes of the headers.
ParserInv ==
  /\ sent \in Seq(Bytes)
  /\ InBuffer
  /\ \E S : other \in Seq(S)
  /\ PartsSeparated

\* Nothing is read.
LEMMA ParserStarts == ParserInit => ParserInv
  <1> SUFFICES ASSUME ParserInit PROVE ParserInv
    OBVIOUS
  <1>1. data = <<>> /\ position = 0 /\ other = <<>> /\ line = <<>>
        /\ request_type = <<>> /\ path = <<>> /\ protocol = <<>>
    BY DEF ParserInit
  <1>2. sent \in Seq(Bytes)
    BY ParserAssumption, RenderedParts DEF ParserInit
  <1>3. \A S : Without(<<>>, S)
    BY DEF Without
  <1>4. InBuffer
    BY <1>1 DEF InBuffer
  <1>5. PartsSeparated
    BY <1>1, <1>3 DEF PartsSeparated
  <1>6. \E S : other \in Seq(S)
    BY <1>1
  <1> QED BY <1>2, <1>4, <1>5, <1>6 DEF ParserInv

\* A line is added to the headers.
LEMMA AppendSeparated ==
  ASSUME NEW lines, NEW last, \E S : lines \in Seq(S),
         \A n \in DOMAIN lines : Without(lines[n], {NewLine}), Without(last, {NewLine})
  PROVE  /\ \E S : Append(lines, last) \in Seq(S)
         /\ \A n \in DOMAIN Append(lines, last) : Without(Append(lines, last)[n], {NewLine})
  <1>1. PICK S : lines \in Seq(S)
    OBVIOUS
  <1>2. lines \in Seq(S \cup {last}) /\ last \in S \cup {last}
    BY <1>1
  <1>3. Append(lines, last) \in Seq(S \cup {last})
    BY <1>2
  <1>4. ASSUME NEW n \in DOMAIN Append(lines, last)
        PROVE  \/ Append(lines, last)[n] = last
               \/ /\ n \in DOMAIN lines
                  /\ Append(lines, last)[n] = lines[n]
    <2>1. Len(lines) \in Nat /\ DOMAIN lines = 1 .. Len(lines) /\ n \in 1 .. Len(lines) + 1
      BY <1>2
    <2>2. CASE n = Len(lines) + 1
      <3>1. Append(lines, last)[Len(lines) + 1] = last
        BY <1>2, AppendProperties
      <3> QED BY <3>1, <2>2
    <2>3. CASE n \in 1 .. Len(lines)
      BY <1>2, <2>1, <2>3
    <2> QED BY <2>1, <2>2, <2>3
  <1> QED BY <1>3, <1>4

\* Each step takes one chunk.
LEMMA ParserSteps == ParserInv /\ [ParserNext]_parserVars => ParserInv'
  <1> SUFFICES ASSUME ParserInv, [ParserNext]_parserVars PROVE ParserInv'
    OBVIOUS
  <1> USE DEF ParserInv
  <1>1. /\ Without(Chunk(Space), {Space, NewLine})
        /\ Without(Chunk(NewLine), {NewLine})
        /\ AfterChunk(Space) \in 0 .. Len(data) /\ AfterChunk(NewLine) \in 0 .. Len(data)
    <2>1. {NewLine, NewLine} = {NewLine}
      OBVIOUS
    <2> QED BY <2>1, ChunkParts, WordAdvances, LineAdvances DEF size
  <1>2. CASE ReadBuffer
    <2>1. PICK n \in 0 .. Len(sent) : data' = SubSeq(sent, 1, n)
      BY <1>2 DEF ReadBuffer
    <2>2. n \in Nat /\ \A k \in 1 .. n : sent[k] \in Bytes
      BY <2>1
    <2>3. Len(data') \in Nat
      BY <2>1, <2>2, SubSeqProperties, 1 \in Int, n \in Int, LenProperties
    <2>4. position' = 0 /\ sent' = sent /\ pc' # "recv" /\ UNCHANGED <<requestVars, line>>
      BY <1>2 DEF ReadBuffer, InBuffer
    <2>5. InBuffer'
      BY <2>3, <2>4 DEF InBuffer
    <2>6. PartsSeparated' /\ other' = other
      BY <2>4 DEF PartsSeparated, requestVars
    <2> QED BY <2>4, <2>5, <2>6
  <1>3. CASE ReadRequestType
    BY <1>1, <1>3 DEF ReadRequestType, InBuffer, PartsSeparated, bufferVars
  <1>4. CASE ReadPath
    BY <1>1, <1>4 DEF ReadPath, InBuffer, PartsSeparated, bufferVars
  <1>5. CASE ReadProtocol
    BY <1>1, <1>5 DEF ReadProtocol, InBuffer, PartsSeparated, bufferVars
  <1>6. CASE ReadFirstLine
    BY <1>1, <1>6 DEF ReadFirstLine, InBuffer, PartsSeparated, bufferVars, requestVars
  <1>7. CASE ReadNextLine
    <2>1. /\ \E S : other' \in Seq(S)
          /\ \A n \in DOMAIN other' : Without(other'[n], {NewLine})
      BY <1>1, <1>7, AppendSeparated DEF ReadNextLine, PartsSeparated
    <2> QED BY <1>1, <1>7, <2>1 DEF ReadNextLine, InBuffer, PartsSeparated, bufferVars
  <1>8. CASE ReadDone \/ Done \/ UNCHANGED parserVars
    BY <1>8 DEF ReadDone, Done, parserVars, InBuffer, PartsSeparated, bufferVars, requestVars
  <1> QED BY <1>2, <1>3, <1>4, <1>5, <1>6, <1>7, <1>8 DEF ParserNext

\* The cursor stays in the buffer and no part read so far holds a separator
\* (httpServer.cpp:88-140).
THEOREM ParserInvariant == ParserSpec => []ParserInv
  BY ParserStarts, ParserSteps, PTL DEF ParserSpec

\* Whatever a client sends and wherever it is cut, the parts of the request hold
\* none of their separators (httpServer.cpp:84-140).
THEOREM PartsSeparatedCorrect == ParserSpec => []PartsSeparated
  <1>1. ParserInv => PartsSeparated
    BY DEF ParserInv
  <1> QED BY <1>1, ParserInvariant, PTL

\* The header loop has a variant: the bytes left, or an empty line.
THEOREM HeadersAdvanceCorrect == ParserSpec => HeadersAdvance
  <1>1. ParserInv /\ [ParserNext]_parserVars =>
          [pc = "lines" /\ pc' = "lines" => position' > position \/ LastLine']_parserVars
    <2> SUFFICES ASSUME ParserInv, ParserNext, pc = "lines", pc' = "lines"
                 PROVE  position' > position \/ LastLine' \/ UNCHANGED parserVars
      OBVIOUS
    <2>1. CASE ReadNextLine
      <3>1. position' = AfterChunk(NewLine) /\ line' = Chunk(NewLine)
        BY <2>1 DEF ReadNextLine
      <3>2. position' > position \/ line' = <<>>
        BY <3>1, LineAdvances DEF ParserInv
      <3> QED BY <3>2 DEF LastLine
    <2> QED
      BY <2>1 DEF ParserNext, ReadBuffer, ReadRequestType, ReadPath, ReadProtocol, ReadFirstLine,
                  ReadDone, Done
  <1> QED BY <1>1, ParserInvariant, PTL DEF ParserSpec, HeadersAdvance

-----------------------------------------------------------------------------
(* Chunks of a request.                                                    *)

\* A sequence that another begins with.
LEMMA PrefixOf ==
  ASSUME NEW S, NEW s \in Seq(S), NEW u \in Seq(S), Len(s) <= Len(u), \A k \in 1 .. Len(s) : s[k] = u[k]
  PROVE  IsPrefix(s, u)
  <1>1. PICK front : front = SubSeq(u, 1, Len(s))
    OBVIOUS
  <1>2. front \in Seq(S) /\ Len(front) = Len(s) /\ \A k \in 1 .. Len(s) : front[k] = u[k]
    BY <1>1, SubSeqProperties, LenProperties
  <1>3. front = s
    BY <1>2, SeqEqual
  <1> QED BY <1>1, <1>3 DEF IsPrefix

\* A chunk that begins where a part stands, of which n bytes have come.
LEMMA ChunkOf ==
  ASSUME InBuffer, data \in Seq(Bytes), NEW delim, NEW part \in Seq(Bytes), NEW n \in 0 .. Len(part),
         position + n <= size,
         \A k \in 1 .. n : data[position + k] = part[k] /\ part[k] \notin {delim, NewLine},
         position + n = size \/ data[position + n + 1] \in {delim, NewLine}
  PROVE  /\ ChunkEnd(delim) = position + n
         /\ IsPrefix(Chunk(delim), part)
         /\ n = Len(part) => Chunk(delim) = part
  <1>0. size \in Nat /\ position \in Nat /\ size = Len(data) /\ Len(part) \in Nat /\ n \in Nat
    BY LenProperties DEF InBuffer, size
  <1>1. PICK end : end = ChunkEnd(delim)
    OBVIOUS
  <1>2. /\ end \in position .. size /\ Ends(end, delim)
        /\ \A q \in position .. end - 1 : ~Ends(q, delim)
    BY <1>1, ChunkEnds
  <1>3. ~(end < position + n)
    <2> SUFFICES ASSUME end < position + n PROVE FALSE
      OBVIOUS
    <2>1. PICK k \in Nat : k = end - position + 1
      BY <1>0, <1>2
    <2>2. k \in 1 .. n /\ position + k = end + 1 /\ end # size
      BY <1>0, <1>2, <2>1
    <2>3. data[end + 1] \notin {delim, NewLine}
      BY <2>2
    <2> QED BY <1>2, <2>2, <2>3 DEF Ends
  <1>4. ~(end > position + n)
    <2> SUFFICES ASSUME end > position + n PROVE FALSE
      OBVIOUS
    <2>1. position + n \in position .. end - 1
      BY <1>0, <1>2
    <2>2. ~Ends(position + n, delim)
      BY <1>2, <2>1
    <2> QED BY <2>2 DEF Ends
  <1>5. end = position + n
    BY <1>0, <1>2, <1>3, <1>4
  <1>6. PICK chunk : chunk = Chunk(delim)
    OBVIOUS
  <1>7. chunk \in Seq(Bytes) /\ Len(chunk) = n /\ \A k \in 1 .. n : chunk[k] = part[k]
    <2>1. chunk = SubSeq(data, position + 1, end)
      BY <1>1, <1>6 DEF Chunk
    <2>2. position + 1 \in Int /\ end \in Int /\ \A k \in position + 1 .. end : data[k] \in Bytes
      <3>1. \A k \in position + 1 .. end : k \in 1 .. Len(data)
        BY <1>0, <1>2
      <3> QED BY <1>0, <1>2, <3>1
    <2>3. /\ chunk \in Seq(Bytes)
          /\ Len(chunk) = IF position + 1 <= end THEN end - (position + 1) + 1 ELSE 0
          /\ \A k \in 1 .. end - (position + 1) + 1 : chunk[k] = data[position + 1 + k - 1]
      BY <2>1, <2>2, SubSeqProperties
    <2>4. Len(chunk) = n /\ end - (position + 1) + 1 = n
      BY <1>0, <1>5, <2>3
    <2>5. \A k \in 1 .. n : position + 1 + k - 1 = position + k
      BY <1>0
    <2> QED BY <2>3, <2>4, <2>5
  <1>8. IsPrefix(chunk, part)
    <2>1. PICK Some : chunk \in Seq(Some) /\ part \in Seq(Some)
      BY <1>7
    <2>2. Len(chunk) <= Len(part) /\ \A k \in 1 .. Len(chunk) : chunk[k] = part[k]
      BY <1>0, <1>7
    <2> QED BY <2>1, <2>2, PrefixOf
  <1>9. n = Len(part) => chunk = part
    BY <1>7, SeqEqual
  <1> QED BY <1>1, <1>5, <1>6, <1>8, <1>9

\* No blank follows the delimiter.
LEMMA AfterWord ==
  ASSUME InBuffer, NEW p \in 0 .. size, AfterDelimiter(Space) = p, p = size \/ data[p + 1] # Space
  PROVE  AfterChunk(Space) = p
  <1>1. size \in Nat /\ p \in Nat
    BY DEF InBuffer, size
  <1> DEFINE Found(q) == (q = size \/ data[q + 1] # Space) /\ \A u \in p .. q - 1 : data[u + 1] = Space
  <1>2. AfterChunk(Space) = CHOOSE q \in p .. size : Found(q)
    BY DEF AfterChunk
  <1>3. p \in p .. size /\ Found(p)
    BY <1>1
  <1>4. ASSUME NEW q \in p .. size, Found(q) PROVE q = p
    <2> SUFFICES ASSUME q # p PROVE FALSE
      OBVIOUS
    <2>1. p \in p .. q - 1 /\ p # size
      BY <1>1, <1>4
    <2>2. data[p + 1] = Space
      BY <1>4, <2>1
    <2> QED BY <2>1, <2>2
  <1> HIDE DEF Found
  <1> QED BY <1>2, <1>3, <1>4

-----------------------------------------------------------------------------
(* What is read of a request.                                              *)

\* The buffer has the beginning of what was sent.
Arrived ==
  pc # "recv" => data \in Seq(Bytes) /\ Len(data) <= Len(sent) /\ \A k \in 1 .. Len(data) : data[k] = sent[k]

Sent == asked # NoRequest => asked \in Requests /\ sent = Rendered(asked)

\* The type and the path are those asked for, or beginnings of them.
WordsAsked ==
  asked # NoRequest =>
    /\ pc = "request_type" => position = 0
    /\ pc = "path" =>
         /\ IsPrefix(request_type, asked.request_type)
         /\ Len(data) >= Len(asked.request_type) => request_type = asked.request_type
         /\ position = IF Len(data) <= Len(asked.request_type) THEN Len(data) ELSE PathAt(asked)
    /\ pc \in {"protocol", "line", "lines", "done"} =>
         /\ IsPrefix(request_type, asked.request_type) /\ IsPrefix(path, asked.path)
         /\ Len(data) >= PathAt(asked) + Len(asked.path) =>
              request_type = asked.request_type /\ path = asked.path

\* Of a request that came whole, each line is read where it starts, one late.
LinesRead ==
  \E at : /\ LineStarts(asked, at)
          /\ Len(other) \in 0 .. Len(asked.headers)
          /\ line = LineOf(asked, Len(other) + 1)
          /\ \A k \in 1 .. Len(other) : other[k] = LineOf(asked, k + 1)
          /\ position = at[Len(other) + 1] + Len(line) + 1

WholeAsked ==
  asked # NoRequest /\ data = sent =>
    /\ pc = "protocol" => position = ProtocolAt(asked)
    /\ pc = "line" => position = LinesAt(asked)
    /\ pc \in {"line", "lines", "done"} => protocol = asked.protocol \o <<Return>>
    /\ pc \in {"request_type", "path", "protocol", "line"} => other = <<>>
    /\ pc \in {"lines", "done"} => LinesRead
    /\ pc = "done" => LastLine

Stages == {"recv", "request_type", "path", "protocol", "line", "lines", "done"}

\* The inductive invariant of a request: what each part is, and where the next begins.
AskedInv == pc \in Stages /\ Arrived /\ Sent /\ WordsAsked /\ WholeAsked /\ (pc = "recv" => other = <<>>)

\* Nothing has arrived.
LEMMA AskedStarts == ParserInit => AskedInv
  <1> SUFFICES ASSUME ParserInit PROVE AskedInv
    OBVIOUS
  <1>1. pc = "recv" /\ other = <<>> /\ Sent
    BY DEF ParserInit, Sent
  <1> QED BY <1>1 DEF AskedInv, Arrived, WordsAsked, WholeAsked, Stages

\* A beginning of what was sent arrives.
LEMMA AskedReceives == ParserInv /\ AskedInv /\ ReadBuffer => AskedInv'
  <1> SUFFICES ASSUME ParserInv, AskedInv, ReadBuffer PROVE AskedInv'
    OBVIOUS
  <1>1. /\ pc = "recv" /\ pc' = "request_type" /\ position' = position /\ position = 0
        /\ asked' = asked /\ sent' = sent /\ other' = other /\ other = <<>>
    BY DEF ReadBuffer, ParserInv, InBuffer, requestVars, AskedInv
  <1>2. PICK n \in 0 .. Len(sent) : data' = SubSeq(sent, 1, n)
    BY DEF ReadBuffer
  <1>3. sent \in Seq(Bytes) /\ Len(sent) \in Nat /\ n \in Nat /\ n <= Len(sent)
    BY <1>2, LenProperties DEF ParserInv
  <1>4. data' \in Seq(Bytes) /\ Len(data') = n /\ \A k \in 1 .. n : data'[k] = sent[k]
    BY <1>2, <1>3, SubSeqProperties
  <1>5. Arrived'
    BY <1>1, <1>3, <1>4 DEF Arrived
  <1>6. Sent'
    BY <1>1 DEF AskedInv, Sent
  <1> QED BY <1>1, <1>5, <1>6 DEF AskedInv, WordsAsked, WholeAsked, Stages

\* What a step that has begun keeps.
LEMMA AskedKept ==
  ASSUME AskedInv, pc # "recv", UNCHANGED bufferVars
  PROVE  Arrived' /\ Sent' /\ asked' = asked /\ data' = data /\ sent' = sent
  <1>1. asked' = asked /\ data' = data /\ sent' = sent
    BY DEF bufferVars
  <1> QED BY <1>1 DEF AskedInv, Arrived, Sent

\* The type is read, to the blank after it or to the end of what came.
LEMMA AskedType == ParserInv /\ AskedInv /\ ReadRequestType => AskedInv'
  <1> SUFFICES ASSUME ParserInv, AskedInv, ReadRequestType PROVE AskedInv'
    OBVIOUS
  <1>1. /\ pc = "request_type" /\ pc' = "path" /\ UNCHANGED bufferVars /\ other' = other
        /\ request_type' = Chunk(Space) /\ position' = AfterChunk(Space)
    BY DEF ReadRequestType
  <1>2. Arrived' /\ Sent' /\ asked' = asked /\ data' = data /\ sent' = sent
    BY <1>1, AskedKept
  <1>3. ASSUME asked # NoRequest
        PROVE  /\ IsPrefix(request_type', asked.request_type)
               /\ Len(data) >= Len(asked.request_type) => request_type' = asked.request_type
               /\ position' = IF Len(data) <= Len(asked.request_type) THEN Len(data) ELSE PathAt(asked)
    <2>1. asked \in Requests /\ sent = Rendered(asked) /\ position = 0
      BY <1>1, <1>3 DEF AskedInv, Sent, WordsAsked
    <2>2. PICK type, p : type = asked.request_type /\ p = asked.path
      OBVIOUS
    <2>3. type \in Seq(Bytes) /\ type \in WordsOfBytes /\ Len(type) \in Nat
          /\ p \in Seq(Bytes) /\ p \in WordsOfBytes /\ p # <<>> /\ Len(p) \in Nat
      BY <2>1, <2>2, RequestTypes
    <2>4. PathAt(asked) = Len(type) + 1
      BY <2>2 DEF PathAt
    <2>5. /\ \A k \in 1 .. Len(type) : sent[k] = type[k]
          /\ sent[Len(type) + 1] = Space /\ sent[(Len(type) + 1) + 1] = p[1]
      <3>1. Stands(sent, 0, type) /\ sent[Len(type) + 1] = Space /\ Stands(sent, Len(type) + 1, p)
        BY <2>1, <2>2, <2>4, RenderedParts
      <3>2. 1 \in 1 .. Len(p)
        <4>1. Len(p) # 0
          BY <2>3
        <4> QED BY <2>3, <4>1
      <3>3. \A k \in 1 .. Len(type) : 0 + k = k
        BY <2>3
      <3> QED BY <3>1, <3>2, <3>3 DEF Stands
    <2>6. p[1] # Space
      <3>1. Len(p) # 0
        BY <2>3
      <3>2. 1 \in 1 .. Len(p)
        BY <2>3, <3>1
      <3> QED BY <2>3, <3>2 DEF WordsOfBytes
    <2>7. \A k \in 1 .. Len(type) : type[k] \notin {Space, NewLine}
      BY <2>3 DEF WordsOfBytes
    <2>8. /\ InBuffer /\ data \in Seq(Bytes) /\ size = Len(data) /\ size \in Nat
          /\ \A k \in 1 .. size : data[k] = sent[k]
      BY <1>1 DEF ParserInv, InBuffer, AskedInv, Arrived, size
    <2>9. CASE size <= Len(type)
      <3>1. size \in 0 .. Len(type) /\ position + size <= size /\ position + size = size
        BY <2>1, <2>3, <2>8, <2>9
      <3>2. \A k \in 1 .. size : data[position + k] = type[k] /\ type[k] \notin {Space, NewLine}
        BY <2>1, <2>3, <2>5, <2>7, <2>8, <2>9
      <3>3. ChunkEnd(Space) = position + size
        BY <2>3, <2>8, <3>1, <3>2, ChunkOf
      <3>4. IsPrefix(Chunk(Space), type)
        BY <2>3, <2>8, <3>1, <3>2, ChunkOf
      <3>5. size = Len(type) => Chunk(Space) = type
        BY <2>3, <2>8, <3>1, <3>2, ChunkOf
      <3>6. AfterDelimiter(Space) = size
        BY <3>1, <3>3 DEF AfterDelimiter
      <3>7. AfterChunk(Space) = size
        BY <2>8, <3>6, AfterWord
      <3> QED BY <1>1, <2>2, <2>3, <2>8, <2>9, <3>4, <3>5, <3>7
    <2>10. CASE ~(size <= Len(type))
      <3>1. PICK n \in 0 .. Len(type) : n = Len(type)
        BY <2>3
      <3>2. position + n <= size /\ n + 1 \in 1 .. size
        BY <2>1, <2>3, <2>8, <2>10, <3>1
      <3>3. \A k \in 1 .. n : data[position + k] = type[k] /\ type[k] \notin {Space, NewLine}
        BY <2>1, <2>3, <2>5, <2>7, <2>8, <2>10, <3>1
      <3>4. data[position + n + 1] \in {Space, NewLine}
        BY <2>1, <2>5, <2>8, <3>1, <3>2
      <3>5. ChunkEnd(Space) = position + n
        BY <2>3, <2>8, <3>2, <3>3, <3>4, ChunkOf
      <3>6. IsPrefix(Chunk(Space), type)
        BY <2>3, <2>8, <3>2, <3>3, <3>4, ChunkOf
      <3>7. Chunk(Space) = type
        BY <2>3, <2>8, <3>1, <3>2, <3>3, <3>4, ChunkOf
      <3>8. AfterDelimiter(Space) = n + 1
        BY <2>1, <2>8, <3>2, <3>5 DEF AfterDelimiter
      <3>9. n + 1 = size \/ data[(n + 1) + 1] # Space
        <4>1. n + 1 # size => (n + 1) + 1 \in 1 .. size
          BY <2>8, <3>2
        <4> QED BY <2>5, <2>6, <2>8, <3>1, <4>1
      <3>10. PICK q \in 0 .. size : q = n + 1
        BY <3>2
      <3>11. AfterChunk(Space) = q
        BY <2>8, <3>8, <3>9, <3>10, AfterWord
      <3> QED BY <1>1, <2>2, <2>4, <2>8, <2>10, <3>1, <3>6, <3>7, <3>10, <3>11
    <2> QED BY <2>9, <2>10
  <1>4. WordsAsked'
    BY <1>1, <1>2, <1>3 DEF WordsAsked, PathAt
  <1>5. WholeAsked'
    BY <1>1, <1>2 DEF AskedInv, WholeAsked
  <1> QED BY <1>1, <1>2, <1>4, <1>5 DEF AskedInv, Stages

\* The path is read from where it stands, or nothing is when nothing of it came.
LEMMA AskedPath == ParserInv /\ AskedInv /\ ReadPath => AskedInv'
  <1> SUFFICES ASSUME ParserInv, AskedInv, ReadPath PROVE AskedInv'
    OBVIOUS
  <1>1. /\ pc = "path" /\ pc' = "protocol" /\ UNCHANGED bufferVars /\ other' = other
        /\ request_type' = request_type /\ path' = Chunk(Space) /\ position' = AfterChunk(Space)
    BY DEF ReadPath
  <1>2. Arrived' /\ Sent' /\ asked' = asked /\ data' = data /\ sent' = sent
    BY <1>1, AskedKept
  <1>3. ASSUME asked # NoRequest
        PROVE  /\ IsPrefix(request_type', asked.request_type) /\ IsPrefix(path', asked.path)
               /\ Len(data) >= PathAt(asked) + Len(asked.path) =>
                    request_type' = asked.request_type /\ path' = asked.path
               /\ data = sent => position' = ProtocolAt(asked)
    <2>1. /\ asked \in Requests /\ sent = Rendered(asked)
          /\ IsPrefix(request_type, asked.request_type)
          /\ Len(data) >= Len(asked.request_type) => request_type = asked.request_type
          /\ position = IF Len(data) <= Len(asked.request_type) THEN Len(data) ELSE PathAt(asked)
      BY <1>1, <1>3 DEF AskedInv, Sent, WordsAsked
    <2>2. PICK type, p, v : type = asked.request_type /\ p = asked.path /\ v = asked.protocol
      OBVIOUS
    <2>3. Len(type) \in Nat /\ p \in Seq(Bytes) /\ p \in WordsOfBytes /\ Len(p) \in Nat /\ Len(p) # 0
          /\ v \in Seq(Bytes) /\ v \in WordsOfBytes /\ Len(v) \in Nat
      <3>1. p # <<>> /\ p \in Seq(Bytes)
        BY <2>1, <2>2, RequestTypes
      <3>2. Len(p) # 0
        BY <3>1
      <3> QED BY <2>1, <2>2, <3>2, RequestTypes
    <2>4. PICK at \in Nat : at = Len(type) + 1
      BY <2>3
    <2>5. PathAt(asked) = at /\ ProtocolAt(asked) = at + Len(p) + 1 /\ LinesAt(asked) = at + Len(p) + Len(v) + 3
      <3>1. PICK u \in Nat, m \in Nat, w \in Nat :
              u = Len(asked.request_type) /\ m = Len(asked.path) /\ w = Len(asked.protocol)
        BY <2>2, <2>3
      <3>2. at = u + 1 /\ Len(p) = m /\ Len(v) = w
        BY <2>2, <2>4, <3>1
      <3>3. PathAt(asked) = u + 1 /\ ProtocolAt(asked) = u + m + 2 /\ LinesAt(asked) = u + m + w + 4
        BY <3>1 DEF PathAt, ProtocolAt, LinesAt
      <3>4. u + 1 = at /\ u + m + 2 = at + m + 1 /\ u + m + w + 4 = at + m + w + 3
        BY <3>2
      <3> QED BY <3>2, <3>3, <3>4
    <2>6. /\ \A k \in 1 .. Len(p) : sent[at + k] = p[k]
          /\ sent[at + Len(p) + 1] = Space /\ sent[(at + Len(p) + 1) + 1] # Space
          /\ at + Len(p) + Len(v) + 3 <= Len(sent)
      <3>1. PICK bare : bare = v \o <<Return>>
        OBVIOUS
      <3>2. /\ Stands(sent, at, p) /\ sent[at + Len(p) + 1] = Space
            /\ Stands(sent, at + Len(p) + 1, bare) /\ at + Len(p) + Len(v) + 3 <= Len(sent)
        BY <2>1, <2>2, <2>5, <3>1, RenderedParts
      <3>3. Len(bare) = Len(v) + 1 /\ bare[Len(bare)] = Return /\ \A k \in 1 .. Len(v) : bare[k] = v[k]
        BY <2>3, <3>1, LineEnds
      <3>4. 1 \in 1 .. Len(bare) /\ bare[1] # Space
        <4>1. CASE Len(v) = 0
          BY <3>3, <4>1, ParserAssumption
        <4>2. CASE Len(v) # 0
          <5>1. 1 \in 1 .. Len(v)
            BY <2>3, <4>2
          <5>2. v[1] # Space
            BY <2>3, <5>1 DEF WordsOfBytes
          <5> QED BY <2>3, <3>3, <5>1, <5>2
        <4> QED BY <4>1, <4>2
      <3> QED BY <3>2, <3>4 DEF Stands
    <2>7. \A k \in 1 .. Len(p) : p[k] \notin {Space, NewLine}
      BY <2>3 DEF WordsOfBytes
    <2>8. /\ InBuffer /\ data \in Seq(Bytes) /\ size = Len(data) /\ size \in Nat
          /\ \A k \in 1 .. size : data[k] = sent[k]
      BY <1>1 DEF ParserInv, InBuffer, AskedInv, Arrived, size
    <2>9. CASE size <= at
      <3>1. PICK n \in 0 .. Len(p) : n = 0
        BY <2>3
      <3>2. position = size /\ position + n <= size /\ position + n = size /\ n # Len(p)
        BY <2>1, <2>2, <2>3, <2>4, <2>5, <2>8, <2>9, <3>1
      <3>3. \A k \in 1 .. n : data[position + k] = p[k] /\ p[k] \notin {Space, NewLine}
        BY <3>1
      <3>4. IsPrefix(Chunk(Space), p)
        BY <2>3, <2>8, <3>2, <3>3, ChunkOf
      <3>5. data # sent /\ ~(Len(data) >= at + Len(p))
        BY <2>3, <2>4, <2>6, <2>8, <2>9
      <3> QED BY <1>1, <2>1, <2>2, <2>5, <3>4, <3>5
    <2>10. CASE ~(size <= at) /\ size <= at + Len(p)
      <3>1. PICK n \in 0 .. Len(p) : n = size - at
        <4>1. PICK m \in Nat, all \in Nat : m = Len(p) /\ all = size
          BY <2>3, <2>8
        <4>2. all - at \in 0 .. m
          BY <2>10, <4>1
        <4> QED BY <4>1, <4>2
      <3>2. position = at /\ position + n <= size /\ position + n = size
        <4>1. Len(data) > Len(asked.request_type)
          BY <2>2, <2>3, <2>4, <2>8, <2>10
        <4>2. position = at
          BY <2>1, <2>2, <2>3, <2>5, <2>8, <4>1
        <4> QED BY <2>8, <3>1, <4>2
      <3>3. \A k \in 1 .. n : data[position + k] = p[k] /\ p[k] \notin {Space, NewLine}
        <4>1. \A k \in 1 .. n : k \in 1 .. Len(p) /\ at + k \in 1 .. size
          BY <2>3, <2>8, <3>1
        <4> QED BY <2>6, <2>7, <2>8, <3>2, <4>1
      <3>4. IsPrefix(Chunk(Space), p)
        BY <2>3, <2>8, <3>2, <3>3, ChunkOf
      <3>5. n = Len(p) => Chunk(Space) = p
        <4> SUFFICES ASSUME n = Len(p) PROVE Chunk(Space) = p
          OBVIOUS
        <4>1. position + n = size /\ position + n <= size /\ n \in 0 .. Len(p)
          BY <3>1, <3>2
        <4> QED BY <2>3, <2>8, <3>3, <4>1, ChunkOf
      <3>6. data # sent /\ (Len(data) >= at + Len(p) => n = Len(p))
        <4>1. PICK m \in Nat : m = Len(p)
          BY <2>3
        <4>2. n \in 0 .. m /\ n = size - at /\ size = Len(data) /\ size \in Nat
          BY <2>8, <3>1, <4>1
        <4>3. Len(data) >= at + Len(p) => n = Len(p)
          BY <4>1, <4>2
        <4>4. data # sent
          BY <2>3, <2>6, <2>8, <2>10
        <4> QED BY <4>3, <4>4
      <3>7. Len(data) >= Len(type)
        BY <2>3, <2>4, <2>8, <2>10
      <3> QED BY <1>1, <2>1, <2>2, <2>5, <3>4, <3>5, <3>6, <3>7
    <2>11. CASE ~(size <= at) /\ ~(size <= at + Len(p))
      <3>1. PICK n \in 0 .. Len(p) : n = Len(p)
        BY <2>3
      <3>2. position = at /\ position + n <= size /\ at + n + 1 \in 1 .. size
        <4>1. Len(data) > Len(asked.request_type)
          BY <2>2, <2>3, <2>4, <2>8, <2>11
        <4>2. position = at
          BY <2>1, <2>2, <2>3, <2>5, <2>8, <4>1
        <4> QED BY <2>3, <2>8, <2>11, <3>1, <4>2
      <3>3. \A k \in 1 .. n : data[position + k] = p[k] /\ p[k] \notin {Space, NewLine}
        <4>1. \A k \in 1 .. n : k \in 1 .. Len(p) /\ at + k \in 1 .. size
          BY <2>3, <2>8, <2>11, <3>1
        <4> QED BY <2>6, <2>7, <2>8, <3>2, <4>1
      <3>4. data[position + n + 1] \in {Space, NewLine}
        BY <2>6, <2>8, <3>1, <3>2
      <3>5. IsPrefix(Chunk(Space), p)
        BY <2>3, <2>8, <3>2, <3>3, <3>4, ChunkOf
      <3>6. Chunk(Space) = p
        BY <2>3, <2>8, <3>1, <3>2, <3>3, <3>4, ChunkOf
      <3>7. ChunkEnd(Space) = position + n
        BY <2>3, <2>8, <3>2, <3>3, <3>4, ChunkOf
      <3>8. PICK q \in 0 .. size : q = at + n + 1
        BY <3>2
      <3>9. AfterDelimiter(Space) = q
        BY <2>8, <3>2, <3>7, <3>8 DEF AfterDelimiter
      <3>10. q = size \/ data[q + 1] # Space
        <4>1. q # size => q + 1 \in 1 .. size
          BY <2>8, <3>8
        <4> QED BY <2>6, <2>8, <3>1, <3>8, <4>1
      <3>11. AfterChunk(Space) = q
        BY <2>8, <3>9, <3>10, AfterWord
      <3>12. Len(data) >= Len(type)
        BY <2>3, <2>4, <2>8, <2>11
      <3> QED BY <1>1, <2>1, <2>2, <2>5, <3>1, <3>5, <3>6, <3>8, <3>11, <3>12
    <2> QED BY <2>9, <2>10, <2>11
  <1>4. WordsAsked'
    BY <1>1, <1>2, <1>3 DEF WordsAsked, PathAt
  <1>5. WholeAsked'
    BY <1>1, <1>2, <1>3 DEF AskedInv, WholeAsked, ProtocolAt
  <1> QED BY <1>1, <1>2, <1>4, <1>5 DEF AskedInv, Stages

\* A part that ends its line is taken whole, and the cursor goes past the new line.
LEMMA LineTaken ==
  ASSUME ParserInv, Arrived, pc # "recv", data = sent, NEW bare \in Seq(Bytes \ {NewLine}),
         Stands(sent, position, bare), position + Len(bare) + 1 <= Len(sent),
         sent[position + Len(bare) + 1] = NewLine
  PROVE  Chunk(NewLine) = bare /\ AfterChunk(NewLine) = position + Len(bare) + 1
  <1>1. bare \in Seq(Bytes) /\ Len(bare) \in Nat /\ \A k \in 1 .. Len(bare) : bare[k] \notin {NewLine, NewLine}
    BY LenProperties
  <1>2. InBuffer /\ data \in Seq(Bytes) /\ size = Len(data) /\ size \in Nat /\ position \in Nat
    BY DEF ParserInv, InBuffer, Arrived, size
  <1>3. PICK n \in 0 .. Len(bare) : n = Len(bare)
    BY <1>1
  <1>4. \A k \in 1 .. n : data[position + k] = bare[k] /\ bare[k] \notin {NewLine, NewLine}
    BY <1>1, <1>3 DEF Stands
  <1>5. position + n <= size /\ position + n < size /\ data[position + n + 1] \in {NewLine, NewLine}
    BY <1>2, <1>3
  <1>6. Chunk(NewLine) = bare
    BY <1>1, <1>2, <1>3, <1>4, <1>5, ChunkOf
  <1>7. ChunkEnd(NewLine) = position + n
    <2>1. position + n = size \/ data[position + n + 1] \in {NewLine, NewLine}
      BY <1>5
    <2>2. position + n <= size /\ n \in 0 .. Len(bare)
      BY <1>5
    <2>3. PICK delim : delim = NewLine
      OBVIOUS
    <2>4. \A k \in 1 .. n : data[position + k] = bare[k] /\ bare[k] \notin {delim, NewLine}
      BY <1>4, <2>3
    <2>5. position + n = size \/ data[position + n + 1] \in {delim, NewLine}
      BY <2>1, <2>3
    <2>6. ChunkEnd(delim) = position + n
      BY <1>1, <1>2, <2>2, <2>4, <2>5, ChunkOf
    <2> QED BY <2>3, <2>6
  <1>8. AfterDelimiter(NewLine) = position + n + 1
    BY <1>5, <1>7 DEF AfterDelimiter
  <1> QED BY <1>3, <1>6, <1>8, ParserAssumption DEF AfterChunk

\* A line without its new line.
LEMMA BareLine ==
  ASSUME NEW h \in Seq(Bytes \ {NewLine})
  PROVE  h \o <<Return>> \in Seq(Bytes \ {NewLine}) /\ Len(h \o <<Return>>) = Len(h) + 1
  <1>1. PICK bare : bare = h \o <<Return>>
    OBVIOUS
  <1>2. h \in Seq(Bytes)
    OBVIOUS
  <1>3. Len(bare) = Len(h) + 1
    BY <1>1, <1>2, LineEnds
  <1>4. Return \in Bytes \ {NewLine}
    BY ParserAssumption DEF Bytes
  <1>5. <<Return>> \in Seq(Bytes \ {NewLine})
    BY <1>4
  <1>6. bare \in Seq(Bytes \ {NewLine})
    BY <1>1, <1>5, ConcatProperties
  <1> QED BY <1>1, <1>3, <1>6

\* The lines hold no new line.
LEMMA LineOfTypes ==
  ASSUME NEW r \in Requests, NEW n \in 1 .. Len(r.headers) + 1
  PROVE  LineOf(r, n) \in Seq(Bytes \ {NewLine}) /\ Len(LineOf(r, n)) \in Nat
  <1>1. PICK h : h = r.headers
    OBVIOUS
  <1>2. h \in Seq(Seq(Bytes \ {NewLine}) \ {<<>>}) /\ Len(h) \in Nat
    BY <1>1, RequestTypes
  <1>3. PICK bare : bare = LineOf(r, n)
    OBVIOUS
  <1>4. CASE n <= Len(h)
    <2>1. n \in 1 .. Len(h)
      BY <1>1, <1>2, <1>4
    <2>2. PICK hn : hn = h[n]
      OBVIOUS
    <2>3. hn \in Seq(Bytes \ {NewLine})
      BY <1>2, <2>1, <2>2
    <2>4. bare = hn \o <<Return>>
      BY <1>1, <1>3, <1>4, <2>2 DEF LineOf
    <2>5. bare \in Seq(Bytes \ {NewLine})
      BY <2>3, <2>4, BareLine
    <2> QED BY <1>3, <2>5, LenProperties
  <1>5. CASE ~(n <= Len(h))
    <2>1. Return \in Bytes \ {NewLine}
      BY ParserAssumption DEF Bytes
    <2>2. bare = <<Return>>
      BY <1>1, <1>3, <1>5 DEF LineOf
    <2>3. bare \in Seq(Bytes \ {NewLine})
      BY <2>1, <2>2
    <2> QED BY <1>3, <2>3, LenProperties
  <1> QED BY <1>4, <1>5

\* The protocol is read with its '\r'.
LEMMA AskedProtocol == ParserInv /\ AskedInv /\ ReadProtocol => AskedInv'
  <1> SUFFICES ASSUME ParserInv, AskedInv, ReadProtocol PROVE AskedInv'
    OBVIOUS
  <1>1. /\ pc = "protocol" /\ pc' = "line" /\ UNCHANGED bufferVars /\ other' = other
        /\ request_type' = request_type /\ path' = path
        /\ protocol' = Chunk(NewLine) /\ position' = AfterChunk(NewLine)
    BY DEF ReadProtocol
  <1>2. Arrived' /\ Sent' /\ asked' = asked /\ data' = data /\ sent' = sent
    BY <1>1, AskedKept
  <1>3. ASSUME asked # NoRequest, data = sent
        PROVE  protocol' = asked.protocol \o <<Return>> /\ position' = LinesAt(asked)
    <2>1. asked \in Requests /\ sent = Rendered(asked) /\ position = ProtocolAt(asked)
      BY <1>1, <1>3 DEF AskedInv, Sent, WholeAsked
    <2>2. PICK v, bare : v = asked.protocol /\ bare = v \o <<Return>>
      OBVIOUS
    <2>3. v \in Seq(Bytes \ {NewLine}) /\ Len(v) \in Nat
      <3>1. v \in WordsOfBytes /\ Len(v) \in Nat
        BY <2>1, <2>2, RequestTypes
      <3>2. \A word \in WordsOfBytes : word \in Seq(Bytes \ {NewLine})
        BY DEF WordsOfBytes
      <3> QED BY <3>1, <3>2
    <2>4. bare \in Seq(Bytes \ {NewLine}) /\ Len(bare) = Len(v) + 1
      BY <2>2, <2>3, BareLine
    <2>5. PICK at \in Nat : at = position
      BY DEF ParserInv, InBuffer
    <2>6. at + Len(bare) + 1 = LinesAt(asked)
      <3>1. PICK u \in Nat, m \in Nat, w \in Nat :
              u = Len(asked.request_type) /\ m = Len(asked.path) /\ w = Len(asked.protocol)
        BY <2>1, RequestTypes
      <3>2. at = u + m + 2 /\ Len(bare) = w + 1
        BY <2>1, <2>2, <2>4, <2>5, <3>1 DEF ProtocolAt
      <3>3. LinesAt(asked) = u + m + w + 4
        BY <3>1 DEF LinesAt
      <3> QED BY <3>2, <3>3
    <2>7. Stands(sent, at, bare) /\ sent[LinesAt(asked)] = NewLine /\ LinesAt(asked) <= Len(sent)
      BY <2>1, <2>2, <2>5, RenderedParts
    <2>8. Arrived /\ pc # "recv"
      BY <1>1 DEF AskedInv
    <2>9. Chunk(NewLine) = bare /\ AfterChunk(NewLine) = position + Len(bare) + 1
      BY <1>3, <2>4, <2>5, <2>6, <2>7, <2>8, LineTaken
    <2> QED BY <1>1, <2>2, <2>5, <2>6, <2>9
  <1>4. WordsAsked'
    BY <1>1, <1>2 DEF AskedInv, WordsAsked, PathAt
  <1>5. WholeAsked'
    BY <1>1, <1>2, <1>3 DEF AskedInv, WholeAsked, LinesAt
  <1> QED BY <1>1, <1>2, <1>4, <1>5 DEF AskedInv, Stages

-----------------------------------------------------------------------------
(* The lines.                                                              *)

\* The next of the lines is taken where it starts.
LEMMA NextLineTaken ==
  ASSUME ParserInv, Arrived, pc # "recv", data = sent, asked \in Requests, sent = Rendered(asked),
         NEW at, LineStarts(asked, at), NEW n \in 1 .. Len(asked.headers) + 1, position = at[n]
  PROVE  /\ Chunk(NewLine) = LineOf(asked, n)
         /\ AfterChunk(NewLine) = at[n] + Len(LineOf(asked, n)) + 1
  <1>1. PICK bare : bare = LineOf(asked, n)
    OBVIOUS
  <1>2. bare \in Seq(Bytes \ {NewLine}) /\ Len(bare) \in Nat
    BY <1>1, LineOfTypes
  <1>3. /\ Stands(sent, at[n], bare) /\ sent[at[n] + Len(bare) + 1] = NewLine
        /\ at[n] + Len(bare) + 1 <= Len(sent)
    BY <1>1 DEF LineStarts
  <1>4. Chunk(NewLine) = bare /\ AfterChunk(NewLine) = position + Len(bare) + 1
    BY <1>2, <1>3, LineTaken
  <1> QED BY <1>1, <1>4

\* The first line is read, and not stored.
LEMMA AskedFirstLine == ParserInv /\ AskedInv /\ ReadFirstLine => AskedInv'
  <1> SUFFICES ASSUME ParserInv, AskedInv, ReadFirstLine PROVE AskedInv'
    OBVIOUS
  <1>1. /\ pc = "line" /\ pc' = "lines" /\ UNCHANGED bufferVars /\ other' = other
        /\ request_type' = request_type /\ path' = path /\ protocol' = protocol
        /\ line' = Chunk(NewLine) /\ position' = AfterChunk(NewLine)
    BY DEF ReadFirstLine, requestVars
  <1>2. Arrived' /\ Sent' /\ asked' = asked /\ data' = data /\ sent' = sent
    BY <1>1, AskedKept
  <1>3. ASSUME asked # NoRequest, data = sent
        PROVE  LinesRead'
    <2>1. asked \in Requests /\ sent = Rendered(asked) /\ position = LinesAt(asked) /\ other = <<>>
      BY <1>1, <1>3 DEF AskedInv, Sent, WholeAsked
    <2>2. PICK at : LineStarts(asked, at)
      BY <2>1, RenderedParts
    <2>3. PICK headers \in Nat : headers = Len(asked.headers)
      BY <2>1, RequestTypes
    <2>4. 1 \in 1 .. Len(asked.headers) + 1 /\ 0 \in 0 .. Len(asked.headers)
      BY <2>3
    <2>5. position = at[1]
      BY <2>1, <2>2 DEF LineStarts
    <2>6. Arrived /\ pc # "recv"
      BY <1>1 DEF AskedInv
    <2>7. Chunk(NewLine) = LineOf(asked, 1)
      BY <1>3, <2>1, <2>2, <2>4, <2>5, <2>6, NextLineTaken
    <2>8. AfterChunk(NewLine) = at[1] + Len(LineOf(asked, 1)) + 1
      BY <1>3, <2>1, <2>2, <2>4, <2>5, <2>6, NextLineTaken
    <2>9. PICK came, ends : came = line' /\ ends = position'
      OBVIOUS
    <2>10. came = LineOf(asked, 1) /\ ends = at[1] + Len(came) + 1
      BY <1>1, <2>7, <2>8, <2>9
    <2>11. Len(other) = 0 /\ Len(other) + 1 = 1 /\ \A k \in 1 .. Len(other) : other[k] = LineOf(asked, k + 1)
      BY <2>1
    <2> QED BY <1>1, <1>2, <2>2, <2>4, <2>9, <2>10, <2>11 DEF LinesRead
  <1>4. WordsAsked'
    BY <1>1, <1>2 DEF AskedInv, WordsAsked, PathAt
  <1>5. WholeAsked'
    BY <1>1, <1>2, <1>3 DEF AskedInv, WholeAsked
  <1> QED BY <1>1, <1>2, <1>4, <1>5 DEF AskedInv, Stages

\* While the line is not the empty one there is a next, and it is stored.
LEMMA AskedNextLine == ParserInv /\ AskedInv /\ ReadNextLine => AskedInv'
  <1> SUFFICES ASSUME ParserInv, AskedInv, ReadNextLine PROVE AskedInv'
    OBVIOUS
  <1>1. /\ pc = "lines" /\ ~LastLine /\ pc' = pc /\ UNCHANGED bufferVars
        /\ request_type' = request_type /\ path' = path /\ protocol' = protocol
        /\ line' = Chunk(NewLine) /\ other' = Append(other, Chunk(NewLine)) /\ position' = AfterChunk(NewLine)
    BY DEF ReadNextLine
  <1>2. Arrived' /\ Sent' /\ asked' = asked /\ data' = data /\ sent' = sent
    BY <1>1, AskedKept
  <1>3. ASSUME asked # NoRequest, data = sent
        PROVE  LinesRead'
    <2>1. asked \in Requests /\ sent = Rendered(asked) /\ LinesRead
      BY <1>1, <1>3 DEF AskedInv, Sent, WholeAsked
    <2>2. PICK at : /\ LineStarts(asked, at)
                    /\ Len(other) \in 0 .. Len(asked.headers)
                    /\ line = LineOf(asked, Len(other) + 1)
                    /\ \A k \in 1 .. Len(other) : other[k] = LineOf(asked, k + 1)
                    /\ position = at[Len(other) + 1] + Len(line) + 1
      BY <2>1 DEF LinesRead
    <2>3. PICK headers \in Nat : headers = Len(asked.headers)
      BY <2>1, RequestTypes
    <2>4. PICK n \in 0 .. headers : n = Len(other)
      BY <2>2, <2>3
    <2>5. n # headers
      <3> SUFFICES ASSUME n = headers PROVE FALSE
        OBVIOUS
      <3>1. line = LineOf(asked, headers + 1) /\ ~(headers + 1 <= Len(asked.headers))
        BY <2>2, <2>3, <2>4
      <3>2. line = <<Return>>
        BY <3>1 DEF LineOf
      <3> QED BY <1>1, <3>2 DEF LastLine
    <2>6. PICK m \in 1 .. headers + 1 : m = n + 2
      BY <2>4, <2>5
    <2>7. n + 1 \in 1 .. headers + 1 /\ n + 1 <= headers /\ (n + 1) + 1 = m /\ n + 1 \in 0 .. headers
      BY <2>4, <2>5, <2>6
    <2>8. position = at[m]
      <3>1. at[(n + 1) + 1] = at[n + 1] + Len(LineOf(asked, n + 1)) + 1
        BY <2>2, <2>3, <2>7 DEF LineStarts
      <3> QED BY <2>2, <2>4, <2>7, <3>1
    <2>9. Arrived /\ pc # "recv" /\ m \in 1 .. Len(asked.headers) + 1
      BY <1>1, <2>3 DEF AskedInv
    <2>10. PICK came : came = Chunk(NewLine)
      OBVIOUS
    <2>11. came = LineOf(asked, m)
      BY <1>3, <2>1, <2>2, <2>8, <2>9, <2>10, NextLineTaken
    <2>12. AfterChunk(NewLine) = at[m] + Len(LineOf(asked, m)) + 1
      BY <1>3, <2>1, <2>2, <2>8, <2>9, NextLineTaken
    <2>13. PICK Some : other \in Seq(Some)
      BY DEF ParserInv
    <2>14. PICK lines : lines = Append(other, came)
      OBVIOUS
    <2>15. Len(lines) = n + 1 /\ \A k \in 1 .. n : lines[k] = other[k]
      <3>1. other \in Seq(Some \cup {came}) /\ came \in Some \cup {came}
        BY <2>13
      <3>2. Len(lines) = Len(other) + 1 /\ \A k \in 1 .. Len(other) : lines[k] = other[k]
        BY <2>14, <3>1, AppendProperties
      <3> QED BY <2>4, <3>2
    <2>16. lines[n + 1] = came
      <3>1. other \in Seq(Some \cup {came}) /\ came \in Some \cup {came}
        BY <2>13
      <3> QED BY <2>4, <2>14, <3>1, AppendProperties
    <2>17. \A k \in 1 .. n + 1 : lines[k] = LineOf(asked, k + 1)
      <3>1. \A k \in 1 .. n + 1 : k \in 1 .. n \/ k = n + 1
        BY <2>4
      <3> QED BY <2>2, <2>4, <2>7, <2>11, <2>15, <2>16, <3>1
    <2>18. lines = other' /\ came = line' /\ position' = at[m] + Len(came) + 1
      BY <1>1, <2>10, <2>11, <2>12, <2>14
    <2>19. PICK ends : ends = position'
      OBVIOUS
    <2>20. ends = at[Len(lines) + 1] + Len(came) + 1 /\ came = LineOf(asked, Len(lines) + 1)
           /\ Len(lines) \in 0 .. Len(asked.headers)
           /\ \A k \in 1 .. Len(lines) : lines[k] = LineOf(asked, k + 1)
      BY <2>3, <2>7, <2>11, <2>15, <2>17, <2>18, <2>19
    <2> QED BY <1>2, <2>2, <2>18, <2>19, <2>20 DEF LinesRead
  <1>4. WordsAsked'
    BY <1>1, <1>2 DEF AskedInv, WordsAsked, PathAt
  <1>5. WholeAsked'
    BY <1>1, <1>2, <1>3 DEF AskedInv, WholeAsked
  <1> QED BY <1>1, <1>2, <1>4, <1>5 DEF AskedInv, Stages

\* The empty line ends the request.
LEMMA AskedDone == ParserInv /\ AskedInv /\ (ReadDone \/ Done \/ UNCHANGED parserVars) => AskedInv'
  <1> SUFFICES ASSUME ParserInv, AskedInv, ReadDone \/ Done \/ UNCHANGED parserVars PROVE AskedInv'
    OBVIOUS
  <1>1. /\ asked' = asked /\ sent' = sent /\ data' = data /\ position' = position /\ line' = line
        /\ request_type' = request_type /\ path' = path /\ protocol' = protocol /\ other' = other
        /\ pc' = pc \/ (pc = "lines" /\ LastLine /\ pc' = "done")
    BY DEF ReadDone, Done, parserVars, bufferVars, requestVars
  <1>2. Sent'
    BY <1>1 DEF AskedInv, Sent
  <1>3. Arrived'
    BY <1>1 DEF AskedInv, Arrived
  <1>4. WordsAsked'
    BY <1>1 DEF AskedInv, WordsAsked, PathAt
  <1>5. LinesRead <=> LinesRead'
    BY <1>1 DEF LinesRead
  <1>6. LastLine <=> LastLine'
    BY <1>1 DEF LastLine
  <1>7. WholeAsked'
    BY <1>1, <1>5, <1>6 DEF AskedInv, WholeAsked, ProtocolAt, LinesAt
  <1> QED BY <1>1, <1>2, <1>3, <1>4, <1>7 DEF AskedInv, Stages

\* Every step.
LEMMA AskedSteps == ParserInv /\ AskedInv /\ [ParserNext]_parserVars => AskedInv'
  BY AskedReceives, AskedType, AskedPath, AskedProtocol, AskedFirstLine, AskedNextLine, AskedDone DEF ParserNext

\* At each step, the parts that have been read are those that were asked for and the cursor
\* stands where the next begins (httpServer.cpp:84-140).
THEOREM AskedInvariant == ParserSpec => []AskedInv
  BY AskedStarts, AskedSteps, ParserInvariant, PTL DEF ParserSpec

\* For every request, however many of its bytes one recv gives: the type and the path are
\* those asked for, or beginnings of them when the bytes end there
\* (functions.cpp:303-317, httpServer.cpp:88-95).
THEOREM PathAsAskedCorrect == ParserSpec => []PathAsAsked
  <1>1. ParserInv /\ AskedInv => PathAsAsked
    BY DEF AskedInv, WordsAsked, PathAsAsked, Received, PathAt
  <1> QED BY <1>1, ParserInvariant, AskedInvariant, PTL

\* For any number of headers: of a request received whole the first header is lost, the
\* empty line is stored, and every line keeps its '\r' (httpServer.cpp:96-108).
THEOREM HeadersShiftedCorrect == ParserSpec => []HeadersShifted
  <1>1. ASSUME ParserInv, AskedInv, pc = "done", asked # NoRequest, data = sent
        PROVE  /\ protocol = asked.protocol \o <<Return>>
               /\ other = IF asked.headers = <<>> THEN <<>>
                          ELSE [n \in 1 .. Len(asked.headers) |->
                                  IF n < Len(asked.headers) THEN asked.headers[n + 1] \o <<Return>>
                                  ELSE <<Return>>]
    <2>1. /\ asked \in Requests /\ protocol = asked.protocol \o <<Return>> /\ LinesRead /\ LastLine
      BY <1>1 DEF AskedInv, Sent, WholeAsked
    <2>2. PICK h : h = asked.headers
      OBVIOUS
    <2>3. h \in Seq(Seq(Bytes \ {NewLine}) \ {<<>>}) /\ Len(h) \in Nat
      BY <2>1, <2>2, RequestTypes
    <2>4. /\ Len(other) \in 0 .. Len(h) /\ line = LineOf(asked, Len(other) + 1)
          /\ \A k \in 1 .. Len(other) : other[k] = LineOf(asked, k + 1)
      BY <2>1, <2>2 DEF LinesRead
    <2>5. Len(other) = Len(h)
      <3> SUFFICES ASSUME Len(other) # Len(h) PROVE FALSE
        OBVIOUS
      <3>1. PICK n : n = Len(other) + 1
        OBVIOUS
      <3>2. n \in 1 .. Len(h) /\ n <= Len(h)
        BY <2>3, <2>4, <3>1
      <3>3. PICK hn, bare : hn = h[n] /\ bare = hn \o <<Return>>
        OBVIOUS
      <3>4. hn \in Seq(Bytes \ {NewLine}) /\ hn # <<>>
        BY <2>3, <3>2, <3>3
      <3>5. line = bare
        BY <2>2, <2>4, <3>1, <3>2, <3>3 DEF LineOf
      <3>6. Len(bare) = Len(hn) + 1 /\ bare \in Seq(Bytes \ {NewLine})
        BY <3>3, <3>4, BareLine
      <3>7. Len(hn) \in Nat /\ Len(hn) # 0
        BY <3>4
      <3>8. bare # <<>> /\ bare # <<Return>>
        <4>1. Len(bare) # 0 /\ Len(bare) # 1
          BY <3>6, <3>7
        <4>2. PICK one : one = <<Return>>
          OBVIOUS
        <4>3. Len(one) = 1
          BY <4>2
        <4>4. bare # one
          BY <4>1, <4>3
        <4>5. bare # <<>>
          BY <4>1
        <4> QED BY <4>2, <4>4, <4>5
      <3> QED BY <2>1, <3>5, <3>8 DEF LastLine
    <2>6. PICK Some : other \in Seq(Some)
      BY <1>1 DEF ParserInv
    <2>7. CASE h = <<>>
      <3>1. Len(other) = 0
        BY <2>5, <2>7
      <3>2. other = <<>>
        BY <2>6, <3>1
      <3> QED BY <2>1, <2>2, <2>7, <3>2
    <2>8. CASE h # <<>>
      <3>1. PICK expected : expected = [n \in 1 .. Len(h) |-> IF n < Len(h) THEN h[n + 1] \o <<Return>> ELSE <<Return>>]
        OBVIOUS
      <3>2. DOMAIN other = 1 .. Len(h) /\ other = [n \in DOMAIN other |-> other[n]]
        BY <2>5, <2>6
      <3>3. ASSUME NEW n \in 1 .. Len(h) PROVE other[n] = expected[n]
        <4>1. other[n] = LineOf(asked, n + 1)
          BY <2>4, <2>5
        <4>2. n + 1 <= Len(h) <=> n < Len(h)
          BY <2>3
        <4> QED BY <2>2, <3>1, <4>1, <4>2 DEF LineOf
      <3>4. other = expected
        BY <3>1, <3>2, <3>3
      <3> QED BY <2>1, <2>2, <2>8, <3>1, <3>4
    <2> QED BY <2>7, <2>8
  <1>2. ParserInv /\ AskedInv => HeadersShifted
    BY <1>1 DEF HeadersShifted
  <1> QED BY <1>2, ParserInvariant, AskedInvariant, PTL

-----------------------------------------------------------------------------
(* The arguments of the program.                                           *)

\* The pass never stands on the value of a key, and a skip stays inside argv.
AtArgument ==
  /\ argv \in Seq(Seq(Chars))
  /\ i \in 1 .. Len(argv) + 1
  /\ i <= Len(argv) => ~Value(i)

\* LastValueWins of the table itself.
Pairing ==
  /\ DOMAIN paired =
       DOMAIN Defaults \cup {extract_key(argv[j]) : j \in {n \in 1 .. i - 1 : Key(n)}}
  /\ \A j \in 1 .. i - 1 :
       /\ Key(j)
       /\ \A n \in j + 1 .. i - 1 : Key(n) => extract_key(argv[n]) # extract_key(argv[j])
       => paired[extract_key(argv[j])] = ValueOf(j)
  /\ \A k \in DOMAIN Defaults :
       (\A j \in 1 .. i - 1 : Key(j) => extract_key(argv[j]) # k) => paired[k] = Defaults[k]

UnpairedInv == unpaired \in Seq(Seq(Chars)) /\ UnpairedInOrder

\* The inductive invariant of the pass.
ArgumentsInv == AtArgument /\ Pairing /\ UnpairedInv

\* Before the first argument.
LEMMA ArgumentsStarts == ArgumentsInit => ArgumentsInv
  <1> SUFFICES ASSUME ArgumentsInit PROVE ArgumentsInv
    OBVIOUS
  <1>1. argv \in Seq(Seq(Chars))
    BY ArgumentsAssumption DEF ArgumentsInit, CommandLines
  <1>2. AtArgument
    BY <1>1 DEF ArgumentsInit, AtArgument, Value
  <1>3. Pairing
    <2>1. i = 1 /\ paired = Defaults /\ 1 .. i - 1 = {}
      BY DEF ArgumentsInit
    <2>2. {extract_key(argv[j]) : j \in {n \in 1 .. i - 1 : Key(n)}} = {}
      BY <2>1
    <2> QED BY <2>1, <2>2 DEF Pairing
  <1>4. PositionsBefore(1) = {}
    BY DEF PositionsBefore
  <1>5. UnpairedInv
    BY <1>4, FS_EmptySet DEF ArgumentsInit, UnpairedInv, UnpairedInOrder
  <1> QED BY <1>2, <1>3, <1>5 DEF ArgumentsInv

\* Where the pass goes next is not the value of a key.
LEMMA SkipsValue ==
  ASSUME AtArgument, i <= Len(argv), argv' = argv, Key(i),
         i' = IF TakesNext(i) THEN i + 2 ELSE i + 1
  PROVE  AtArgument'
  <1>1. i' \in 1 .. Len(argv) + 1 /\ i' > i
    BY DEF AtArgument, TakesNext
  <1>2. ASSUME i' <= Len(argv) PROVE ~Value(i')
    BY <1>2, <1>1 DEF AtArgument, TakesNext, Value, Key
  <1> QED BY <1>1, <1>2 DEF AtArgument, Value, Key

\* Positions before, at and after one.
LEMMA Between ==
  ASSUME NEW a \in Nat, NEW b \in Nat, 1 <= a, a + 1 <= b
  PROVE  /\ a \in 1 .. b - 1
         /\ \A j \in 1 .. a - 1 : /\ j \in 1 .. b - 1
                                  /\ a \in j + 1 .. b - 1
                                  /\ \A n \in j + 1 .. a - 1 : n \in j + 1 .. b - 1
  OBVIOUS

-----------------------------------------------------------------------------
(* The last value of a key.                                                *)

\* What a key adds to the table.
LEMMA KeyAdded ==
  ASSUME AtArgument, Pairing, ParseKey
  PROVE  Pairing'
  <1> DEFINE key == extract_key(argv[i])
             Keys(n) == {extract_key(argv[j]) : j \in {k \in 1 .. n : Key(k)}}
  <1>1. argv' = argv /\ i \in 1 .. Len(argv) /\ Len(argv) \in Nat /\ Key(i)
    BY DEF ParseKey, AtArgument, Key
  <1>2. paired' = [k \in DOMAIN paired \cup {key} |-> IF k = key THEN ValueOf(i) ELSE paired[k]]
    BY DEF ParseKey
  <1>3. i \in Nat /\ i' \in Nat /\ 1 <= i /\ i + 1 <= i' /\ i' <= i + 2
    BY <1>1 DEF ParseKey
  <1>4. \A j \in 1 .. i' - 1 : Key(j) => j \in 1 .. i
    BY <1>1, <1>3 DEF ParseKey, TakesNext, Key
  <1>5. \A j : /\ Key(j)' <=> Key(j)
               /\ extract_key(argv[j])' = extract_key(argv[j])
               /\ ValueOf(j)' = ValueOf(j)
    BY <1>1 DEF Key, ValueOf, TakesNext
  <1>6. {extract_key(argv[j]) : j \in {n \in 1 .. i' - 1 : Key(n)}} = Keys(i - 1) \cup {key}
    BY <1>1, <1>3, <1>4
  <1>7. DOMAIN paired' = DOMAIN Defaults \cup {extract_key(argv[j]) : j \in {n \in 1 .. i' - 1 : Key(n)}}
    BY <1>2, <1>6 DEF Pairing
  <1>8. ASSUME NEW j \in 1 .. i' - 1, Key(j),
               \A n \in j + 1 .. i' - 1 : Key(n) => extract_key(argv[n]) # extract_key(argv[j])
        PROVE  paired'[extract_key(argv[j])] = ValueOf(j)
    <2>1. CASE j = i
      BY <2>1, <1>2
    <2>2. CASE j # i
      <3>1. j \in 1 .. i - 1 /\ key # extract_key(argv[j])
        <4>1. j \in 1 .. i
          BY <1>4, <1>8
        <4>2. j \in 1 .. i - 1
          BY <4>1, <2>2, <1>3
        <4>3. i \in j + 1 .. i' - 1
          BY <4>2, <1>3, Between
        <4> QED BY <4>2, <4>3, <1>1, <1>8
      <3>2. \A n \in j + 1 .. i - 1 : Key(n) => extract_key(argv[n]) # extract_key(argv[j])
        <4>1. \A n \in j + 1 .. i - 1 : n \in j + 1 .. i' - 1
          BY <1>3, <3>1, Between
        <4> QED BY <4>1, <1>8
      <3>3. paired[extract_key(argv[j])] = ValueOf(j)
        BY <3>1, <3>2, <1>8 DEF Pairing
      <3>4. extract_key(argv[j]) \in DOMAIN paired
        BY <3>1, <1>8 DEF Pairing
      <3> QED BY <3>1, <3>3, <3>4, <1>2
    <2> QED BY <2>1, <2>2
  <1>9. ASSUME NEW k \in DOMAIN Defaults,
               \A j \in 1 .. i' - 1 : Key(j) => extract_key(argv[j]) # k
        PROVE  paired'[k] = Defaults[k]
    <2>1. k # key /\ \A j \in 1 .. i - 1 : Key(j) => extract_key(argv[j]) # k
      <3>1. i \in 1 .. i' - 1 /\ \A j \in 1 .. i - 1 : j \in 1 .. i' - 1
        BY <1>3, Between
      <3> QED BY <3>1, <1>1, <1>9
    <2>2. paired[k] = Defaults[k] /\ k \in DOMAIN paired
      BY <2>1 DEF Pairing
    <2> QED BY <2>1, <2>2, <1>2
  <1> HIDE DEF key
  <1> QED BY <1>1, <1>5, <1>7, <1>8, <1>9 DEF Pairing

\* What is no key leaves the table.
LEMMA NoKeyAdded ==
  ASSUME AtArgument, Pairing, ParseUnpaired
  PROVE  Pairing'
  <1>1. argv' = argv /\ paired' = paired /\ i \in 1 .. Len(argv) /\ Len(argv) \in Nat
        /\ i' = i + 1 /\ ~Key(i)
    BY DEF ParseUnpaired, AtArgument, Key
  <1>2. \A j : /\ Key(j)' <=> Key(j)
               /\ extract_key(argv[j])' = extract_key(argv[j])
               /\ ValueOf(j)' = ValueOf(j)
    BY <1>1 DEF Key, ValueOf, TakesNext
  <1>3. \A j : j \in 1 .. i' - 1 /\ Key(j) <=> j \in 1 .. i - 1 /\ Key(j)
    BY <1>1
  <1>4. {n \in 1 .. i' - 1 : Key(n)} = {n \in 1 .. i - 1 : Key(n)}
    BY <1>3
  <1>5. DOMAIN paired = DOMAIN Defaults \cup {extract_key(argv[j]) : j \in {n \in 1 .. i' - 1 : Key(n)}}
    BY <1>4 DEF Pairing
  <1>6. ASSUME NEW j \in 1 .. i' - 1, Key(j),
               \A n \in j + 1 .. i' - 1 : Key(n) => extract_key(argv[n]) # extract_key(argv[j])
        PROVE  paired[extract_key(argv[j])] = ValueOf(j)
    <2>1. j \in 1 .. i - 1
      BY <1>3, <1>6
    <2>2. \A n \in j + 1 .. i - 1 : Key(n) => extract_key(argv[n]) # extract_key(argv[j])
      BY <1>1, <1>6
    <2> QED BY <2>1, <2>2, <1>6 DEF Pairing
  <1>7. ASSUME NEW k \in DOMAIN Defaults,
               \A j \in 1 .. i' - 1 : Key(j) => extract_key(argv[j]) # k
        PROVE  paired[k] = Defaults[k]
    <2>1. \A j \in 1 .. i - 1 : Key(j) => extract_key(argv[j]) # k
      BY <1>3, <1>7
    <2> QED BY <2>1 DEF Pairing
  <1> QED BY <1>1, <1>2, <1>5, <1>6, <1>7 DEF Pairing

-----------------------------------------------------------------------------
(* The positional arguments.                                               *)

\* Positions are counted.
LEMMA PositionsFinite ==
  ASSUME NEW n \in Nat
  PROVE  IsFiniteSet(PositionsBefore(n)) /\ Cardinality(PositionsBefore(n)) \in Nat
  BY FS_Interval, FS_Subset, FS_CardinalityType, 1 \in Int, n - 1 \in Int DEF PositionsBefore

\* A positional argument comes after those before it.
LEMMA PositionalKept ==
  ASSUME AtArgument, UnpairedInv, ParseUnpaired
  PROVE  UnpairedInv'
  <1>1. argv' = argv /\ i \in 1 .. Len(argv) /\ Len(argv) \in Nat /\ i' = i + 1
        /\ ~Key(i) /\ ~Value(i) /\ unpaired' = Append(unpaired, argv[i])
        /\ argv[i] \in Seq(Chars) /\ unpaired \in Seq(Seq(Chars))
    BY DEF ParseUnpaired, AtArgument, Key, UnpairedInv
  <1>2. \A n : PositionsBefore(n)' = PositionsBefore(n)
    BY <1>1 DEF PositionsBefore, Positional, Key
  <1>3. PositionsBefore(i + 1) = PositionsBefore(i) \cup {i} /\ i \notin PositionsBefore(i)
    BY <1>1 DEF PositionsBefore, Positional, Value
  <1>4. Cardinality(PositionsBefore(i + 1)) = Cardinality(PositionsBefore(i)) + 1
    BY <1>1, <1>3, PositionsFinite, FS_AddElement
  <1>5. Len(unpaired) = Cardinality(PositionsBefore(i))
    BY DEF UnpairedInv, UnpairedInOrder
  <1>6. ASSUME NEW j \in PositionsBefore(i)
        PROVE  unpaired'[Cardinality(PositionsBefore(j)) + 1] = argv[j]
    <2>1. j \in Nat /\ j \notin PositionsBefore(j) /\ PositionsBefore(j) \cup {j} \subseteq PositionsBefore(i)
      BY <1>1 DEF PositionsBefore, Positional
    <2>2. Cardinality(PositionsBefore(j)) + 1 <= Cardinality(PositionsBefore(i))
      <3>1. Cardinality(PositionsBefore(j) \cup {j}) = Cardinality(PositionsBefore(j)) + 1
        BY <2>1, PositionsFinite, FS_AddElement
      <3>2. IsFiniteSet(PositionsBefore(i))
        BY <1>1, PositionsFinite
      <3> QED BY <2>1, <3>1, <3>2, FS_Subset
    <2>3. Cardinality(PositionsBefore(j)) + 1 \in 1 .. Len(unpaired)
      <3>1. Cardinality(PositionsBefore(j)) \in Nat /\ Cardinality(PositionsBefore(i)) \in Nat
        BY <1>1, <2>1, PositionsFinite
      <3> QED BY <3>1, <2>2, <1>5
    <2> QED BY <2>3, <1>1 DEF UnpairedInv, UnpairedInOrder
  <1>7. unpaired'[Cardinality(PositionsBefore(i)) + 1] = argv[i]
    BY <1>1, <1>5
  <1>8. unpaired' \in Seq(Seq(Chars)) /\ Len(unpaired') = Len(unpaired) + 1
    BY <1>1
  <1> QED BY <1>1, <1>2, <1>3, <1>4, <1>5, <1>6, <1>7, <1>8 DEF UnpairedInv, UnpairedInOrder

\* A key and its value are not positional.
LEMMA PairIsNotPositional ==
  ASSUME AtArgument, UnpairedInv, ParseKey
  PROVE  UnpairedInv'
  <1>1. argv' = argv /\ unpaired' = unpaired /\ i \in 1 .. Len(argv) /\ Len(argv) \in Nat /\ Key(i)
        /\ i' = IF TakesNext(i) THEN i + 2 ELSE i + 1
    BY DEF ParseKey, AtArgument, Key
  <1>2. \A n : PositionsBefore(n)' = PositionsBefore(n)
    BY <1>1 DEF PositionsBefore, Positional, Key
  <1>3. PositionsBefore(i') = PositionsBefore(i)
    BY <1>1 DEF PositionsBefore, Positional
  <1> QED BY <1>1, <1>2, <1>3 DEF UnpairedInv, UnpairedInOrder

-----------------------------------------------------------------------------

\* Every step.
LEMMA ArgumentsSteps == ArgumentsInv /\ [ArgumentsNext]_argumentsVars => ArgumentsInv'
  <1> SUFFICES ASSUME ArgumentsInv, [ArgumentsNext]_argumentsVars PROVE ArgumentsInv'
    OBVIOUS
  <1> USE DEF ArgumentsInv
  <1>1. CASE ParseKey
    <2>1. AtArgument'
      BY <1>1, SkipsValue DEF ParseKey, Key
    <2> QED BY <1>1, <2>1, KeyAdded, PairIsNotPositional
  <1>2. CASE ParseUnpaired
    <2>1. AtArgument'
      BY <1>2 DEF ParseUnpaired, AtArgument, Value, Key
    <2> QED BY <1>2, <2>1, NoKeyAdded, PositionalKept
  <1>3. CASE ParseDone \/ UNCHANGED argumentsVars
    <2>1. UNCHANGED <<argv, i, paired, unpaired>>
      BY <1>3 DEF ParseDone, argumentsVars
    <2>2. AtArgument'
      BY <2>1 DEF AtArgument, Value, Key
    <2>3. Pairing'
      BY <2>1 DEF Pairing, Key, ValueOf, TakesNext
    <2>4. UnpairedInv'
      BY <2>1 DEF UnpairedInv, UnpairedInOrder, PositionsBefore, Positional, Key
    <2> QED BY <2>2, <2>3, <2>4
  <1> QED BY <1>1, <1>2, <1>3 DEF ArgumentsNext, Idle

\* For every command line, a key has the value given with it last (or its
\* default): what AcquireValueByKey returns (programArgumentsParser.cpp:16-61).
THEOREM LastValueCorrect == ArgumentsSpec => []LastValueWins
  <1>1. ArgumentsInv => LastValueWins
    BY DEF ArgumentsInv, Pairing, LastValueWins, AcquireValueByKey, key_exists
  <1> QED BY <1>1, ArgumentsStarts, ArgumentsSteps, PTL DEF ArgumentsSpec

\* For every command line, the unpaired arguments are those no key has taken, in
\* order: main's serve path is the first of them (ftpOverHttpServer.cpp:58-65).
THEOREM UnpairedCorrect == ArgumentsSpec => []UnpairedInOrder
  <1>1. ArgumentsInv => UnpairedInOrder
    BY DEF ArgumentsInv, UnpairedInv
  <1> QED BY <1>1, ArgumentsStarts, ArgumentsSteps, PTL DEF ArgumentsSpec

-----------------------------------------------------------------------------
(* The words of a date.                                                    *)

\* Each word of a string is a token, after the off[n] tokens of the n pieces before it.
TokensAt(str, words, off) ==
  /\ off \in [0 .. Len(str) -> Nat] /\ off[0] = 0 /\ Len(words) = off[Len(str)]
  /\ \A n \in 1 .. Len(str) :
       IF str[n].name \in Separators THEN off[n] = off[n - 1]
       ELSE off[n] = off[n - 1] + 1 /\ words[off[n]] = str[n]

\* The words of a string are its tokens, and nothing else is.
LEMMA Tokenized ==
  ASSUME NEW S, NEW str \in Seq(S), NEW words, words = TokenizeDateString(str)
  PROVE  words \in Seq(S) /\ \E off : TokensAt(str, words, off)
  <1>0. Len(str) \in Nat /\ DOMAIN str = 1 .. Len(str)
    BY LenProperties
  <1>1. PICK each : each = [n \in DOMAIN str |-> IF str[n].name \in Separators THEN <<>> ELSE <<str[n]>>]
    OBVIOUS
  <1>2. each \in Seq(Seq(S)) /\ Len(each) = Len(str)
    <2>1. \A n \in 1 .. Len(str) : each[n] \in Seq(S)
      BY <1>0, <1>1
    <2> QED BY <1>0, <1>1, <2>1
  <1>3. PICK off \in [0 .. Len(each) -> Nat] :
           /\ off[0] = 0
           /\ FlattenSeq(each) \in Seq(S) /\ Len(FlattenSeq(each)) = off[Len(each)]
           /\ \A n \in 1 .. Len(each) :
                /\ off[n] = off[n - 1] + Len(each[n]) /\ off[n] <= off[Len(each)]
                /\ Stands(FlattenSeq(each), off[n - 1], each[n])
    BY <1>2, Flattened
  <1>4. words = FlattenSeq(each)
    BY <1>1 DEF TokenizeDateString
  <1>5. ASSUME NEW n \in 1 .. Len(str)
        PROVE  IF str[n].name \in Separators THEN off[n] = off[n - 1]
               ELSE off[n] = off[n - 1] + 1 /\ words[off[n]] = str[n]
    <2>1. n - 1 \in 0 .. Len(str) /\ off[n - 1] \in Nat
      <3>1. n - 1 \in 0 .. Len(each)
        BY <1>0, <1>2
      <3> QED BY <1>2, <1>3, <3>1
    <2>2. CASE str[n].name \in Separators
      <3>1. each[n] = <<>>
        BY <1>0, <1>1, <2>2
      <3>2. Len(each[n]) = 0
        BY <3>1
      <3>3. off[n] = off[n - 1] + Len(each[n])
        BY <1>2, <1>3
      <3>4. off[n] = off[n - 1]
        BY <2>1, <3>2, <3>3
      <3> QED BY <2>2, <3>4
    <2>3. CASE str[n].name \notin Separators
      <3>1. PICK one : one = each[n]
        OBVIOUS
      <3>2. one = <<str[n]>>
        BY <1>0, <1>1, <2>3, <3>1
      <3>3. Len(one) = 1 /\ one[1] = str[n]
        BY <3>2
      <3>4. off[n] = off[n - 1] + 1
        BY <1>2, <1>3, <3>1, <3>3
      <3>5. words[off[n - 1] + 1] = one[1]
        <4>1. Stands(words, off[n - 1], one)
          BY <1>2, <1>3, <1>4, <3>1
        <4>2. 1 \in 1 .. Len(one)
          BY <3>3
        <4> QED BY <4>1, <4>2 DEF Stands
      <3> QED BY <2>3, <3>3, <3>4, <3>5
    <2> QED BY <2>2, <2>3
  <1>6. TokensAt(str, words, off)
    BY <1>2, <1>3, <1>4, <1>5 DEF TokensAt
  <1> QED BY <1>3, <1>4, <1>6

\* Eight words of sixteen pieces, and seven of thirteen.
EightOf(words, str) ==
  /\ Len(words) = 8
  /\ words[1] = str[1] /\ words[2] = str[4] /\ words[3] = str[6] /\ words[4] = str[8]
  /\ words[5] = str[10] /\ words[6] = str[12] /\ words[7] = str[14] /\ words[8] = str[16]

SevenOf(words, str) ==
  /\ Len(words) = 7
  /\ words[1] = str[1] /\ words[2] = str[3] /\ words[3] = str[5] /\ words[4] = str[7]
  /\ words[5] = str[9] /\ words[6] = str[11] /\ words[7] = str[13]

\* The sixteen pieces of a date in the first two formats.
LEMMA WordsOfPieces ==
  ASSUME NEW S, NEW str \in Seq(S), NEW words, words = TokenizeDateString(str), Len(str) = 16,
         \A n \in {2, 3, 5, 7, 9, 11, 13, 15} : str[n].name \in Separators,
         \A n \in {1, 4, 6, 8, 10, 12, 14, 16} : str[n].name \notin Separators
  PROVE  words \in Seq(S) /\ EightOf(words, str)
  <1>1. words \in Seq(S)
    BY Tokenized
  <1>2. PICK off : TokensAt(str, words, off)
    BY Tokenized
  <1>3. off[0] = 0 /\ Len(words) = off[16]
    BY <1>2 DEF TokensAt
  <1>4. ASSUME NEW n \in 1 .. 16
        PROVE  IF str[n].name \in Separators THEN off[n] = off[n - 1]
               ELSE off[n] = off[n - 1] + 1 /\ words[off[n]] = str[n]
    BY <1>2 DEF TokensAt
  <1>5. off[1] = 1 /\ words[1] = str[1] /\ off[2] = 1 /\ off[3] = 1
    <2>1. off[1] = off[0] + 1 /\ words[off[1]] = str[1]
      <3>1. str[1].name \notin Separators
        OBVIOUS
      <3>2. 1 \in 1 .. 16 /\ 1 - 1 = 0
        OBVIOUS
      <3> QED BY <1>4, <3>1, <3>2
    <2>2. off[1] = 1
      BY <1>3, <2>1
    <2> QED BY <1>4, <2>1, <2>2
  <1>6. off[4] = 2 /\ words[2] = str[4] /\ off[5] = 2
    BY <1>4, <1>5
  <1>7. off[6] = 3 /\ words[3] = str[6] /\ off[7] = 3
    BY <1>4, <1>6
  <1>8. off[8] = 4 /\ words[4] = str[8] /\ off[9] = 4
    BY <1>4, <1>7
  <1>9. off[10] = 5 /\ words[5] = str[10] /\ off[11] = 5
    BY <1>4, <1>8
  <1>10. off[12] = 6 /\ words[6] = str[12] /\ off[13] = 6
    BY <1>4, <1>9
  <1>11. off[14] = 7 /\ words[7] = str[14] /\ off[15] = 7
    BY <1>4, <1>10
  <1>12. off[16] = 8 /\ words[8] = str[16]
    BY <1>4, <1>11
  <1> QED BY <1>1, <1>3, <1>5, <1>6, <1>7, <1>8, <1>9, <1>10, <1>11, <1>12 DEF EightOf

\* The thirteen of the third.
LEMMA WordsOfFewerPieces ==
  ASSUME NEW S, NEW str \in Seq(S), NEW words, words = TokenizeDateString(str), Len(str) = 13,
         \A n \in {2, 4, 6, 8, 10, 12} : str[n].name \in Separators,
         \A n \in {1, 3, 5, 7, 9, 11, 13} : str[n].name \notin Separators
  PROVE  words \in Seq(S) /\ SevenOf(words, str)
  <1>1. words \in Seq(S)
    BY Tokenized
  <1>2. PICK off : TokensAt(str, words, off)
    BY Tokenized
  <1>3. off[0] = 0 /\ Len(words) = off[13]
    BY <1>2 DEF TokensAt
  <1>4. ASSUME NEW n \in 1 .. 13
        PROVE  IF str[n].name \in Separators THEN off[n] = off[n - 1]
               ELSE off[n] = off[n - 1] + 1 /\ words[off[n]] = str[n]
    BY <1>2 DEF TokensAt
  <1>5. off[1] = 1 /\ words[1] = str[1] /\ off[2] = 1
    <2>1. off[1] = off[0] + 1 /\ words[off[1]] = str[1]
      <3>1. str[1].name \notin Separators
        OBVIOUS
      <3>2. 1 \in 1 .. 13 /\ 1 - 1 = 0
        OBVIOUS
      <3> QED BY <1>4, <3>1, <3>2
    <2>2. off[1] = 1
      BY <1>3, <2>1
    <2> QED BY <1>4, <2>1, <2>2
  <1>6. off[3] = 2 /\ words[2] = str[3] /\ off[4] = 2
    BY <1>4, <1>5
  <1>7. off[5] = 3 /\ words[3] = str[5] /\ off[6] = 3
    BY <1>4, <1>6
  <1>8. off[7] = 4 /\ words[4] = str[7] /\ off[8] = 4
    BY <1>4, <1>7
  <1>9. off[9] = 5 /\ words[5] = str[9] /\ off[10] = 5
    BY <1>4, <1>8
  <1>10. off[11] = 6 /\ words[6] = str[11] /\ off[12] = 6
    BY <1>4, <1>9
  <1>11. off[13] = 7 /\ words[7] = str[13]
    BY <1>4, <1>10
  <1> QED BY <1>1, <1>3, <1>5, <1>6, <1>7, <1>8, <1>9, <1>10, <1>11 DEF SevenOf

\* Three sequences, one after the spoiled.
InThree(str, a, b, c) ==
  /\ Len(str) = Len(a) + Len(b) + Len(c)
  /\ Stands(str, 0, a) /\ Stands(str, Len(a), b) /\ Stands(str, Len(a) + Len(b), c)

\* Each part of three stands after those before it.
LEMMA ThreeJoined ==
  ASSUME NEW S, NEW a \in Seq(S), NEW b \in Seq(S), NEW c \in Seq(S)
  PROVE  a \o b \o c \in Seq(S) /\ InThree(a \o b \o c, a, b, c)
  <1>0. PICK str : str = a \o b \o c
    OBVIOUS
  <1>1. PICK ab : ab = a \o b
    OBVIOUS
  <1>2. /\ ab \in Seq(S) /\ Len(ab) = Len(a) + Len(b)
        /\ \A k \in 1 .. Len(a) + Len(b) : ab[k] = IF k <= Len(a) THEN a[k] ELSE b[k - Len(a)]
    BY <1>1, ConcatProperties
  <1>3. PICK na \in Nat, nb \in Nat, nc \in Nat : na = Len(a) /\ nb = Len(b) /\ nc = Len(c)
    BY LenProperties
  <1>4. /\ str \in Seq(S) /\ Len(str) = Len(ab) + Len(c)
        /\ \A k \in 1 .. Len(ab) + Len(c) : str[k] = IF k <= Len(ab) THEN ab[k] ELSE c[k - Len(ab)]
    BY <1>0, <1>1, <1>2, ConcatProperties
  <1>5. \A k \in 1 .. na : str[0 + k] = a[k]
    BY <1>2, <1>3, <1>4
  <1>6. ASSUME NEW k \in 1 .. nb PROVE str[na + k] = b[k]
    <2>0. PICK j : j = na + k
      OBVIOUS
    <2>1. j \in 1 .. na + nb /\ ~(j <= na) /\ j - na = k
      BY <2>0
    <2>2. ab[j] = b[k]
      BY <1>2, <1>3, <2>1
    <2>3. str[j] = ab[j]
      BY <1>2, <1>3, <1>4, <2>1
    <2> QED BY <2>0, <2>2, <2>3
  <1>7. ASSUME NEW k \in 1 .. nc PROVE str[na + nb + k] = c[k]
    <2>0. PICK j : j = na + nb + k
      OBVIOUS
    <2>1. j \in 1 .. na + nb + nc /\ ~(j <= na + nb) /\ j - (na + nb) = k
      BY <2>0
    <2>2. str[j] = c[k]
      BY <1>2, <1>3, <1>4, <2>1
    <2> QED BY <2>0, <2>2
  <1> QED BY <1>0, <1>2, <1>3, <1>4, <1>5, <1>6, <1>7 DEF Stands, InThree

\* Nine elements, as a sequence.
LEMMA Nine ==
  ASSUME NEW S, NEW x1 \in S, NEW x2 \in S, NEW x3 \in S, NEW x4 \in S, NEW x5 \in S, NEW x6 \in S,
         NEW x7 \in S, NEW x8 \in S, NEW x9 \in S, NEW s, s = <<x1, x2, x3, x4, x5, x6, x7, x8, x9>>
  PROVE  /\ s \in Seq(S) /\ Len(s) = 9
         /\ s[1] = x1 /\ s[2] = x2 /\ s[3] = x3 /\ s[4] = x4 /\ s[5] = x5 /\ s[6] = x6
         /\ s[7] = x7 /\ s[8] = x8 /\ s[9] = x9
  <1>1. Len(s) = 9
    OBVIOUS
  <1>2. /\ s[1] = x1 /\ s[2] = x2 /\ s[3] = x3 /\ s[4] = x4 /\ s[5] = x5 /\ s[6] = x6
        /\ s[7] = x7 /\ s[8] = x8 /\ s[9] = x9
    OBVIOUS
  <1>3. s \in Seq(S)
    OBVIOUS
  <1> QED BY <1>1, <1>2, <1>3

\* Six elements.
LEMMA Six ==
  ASSUME NEW S, NEW x1 \in S, NEW x2 \in S, NEW x3 \in S, NEW x4 \in S, NEW x5 \in S, NEW x6 \in S,
         NEW s, s = <<x1, x2, x3, x4, x5, x6>>
  PROVE  /\ s \in Seq(S) /\ Len(s) = 6
         /\ s[1] = x1 /\ s[2] = x2 /\ s[3] = x3 /\ s[4] = x4 /\ s[5] = x5 /\ s[6] = x6
  OBVIOUS

\* Five elements.
LEMMA Five ==
  ASSUME NEW S, NEW x1 \in S, NEW x2 \in S, NEW x3 \in S, NEW x4 \in S, NEW x5 \in S,
         NEW s, s = <<x1, x2, x3, x4, x5>>
  PROVE  /\ s \in Seq(S) /\ Len(s) = 5
         /\ s[1] = x1 /\ s[2] = x2 /\ s[3] = x3 /\ s[4] = x4 /\ s[5] = x5
  OBVIOUS

\* Two elements.
LEMMA Two ==
  ASSUME NEW S, NEW x1 \in S, NEW x2 \in S, NEW s, s = <<x1, x2>>
  PROVE  s \in Seq(S) /\ Len(s) = 2 /\ s[1] = x1 /\ s[2] = x2
  OBVIOUS

\* The eight words of three parts.
EightOfParts(words, a, b, c) ==
  /\ Len(words) = 8
  /\ words[1] = a[1] /\ words[2] = a[4] /\ words[3] = a[6] /\ words[4] = a[8]
  /\ words[5] = b[1] /\ words[6] = b[3] /\ words[7] = b[5] /\ words[8] = c[2]

\* They are the words of the whole string.
LEMMA EightOfPartsStand ==
  ASSUME NEW S, NEW a \in Seq(S), NEW b \in Seq(S), NEW c \in Seq(S), Len(a) = 9, Len(b) = 5, Len(c) = 2,
         \A k \in {2, 3, 5, 7, 9} : a[k].name \in Separators, \A k \in {1, 4, 6, 8} : a[k].name \notin Separators,
         \A k \in {2, 4} : b[k].name \in Separators, \A k \in {1, 3, 5} : b[k].name \notin Separators,
         c[1].name \in Separators, c[2].name \notin Separators
  PROVE  TokenizeDateString(a \o b \o c) \in Seq(S) /\ EightOfParts(TokenizeDateString(a \o b \o c), a, b, c)
  <1>1. PICK str : str = a \o b \o c
    OBVIOUS
  <1>2. PICK words : words = TokenizeDateString(str)
    OBVIOUS
  <1>3. str \in Seq(S) /\ InThree(str, a, b, c)
    BY <1>1, ThreeJoined
  <1>4. Len(str) = 16 /\ Stands(str, 0, a) /\ Stands(str, 9, b) /\ Stands(str, 14, c)
    BY <1>3 DEF InThree
  <1>5. \A k \in 1 .. 9 : str[k] = a[k]
    <2>1. \A k \in 1 .. 9 : str[0 + k] = a[k]
      BY <1>4 DEF Stands
    <2> QED BY <2>1
  <1>6. str[9 + 1] = b[1] /\ str[9 + 2] = b[2] /\ str[9 + 3] = b[3] /\ str[9 + 4] = b[4] /\ str[9 + 5] = b[5]
    BY <1>4 DEF Stands
  <1>7. str[14 + 1] = c[1] /\ str[14 + 2] = c[2]
    BY <1>4 DEF Stands
  <1>8. str[10] = b[1] /\ str[11] = b[2] /\ str[12] = b[3] /\ str[13] = b[4] /\ str[14] = b[5]
    BY <1>6
  <1>9. str[15] = c[1] /\ str[16] = c[2]
    BY <1>7
  <1>10. \A k \in {2, 3, 5, 7, 9, 11, 13, 15} : str[k].name \in Separators
    <2>1. \A k \in {2, 3, 5, 7, 9} : str[k].name \in Separators
      BY <1>5
    <2>2. str[11].name \in Separators /\ str[13].name \in Separators /\ str[15].name \in Separators
      BY <1>8, <1>9
    <2> QED BY <2>1, <2>2
  <1>11. \A k \in {1, 4, 6, 8, 10, 12, 14, 16} : str[k].name \notin Separators
    <2>1. \A k \in {1, 4, 6, 8} : str[k].name \notin Separators
      BY <1>5
    <2>2. /\ str[10].name \notin Separators /\ str[12].name \notin Separators
          /\ str[14].name \notin Separators /\ str[16].name \notin Separators
      BY <1>8, <1>9
    <2> QED BY <2>1, <2>2
  <1>12. words \in Seq(S) /\ EightOf(words, str)
    BY <1>2, <1>3, <1>4, <1>10, <1>11, WordsOfPieces
  <1>13. EightOfParts(words, a, b, c)
    BY <1>5, <1>8, <1>9, <1>12 DEF EightOf, EightOfParts
  <1> QED BY <1>1, <1>2, <1>12, <1>13

EightWordsAre(words, y1, y2, y3, y4, y5, y6, y7, y8) ==
  /\ \E S : words \in Seq(S)
  /\ Len(words) = 8
  /\ words[1] = y1 /\ words[2] = y2 /\ words[3] = y3 /\ words[4] = y4
  /\ words[5] = y5 /\ words[6] = y6 /\ words[7] = y7 /\ words[8] = y8

\* A string of sixteen pieces, eight of them words.
LEMMA EightWords ==
  ASSUME NEW x1, NEW x2, NEW x3, NEW x4, NEW x5, NEW x6, NEW x7, NEW x8,
         NEW x9, NEW x10, NEW x11, NEW x12, NEW x13, NEW x14, NEW x15, NEW x16, NEW words,
         words = TokenizeDateString(<<x1, x2, x3, x4, x5, x6, x7, x8, x9>> \o <<x10, x11, x12, x13, x14>> \o <<x15, x16>>),
         \A x \in {x2, x3, x5, x7, x9, x11, x13, x15} : x.name \in Separators,
         \A x \in {x1, x4, x6, x8, x10, x12, x14, x16} : x.name \notin Separators
  PROVE  EightWordsAre(words, x1, x4, x6, x8, x10, x12, x14, x16)
  <1>1. PICK S : /\ x1 \in S /\ x2 \in S /\ x3 \in S /\ x4 \in S
               /\ x5 \in S /\ x6 \in S /\ x7 \in S /\ x8 \in S
               /\ x9 \in S /\ x10 \in S /\ x11 \in S /\ x12 \in S
               /\ x13 \in S /\ x14 \in S /\ x15 \in S /\ x16 \in S
    <2> DEFINE all == {x1, x2, x3, x4, x5, x6, x7, x8, x9, x10, x11, x12, x13, x14, x15, x16}
    <2>1. /\ x1 \in all /\ x2 \in all /\ x3 \in all /\ x4 \in all
          /\ x5 \in all /\ x6 \in all /\ x7 \in all /\ x8 \in all
          /\ x9 \in all /\ x10 \in all /\ x11 \in all /\ x12 \in all
          /\ x13 \in all /\ x14 \in all /\ x15 \in all /\ x16 \in all
      OBVIOUS
    <2> HIDE DEF all
    <2> QED BY <2>1
  <1>2. PICK a : a = <<x1, x2, x3, x4, x5, x6, x7, x8, x9>>
    OBVIOUS
  <1>3. PICK b : b = <<x10, x11, x12, x13, x14>>
    OBVIOUS
  <1>4. PICK c : c = <<x15, x16>>
    OBVIOUS
  <1>5. /\ a \in Seq(S) /\ Len(a) = 9
        /\ a[1] = x1 /\ a[2] = x2 /\ a[3] = x3 /\ a[4] = x4
        /\ a[5] = x5 /\ a[6] = x6 /\ a[7] = x7 /\ a[8] = x8
        /\ a[9] = x9
    BY <1>1, <1>2, Nine
  <1>6. /\ b \in Seq(S) /\ Len(b) = 5
        /\ b[1] = x10 /\ b[2] = x11 /\ b[3] = x12 /\ b[4] = x13
        /\ b[5] = x14
    BY <1>1, <1>3, Five
  <1>7. c \in Seq(S) /\ Len(c) = 2 /\ c[1] = x15 /\ c[2] = x16
    BY <1>1, <1>4, Two
  <1>8. words = TokenizeDateString(a \o b \o c)
    BY <1>2, <1>3, <1>4
  <1>9. /\ \A k \in {2, 3, 5, 7, 9} : a[k].name \in Separators
        /\ \A k \in {1, 4, 6, 8} : a[k].name \notin Separators
    BY <1>5
  <1>10. /\ \A k \in {2, 4} : b[k].name \in Separators
         /\ \A k \in {1, 3, 5} : b[k].name \notin Separators
    BY <1>6
  <1>11. c[1].name \in Separators /\ c[2].name \notin Separators
    BY <1>7
  <1>12. words \in Seq(S) /\ EightOfParts(words, a, b, c)
    <2>1. a \in Seq(S) /\ b \in Seq(S) /\ c \in Seq(S) /\ Len(a) = 9 /\ Len(b) = 5 /\ Len(c) = 2
      BY <1>5, <1>6, <1>7
    <2> QED BY <1>8, <1>9, <1>10, <1>11, <2>1, EightOfPartsStand
  <1> QED BY <1>5, <1>6, <1>7, <1>12 DEF EightOfParts, EightWordsAre

\* The seven words of three parts.
SevenOfParts(words, a, b, c) ==
  /\ Len(words) = 7
  /\ words[1] = a[1] /\ words[2] = a[3] /\ words[3] = a[5] /\ words[4] = b[1]
  /\ words[5] = b[3] /\ words[6] = b[5] /\ words[7] = c[2]

\* They are the words of the whole string.
LEMMA SevenOfPartsStand ==
  ASSUME NEW S, NEW a \in Seq(S), NEW b \in Seq(S), NEW c \in Seq(S), Len(a) = 6, Len(b) = 5, Len(c) = 2,
         \A k \in {2, 4, 6} : a[k].name \in Separators, \A k \in {1, 3, 5} : a[k].name \notin Separators,
         \A k \in {2, 4} : b[k].name \in Separators, \A k \in {1, 3, 5} : b[k].name \notin Separators,
         c[1].name \in Separators, c[2].name \notin Separators
  PROVE  TokenizeDateString(a \o b \o c) \in Seq(S) /\ SevenOfParts(TokenizeDateString(a \o b \o c), a, b, c)
  <1>1. PICK str : str = a \o b \o c
    OBVIOUS
  <1>2. PICK words : words = TokenizeDateString(str)
    OBVIOUS
  <1>3. str \in Seq(S) /\ InThree(str, a, b, c)
    BY <1>1, ThreeJoined
  <1>4. Len(str) = 13 /\ Stands(str, 0, a) /\ Stands(str, 6, b) /\ Stands(str, 11, c)
    BY <1>3 DEF InThree
  <1>5. \A k \in 1 .. 6 : str[k] = a[k]
    <2>1. \A k \in 1 .. 6 : str[0 + k] = a[k]
      BY <1>4 DEF Stands
    <2> QED BY <2>1
  <1>6. str[6 + 1] = b[1] /\ str[6 + 2] = b[2] /\ str[6 + 3] = b[3] /\ str[6 + 4] = b[4] /\ str[6 + 5] = b[5]
    BY <1>4 DEF Stands
  <1>7. str[11 + 1] = c[1] /\ str[11 + 2] = c[2]
    BY <1>4 DEF Stands
  <1>8. str[7] = b[1] /\ str[8] = b[2] /\ str[9] = b[3] /\ str[10] = b[4] /\ str[11] = b[5]
    BY <1>6
  <1>9. str[12] = c[1] /\ str[13] = c[2]
    BY <1>7
  <1>10. \A k \in {2, 4, 6, 8, 10, 12} : str[k].name \in Separators
    <2>1. \A k \in {2, 4, 6} : str[k].name \in Separators
      BY <1>5
    <2>2. str[8].name \in Separators /\ str[10].name \in Separators /\ str[12].name \in Separators
      BY <1>8, <1>9
    <2> QED BY <2>1, <2>2
  <1>11. \A k \in {1, 3, 5, 7, 9, 11, 13} : str[k].name \notin Separators
    <2>1. \A k \in {1, 3, 5} : str[k].name \notin Separators
      BY <1>5
    <2>2. /\ str[7].name \notin Separators /\ str[9].name \notin Separators
          /\ str[11].name \notin Separators /\ str[13].name \notin Separators
      BY <1>8, <1>9
    <2> QED BY <2>1, <2>2
  <1>12. words \in Seq(S) /\ SevenOf(words, str)
    BY <1>2, <1>3, <1>4, <1>10, <1>11, WordsOfFewerPieces
  <1>13. SevenOfParts(words, a, b, c)
    BY <1>5, <1>8, <1>9, <1>12 DEF SevenOf, SevenOfParts
  <1> QED BY <1>1, <1>2, <1>12, <1>13

SevenWordsAre(words, y1, y2, y3, y4, y5, y6, y7) ==
  /\ \E S : words \in Seq(S)
  /\ Len(words) = 7
  /\ words[1] = y1 /\ words[2] = y2 /\ words[3] = y3 /\ words[4] = y4
  /\ words[5] = y5 /\ words[6] = y6 /\ words[7] = y7

\* A string of thirteen pieces, seven of them words.
LEMMA SevenWords ==
  ASSUME NEW x1, NEW x2, NEW x3, NEW x4, NEW x5, NEW x6, NEW x7, NEW x8,
         NEW x9, NEW x10, NEW x11, NEW x12, NEW x13, NEW words,
         words = TokenizeDateString(<<x1, x2, x3, x4, x5, x6>> \o <<x7, x8, x9, x10, x11>> \o <<x12, x13>>),
         \A x \in {x2, x4, x6, x8, x10, x12} : x.name \in Separators,
         \A x \in {x1, x3, x5, x7, x9, x11, x13} : x.name \notin Separators
  PROVE  SevenWordsAre(words, x1, x3, x5, x7, x9, x11, x13)
  <1>1. PICK S : /\ x1 \in S /\ x2 \in S /\ x3 \in S /\ x4 \in S
               /\ x5 \in S /\ x6 \in S /\ x7 \in S /\ x8 \in S
               /\ x9 \in S /\ x10 \in S /\ x11 \in S /\ x12 \in S
               /\ x13 \in S
    <2> DEFINE all == {x1, x2, x3, x4, x5, x6, x7, x8, x9, x10, x11, x12, x13}
    <2>1. /\ x1 \in all /\ x2 \in all /\ x3 \in all /\ x4 \in all
          /\ x5 \in all /\ x6 \in all /\ x7 \in all /\ x8 \in all
          /\ x9 \in all /\ x10 \in all /\ x11 \in all /\ x12 \in all
          /\ x13 \in all
      OBVIOUS
    <2> HIDE DEF all
    <2> QED BY <2>1
  <1>2. PICK a : a = <<x1, x2, x3, x4, x5, x6>>
    OBVIOUS
  <1>3. PICK b : b = <<x7, x8, x9, x10, x11>>
    OBVIOUS
  <1>4. PICK c : c = <<x12, x13>>
    OBVIOUS
  <1>5. /\ a \in Seq(S) /\ Len(a) = 6
        /\ a[1] = x1 /\ a[2] = x2 /\ a[3] = x3 /\ a[4] = x4
        /\ a[5] = x5 /\ a[6] = x6
    BY <1>1, <1>2, Six
  <1>6. /\ b \in Seq(S) /\ Len(b) = 5
        /\ b[1] = x7 /\ b[2] = x8 /\ b[3] = x9 /\ b[4] = x10
        /\ b[5] = x11
    BY <1>1, <1>3, Five
  <1>7. c \in Seq(S) /\ Len(c) = 2 /\ c[1] = x12 /\ c[2] = x13
    BY <1>1, <1>4, Two
  <1>8. words = TokenizeDateString(a \o b \o c)
    BY <1>2, <1>3, <1>4
  <1>9. /\ \A k \in {2, 4, 6} : a[k].name \in Separators
        /\ \A k \in {1, 3, 5} : a[k].name \notin Separators
    BY <1>5
  <1>10. /\ \A k \in {2, 4} : b[k].name \in Separators
         /\ \A k \in {1, 3, 5} : b[k].name \notin Separators
    BY <1>6
  <1>11. c[1].name \in Separators /\ c[2].name \notin Separators
    BY <1>7
  <1>12. words \in Seq(S) /\ SevenOfParts(words, a, b, c)
    <2>1. a \in Seq(S) /\ b \in Seq(S) /\ c \in Seq(S) /\ Len(a) = 6 /\ Len(b) = 5 /\ Len(c) = 2
      BY <1>5, <1>6, <1>7
    <2> QED BY <1>8, <1>9, <1>10, <1>11, <2>1, SevenOfPartsStand
  <1> QED BY <1>5, <1>6, <1>7, <1>12 DEF SevenOfParts, SevenWordsAre

\* The word that a field of a date has in a format.
WordFor(d, f, field) ==
  CASE field = "wday" -> Name(IF f = 2 THEN LongDays[d.wday + 1] ELSE Days[d.wday + 1])
    [] field = "mon" -> Name(Months[d.mon + 1])
    [] field = "year" -> Number(IF f = 2 THEN (d.year + c_zero_year) % 100 ELSE d.year + c_zero_year)
    [] field = "mday" -> Number(d.mday)
    [] field = "hour" -> Number(d.hour)
    [] field = "min" -> Number(d.min)
    [] field = "sec" -> Number(d.sec)
    [] field = "none" -> Name("GMT")

WordCount(f) == IF f = 3 THEN 7 ELSE 8

\* A month is read for what it is, and its name is no spoiled word's.
LEMMA MonthNames ==
  /\ DOMAIN c_month_name_to_id = Range(Months)
  /\ \A n \in 1 .. 12 : Months[n] \in Range(Months) /\ c_month_name_to_id[Months[n]] = n - 1
  /\ \A name \in Range(Months) : c_month_name_to_id[name] \in 0 .. 11
  /\ \A n \in 1 .. 7 : Days[n] \notin Range(Months) /\ LongDays[n] \notin Range(Months)
  /\ "digits" \notin Range(Months) /\ "GMT" \notin Range(Months)
  <1>1. DOMAIN c_month_name_to_id = Range(Months)
    BY DEF c_month_name_to_id
  <1>2. DOMAIN Months = 1 .. 12
    BY DEF Months
  <1>3. \A n \in 1 .. 12 : Months[n] \in Range(Months)
    BY <1>2 DEF Range
  <1>4. \A n, m \in 1 .. 12 : Months[n] = Months[m] => n = m
    BY DEF Months
  <1>5. ASSUME NEW n \in 1 .. 12 PROVE c_month_name_to_id[Months[n]] = n - 1
    <2>1. PICK m : m = CHOOSE j \in 1 .. 12 : Months[j] = Months[n]
      OBVIOUS
    <2>2. m \in 1 .. 12 /\ Months[m] = Months[n]
      BY <2>1
    <2>3. m = n
      BY <1>4, <2>2
    <2> QED BY <1>3, <2>1, <2>3 DEF c_month_name_to_id
  <1>6. \A name \in Range(Months) : \E n \in 1 .. 12 : name = Months[n]
    BY <1>2 DEF Range
  <1>7. \A name \in Range(Months) : c_month_name_to_id[name] \in 0 .. 11
    BY <1>5, <1>6
  <1>8. \A n \in 1 .. 7, m \in 1 .. 12 : Days[n] # Months[m]
    BY DEF Days, Months
  <1>9. \A n \in 1 .. 7, m \in 1 .. 12 : LongDays[n] # Months[m]
    BY DEF LongDays, Months
  <1>10. \A m \in 1 .. 12 : "digits" # Months[m] /\ "GMT" # Months[m]
    BY DEF Months
  <1>11. "digits" \notin Range(Months) /\ "GMT" \notin Range(Months)
    BY <1>6, <1>10
  <1>12. \A n \in 1 .. 7 : Days[n] \notin Range(Months) /\ LongDays[n] \notin Range(Months)
    BY <1>6, <1>8, <1>9
  <1> QED BY <1>1, <1>3, <1>5, <1>7, <1>11, <1>12

\* A day is read for what it is, long or short.
LEMMA DayNames ==
  /\ \A n \in 1 .. 7 : /\ Days[n] \in DOMAIN c_wday_name_to_id /\ c_wday_name_to_id[Days[n]] = n - 1
                       /\ LongDays[n] \in DOMAIN c_wday_name_to_id /\ c_wday_name_to_id[LongDays[n]] = n - 1
  /\ \A name \in DOMAIN c_wday_name_to_id : c_wday_name_to_id[name] \in 0 .. 6
  <1>1. DOMAIN c_wday_name_to_id = Range(Days) \cup Range(LongDays)
    BY DEF c_wday_name_to_id
  <1>2. DOMAIN Days = 1 .. 7 /\ DOMAIN LongDays = 1 .. 7
    BY DEF Days, LongDays
  <1>3. \A n \in 1 .. 7 : Days[n] \in Range(Days) /\ LongDays[n] \in Range(LongDays)
    BY <1>2 DEF Range
  <1>4. /\ \A n, m \in 1 .. 7 : Days[n] = Days[m] => n = m
        /\ \A n, m \in 1 .. 7 : LongDays[n] = LongDays[m] => n = m
        /\ \A n, m \in 1 .. 7 : Days[n] # LongDays[m]
    <2>1. \A n, m \in 1 .. 7 : Days[n] = Days[m] => n = m
      BY DEF Days
    <2>2. \A n, m \in 1 .. 7 : LongDays[n] = LongDays[m] => n = m
      BY DEF LongDays
    <2>3. \A n, m \in 1 .. 7 : Days[n] # LongDays[m]
      BY DEF Days, LongDays
    <2> QED BY <2>1, <2>2, <2>3
  <1>5. ASSUME NEW n \in 1 .. 7, NEW name \in {Days[n], LongDays[n]}
        PROVE  name \in DOMAIN c_wday_name_to_id /\ c_wday_name_to_id[name] = n - 1
    <2>1. PICK m : m = CHOOSE j \in 1 .. 7 : name \in {Days[j], LongDays[j]}
      OBVIOUS
    <2>2. m \in 1 .. 7 /\ name \in {Days[m], LongDays[m]}
      BY <2>1
    <2>3. m = n
      BY <1>4, <2>2
    <2>4. name \in Range(Days) \cup Range(LongDays)
      BY <1>3
    <2> QED BY <1>1, <2>1, <2>3, <2>4 DEF c_wday_name_to_id
  <1>6. \A name \in DOMAIN c_wday_name_to_id : \E n \in 1 .. 7 : name \in {Days[n], LongDays[n]}
    BY <1>1, <1>2 DEF Range
  <1>7. \A name \in DOMAIN c_wday_name_to_id : c_wday_name_to_id[name] \in 0 .. 6
    BY <1>5, <1>6
  <1> QED BY <1>5, <1>7

\* No word of a date is a separator.
LEMMA NoSeparators ==
  /\ \A n \in 1 .. 7 : Days[n] \notin Separators /\ LongDays[n] \notin Separators
  /\ \A n \in 1 .. 12 : Months[n] \notin Separators
  /\ "digits" \notin Separators /\ "GMT" \notin Separators
  /\ "blank" \in Separators /\ "comma" \in Separators /\ "dash" \in Separators /\ "colon" \in Separators
  BY DEF Days, LongDays, Months, Separators

\* The ranges of a date's fields.
LEMMA DateTypes ==
  ASSUME NEW d \in Dates
  PROVE  /\ d.wday \in 0 .. 6 /\ d.mon \in 0 .. 11 /\ d.year \in Nat /\ d.mday \in 1 .. 31
         /\ d.hour \in 0 .. 23 /\ d.min \in 0 .. 59 /\ d.sec \in 0 .. 59
         /\ d.wday + 1 \in 1 .. 7 /\ d.mon + 1 \in 1 .. 12
  BY DatesAssumption DEF Tm

\* The words of a date are those of its fields.
LEMMA DateWords ==
  ASSUME NEW d \in Dates, NEW f \in 1 .. 3, NEW words, words = TokenizeDateString(Written(d, f))
  PROVE  /\ \E S : words \in Seq(S)
         /\ Len(words) = WordCount(f)
         /\ \A k \in 1 .. WordCount(f) : words[k] = WordFor(d, f, FieldOf(k, f))
  <1>1. \A x : Name(x).name = x /\ Number(x).name = "digits"
    BY DEF Name, Number
  <1>2. PICK comma : comma = Name("comma") /\ comma.name \in Separators
    BY <1>1, NoSeparators
  <1>3. PICK blank : blank = Name("blank") /\ blank.name \in Separators
    BY <1>1, NoSeparators
  <1>4. PICK dash : dash = Name("dash") /\ dash.name \in Separators
    BY <1>1, NoSeparators
  <1>5. PICK colon : colon = Name("colon") /\ colon.name \in Separators
    BY <1>1, NoSeparators
  <1>6. PICK wday : wday = WordFor(d, f, "wday") /\ wday.name \notin Separators
    BY <1>1, DateTypes, NoSeparators DEF WordFor
  <1>7. PICK mon : mon = WordFor(d, f, "mon") /\ mon.name \notin Separators
    BY <1>1, DateTypes, NoSeparators DEF WordFor
  <1>8. PICK year : year = WordFor(d, f, "year") /\ year.name \notin Separators
    BY <1>1, NoSeparators DEF WordFor
  <1>9. PICK mday : mday = WordFor(d, f, "mday") /\ mday.name \notin Separators
    BY <1>1, NoSeparators DEF WordFor
  <1>10. PICK hour : hour = WordFor(d, f, "hour") /\ hour.name \notin Separators
    BY <1>1, NoSeparators DEF WordFor
  <1>11. PICK min : min = WordFor(d, f, "min") /\ min.name \notin Separators
    BY <1>1, NoSeparators DEF WordFor
  <1>12. PICK sec : sec = WordFor(d, f, "sec") /\ sec.name \notin Separators
    BY <1>1, NoSeparators DEF WordFor
  <1>13. PICK zone : zone = WordFor(d, f, "none") /\ zone.name \notin Separators
    BY <1>1, NoSeparators DEF WordFor
  <1>14. CASE f = 3
    <2>1. Written(d, f) = <<wday, blank, mon, blank, mday, blank>> \o <<hour, colon, min, colon, sec>> \o <<blank, year>>
      BY <1>3, <1>5, <1>6, <1>7, <1>8, <1>9, <1>10, <1>11, <1>12, <1>14 DEF Written, Time, WordFor
    <2>2. /\ \E S : words \in Seq(S)
          /\ Len(words) = 7
          /\ words[1] = wday /\ words[2] = mon /\ words[3] = mday /\ words[4] = hour
          /\ words[5] = min /\ words[6] = sec /\ words[7] = year
      <3>1. words = TokenizeDateString(<<wday, blank, mon, blank, mday, blank>> \o <<hour, colon, min, colon, sec>> \o <<blank, year>>)
        BY <2>1
      <3>2. \A x \in {blank, blank, blank, colon, colon, blank} : x.name \in Separators
        BY <1>3, <1>5
      <3>3. \A x \in {wday, mon, mday, hour, min, sec, year} : x.name \notin Separators
        BY <1>6, <1>7, <1>8, <1>9, <1>10, <1>11, <1>12
      <3>4. SevenWordsAre(words, wday, mon, mday, hour, min, sec, year)
        BY <3>1, <3>2, <3>3, SevenWords
      <3> QED BY <3>4 DEF SevenWordsAre
    <2>3. ASSUME NEW k \in 1 .. 7 PROVE words[k] = WordFor(d, f, FieldOf(k, f))
      BY <1>6, <1>7, <1>8, <1>9, <1>10, <1>11, <1>12, <1>14, <2>2 DEF FieldOf
    <2> QED BY <1>14, <2>2, <2>3 DEF WordCount
  <1>15. CASE f \in {1, 2}
    <2>1. PICK between : between.name \in Separators /\
             Written(d, f) = <<wday, comma, blank, mday, between, mon, between, year, blank>>
                               \o <<hour, colon, min, colon, sec>> \o <<blank, zone>>
      <3>1. CASE f = 1
        <4>1. c_wday_id_to_short_name[d.wday] = Days[d.wday + 1] /\ c_month_id_to_name[d.mon] = Months[d.mon + 1]
          BY DateTypes DEF c_wday_id_to_short_name, c_month_id_to_name
        <4>2. Written(d, f) = <<wday, comma, blank, mday, blank, mon, blank, year, blank>>
                               \o <<hour, colon, min, colon, sec>> \o <<blank, zone>>
          BY <1>2, <1>3, <1>5, <1>6, <1>7, <1>8, <1>9, <1>10, <1>11, <1>12, <1>13, <3>1, <4>1
             DEF Written, TimeTToString, Time, WordFor
        <4> QED BY <1>3, <4>2
      <3>2. CASE f = 2
        <4>1. Written(d, f) = <<wday, comma, blank, mday, dash, mon, dash, year, blank>>
                               \o <<hour, colon, min, colon, sec>> \o <<blank, zone>>
          BY <1>2, <1>3, <1>4, <1>5, <1>6, <1>7, <1>8, <1>9, <1>10, <1>11, <1>12, <1>13, <3>2
             DEF Written, Time, WordFor
        <4> QED BY <1>4, <4>1
      <3> QED BY <1>15, <3>1, <3>2
    <2>2. /\ \E S : words \in Seq(S)
          /\ Len(words) = 8
          /\ words[1] = wday /\ words[2] = mday /\ words[3] = mon /\ words[4] = year
          /\ words[5] = hour /\ words[6] = min /\ words[7] = sec /\ words[8] = zone
      <3>1. words = TokenizeDateString(<<wday, comma, blank, mday, between, mon, between, year, blank>>
                                         \o <<hour, colon, min, colon, sec>> \o <<blank, zone>>)
        BY <2>1
      <3>2. \A x \in {comma, blank, between, between, blank, colon, colon, blank} : x.name \in Separators
        BY <1>2, <1>3, <1>5, <2>1
      <3>3. \A x \in {wday, mday, mon, year, hour, min, sec, zone} : x.name \notin Separators
        BY <1>6, <1>7, <1>8, <1>9, <1>10, <1>11, <1>12, <1>13
      <3>4. EightWordsAre(words, wday, mday, mon, year, hour, min, sec, zone)
        BY <3>1, <3>2, <3>3, EightWords
      <3> QED BY <3>4 DEF EightWordsAre
    <2>3. ASSUME NEW k \in 1 .. 8 PROVE words[k] = WordFor(d, f, FieldOf(k, f))
      BY <1>6, <1>7, <1>8, <1>9, <1>10, <1>11, <1>12, <1>13, <1>15, <2>2 DEF FieldOf
    <2> QED BY <1>15, <2>2, <2>3 DEF WordCount
  <1> QED BY <1>14, <1>15

-----------------------------------------------------------------------------
(* What is read.                                                           *)

FieldNames == {"wday", "mday", "mon", "year", "hour", "min", "sec"}

\* The field that the n-th token is taken for.
Read(n) == FieldOf(n, IF DetectTimeStandard(tokens) = 2 THEN 3 ELSE 1)

\* The tokens that a field accepts, and what it gets from one.
Accepts(field, token) ==
  CASE field = "wday" -> token.name \in DOMAIN c_wday_name_to_id
    [] field = "mon" -> token.name \in DOMAIN c_month_name_to_id \/ token.number # NoNumber
    [] field = "mday" -> token.number # NoNumber
    [] field = "year" -> token.number # NoNumber
    [] field = "hour" -> token.number \in 0 .. 23
    [] field = "min" -> token.number \in 0 .. 59
    [] field = "sec" -> token.number \in 0 .. 59

Meaning(field, token) ==
  CASE field = "wday" -> c_wday_name_to_id[token.name]
    [] field = "mon" -> IF token.name \in DOMAIN c_month_name_to_id THEN c_month_name_to_id[token.name] ELSE token.number
    [] field = "mday" -> token.number
    [] field = "year" -> CenturyAdded(token.number) - c_zero_year
    [] field = "hour" -> token.number
    [] field = "min" -> token.number
    [] field = "sec" -> token.number

\* The words of a date, with at most one change.
Change(words) ==
  \/ change = NoChange /\ tokens = words
  \/ \E k \in DOMAIN words, word \in Words :
       change = <<"replaced", k>> /\ tokens = ReplaceAt(words, k, word)
  \/ \E k \in DOMAIN words : change = <<"omitted", k>> /\ tokens = RemoveAt(words, k)
  \/ \E k \in DOMAIN words, word \in Words :
       change = <<"added", k>> /\ tokens = InsertAt(words, k, word)

DateMeant ==
  /\ date \in Dates /\ format \in 1 .. 3
  /\ Change(TokenizeDateString(Written(date, format)))

ReadSoFar ==
  /\ next \in 1 .. 8
  /\ t = [field \in FieldNames |-> t[field]]
  /\ \A n \in 1 .. 7 : n < next => Accepts(Read(n), tokens[n]) /\ t[Read(n)] = Meaning(Read(n), tokens[n])

ThrewForReason == outcome = "threw" => ~SizeOk \/ (next <= 7 /\ ~Accepts(Read(next), tokens[next]))

Outcomes ==
  /\ outcome \in {"started", "parsing", "threw", "returned", "printed", "unprintable"}
  /\ outcome \notin {"started", "threw"} => SizeOk
  /\ outcome \in {"returned", "printed", "unprintable"} => next = 8
  /\ outcome = "printed" => text = TimeTToString(t)
  /\ outcome = "unprintable" => ~(t.wday \in 0 .. 6 /\ t.mon \in 0 .. 11)

\* The inductive invariant of a date: the tokens are its words but for one change; the
\* fields before the next token have what their tokens mean; and what threw had a reason.
DateInv == DateMeant /\ ReadSoFar /\ ThrewForReason /\ Outcomes

\* The places of the fields.
LEMMA FieldsRead ==
  /\ \A n \in 1 .. 7 : Read(n) \in FieldNames
  /\ \A n, m \in 1 .. 7 : Read(n) = Read(m) => n = m
  /\ \A field \in FieldNames : \E n \in 1 .. 7 : Read(n) = field
  <1>1. PICK f \in {1, 3} : f = IF DetectTimeStandard(tokens) = 2 THEN 3 ELSE 1
    OBVIOUS
  <1>2. \A n \in 1 .. 7 : Read(n) = FieldOf(n, f)
    BY <1>1 DEF Read
  <1>3. \A n \in 1 .. 7 : FieldOf(n, f) \in FieldNames
    BY DEF FieldOf, FieldNames
  <1>4. \A n, m \in 1 .. 7 : FieldOf(n, f) = FieldOf(m, f) => n = m
    BY DEF FieldOf
  <1>5. ASSUME NEW field \in FieldNames PROVE \E n \in 1 .. 7 : FieldOf(n, f) = field
    <2>1. CASE f = 1
      BY <2>1 DEF FieldOf, FieldNames
    <2>2. CASE f = 3
      BY <2>2 DEF FieldOf, FieldNames
    <2> QED BY <2>1, <2>2
  <1> QED BY <1>2, <1>3, <1>4, <1>5

\* The handler of a chunk is its field's.
LEMMA Chunks ==
  ASSUME next <= 7, next \in 1 .. 8, NEW chunk, c_time_standards[DetectTimeStandard(tokens)][next] = chunk
  PROVE  /\ chunk = "DayOfWeek" => Read(next) = "wday"
         /\ chunk = "Day" => Read(next) = "mday"
         /\ chunk = "Month" => Read(next) = "mon"
         /\ chunk = "Year" => Read(next) = "year"
         /\ chunk = "Hour" => Read(next) = "hour"
         /\ chunk = "Minute" => Read(next) = "min"
         /\ chunk = "Second" => Read(next) = "sec"
  <1>1. PICK n \in 1 .. 7 : n = next
    OBVIOUS
  <1>2. CASE DetectTimeStandard(tokens) = 1
    <2>1. Read(n) = <<"wday", "mday", "mon", "year", "hour", "min", "sec", "none">>[n]
      BY <1>2 DEF Read, FieldOf
    <2>2. <<"DayOfWeek", "Day", "Month", "Year", "Hour", "Minute", "Second">>[n] = chunk
      BY <1>1, <1>2 DEF c_time_standards
    <2> QED BY <1>1, <2>1, <2>2
  <1>3. CASE DetectTimeStandard(tokens) = 2
    <2>1. Read(n) = <<"wday", "mon", "mday", "hour", "min", "sec", "year">>[n]
      BY <1>3 DEF Read, FieldOf
    <2>2. <<"DayOfWeek", "Month", "Day", "Hour", "Minute", "Second", "Year">>[n] = chunk
      BY <1>1, <1>3 DEF c_time_standards
    <2> QED BY <1>1, <2>1, <2>2
  <1> QED BY <1>2, <1>3 DEF DetectTimeStandard

\* Each step of the parse takes the next token for its field, or throws.
Takes ==
  /\ outcome = "parsing" /\ next <= 7
  /\ IF Accepts(Read(next), tokens[next])
     THEN t' = [t EXCEPT ![Read(next)] = Meaning(Read(next), tokens[next])] /\ next' = next + 1 /\ UNCHANGED outcome
     ELSE outcome' = "threw" /\ UNCHANGED <<t, next>>
  /\ UNCHANGED <<date, format, change, tokens, text>>

\* Every handler of the parser is such a step.
LEMMA EachTakes ==
  ASSUME DateInv
  PROVE  DayOfWeek \/ Day \/ Month \/ Year \/ Hour \/ Minute \/ Second => Takes
  <1>0. next \in 1 .. 8
    BY DEF DateInv, ReadSoFar
  <1>1. DayOfWeek => Takes
    <2> SUFFICES ASSUME DayOfWeek PROVE Takes
      OBVIOUS
    <2>1. Read(next) = "wday"
      BY <1>0, Chunks DEF DayOfWeek, At
    <2> QED BY <2>1 DEF DayOfWeek, At, Set, Takes, Accepts, Meaning
  <1>2. Day => Takes
    <2> SUFFICES ASSUME Day PROVE Takes
      OBVIOUS
    <2>1. Read(next) = "mday"
      BY <1>0, Chunks DEF Day, At
    <2> QED BY <2>1 DEF Day, At, Set, Takes, Accepts, Meaning, stoi
  <1>3. Month => Takes
    <2> SUFFICES ASSUME Month PROVE Takes
      OBVIOUS
    <2>1. Read(next) = "mon"
      BY <1>0, Chunks DEF Month, At
    <2> QED BY <2>1 DEF Month, At, Set, Takes, Accepts, Meaning, stoi
  <1>4. Year => Takes
    <2> SUFFICES ASSUME Year PROVE Takes
      OBVIOUS
    <2>1. Read(next) = "year"
      BY <1>0, Chunks DEF Year, At
    <2> QED BY <2>1 DEF Year, At, Set, Takes, Accepts, Meaning, stoi
  <1>5. Hour => Takes
    <2> SUFFICES ASSUME Hour PROVE Takes
      OBVIOUS
    <2>1. Read(next) = "hour"
      BY <1>0, Chunks DEF Hour, At
    <2> QED BY <2>1 DEF Hour, At, Set, Takes, Accepts, Meaning, stoi
  <1>6. Minute => Takes
    <2> SUFFICES ASSUME Minute PROVE Takes
      OBVIOUS
    <2>1. Read(next) = "min"
      BY <1>0, Chunks DEF Minute, At
    <2> QED BY <2>1 DEF Minute, At, Set, Takes, Accepts, Meaning, stoi
  <1>7. Second => Takes
    <2> SUFFICES ASSUME Second PROVE Takes
      OBVIOUS
    <2>1. Read(next) = "sec"
      BY <1>0, Chunks DEF Second, At
    <2> QED BY <2>1 DEF Second, At, Set, Takes, Accepts, Meaning, stoi
  <1> QED BY <1>1, <1>2, <1>3, <1>4, <1>5, <1>6, <1>7

\* The invariant holds of every string at the start.
LEMMA DateInitially == DateInit => DateInv
  <1> SUFFICES ASSUME DateInit PROVE DateInv
    OBVIOUS
  <1>1. DateMeant
    BY DEF DateInit, DateMeant, Change
  <1>2. ReadSoFar
    <2>1. t = EmptyTm /\ next = 1
      BY DEF DateInit
    <2>2. EmptyTm = [field \in FieldNames |-> EmptyTm[field]]
      BY DEF EmptyTm, FieldNames
    <2> QED BY <2>1, <2>2 DEF ReadSoFar
  <1> QED BY <1>1, <1>2 DEF DateInit, DateInv, ThrewForReason, Outcomes

\* The words and what they are of do not change.
LEMMA DateKept ==
  ASSUME DateInv, UNCHANGED <<date, format, change, tokens>>
  PROVE  DateMeant' /\ \A n : Read(n)' = Read(n)
  <1>1. DateMeant'
    BY DEF DateInv, DateMeant, Change
  <1> QED BY <1>1 DEF Read

\* A token that is taken, or refused, keeps the invariant.
LEMMA DateTakes ==
  ASSUME DateInv, Takes PROVE DateInv'
  <1>1. DateMeant' /\ \A n : Read(n)' = Read(n)
    BY DateKept DEF Takes
  <1>2. next \in 1 .. 7 /\ outcome = "parsing" /\ SizeOk /\ SizeOk'
    BY DEF DateInv, ReadSoFar, Outcomes, Takes, SizeOk
  <1>3. CASE Accepts(Read(next), tokens[next])
    <2>1. PICK f, value : f = Read(next) /\ value = Meaning(Read(next), tokens[next])
      OBVIOUS
    <2>2. t' = [t EXCEPT ![f] = value] /\ next' = next + 1 /\ outcome' = "parsing" /\ tokens' = tokens
      BY <1>2, <1>3, <2>1 DEF Takes
    <2>3. f \in FieldNames
      BY <1>2, <2>1, FieldsRead
    <2>4. t = [field \in FieldNames |-> t[field]]
      BY DEF DateInv, ReadSoFar
    <2>5. /\ t' = [field \in FieldNames |-> t'[field]]
          /\ t'[f] = value /\ \A field \in FieldNames : field # f => t'[field] = t[field]
      BY <2>2, <2>3, <2>4
    <2>6. ASSUME NEW n \in 1 .. 7, n < next'
          PROVE  Accepts(Read(n), tokens[n]) /\ t'[Read(n)] = Meaning(Read(n), tokens[n])
      <3>1. CASE n = next
        BY <1>3, <2>1, <2>5, <3>1
      <3>2. CASE n # next
        <4>1. n < next
          BY <1>2, <2>2, <2>6, <3>2
        <4>2. Accepts(Read(n), tokens[n]) /\ t[Read(n)] = Meaning(Read(n), tokens[n])
          BY <4>1 DEF DateInv, ReadSoFar
        <4>3. Read(n) \in FieldNames /\ Read(n) # f
          BY <1>2, <2>1, <3>2, FieldsRead
        <4> QED BY <2>5, <4>2, <4>3
      <3> QED BY <3>1, <3>2
    <2>7. ReadSoFar'
      <3>1. next' \in 1 .. 8
        BY <1>2, <2>2
      <3> QED BY <1>1, <2>2, <2>5, <2>6, <3>1 DEF ReadSoFar
    <2> QED BY <1>1, <1>2, <2>2, <2>7 DEF DateInv, ThrewForReason, Outcomes
  <1>4. CASE ~Accepts(Read(next), tokens[next])
    <2>1. t' = t /\ next' = next /\ outcome' = "threw" /\ tokens' = tokens
      BY <1>4 DEF Takes
    <2>2. ReadSoFar'
      BY <1>1, <2>1 DEF DateInv, ReadSoFar
    <2>3. ThrewForReason'
      BY <1>1, <1>2, <1>4, <2>1 DEF ThrewForReason
    <2> QED BY <1>1, <1>2, <2>1, <2>2, <2>3 DEF DateInv, Outcomes
  <1> QED BY <1>3, <1>4

\* Every step keeps it.
LEMMA DateAlways == DateSpec => []DateInv
  <1>1. DateInv /\ UNCHANGED dateVars => DateInv'
    <2> SUFFICES ASSUME DateInv, UNCHANGED dateVars PROVE DateInv'
      OBVIOUS
    <2>0. UNCHANGED <<date, format, change, tokens, next, t, outcome, text>>
      BY DEF dateVars
    <2>1. DateMeant' /\ \A n : Read(n)' = Read(n)
      BY <2>0, DateKept
    <2> QED BY <2>0, <2>1 DEF DateInv, ReadSoFar, ThrewForReason, Outcomes, SizeOk
  <1>2. DateInv /\ DateNext => DateInv'
    <2> SUFFICES ASSUME DateInv, DateNext PROVE DateInv'
      OBVIOUS
    <2>1. CASE Start
      <3>1. DateMeant' /\ \A n : Read(n)' = Read(n)
        BY <2>1, DateKept DEF Start
      <3>2. ReadSoFar'
        BY <2>1, <3>1 DEF Start, DateInv, ReadSoFar
      <3> QED BY <2>1, <3>1, <3>2 DEF Start, DateInv, ThrewForReason, Outcomes, SizeOk
    <2>2. CASE DayOfWeek \/ Day \/ Month \/ Year \/ Hour \/ Minute \/ Second
      BY <2>2, EachTakes, DateTakes
    <2>3. CASE ReturnDate
      <3>1. DateMeant' /\ \A n : Read(n)' = Read(n)
        BY <2>3, DateKept DEF ReturnDate
      <3>2. ReadSoFar'
        BY <2>3, <3>1 DEF ReturnDate, DateInv, ReadSoFar
      <3> QED BY <2>3, <3>1, <3>2 DEF ReturnDate, DateInv, ThrewForReason, Outcomes, SizeOk
    <2>4. CASE PrintDate
      <3>1. DateMeant' /\ \A n : Read(n)' = Read(n)
        BY <2>4, DateKept DEF PrintDate
      <3>2. ReadSoFar'
        BY <2>4, <3>1 DEF PrintDate, DateInv, ReadSoFar
      <3> QED BY <2>4, <3>1, <3>2 DEF PrintDate, DateInv, ThrewForReason, Outcomes, SizeOk
    <2>5. CASE DateOver
      BY <1>1, <2>5 DEF DateOver
    <2> QED BY <2>1, <2>2, <2>3, <2>4, <2>5 DEF DateNext
  <1> QED BY <1>1, <1>2, DateInitially, PTL DEF DateSpec

-----------------------------------------------------------------------------
(* What a change leaves where it was.                                      *)

\* One element replaced leaves the others.
LEMMA Replaced ==
  ASSUME NEW S, NEW s \in Seq(S), NEW k \in 1 .. Len(s), NEW e, NEW r, r = ReplaceAt(s, k, e)
  PROVE  Len(r) = Len(s) /\ DOMAIN r = 1 .. Len(s) /\ r[k] = e /\ \A n \in 1 .. Len(s) : n # k => r[n] = s[n]
  <1>1. Len(s) \in Nat /\ DOMAIN s = 1 .. Len(s)
    BY LenProperties
  <1>2. r = [n \in 1 .. Len(s) |-> IF n = k THEN e ELSE s[n]]
    BY <1>1 DEF ReplaceAt
  <1>3. r \in Seq(S \cup {e})
    BY <1>1, <1>2
  <1> QED BY <1>1, <1>2, <1>3

\* The two parts of a sequence.
LEMMA FirstPart ==
  ASSUME NEW S, NEW s \in Seq(S), NEW k \in 1 .. Len(s), NEW a, a = SubSeq(s, 1, k - 1)
  PROVE  a \in Seq(S) /\ Len(a) = k - 1 /\ \A n \in 1 .. k - 1 : a[n] = s[n]
  <1>1. Len(s) \in Nat /\ k \in Nat /\ k >= 1 /\ k <= Len(s)
    BY LenProperties
  <1>2. PICK m \in Int : m = k - 1
    BY <1>1
  <1>3. \A n \in 1 .. m : s[n] \in S
    BY <1>1, <1>2
  <1>4. a = SubSeq(s, 1, m) /\ m - 1 + 1 = m
    BY <1>2
  <1>5. a \in Seq(S)
    BY <1>3, <1>4, SubSeqProperties
  <1>6. Len(a) = IF 1 <= m THEN m - 1 + 1 ELSE 0
    BY <1>3, <1>4, SubSeqProperties
  <1>7. \A n \in 1 .. m - 1 + 1 : a[n] = s[1 + n - 1]
    BY <1>3, <1>4, SubSeqProperties
  <1>8. Len(a) = m
    BY <1>1, <1>2, <1>6
  <1>9. \A n \in 1 .. m : a[n] = s[n]
    <2>1. \A n \in 1 .. m : 1 + n - 1 = n
      OBVIOUS
    <2> QED BY <1>2, <1>7, <2>1
  <1> QED BY <1>2, <1>5, <1>8, <1>9

\* The second of the two.
LEMMA LastPart ==
  ASSUME NEW S, NEW s \in Seq(S), NEW j \in 1 .. Len(s) + 1, NEW b, b = SubSeq(s, j, Len(s))
  PROVE  b \in Seq(S) /\ Len(b) = Len(s) - j + 1 /\ \A n \in 1 .. Len(s) - j + 1 : b[n] = s[j + n - 1]
  <1>1. Len(s) \in Nat
    BY LenProperties
  <1>2. PICK l \in Nat : l = Len(s)
    BY <1>1
  <1>3. j \in Int /\ j <= l + 1 /\ \A n \in j .. l : s[n] \in S
    BY <1>2
  <1>4. b = SubSeq(s, j, l)
    BY <1>2
  <1>5. b \in Seq(S)
    BY <1>3, <1>4, SubSeqProperties
  <1>6. Len(b) = IF j <= l THEN l - j + 1 ELSE 0
    BY <1>3, <1>4, SubSeqProperties
  <1>7. \A n \in 1 .. l - j + 1 : b[n] = s[j + n - 1]
    BY <1>3, <1>4, SubSeqProperties
  <1>8. Len(b) = l - j + 1
    BY <1>3, <1>6
  <1> QED BY <1>2, <1>5, <1>7, <1>8

\* One element left out moves those after it down.
LEMMA LeftOut ==
  ASSUME NEW S, NEW s \in Seq(S), NEW k \in 1 .. Len(s), NEW r, r = RemoveAt(s, k)
  PROVE  Len(r) = Len(s) - 1 /\ \A n \in 1 .. Len(s) - 1 : r[n] = IF n < k THEN s[n] ELSE s[n + 1]
  <1>1. PICK l \in Nat : l = Len(s)
    BY LenProperties
  <1>2. k \in 1 .. l /\ k \in Nat
    BY <1>1
  <1>3. PICK a : a = SubSeq(s, 1, k - 1)
    OBVIOUS
  <1>4. PICK b : b = SubSeq(s, k + 1, Len(s))
    OBVIOUS
  <1>5. r = a \o b
    BY <1>3, <1>4 DEF RemoveAt
  <1>6. a \in Seq(S) /\ Len(a) = k - 1 /\ \A n \in 1 .. k - 1 : a[n] = s[n]
    BY <1>3, FirstPart
  <1>7. b \in Seq(S) /\ Len(b) = l - k /\ \A n \in 1 .. l - k : b[n] = s[k + n]
    <2>1. PICK j \in 1 .. Len(s) + 1 : j = k + 1
      BY <1>1, <1>2
    <2>2. b = SubSeq(s, j, Len(s))
      BY <1>4, <2>1
    <2>3. b \in Seq(S) /\ Len(b) = Len(s) - j + 1 /\ \A n \in 1 .. Len(s) - j + 1 : b[n] = s[j + n - 1]
      BY <2>2, LastPart
    <2>4. Len(s) - j + 1 = l - k
      BY <1>1, <1>2, <2>1
    <2>5. ASSUME NEW n \in 1 .. l - k PROVE b[n] = s[k + n]
      <3>1. j + n - 1 = k + n
        BY <1>2, <2>1
      <3>2. b[n] = s[j + n - 1]
        BY <2>3, <2>4
      <3> QED BY <3>1, <3>2
    <2> QED BY <2>3, <2>4, <2>5
  <1>8. /\ Len(r) = Len(a) + Len(b)
        /\ \A n \in 1 .. Len(a) + Len(b) : r[n] = IF n <= Len(a) THEN a[n] ELSE b[n - Len(a)]
    <2>1. a \in Seq(S) /\ b \in Seq(S)
      BY <1>6, <1>7
    <2> QED BY <1>5, <2>1, ConcatProperties
  <1>9. Len(a) + Len(b) = l - 1
    BY <1>1, <1>2, <1>6, <1>7
  <1>10. ASSUME NEW n \in 1 .. l - 1 PROVE r[n] = IF n < k THEN s[n] ELSE s[n + 1]
    <2>1. CASE n < k
      BY <1>2, <1>6, <1>8, <1>9, <2>1
    <2>2. CASE ~(n < k)
      <3>1. PICK m : m = n - (k - 1)
        OBVIOUS
      <3>2. m \in 1 .. l - k /\ k + m = n + 1 /\ ~(n <= k - 1)
        BY <1>2, <2>2, <3>1
      <3>3. r[n] = b[m]
        BY <1>6, <1>8, <1>9, <3>1, <3>2
      <3> QED BY <1>7, <2>2, <3>2, <3>3
    <2> QED BY <2>1, <2>2
  <1> QED BY <1>1, <1>8, <1>9, <1>10

\* One element added moves those from its place on up.
LEMMA Added ==
  ASSUME NEW S, NEW s \in Seq(S), NEW k \in 1 .. Len(s), NEW e, NEW r, r = InsertAt(s, k, e)
  PROVE  Len(r) = Len(s) + 1 /\ \A n \in 1 .. Len(s) : (n < k => r[n] = s[n]) /\ (n >= k => r[n + 1] = s[n])
  <1>1. PICK l \in Nat : l = Len(s)
    BY LenProperties
  <1>2. k \in 1 .. l /\ k \in Nat
    BY <1>1
  <1>3. PICK a : a = SubSeq(s, 1, k - 1)
    OBVIOUS
  <1>4. PICK b : b = SubSeq(s, k, Len(s))
    OBVIOUS
  <1>5. PICK T : T = S \cup {e}
    OBVIOUS
  <1>6. a \in Seq(T) /\ Len(a) = k - 1 /\ \A n \in 1 .. k - 1 : a[n] = s[n]
    <2>1. a \in Seq(S) /\ Len(a) = k - 1 /\ \A n \in 1 .. k - 1 : a[n] = s[n]
      BY <1>3, FirstPart
    <2> QED BY <1>5, <2>1
  <1>7. b \in Seq(T) /\ Len(b) = l - k + 1 /\ \A n \in 1 .. l - k + 1 : b[n] = s[k + n - 1]
    <2>1. k \in 1 .. Len(s) + 1
      BY <1>1, <1>2
    <2>2. b \in Seq(S) /\ Len(b) = Len(s) - k + 1 /\ \A n \in 1 .. Len(s) - k + 1 : b[n] = s[k + n - 1]
      BY <1>4, <2>1, LastPart
    <2> QED BY <1>1, <1>5, <2>2
  <1>8. PICK one : one = <<e>>
    OBVIOUS
  <1>9. one \in Seq(T) /\ Len(one) = 1
    BY <1>5, <1>8
  <1>10. r = a \o one \o b
    BY <1>3, <1>4, <1>8 DEF InsertAt
  <1>11. r \in Seq(T) /\ InThree(r, a, one, b)
    BY <1>6, <1>7, <1>9, <1>10, ThreeJoined
  <1>12. Len(r) = l + 1 /\ Stands(r, 0, a) /\ Stands(r, k, b)
    <2>1. Len(a) + Len(one) = k /\ Len(a) + Len(one) + Len(b) = l + 1
      BY <1>1, <1>2, <1>6, <1>7, <1>9
    <2> QED BY <1>11, <2>1 DEF InThree
  <1>13. ASSUME NEW n \in 1 .. l, n < k PROVE r[n] = s[n]
    <2>1. n \in 1 .. Len(a) /\ 0 + n = n
      BY <1>2, <1>6, <1>13
    <2>2. r[0 + n] = a[n]
      BY <1>12, <2>1 DEF Stands
    <2> QED BY <1>6, <2>1, <2>2
  <1>14. ASSUME NEW n \in 1 .. l, n >= k PROVE r[n + 1] = s[n]
    <2>1. PICK m : m = n - k + 1
      OBVIOUS
    <2>2. m \in 1 .. l - k + 1 /\ k + m = n + 1 /\ k + m - 1 = n
      BY <1>2, <1>14, <2>1
    <2>3. r[k + m] = b[m]
      BY <1>7, <1>12, <2>2 DEF Stands
    <2> QED BY <1>7, <2>2, <2>3
  <1> QED BY <1>1, <1>12, <1>13, <1>14

-----------------------------------------------------------------------------
(* What the words of a date are read as.                                   *)

\* What a format says of a date.
LEMMA SaidFields ==
  ASSUME date \in Dates
  PROVE  /\ Said = [field \in FieldNames |-> Said[field]]
         /\ Said["wday"] = date.wday /\ Said["mon"] = date.mon /\ Said["mday"] = date.mday
         /\ Said["hour"] = date.hour /\ Said["min"] = date.min /\ Said["sec"] = date.sec
         /\ Said["year"] = IF format = 2 THEN 100 + ((date.year + c_zero_year) % 100) ELSE date.year
  <1>1. date = [field \in FieldNames |-> date[field]]
    BY DatesAssumption DEF Tm, FieldNames
  <1>2. CASE format = 2
    <2>1. PICK year : year = 100 + ((date.year + c_zero_year) % 100)
      OBVIOUS
    <2>2. Said = [date EXCEPT !["year"] = year]
      BY <1>2, <2>1 DEF Said
    <2>3. \A field \in FieldNames : Said[field] = IF field = "year" THEN year ELSE date[field]
      BY <1>1, <2>2
    <2>4. Said = [field \in FieldNames |-> Said[field]]
      BY <1>1, <2>2
    <2> QED BY <1>2, <2>1, <2>3, <2>4 DEF FieldNames
  <1>3. CASE format # 2
    <2>1. Said = date
      BY <1>3 DEF Said
    <2> QED BY <1>1, <1>3, <2>1
  <1> QED BY <1>2, <1>3

\* Each word of a date is accepted and read as what the date has there.
LEMMA WordRead ==
  ASSUME date \in Dates, format \in 1 .. 3, NEW field \in FieldNames, NEW word, word = WordFor(date, format, field)
  PROVE  Accepts(field, word) /\ Meaning(field, word) = Said[field]
  <1>1. \A x : Name(x).name = x /\ Number(x).number = x
    BY DEF Name, Number
  <1>2. \A x \in Nat : x # NoNumber
    BY DEF NoNumber
  <1>3. CASE field = "wday"
    <2>1. PICK n \in 1 .. 7 : n = date.wday + 1
      BY DateTypes
    <2>2. word.name = IF format = 2 THEN LongDays[n] ELSE Days[n]
      BY <1>1, <1>3, <2>1 DEF WordFor
    <2>3. word.name \in DOMAIN c_wday_name_to_id /\ c_wday_name_to_id[word.name] = n - 1
      BY <2>2, DayNames
    <2>4. n - 1 = Said["wday"]
      BY <2>1, SaidFields, DateTypes
    <2> QED BY <1>3, <2>3, <2>4 DEF Accepts, Meaning
  <1>4. CASE field = "mon"
    <2>1. PICK n \in 1 .. 12 : n = date.mon + 1
      BY DateTypes
    <2>2. word.name = Months[n]
      BY <1>1, <1>4, <2>1 DEF WordFor
    <2>3. word.name \in DOMAIN c_month_name_to_id /\ c_month_name_to_id[word.name] = n - 1
      BY <2>2, MonthNames
    <2>4. n - 1 = Said["mon"]
      BY <2>1, SaidFields, DateTypes
    <2> QED BY <1>4, <2>3, <2>4 DEF Accepts, Meaning
  <1>5. CASE field = "year"
    <2>1. PICK y \in Nat : y = date.year
      BY DateTypes
    <2>2. word.number = IF format = 2 THEN (y + 1900) % 100 ELSE y + 1900
      BY <1>1, <1>5, <2>1 DEF WordFor, c_zero_year
    <2>3. Said["year"] = IF format = 2 THEN 100 + ((y + 1900) % 100) ELSE y
      BY <2>1, SaidFields DEF c_zero_year
    <2>4. (y + 1900) % 100 \in 0 .. 99
      OBVIOUS
    <2>5. word.number \in Nat /\ CenturyAdded(word.number) - 1900 = Said["year"]
      BY <2>2, <2>3, <2>4 DEF CenturyAdded
    <2> QED BY <1>2, <1>5, <2>5 DEF Accepts, Meaning, c_zero_year
  <1>6. CASE field = "mday"
    <2>1. word.number = date.mday /\ date.mday \in Nat /\ Said["mday"] = date.mday
      BY <1>1, <1>6, SaidFields, DateTypes DEF WordFor
    <2> QED BY <1>2, <1>6, <2>1 DEF Accepts, Meaning
  <1>7. CASE field = "hour"
    <2>1. word.number = date.hour /\ date.hour \in 0 .. 23 /\ Said["hour"] = date.hour
      BY <1>1, <1>7, SaidFields, DateTypes DEF WordFor
    <2> QED BY <1>7, <2>1 DEF Accepts, Meaning
  <1>8. CASE field = "min"
    <2>1. word.number = date.min /\ date.min \in 0 .. 59 /\ Said["min"] = date.min
      BY <1>1, <1>8, SaidFields, DateTypes DEF WordFor
    <2> QED BY <1>8, <2>1 DEF Accepts, Meaning
  <1>9. CASE field = "sec"
    <2>1. word.number = date.sec /\ date.sec \in 0 .. 59 /\ Said["sec"] = date.sec
      BY <1>1, <1>9, SaidFields, DateTypes DEF WordFor
    <2> QED BY <1>9, <2>1 DEF Accepts, Meaning
  <1> QED BY <1>3, <1>4, <1>5, <1>6, <1>7, <1>8, <1>9 DEF FieldNames

\* Only the month of a date has the name of a month; the zone has no number; and the
\* third format's year is no second.
LEMMA OtherWords ==
  ASSUME date \in Dates, format \in 1 .. 3
  PROVE  /\ WordFor(date, format, "mon").name \in Range(Months) /\ WordFor(date, format, "mon").number = NoNumber
         /\ \A field \in (FieldNames \cup {"none"}) \ {"mon"} : WordFor(date, format, field).name \notin Range(Months)
         /\ WordFor(date, format, "none").number = NoNumber
         /\ format = 3 => WordFor(date, format, "year").number \notin 0 .. 59
  <1>1. \A x : Name(x).name = x /\ Name(x).number = NoNumber /\ Number(x).name = "digits" /\ Number(x).number = x
    BY DEF Name, Number
  <1>2. date.wday + 1 \in 1 .. 7 /\ date.mon + 1 \in 1 .. 12 /\ date.year \in Nat
    BY DateTypes
  <1>3. WordFor(date, format, "mon").name \in Range(Months) /\ WordFor(date, format, "mon").number = NoNumber
    BY <1>1, <1>2, MonthNames DEF WordFor
  <1>4. WordFor(date, format, "wday").name \notin Range(Months)
    BY <1>1, <1>2, MonthNames DEF WordFor
  <1>5. \A field \in {"mday", "year", "hour", "min", "sec"} : WordFor(date, format, field).name = "digits"
    BY <1>1 DEF WordFor
  <1>6. WordFor(date, format, "none").name = "GMT" /\ WordFor(date, format, "none").number = NoNumber
    BY <1>1 DEF WordFor
  <1>7. \A field \in (FieldNames \cup {"none"}) \ {"mon"} : WordFor(date, format, field).name \notin Range(Months)
    BY <1>4, <1>5, <1>6, MonthNames DEF FieldNames
  <1>8. format = 3 => WordFor(date, format, "year").number \notin 0 .. 59
    BY <1>1, <1>2 DEF WordFor, c_zero_year
  <1> QED BY <1>3, <1>6, <1>7, <1>8

\* The words of the date that was meant.
Meant == TokenizeDateString(Written(date, format))

\* What is known of them.
LEMMA MeantWords ==
  ASSUME DateInv
  PROVE  /\ date \in Dates /\ format \in 1 .. 3 /\ Change(Meant) /\ \E S : Meant \in Seq(S)
         /\ Len(Meant) = (IF format = 3 THEN 7 ELSE 8)
         /\ \A k \in 1 .. Len(Meant) : Meant[k] = WordFor(date, format, FieldOf(k, format))
  <1>1. date \in Dates /\ format \in 1 .. 3 /\ Change(Meant)
    BY DEF DateInv, DateMeant, Meant
  <1>2. PICK words : words = Meant
    OBVIOUS
  <1>3. words = TokenizeDateString(Written(date, format))
    BY <1>2 DEF Meant
  <1>4. \E S : words \in Seq(S)
    BY <1>1, <1>3, DateWords
  <1>5. Len(words) = WordCount(format)
    BY <1>1, <1>3, DateWords
  <1>6. \A k \in 1 .. WordCount(format) : words[k] = WordFor(date, format, FieldOf(k, format))
    BY <1>1, <1>3, DateWords
  <1> QED BY <1>1, <1>2, <1>4, <1>5, <1>6 DEF WordCount

\* The places of the fields when the format is told for what it is.
Told == \A n \in 1 .. 7 : Read(n) = FieldOf(n, format)

\* The second token tells the format when it is a month's name in the third alone.
LEMMA ToldWhen ==
  ASSUME format \in 1 .. 3, tokens[2].name \in Range(Months) <=> format = 3
  PROVE  Told
  <1>1. DetectTimeStandard(tokens) = 2 <=> format = 3
    BY MonthNames DEF DetectTimeStandard
  <1>2. ASSUME NEW n \in 1 .. 7 PROVE Read(n) = FieldOf(n, format)
    BY <1>1 DEF Read, FieldOf
  <1> QED BY <1>2 DEF Told

\* The second word of the date itself tells it.
LEMMA ToldByDate ==
  ASSUME DateInv, tokens[2] = Meant[2]
  PROVE  Told
  <1>1. 2 \in 1 .. Len(Meant)
    BY MeantWords
  <1>2. tokens[2] = WordFor(date, format, FieldOf(2, format))
    BY <1>1, MeantWords
  <1>3. date \in Dates /\ format \in 1 .. 3
    BY MeantWords
  <1>4. CASE format = 3
    <2>1. FieldOf(2, format) = "mon"
      BY <1>4 DEF FieldOf
    <2>2. tokens[2].name \in Range(Months)
      BY <1>2, <1>3, <2>1, OtherWords
    <2> QED BY <1>3, <1>4, <2>2, ToldWhen
  <1>5. CASE format # 3
    <2>1. FieldOf(2, format) = "mday"
      BY <1>5 DEF FieldOf
    <2>2. tokens[2].name \notin Range(Months)
      BY <1>2, <1>3, <2>1, OtherWords DEF FieldNames
    <2> QED BY <1>3, <1>5, <2>2, ToldWhen
  <1> QED BY <1>4, <1>5

\* A word in its place is accepted, and read as what was said.
LEMMA InPlace ==
  ASSUME DateInv, Told, NEW n \in 1 .. 7, tokens[n] = Meant[n]
  PROVE  Accepts(Read(n), tokens[n]) /\ Meaning(Read(n), tokens[n]) = Said[Read(n)]
  <1>1. n \in 1 .. Len(Meant) /\ date \in Dates /\ format \in 1 .. 3
    BY MeantWords
  <1>2. tokens[n] = WordFor(date, format, FieldOf(n, format))
    BY <1>1, MeantWords
  <1>3. PICK field \in FieldNames : field = Read(n) /\ field = FieldOf(n, format)
    BY FieldsRead DEF Told
  <1>4. PICK word : word = tokens[n] /\ word = WordFor(date, format, field)
    BY <1>2, <1>3
  <1> QED BY <1>1, <1>3, <1>4, WordRead

\* What was returned was accepted, token by token, and means what its tokens do.
LEMMA Returned ==
  ASSUME DateInv, outcome \in {"returned", "printed", "unprintable"}, NEW n \in 1 .. 7
  PROVE  Accepts(Read(n), tokens[n]) /\ t[Read(n)] = Meaning(Read(n), tokens[n])
  <1>0. next = 8
    BY DEF DateInv, Outcomes
  <1>1. n < next
    BY <1>0
  <1> QED BY <1>1 DEF DateInv, ReadSoFar

\* With every other word in its place, one field at most is not what was said.
LEMMA SaidButOne ==
  ASSUME DateInv, Told, outcome \in {"returned", "printed", "unprintable"}, NEW spoiled,
         \A n \in 1 .. 7 : FieldOf(n, format) # spoiled => tokens[n] = Meant[n]
  PROVE  \A field \in FieldNames \ {spoiled} : t[field] = Said[field]
  <1> SUFFICES ASSUME NEW field \in FieldNames \ {spoiled} PROVE t[field] = Said[field]
    OBVIOUS
  <1>1. PICK n \in 1 .. 7 : Read(n) = field
    BY FieldsRead
  <1>2. tokens[n] = Meant[n]
    BY <1>1 DEF Told
  <1>3. Meaning(Read(n), tokens[n]) = Said[Read(n)]
    BY <1>2, InPlace
  <1> QED BY <1>1, <1>3, Returned

\* With every word in its place, what was said is read.
LEMMA SaidAll ==
  ASSUME DateInv, Told, outcome \in {"returned", "printed", "unprintable"}, \A n \in 1 .. 7 : tokens[n] = Meant[n]
  PROVE  t = Said
  <1>1. \A field \in FieldNames \ {"none"} : t[field] = Said[field]
    BY SaidButOne
  <1>2. \A field \in FieldNames : t[field] = Said[field]
    BY <1>1 DEF FieldNames
  <1>3. t = [field \in FieldNames |-> t[field]] /\ Said = [field \in FieldNames |-> Said[field]]
    BY SaidFields, MeantWords DEF DateInv, ReadSoFar
  <1> QED BY <1>2, <1>3

\* What cannot be printed has a number for its month, in the place of the first formats'.
LEMMA OutOfRange ==
  ASSUME DateInv, outcome = "unprintable"
  PROVE  tokens[2].name \notin Range(Months) /\ tokens[3].name \notin Range(Months)
  <1>1. \A n \in 1 .. 7 : Accepts(Read(n), tokens[n]) /\ t[Read(n)] = Meaning(Read(n), tokens[n])
    BY Returned
  <1>2. t.wday \in 0 .. 6
    <2>1. Read(1) = "wday"
      BY DEF Read, FieldOf
    <2>2. Accepts("wday", tokens[1]) /\ t["wday"] = Meaning("wday", tokens[1])
      <3>1. PICK n \in 1 .. 7 : n = 1
        OBVIOUS
      <3> QED BY <1>1, <2>1, <3>1
    <2> QED BY <2>2, DayNames DEF Accepts, Meaning
  <1>3. t["mon"] \notin 0 .. 11
    BY <1>2 DEF DateInv, Outcomes
  <1>4. \A token : token.name \in Range(Months) => Meaning("mon", token) \in 0 .. 11
    BY MonthNames DEF Meaning
  <1>5. tokens[2].name \notin Range(Months)
    <2> SUFFICES ASSUME tokens[2].name \in Range(Months) PROVE FALSE
      OBVIOUS
    <2>1. Read(2) = "mon"
      BY MonthNames DEF Read, FieldOf, DetectTimeStandard
    <2>2. t["mon"] = Meaning("mon", tokens[2])
      <3>1. PICK n \in 1 .. 7 : n = 2
        OBVIOUS
      <3> QED BY <1>1, <2>1, <3>1
    <2> QED BY <1>3, <1>4, <2>2
  <1>6. Read(3) = "mon"
    <2>1. DetectTimeStandard(tokens) = 1
      BY <1>5, MonthNames DEF DetectTimeStandard
    <2>2. Read(3) = FieldOf(3, 1)
      BY <2>1 DEF Read
    <2> QED BY <2>2 DEF FieldOf
  <1>7. t["mon"] = Meaning("mon", tokens[3])
    <2>1. PICK n \in 1 .. 7 : n = 3
      OBVIOUS
    <2> QED BY <1>1, <1>6, <2>1
  <1> QED BY <1>3, <1>4, <1>5, <1>7

\* For every date from 1900 on: what is written in any of the three formats is read for
\* what it is and printed in the first (dateTime.cpp:108-114, 144-293).
THEOREM ReadsWhatIsWrittenCorrect == DateSpec => []ReadsWhatIsWritten
  <1>1. DateInv => ReadsWhatIsWritten
    <2> SUFFICES ASSUME DateInv, change = NoChange, Finished
                 PROVE  outcome = "printed" /\ t = Said /\ text = TimeTToString(Said)
      BY DEF ReadsWhatIsWritten
    <2>1. tokens = Meant
      <3>1. \A k : change # <<"replaced", k>> /\ change # <<"omitted", k>> /\ change # <<"added", k>>
        BY DEF NoChange
      <3> QED BY <3>1, MeantWords DEF Change
    <2>2. Told
      BY <2>1, ToldByDate
    <2>3. SizeOk
      BY <2>1, MeantWords DEF SizeOk
    <2>4. outcome # "threw"
      <3>1. \A n \in 1 .. 7 : Accepts(Read(n), tokens[n])
        BY <2>1, <2>2, InPlace
      <3>2. next \in 1 .. 8
        BY DEF DateInv, ReadSoFar
      <3> QED BY <2>3, <3>1, <3>2 DEF DateInv, ThrewForReason
    <2>5. outcome \in {"printed", "unprintable"}
      BY <2>4 DEF Finished
    <2>6. t = Said
      BY <2>1, <2>2, <2>5, SaidAll
    <2>7. outcome # "unprintable"
      <3>1. t["wday"] \in 0 .. 6 /\ t["mon"] \in 0 .. 11
        BY <2>6, MeantWords, SaidFields, DateTypes
      <3> QED BY <3>1 DEF DateInv, Outcomes
    <2> QED BY <2>5, <2>6, <2>7 DEF DateInv, Outcomes
  <1> QED BY <1>1, DateAlways, PTL

-----------------------------------------------------------------------------
(* One change.                                                             *)

\* A replaced word: the others are in their places.
LEMMA ReplacedWord ==
  ASSUME DateInv, NEW k \in DOMAIN Meant, NEW word, tokens = ReplaceAt(Meant, k, word)
  PROVE  /\ k \in 1 .. Len(Meant) /\ Len(tokens) = Len(Meant) /\ DOMAIN tokens = 1 .. Len(Meant)
         /\ tokens[k] = word /\ \A n \in 1 .. Len(Meant) : n # k => tokens[n] = Meant[n]
  <1>1. PICK S : Meant \in Seq(S)
    BY MeantWords
  <1>2. k \in 1 .. Len(Meant)
    BY <1>1
  <1> QED BY <1>1, <1>2, Replaced

\* A word that is replaced in the place the format is told by is refused, or tells it.
LEMMA ReplacedTold ==
  ASSUME DateInv, NEW k \in DOMAIN Meant, NEW word, tokens = ReplaceAt(Meant, k, word),
         outcome \in {"returned", "printed", "unprintable"}
  PROVE  Told
  <1>1. /\ k \in 1 .. Len(Meant) /\ \A n \in 1 .. Len(Meant) : n # k => tokens[n] = Meant[n]
    BY ReplacedWord
  <1>2. \A n \in 1 .. 7 : n \in 1 .. Len(Meant)
    <2>1. PICK l \in {7, 8} : l = Len(Meant)
      BY MeantWords
    <2>2. \A n \in 1 .. 7 : n \in 1 .. l
      BY <2>1
    <2> QED BY <2>1, <2>2
  <1>3. date \in Dates /\ format \in 1 .. 3
    BY MeantWords
  <1>4. CASE k # 2
    BY <1>1, <1>2, <1>4, ToldByDate
  <1>5. CASE k = 2 /\ format = 3
    <2> SUFFICES ASSUME tokens[2].name \notin Range(Months) PROVE FALSE
      BY <1>5, ToldWhen
    <2>1. DetectTimeStandard(tokens) = 1
      BY MonthNames DEF DetectTimeStandard
    <2>2. PICK n \in 1 .. 7 : n = 7
      OBVIOUS
    <2>3. Read(n) = "sec" /\ FieldOf(n, format) = "year"
      BY <1>5, <2>1, <2>2 DEF Read, FieldOf
    <2>4. tokens[n] = WordFor(date, format, "year")
      BY <1>1, <1>2, <1>5, <2>2, <2>3, MeantWords
    <2>5. tokens[n].number \notin 0 .. 59
      BY <1>3, <1>5, <2>4, OtherWords
    <2>6. Accepts("sec", tokens[n])
      BY <2>3, Returned
    <2> QED BY <2>5, <2>6 DEF Accepts
  <1>6. CASE k = 2 /\ format # 3
    <2> SUFFICES ASSUME tokens[2].name \in Range(Months) PROVE FALSE
      BY <1>3, <1>6, ToldWhen
    <2>1. DetectTimeStandard(tokens) = 2
      BY MonthNames DEF DetectTimeStandard
    <2>2. PICK n \in 1 .. 7 : n = 3
      OBVIOUS
    <2>3. Read(n) = "mday"
      BY <2>1, <2>2 DEF Read, FieldOf
    <2>4. FieldOf(n, format) = "mon"
      BY <1>6, <2>2 DEF FieldOf
    <2>5. tokens[n] = WordFor(date, format, "mon")
      BY <1>1, <1>2, <1>6, <2>2, <2>4, MeantWords
    <2>6. tokens[n].number = NoNumber
      BY <1>3, <2>5, OtherWords
    <2>7. Accepts("mday", tokens[n])
      BY <2>3, Returned
    <2> QED BY <2>6, <2>7 DEF Accepts
  <1> QED BY <1>4, <1>5, <1>6

\* A word left out that is not noticed is the zone.
LEMMA LeftOutZone ==
  ASSUME DateInv, NEW k \in DOMAIN Meant, tokens = RemoveAt(Meant, k),
         outcome \in {"returned", "printed", "unprintable"}
  PROVE  FieldOf(k, format) = "none" /\ t = Said /\ Told
  <1>1. PICK S : Meant \in Seq(S)
    BY MeantWords
  <1>2. k \in 1 .. Len(Meant)
    BY <1>1
  <1>3. Len(tokens) = Len(Meant) - 1 /\ \A n \in 1 .. Len(Meant) - 1 : tokens[n] = IF n < k THEN Meant[n] ELSE Meant[n + 1]
    BY <1>1, <1>2, LeftOut
  <1>4. SizeOk
    BY DEF DateInv, Outcomes
  <1>5. Len(Meant) = 8 /\ format # 3 /\ date \in Dates /\ format \in 1 .. 3
    <2>1. Len(Meant) = (IF format = 3 THEN 7 ELSE 8) /\ date \in Dates /\ format \in 1 .. 3
      BY MeantWords
    <2>2. Len(Meant) - 1 \in {7, 8}
      BY <1>3, <1>4 DEF SizeOk
    <2> QED BY <2>1, <2>2
  <1>6. k = 8
    <2> SUFFICES ASSUME k # 8 PROVE FALSE
      OBVIOUS
    <2>1. PICK n \in 1 .. 7 : n = 7
      OBVIOUS
    <2>2. n + 1 = 8 /\ n \in 1 .. Len(Meant) - 1 /\ ~(n < k)
      BY <1>2, <1>5, <2>1
    <2>3. tokens[n] = Meant[8]
      BY <1>3, <2>2
    <2>4. Meant[8] = WordFor(date, format, FieldOf(8, format)) /\ FieldOf(8, format) = "none"
      BY <1>5, MeantWords DEF FieldOf
    <2>5. tokens[n].number = NoNumber
      BY <1>5, <2>3, <2>4, OtherWords
    <2>6. Accepts(Read(n), tokens[n])
      BY Returned
    <2>7. Read(n) \in {"sec", "year"}
      BY <2>1 DEF Read, FieldOf
    <2>8. NoNumber \notin 0 .. 59
      BY DEF NoNumber
    <2>9. CASE Read(n) = "sec"
      BY <2>5, <2>6, <2>8, <2>9 DEF Accepts
    <2>10. CASE Read(n) = "year"
      BY <2>5, <2>6, <2>10 DEF Accepts
    <2> QED BY <2>7, <2>9, <2>10
  <1>7. FieldOf(k, format) = "none"
    BY <1>5, <1>6 DEF FieldOf
  <1>8. \A n \in 1 .. 7 : tokens[n] = Meant[n]
    BY <1>3, <1>5, <1>6
  <1>9. Told
    BY <1>8, ToldByDate
  <1> QED BY <1>7, <1>8, <1>9, SaidAll

\* With a word too many, what is returned can be printed.
LEMMA AddedInRange ==
  ASSUME DateInv, NEW k \in DOMAIN Meant, NEW word, tokens = InsertAt(Meant, k, word)
  PROVE  outcome # "unprintable"
  <1> SUFFICES ASSUME outcome = "unprintable" PROVE FALSE
    OBVIOUS
  <1>1. PICK S : Meant \in Seq(S)
    BY MeantWords
  <1>2. k \in 1 .. Len(Meant)
    BY <1>1
  <1>3. /\ Len(tokens) = Len(Meant) + 1
        /\ \A n \in 1 .. Len(Meant) : (n < k => tokens[n] = Meant[n]) /\ (n >= k => tokens[n + 1] = Meant[n])
    BY <1>1, <1>2, Added
  <1>4. SizeOk
    BY DEF DateInv, Outcomes
  <1>5. Len(Meant) = 7 /\ format = 3 /\ date \in Dates
    <2>1. Len(Meant) = (IF format = 3 THEN 7 ELSE 8) /\ date \in Dates
      BY MeantWords
    <2>2. Len(Meant) + 1 \in {7, 8}
      BY <1>3, <1>4 DEF SizeOk
    <2> QED BY <2>1, <2>2
  <1>6. Meant[2].name \in Range(Months)
    <2>1. Meant[2] = WordFor(date, format, FieldOf(2, format)) /\ FieldOf(2, format) = "mon"
      BY <1>5, MeantWords DEF FieldOf
    <2> QED BY <1>5, <2>1, OtherWords
  <1>7. PICK n \in 1 .. Len(Meant) : n = 2 /\ n + 1 = 3
    BY <1>5
  <1>8. tokens[2] = Meant[2] \/ tokens[3] = Meant[2]
    BY <1>2, <1>3, <1>7
  <1> QED BY <1>6, <1>8, OutOfRange

\* What can not be printed has a number in the place of its month, and no month elsewhere.
LEMMA ReplacedMonth ==
  ASSUME DateInv, NEW k \in DOMAIN Meant, NEW word, tokens = ReplaceAt(Meant, k, word), outcome = "unprintable"
  PROVE  \A n \in DOMAIN tokens : tokens[n].name \notin Range(Months)
  <1>1. /\ k \in 1 .. Len(Meant) /\ DOMAIN tokens = 1 .. Len(Meant)
        /\ \A n \in 1 .. Len(Meant) : n # k => tokens[n] = Meant[n]
    BY ReplacedWord
  <1>2. date \in Dates /\ format \in 1 .. 3 /\ Told
    BY MeantWords, ReplacedTold
  <1>3. tokens[2].name \notin Range(Months) /\ tokens[3].name \notin Range(Months)
    BY OutOfRange
  <1>4. format # 3
    <2> SUFFICES ASSUME format = 3 PROVE FALSE
      OBVIOUS
    <2>1. DetectTimeStandard(tokens) = 1
      BY <1>3, MonthNames DEF DetectTimeStandard
    <2>2. PICK n \in 1 .. 7 : n = 2
      OBVIOUS
    <2>3. Read(n) = "mday" /\ FieldOf(n, format) = "mon"
      BY <2>1, <2>2 DEF Read, FieldOf
    <2> QED BY <1>2, <2>3 DEF Told
  <1>5. Len(Meant) = 8
    BY <1>4, MeantWords
  <1>6. ASSUME NEW n \in DOMAIN tokens PROVE tokens[n].name \notin Range(Months)
    <2>1. CASE n = 3
      BY <1>3, <2>1
    <2>2. CASE n # 3
      <3>1. k = 3
        <4> SUFFICES ASSUME k # 3 PROVE FALSE
          OBVIOUS
        <4>1. PICK m \in 1 .. Len(Meant) : m = 3
          BY <1>5
        <4>2. FieldOf(m, format) = "mon"
          BY <1>4, <4>1 DEF FieldOf
        <4>3. tokens[3] = WordFor(date, format, "mon")
          BY <1>1, <4>1, <4>2, MeantWords
        <4> QED BY <1>2, <1>3, <4>3, OtherWords
      <3>2. n \in 1 .. 8 /\ tokens[n] = WordFor(date, format, FieldOf(n, format))
        BY <1>1, <1>5, <2>2, <3>1, MeantWords
      <3>3. FieldOf(n, format) \in (FieldNames \cup {"none"}) \ {"mon"}
        BY <1>4, <2>2, <3>2 DEF FieldOf, FieldNames
      <3> QED BY <1>2, <3>2, <3>3, OtherWords
    <2> QED BY <2>1, <2>2
  <1> QED BY <1>6

\* For every date and every word: a wrong word is refused or spoils its own field alone, a
\* missing one is noticed unless it is the zone, and what is read can be printed unless its
\* month was a number (dateTime.cpp:117-131, 152-276).
THEOREM OneWordOneFieldCorrect == DateSpec => []OneWordOneField
  <1>1. DateInv => OneWordOneField
    <2> SUFFICES ASSUME DateInv, outcome \in {"returned", "printed", "unprintable"}
                 PROVE  /\ change[1] = "replaced" =>
                             \A field \in DOMAIN t \ {FieldOf(change[2], format)} : t[field] = Said[field]
                        /\ change[1] = "omitted" => FieldOf(change[2], format) = "none" /\ t = Said
                        /\ outcome = "unprintable" =>
                             change[1] # "none" /\ \A k \in DOMAIN tokens : tokens[k].name \notin Range(Months)
      BY DEF OneWordOneField
    <2>1. DOMAIN t = FieldNames
      BY DEF DateInv, ReadSoFar
    <2>2. CASE change = NoChange /\ tokens = Meant
      <3>1. change[1] = "none"
        BY <2>2 DEF NoChange
      <3>2. Told
        BY <2>2, ToldByDate
      <3>3. t = Said
        BY <2>2, <3>2, SaidAll
      <3>4. t["wday"] \in 0 .. 6 /\ t["mon"] \in 0 .. 11
        BY <3>3, MeantWords, SaidFields, DateTypes
      <3>5. outcome # "unprintable"
        BY <3>4 DEF DateInv, Outcomes
      <3> QED BY <3>1, <3>5
    <2>3. ASSUME NEW k \in DOMAIN Meant, NEW word, change = <<"replaced", k>>, tokens = ReplaceAt(Meant, k, word)
          PROVE  /\ \A field \in DOMAIN t \ {FieldOf(change[2], format)} : t[field] = Said[field]
                 /\ outcome = "unprintable" => \A n \in DOMAIN tokens : tokens[n].name \notin Range(Months)
      <3>1. Told
        BY <2>3, ReplacedTold
      <3>2. change[2] = k
        BY <2>3
      <3>3. ASSUME NEW n \in 1 .. 7, FieldOf(n, format) # FieldOf(k, format) PROVE tokens[n] = Meant[n]
        <4>1. PICK l \in {7, 8} : l = Len(Meant)
          BY MeantWords
        <4>2. n \in 1 .. l
          BY <4>1
        <4>3. n # k
          BY <3>3
        <4> QED BY <2>3, <4>1, <4>2, <4>3, ReplacedWord
      <3>4. \A field \in FieldNames \ {FieldOf(k, format)} : t[field] = Said[field]
        BY <3>1, <3>3, SaidButOne
      <3>5. outcome = "unprintable" => \A n \in DOMAIN tokens : tokens[n].name \notin Range(Months)
        BY <2>3, ReplacedMonth
      <3> QED BY <2>1, <3>2, <3>4, <3>5
    <2>4. ASSUME NEW k \in DOMAIN Meant, change = <<"omitted", k>>, tokens = RemoveAt(Meant, k)
          PROVE  FieldOf(change[2], format) = "none" /\ t = Said /\ outcome # "unprintable"
      <3>1. FieldOf(k, format) = "none" /\ t = Said
        BY <2>4, LeftOutZone
      <3>2. t["wday"] \in 0 .. 6 /\ t["mon"] \in 0 .. 11
        BY <3>1, MeantWords, SaidFields, DateTypes
      <3>3. outcome # "unprintable"
        BY <3>2 DEF DateInv, Outcomes
      <3>4. change[2] = k
        BY <2>4
      <3> QED BY <3>1, <3>3, <3>4
    <2>5. ASSUME NEW k \in DOMAIN Meant, NEW word, change = <<"added", k>>, tokens = InsertAt(Meant, k, word)
          PROVE  outcome # "unprintable"
      BY <2>5, AddedInRange
    <2>6. \A k : /\ <<"replaced", k>>[1] = "replaced" /\ <<"omitted", k>>[1] = "omitted" /\ <<"added", k>>[1] = "added"
      OBVIOUS
    <2>7. \/ change = NoChange /\ tokens = Meant
          \/ \E k \in DOMAIN Meant, word \in Words : change = <<"replaced", k>> /\ tokens = ReplaceAt(Meant, k, word)
          \/ \E k \in DOMAIN Meant : change = <<"omitted", k>> /\ tokens = RemoveAt(Meant, k)
          \/ \E k \in DOMAIN Meant, word \in Words : change = <<"added", k>> /\ tokens = InsertAt(Meant, k, word)
      BY MeantWords DEF Change
    <2> QED BY <2>2, <2>3, <2>4, <2>5, <2>6, <2>7
  <1> QED BY <1>1, DateAlways, PTL
=============================================================================
