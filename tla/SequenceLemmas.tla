-------------------------- MODULE SequenceLemmas ---------------------------
(***************************************************************************)
(* What push_back, pop_front and drain do to the set of connections in a   *)
(* VecDeque, and what FlattenSeq makes of a sequence that grows, for the   *)
(* proofs about pools, streams and texts.                                  *)
(***************************************************************************)
EXTENDS Integers, Sequences, FiniteSets, SequencesExt, FiniteSetTheorems, SequenceTheorems,
        WellFoundedInduction, TLAPS

(* push_back adds one element to what a queue without repetitions holds.   *)
LEMMA QueuePush ==
    ASSUME NEW S, NEW s \in Seq(S), NEW c \in S
    PROVE  /\ Append(s, c) \in Seq(S)
           /\ Len(Append(s, c)) = Len(s) + 1
           /\ Range(Append(s, c)) = Range(s) \cup {c}
           /\ IsInjective(s) /\ c \notin Range(s) => IsInjective(Append(s, c))
<1>1. /\ Append(s, c) \in Seq(S)
      /\ Len(Append(s, c)) = Len(s) + 1
      /\ DOMAIN s = 1 .. Len(s)
      /\ DOMAIN Append(s, c) = 1 .. (Len(s) + 1)
      /\ \A i \in 1 .. Len(s) : Append(s, c)[i] = s[i]
      /\ Append(s, c)[Len(s) + 1] = c
      /\ Len(s) \in Nat
  OBVIOUS
<1>2. Range(Append(s, c)) = Range(s) \cup {c}
  BY <1>1 DEF Range
<1>3. ASSUME IsInjective(s), c \notin Range(s)
      PROVE  IsInjective(Append(s, c))
  BY <1>1, <1>3 DEF IsInjective, Range
<1>. QED  BY <1>1, <1>2, <1>3

(* pop_front takes the first element out of what the queue holds.          *)
LEMMA QueuePop ==
    ASSUME NEW S, NEW s \in Seq(S), s # <<>>
    PROVE  /\ Head(s) \in Range(s)
           /\ Tail(s) \in Seq(S)
           /\ Len(Tail(s)) = Len(s) - 1
           /\ Range(Tail(s)) \subseteq Range(s)
           /\ Range(s) = Range(Tail(s)) \cup {Head(s)}
           /\ IsInjective(s) => /\ IsInjective(Tail(s))
                                /\ Head(s) \notin Range(Tail(s))
<1>1. /\ Tail(s) \in Seq(S)
      /\ Len(s) \in Nat \ {0}
      /\ Len(Tail(s)) = Len(s) - 1
      /\ DOMAIN s = 1 .. Len(s)
      /\ DOMAIN Tail(s) = 1 .. (Len(s) - 1)
      /\ \A i \in 1 .. (Len(s) - 1) : Tail(s)[i] = s[i + 1]
      /\ Head(s) = s[1]
  OBVIOUS
<1>2. Head(s) \in Range(s) /\ Range(Tail(s)) \subseteq Range(s)
  BY <1>1 DEF Range
<1>3. Range(s) \subseteq Range(Tail(s)) \cup {Head(s)}
  <2>1. SUFFICES ASSUME NEW i \in 1 .. Len(s)
                 PROVE  s[i] \in Range(Tail(s)) \cup {Head(s)}
    BY <1>1 DEF Range
  <2>2. CASE i = 1
    BY <2>2, <1>1
  <2>3. CASE i # 1
    <3>1. (i - 1) \in 1 .. (Len(s) - 1) /\ Tail(s)[i - 1] = s[i]
      BY <2>3, <1>1
    <3>. QED  BY <3>1, <1>1 DEF Range
  <2>. QED  BY <2>2, <2>3
<1>4. ASSUME IsInjective(s)
      PROVE  IsInjective(Tail(s)) /\ Head(s) \notin Range(Tail(s))
  <2>1. \A i, j \in 1 .. Len(s) : s[i] = s[j] => i = j
    BY <1>4, <1>1 DEF IsInjective
  <2>2. ASSUME NEW i \in 1 .. (Len(s) - 1), NEW j \in 1 .. (Len(s) - 1),
               Tail(s)[i] = Tail(s)[j]
        PROVE  i = j
    BY <2>1, <2>2, <1>1
  <2>3. ASSUME NEW i \in 1 .. (Len(s) - 1)
        PROVE  Tail(s)[i] # Head(s)
    BY <2>1, <2>3, <1>1
  <2>. QED  BY <2>2, <2>3, <1>1 DEF IsInjective, Range
<1>. QED  BY <1>1, <1>2, <1>3, <1>4

(* A queue holds no more connections than it is long.                      *)
LEMMA QueueCardinality ==
    ASSUME NEW S, NEW s \in Seq(S)
    PROVE  IsFiniteSet(Range(s)) /\ Cardinality(Range(s)) <= Len(s)
<1>1. Len(s) \in Nat /\ s \in [1 .. Len(s) -> S] /\ DOMAIN s = 1 .. Len(s)
  BY LenProperties
<1>2. s \in Surjection(1 .. Len(s), Range(s))
  BY <1>1 DEF Surjection, Range
<1>3. IsFiniteSet(1 .. Len(s)) /\ Cardinality(1 .. Len(s)) = Len(s)
  BY <1>1, FS_Interval
<1>. QED  BY <1>2, <1>3, FS_Surjection

(* The empty queue. *)
LEMMA QueueEmpty ==
    ASSUME NEW S
    PROVE  /\ <<>> \in Seq(S)
           /\ Len(<<>>) = 0
           /\ Range(<<>>) = {}
           /\ IsInjective(<<>>)
  BY DEF Range, IsInjective

(* The empty queue is the only one of length zero.                         *)
LEMMA QueueFront ==
    ASSUME NEW S, NEW s \in Seq(S)
    PROVE  /\ Len(s) \in Nat
           /\ s # <<>> => Len(s) > 0 /\ Range(s) # {}
           /\ Range(s) \subseteq S
<1>1. Len(s) \in Nat /\ s \in [1 .. Len(s) -> S] /\ DOMAIN s = 1 .. Len(s)
  BY LenProperties
<1>2. s # <<>> => Len(s) > 0
  BY <1>1, EmptySeq
<1>. QED  BY <1>1, <1>2 DEF Range

-----------------------------------------------------------------------------
(* Induction, from the least element of a set of numbers, and what it says *)
(* about FlattenSeq.                                                       *)

(* A set of numbers has a least element.                                   *)
LEMMA LeastNat ==
    ASSUME NEW T, T \subseteq Nat, T # {}
    PROVE  \E x \in T : \A y \in T : ~(y < x)
<1>. DEFINE R == {p \in Nat \X Nat : p[1] < p[2]}
<1>1. IsWellFoundedOn(R, Nat)
  BY NatLessThanWellFounded DEF OpToRel
<1>2. \A x, y \in Nat : y < x => <<y, x>> \in R
  OBVIOUS
<1>. HIDE DEF R
<1>3. \E x \in T : \A y \in T : ~(<<y, x>> \in R)
  BY <1>1, WFMin, Zenon
<1>. QED  BY <1>2, <1>3

(* What 0 has, and n + 1 if n has it, every number has.                    *)
LEMMA SetInduction ==
    ASSUME NEW S, NEW m \in Nat, 0 \in S, \A n \in 0 .. m - 1 : n \in S => n + 1 \in S
    PROVE  m \in S
<1>. DEFINE T == {n \in 0 .. m : n \notin S}
<1>1. SUFFICES ASSUME m \notin S PROVE FALSE
  OBVIOUS
<1>2. T \subseteq Nat /\ T # {}
  BY <1>1
<1>3. PICK x \in T : \A y \in T : ~(y < x)
  BY <1>2, LeastNat
<1>4. x # 0 /\ x - 1 \in 0 .. m - 1 /\ x - 1 \notin T
  BY <1>3
<1>. QED  BY <1>3, <1>4

(* The recursion of FlattenSeq, up to n. *)
Unrolls(g, n, ss) == g = [m \in 1 .. n |-> IF m = 1 THEN ss[m] ELSE g[m - 1] \o ss[m]]

(* One step of it.                                                         *)
LEMMA UnrollStep ==
    ASSUME NEW ss, NEW n \in Nat, NEW g, Unrolls(g, n, ss), NEW m \in Nat, m < n
    PROVE  g[m + 1] = IF m = 0 THEN ss[m + 1] ELSE g[m] \o ss[m + 1]
<1>. DEFINE e(j) == IF j = 1 THEN ss[j] ELSE g[j - 1] \o ss[j]
<1>1. g = [j \in 1 .. n |-> e(j)]
  BY Zenon DEF Unrolls
<1>2. m + 1 \in 1 .. n /\ (m + 1) - 1 = m /\ (m + 1 = 1 <=> m = 0)
  OBVIOUS
<1>. HIDE DEF e
<1>3. g[m + 1] = e(m + 1)
  BY <1>1, <1>2
<1>. QED  BY <1>2, <1>3 DEF e

(* There is a function it defines.                                         *)
LEMMA UnrollExists ==
    ASSUME NEW ss, NEW n \in Nat
    PROVE  \E g : Unrolls(g, n, ss)
<1>. DEFINE S == {m \in Nat : \E g : Unrolls(g, m, ss)}
<1>1. 0 \in S
  <2>1. Unrolls([m \in 1 .. 0 |-> <<>>], 0, ss)
    BY DEF Unrolls
  <2>. QED  BY <2>1
<1>2. ASSUME NEW m \in 0 .. n - 1, m \in S PROVE m + 1 \in S
  <2>1. PICK g : Unrolls(g, m, ss)
    BY <1>2
  <2>. DEFINE x == IF m = 0 THEN ss[1] ELSE g[m] \o ss[m + 1]
  <2>. DEFINE h == [j \in 1 .. m + 1 |-> IF j = m + 1 THEN x ELSE g[j]]
  <2>0. m \in Nat /\ m + 1 \in 1 .. m + 1 /\ \A j \in 1 .. m : j \in 1 .. m + 1 /\ j # m + 1
    OBVIOUS
  <2>. HIDE DEF x
  <2>2. m \in Nat /\ h[m + 1] = x /\ \A j \in 1 .. m : h[j] = g[j]
    BY <2>0
  <2>3. ASSUME NEW j \in 1 .. m + 1
        PROVE  h[j] = IF j = 1 THEN ss[j] ELSE h[j - 1] \o ss[j]
    <3>1. CASE j = m + 1
      <4>1. m # 0 => h[m] = g[m]
        BY <2>2
      <4>. HIDE DEF h
      <4>. QED  BY <2>2, <3>1, <4>1 DEF x
    <3>2. CASE j \in 1 .. m
      <4>1. h[j] = g[j] /\ (j # 1 => h[j - 1] = g[j - 1])
        BY <2>2, <3>2
      <4>2. g[j] = IF j = 1 THEN ss[j] ELSE g[j - 1] \o ss[j]
        BY <2>1, <3>2 DEF Unrolls
      <4>. HIDE DEF h
      <4>. QED  BY <4>1, <4>2
    <3>. QED  BY <2>2, <3>1, <3>2
  <2>4. h = [j \in 1 .. m + 1 |-> h[j]]
    OBVIOUS
  <2>. HIDE DEF h
  <2>5. h = [j \in 1 .. m + 1 |-> IF j = 1 THEN ss[j] ELSE h[j - 1] \o ss[j]]
    BY <2>3, <2>4
  <2>6. Unrolls(h, m + 1, ss)
    BY <2>5 DEF Unrolls
  <2>. QED  BY <2>2, <2>6
<1>. HIDE DEF S
<1>3. n \in S
  BY <1>1, <1>2, SetInduction
<1>. QED  BY <1>3 DEF S

(* Up to anywhere it is a sequence of what the sequences hold.             *)
LEMMA UnrollTyped ==
    ASSUME NEW S, NEW ss \in Seq(Seq(S)), NEW n \in 0 .. Len(ss), NEW g, Unrolls(g, n, ss)
    PROVE  \A m \in 1 .. n : g[m] \in Seq(S)
<1>. DEFINE T == {m \in Nat : m = 0 \/ m > n \/ g[m] \in Seq(S)}
<1>1. ASSUME NEW m \in 1 .. n PROVE m \in T
  <2>1. 0 \in T
    OBVIOUS
  <2>2. ASSUME NEW j \in 0 .. m - 1, j \in T PROVE j + 1 \in T
    <3>1. j + 1 \in 1 .. n /\ j + 1 \in 1 .. Len(ss) /\ j + 1 \in Nat /\ j \in Nat
      OBVIOUS
    <3>2. ss[j + 1] \in Seq(S)
      BY <3>1
    <3>3. g[j + 1] = IF j = 0 THEN ss[j + 1] ELSE g[j] \o ss[j + 1]
      <4>1. n \in Nat /\ j < n
        BY <3>1
      <4>. QED  BY <3>1, <4>1, UnrollStep
    <3>4. j # 0 => g[j] \in Seq(S)
      BY <2>2, <3>1
    <3>5. j # 0 => g[j] \o ss[j + 1] \in Seq(S)
      BY <3>2, <3>4, ConcatProperties
    <3>. QED  BY <3>1, <3>2, <3>3, <3>5
  <2>. HIDE DEF T
  <2>. QED  BY <2>1, <2>2, SetInduction
<1>. QED  BY <1>1

(* It depends on what it flattens only.                                    *)
Agree(f, g, n) == \A m \in 1 .. n : f[m] = g[m]

(* Where two sequences agree, so do they flattened.                        *)
LEMMA UnrollAgrees ==
    ASSUME NEW ss, NEW tt, NEW n \in Nat, NEW p \in Nat, n <= p, NEW g, NEW h,
           Unrolls(g, n, ss), Unrolls(h, p, tt), Agree(ss, tt, n)
    PROVE  Agree(g, h, n)
<1>. DEFINE T == {m \in Nat : m = 0 \/ m > n \/ g[m] = h[m]}
<1>1. ASSUME NEW m \in 1 .. n PROVE m \in T
  <2>1. 0 \in T
    OBVIOUS
  <2>2. ASSUME NEW j \in 0 .. m - 1, j \in T PROVE j + 1 \in T
    <3>1. j + 1 \in 1 .. n /\ j + 1 \in 1 .. p /\ j + 1 \in Nat /\ j \in Nat
      OBVIOUS
    <3>2. g[j + 1] = IF j = 0 THEN ss[j + 1] ELSE g[j] \o ss[j + 1]
      BY <3>1, UnrollStep
    <3>3. h[j + 1] = IF j = 0 THEN tt[j + 1] ELSE h[j] \o tt[j + 1]
      BY <3>1, UnrollStep
    <3>4. j # 0 => g[j] = h[j]
      BY <2>2, <3>1
    <3>5. ss[j + 1] = tt[j + 1]
      BY <3>1 DEF Agree
    <3>. QED  BY <3>1, <3>2, <3>3, <3>4, <3>5
  <2>. HIDE DEF T
  <2>. QED  BY <2>1, <2>2, SetInduction
<1>. QED  BY <1>1 DEF Agree

(* FlattenSeq of a sequence that is not empty is this recursion.           *)
LEMMA FlattenUnrolls ==
    ASSUME NEW ss, Len(ss) \in Nat \ {0}
    PROVE  \E g : Unrolls(g, Len(ss), ss) /\ FlattenSeq(ss) = g[Len(ss)]
<1>. DEFINE g == CHOOSE f : Unrolls(f, Len(ss), ss)
<1>1. FlattenSeq(ss) = g[Len(ss)]
  BY DEF FlattenSeq, Unrolls
<1>2. Unrolls(g, Len(ss), ss)
  BY UnrollExists
<1>. QED  BY <1>1, <1>2

(* One more sequence at the end is one more at the end of what is flat.    *)
LEMMA FlattenAppend ==
    ASSUME NEW S, NEW ss \in Seq(Seq(S)), NEW x \in Seq(S)
    PROVE  /\ FlattenSeq(ss) \in Seq(S)
           /\ FlattenSeq(Append(ss, x)) = FlattenSeq(ss) \o x
<1>. DEFINE tt == Append(ss, x)
<1>1. /\ Len(ss) \in Nat /\ Len(tt) = Len(ss) + 1 /\ tt[Len(ss) + 1] = x
      /\ \A m \in 1 .. Len(ss) : ss[m] = tt[m]
  OBVIOUS
<1>. HIDE DEF tt
<1>2. PICK h : Unrolls(h, Len(tt), tt) /\ FlattenSeq(tt) = h[Len(tt)]
  BY <1>1, FlattenUnrolls
<1>3. h[Len(tt)] = IF Len(ss) = 0 THEN x ELSE h[Len(ss)] \o x
  BY <1>1, <1>2, UnrollStep
<1>4. CASE ss = <<>>
  <2>1. FlattenSeq(ss) = <<>> /\ Len(ss) = 0
    BY <1>4 DEF FlattenSeq
  <2>. QED  BY <1>2, <1>3, <2>1 DEF tt
<1>5. CASE ss # <<>>
  <2>1. Len(ss) \in Nat \ {0}
    BY <1>5
  <2>2. PICK g : Unrolls(g, Len(ss), ss) /\ FlattenSeq(ss) = g[Len(ss)]
    BY <2>1, FlattenUnrolls
  <2>3. \A m \in 1 .. Len(ss) : g[m] = h[m] /\ g[m] \in Seq(S)
    <3>1. \A m \in 1 .. Len(ss) : g[m] = h[m]
      <4>1. Len(tt) \in Nat /\ Len(ss) <= Len(tt)
        BY <1>1
      <4>2. Unrolls(g, Len(ss), ss) /\ Unrolls(h, Len(tt), tt)
        BY <1>2, <2>2
      <4>3. Len(ss) \in Nat /\ Agree(ss, tt, Len(ss))
        BY <1>1 DEF Agree
      <4>4. Agree(g, h, Len(ss))
        BY <4>1, <4>2, <4>3, UnrollAgrees
      <4>. QED  BY <4>4 DEF Agree
    <3>2. \A m \in 1 .. Len(ss) : g[m] \in Seq(S)
      <4>1. Len(ss) \in 0 .. Len(ss)
        BY <1>1
      <4>. QED  BY <2>2, <4>1, UnrollTyped, Zenon
    <3>. QED  BY <3>1, <3>2
  <2>4. Len(ss) \in 1 .. Len(ss)
    BY <2>1
  <2>5. g[Len(ss)] = h[Len(ss)] /\ g[Len(ss)] \in Seq(S)
    BY <2>3, <2>4
  <2>6. FlattenSeq(tt) = FlattenSeq(ss) \o x
    BY <1>2, <1>3, <2>1, <2>2, <2>5
  <2>. QED  BY <2>2, <2>5, <2>6 DEF tt
<1>. QED  BY <1>4, <1>5

(* The first n + 1 of a sequence are its first n and one more.             *)
LEMMA OneMore ==
    ASSUME NEW T, NEW n \in Nat, NEW f, NEW g, f \in [1 .. n + 1 -> T],
           g \in [1 .. n -> T], \A m \in 1 .. n : g[m] = f[m]
    PROVE  g \in Seq(T) /\ f[n + 1] \in T /\ f = Append(g, f[n + 1])
<1>1. g \in Seq(T) /\ Len(g) = n /\ f \in Seq(T) /\ Len(f) = n + 1
  BY SeqDef
<1>2. n + 1 \in 1 .. n + 1
  OBVIOUS
<1>3. f[n + 1] \in T
  BY <1>2
<1>4. /\ Append(g, f[n + 1]) \in Seq(T) /\ Len(Append(g, f[n + 1])) = n + 1
      /\ \A m \in 1 .. n : Append(g, f[n + 1])[m] = g[m]
      /\ Append(g, f[n + 1])[n + 1] = f[n + 1]
  BY <1>1, <1>3, AppendProperties
<1>5. \A m \in 1 .. n + 1 : f[m] = Append(g, f[n + 1])[m]
  <2>1. \A m \in 1 .. n + 1 : m \in 1 .. n \/ m = n + 1
    OBVIOUS
  <2>. QED  BY <1>4, <2>1
<1>. QED  BY <1>1, <1>3, <1>4, <1>5, SeqEqual

(* Where the elements of a concatenation are.                             *)
LEMMA ConcatElements ==
    ASSUME NEW S, NEW s \in Seq(S), NEW t \in Seq(S)
    PROVE  /\ s \o t \in Seq(S) /\ Len(s \o t) = Len(s) + Len(t)
           /\ Len(s) \in Nat /\ Len(t) \in Nat
           /\ \A i \in 1 .. Len(s) : (s \o t)[i] = s[i]
           /\ \A i \in 1 .. Len(t) : (s \o t)[Len(s) + i] = t[i]
<1>1. Len(s) \in Nat /\ Len(t) \in Nat
  OBVIOUS
<1>2. /\ s \o t \in Seq(S) /\ Len(s \o t) = Len(s) + Len(t)
      /\ \A i \in 1 .. Len(s) + Len(t) :
            (s \o t)[i] = IF i <= Len(s) THEN s[i] ELSE t[i - Len(s)]
  BY ConcatProperties, Zenon
<1>3. \A i \in 1 .. Len(s) : (s \o t)[i] = s[i]
  <2>. TAKE i \in 1 .. Len(s)
  <2>1. i \in 1 .. Len(s) + Len(t) /\ i <= Len(s)
    BY <1>1
  <2>. QED  BY <1>2, <2>1
<1>4. \A i \in 1 .. Len(t) : (s \o t)[Len(s) + i] = t[i]
  <2>. TAKE i \in 1 .. Len(t)
  <2>1. Len(s) + i \in 1 .. Len(s) + Len(t) /\ ~(Len(s) + i <= Len(s)) /\ Len(s) + i - Len(s) = i
    BY <1>1
  <2>. QED  BY <1>2, <2>1
<1>. QED  BY <1>1, <1>2, <1>3, <1>4

(* One more element at the front.                                          *)
LEMMA Prepended ==
    ASSUME NEW S, NEW a \in S, NEW p \in Seq(S)
    PROVE  /\ <<a>> \o p \in Seq(S) /\ Len(<<a>> \o p) = 1 + Len(p) /\ Len(p) \in Nat
           /\ (<<a>> \o p)[1] = a
           /\ \A n \in 1 .. Len(p) : (<<a>> \o p)[1 + n] = p[n]
<1>. DEFINE q == <<a>>
<1>1. q \in Seq(S) /\ Len(q) = 1 /\ q[1] = a
  OBVIOUS
<1>. HIDE DEF q
<1>2. /\ q \o p \in Seq(S) /\ Len(q \o p) = Len(q) + Len(p) /\ Len(p) \in Nat
      /\ \A i \in 1 .. Len(q) : (q \o p)[i] = q[i]
      /\ \A i \in 1 .. Len(p) : (q \o p)[Len(q) + i] = p[i]
  <2>1. q \in Seq(S) /\ p \in Seq(S)
    BY <1>1
  <2>. QED  BY <2>1, ConcatElements
<1>3. 1 \in 1 .. Len(q)
  BY <1>1
<1>. QED  BY <1>1, <1>2, <1>3 DEF q
=============================================================================
