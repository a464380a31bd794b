----------------------------- MODULE FoldLemmas -----------------------------
(***************************************************************************)
(* Induction over the naturals, and what it gives for functions defined by *)
(* recursion, FoldLeft and FlattenSeq.  The induction is stated with a set *)
(* instead of a predicate, and the fold with a function instead of an      *)
(* operator, so that the lemmas can be applied to plain values.            *)
(***************************************************************************)
EXTENDS SequencesExt, Integers, WellFoundedInduction, SequenceTheorems, TLAPS

\* A set that contains 0 and with every number its successor contains all.
LEMMA InductionOverNat ==
  ASSUME NEW S, 0 \in S, \A n \in Nat : n \in S => n + 1 \in S
  PROVE  Nat \subseteq S
<1> DEFINE Missing == Nat \ S
           Less == {pair \in Nat \X Nat : pair[1] < pair[2]}
<1> SUFFICES ASSUME Missing # {} PROVE FALSE
  OBVIOUS
<1>1. IsWellFoundedOn(Less, Nat)
  BY NatLessThanWellFounded DEF OpToRel
<1>2. PICK x \in Missing : \A y \in Missing : <<y, x>> \notin Less
  BY <1>1, WFMin
<1>3. x # 0 /\ x - 1 \in Nat
  OBVIOUS
<1>4. <<x - 1, x>> \in Nat \X Nat /\ <<x - 1, x>>[1] < <<x - 1, x>>[2]
  BY <1>3
<1>5. x - 1 \notin Missing
  BY <1>2, <1>4
<1> QED
  BY <1>3, <1>5

\* The largest element of a set of numbers up to n that contains n.
LEMMA MaxOfInterval ==
  ASSUME NEW n \in Nat, NEW s, s \subseteq 1..n, n \in s
  PROVE  Max(s) = n
<1>1. \A x \in s : (\A y \in s : x >= y) <=> x = n
  OBVIOUS
<1> QED
  BY <1>1 DEF Max

\* A non-empty set of numbers up to n has a largest element.
LEMMA MaxIsElement ==
  ASSUME NEW n \in Nat, NEW s \in SUBSET (1..n), s # {}
  PROVE  Max(s) \in s
<1> DEFINE HasMax(m) == \A u \in SUBSET (1..m) : u # {} => \E x \in u : \A y \in u : x >= y
           S == {m \in Nat : HasMax(m)}
<1>1. 0 \in S
  <2>1. SUBSET (1..0) = {{}}
    OBVIOUS
  <2> QED
    BY <2>1
<1>2. ASSUME NEW m \in Nat, m \in S PROVE m + 1 \in S
  <2> SUFFICES ASSUME NEW u \in SUBSET (1..(m + 1)), u # {}
               PROVE  \E x \in u : \A y \in u : x >= y
    OBVIOUS
  <2>1. CASE m + 1 \in u
    BY <2>1
  <2>2. CASE m + 1 \notin u
    <3>1. u \in SUBSET (1..m)
      BY <2>2
    <3> QED
      BY <3>1, <1>2
  <2> QED
    BY <2>1, <2>2
<1>3. n \in S
  <2> HIDE DEF S
  <2> QED
    BY <1>1, <1>2, InductionOverNat
<1> QED
  BY <1>3 DEF Max

\* g folds F, from b on, over every set of numbers up to n, the largest last.
Folds(g, n, T, b, F) ==
  /\ g \in [SUBSET (1..n) -> T]
  /\ \A s \in SUBSET (1..n) :
       g[s] = IF s = {} THEN b ELSE F[<<g[s \ {Max(s)}], Max(s)>>]

\* Such a fold exists: the recursion in MapThenFoldSet defines a function.
LEMMA FoldExists ==
  ASSUME NEW T, NEW b \in T, NEW F \in [T \X (Nat \ {0}) -> T]
  PROVE  \A n \in Nat : \E g : Folds(g, n, T, b, F)
<1> DEFINE S == {n \in Nat : \E g : Folds(g, n, T, b, F)}
<1>1. 0 \in S
  <2> DEFINE g == [s \in SUBSET (1..0) |-> b]
  <2>1. SUBSET (1..0) = {{}}
    OBVIOUS
  <2>2. Folds(g, 0, T, b, F)
    BY <2>1 DEF Folds
  <2> QED
    BY <2>2
<1>2. ASSUME NEW n \in Nat, n \in S PROVE n + 1 \in S
  <2>1. PICK g : Folds(g, n, T, b, F)
    BY <1>2
  <2> DEFINE h == [s \in SUBSET (1..n+1) |->
                     IF n + 1 \in s THEN F[<<g[s \ {n + 1}], n + 1>>] ELSE g[s]]
  <2>2. \A s \in SUBSET (1..n+1) :
          s \ {n + 1} \in SUBSET (1..n) /\ (n + 1 \notin s => s \in SUBSET (1..n))
    OBVIOUS
  <2>3. h \in [SUBSET (1..n+1) -> T]
    <3> SUFFICES ASSUME NEW s \in SUBSET (1..n+1) PROVE h[s] \in T
      OBVIOUS
    <3>1. <<g[s \ {n + 1}], n + 1>> \in T \X (Nat \ {0})
      BY <2>1, <2>2 DEF Folds
    <3> QED
      BY <2>1, <2>2, <3>1 DEF Folds
  <2>4. ASSUME NEW s \in SUBSET (1..n+1)
        PROVE  h[s] = IF s = {} THEN b ELSE F[<<h[s \ {Max(s)}], Max(s)>>]
    <3>1. CASE n + 1 \in s
      <4>1. n + 1 \in Nat /\ s \subseteq 1..n+1
        BY <2>4
      <4>2. Max(s) = n + 1
        BY <4>1, <3>1, MaxOfInterval
      <4>3. h[s \ {n + 1}] = g[s \ {n + 1}]
        BY <2>2
      <4> QED
        BY <3>1, <4>2, <4>3
    <3>2. CASE n + 1 \notin s
      <4>1. s \in SUBSET (1..n) /\ s \ {Max(s)} \in SUBSET (1..n+1) /\ n + 1 \notin s \ {Max(s)}
        BY <2>2, <3>2
      <4>2. h[s] = g[s] /\ h[s \ {Max(s)}] = g[s \ {Max(s)}]
        BY <3>2, <4>1
      <4> QED
        BY <4>1, <4>2, <2>1 DEF Folds
    <3> QED
      BY <3>1, <3>2
  <2>5. Folds(h, n + 1, T, b, F)
    BY <2>3, <2>4 DEF Folds
  <2> QED
    BY <2>5
<1>3. Nat \subseteq S
  <2> HIDE DEF S
  <2> QED
    BY <1>1, <1>2, InductionOverNat
<1> QED
  BY <1>3

\* The same up to a bound.
LEMMA InductionUpTo ==
  ASSUME NEW n \in Nat, NEW S, 0 \in S, \A i \in 1..n : i - 1 \in S => i \in S
  PROVE  \A i \in 0..n : i \in S
<1> DEFINE R == {i \in Nat : i <= n => i \in S}
<1>1. 0 \in R
  OBVIOUS
<1>2. ASSUME NEW i \in Nat, i \in R PROVE i + 1 \in R
  BY <1>2
<1>3. Nat \subseteq R
  <2> HIDE DEF R
  <2> QED
    BY <1>1, <1>2, InductionOverNat
<1> QED
  BY <1>3

\* The last step of a fold over an interval.
LEMMA IntervalTop ==
  ASSUME NEW n \in Nat, NEW i \in 1..n
  PROVE  /\ 1..i \in SUBSET (1..n) /\ 1..i # {}
         /\ Max(1..i) = i /\ (1..i) \ {i} = 1..(i - 1)
<1>1. i \in Nat /\ i \in 1..i
  OBVIOUS
<1>2. Max(1..i) = i
  BY <1>1, MaxOfInterval
<1> QED
  BY <1>2

\* g is b at 0, and from there on what F makes of the value before.
Recursion(g, n, T, b, F) ==
  g \in [0..n -> T] /\ g[0] = b /\ \A i \in 1..n : g[i] = F[<<g[i - 1], i>>]

\* A recursion over the naturals up to a bound defines a function.
LEMMA RecursionExists ==
  ASSUME NEW T, NEW b \in T, NEW F \in [T \X (Nat \ {0}) -> T], NEW n \in Nat
  PROVE  \E g : Recursion(g, n, T, b, F)
<1>1. PICK h : Folds(h, n, T, b, F)
  BY FoldExists
<1> DEFINE g == [i \in 0..n |-> h[1..i]]
<1>2. /\ h \in [SUBSET (1..n) -> T]
      /\ \A s \in SUBSET (1..n) : h[s] = IF s = {} THEN b ELSE F[<<h[s \ {Max(s)}], Max(s)>>]
  BY <1>1 DEF Folds
<1>3. g \in [0..n -> T]
  <2>1. \A i \in 0..n : 1..i \in SUBSET (1..n)
    OBVIOUS
  <2> QED
    BY <2>1, <1>2
<1>4. g[0] = b
  <2>1. 1..0 = {} /\ {} \in SUBSET (1..n) /\ 0 \in 0..n
    OBVIOUS
  <2> QED
    BY <2>1, <1>2
<1>5. ASSUME NEW i \in 1..n PROVE g[i] = F[<<g[i - 1], i>>]
  <2>1. /\ 1..i \in SUBSET (1..n) /\ 1..i # {} /\ Max(1..i) = i /\ (1..i) \ {i} = 1..(i - 1)
        /\ i \in 0..n /\ i - 1 \in 0..n
    BY IntervalTop
  <2> QED
    BY <2>1, <1>2
<1> QED
  BY <1>3, <1>4, <1>5 DEF Recursion

-----------------------------------------------------------------------------
(* Flattening a sequence of sequences over E. *)

\* f is the function that FlattenSeq defines for seqs.
Flattens(f, seqs) ==
  f = [i \in 1..Len(seqs) |-> IF i = 1 THEN seqs[i] ELSE f[i-1] \o seqs[i]]

\* There is such a function, and it yields sequences.
LEMMA FlattenFunction ==
  ASSUME NEW E, NEW seqs \in Seq(Seq(E))
  PROVE  \E f : Flattens(f, seqs) /\ f \in [1..Len(seqs) -> Seq(E)]
<1> DEFINE T == Seq(E)
           n == Len(seqs)
           F == [pair \in T \X (Nat \ {0}) |->
                   IF pair[2] \in 1..n THEN pair[1] \o seqs[pair[2]] ELSE pair[1]]
<1>1. n \in Nat /\ \A i \in 1..n : seqs[i] \in T
  BY ElementOfSeq
<1>2. F \in [T \X (Nat \ {0}) -> T]
  <2> SUFFICES ASSUME NEW pair \in T \X (Nat \ {0}) PROVE F[pair] \in T
    OBVIOUS
  <2> QED
    BY <1>1, ConcatProperties
<1>3. <<>> \in T
  BY EmptySeq
<1>4. PICK g : Recursion(g, n, T, <<>>, F)
  <2> HIDE DEF F, T, n
  <2> QED
    BY <1>1, <1>2, <1>3, RecursionExists
<1>5. g \in [0..n -> T] /\ g[0] = <<>> /\ \A i \in 1..n : g[i] = F[<<g[i - 1], i>>]
  BY <1>4 DEF Recursion
<1>8. \A i \in 1..n : g[i-1] \in T /\ g[i] = g[i-1] \o seqs[i]
  <2> HIDE DEF T, n
  <2> SUFFICES ASSUME NEW i \in 1..n PROVE g[i-1] \in T /\ g[i] = g[i-1] \o seqs[i]
    OBVIOUS
  <2>1. i - 1 \in 0..n /\ i \in Nat \ {0}
    BY <1>1
  <2>2. <<g[i - 1], i>> \in T \X (Nat \ {0}) /\ g[i-1] \in T
    BY <1>5, <2>1
  <2> QED
    BY <2>2, <1>5
<1> DEFINE f == [i \in 1..n |-> g[i]]
<1>6. f \in [1..n -> T]
  BY <1>1, <1>5
<1>7. ASSUME NEW i \in 1..n
      PROVE  f[i] = IF i = 1 THEN seqs[i] ELSE f[i-1] \o seqs[i]
  <2>1. f[i] = g[i-1] \o seqs[i]
    BY <1>8
  <2>2. CASE i = 1
    <3>1. g[i-1] = <<>> /\ seqs[i] \in T
      BY <1>1, <1>5, <2>2
    <3> QED
      BY <2>1, <2>2, <3>1, ConcatEmptySeq
  <2>3. CASE i # 1
    <3>1. i - 1 \in 1..n
      BY <1>1, <2>3
    <3> QED
      BY <2>1, <2>3, <3>1
  <2> QED
    BY <2>2, <2>3
<1>9. Flattens(f, seqs)
  <2> HIDE DEF f
  <2> QED
    BY <1>6, <1>7 DEF Flattens
<1> QED
  BY <1>6, <1>9

\* FlattenSeq is its last value.
LEMMA FlattenValue ==
  ASSUME NEW E, NEW seqs \in Seq(Seq(E)), seqs # <<>>
  PROVE  \E f : /\ Flattens(f, seqs) /\ f \in [1..Len(seqs) -> Seq(E)]
                /\ FlattenSeq(seqs) = f[Len(seqs)]
<1> DEFINE f == CHOOSE f : Flattens(f, seqs)
<1>1. Flattens(f, seqs)
  BY FlattenFunction
<1>2. FlattenSeq(seqs) = f[Len(seqs)]
  BY EmptySeq DEF FlattenSeq, Flattens
<1>3. Len(seqs) \in Nat /\ \A i \in 1..Len(seqs) : seqs[i] \in Seq(E)
  BY ElementOfSeq
<1>4. f = [i \in 1..Len(seqs) |-> IF i = 1 THEN seqs[i] ELSE f[i-1] \o seqs[i]]
  BY <1>1 DEF Flattens
<1> HIDE DEF f
<1>5. \A i \in 0..Len(seqs) : i \in {j \in Nat : j \in 1..Len(seqs) => f[j] \in Seq(E)}
  <2> DEFINE S == {j \in Nat : j \in 1..Len(seqs) => f[j] \in Seq(E)}
  <2>1. 0 \in S
    OBVIOUS
  <2>2. ASSUME NEW i \in 1..Len(seqs), i - 1 \in S PROVE i \in S
    <3>1. CASE i = 1
      BY <3>1, <1>3, <1>4
    <3>2. CASE i # 1
      <4>1. i \in Nat /\ i - 1 \in 1..Len(seqs)
        BY <3>2, <1>3
      <4>2. f[i] = f[i-1] \o seqs[i]
        BY <3>2, <1>4
      <4> QED
        BY <4>1, <4>2, <2>2, <1>3, ConcatProperties
    <3> QED
      BY <3>1, <3>2
  <2> HIDE DEF S
  <2>3. \A i \in 0..Len(seqs) : i \in S
    BY <1>3, <2>1, <2>2, InductionUpTo
  <2> QED
    BY <2>3 DEF S
<1>6. f \in [1..Len(seqs) -> Seq(E)]
  <2>1. \A i \in 1..Len(seqs) : f[i] \in Seq(E)
    BY <1>3, <1>5
  <2>2. f = [i \in 1..Len(seqs) |-> f[i]]
    BY <1>4
  <2> QED
    BY <2>1, <2>2
<1> QED
  BY <1>1, <1>2, <1>6

\* Functions that flatten sequences agree as far as these do.
LEMMA FlattensAgree ==
  ASSUME NEW s, NEW t, NEW n \in Nat, n =< Len(s), n =< Len(t),
         Len(s) \in Nat, Len(t) \in Nat,
         \A i \in 1..n : s[i] = t[i],
         NEW f, NEW g, Flattens(f, s), Flattens(g, t)
  PROVE  \A i \in 1..n : f[i] = g[i]
<1> DEFINE S == {j \in Nat : j \in 1..n => f[j] = g[j]}
<1>1. 0 \in S
  OBVIOUS
<1>2. /\ \A i \in 1..n : f[i] = IF i = 1 THEN s[i] ELSE f[i-1] \o s[i]
      /\ \A i \in 1..n : g[i] = IF i = 1 THEN t[i] ELSE g[i-1] \o t[i]
  <2>1. \A i \in 1..n : i \in 1..Len(s) /\ i \in 1..Len(t)
    OBVIOUS
  <2> QED
    BY <2>1 DEF Flattens
<1>3. ASSUME NEW i \in 1..n, i - 1 \in S PROVE i \in S
  BY <1>2, <1>3
<1> HIDE DEF S
<1>4. \A i \in 0..n : i \in S
  BY <1>1, <1>3, InductionUpTo
<1> QED
  BY <1>4 DEF S

\* FlattenSeq of nothing.
LEMMA FlattenEmpty == FlattenSeq(<<>>) = <<>>
  BY DEF FlattenSeq

\* FlattenSeq of sequences over E is one over E.
LEMMA FlattenType ==
  ASSUME NEW E, NEW seqs \in Seq(Seq(E))
  PROVE  FlattenSeq(seqs) \in Seq(E)
<1>1. CASE seqs = <<>>
  BY <1>1, FlattenEmpty, EmptySeq
<1>2. CASE seqs # <<>>
  <2>1. Len(seqs) \in 1..Len(seqs)
    BY <1>2, EmptySeq
  <2> QED
    BY <2>1, <1>2, FlattenValue
<1> QED
  BY <1>1, <1>2

\* FlattenSeq of one sequence more.
LEMMA FlattenAppend ==
  ASSUME NEW E, NEW seqs \in Seq(Seq(E)), NEW x \in Seq(E)
  PROVE  FlattenSeq(Append(seqs, x)) = FlattenSeq(seqs) \o x
<1> DEFINE more == Append(seqs, x)
<1>1. /\ more \in Seq(Seq(E)) /\ more # <<>> /\ Len(more) = Len(seqs) + 1
      /\ \A i \in 1..Len(seqs) : more[i] = seqs[i]
      /\ more[Len(seqs) + 1] = x /\ Len(seqs) \in Nat
  BY AppendProperties
<1> HIDE DEF more
<1>2. PICK g : /\ Flattens(g, more) /\ g \in [1..Len(more) -> Seq(E)]
               /\ FlattenSeq(more) = g[Len(more)]
  BY <1>1, FlattenValue
<1>3. g[Len(more)] = IF Len(seqs) = 0 THEN x ELSE g[Len(seqs)] \o x
  <2> DEFINE m == Len(more)
  <2>1. m \in 1..m /\ m - 1 = Len(seqs) /\ more[m] = x /\ (m = 1 <=> Len(seqs) = 0)
    BY <1>1
  <2>2. g[m] = IF m = 1 THEN more[m] ELSE g[m-1] \o more[m]
    <3> HIDE DEF m
    <3>1. g = [i \in 1..m |-> IF i = 1 THEN more[i] ELSE g[i-1] \o more[i]]
      BY <1>2 DEF Flattens, m
    <3> QED
      BY <2>1, <3>1
  <2> QED
    BY <2>1, <2>2
<1>4. CASE seqs = <<>>
  <2>1. Len(seqs) = 0 /\ FlattenSeq(seqs) = <<>>
    BY <1>4, FlattenEmpty
  <2> QED
    BY <2>1, <1>2, <1>3, ConcatEmptySeq DEF more
<1>5. CASE seqs # <<>>
  <2>1. PICK f : /\ Flattens(f, seqs) /\ f \in [1..Len(seqs) -> Seq(E)]
                 /\ FlattenSeq(seqs) = f[Len(seqs)]
    BY <1>5, FlattenValue
  <2>2. Len(seqs) > 0
    BY <1>5, EmptySeq
  <2>3. \A i \in 1..Len(seqs) : f[i] = g[i]
    <3> DEFINE n == Len(seqs)
    <3>1. /\ n \in Nat /\ n =< Len(seqs) /\ n =< Len(more)
          /\ Len(seqs) \in Nat /\ Len(more) \in Nat
          /\ \A i \in 1..n : seqs[i] = more[i]
      BY <1>1
    <3> HIDE DEF n
    <3>2. \A i \in 1..n : f[i] = g[i]
      BY <3>1, <1>2, <2>1, FlattensAgree
    <3> QED
      BY <3>2 DEF n
  <2> QED
    <3>1. Len(seqs) \in 1..Len(seqs) /\ Len(seqs) # 0
      BY <1>1, <2>2
    <3> QED
      BY <3>1, <1>2, <1>3, <2>1, <2>3 DEF more
<1> QED
  BY <1>4, <1>5

\* FlattenSeq respects concatenation.
LEMMA FlattenConcat ==
  ASSUME NEW E, NEW s \in Seq(Seq(E)), NEW t \in Seq(Seq(E))
  PROVE  FlattenSeq(s \o t) = FlattenSeq(s) \o FlattenSeq(t)
<1> DEFINE Part(i) == SubSeq(t, 1, i)
           S == {i \in Nat : i =< Len(t) =>
                   FlattenSeq(s \o Part(i)) = FlattenSeq(s) \o FlattenSeq(Part(i))}
<1>1. Len(t) \in Nat /\ Part(Len(t)) = t
  BY SubSeqFull
<1>2. 0 \in S
  <2>1. Part(0) = <<>>
    BY SubSeqEmpty
  <2>2. s \o <<>> = s
    BY ConcatEmptySeq
  <2>3. FlattenSeq(s) \in Seq(E)
    BY FlattenType
  <2> DEFINE fs == FlattenSeq(s)
  <2> HIDE DEF fs
  <2>4. fs \o <<>> = fs
    BY <2>3, ConcatEmptySeq DEF fs
  <2> QED
    BY <2>1, <2>2, <2>4, FlattenEmpty DEF fs
<1>3. ASSUME NEW i \in 1..Len(t), i - 1 \in S PROVE i \in S
  <2>1. /\ Part(i - 1) \in Seq(Seq(E)) /\ t[i] \in Seq(E) /\ i \in Nat
        /\ Part(i) = Append(Part(i - 1), t[i])
    <3>1. /\ 1 \in 1..Len(t) /\ i \in 1..Len(t) /\ i - 1 \in Int
          /\ \A j \in 1..(i-1) : t[j] \in Seq(E)
      BY <1>1, ElementOfSeq
    <3>2. SubSeq(t, 1, i) = SubSeq(t, 1, i-1) \o <<t[i]>>
      BY <3>1, SubSeqRecursiveSecond
    <3>3. SubSeq(t, 1, i-1) \in Seq(Seq(E)) /\ t[i] \in Seq(E)
      BY <3>1, ElementOfSeq, SubSeqProperties
    <3> QED
      BY <3>1, <3>2, <3>3, AppendIsConcat
  <2> HIDE DEF Part
  <2>2. s \o Part(i) = Append(s \o Part(i - 1), t[i])
    BY <2>1
  <2>3. s \o Part(i - 1) \in Seq(Seq(E))
    BY <2>1, ConcatProperties
  <2>4. FlattenSeq(s \o Part(i - 1)) = FlattenSeq(s) \o FlattenSeq(Part(i - 1))
    BY <1>1, <1>3, <2>1
  <2>5. FlattenSeq(s \o Part(i)) = (FlattenSeq(s) \o FlattenSeq(Part(i - 1))) \o t[i]
    BY <2>1, <2>2, <2>3, <2>4, FlattenAppend
  <2>6. FlattenSeq(Part(i)) = FlattenSeq(Part(i - 1)) \o t[i]
    BY <2>1, FlattenAppend
  <2>7. FlattenSeq(s) \in Seq(E) /\ FlattenSeq(Part(i - 1)) \in Seq(E)
    BY <2>1, FlattenType
  <2> DEFINE fs == FlattenSeq(s)
             fp == FlattenSeq(Part(i - 1))
             ti == t[i]
  <2>10. fs \in Seq(E) /\ fp \in Seq(E) /\ ti \in Seq(E)
    BY <2>1, <2>7
  <2> HIDE DEF fs, fp, ti
  <2>9. (fs \o fp) \o ti = fs \o (fp \o ti)
    <3>1. \A x, y, z \in Seq(E) : (x \o y) \o z = x \o (y \o z)
      BY ConcatAssociative
    <3> QED
      BY <2>10, <3>1
  <2>8. FlattenSeq(s \o Part(i)) = FlattenSeq(s) \o FlattenSeq(Part(i))
    BY <2>5, <2>6, <2>9 DEF fs, fp, ti
  <2> QED
    BY <2>1, <2>8
<1>4. \A i \in 0..Len(t) : i \in S
  <2> HIDE DEF S
  <2> QED
    BY <1>1, <1>2, <1>3, InductionUpTo
<1>5. Len(t) \in S
  BY <1>1, <1>4
<1>6. FlattenSeq(s \o Part(Len(t))) = FlattenSeq(s) \o FlattenSeq(Part(Len(t)))
  <2> HIDE DEF Part
  <2> QED
    BY <1>1, <1>5
<1> QED
  BY <1>1, <1>6

\* One sequence, and the first of several.
LEMMA FlattenOne ==
  ASSUME NEW E, NEW x \in Seq(E)
  PROVE  FlattenSeq(<<x>>) = x
<1>1. <<>> \in Seq(Seq(E)) /\ <<x>> = Append(<<>>, x)
  BY EmptySeq
<1> DEFINE e == <<>>
<1> HIDE DEF e
<1>2. FlattenSeq(Append(e, x)) = FlattenSeq(e) \o x
  BY <1>1, FlattenAppend DEF e
<1>3. <<>> \o x = x
  BY ConcatEmptySeq
<1> QED
  BY <1>1, <1>2, <1>3, FlattenEmpty DEF e

\* FlattenSeq from the first sequence on.
LEMMA FlattenFirst ==
  ASSUME NEW E, NEW s \in Seq(Seq(E)), s # <<>>
  PROVE  FlattenSeq(s) = Head(s) \o FlattenSeq(Tail(s))
<1>1. Head(s) \in Seq(E) /\ Tail(s) \in Seq(Seq(E)) /\ <<Head(s)>> \in Seq(Seq(E))
  BY HeadTailProperties
<1>2. s = <<Head(s)>> \o Tail(s)
  OBVIOUS
<1> DEFINE h == Head(s)
           t == Tail(s)
<1> HIDE DEF h, t
<1>3. FlattenSeq(<<h>> \o t) = FlattenSeq(<<h>>) \o FlattenSeq(t)
  BY <1>1, FlattenConcat DEF h, t
<1>4. FlattenSeq(<<h>>) = h
  BY <1>1, FlattenOne DEF h
<1> QED
  BY <1>2, <1>3, <1>4 DEF h, t
=============================================================================
