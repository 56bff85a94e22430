--------------------------- MODULE SelectionProof ---------------------------
(***************************************************************************)
(* What the selection of elements of a sequence returns, and what is needed *)
(* to prove it: induction and recursion over numbers, least and greatest   *)
(* elements.  The theorems on induction of the library take a predicate as *)
(* parameter, which the provers cannot instantiate; here induction speaks  *)
(* of sets, and the definition by recursion of functions.                  *)
(***************************************************************************)
EXTENDS Selection, FiniteSets, FiniteSetsExt, SequenceTheorems, FiniteSetTheorems,
        WellFoundedInduction, TLAPS

-----------------------------------------------------------------------------
(* Induction and recursion.                                                *)

LEMMA LeastNumber ==
  ASSUME NEW T, T \subseteq Nat, T # {}
  PROVE  \E x \in T : \A y \in T : x <= y
<1>1. PICK x \in T : \A y \in T : <<y, x>> \notin OpToRel(<, Nat)
  BY NatLessThanWellFounded, WFMin
<1>2. \A y \in T : ~(y < x)
  BY <1>1 DEF OpToRel
<1> QED BY <1>2

LEMMA SetInduction ==
  ASSUME NEW T, NEW n \in Nat, 0 \in T, \A i \in 0 .. n - 1 : i \in T => i + 1 \in T
  PROVE  0 .. n \subseteq T
<1> SUFFICES ASSUME (0 .. n) \ T # {} PROVE FALSE
  OBVIOUS
<1>1. PICK x \in (0 .. n) \ T : \A y \in (0 .. n) \ T : x <= y
  <2>1. (0 .. n) \ T \subseteq Nat
    OBVIOUS
  <2> QED BY <2>1, LeastNumber
<1> QED BY <1>1

\* A function defined by recursion over 0 .. n exists.
Steps(S, n, step) == \A i \in 1 .. n, x \in S : step[<<i, x>>] \in S
ByRecursion(g, S, n, base, step) ==
  /\ g \in [0 .. n -> S]
  /\ g[0] = base
  /\ \A i \in 1 .. n : g[i] = step[<<i, g[i - 1]>>]

LEMMA Recursion ==
  ASSUME NEW S, NEW n \in Nat, NEW base \in S, NEW step, Steps(S, n, step)
  PROVE  \E g : ByRecursion(g, S, n, base, step)
<1> DEFINE Good(g, m) == \A i \in 0 .. m : g[i] = IF i = 0 THEN base ELSE step[<<i, g[i - 1]>>]
           T == {m \in 0 .. n : \E g \in [0 .. n -> S] : Good(g, m)}
<1>1. 0 \in T
  <2> DEFINE g == [i \in 0 .. n |-> base]
  <2>1. g \in [0 .. n -> S] /\ g[0] = base
    OBVIOUS
  <2> HIDE DEF g
  <2>2. Good(g, 0)
    BY <2>1
  <2> QED BY <2>1, <2>2
<1>2. ASSUME NEW m \in 0 .. n - 1, m \in T
      PROVE  m + 1 \in T
  <2>1. PICK g \in [0 .. n -> S] : Good(g, m)
    BY <1>2
  <2> DEFINE h == [g EXCEPT ![m + 1] = step[<<m + 1, g[m]>>]]
  <2>2. step[<<m + 1, g[m]>>] \in S
    BY DEF Steps
  <2>3. h \in [0 .. n -> S]
    BY <2>2
  <2>4. \A i \in 0 .. m : h[i] = g[i]
    OBVIOUS
  <2>5. h[m + 1] = step[<<m + 1, g[m]>>]
    OBVIOUS
  <2> HIDE DEF h
  <2>6. ASSUME NEW i \in 0 .. m + 1
        PROVE  h[i] = IF i = 0 THEN base ELSE step[<<i, h[i - 1]>>]
    <3>1. CASE i = m + 1
      <4>1. i # 0 /\ i - 1 = m
        BY <3>1
      <4>2. <<i, h[i - 1]>> = <<m + 1, g[m]>>
        BY <3>1, <4>1, <2>4
      <4> QED BY <3>1, <4>1, <4>2, <2>5
    <3>2. CASE i \in 0 .. m
      <4>1. h[i] = g[i] /\ (i # 0 => h[i - 1] = g[i - 1])
        BY <3>2, <2>4
      <4> QED BY <4>1, <3>2, <2>1
    <3> QED BY <3>1, <3>2
  <2> QED BY <2>3, <2>6
<1>3. n \in T
  <2> HIDE DEF T
  <2>1. 0 .. n \subseteq T
    BY <1>1, <1>2, SetInduction
  <2> QED BY <2>1
<1>4. PICK g \in [0 .. n -> S] : Good(g, n)
  BY <1>3
<1>5. 0 \in 0 .. n /\ \A i \in 1 .. n : i \in 0 .. n /\ i # 0
  OBVIOUS
<1>6. g[0] = base
  BY <1>4, <1>5
<1>7. \A i \in 1 .. n : g[i] = step[<<i, g[i - 1]>>]
  BY <1>4, <1>5
<1> QED BY <1>6, <1>7 DEF ByRecursion
-----------------------------------------------------------------------------
(* Picked.                                                                 *)

\* How far the loop has come after each position.
Loop(s, kept, upto) ==
  \A n \in 0 .. Len(s) :
    upto[n] = IF n = 0 THEN <<>>
              ELSE IF n \in kept THEN Append(upto[n - 1], s[n]) ELSE upto[n - 1]

LEMMA PickedLoop ==
  ASSUME NEW S, NEW s \in Seq(S), NEW kept
  PROVE  \E upto \in [0 .. Len(s) -> Seq(S)] :
           Loop(s, kept, upto) /\ Picked(s, kept) = upto[Len(s)]
<1> DEFINE step == [p \in (1 .. Len(s)) \X Seq(S) |->
                      IF p[1] \in kept THEN Append(p[2], s[p[1]]) ELSE p[2]]
           Body(g) == [n \in 0 .. Len(s) |->
                         IF n = 0 THEN <<>>
                         ELSE IF n \in kept THEN Append(g[n - 1], s[n]) ELSE g[n - 1]]
           upto == CHOOSE g : g = Body(g)
<1>1. step \in [(1 .. Len(s)) \X Seq(S) -> Seq(S)]
  <2> SUFFICES ASSUME NEW n \in 1 .. Len(s), NEW t \in Seq(S)
               PROVE  (IF n \in kept THEN Append(t, s[n]) ELSE t) \in Seq(S)
    OBVIOUS
  <2> QED BY AppendProperties
<1>2. \A n \in 1 .. Len(s), t \in Seq(S) :
        step[<<n, t>>] = IF n \in kept THEN Append(t, s[n]) ELSE t
  OBVIOUS
<1>3. \E g \in [0 .. Len(s) -> Seq(S)] :
        g[0] = <<>> /\ \A n \in 1 .. Len(s) : g[n] = step[<<n, g[n - 1]>>]
  <2>1. Len(s) \in Nat /\ <<>> \in Seq(S) /\ Steps(Seq(S), Len(s), step)
    BY <1>1, <1>2 DEF Steps
  <2>2. \E g : ByRecursion(g, Seq(S), Len(s), <<>>, step)
    BY <2>1, Recursion
  <2> QED BY <2>2 DEF ByRecursion
<1>4. \E g \in [0 .. Len(s) -> Seq(S)] : g = Body(g)
  <2>1. PICK g \in [0 .. Len(s) -> Seq(S)] :
          g[0] = <<>> /\ \A n \in 1 .. Len(s) : g[n] = step[<<n, g[n - 1]>>]
    BY <1>3
  <2> HIDE DEF step
  <2>2. ASSUME NEW n \in 0 .. Len(s)
        PROVE  g[n] = Body(g)[n]
    <3>1. CASE n = 0
      BY <2>1, <3>1
    <3>2. CASE n # 0
      <4>1. n \in 1 .. Len(s) /\ n - 1 \in 0 .. Len(s)
        BY <3>2
      <4>2. g[n - 1] \in Seq(S)
        BY <4>1
      <4>3. g[n] = step[<<n, g[n - 1]>>]
        BY <2>1, <3>2
      <4>4. step[<<n, g[n - 1]>>] = IF n \in kept THEN Append(g[n - 1], s[n]) ELSE g[n - 1]
        BY <1>2, <4>1, <4>2
      <4> QED BY <3>2, <4>3, <4>4
    <3> QED BY <3>1, <3>2
  <2>3. g = [n \in 0 .. Len(s) |-> g[n]] /\ Body(g) = [n \in 0 .. Len(s) |-> Body(g)[n]]
    OBVIOUS
  <2> QED BY <2>2, <2>3
<1>5. upto = Body(upto)
  BY <1>4
<1>6. Picked(s, kept) = upto[Len(s)]
  BY DEF Picked
<1> HIDE DEF upto
<1>7. Loop(s, kept, upto)
  BY <1>5 DEF Loop
\* All that the loop makes are sequences.
<1>8. \A n \in 0 .. Len(s) : upto[n] \in Seq(S)
  <2> DEFINE T == {n \in 0 .. Len(s) : upto[n] \in Seq(S)}
  <2>1. upto[0] = <<>>
    BY <1>7 DEF Loop
  <2>2. 0 \in T
    <3>1. 0 \in 0 .. Len(s) /\ <<>> \in Seq(S)
      OBVIOUS
    <3> QED BY <2>1, <3>1
  <2>3. ASSUME NEW i \in 0 .. Len(s) - 1, i \in T
        PROVE  i + 1 \in T
    <3>1. i + 1 \in 1 .. Len(s) /\ upto[i] \in Seq(S) /\ (i + 1) - 1 = i
      BY <2>3
    <3>2. upto[i + 1] = IF i + 1 \in kept THEN Append(upto[i], s[i + 1]) ELSE upto[i]
      BY <1>7, <3>1 DEF Loop
    <3>3. upto[i + 1] \in Seq(S)
      BY <3>1, <3>2, AppendProperties
    <3> QED BY <3>1, <3>3
  <2>4. 0 .. Len(s) \subseteq T
    <3> HIDE DEF T
    <3>1. Len(s) \in Nat
      OBVIOUS
    <3> QED BY <2>2, <2>3, <3>1, SetInduction
  <2> QED BY <2>4
<1>9. upto \in [0 .. Len(s) -> Seq(S)]
  <2>1. upto = [n \in 0 .. Len(s) |-> upto[n]]
    BY <1>5
  <2> QED BY <2>1, <1>8
<1> QED BY <1>6, <1>7, <1>9
-----------------------------------------------------------------------------
\* What is picked is made of elements of the sequence.
LEMMA PickedType ==
  ASSUME NEW S, NEW s \in Seq(S), NEW kept
  PROVE  Picked(s, kept) \in Seq(S)
BY PickedLoop, LenProperties

LEMMA PickedEmpty == \A kept : Picked(<<>>, kept) = <<>>
<1>1. ASSUME NEW s \in Seq(Nat), NEW kept, Len(s) = 0
      PROVE  Picked(s, kept) = <<>>
  <2>1. PICK upto \in [0 .. Len(s) -> Seq(Nat)] :
          Loop(s, kept, upto) /\ Picked(s, kept) = upto[Len(s)]
    BY PickedLoop
  <2>2. 0 \in 0 .. 0
    OBVIOUS
  <2> QED BY <1>1, <2>1, <2>2 DEF Loop
<1>2. <<>> \in Seq(Nat) /\ Len(<<>>) = 0
  OBVIOUS
<1> QED BY <1>1, <1>2

\* One more element is picked or it is not.
LEMMA PickedAppend ==
  ASSUME NEW S, NEW s \in Seq(S), NEW x \in S, NEW kept, NEW kept2,
         \A i \in 1 .. Len(s) : i \in kept <=> i \in kept2
  PROVE  Picked(Append(s, x), kept2)
           = IF Len(s) + 1 \in kept2 THEN Append(Picked(s, kept), x) ELSE Picked(s, kept)
<1> DEFINE r == Append(s, x)
<1>1. r \in Seq(S) /\ Len(r) = Len(s) + 1 /\ Len(s) \in Nat
  BY AppendProperties, LenProperties
<1>2. r[Len(s) + 1] = x /\ \A i \in 1 .. Len(s) : r[i] = s[i]
  BY AppendProperties
<1>3. PICK a \in [0 .. Len(s) -> Seq(S)] :
        Loop(s, kept, a) /\ Picked(s, kept) = a[Len(s)]
  BY PickedLoop
<1> HIDE DEF r
<1>4. PICK b \in [0 .. Len(r) -> Seq(S)] :
        Loop(r, kept2, b) /\ Picked(r, kept2) = b[Len(r)]
  BY <1>1, PickedLoop
<1> DEFINE T == {n \in 0 .. Len(s) : a[n] = b[n]}
<1>5. 0 \in T
  <2>1. 0 \in 0 .. Len(s) /\ 0 \in 0 .. Len(r)
    BY <1>1
  <2>2. a[0] = <<>> /\ b[0] = <<>>
    BY <1>3, <1>4, <2>1 DEF Loop
  <2> QED BY <2>1, <2>2
<1>6. ASSUME NEW i \in 0 .. Len(s) - 1, i \in T
      PROVE  i + 1 \in T
  <2>1. /\ i + 1 \in 1 .. Len(s) /\ i + 1 \in 0 .. Len(s) /\ i + 1 \in 0 .. Len(r)
        /\ i + 1 # 0 /\ (i + 1) - 1 = i /\ a[i] = b[i] /\ r[i + 1] = s[i + 1]
    BY <1>1, <1>2, <1>6
  <2>2. a[i + 1] = IF i + 1 \in kept THEN Append(a[i], s[i + 1]) ELSE a[i]
    BY <1>3, <2>1 DEF Loop
  <2>3. b[i + 1] = IF i + 1 \in kept2 THEN Append(b[i], r[i + 1]) ELSE b[i]
    BY <1>4, <2>1 DEF Loop
  <2> QED BY <2>1, <2>2, <2>3
<1>7. 0 .. Len(s) \subseteq T
  <2> HIDE DEF T
  <2> QED BY <1>1, <1>5, <1>6, SetInduction
<1>8. a[Len(s)] = b[Len(s)]
  BY <1>1, <1>7
<1>9. b[Len(s) + 1] = IF Len(s) + 1 \in kept2 THEN Append(b[Len(s)], r[Len(s) + 1]) ELSE b[Len(s)]
  <2>1. Len(s) + 1 \in 0 .. Len(r) /\ Len(s) + 1 # 0 /\ (Len(s) + 1) - 1 = Len(s)
    BY <1>1
  <2> QED BY <1>4, <2>1 DEF Loop
<1> QED BY <1>1, <1>2, <1>3, <1>4, <1>8, <1>9 DEF r

\* The first element, when it is picked, is followed by what the rest gives.
LEMMA PickedTail ==
  ASSUME NEW S, NEW s \in Seq(S), s # <<>>, NEW kept, NEW kept2,
         \A i \in 1 .. Len(s) - 1 : i + 1 \in kept <=> i \in kept2
  PROVE  Picked(s, kept)
           = (IF 1 \in kept THEN <<Head(s)>> ELSE <<>>) \o Picked(Tail(s), kept2)
<1> DEFINE r == Tail(s)
           pre == IF 1 \in kept THEN <<Head(s)>> ELSE <<>>
<1>1. /\ r \in Seq(S) /\ Len(r) = Len(s) - 1 /\ Len(s) \in Nat \ {0}
      /\ Head(s) = s[1] /\ s[1] \in S /\ \A i \in 1 .. Len(s) - 1 : r[i] = s[i + 1]
      /\ pre \in Seq(S)
  BY HeadTailProperties, LenProperties
<1>2. PICK a \in [0 .. Len(s) -> Seq(S)] :
        Loop(s, kept, a) /\ Picked(s, kept) = a[Len(s)]
  BY PickedLoop
<1>r. r \in Seq(S)
  BY <1>1
<1> HIDE DEF r
<1>3. PICK b \in [0 .. Len(r) -> Seq(S)] :
        Loop(r, kept2, b) /\ Picked(r, kept2) = b[Len(r)]
  BY <1>r, PickedLoop
<1> DEFINE T == {n \in 0 .. Len(r) : a[n + 1] = pre \o b[n]}
<1>4. 0 \in T
  <2>1. 0 \in 0 .. Len(s) /\ 0 \in 0 .. Len(r) /\ 1 \in 0 .. Len(s) /\ 1 - 1 = 0 /\ 1 # 0
    BY <1>1
  <2>2. a[0] = <<>> /\ b[0] = <<>>
    BY <1>2, <1>3, <2>1 DEF Loop
  <2>3. a[1] = IF 1 \in kept THEN Append(<<>>, s[1]) ELSE <<>>
    BY <1>2, <2>1, <2>2 DEF Loop
  <2>4. a[1] = pre
    BY <1>1, <2>3
  <2>5. pre \o <<>> = pre
    BY <1>1, ConcatEmptySeq
  <2> HIDE DEF pre
  <2>6. 0 + 1 = 1
    OBVIOUS
  <2> QED BY <2>1, <2>2, <2>4, <2>5, <2>6
<1> HIDE DEF pre
<1>5. ASSUME NEW i \in 0 .. Len(r) - 1, i \in T
      PROVE  i + 1 \in T
  <2>1. /\ i + 1 \in 0 .. Len(r) /\ i + 1 # 0 /\ (i + 1) - 1 = i
        /\ i + 2 \in 0 .. Len(s) /\ i + 2 # 0 /\ (i + 2) - 1 = i + 1 /\ (i + 1) + 1 = i + 2
        /\ a[i + 1] = pre \o b[i] /\ r[i + 1] = s[i + 2] /\ s[i + 2] \in S
        /\ b[i] \in Seq(S)
        /\ (i + 2 \in kept <=> i + 1 \in kept2)
    <3>1. /\ i \in Nat /\ i < Len(r) /\ Len(r) = Len(s) - 1 /\ Len(s) \in Nat
          /\ a[i + 1] = pre \o b[i]
      BY <1>1, <1>5
    <3>2. /\ i + 1 \in 0 .. Len(r) /\ i + 1 # 0 /\ (i + 1) - 1 = i
          /\ i + 2 \in 0 .. Len(s) /\ i + 2 # 0 /\ (i + 2) - 1 = i + 1 /\ (i + 1) + 1 = i + 2
          /\ i + 2 \in 1 .. Len(s) /\ i \in 0 .. Len(r) /\ i + 1 \in 1 .. Len(s) - 1
      BY <3>1
    <3>3. r[i + 1] = s[i + 2]
      BY <1>1, <3>2
    <3>4. s[i + 2] \in S /\ b[i] \in Seq(S)
      BY <3>2, ElementOfSeq
    <3>5. i + 2 \in kept <=> i + 1 \in kept2
      BY <3>2
    <3> QED BY <3>1, <3>2, <3>3, <3>4, <3>5
  <2>2. a[i + 2] = IF i + 2 \in kept THEN Append(a[i + 1], s[i + 2]) ELSE a[i + 1]
    BY <1>2, <2>1 DEF Loop
  <2>3. b[i + 1] = IF i + 1 \in kept2 THEN Append(b[i], r[i + 1]) ELSE b[i]
    BY <1>3, <2>1 DEF Loop
  <2>4. pre \o Append(b[i], s[i + 2]) = Append(pre \o b[i], s[i + 2])
    <3> DEFINE y == s[i + 2]
               t == b[i]
    <3>1. t \in Seq(S) /\ y \in S /\ pre \in Seq(S) /\ <<y>> \in Seq(S)
      BY <1>1, <2>1
    <3> HIDE DEF y, t
    <3>2. Append(t, y) = t \o <<y>> /\ pre \o t \in Seq(S)
      BY <3>1, AppendIsConcat, ConcatProperties
    <3>3. Append(pre \o t, y) = (pre \o t) \o <<y>>
      BY <3>1, <3>2, AppendIsConcat
    <3>4. pre \o (t \o <<y>>) = (pre \o t) \o <<y>>
      BY <3>1, ConcatAssociative
    <3>5. pre \o Append(t, y) = Append(pre \o t, y)
      BY <3>2, <3>3, <3>4
    <3> QED BY <3>5 DEF y, t
  <2>5. a[(i + 1) + 1] = pre \o b[i + 1]
    BY <2>1, <2>2, <2>3, <2>4
  <2> QED BY <2>1, <2>5
<1>6. 0 .. Len(r) \subseteq T
  <2>1. Len(r) \in Nat
    BY <1>1
  <2> HIDE DEF T
  <2> QED BY <2>1, <1>4, <1>5, SetInduction
<1>7. a[Len(r) + 1] = pre \o b[Len(r)]
  <2>1. Len(r) \in 0 .. Len(r)
    BY <1>1
  <2> QED BY <2>1, <1>6
<1>8. Len(r) + 1 = Len(s)
  BY <1>1
<1>9. Picked(s, kept) = pre \o Picked(r, kept2)
  BY <1>2, <1>3, <1>7, <1>8
<1> QED BY <1>9 DEF r, pre

\* What is picked is what is kept, in its order: where names the positions.
Where(s, kept, where, n, t) ==
  /\ where \in [1 .. Len(t) -> kept \cap (1 .. n)]
  /\ \A j \in 1 .. Len(t) : t[j] = s[where[j]]
  /\ \A j, k \in 1 .. Len(t) : j < k => where[j] < where[k]
  /\ \A i \in kept \cap (1 .. n) : \E j \in 1 .. Len(t) : where[j] = i

LEMMA PickedWhere ==
  ASSUME NEW S, NEW s \in Seq(S), NEW kept
  PROVE  \E where : Where(s, kept, where, Len(s), Picked(s, kept))
<1>1. PICK a \in [0 .. Len(s) -> Seq(S)] :
        Loop(s, kept, a) /\ Picked(s, kept) = a[Len(s)]
  BY PickedLoop
<1>2. Len(s) \in Nat
  BY LenProperties
<1> DEFINE T == {n \in 0 .. Len(s) : \E where : Where(s, kept, where, n, a[n])}
<1>3. 0 \in T
  <2>1. 0 \in 0 .. Len(s) /\ 1 .. 0 = {}
    BY <1>2
  <2>2. a[0] = <<>> /\ Len(a[0]) = 0
    BY <1>1, <2>1 DEF Loop
  <2> DEFINE where == [j \in {} |-> 0]
  <2>3. where \in [{} -> {}]
    OBVIOUS
  <2> HIDE DEF where
  <2>4. Where(s, kept, where, 0, a[0])
    BY <2>1, <2>2, <2>3 DEF Where
  <2> QED BY <2>1, <2>4
<1>4. ASSUME NEW n \in 0 .. Len(s) - 1, n \in T
      PROVE  n + 1 \in T
  <2>1. PICK where : Where(s, kept, where, n, a[n])
    BY <1>4
  <2>2. /\ n + 1 \in 0 .. Len(s) /\ n + 1 # 0 /\ (n + 1) - 1 = n /\ n \in 0 .. Len(s)
        /\ n \in Nat /\ n + 1 \in 1 .. Len(s)
    BY <1>2
  <2>3. a[n] \in Seq(S) /\ s[n + 1] \in S /\ Len(a[n]) \in Nat
    BY <2>2, ElementOfSeq, LenProperties
  <2>4. a[n + 1] = IF n + 1 \in kept THEN Append(a[n], s[n + 1]) ELSE a[n]
    BY <1>1, <2>2 DEF Loop
  <2>5. 1 .. n + 1 = (1 .. n) \cup {n + 1} /\ n + 1 \notin 1 .. n
    BY <2>2
  <2>6. CASE n + 1 \notin kept
    <3>1. kept \cap (1 .. n + 1) = kept \cap (1 .. n)
      BY <2>5, <2>6
    <3>2. Where(s, kept, where, n + 1, a[n + 1])
      BY <2>1, <2>4, <2>6, <3>1 DEF Where
    <3> QED BY <2>2, <3>2
  <2>7. CASE n + 1 \in kept
    <3> DEFINE m == Len(a[n])
               t == a[n + 1]
               more == [j \in 1 .. m + 1 |-> IF j = m + 1 THEN n + 1 ELSE where[j]]
    <3>1. t = Append(a[n], s[n + 1])
      BY <2>4, <2>7
    <3>2. Len(t) = m + 1 /\ t[m + 1] = s[n + 1] /\ \A j \in 1 .. m : t[j] = a[n][j]
      BY <2>3, <3>1, AppendProperties
    <3>3. \A j \in 1 .. m : where[j] \in kept \cap (1 .. n)
      BY <2>1 DEF Where
    <3>4. 1 .. m + 1 = (1 .. m) \cup {m + 1} /\ m + 1 \notin 1 .. m
      BY <2>3
    <3>5. more[m + 1] = n + 1 /\ \A j \in 1 .. m : more[j] = where[j]
      BY <3>4
    <3>6. more \in [1 .. m + 1 -> kept \cap (1 .. n + 1)]
      BY <2>5, <2>7, <3>3, <3>4
    <3> HIDE DEF more, t
    <3>7. \A j \in 1 .. m + 1 : t[j] = s[more[j]]
      BY <2>1, <3>2, <3>4, <3>5 DEF Where
    <3>8. \A j, k \in 1 .. m + 1 : j < k => more[j] < more[k]
      <4> SUFFICES ASSUME NEW j \in 1 .. m + 1, NEW k \in 1 .. m + 1, j < k
                   PROVE  more[j] < more[k]
        OBVIOUS
      <4>1. j \in 1 .. m /\ more[j] = where[j] /\ where[j] \in 1 .. n
        BY <2>3, <3>3, <3>4, <3>5
      <4>2. CASE k = m + 1
        BY <4>1, <4>2, <3>5, <2>2
      <4>3. CASE k \in 1 .. m
        BY <4>1, <4>3, <2>1, <3>5 DEF Where
      <4> QED BY <3>4, <4>2, <4>3
    <3>9. \A i \in kept \cap (1 .. n + 1) : \E j \in 1 .. m + 1 : more[j] = i
      <4> SUFFICES ASSUME NEW i \in kept \cap (1 .. n + 1)
                   PROVE  \E j \in 1 .. m + 1 : more[j] = i
        OBVIOUS
      <4>1. CASE i = n + 1
        BY <4>1, <3>4, <3>5
      <4>2. CASE i \in kept \cap (1 .. n)
        <5>1. PICK j \in 1 .. m : where[j] = i
          BY <4>2, <2>1 DEF Where
        <5> QED BY <5>1, <3>4, <3>5
      <4> QED BY <2>5, <4>1, <4>2
    <3>10. Where(s, kept, more, n + 1, t)
      BY <3>2, <3>6, <3>7, <3>8, <3>9 DEF Where
    <3>11. Where(s, kept, more, n + 1, a[n + 1])
      BY <3>10 DEF t
    <3> QED BY <2>2, <3>11
  <2> QED BY <2>6, <2>7
<1>5. 0 .. Len(s) \subseteq T
  <2> HIDE DEF T
  <2> QED BY <1>2, <1>3, <1>4, SetInduction
<1>6. Len(s) \in 0 .. Len(s)
  BY <1>2
<1> QED BY <1>1, <1>5, <1>6
-----------------------------------------------------------------------------
(* Sequences of what the elements of a sequence are mapped to.             *)

Each(s, m) == [i \in DOMAIN s |-> m[s[i]]]

LEMMA EachType ==
  ASSUME NEW S, NEW T, NEW s \in Seq(S), NEW m, \A x \in S : m[x] \in T
  PROVE  Each(s, m) \in Seq(T) /\ Len(Each(s, m)) = Len(s)
<1>1. DOMAIN s = 1 .. Len(s) /\ Len(s) \in Nat /\ \A i \in 1 .. Len(s) : s[i] \in S
  BY LenProperties, ElementOfSeq
<1>2. Each(s, m) \in [1 .. Len(s) -> T]
  BY <1>1 DEF Each
<1>3. Each(s, m) \in Seq(T)
  BY <1>1, <1>2, SeqDef
<1>4. DOMAIN Each(s, m) = 1 .. Len(s) /\ DOMAIN Each(s, m) = 1 .. Len(Each(s, m))
  BY <1>2, <1>3, LenProperties
<1>5. Len(Each(s, m)) \in Nat
  BY <1>3, LenProperties
<1> QED BY <1>1, <1>3, <1>4, <1>5

LEMMA EachEmpty == \A m : Each(<<>>, m) = <<>>
BY DEF Each

LEMMA EachAppend ==
  ASSUME NEW S, NEW s \in Seq(S), NEW y \in S, NEW m
  PROVE  Each(Append(s, y), m) = Append(Each(s, m), m[y])
<1> DEFINE T == {m[x] : x \in S}
<1>t. \A x \in S : m[x] \in T
  OBVIOUS
<1> HIDE DEF T
<1>1. /\ Append(s, y) \in Seq(S) /\ Len(Append(s, y)) = Len(s) + 1
      /\ \A i \in 1 .. Len(s) : Append(s, y)[i] = s[i]
      /\ Append(s, y)[Len(s) + 1] = y
  BY AppendProperties
<1>2. Len(s) \in Nat /\ DOMAIN s = 1 .. Len(s) /\ DOMAIN Append(s, y) = 1 .. Len(s) + 1
  BY <1>1, LenProperties
<1>3. /\ Each(s, m) \in Seq(T) /\ Len(Each(s, m)) = Len(s)
      /\ Each(Append(s, y), m) \in Seq(T) /\ Len(Each(Append(s, y), m)) = Len(s) + 1
  <2>1. \A w \in Seq(S) : Each(w, m) \in Seq(T) /\ Len(Each(w, m)) = Len(w)
    BY <1>t, EachType
  <2> QED BY <1>1, <2>1
<1> DEFINE l == Each(Append(s, y), m)
           r == Append(Each(s, m), m[y])
<1>4. /\ r \in Seq(T) /\ Len(r) = Len(s) + 1
      /\ \A i \in 1 .. Len(s) : r[i] = Each(s, m)[i]
      /\ r[Len(s) + 1] = m[y]
  BY <1>t, <1>3, AppendProperties
<1>5. ASSUME NEW i \in 1 .. Len(s) + 1 PROVE l[i] = r[i]
  <2>1. l[i] = m[Append(s, y)[i]]
    BY <1>2 DEF Each
  <2>2. CASE i = Len(s) + 1
    BY <2>1, <2>2, <1>1, <1>4
  <2>3. CASE i \in 1 .. Len(s)
    <3>1. Each(s, m)[i] = m[s[i]]
      BY <2>3, <1>2 DEF Each
    <3> QED BY <2>1, <2>3, <3>1, <1>1, <1>4
  <2>4. i = Len(s) + 1 \/ i \in 1 .. Len(s)
    BY <1>2
  <2> QED BY <2>2, <2>3, <2>4
<1>6. l \in Seq(T) /\ Len(l) = Len(s) + 1
  BY <1>3
<1> HIDE DEF l, r
<1>7. l = r
  BY <1>4, <1>5, <1>6, SeqEqual
<1> QED BY <1>7 DEF l, r

LEMMA EachHead ==
  ASSUME NEW S, NEW s \in Seq(S), NEW y \in S, NEW m
  PROVE  Each(<<y>> \o s, m) = <<m[y]>> \o Each(s, m)
<1> DEFINE T == {m[x] : x \in S}
<1>t. \A x \in S : m[x] \in T
  OBVIOUS
<1> HIDE DEF T
<1> DEFINE w == <<y>> \o s
           l == Each(w, m)
           r == <<m[y]>> \o Each(s, m)
<1>1. /\ <<y>> \in Seq(S) /\ Len(<<y>>) = 1 /\ <<y>>[1] = y
      /\ <<m[y]>> \in Seq(T) /\ Len(<<m[y]>>) = 1 /\ <<m[y]>>[1] = m[y]
      /\ Len(s) \in Nat
  BY <1>t, LenProperties
<1>2. /\ w \in Seq(S) /\ Len(w) = 1 + Len(s)
      /\ \A i \in 1 .. 1 + Len(s) : w[i] = IF i <= 1 THEN <<y>>[i] ELSE s[i - 1]
  BY <1>1, ConcatProperties
<1>3. DOMAIN w = 1 .. 1 + Len(s) /\ DOMAIN s = 1 .. Len(s)
  BY <1>2, LenProperties
<1>4. Each(s, m) \in Seq(T) /\ Len(Each(s, m)) = Len(s)
  BY <1>t, EachType
<1> HIDE DEF w
<1>5. l \in Seq(T) /\ Len(l) = 1 + Len(s)
  BY <1>t, <1>2, EachType
<1>6. /\ r \in Seq(T) /\ Len(r) = 1 + Len(s)
      /\ \A i \in 1 .. 1 + Len(s) : r[i] = IF i <= 1 THEN <<m[y]>>[i] ELSE Each(s, m)[i - 1]
  BY <1>1, <1>4, ConcatProperties
<1>7. ASSUME NEW i \in 1 .. 1 + Len(s) PROVE l[i] = r[i]
  <2>1. l[i] = m[w[i]]
    BY <1>3 DEF Each
  <2>2. CASE i = 1
    BY <2>1, <2>2, <1>1, <1>2, <1>6
  <2>3. CASE i # 1
    <3>1. i - 1 \in 1 .. Len(s) /\ ~(i <= 1)
      BY <2>3, <1>1
    <3>2. Each(s, m)[i - 1] = m[s[i - 1]]
      BY <3>1, <1>3 DEF Each
    <3> QED BY <2>1, <3>1, <3>2, <1>2, <1>6
  <2> QED BY <2>2, <2>3
<1> HIDE DEF l, r
<1>8. l = r
  BY <1>5, <1>6, <1>7, SeqEqual
<1> QED BY <1>8 DEF l, r, w
-----------------------------------------------------------------------------
(* Least and greatest numbers.                                             *)

LEMMA LeastIsIn ==
  ASSUME NEW T, T \subseteq Nat, T # {}
  PROVE  Min(T) \in T
<1>1. \E x \in T : \A y \in T : x <= y
  BY LeastNumber
<1> QED BY <1>1 DEF Min

LEMMA GreatestIsIn ==
  ASSUME NEW T, T \subseteq Nat, T # {}, NEW n \in Nat, \A x \in T : x <= n
  PROVE  Max(T) \in T /\ \A x \in T : x <= Max(T)
<1> DEFINE U == {n - x : x \in T}
<1>1. U \subseteq Nat /\ U # {}
  <2>1. \A x \in T : x \in Nat /\ x <= n
    OBVIOUS
  <2>2. \A x \in T : n - x \in Nat
    BY <2>1
  <2> QED BY <2>2
<1>2. PICK u \in U : \A v \in U : u <= v
  <2> HIDE DEF U
  <2> QED BY <1>1, LeastNumber
<1>3. PICK x \in T : u = n - x
  BY <1>2
<1>4. \A y \in T : x >= y
  BY <1>2, <1>3
<1>5. \E z \in T : \A y \in T : z >= y
  BY <1>4
<1>6. Max(T) \in T /\ \A y \in T : Max(T) >= y
  BY <1>5 DEF Max
<1> QED BY <1>6

LEMMA FiniteIsBounded ==
  ASSUME NEW S, S \subseteq Nat, IsFiniteSet(S)
  PROVE  \E b \in Nat : \A x \in S : x <= b
<1>1. PICK n \in Nat : ExistsBijection(1 .. n, S)
  BY FS_NatBijection
<1>2. PICK f : f \in Bijection(1 .. n, S)
  BY <1>1 DEF ExistsBijection
<1>3. f \in [1 .. n -> S] /\ \A x \in S : \E i \in 1 .. n : f[i] = x
  BY <1>2 DEF Bijection, Injection, Surjection
<1> DEFINE T == {k \in 0 .. n : \E b \in Nat : \A i \in 1 .. k : f[i] <= b}
<1>4. 0 \in T
  <2>1. \A i \in 1 .. 0 : f[i] <= 0
    OBVIOUS
  <2> QED BY <2>1
<1>5. ASSUME NEW k \in 0 .. n - 1, k \in T
      PROVE  k + 1 \in T
  <2>1. PICK b \in Nat : \A i \in 1 .. k : f[i] <= b
    BY <1>5
  <2>2. f[k + 1] \in Nat
    <3>1. k + 1 \in 1 .. n
      OBVIOUS
    <3> QED BY <1>3, <3>1
  <2>3. \A i \in 1 .. k : f[i] \in Nat
    <3>1. \A i \in 1 .. k : i \in 1 .. n
      OBVIOUS
    <3> QED BY <1>3, <3>1
  <2>4. \A i \in 1 .. k + 1 : f[i] <= b + f[k + 1]
    BY <2>1, <2>2, <2>3
  <2>5. k + 1 \in 0 .. n /\ b + f[k + 1] \in Nat
    BY <2>2
  <2> QED BY <2>4, <2>5
<1>6. 0 .. n \subseteq T
  <2> HIDE DEF T
  <2> QED BY <1>4, <1>5, SetInduction
<1>7. PICK b \in Nat : \A i \in 1 .. n : f[i] <= b
  <2>1. n \in T
    BY <1>6
  <2> QED BY <2>1
<1> QED BY <1>3, <1>7
=============================================================================
