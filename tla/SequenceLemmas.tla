---------------------------- MODULE SequenceLemmas ----------------------------
(***************************************************************************)
(* Facts that the proofs of the components use and that the library does not *)
(* state: about sequences, induction and recursion by functions, and what    *)
(* Selected makes of a queue that grows and shrinks.                         *)
(***************************************************************************)
EXTENDS Integers, Sequences, SequencesExt, Selection, SequenceTheorems,
        WellFoundedInduction, TLAPS

\* A sequence is its head followed by its tail.
LEMMA HeadThenTail ==
  ASSUME NEW S, NEW s \in Seq(S), s # <<>>
  PROVE  <<Head(s)>> \o Tail(s) = s
<1>1. /\ Head(s) \in S /\ Tail(s) \in Seq(S) /\ Len(Tail(s)) = Len(s) - 1
      /\ \A i \in 1..Len(Tail(s)) : Tail(s)[i] = s[i + 1]
  BY HeadTailProperties
<1>2. Len(s) \in Nat \ {0} /\ Head(s) = s[1]
  BY EmptySeq
<1>3. /\ <<Head(s)>> \in Seq(S) /\ Len(<<Head(s)>>) = 1
      /\ <<Head(s)>>[1] = Head(s)
  BY <1>1
<1>4. /\ <<Head(s)>> \o Tail(s) \in Seq(S)
      /\ Len(<<Head(s)>> \o Tail(s)) = Len(s)
      /\ \A i \in 1..Len(s) :
            (<<Head(s)>> \o Tail(s))[i] =
                IF i <= 1 THEN <<Head(s)>>[i] ELSE Tail(s)[i - 1]
  BY <1>1, <1>2, <1>3, ConcatProperties
<1>5. \A i \in 1..Len(s) : (<<Head(s)>> \o Tail(s))[i] = s[i]
  BY <1>1, <1>2, <1>3, <1>4
<1>6. QED
  BY <1>4, <1>5, SeqEqual

\* A sequence with an element put in front of it gives both back.
LEMMA HeadTailOfCons ==
  ASSUME NEW S, NEW e \in S, NEW s \in Seq(S)
  PROVE  /\ <<e>> \o s \in Seq(S) /\ <<e>> \o s # <<>>
         /\ Head(<<e>> \o s) = e
         /\ Tail(<<e>> \o s) = s
<1> DEFINE c == <<e>> \o s
<1>1. <<e>> \in Seq(S) /\ Len(<<e>>) = 1 /\ <<e>>[1] = e
  OBVIOUS
<1>2. Len(s) \in Nat
  BY LenProperties
<1>3. /\ c \in Seq(S) /\ Len(c) = 1 + Len(s)
      /\ \A i \in 1..(1 + Len(s)) :
            c[i] = IF i <= 1 THEN <<e>>[i] ELSE s[i - 1]
  BY <1>1, ConcatProperties
<1>4. c # <<>>
  BY <1>2, <1>3, EmptySeq
<1>5. Head(c) = e
  BY <1>1, <1>2, <1>3, <1>4
<1>6. /\ Tail(c) \in Seq(S) /\ Len(Tail(c)) = Len(s)
      /\ \A i \in 1..Len(s) : Tail(c)[i] = c[i + 1]
  BY <1>2, <1>3, <1>4, HeadTailProperties
<1>7. \A i \in 1..Len(s) : Tail(c)[i] = s[i]
  BY <1>2, <1>3, <1>6
<1>8. Tail(c) = s
  BY <1>6, <1>7, SeqEqual
<1>9. QED
  BY <1>3, <1>4, <1>5, <1>8

\* A sequence behind another.
LEMMA Concatenated ==
  ASSUME NEW S, NEW s \in Seq(S), NEW t \in Seq(S), NEW u, u = s \o t
  PROVE  /\ u \in Seq(S) /\ Len(u) = Len(s) + Len(t)
         /\ Len(s) \in Nat /\ Len(t) \in Nat
         /\ \A i \in 1..Len(s) : u[i] = s[i]
         /\ \A i \in 1..Len(t) : u[Len(s) + i] = t[i]
<1>1. /\ s \o t \in Seq(S) /\ Len(s \o t) = Len(s) + Len(t)
      /\ \A i \in 1..(Len(s) + Len(t)) :
            (s \o t)[i] = IF i <= Len(s) THEN s[i] ELSE t[i - Len(s)]
  BY ConcatProperties
<1>2. Len(s) \in Nat /\ Len(t) \in Nat
  OBVIOUS
<1>3. ASSUME NEW i \in 1..Len(t) PROVE u[Len(s) + i] = t[i]
  <2>1. /\ Len(s) + i \in 1..(Len(s) + Len(t)) /\ ~(Len(s) + i <= Len(s))
        /\ (Len(s) + i) - Len(s) = i
    BY <1>2
  <2> QED BY <1>1, <2>1
<1>4. ASSUME NEW i \in 1..Len(s) PROVE u[i] = s[i]
  <2>1. i \in 1..(Len(s) + Len(t)) /\ i <= Len(s)
    BY <1>2
  <2> QED BY <1>1, <2>1
<1> QED BY <1>1, <1>2, <1>3, <1>4

\* Appending to the second part of a sequence appends to the whole.
LEMMA AppendToConcat ==
  ASSUME NEW S, NEW s \in Seq(S), NEW t \in Seq(S), NEW e \in S
  PROVE  s \o Append(t, e) = Append(s \o t, e)
<1>1. <<e>> \in Seq(S) /\ s \o t \in Seq(S)
  BY ConcatProperties
<1>2. Append(t, e) = t \o <<e>> /\ Append(s \o t, e) = (s \o t) \o <<e>>
  BY <1>1, AppendIsConcat
<1>3. QED
  BY <1>1, <1>2, ConcatAssociative

\* Moving the head of the second part of a sequence to the end of the first
\* leaves the whole as it was.
LEMMA HeadMoves ==
  ASSUME NEW S, NEW s \in Seq(S), NEW t \in Seq(S), t # <<>>
  PROVE  Append(s, Head(t)) \o Tail(t) = s \o t
<1>1. Head(t) \in S /\ Tail(t) \in Seq(S)
  BY HeadTailProperties
<1>2. <<Head(t)>> \in Seq(S)
  BY <1>1
<1>3. Append(s, Head(t)) = s \o <<Head(t)>>
  BY <1>1, AppendIsConcat
<1>4. (s \o <<Head(t)>>) \o Tail(t) = s \o (<<Head(t)>> \o Tail(t))
  BY <1>1, <1>2, ConcatAssociative
<1>5. QED
  BY <1>3, <1>4, HeadThenTail

\* The numbers 1..k in order, with k + 1 appended, are the numbers 1..k+1.
LEMMA CountUp ==
  ASSUME NEW k \in Nat
  PROVE  /\ [n \in 1..k |-> n] \in Seq(Nat)
         /\ Append([n \in 1..k |-> n], k + 1) = [n \in 1..(k + 1) |-> n]
<1> DEFINE s == [n \in 1..k |-> n]
           t == [n \in 1..(k + 1) |-> n]
<1>1. s \in Seq(Nat) /\ Len(s) = k
  OBVIOUS
<1>2. t \in Seq(Nat) /\ Len(t) = k + 1
  OBVIOUS
<1>3. /\ Append(s, k + 1) \in Seq(Nat) /\ Len(Append(s, k + 1)) = k + 1
      /\ \A i \in 1..k : Append(s, k + 1)[i] = s[i]
      /\ Append(s, k + 1)[k + 1] = k + 1
  BY <1>1, AppendProperties
<1>4. \A i \in 1..(k + 1) : Append(s, k + 1)[i] = t[i]
  BY <1>1, <1>3
<1>5. QED
  BY <1>1, <1>2, <1>3, <1>4, SeqEqual

\* A sequence of length one.
LEMMA Singleton ==
  ASSUME NEW S, NEW s \in Seq(S), Len(s) = 1
  PROVE  s = <<s[1]>> /\ s[1] \in S
<1>1. s[1] \in S
  BY ElementOfSeq
<1>2. <<s[1]>> \in Seq(S) /\ Len(<<s[1]>>) = 1 /\ <<s[1]>>[1] = s[1]
  BY <1>1
<1>3. QED
  BY <1>1, <1>2, SeqEqual

\* A sequence of length zero.
LEMMA EmptyByLen ==
  ASSUME NEW S, NEW s \in Seq(S), Len(s) = 0
  PROVE  s = <<>>
  BY EmptySeq

------------------------------------------------------------------------------
(* Induction and recursion *)

\* Induction: a set that has 0, and n + 1 where it has n, has every number.  (The
\* library states it of a predicate; a set is a predicate that a proof can name.)
LEMMA Induction ==
  ASSUME NEW P, 0 \in P, \A n \in Nat : n \in P => n + 1 \in P
  PROVE  \A n \in Nat : n \in P
<1> DEFINE missing == {n \in Nat : n \notin P}
           less == OpToRel(<, Nat)
<1>1. \A x, y \in Nat : x < y => <<x, y>> \in less
  BY Zenon DEF OpToRel
<1>2. IsWellFoundedOn(less, Nat)
  BY NatLessThanWellFounded
<1> HIDE DEF less
<1>3. SUFFICES ASSUME missing # {} PROVE FALSE
  OBVIOUS
<1>4. missing \subseteq Nat
  OBVIOUS
<1>5. PICK x \in missing : \A y \in missing : ~ (<<y, x>> \in less)
  <2> HIDE DEF missing
  <2> QED BY <1>2, <1>3, <1>4, WFMin, Zenon
<1>6. x \in Nat /\ x # 0 /\ x \notin P
  OBVIOUS
<1>7. x - 1 \in Nat /\ x - 1 < x /\ (x - 1) + 1 = x
  BY <1>6
<1>8. x - 1 \notin P
  BY <1>6, <1>7
<1>9. x - 1 \in missing
  BY <1>7, <1>8
<1>10. <<x - 1, x>> \in less
  BY <1>1, <1>6, <1>7
<1> QED BY <1>5, <1>9, <1>10

\* h begins with a, and F[n] makes h[n + 1] of h[n].
Iterates(h, A, a, F) ==
    h \in [Nat -> A] /\ h[0] = a /\ \A n \in Nat : h[n + 1] = F[n][h[n]]

\* Definition by recursion.
LEMMA Recursion ==
  ASSUME NEW A, NEW a, a \in A, NEW F, F \in [Nat -> [A -> A]]
  PROVE  \E h : Iterates(h, A, a, F)
<1> DEFINE Upto(g, n) == /\ g \in [0..n -> A] /\ g[0] = a
                         /\ \A k \in 0..(n - 1) : g[k + 1] = F[k][g[k]]
           P == {n \in Nat : \E g : Upto(g, n)}
<1>1. 0 \in P
  <2>1. Upto([k \in 0..0 |-> a], 0)
    OBVIOUS
  <2> QED BY <2>1, Zenon
<1>2. ASSUME NEW n \in Nat, n \in P PROVE n + 1 \in P
  <2>1. PICK g : Upto(g, n)
    BY <1>2
  <2>2. g[n] \in A /\ F[n][g[n]] \in A
    BY <2>1
  <2> DEFINE e == F[n][g[n]]
             f == [k \in 0..(n + 1) |-> IF k = n + 1 THEN e ELSE g[k]]
  <2>3. e \in A /\ \A k \in 0..n : g[k] \in A
    BY <2>1, <2>2
  <2>4. f \in [0..(n + 1) -> A]
    <3> HIDE DEF e
    <3> QED BY <2>3
  <2>5. f[0] = a
    BY <2>1
  <2>6. ASSUME NEW k \in 0..n PROVE f[k + 1] = F[k][f[k]]
    <3>1. f[k] = g[k]
      BY <2>6
    <3>2. CASE k = n
      BY <3>1, <3>2
    <3>3. CASE k # n
      BY <3>1, <3>3, <2>1
    <3> QED BY <3>2, <3>3
  <2>7. Upto(f, n + 1)
    <3> HIDE DEF f
    <3> QED BY <2>4, <2>5, <2>6
  <2>8. n + 1 \in Nat
    OBVIOUS
  <2> HIDE DEF Upto
  <2> QED BY <2>7, <2>8, Zenon
<1>3. \A n \in Nat : n \in P
  <2> HIDE DEF P
  <2> QED BY <1>1, <1>2, Induction
<1> DEFINE G == [n \in Nat |-> CHOOSE g : Upto(g, n)]
<1>4. ASSUME NEW n \in Nat PROVE Upto(G[n], n)
  <2> HIDE DEF Upto
  <2>1. \E g : Upto(g, n)
    BY <1>3
  <2>2. G[n] = CHOOSE g : Upto(g, n)
    OBVIOUS
  <2> QED BY <2>1, <2>2, Zenon
<1> HIDE DEF G
\* The approximations agree.
<1>5. ASSUME NEW n \in Nat PROVE \A k \in Nat : k <= n => G[n][k] = G[n + 1][k]
  <2> DEFINE Q == {k \in Nat : k <= n => G[n][k] = G[n + 1][k]}
  <2>1. 0 \in Q
    BY <1>4
  <2>2. ASSUME NEW k \in Nat, k \in Q PROVE k + 1 \in Q
    <3>1. SUFFICES ASSUME k + 1 <= n PROVE G[n][k + 1] = G[n + 1][k + 1]
      OBVIOUS
    <3>2. G[n][k] = G[n + 1][k]
      BY <2>2, <3>1
    <3>3. k \in 0..(n - 1) /\ k \in 0..((n + 1) - 1)
      BY <3>1
    <3>4. G[n][k + 1] = F[k][G[n][k]]
      BY <1>4, <3>3
    <3>5. n + 1 \in Nat
      OBVIOUS
    <3>6. G[n + 1][k + 1] = F[k][G[n + 1][k]]
      BY <1>4, <3>3, <3>5
    <3> QED BY <3>2, <3>4, <3>6
  <2>3. \A k \in Nat : k \in Q
    <3> HIDE DEF Q
    <3> QED BY <2>1, <2>2, Induction
  <2> QED BY <2>3
<1> DEFINE h == [n \in Nat |-> G[n][n]]
<1>6. h \in [Nat -> A]
  BY <1>4
<1>7. h[0] = a
  BY <1>4
<1>8. ASSUME NEW n \in Nat PROVE h[n + 1] = F[n][h[n]]
  <2>1. G[n + 1][n + 1] = F[n][G[n + 1][n]]
    BY <1>4
  <2>2. n <= n
    OBVIOUS
  <2>3. G[n][n] = G[n + 1][n]
    BY <1>5, <2>2
  <2> QED BY <2>1, <2>3
<1>9. QED
  <2> HIDE DEF h
  <2>1. Iterates(h, A, a, F)
    BY <1>6, <1>7, <1>8 DEF Iterates
  <2> QED BY <2>1, Zenon

------------------------------------------------------------------------------
(* The elements of a kind *)

\* f[n] is what is selected of the first n elements of s.
Selects(f, s, kind) ==
    /\ f[0] = <<>>
    /\ \A n \in 1..Len(s) :
          f[n] = IF s[n] \in kind THEN Append(f[n - 1], s[n]) ELSE f[n - 1]

\* Such a function, with its type, that Selected ends with.
SelectedBy(f, S, s, kind) ==
    /\ f \in [0..Len(s) -> Seq(S)]
    /\ Selects(f, s, kind)
    /\ Selected(s, kind) = f[Len(s)]

\* Two functions that follow the recursion end alike.
LEMMA SelectsOnce ==
  ASSUME NEW S, NEW s \in Seq(S), NEW kind, NEW f, NEW g,
         Selects(f, s, kind), Selects(g, s, kind)
  PROVE  f[Len(s)] = g[Len(s)]
<1> DEFINE P == {n \in Nat : n <= Len(s) => f[n] = g[n]}
<1>1. Len(s) \in Nat
  OBVIOUS
<1>2. 0 \in P
  BY DEF Selects
<1>3. ASSUME NEW n \in Nat, n \in P PROVE n + 1 \in P
  <2>1. CASE n + 1 > Len(s)
    BY <1>1, <2>1
  <2>2. CASE n + 1 <= Len(s)
    <3>1. n <= Len(s) /\ n + 1 \in 1..Len(s) /\ (n + 1) - 1 = n
      BY <1>1, <2>2
    <3>2. f[n] = g[n]
      BY <1>3, <3>1
    <3>3. f[n + 1] = IF s[n + 1] \in kind THEN Append(f[n], s[n + 1]) ELSE f[n]
      BY <3>1 DEF Selects
    <3>4. g[n + 1] = IF s[n + 1] \in kind THEN Append(g[n], s[n + 1]) ELSE g[n]
      BY <3>1 DEF Selects
    <3>5. f[n + 1] = g[n + 1]
      BY <3>2, <3>3, <3>4
    <3>6. QED
      BY <3>5
  <2>3. QED
    BY <1>1, <2>1, <2>2
<1>4. \A n \in Nat : n \in P
  <2> HIDE DEF P
  <2> QED BY <1>2, <1>3, Induction
<1>5. QED
  BY <1>1, <1>4

\* There is such a function, and it tells what Selected is.
LEMMA SelectedByRecursion ==
  ASSUME NEW S, NEW s \in Seq(S), NEW kind
  PROVE  \E f : SelectedBy(f, S, s, kind)
<1> DEFINE A == Seq(S)
           a == <<>>
           F == [n \in Nat |-> [t \in A |->
                    IF n + 1 \in 1..Len(s) /\ s[n + 1] \in kind
                       THEN Append(t, s[n + 1]) ELSE t]]
           E(f) == f = [n \in 0..Len(s) |->
                          IF n = 0 THEN <<>>
                          ELSE IF s[n] \in kind THEN Append(f[n - 1], s[n])
                          ELSE f[n - 1]]
<1>1. Len(s) \in Nat
  OBVIOUS
<1>2. F \in [Nat -> [A -> A]]
  <2> SUFFICES ASSUME NEW n \in Nat, NEW t \in Seq(S),
                      n + 1 \in 1..Len(s) /\ s[n + 1] \in kind
               PROVE  Append(t, s[n + 1]) \in Seq(S)
    OBVIOUS
  <2>1. s[n + 1] \in S
    BY ElementOfSeq
  <2> QED BY <2>1, AppendProperties
<1>3. a \in A
  OBVIOUS
<1>4. PICK h : Iterates(h, A, a, F)
  <2> HIDE DEF F, A, a
  <2> QED BY <1>2, <1>3, Recursion
<1> DEFINE g == [n \in 0..Len(s) |-> h[n]]
<1>5. g \in [0..Len(s) -> A]
  BY <1>1, <1>4 DEF Iterates
<1>6. ASSUME NEW n \in 1..Len(s)
      PROVE  g[n] = IF s[n] \in kind THEN Append(g[n - 1], s[n]) ELSE g[n - 1]
  <2>1. n - 1 \in Nat /\ (n - 1) + 1 = n /\ n - 1 \in 0..Len(s)
    BY <1>1
  <2>2. h[n] = F[n - 1][h[n - 1]]
    BY <1>4, <2>1 DEF Iterates
  <2>3. g[n] = h[n] /\ g[n - 1] = h[n - 1] /\ h[n - 1] \in Seq(S)
    BY <1>4, <2>1 DEF Iterates
  <2>4. F[n - 1][h[n - 1]] =
           IF s[n] \in kind THEN Append(h[n - 1], s[n]) ELSE h[n - 1]
    BY <2>1, <2>3
  <2>5. QED
    BY <2>2, <2>3, <2>4
<1>7. g[0] = <<>>
  BY <1>1, <1>4 DEF Iterates
<1> HIDE DEF g
<1>8. Selects(g, s, kind)
  BY <1>6, <1>7, Zenon DEF Selects
<1>9. E(g)
  <2>1. g = [n \in 0..Len(s) |-> g[n]]
    BY <1>5
  <2>2. ASSUME NEW n \in 0..Len(s)
        PROVE  g[n] = IF n = 0 THEN <<>>
                      ELSE IF s[n] \in kind THEN Append(g[n - 1], s[n])
                      ELSE g[n - 1]
    <3>1. n = 0 \/ n \in 1..Len(s)
      BY <1>1
    <3>2. QED
      BY <1>6, <1>7, <3>1
  <2>3. QED
    BY <2>1, <2>2, Zenon
<1> DEFINE f == CHOOSE f : E(f)
<1>10. Selected(s, kind) = f[Len(s)]
  BY Zenon DEF Selected
<1>11. E(f)
  <2> HIDE DEF E
  <2> QED BY <1>9, Zenon
<1> HIDE DEF f
<1>12. Selects(f, s, kind)
  <2>1. f[0] = <<>>
    BY <1>1, <1>11
  <2>2. ASSUME NEW n \in 1..Len(s)
        PROVE  f[n] = IF s[n] \in kind THEN Append(f[n - 1], s[n]) ELSE f[n - 1]
    <3>1. n \in 0..Len(s) /\ n # 0
      BY <1>1
    <3>2. QED
      BY <1>11, <3>1, Zenon
  <2>3. QED
    BY <2>1, <2>2, Zenon DEF Selects
<1>13. f[Len(s)] = g[Len(s)]
  BY <1>8, <1>12, SelectsOnce
<1>14. SelectedBy(g, S, s, kind)
  BY <1>5, <1>8, <1>10, <1>13, Zenon DEF SelectedBy
<1>15. QED
  BY <1>14, Zenon

\* What Selected is, by a function that follows its recursion.
LEMMA SelectedIs ==
  ASSUME NEW S, NEW s \in Seq(S), NEW kind, NEW g, Selects(g, s, kind)
  PROVE  Selected(s, kind) = g[Len(s)]
BY SelectedByRecursion, SelectsOnce, Zenon DEF SelectedBy

\* Nothing is selected of an empty queue.
LEMMA SelectedOfNone ==
  ASSUME NEW kind
  PROVE  Selected(<<>>, kind) = <<>>
<1> DEFINE s == <<>>
           g == [n \in 0..0 |-> <<>>]
<1>1. s \in Seq({}) /\ Len(s) = 0
  OBVIOUS
<1> HIDE DEF s
<1>2. Selects(g, s, kind) /\ g[0] = <<>>
  BY <1>1 DEF Selects
<1> HIDE DEF g
<1>3. Selected(s, kind) = g[Len(s)]
  BY <1>1, <1>2, SelectedIs
<1>4. QED
  BY <1>1, <1>2, <1>3 DEF s

\* What is selected are elements of the queue.
LEMMA SelectedInSeq ==
  ASSUME NEW S, NEW s \in Seq(S), NEW kind
  PROVE  Selected(s, kind) \in Seq(S)
<1>1. PICK f : SelectedBy(f, S, s, kind)
  BY SelectedByRecursion
<1>2. Len(s) \in 0..Len(s)
  OBVIOUS
<1>3. QED
  BY <1>1, <1>2 DEF SelectedBy

\* A queue that is all of the kind is selected as it is.
LEMMA SelectedOfAll ==
  ASSUME NEW S, NEW s \in Seq(S), NEW kind, \A k \in 1..Len(s) : s[k] \in kind
  PROVE  Selected(s, kind) = s
<1> DEFINE g == [n \in 0..Len(s) |-> SubSeq(s, 1, n)]
<1>1. Len(s) \in Nat
  OBVIOUS
<1>2. g[0] = <<>>
  BY <1>1
<1>3. ASSUME NEW n \in 1..Len(s) PROVE g[n] = Append(g[n - 1], s[n])
  <2>1. n - 1 \in 0..Len(s) /\ n \in 0..Len(s)
    BY <1>1
  <2>2. SubSeq(s, 1, n) = Append(SubSeq(s, 1, n - 1), s[n])
    BY <1>1
  <2> QED BY <2>1, <2>2
<1>4. g[Len(s)] = s
  BY <1>1
<1> HIDE DEF g
<1>5. Selects(g, s, kind)
  BY <1>2, <1>3, Zenon DEF Selects
<1> QED BY <1>4, <1>5, SelectedIs

\* An element that is appended is selected last, if it is of the kind.
LEMMA SelectedOfAppend ==
  ASSUME NEW S, NEW s \in Seq(S), NEW e \in S, NEW kind
  PROVE  Selected(Append(s, e), kind) =
            IF e \in kind THEN Append(Selected(s, kind), e) ELSE Selected(s, kind)
<1>1. PICK f : SelectedBy(f, S, s, kind)
  BY SelectedByRecursion
<1> DEFINE l == IF e \in kind THEN Append(f[Len(s)], e) ELSE f[Len(s)]
           t == Append(s, e)
           g == [n \in 0..Len(s) + 1 |-> IF n = Len(s) + 1 THEN l ELSE f[n]]
<1>2. /\ Len(s) \in Nat /\ t \in Seq(S) /\ Len(t) = Len(s) + 1
      /\ \A n \in 1..Len(s) : t[n] = s[n]
      /\ t[Len(s) + 1] = e
  BY AppendProperties
<1> HIDE DEF t, l
<1>3. g[0] = <<>>
  BY <1>1, <1>2 DEF Selects, SelectedBy
<1>4. ASSUME NEW n \in 1..Len(t)
      PROVE  g[n] = IF t[n] \in kind THEN Append(g[n - 1], t[n]) ELSE g[n - 1]
  <2>1. CASE n = Len(s) + 1
    <3>1. g[n] = l /\ g[n - 1] = f[Len(s)] /\ t[n] = e
      BY <1>2, <2>1
    <3>2. QED
      BY <3>1 DEF l
  <2>2. CASE n # Len(s) + 1
    <3>1. n \in 1..Len(s)
      BY <1>2, <2>2
    <3>2. g[n] = f[n] /\ g[n - 1] = f[n - 1] /\ t[n] = s[n]
      BY <1>2, <2>2, <3>1
    <3>3. f[n] = IF s[n] \in kind THEN Append(f[n - 1], s[n]) ELSE f[n - 1]
      BY <1>1, <3>1, Zenon DEF Selects, SelectedBy
    <3>4. QED
      BY <3>2, <3>3
  <2>3. QED
    BY <2>1, <2>2
<1>5. g[Len(t)] = l
  BY <1>2
<1> HIDE DEF g
<1>6. Selects(g, t, kind)
  BY <1>3, <1>4, Zenon DEF Selects, SelectedBy
<1>7. Selected(t, kind) = l
  BY <1>2, <1>5, <1>6, SelectedIs
<1>8. QED
  BY <1>1, <1>7 DEF t, l, SelectedBy

\* The head of a queue is selected first, if it is of the kind.
LEMMA SelectedOfCons ==
  ASSUME NEW S, NEW s \in Seq(S), s # <<>>, NEW kind
  PROVE  Selected(s, kind) =
            IF Head(s) \in kind THEN <<Head(s)>> \o Selected(Tail(s), kind)
                                ELSE Selected(Tail(s), kind)
<1>1. /\ Head(s) \in S /\ Tail(s) \in Seq(S) /\ Len(Tail(s)) = Len(s) - 1
      /\ \A i \in 1..Len(Tail(s)) : Tail(s)[i] = s[i + 1]
  BY HeadTailProperties
<1>2. Len(s) \in Nat \ {0} /\ Head(s) = s[1]
  BY EmptySeq
<1>3. PICK f : SelectedBy(f, S, Tail(s), kind)
  BY <1>1, SelectedByRecursion
<1> DEFINE b == IF Head(s) \in kind THEN <<Head(s)>> ELSE <<>>
           g == [n \in 0..Len(s) |-> IF n = 0 THEN <<>> ELSE b \o f[n - 1]]
<1>4. b \in Seq(S)
  BY <1>1
<1>5. b \o <<>> = b
  BY <1>4, ConcatEmptySeq
<1> HIDE DEF b
<1>6. g[0] = <<>> /\ \A n \in 1..Len(s) : g[n] = b \o f[n - 1]
  <2>1. 0 \in 0..Len(s) /\ \A n \in 1..Len(s) : n \in 0..Len(s) /\ n # 0
    BY <1>2
  <2>2. QED
    BY <2>1, Zenon
<1> HIDE DEF g
<1>7. ASSUME NEW n \in 1..Len(s)
      PROVE  g[n] = IF s[n] \in kind THEN Append(g[n - 1], s[n]) ELSE g[n - 1]
  <2>1. CASE n = 1
    <3>1. n - 1 = 0 /\ s[n] = Head(s)
      BY <1>2, <2>1
    <3>2. g[n] = b
      BY <1>3, <1>5, <1>6, <3>1 DEF Selects, SelectedBy
    <3>3. Append(<<>>, Head(s)) = <<Head(s)>>
      BY <1>1
    <3>4. g[n - 1] = <<>>
      BY <1>6, <3>1
    <3>5. QED
      BY <3>1, <3>2, <3>3, <3>4 DEF b
  <2>2. CASE n # 1
    <3>1. /\ n - 1 \in 1..Len(Tail(s)) /\ Tail(s)[n - 1] = s[n]
          /\ (n - 1) - 1 = n - 2 /\ n - 2 \in 0..Len(Tail(s))
          /\ n - 1 \in 1..Len(s)
      BY <1>1, <1>2, <2>2
    <3>2. f[n - 1] = IF s[n] \in kind THEN Append(f[n - 2], s[n]) ELSE f[n - 2]
      BY <1>3, <3>1 DEF Selects, SelectedBy
    <3>3. g[n] = b \o f[n - 1] /\ g[n - 1] = b \o f[n - 2]
      BY <1>6, <3>1
    <3>4. f[n - 2] \in Seq(S) /\ s[n] \in S
      BY <1>2, <1>3, <3>1, ElementOfSeq DEF SelectedBy
    <3> DEFINE t == f[n - 2]
               e == s[n]
    <3>5. t \in Seq(S) /\ e \in S
      BY <3>4
    <3> HIDE DEF t, e
    <3>6. b \o Append(t, e) = Append(b \o t, e)
      BY <1>4, <3>5, AppendToConcat
    <3>7. QED
      BY <3>2, <3>3, <3>6 DEF t, e
  <2>3. QED
    BY <2>1, <2>2
<1>8. Selects(g, s, kind)
  BY <1>6, <1>7, Zenon DEF Selects, SelectedBy
<1>9. Selected(s, kind) = b \o Selected(Tail(s), kind)
  <2>1. Selected(s, kind) = g[Len(s)]
    BY <1>8, SelectedIs, Zenon
  <2>2. Selected(Tail(s), kind) = f[Len(Tail(s))]
    <3>1. Tail(s) \in Seq(S) /\ Selects(f, Tail(s), kind)
      BY <1>1, <1>3, Zenon DEF SelectedBy
    <3> QED BY <3>1, SelectedIs, Zenon
  <2>3. g[Len(s)] = b \o f[Len(s) - 1]
    BY <1>1, <1>2, <1>6
  <2> QED BY <1>2, <2>1, <2>2, <2>3
<1>10. Selected(Tail(s), kind) \in Seq(S)
  BY <1>1, SelectedInSeq
<1>11. <<>> \o Selected(Tail(s), kind) = Selected(Tail(s), kind)
  BY <1>10, ConcatEmptySeq
<1>12. QED
  BY <1>9, <1>11 DEF b

\* Of the first elements of a queue, the first of what is selected of all are
\* selected.
LEMMA SelectedOfPrefix ==
  ASSUME NEW S, NEW s \in Seq(S), NEW kind, NEW k \in 0..Len(s)
  PROVE  \E m \in 0..Len(Selected(s, kind)) :
            Selected(SubSeq(s, 1, k), kind) = SubSeq(Selected(s, kind), 1, m)
<1> DEFINE part == Selected(SubSeq(s, 1, k), kind)
           Up(n) == Selected(SubSeq(s, 1, k + n), kind)
           P == {n \in Nat : k + n <= Len(s) =>
                   \E m \in 0..Len(Up(n)) : part = SubSeq(Up(n), 1, m)}
<1>1. Len(s) \in Nat /\ k \in Nat
  OBVIOUS
<1>2. ASSUME NEW n \in Nat, k + n <= Len(s)
      PROVE  SubSeq(s, 1, k + n) \in Seq(S) /\ Up(n) \in Seq(S)
  <2>1. SubSeq(s, 1, k + n) \in Seq(S)
    BY <1>1, <1>2
  <2> QED BY <2>1, SelectedInSeq
<1>3. 0 \in P
  <2>1. k + 0 = k /\ k <= Len(s)
    BY <1>1
  <2>2. Up(0) = part /\ part \in Seq(S)
    BY <1>2, <2>1
  <2> HIDE DEF part, Up
  <2>3. Len(part) \in 0..Len(part) /\ part = SubSeq(part, 1, Len(part))
    BY <2>2
  <2> QED BY <2>2, <2>3
<1>4. ASSUME NEW n \in Nat, n \in P PROVE n + 1 \in P
  <2> SUFFICES ASSUME k + (n + 1) <= Len(s)
               PROVE  \E m \in 0..Len(Up(n + 1)) : part = SubSeq(Up(n + 1), 1, m)
    OBVIOUS
  <2>1. /\ k + n <= Len(s) /\ k + n \in Nat /\ k + n + 1 \in 1..Len(s)
        /\ k + (n + 1) = k + n + 1 /\ n + 1 \in Nat
    BY <1>1
  <2>2. PICK m \in 0..Len(Up(n)) : part = SubSeq(Up(n), 1, m)
    BY <1>4, <2>1
  <2> DEFINE t == SubSeq(s, 1, k + n)
             e == s[k + n + 1]
  <2>3. e \in S /\ t \in Seq(S) /\ Up(n) \in Seq(S)
    BY <1>2, <2>1, ElementOfSeq
  <2>4. SubSeq(s, 1, k + n + 1) = Append(t, e)
    <3>1. 1 \in 1..Len(s) /\ k + n + 1 \in 1..Len(s) /\ (k + n + 1) - 1 = k + n
      BY <1>1, <2>1
    <3>2. SubSeq(s, 1, k + n + 1) = SubSeq(s, 1, (k + n + 1) - 1) \o <<e>>
      BY <3>1, SubSeqRecursiveSecond
    <3> QED BY <2>3, <3>1, <3>2, AppendIsConcat
  <2>5. Up(n + 1) = IF e \in kind THEN Append(Up(n), e) ELSE Up(n)
    <3>1. Up(n + 1) = Selected(Append(t, e), kind)
      BY <2>1, <2>4
    <3>2. Selected(Append(t, e), kind) =
             IF e \in kind THEN Append(Selected(t, kind), e)
                           ELSE Selected(t, kind)
      <4> HIDE DEF t, e
      <4> QED BY <2>3, SelectedOfAppend
    <3> QED BY <3>1, <3>2
  <2> HIDE DEF Up, part, e, t
  <2>6. m \in 0..Len(Up(n + 1)) /\ SubSeq(Up(n + 1), 1, m) = SubSeq(Up(n), 1, m)
    <3>1. CASE e \notin kind
      BY <2>5, <3>1
    <3>2. CASE e \in kind
      <4> DEFINE u == Up(n)
                 v == Append(u, e)
                 a == SubSeq(u, 1, m)
                 b == SubSeq(v, 1, m)
      <4>1. u \in Seq(S) /\ Len(u) \in Nat /\ m \in 0..Len(u)
        BY <2>3
      <4> HIDE DEF u
      <4>2. v \in Seq(S) /\ Len(v) = Len(u) + 1 /\ \A j \in 1..Len(u) : v[j] = u[j]
        BY <2>3, <4>1
      <4> HIDE DEF v
      <4>3. a \in Seq(S) /\ Len(a) = m /\ \A j \in 1..m : a[j] = u[j]
        BY <4>1
      <4>4. b \in Seq(S) /\ Len(b) = m /\ \A j \in 1..m : b[j] = v[j]
        BY <4>1, <4>2
      <4> HIDE DEF a, b
      <4>5. \A j \in 1..m : j \in 1..Len(u)
        BY <4>1
      <4>6. a = b
        BY <4>2, <4>3, <4>4, <4>5, SeqEqual
      <4>7. m \in 0..Len(v)
        BY <4>1, <4>2
      <4> QED BY <2>5, <3>2, <4>6, <4>7 DEF a, b, u, v
    <3> QED BY <3>1, <3>2
  <2> QED BY <2>2, <2>6
<1>5. \A n \in Nat : n \in P
  <2> HIDE DEF P
  <2> QED BY <1>3, <1>4, Induction
<1>6. /\ Len(s) - k \in Nat /\ k + (Len(s) - k) = Len(s)
      /\ SubSeq(s, 1, Len(s)) = s
  BY <1>1
<1>7. k + (Len(s) - k) <= Len(s)
  BY <1>1
<1>8. Up(Len(s) - k) = Selected(s, kind)
  BY <1>6
<1>9. \E m \in 0..Len(Up(Len(s) - k)) : part = SubSeq(Up(Len(s) - k), 1, m)
  <2> HIDE DEF Up, part
  <2> QED BY <1>5, <1>6, <1>7
<1> QED BY <1>8, <1>9

------------------------------------------------------------------------------
(* What is left of a queue that loses a part *)

\* What is left of a sequence without its first elements.
LEMMA WithoutPrefix ==
  ASSUME NEW S, NEW s \in Seq(S), NEW m \in 0..Len(s)
  PROVE  /\ SubSeq(s, m + 1, Len(s)) \in Seq(S)
         /\ Len(SubSeq(s, m + 1, Len(s))) = Len(s) - m
         /\ \A i \in 1..Len(SubSeq(s, m + 1, Len(s))) :
               SubSeq(s, m + 1, Len(s))[i] = s[m + i]
<1>1. Len(s) \in Nat
  OBVIOUS
<1>2. CASE m = Len(s)
  <2>1. SubSeq(s, m + 1, Len(s)) = <<>>
    BY <1>1, <1>2
  <2> QED BY <1>1, <1>2, <2>1
<1>3. CASE m # Len(s)
  <2> DEFINE t == SubSeq(s, m + 1, Len(s))
  <2>1. /\ m + 1 \in 1..Len(s) /\ Len(s) \in 1..Len(s)
        /\ \A k \in (m + 1)..Len(s) : s[k] \in S
    BY <1>1, <1>3, ElementOfSeq
  <2>2. t = [i \in 1..(Len(s) - m) |-> s[m + i]]
    BY <1>1, <2>1
  <2>3. Len(s) - m \in Nat /\ \A i \in 1..(Len(s) - m) : m + i \in (m + 1)..Len(s)
    BY <1>1
  <2> HIDE DEF t
  <2>4. t \in Seq(S) /\ Len(t) = Len(s) - m /\ \A i \in 1..Len(t) : t[i] = s[m + i]
    BY <2>1, <2>2, <2>3
  <2> QED BY <2>4 DEF t
<1> QED BY <1>2, <1>3

\* Without its first element it is its tail.
LEMMA WithoutFirst ==
  ASSUME NEW S, NEW s \in Seq(S), s # <<>>
  PROVE  /\ 1 \in 1..Len(s)
         /\ SubSeq(s, 1, 0) \o SubSeq(s, 2, Len(s)) = Tail(s)
<1>1. Len(s) \in Nat /\ Len(s) # 0
  BY EmptySeq
<1>2. SubSeq(s, 1, 0) = <<>>
  BY <1>1
<1>3. SubSeq(s, 2, Len(s)) = Tail(s) /\ Tail(s) \in Seq(S)
  BY TailIsSubSeq, HeadTailProperties
<1> QED BY <1>1, <1>2, <1>3, ConcatEmptySeq

\* Without what follows its first m elements it is those.
LEMMA WithoutRest ==
  ASSUME NEW S, NEW s \in Seq(S), NEW m \in 0..Len(s)
  PROVE  SubSeq(s, 1, m) \o SubSeq(s, Len(s) + 1, Len(s)) = SubSeq(s, 1, m)
<1>1. Len(s) \in Nat
  OBVIOUS
<1>2. SubSeq(s, Len(s) + 1, Len(s)) = <<>>
  BY <1>1
<1>3. SubSeq(s, 1, m) \in Seq(S)
  BY <1>1
<1> QED BY <1>2, <1>3, ConcatEmptySeq

------------------------------------------------------------------------------
(* One sequence after the other *)

\* f[n] is the first n sequences of ss, one after the other.
Flattens(f, S, ss) ==
    /\ f \in [0..Len(ss) -> Seq(S)]
    /\ f[0] = <<>>
    /\ \A n \in 1..Len(ss) : f[n] = f[n - 1] \o ss[n]

\* There is such a function, and it tells what FlattenSeq is.
LEMMA FlattenedBy ==
  ASSUME NEW S, NEW ss \in Seq(Seq(S))
  PROVE  \E f : Flattens(f, S, ss) /\ FlattenSeq(ss) = f[Len(ss)]
<1> DEFINE A == Seq(S)
           a == <<>>
           F == [n \in Nat |-> [t \in A |->
                    IF n + 1 \in 1..Len(ss) THEN t \o ss[n + 1] ELSE t]]
           E(f) == f = [i \in 1..Len(ss) |->
                          IF i = 1 THEN ss[i] ELSE f[i - 1] \o ss[i]]
<1>1. Len(ss) \in Nat /\ \A n \in 1..Len(ss) : ss[n] \in Seq(S)
  BY ElementOfSeq
<1>2. F \in [Nat -> [A -> A]]
  BY <1>1, ConcatProperties
<1>3. a \in A
  OBVIOUS
<1>4. PICK h : Iterates(h, A, a, F)
  <2> HIDE DEF F, A, a
  <2> QED BY <1>2, <1>3, Recursion
<1>5. \A n \in 0..Len(ss) : h[n] \in Seq(S)
  BY <1>1, <1>4 DEF Iterates
<1>6. ASSUME NEW n \in 1..Len(ss) PROVE h[n] = h[n - 1] \o ss[n]
  <2>1. n - 1 \in Nat /\ (n - 1) + 1 = n /\ n - 1 \in 0..Len(ss)
    BY <1>1
  <2>2. h[n] = F[n - 1][h[n - 1]]
    BY <1>4, <2>1 DEF Iterates
  <2>3. h[n - 1] \in A
    BY <1>5, <2>1
  <2>4. F[n - 1][h[n - 1]] = h[n - 1] \o ss[n]
    BY <2>1, <2>3
  <2> QED BY <2>2, <2>4
<1>7. h[0] = <<>>
  BY <1>4 DEF Iterates
<1>11. 1 \in 1..Len(ss) => h[1] = <<>> \o ss[1]
  <2>1. 1 - 1 = 0
    OBVIOUS
  <2> HIDE DEF a
  <2> QED BY <1>6, <1>7, <2>1
<1> DEFINE g == [n \in 0..Len(ss) |-> h[n]]
           f == CHOOSE f : E(f)
<1>8. Flattens(g, S, ss) /\ g[Len(ss)] = h[Len(ss)]
  <2>1. g \in [0..Len(ss) -> Seq(S)] /\ g[0] = <<>> /\ g[Len(ss)] = h[Len(ss)]
    BY <1>1, <1>5, <1>7
  <2>2. ASSUME NEW n \in 1..Len(ss) PROVE g[n] = g[n - 1] \o ss[n]
    <3>1. n \in 0..Len(ss) /\ n - 1 \in 0..Len(ss)
      BY <1>1
    <3>2. g[n] = h[n] /\ g[n - 1] = h[n - 1]
      BY <3>1
    <3> QED BY <1>6, <3>2
  <2> HIDE DEF g
  <2> QED BY <2>1, <2>2 DEF Flattens
<1>9. CASE Len(ss) = 0
  <2>1. ss = <<>> /\ FlattenSeq(ss) = ss
    BY <1>9, EmptySeq DEF FlattenSeq
  <2> QED BY <1>7, <1>8, <1>9, <2>1
<1>10. CASE Len(ss) # 0
  <2>1. FlattenSeq(ss) = f[Len(ss)]
    BY <1>10, Zenon DEF FlattenSeq
  <2>2. E(f)
    <3> DEFINE e == [i \in 1..Len(ss) |-> h[i]]
    <3>1. ASSUME NEW i \in 1..Len(ss)
          PROVE  e[i] = IF i = 1 THEN ss[i] ELSE e[i - 1] \o ss[i]
      <4>1. CASE i = 1
        <5>1. h[1] = <<>> \o ss[1]
          BY <1>11, <4>1
        <5>2. <<>> \o ss[1] = ss[1]
          BY <1>1, <4>1, ConcatEmptySeq
        <5> QED BY <4>1, <5>1, <5>2
      <4>2. CASE i # 1
        <5>1. i - 1 \in 1..Len(ss)
          BY <1>1, <4>2
        <5> QED BY <1>6, <4>2, <5>1
      <4> QED BY <4>1, <4>2
    <3>2. e = [i \in 1..Len(ss) |-> e[i]]
      OBVIOUS
    <3> HIDE DEF e
    <3>3. E(e)
      BY <3>1, <3>2, Zenon
    <3> HIDE DEF E
    <3> QED BY <3>3, Zenon
  <2> HIDE DEF f
  <2>3. ASSUME NEW i \in 1..Len(ss)
        PROVE  f[i] = IF i = 1 THEN ss[i] ELSE f[i - 1] \o ss[i]
    BY <2>2, Zenon
  <2> DEFINE P == {n \in Nat : n + 1 <= Len(ss) => f[n + 1] = h[n + 1]}
  <2>4. 0 \in P
    <3>1. 1 \in 1..Len(ss)
      BY <1>1, <1>10
    <3>2. f[1] = ss[1] /\ h[1] = <<>> \o ss[1]
      BY <1>11, <2>3, <3>1
    <3>3. <<>> \o ss[1] = ss[1]
      BY <1>1, <3>1, ConcatEmptySeq
    <3> QED BY <3>2, <3>3
  <2>5. ASSUME NEW n \in Nat, n \in P PROVE n + 1 \in P
    <3>1. SUFFICES ASSUME n + 2 <= Len(ss) PROVE f[n + 2] = h[n + 2]
      BY <1>1
    <3>2. n + 2 \in 1..Len(ss) /\ n + 2 # 1 /\ (n + 2) - 1 = n + 1
      BY <1>1, <3>1
    <3>3. f[n + 1] = h[n + 1]
      BY <1>1, <2>5, <3>1
    <3>4. f[n + 2] = f[n + 1] \o ss[n + 2]
      BY <2>3, <3>2
    <3>5. h[n + 2] = h[n + 1] \o ss[n + 2]
      BY <1>6, <3>2
    <3> QED BY <3>3, <3>4, <3>5
  <2>6. \A n \in Nat : n \in P
    <3> HIDE DEF P
    <3> QED BY <2>4, <2>5, Induction
  <2>7. /\ Len(ss) - 1 \in Nat /\ (Len(ss) - 1) + 1 = Len(ss)
        /\ Len(ss) <= Len(ss)
    BY <1>1, <1>10
  <2>8. f[Len(ss)] = h[Len(ss)]
    <3>1. Len(ss) - 1 \in P
      <4> HIDE DEF P
      <4> QED BY <2>6, <2>7
    <3> QED BY <2>7, <3>1
  <2> QED BY <1>8, <2>1, <2>8
<1> QED BY <1>9, <1>10

\* It tells what FlattenSeq is of each prefix, and a prefix of it is one of the whole.
LEMMA FlattenOfPrefix ==
  ASSUME NEW S, NEW ss \in Seq(Seq(S)), NEW f, Flattens(f, S, ss),
         NEW k \in 0..Len(ss)
  PROVE  /\ FlattenSeq(SubSeq(ss, 1, k)) = f[k]
         /\ \A m \in k..Len(ss) :
               Len(f[k]) <= Len(f[m]) /\ \A i \in 1..Len(f[k]) : f[m][i] = f[k][i]
<1> DEFINE tt == SubSeq(ss, 1, k)
<1>1. Len(ss) \in Nat /\ \A n \in 1..Len(ss) : ss[n] \in Seq(S)
  BY ElementOfSeq
<1>2. tt \in Seq(Seq(S)) /\ Len(tt) = k /\ \A i \in 1..k : tt[i] = ss[i]
  BY <1>1
<1> HIDE DEF tt
<1>3. FlattenSeq(tt) = f[k]
  <2>1. PICK g : Flattens(g, S, tt) /\ FlattenSeq(tt) = g[k]
    BY <1>2, FlattenedBy
  <2> DEFINE P == {n \in Nat : n <= k => g[n] = f[n]}
  <2>2. 0 \in P
    BY <2>1 DEF Flattens
  <2>3. ASSUME NEW n \in Nat, n \in P PROVE n + 1 \in P
    <3>1. SUFFICES ASSUME n + 1 <= k PROVE g[n + 1] = f[n + 1]
      OBVIOUS
    <3>2. /\ n + 1 \in 1..k /\ n + 1 \in 1..Len(ss) /\ (n + 1) - 1 = n
          /\ g[n] = f[n]
      BY <1>1, <2>3, <3>1
    <3>3. g[n + 1] = g[n] \o tt[n + 1]
      BY <1>2, <2>1, <3>2 DEF Flattens
    <3>4. f[n + 1] = f[n] \o ss[n + 1]
      BY <3>2 DEF Flattens
    <3> QED BY <1>2, <3>2, <3>3, <3>4
  <2>4. \A n \in Nat : n \in P
    <3> HIDE DEF P
    <3> QED BY <2>2, <2>3, Induction
  <2> QED BY <2>1, <2>4
<1>4. \A n \in 0..Len(ss) : f[n] \in Seq(S)
  BY DEF Flattens
<1> DEFINE Q == {n \in Nat : k + n <= Len(ss) =>
                    /\ Len(f[k]) <= Len(f[k + n])
                    /\ \A i \in 1..Len(f[k]) : f[k + n][i] = f[k][i]}
<1>5. 0 \in Q
  BY <1>4
<1>6. ASSUME NEW n \in Nat, n \in Q PROVE n + 1 \in Q
  <2>1. SUFFICES ASSUME k + (n + 1) <= Len(ss)
                 PROVE  /\ Len(f[k]) <= Len(f[k + (n + 1)])
                        /\ \A i \in 1..Len(f[k]) : f[k + (n + 1)][i] = f[k][i]
    <3>1. n + 1 \in Nat
      OBVIOUS
    <3> QED BY <3>1, Zenon
  <2> DEFINE u == f[k + n]
             v == ss[k + (n + 1)]
             w == f[k + (n + 1)]
  <2>2. /\ k + (n + 1) \in 1..Len(ss) /\ (k + (n + 1)) - 1 = k + n
        /\ k + n \in 0..Len(ss) /\ k + n <= Len(ss)
    BY <1>1, <2>1
  <2>3. Len(f[k]) <= Len(u) /\ \A i \in 1..Len(f[k]) : u[i] = f[k][i]
    BY <1>6, <2>2
  <2>4. w = u \o v
    BY <2>2 DEF Flattens
  <2>5. u \in Seq(S) /\ v \in Seq(S) /\ f[k] \in Seq(S)
    BY <1>1, <1>4, <2>2
  <2> HIDE DEF u, v, w
  <2>6. /\ Len(w) = Len(u) + Len(v)
        /\ \A i \in 1..Len(u) : w[i] = u[i]
    BY <2>4, <2>5, ConcatProperties
  <2>7. Len(f[k]) \in Nat /\ Len(u) \in Nat /\ Len(v) \in Nat
    BY <2>5
  <2>8. Len(f[k]) <= Len(w) /\ \A i \in 1..Len(f[k]) : w[i] = f[k][i]
    BY <2>3, <2>6, <2>7
  <2> QED BY <2>8 DEF w
<1>7. \A n \in Nat : n \in Q
  <2> HIDE DEF Q
  <2> QED BY <1>5, <1>6, Induction
<1>8. ASSUME NEW m \in k..Len(ss)
      PROVE  Len(f[k]) <= Len(f[m]) /\ \A i \in 1..Len(f[k]) : f[m][i] = f[k][i]
  <2>1. m - k \in Nat /\ k + (m - k) = m /\ m <= Len(ss)
    BY <1>1
  <2>2. m - k \in Q
    <3> HIDE DEF Q
    <3> QED BY <1>7, <2>1
  <2> QED BY <2>1, <2>2
<1> QED BY <1>3, <1>8 DEF tt

\* What is made of sequences over a set is a sequence over it.
LEMMA FlattenInSeq ==
  ASSUME NEW S, NEW ss \in Seq(Seq(S))
  PROVE  FlattenSeq(ss) \in Seq(S)
<1>1. PICK f : Flattens(f, S, ss) /\ FlattenSeq(ss) = f[Len(ss)]
  BY FlattenedBy
<1>2. Len(ss) \in 0..Len(ss)
  OBVIOUS
<1> QED BY <1>1, <1>2 DEF Flattens

\* One more sequence goes behind the others.
LEMMA FlattenOfAppend ==
  ASSUME NEW S, NEW ss \in Seq(Seq(S)), NEW s \in Seq(S)
  PROVE  FlattenSeq(Append(ss, s)) = FlattenSeq(ss) \o s
<1> DEFINE tt == Append(ss, s)
           n == Len(ss)
<1>1. /\ tt \in Seq(Seq(S)) /\ Len(tt) = n + 1 /\ tt[n + 1] = s /\ n \in Nat
      /\ \A i \in 1..n : tt[i] = ss[i]
  BY AppendProperties
<1> HIDE DEF tt, n
<1>2. PICK f : Flattens(f, S, tt) /\ FlattenSeq(tt) = f[n + 1]
  BY <1>1, FlattenedBy
<1>3. f[n + 1] = f[n] \o s
  <2>1. n + 1 \in 1..Len(tt) /\ (n + 1) - 1 = n
    BY <1>1
  <2> QED BY <1>1, <1>2, <2>1 DEF Flattens
<1>4. SubSeq(tt, 1, n) = ss
  <2>1. /\ SubSeq(tt, 1, n) \in Seq(Seq(S)) /\ Len(SubSeq(tt, 1, n)) = n
        /\ \A i \in 1..n : SubSeq(tt, 1, n)[i] = tt[i]
    BY <1>1
  <2> QED BY <1>1, <2>1, SeqEqual DEF n
<1>5. FlattenSeq(SubSeq(tt, 1, n)) = f[n]
  <2>1. n \in 0..Len(tt)
    BY <1>1
  <2> QED BY <1>1, <1>2, <2>1, FlattenOfPrefix
<1> QED BY <1>2, <1>3, <1>4, <1>5 DEF tt

\* Where the first k of the sequences end in the whole.
EndOfFirst(ss, k) == Len(FlattenSeq(SubSeq(ss, 1, k)))

\* The next one begins there.
LEMMA FlattenAt ==
  ASSUME NEW S, NEW ss \in Seq(Seq(S)), NEW k \in 0..(Len(ss) - 1)
  PROVE  /\ EndOfFirst(ss, k) \in Nat
         /\ EndOfFirst(ss, k + 1) = EndOfFirst(ss, k) + Len(ss[k + 1])
         /\ EndOfFirst(ss, k + 1) <= Len(FlattenSeq(ss))
         /\ \A i \in 1..Len(ss[k + 1]) :
               FlattenSeq(ss)[EndOfFirst(ss, k) + i] = ss[k + 1][i]
<1> DEFINE u == FlattenSeq(SubSeq(ss, 1, k))
           v == FlattenSeq(SubSeq(ss, 1, k + 1))
           w == FlattenSeq(ss)
<1>1. /\ Len(ss) \in Nat /\ k \in 0..Len(ss) /\ k + 1 \in 0..Len(ss)
      /\ k + 1 \in 1..Len(ss) /\ Len(ss) \in (k + 1)..Len(ss) /\ (k + 1) - 1 = k
  OBVIOUS
<1>2. PICK f : Flattens(f, S, ss) /\ FlattenSeq(ss) = f[Len(ss)]
  BY FlattenedBy
<1>3. u = f[k] /\ v = f[k + 1] /\ w = f[Len(ss)]
  BY <1>1, <1>2, FlattenOfPrefix
<1>4. Len(v) <= Len(w) /\ \A i \in 1..Len(v) : w[i] = v[i]
  BY <1>1, <1>2, <1>3, FlattenOfPrefix
<1>5. v = u \o ss[k + 1]
  BY <1>1, <1>2, <1>3 DEF Flattens
<1> HIDE DEF u, v, w
<1>6. u \in Seq(S) /\ ss[k + 1] \in Seq(S)
  BY <1>1, <1>2, <1>3, ElementOfSeq DEF Flattens
<1> DEFINE t == ss[k + 1]
<1> HIDE DEF t
<1>7. /\ Len(v) = Len(u) + Len(t) /\ Len(u) \in Nat /\ Len(t) \in Nat
      /\ \A i \in 1..Len(t) : v[Len(u) + i] = t[i]
  <2>1. u \in Seq(S) /\ t \in Seq(S) /\ v = u \o t
    BY <1>5, <1>6 DEF t
  <2> QED BY <2>1, Concatenated
<1>8. ASSUME NEW i \in 1..Len(t) PROVE w[Len(u) + i] = t[i]
  <2>1. Len(u) + i \in 1..Len(v)
    BY <1>7
  <2> QED BY <1>4, <1>7, <2>1
<1> QED BY <1>4, <1>7, <1>8, Zenon DEF t, u, v, w, EndOfFirst

------------------------------------------------------------------------------
(* A queue behind another *)

\* What leaves the two together leaves the one in front.
LEMMA FrontLeaves ==
  ASSUME NEW S, NEW s \in Seq(S), NEW t \in Seq(S), s # <<>>
  PROVE  s \o t # <<>> /\ Head(s \o t) = Head(s) /\ Tail(s \o t) = Tail(s) \o t
<1>1. Head(s) \in S /\ Tail(s) \in Seq(S)
  BY HeadTailProperties
<1>2. <<Head(s)>> \in Seq(S)
  BY <1>1
<1>3. <<Head(s)>> \o Tail(s) = s
  BY HeadThenTail
<1>4. (<<Head(s)>> \o Tail(s)) \o t = <<Head(s)>> \o (Tail(s) \o t)
  BY <1>1, <1>2, ConcatAssociative
<1>5. s \o t = <<Head(s)>> \o (Tail(s) \o t)
  BY <1>3, <1>4
<1>6. Tail(s) \o t \in Seq(S)
  BY <1>1, ConcatProperties
<1> QED BY <1>1, <1>5, <1>6, HeadTailOfCons

\* What the one behind loses, the two together lose in its place.
LEMMA LossBehind ==
  ASSUME NEW S, NEW s \in Seq(S), NEW t \in Seq(S),
         NEW i \in 1..Len(t), NEW j \in 1..Len(t), i <= j
  PROVE  /\ Len(s) + i \in 1..Len(s \o t) /\ Len(s) + j \in 1..Len(s \o t)
         /\ s \o (SubSeq(t, 1, i - 1) \o SubSeq(t, j + 1, Len(t)))
              = SubSeq(s \o t, 1, (Len(s) + i) - 1)
                  \o SubSeq(s \o t, (Len(s) + j) + 1, Len(s \o t))
<1> DEFINE u == s \o t
           a == SubSeq(t, 1, i - 1)
           b == SubSeq(t, j + 1, Len(t))
           c == SubSeq(u, 1, (Len(s) + i) - 1)
           d == SubSeq(u, (Len(s) + j) + 1, Len(u))
<1>1. /\ Len(s) \in Nat /\ Len(t) \in Nat /\ i \in Nat \ {0} /\ j \in Nat \ {0}
      /\ i <= Len(t) /\ j <= Len(t)
  OBVIOUS
<1>2. /\ u \in Seq(S) /\ Len(u) = Len(s) + Len(t)
      /\ \A k \in 1..Len(s) : u[k] = s[k]
      /\ \A k \in 1..Len(t) : u[Len(s) + k] = t[k]
  BY ConcatProperties
<1> HIDE DEF u
<1>3. /\ a \in Seq(S) /\ Len(a) = i - 1 /\ \A k \in 1..(i - 1) : a[k] = t[k]
      /\ c \in Seq(S) /\ Len(c) = (Len(s) + i) - 1
      /\ \A k \in 1..((Len(s) + i) - 1) : c[k] = u[k]
  BY <1>1, <1>2
<1>4. /\ b \in Seq(S) /\ Len(b) = Len(t) - j
      /\ \A k \in 1..(Len(t) - j) : b[k] = t[j + k]
  <2>1. j \in 0..Len(t)
    BY <1>1
  <2> QED BY <2>1, WithoutPrefix
<1>5. /\ d \in Seq(S) /\ Len(d) = Len(t) - j
      /\ \A k \in 1..(Len(t) - j) : d[k] = u[(Len(s) + j) + k]
  <2>1. Len(s) + j \in 0..Len(u) /\ Len(u) - (Len(s) + j) = Len(t) - j
    BY <1>1, <1>2
  <2> DEFINE m == Len(s) + j
  <2>2. u \in Seq(S) /\ m \in 0..Len(u) /\ Len(u) - m = Len(t) - j
    BY <1>2, <2>1
  <2>3. d = SubSeq(u, m + 1, Len(u))
    OBVIOUS
  <2> HIDE DEF m, d
  <2>4. /\ d \in Seq(S) /\ Len(d) = Len(u) - m
        /\ \A k \in 1..Len(d) : d[k] = u[m + k]
    BY <2>2, <2>3, WithoutPrefix
  <2>5. Len(d) = Len(t) - j /\ \A k \in 1..(Len(t) - j) : d[k] = u[m + k]
    BY <2>2, <2>4
  <2> QED BY <2>4, <2>5 DEF m
<1> HIDE DEF a, b, c, d
<1>6. b = d
  <2>1. ASSUME NEW k \in 1..(Len(t) - j) PROVE b[k] = d[k]
    <3>1. j + k \in 1..Len(t) /\ (Len(s) + j) + k = Len(s) + (j + k)
      BY <1>1
    <3>2. u[Len(s) + (j + k)] = t[j + k]
      BY <1>2, <3>1
    <3>3. b[k] = t[j + k] /\ d[k] = u[(Len(s) + j) + k]
      BY <1>4, <1>5
    <3> QED BY <3>1, <3>2, <3>3
  <2> QED BY <1>4, <1>5, <2>1, SeqEqual
<1>7. s \o a = c
  <2>1. /\ s \o a \in Seq(S) /\ Len(s \o a) = (Len(s) + i) - 1
        /\ \A k \in 1..Len(s) : (s \o a)[k] = s[k]
        /\ \A k \in 1..(i - 1) : (s \o a)[Len(s) + k] = a[k]
    <3>1. Len(s) + (i - 1) = (Len(s) + i) - 1 /\ Len(a) = i - 1 /\ a \in Seq(S)
      BY <1>1, <1>3
    <3>2. /\ s \o a \in Seq(S) /\ Len(s \o a) = Len(s) + Len(a)
          /\ \A k \in 1..Len(s) : (s \o a)[k] = s[k]
          /\ \A k \in 1..Len(a) : (s \o a)[Len(s) + k] = a[k]
      <4>1. ASSUME NEW x \in Seq(S)
            PROVE  /\ s \o x \in Seq(S) /\ Len(s \o x) = Len(s) + Len(x)
                   /\ \A k \in 1..Len(s) : (s \o x)[k] = s[k]
                   /\ \A k \in 1..Len(x) : (s \o x)[Len(s) + k] = x[k]
        BY ConcatProperties
      <4> QED BY <3>1, <4>1, Zenon
    <3> QED BY <3>1, <3>2
  <2> DEFINE v == s \o a
  <2> HIDE DEF v
  <2>2. ASSUME NEW k \in 1..((Len(s) + i) - 1) PROVE v[k] = c[k]
    <3>1. c[k] = u[k]
      BY <1>3
    <3>2. CASE k <= Len(s)
      <4>1. k \in 1..Len(s)
        BY <1>1, <3>2
      <4>2. v[k] = s[k]
        BY <2>1, <4>1 DEF v
      <4>3. u[k] = s[k]
        BY <1>2, <4>1
      <4> QED BY <3>1, <4>2, <4>3
    <3>3. CASE k > Len(s)
      <4>1. PICK m \in 1..(i - 1) : k = Len(s) + m
        <5>1. k - Len(s) \in 1..(i - 1) /\ k = Len(s) + (k - Len(s))
          BY <1>1, <3>3
        <5> QED BY <5>1
      <4>2. m \in 1..Len(t)
        BY <1>1, <4>1
      <4>3. v[k] = a[m] /\ a[m] = t[m]
        BY <1>3, <2>1, <4>1 DEF v
      <4>4. u[k] = t[m]
        BY <1>2, <4>1, <4>2
      <4> QED BY <3>1, <4>3, <4>4
    <3> QED BY <1>1, <3>2, <3>3
  <2>3. v \in Seq(S) /\ Len(v) = (Len(s) + i) - 1
    BY <2>1 DEF v
  <2>4. v = c
    BY <1>3, <2>2, <2>3, SeqEqual
  <2> QED BY <2>4 DEF v
<1>8. s \o (a \o b) = (s \o a) \o b
  <2>1. a \in Seq(S) /\ b \in Seq(S)
    BY <1>3, <1>4
  <2> QED BY <2>1
<1>9. Len(s) + i \in 1..Len(u) /\ Len(s) + j \in 1..Len(u)
  BY <1>1, <1>2
<1> QED BY <1>6, <1>7, <1>8, <1>9 DEF a, b, c, d, u

\* What is left of a sequence behind its first elements grows with it, and its
\* head is the next of them.
LEMMA RestGrows ==
  ASSUME NEW S, NEW s \in Seq(S), NEW e \in S, NEW n \in 0..Len(s)
  PROVE  SubSeq(Append(s, e), n + 1, Len(Append(s, e)))
           = Append(SubSeq(s, n + 1, Len(s)), e)
<1> DEFINE u == Append(s, e)
           a == SubSeq(u, n + 1, Len(u))
           b == SubSeq(s, n + 1, Len(s))
           c == Append(b, e)
<1>1. Len(s) \in Nat /\ n \in Nat /\ n <= Len(s)
  OBVIOUS
<1>2. /\ u \in Seq(S) /\ Len(u) = Len(s) + 1 /\ u[Len(s) + 1] = e
      /\ \A k \in 1..Len(s) : u[k] = s[k]
  BY AppendProperties
<1> HIDE DEF u
<1>3. /\ a \in Seq(S) /\ Len(a) = Len(u) - n
      /\ \A k \in 1..Len(a) : a[k] = u[n + k]
  <2>1. n \in 0..Len(u)
    BY <1>1, <1>2
  <2> QED BY <1>2, <2>1, WithoutPrefix
<1>4. /\ b \in Seq(S) /\ Len(b) = Len(s) - n
      /\ \A k \in 1..Len(b) : b[k] = s[n + k]
  BY WithoutPrefix
<1> HIDE DEF a, b
<1>5. /\ c \in Seq(S) /\ Len(c) = Len(b) + 1 /\ c[Len(b) + 1] = e
      /\ \A k \in 1..Len(b) : c[k] = b[k]
  BY <1>4, AppendProperties
<1> HIDE DEF c
<1>6. /\ Len(a) = (Len(s) - n) + 1 /\ Len(c) = (Len(s) - n) + 1
      /\ Len(b) = Len(s) - n
  BY <1>1, <1>2, <1>3, <1>4, <1>5
<1>7. ASSUME NEW k \in 1..Len(a) PROVE a[k] = c[k]
  <2>1. a[k] = u[n + k]
    BY <1>3
  <2>2. CASE k = (Len(s) - n) + 1
    <3>1. n + k = Len(s) + 1 /\ k = Len(b) + 1
      BY <1>1, <1>4, <2>2
    <3> QED BY <1>2, <1>5, <2>1, <3>1
  <2>3. CASE k # (Len(s) - n) + 1
    <3>1. k \in 1..Len(b) /\ n + k \in 1..Len(s)
      BY <1>1, <1>6, <1>7, <2>3
    <3>2. c[k] = b[k] /\ b[k] = s[n + k] /\ u[n + k] = s[n + k]
      BY <1>2, <1>4, <1>5, <3>1
    <3> QED BY <2>1, <3>2
  <2> QED BY <2>2, <2>3
<1>8. a = c
  BY <1>3, <1>5, <1>6, <1>7, SeqEqual
<1> QED BY <1>8 DEF a, b, c, u

\* What is left behind one element more is what is left without its head: a queue
\* that is read from the front.
LEMMA RestShrinks ==
  ASSUME NEW S, NEW s \in Seq(S), NEW n \in 0..(Len(s) - 1)
  PROVE  /\ SubSeq(s, n + 1, Len(s)) # <<>>
         /\ Head(SubSeq(s, n + 1, Len(s))) = s[n + 1]
         /\ Tail(SubSeq(s, n + 1, Len(s))) = SubSeq(s, (n + 1) + 1, Len(s))
<1> DEFINE a == SubSeq(s, n + 1, Len(s))
           b == SubSeq(s, (n + 1) + 1, Len(s))
<1>1. Len(s) \in Nat /\ n \in 0..Len(s) /\ n + 1 \in 0..Len(s) /\ n \in Nat
      /\ n < Len(s)
  OBVIOUS
<1>2. /\ a \in Seq(S) /\ Len(a) = Len(s) - n
      /\ \A k \in 1..Len(a) : a[k] = s[n + k]
  BY <1>1, WithoutPrefix
<1>3. /\ b \in Seq(S) /\ Len(b) = Len(s) - (n + 1)
      /\ \A k \in 1..Len(b) : b[k] = s[(n + 1) + k]
  BY <1>1, WithoutPrefix
<1> HIDE DEF a, b
<1>4. a # <<>> /\ 1 \in 1..Len(a)
  <2>1. Len(a) # 0
    BY <1>1, <1>2
  <2> QED BY <1>1, <1>2, <2>1, EmptySeq
<1>5. /\ Head(a) = a[1] /\ Tail(a) \in Seq(S) /\ Len(Tail(a)) = Len(a) - 1
      /\ \A k \in 1..Len(Tail(a)) : Tail(a)[k] = a[k + 1]
  BY <1>2, <1>4, HeadTailProperties
<1> DEFINE t == Tail(a)
<1> HIDE DEF t
<1>6. t \in Seq(S) /\ Len(t) = Len(b) /\ \A k \in 1..Len(t) : t[k] = a[k + 1]
  BY <1>1, <1>2, <1>3, <1>5 DEF t
<1>7. ASSUME NEW k \in 1..Len(t) PROVE t[k] = b[k]
  <2>1. /\ k \in 1..Len(b) /\ k + 1 \in 1..Len(a)
        /\ n + (k + 1) = (n + 1) + k
    BY <1>1, <1>2, <1>3, <1>6
  <2>2. t[k] = a[k + 1] /\ a[k + 1] = s[n + (k + 1)] /\ b[k] = s[(n + 1) + k]
    BY <1>2, <1>3, <1>6, <2>1
  <2> QED BY <2>1, <2>2
<1>8. t = b
  BY <1>3, <1>6, <1>7, SeqEqual
<1>9. Head(a) = s[n + 1]
  BY <1>2, <1>4, <1>5
<1> QED BY <1>4, <1>8, <1>9 DEF a, b, t

------------------------------------------------------------------------------
(* What is still to come *)

\* Of a sequence h that takes its elements from a queue p (what a tunnel put on a
\* socket's channel, and what waits at the tunnel), all but the first n.
StillToCome(h, n, p) == SubSeq(h, n + 1, Len(h)) \o p

\* An element that joins the queue is the last to come.
LEMMA JoinsQueue ==
  ASSUME NEW S, NEW h \in Seq(S), NEW n \in 0..Len(h), NEW p \in Seq(S), NEW e \in S
  PROVE  StillToCome(h, n, Append(p, e)) = Append(StillToCome(h, n, p), e)
<1> DEFINE rest == SubSeq(h, n + 1, Len(h))
<1>1. rest \in Seq(S)
  BY WithoutPrefix
<1> HIDE DEF rest
<1>2. rest \o Append(p, e) = Append(rest \o p, e)
  BY <1>1, AppendToConcat
<1> QED BY <1>2 DEF StillToCome, rest

\* The head of the queue that goes behind the sequence is still to come in its
\* place, and leaves the first n as they are.
LEMMA MovesOn ==
  ASSUME NEW S, NEW h \in Seq(S), NEW n \in 0..Len(h), NEW p \in Seq(S), p # <<>>
  PROVE  /\ StillToCome(Append(h, Head(p)), n, Tail(p)) = StillToCome(h, n, p)
         /\ \A k \in 1..n : Append(h, Head(p))[k] = h[k]
<1> DEFINE g == Append(h, Head(p))
           rest == SubSeq(h, n + 1, Len(h))
<1>1. Head(p) \in S
  BY HeadTailProperties
<1>2. SubSeq(g, n + 1, Len(g)) = Append(rest, Head(p))
  BY <1>1, RestGrows
<1>3. rest \in Seq(S)
  BY WithoutPrefix
<1>4. \A k \in 1..Len(h) : g[k] = h[k]
  BY <1>1, AppendProperties
<1>5. \A k \in 1..n : k \in 1..Len(h)
  OBVIOUS
<1> HIDE DEF g, rest
<1>6. Append(rest, Head(p)) \o Tail(p) = rest \o p
  BY <1>3, HeadMoves
<1> QED BY <1>2, <1>4, <1>5, <1>6 DEF StillToCome, g, rest

\* What is lost from the queue is lost from what is to come.
LEMMA LostOnTheWay ==
  ASSUME NEW S, NEW h \in Seq(S), NEW n \in 0..Len(h), NEW p \in Seq(S),
         NEW i \in 1..Len(p), NEW j \in 1..Len(p), i <= j
  PROVE  \E a, b \in 1..Len(StillToCome(h, n, p)) :
            /\ a <= b
            /\ StillToCome(h, n, SubSeq(p, 1, i - 1) \o SubSeq(p, j + 1, Len(p)))
                 = SubSeq(StillToCome(h, n, p), 1, a - 1)
                     \o SubSeq(StillToCome(h, n, p), b + 1, Len(StillToCome(h, n, p)))
<1> DEFINE rest == SubSeq(h, n + 1, Len(h))
           q == SubSeq(p, 1, i - 1) \o SubSeq(p, j + 1, Len(p))
           u == StillToCome(h, n, p)
           a == Len(rest) + i
           b == Len(rest) + j
           v == rest \o p
<1>1. rest \in Seq(S)
  BY WithoutPrefix
<1>2. u = rest \o p /\ StillToCome(h, n, q) = rest \o q
  BY DEF StillToCome
<1> HIDE DEF rest, u
<1>3. /\ a \in 1..Len(v) /\ b \in 1..Len(v)
      /\ rest \o q = SubSeq(v, 1, a - 1) \o SubSeq(v, b + 1, Len(v))
  BY <1>1, LossBehind
<1>4. a <= b
  BY <1>1
<1> HIDE DEF a, b, v, q
<1>5. u = v
  BY <1>2 DEF v
<1>6. \E x, y \in 1..Len(u) :
         /\ x <= y
         /\ StillToCome(h, n, q) = SubSeq(u, 1, x - 1) \o SubSeq(u, y + 1, Len(u))
  BY <1>2, <1>3, <1>4, <1>5
<1> QED BY <1>6 DEF u, q

\* The first of what is still to come is the next of the sequence.
LEMMA ComesNext ==
  ASSUME NEW S, NEW h \in Seq(S), NEW n \in 0..(Len(h) - 1), NEW p \in Seq(S)
  PROVE  /\ StillToCome(h, n, p) # <<>>
         /\ Head(StillToCome(h, n, p)) = h[n + 1]
         /\ StillToCome(h, n + 1, p) = Tail(StillToCome(h, n, p))
<1> DEFINE rest == SubSeq(h, n + 1, Len(h))
<1>1. n \in 0..Len(h)
  OBVIOUS
<1>2. /\ rest # <<>> /\ Head(rest) = h[n + 1]
      /\ Tail(rest) = SubSeq(h, (n + 1) + 1, Len(h))
  BY RestShrinks
<1>3. rest \in Seq(S)
  BY <1>1, WithoutPrefix
<1> HIDE DEF rest
<1>4. /\ rest \o p # <<>> /\ Head(rest \o p) = h[n + 1]
      /\ Tail(rest \o p) = Tail(rest) \o p
  BY <1>2, <1>3, FrontLeaves
<1> QED BY <1>2, <1>4 DEF StillToCome, rest

\* The first n + 1 elements of a sequence are the first n and the next.
LEMMA OneMore ==
  ASSUME NEW S, NEW h \in Seq(S), NEW n \in 0..(Len(h) - 1),
         NEW c \in Seq(S), Len(c) = n, \A k \in 1..n : c[k] = h[k],
         NEW d \in Seq(S), Len(d) = n + 1, \A k \in 1..(n + 1) : d[k] = h[k]
  PROVE  d = Append(c, h[n + 1])
<1>1. n + 1 \in 1..Len(h) /\ n \in Nat
  OBVIOUS
<1>2. h[n + 1] \in S
  BY <1>1, ElementOfSeq
<1> DEFINE u == Append(c, h[n + 1])
<1>3. /\ u \in Seq(S) /\ Len(u) = n + 1 /\ u[n + 1] = h[n + 1]
      /\ \A k \in 1..n : u[k] = c[k]
  BY <1>2, AppendProperties
<1> HIDE DEF u
<1>4. ASSUME NEW k \in 1..(n + 1) PROVE d[k] = u[k]
  <2>1. CASE k = n + 1
    BY <1>3, <2>1
  <2>2. CASE k # n + 1
    <3>1. k \in 1..n
      BY <1>1, <2>2
    <3> QED BY <1>3, <3>1
  <2> QED BY <2>1, <2>2
<1>5. d = u
  BY <1>3, <1>4, SeqEqual
<1> QED BY <1>5 DEF u
==============================================================================
