--------------------------- MODULE SelectionProofs ---------------------------
(***************************************************************************)
(* Lemmas about Selected: what it keeps of a sequence, of two that are     *)
(* joined, and of its own results.  The induction over sequences that they *)
(* need is done over sets, whose members are those that fit.               *)
(***************************************************************************)
EXTENDS Selection, SequenceTheorems, WellFoundedInduction, TLAPS

-----------------------------------------------------------------------------
(* Induction, over sets.                                                   *)

LEMMA Least ==
  ASSUME NEW T, T \subseteq Nat, T # {}
  PROVE  \E n \in T : \A m \in T : n <= m
  <1> DEFINE R == OpToRel(<, Nat)
  <1>1. IsWellFoundedOn(R, Nat)
    BY NatLessThanWellFounded
  <1>2. \A m, n \in Nat : m < n => <<m, n>> \in R
    BY DEF OpToRel
  <1> HIDE DEF R
  <1>3. PICK n \in T : \A m \in T : ~(<<m, n>> \in R)
    BY <1>1, WFMin
  <1>4. \A m \in T : ~(m < n) /\ n \in Nat /\ m \in Nat
    BY <1>2, <1>3
  <1>5. \A m \in T : n <= m
    BY <1>4
  <1> QED BY <1>5

LEMMA Induction ==
  ASSUME NEW G, 0 \in G, \A n \in Nat : n \in G => n + 1 \in G
  PROVE  Nat \subseteq G
  <1> SUFFICES ASSUME Nat \ G # {} PROVE FALSE
    OBVIOUS
  <1>1. PICK n \in Nat \ G : \A m \in Nat \ G : n <= m
    BY Least
  <1>2. n \in Nat /\ n # 0 /\ n - 1 \in Nat /\ (n - 1) + 1 = n /\ ~(n <= n - 1)
    BY <1>1
  <1>3. n - 1 \in G
    BY <1>1, <1>2
  <1> QED BY <1>1, <1>2, <1>3

LEMMA SequenceInduction ==
  ASSUME NEW S, NEW G, <<>> \in G, \A s \in Seq(S) : \A e \in S : s \in G => Append(s, e) \in G
  PROVE  Seq(S) \subseteq G
  <1> DEFINE L == {n \in Nat : \A s \in Seq(S) : Len(s) = n => s \in G}
  <1>1. 0 \in L
    <2>1. \A s \in Seq(S) : Len(s) = 0 => s = <<>>
      BY EmptySeq
    <2> QED BY <2>1
  <1>2. ASSUME NEW n \in Nat, n \in L
        PROVE  n + 1 \in L
    <2> SUFFICES ASSUME NEW s \in Seq(S), Len(s) = n + 1 PROVE s \in G
      OBVIOUS
    <2>1. PICK front \in Seq(S), last \in S : s = Append(front, last)
      BY SequenceEmptyOrAppend
    <2>2. Len(front) = n
      BY <2>1
    <2> QED BY <1>2, <2>1, <2>2
  <1> HIDE DEF L
  <1>3. Nat \subseteq L
    BY <1>1, <1>2, Induction
  <1> QED BY <1>3 DEF L

-----------------------------------------------------------------------------
(* What Selected computes, from the front of the sequence.                 *)

Longer(s, K, f, n) ==
  IF n = 0 THEN <<>> ELSE IF s[n] \in K THEN Append(f[n - 1], s[n]) ELSE f[n - 1]

LEMMA PrefixesAre ==
  ASSUME NEW S, NEW s \in Seq(S), NEW K
  PROVE  \A n \in Nat : n <= Len(s) =>
           \E f : f = [m \in 0..n |-> Longer(s, K, f, m)]
  <1> DEFINE G == {n \in Nat : n <= Len(s) => \E f : f = [m \in 0..n |-> Longer(s, K, f, m)]}
  <1>1. 0 \in G
    <2> DEFINE f == [m \in 0..0 |-> <<>>]
    <2>1. f = [m \in 0..0 |-> Longer(s, K, f, m)]
      BY DEF Longer
    <2> QED BY <2>1
  <1>2. ASSUME NEW n \in Nat, n \in G
        PROVE  n + 1 \in G
    <2> SUFFICES ASSUME n + 1 <= Len(s)
                 PROVE  \E f : f = [m \in 0..n + 1 |-> Longer(s, K, f, m)]
      OBVIOUS
    <2>1. PICK g : g = [m \in 0..n |-> Longer(s, K, g, m)]
      BY <1>2
    <2> DEFINE f == [m \in 0..n + 1 |-> IF m = n + 1 THEN Longer(s, K, g, n + 1) ELSE g[m]]
    <2>2. \A m \in 0..n : f[m] = g[m]
      OBVIOUS
    <2>3. \A m \in 0..n : f[m] = Longer(s, K, f, m)
      <3>1. \A m \in 0..n : m = 0 \/ m - 1 \in 0..n
        OBVIOUS
      <3>2. \A m \in 0..n : g[m] = Longer(s, K, g, m)
        BY <2>1
      <3> HIDE DEF f
      <3> QED BY <2>2, <3>1, <3>2 DEF Longer
    <2>4. f[n + 1] = Longer(s, K, f, n + 1)
      <3>1. f[n + 1] = Longer(s, K, g, n + 1)
        OBVIOUS
      <3>2. (n + 1) - 1 = n /\ n + 1 # 0 /\ n \in 0..n
        OBVIOUS
      <3> HIDE DEF f
      <3> QED BY <2>2, <3>1, <3>2 DEF Longer
    <2>5. f = [m \in 0..n + 1 |-> f[m]]
      OBVIOUS
    <2>6. \A m \in 0..n + 1 : f[m] = Longer(s, K, f, m)
      <3> HIDE DEF f
      <3> QED BY <2>3, <2>4
    <2> HIDE DEF f
    <2>7. f = [m \in 0..n + 1 |-> Longer(s, K, f, m)]
      BY <2>5, <2>6
    <2> QED BY <2>7
  <1> HIDE DEF G
  <1>3. Nat \subseteq G
    BY <1>1, <1>2, Induction
  <1> QED BY <1>3 DEF G

LEMMA SelectedStepwise ==
  ASSUME NEW S, NEW s \in Seq(S), NEW K
  PROVE  \E f : /\ Selected(s, K) = f[Len(s)]
                /\ f[0] = <<>>
                /\ \A n \in 1..Len(s) : f[n] = IF s[n] \in K THEN Append(f[n - 1], s[n]) ELSE f[n - 1]
  <1> DEFINE f == CHOOSE f : f = [n \in 0..Len(s) |-> Longer(s, K, f, n)]
  <1>1. Selected(s, K) = f[Len(s)]
    BY Zenon DEF Selected, Longer
  <1>2. Len(s) \in Nat
    OBVIOUS
  <1>3. f = [n \in 0..Len(s) |-> Longer(s, K, f, n)]
    <2>1. \E g : g = [n \in 0..Len(s) |-> Longer(s, K, g, n)]
      <3>1. \A n \in Nat : n <= Len(s) => \E g : g = [m \in 0..n |-> Longer(s, K, g, m)]
        BY PrefixesAre, Zenon
      <3>2. Len(s) <= Len(s)
        BY <1>2
      <3> QED BY <1>2, <3>1, <3>2, Zenon
    <2> QED BY <2>1, Zenon
  <1> HIDE DEF f
  <1>4. \A n \in 0..Len(s) : f[n] = Longer(s, K, f, n)
    BY <1>3
  <1>5. f[0] = <<>>
    BY <1>2, <1>4 DEF Longer
  <1>6. \A n \in 1..Len(s) : f[n] = IF s[n] \in K THEN Append(f[n - 1], s[n]) ELSE f[n - 1]
    BY <1>2, <1>4 DEF Longer
  <1> QED BY <1>1, <1>5, <1>6

LEMMA SelectedFromNone ==
  ASSUME NEW K
  PROVE  Selected(<<>>, K) = <<>>
  <1>1. <<>> \in Seq({}) /\ Len(<<>>) = 0
    OBVIOUS
  <1>2. PICK f : Selected(<<>>, K) = f[Len(<<>>)] /\ f[0] = <<>>
    <2> DEFINE none == <<>>
    <2>1. none \in Seq({})
      BY <1>1
    <2> HIDE DEF none
    <2>2. \E f : Selected(none, K) = f[Len(none)] /\ f[0] = <<>>
      BY <2>1, SelectedStepwise
    <2> QED BY <2>2 DEF none
  <1> QED BY <1>1, <1>2

LEMMA SelectedAppend ==
  ASSUME NEW S, NEW s \in Seq(S), NEW e \in S, NEW K
  PROVE  Selected(Append(s, e), K) =
           IF e \in K THEN Append(Selected(s, K), e) ELSE Selected(s, K)
  <1> DEFINE t == Append(s, e)
  <1>1. /\ t \in Seq(S) /\ Len(t) = Len(s) + 1 /\ Len(s) \in Nat
        /\ t[Len(s) + 1] = e /\ \A n \in 1..Len(s) : t[n] = s[n]
    OBVIOUS
  <1> HIDE DEF t
  <1>2. PICK f : /\ Selected(s, K) = f[Len(s)]
                 /\ f[0] = <<>>
                 /\ \A n \in 1..Len(s) : f[n] = IF s[n] \in K THEN Append(f[n - 1], s[n]) ELSE f[n - 1]
    BY SelectedStepwise
  <1>3. PICK g : /\ Selected(t, K) = g[Len(t)]
                 /\ g[0] = <<>>
                 /\ \A n \in 1..Len(t) : g[n] = IF t[n] \in K THEN Append(g[n - 1], t[n]) ELSE g[n - 1]
    BY <1>1, SelectedStepwise
  <1> DEFINE G == {n \in Nat : n <= Len(s) => f[n] = g[n]}
  <1>4. 0 \in G
    BY <1>2, <1>3
  <1>5. ASSUME NEW n \in Nat, n \in G
        PROVE  n + 1 \in G
    <2> SUFFICES ASSUME n + 1 <= Len(s) PROVE f[n + 1] = g[n + 1]
      OBVIOUS
    <2>1. n + 1 \in 1..Len(s) /\ n + 1 \in 1..Len(t) /\ (n + 1) - 1 = n
      BY <1>1
    <2>2. f[n] = g[n] /\ s[n + 1] = t[n + 1]
      BY <1>1, <1>5, <2>1
    <2> QED BY <1>2, <1>3, <2>1, <2>2
  <1>6. Nat \subseteq G
    <2> HIDE DEF G
    <2> QED BY <1>4, <1>5, Induction
  <1>7. f[Len(s)] = g[Len(s)]
    BY <1>1, <1>6
  <1>8. Len(s) + 1 \in 1..Len(t) /\ (Len(s) + 1) - 1 = Len(s)
    BY <1>1
  <1> QED BY <1>1, <1>2, <1>3, <1>7, <1>8 DEF t

-----------------------------------------------------------------------------
(* What Selected keeps.                                                    *)

\* x is one of the elements of s.
Occurs(x, s) == \E i \in 1..Len(s) : s[i] = x

LEMMA OccursAppend ==
  ASSUME NEW S, NEW s \in Seq(S), NEW e \in S, NEW x
  PROVE  Occurs(x, Append(s, e)) <=> Occurs(x, s) \/ x = e
  <1>1. /\ Len(Append(s, e)) = Len(s) + 1 /\ Len(s) \in Nat
        /\ \A i \in 1..Len(s) : Append(s, e)[i] = s[i]
        /\ Append(s, e)[Len(s) + 1] = e
    OBVIOUS
  <1>2. \A i \in 1..Len(s) + 1 : i \in 1..Len(s) \/ i = Len(s) + 1
    BY <1>1
  <1>3. Len(s) + 1 \in 1..Len(s) + 1 /\ \A i \in 1..Len(s) : i \in 1..Len(s) + 1
    BY <1>1
  <1> QED BY <1>1, <1>2, <1>3 DEF Occurs

LEMMA SelectedIs ==
  ASSUME NEW S, NEW s \in Seq(S), NEW K
  PROVE  /\ Selected(s, K) \in Seq(S) /\ Len(Selected(s, K)) <= Len(s)
         /\ \A x : Occurs(x, Selected(s, K)) <=> Occurs(x, s) /\ x \in K
  <1> DEFINE G == {t \in Seq(S) : /\ Selected(t, K) \in Seq(S)
                                  /\ Len(Selected(t, K)) <= Len(t)
                                  /\ \A x : Occurs(x, Selected(t, K)) <=> Occurs(x, t) /\ x \in K}
  <1>1. <<>> \in G
    <2>1. Len(<<>>) = 0 /\ <<>> \in Seq(S)
      OBVIOUS
    <2>2. \A x : ~Occurs(x, <<>>)
      BY <2>1 DEF Occurs
    <2>3. Selected(<<>>, K) = <<>>
      BY SelectedFromNone
    <2> DEFINE none == <<>>
    <2>4. /\ none \in Seq(S) /\ Selected(none, K) = none /\ Len(none) <= Len(none)
          /\ \A x : ~Occurs(x, none)
      BY <2>1, <2>2, <2>3
    <2> HIDE DEF none
    <2>5. none \in G
      BY <2>4
    <2> QED BY <2>5 DEF none
  <1>2. ASSUME NEW t \in Seq(S), NEW e \in S, t \in G
        PROVE  Append(t, e) \in G
    <2>1. /\ Selected(t, K) \in Seq(S) /\ Len(Selected(t, K)) <= Len(t)
          /\ \A x : Occurs(x, Selected(t, K)) <=> Occurs(x, t) /\ x \in K
      BY <1>2
    <2>2. Append(t, e) \in Seq(S) /\ Len(Append(t, e)) = Len(t) + 1 /\ Len(t) \in Nat
      OBVIOUS
    <2>3. CASE e \in K
      <3>1. Selected(Append(t, e), K) = Append(Selected(t, K), e)
        BY <2>3, SelectedAppend
      <3>2. /\ Append(Selected(t, K), e) \in Seq(S)
            /\ Len(Append(Selected(t, K), e)) = Len(Selected(t, K)) + 1
            /\ Len(Selected(t, K)) \in Nat
        BY <2>1
      <3>3. \A x : Occurs(x, Append(Selected(t, K), e)) <=> Occurs(x, Append(t, e)) /\ x \in K
        BY <2>1, <2>3, OccursAppend
      <3>4. Len(Append(Selected(t, K), e)) <= Len(Append(t, e))
        BY <2>1, <2>2, <3>2
      <3> QED BY <2>2, <3>1, <3>2, <3>3, <3>4
    <2>4. CASE e \notin K
      <3>1. Selected(Append(t, e), K) = Selected(t, K)
        BY <2>4, SelectedAppend
      <3>2. \A x : Occurs(x, Selected(t, K)) <=> Occurs(x, Append(t, e)) /\ x \in K
        BY <2>1, <2>4, OccursAppend
      <3>3. Len(Selected(t, K)) \in Nat
        BY <2>1
      <3> QED BY <2>1, <2>2, <3>1, <3>2, <3>3
    <2> QED BY <2>3, <2>4
  <1> HIDE DEF G
  <1>3. Seq(S) \subseteq G
    BY <1>1, <1>2, SequenceInduction
  <1> QED BY <1>3 DEF G

LEMMA ConcatAppend ==
  ASSUME NEW S, NEW s \in Seq(S), NEW t \in Seq(S), NEW e \in S
  PROVE  s \o Append(t, e) = Append(s \o t, e)
  <1> DEFINE one == <<e>>
  <1>1. one \in Seq(S) /\ Append(t, e) = t \o one /\ Append(s \o t, e) = (s \o t) \o one
    <2>1. one \in Seq(S) /\ s \o t \in Seq(S)
      OBVIOUS
    <2> QED BY <2>1, AppendIsConcat
  <1> HIDE DEF one
  <1> QED BY <1>1, ConcatAssociative

LEMMA SelectedConcat ==
  ASSUME NEW S, NEW s \in Seq(S), NEW t \in Seq(S), NEW K
  PROVE  Selected(s \o t, K) = Selected(s, K) \o Selected(t, K)
  <1> DEFINE G == {u \in Seq(S) : Selected(s \o u, K) = Selected(s, K) \o Selected(u, K)}
  <1>1. <<>> \in G
    <2>1. s \o <<>> = s /\ <<>> \in Seq(S)
      BY ConcatEmptySeq
    <2>2. Selected(s, K) \o <<>> = Selected(s, K)
      BY SelectedIs, ConcatEmptySeq
    <2> QED BY <2>1, <2>2, SelectedFromNone
  <1>2. ASSUME NEW u \in Seq(S), NEW e \in S, u \in G
        PROVE  Append(u, e) \in G
    <2>1. Selected(s \o u, K) = Selected(s, K) \o Selected(u, K)
      BY <1>2
    <2>2. s \o Append(u, e) = Append(s \o u, e) /\ s \o u \in Seq(S)
      BY ConcatAppend
    <2>3. Selected(s, K) \in Seq(S) /\ Selected(u, K) \in Seq(S)
      BY SelectedIs
    <2>4. CASE e \in K
      <3>1. /\ Selected(Append(s \o u, e), K) = Append(Selected(s \o u, K), e)
            /\ Selected(Append(u, e), K) = Append(Selected(u, K), e)
        <4> DEFINE v == s \o u
        <4>1. v \in Seq(S)
          BY <2>2
        <4> HIDE DEF v
        <4>2. Selected(Append(v, e), K) = Append(Selected(v, K), e)
          BY <2>4, <4>1, SelectedAppend
        <4>3. Selected(Append(u, e), K) = Append(Selected(u, K), e)
          BY <2>4, SelectedAppend
        <4> QED BY <4>2, <4>3 DEF v
      <3>2. Append(Selected(s, K) \o Selected(u, K), e)
              = Selected(s, K) \o Append(Selected(u, K), e)
        <4> DEFINE v == Selected(s, K)
                   w == Selected(u, K)
        <4>1. v \in Seq(S) /\ w \in Seq(S)
          BY <2>3
        <4> HIDE DEF v, w
        <4>2. v \o Append(w, e) = Append(v \o w, e)
          <5>1. \A a, b \in Seq(S) : a \o Append(b, e) = Append(a \o b, e)
            BY ConcatAppend
          <5> QED BY <4>1, <5>1
        <4> QED BY <4>2 DEF v, w
      <3>3. Append(u, e) \in Seq(S)
        OBVIOUS
      <3> QED BY <2>1, <2>2, <3>1, <3>2, <3>3
    <2>5. CASE e \notin K
      <3>1. /\ Selected(Append(s \o u, e), K) = Selected(s \o u, K)
            /\ Selected(Append(u, e), K) = Selected(u, K)
        BY <2>2, <2>5, SelectedAppend
      <3>2. Append(u, e) \in Seq(S)
        OBVIOUS
      <3> QED BY <2>1, <2>2, <3>1, <3>2
    <2> QED BY <2>4, <2>5
  <1> HIDE DEF G
  <1>3. Seq(S) \subseteq G
    BY <1>1, <1>2, SequenceInduction
  <1> QED BY <1>3 DEF G

\* A wider selection first makes no difference.
LEMMA SelectedTwice ==
  ASSUME NEW S, NEW s \in Seq(S), NEW A, NEW B, B \subseteq A
  PROVE  Selected(Selected(s, A), B) = Selected(s, B)
  <1> DEFINE G == {u \in Seq(S) : Selected(Selected(u, A), B) = Selected(u, B)}
  <1>1. <<>> \in G
    <2>1. <<>> \in Seq(S)
      OBVIOUS
    <2> QED BY <2>1, SelectedFromNone
  <1>2. ASSUME NEW u \in Seq(S), NEW e \in S, u \in G
        PROVE  Append(u, e) \in G
    <2>1. Selected(Selected(u, A), B) = Selected(u, B) /\ Selected(u, A) \in Seq(S)
      BY <1>2, SelectedIs
    <2>2. Append(u, e) \in Seq(S)
      OBVIOUS
    <2>3. Selected(Append(u, e), A) = IF e \in A THEN Append(Selected(u, A), e) ELSE Selected(u, A)
      BY SelectedAppend
    <2>4. Selected(Append(u, e), B) = IF e \in B THEN Append(Selected(u, B), e) ELSE Selected(u, B)
      BY SelectedAppend
    <2>5. Selected(Append(Selected(u, A), e), B)
            = IF e \in B THEN Append(Selected(Selected(u, A), B), e) ELSE Selected(Selected(u, A), B)
      <3> DEFINE v == Selected(u, A)
      <3>1. v \in Seq(S)
        BY <2>1
      <3> HIDE DEF v
      <3>2. Selected(Append(v, e), B) = IF e \in B THEN Append(Selected(v, B), e) ELSE Selected(v, B)
        BY <3>1, SelectedAppend
      <3> QED BY <3>2 DEF v
    <2>6. CASE e \in A
      BY <2>1, <2>2, <2>3, <2>4, <2>5, <2>6
    <2>7. CASE e \notin A
      BY <2>1, <2>2, <2>3, <2>4, <2>7
    <2> QED BY <2>6, <2>7
  <1> HIDE DEF G
  <1>3. Seq(S) \subseteq G
    BY <1>1, <1>2, SequenceInduction
  <1> QED BY <1>3 DEF G

LEMMA SelectedAll ==
  ASSUME NEW S, NEW s \in Seq(S), NEW K, S \subseteq K
  PROVE  Selected(s, K) = s
  <1> DEFINE G == {t \in Seq(S) : Selected(t, K) = t}
  <1>1. <<>> \in G
    <2> DEFINE none == <<>>
    <2>1. none \in Seq(S) /\ Selected(none, K) = none
      BY SelectedFromNone
    <2> HIDE DEF none
    <2>2. none \in G
      BY <2>1
    <2> QED BY <2>2 DEF none
  <1>2. ASSUME NEW t \in Seq(S), NEW e \in S, t \in G
        PROVE  Append(t, e) \in G
    <2>1. Selected(Append(t, e), K) = Append(Selected(t, K), e)
      BY SelectedAppend
    <2> QED BY <1>2, <2>1
  <1> HIDE DEF G
  <1>3. Seq(S) \subseteq G
    BY <1>1, <1>2, SequenceInduction
  <1> QED BY <1>3 DEF G
=============================================================================
