-------------------------- MODULE SubsequenceLemmas --------------------------
(***************************************************************************)
(* What filtering a slice in place computes, for slices of any length.     *)
(* The lemmas are by induction over the slice; induction itself is stated  *)
(* over sets and derived from the well-foundedness of < on the naturals.   *)
(***************************************************************************)
EXTENDS PendingOps, SequenceTheorems, WellFoundedInduction, TLAPS

(* Induction.                                                               *)

\* A set that has 0 and the successor of each of its numbers has all of them.
LEMMA SetInduction ==
  ASSUME NEW S, 0 \in S, \A n \in Nat : n \in S => n + 1 \in S
  PROVE  Nat \subseteq S
<1> DEFINE T == Nat \ S
           R == OpToRel(<, Nat)
<1> SUFFICES ASSUME T # {} PROVE FALSE
  OBVIOUS
<1>1. IsWellFoundedOn(R, Nat)
  BY NatLessThanWellFounded
<1>2. T \subseteq Nat /\ T # {}
  OBVIOUS
<1> HIDE DEF R, T
<1>3. PICK x \in T : \A y \in T : ~ (<<y, x>> \in R)
  BY <1>1, <1>2, WFMin
<1>4. x \in Nat /\ x # 0 /\ x - 1 \in Nat
  BY DEF T
<1>5. <<x - 1, x>> \in R
  BY <1>4 DEF R, OpToRel
<1>6. x - 1 \in S
  BY <1>3, <1>4, <1>5 DEF T
<1> QED BY <1>4, <1>6 DEF T

Loop(q, S, n, f) ==
  [i \in 0 .. n |-> IF i = 0 THEN <<>>
                    ELSE IF q[i] \in S THEN Append(f[i - 1], q[i]) ELSE f[i - 1]]

\* Every sequence is in a set that has <<>> and is closed under Append.
LEMMA SeqInduction ==
  ASSUME NEW T, NEW P, <<>> \in P,
         \A q \in Seq(T), x \in T : q \in P => Append(q, x) \in P
  PROVE  Seq(T) \subseteq P
<1> DEFINE I == {n \in Nat : \A q \in Seq(T) : Len(q) = n => q \in P}
<1>1. 0 \in I
  <2>1. ASSUME NEW q \in Seq(T), Len(q) = 0 PROVE q = <<>>
    BY <2>1
  <2> QED BY <2>1
<1>2. ASSUME NEW n \in Nat, n \in I PROVE n + 1 \in I
  <2> SUFFICES ASSUME NEW q \in Seq(T), Len(q) = n + 1 PROVE q \in P
    OBVIOUS
  <2> DEFINE r == SubSeq(q, 1, n)
  <2>1. r \in Seq(T) /\ Len(r) = n /\ q[n + 1] \in T
    OBVIOUS
  <2>2. q = Append(r, q[n + 1])
    OBVIOUS
  <2>3. r \in P
    BY <1>2, <2>1
  <2> QED BY <2>1, <2>2, <2>3
<1>3. Nat \subseteq I
  <2> HIDE DEF I
  <2> QED BY <1>1, <1>2, SetInduction
<1> QED BY <1>3

----------------------------------------------------------------------------
(* The loop, as a function of the round.                                    *)

IsLoop(q, S, n, f) ==
  f = [i \in 0 .. n |-> IF i = 0 THEN <<>>
                        ELSE IF q[i] \in S THEN Append(f[i - 1], q[i]) ELSE f[i - 1]]

Rounds(q, S, n, f) ==
  /\ f[0] = <<>>
  /\ \A i \in 1 .. n :
       f[i] = IF q[i] \in S THEN Append(f[i - 1], q[i]) ELSE f[i - 1]

\* Round by round, the function is what the loop's body says.
LEMMA LoopRounds ==
  ASSUME NEW q, NEW S, NEW n \in Nat, NEW f, IsLoop(q, S, n, f)
  PROVE  Rounds(q, S, n, f)
<1>1. 0 \in 0 .. n /\ \A i \in 1 .. n : i \in 0 .. n /\ i # 0
  OBVIOUS
<1> QED BY <1>1 DEF IsLoop, Rounds

\* There is such a function, whatever the number of rounds.
LEMMA LoopExists ==
  ASSUME NEW q, NEW S PROVE \A n \in Nat : \E f : IsLoop(q, S, n, f)
<1> DEFINE I == {n \in Nat : \E f : IsLoop(q, S, n, f)}
<1>1. 0 \in I
  <2> DEFINE f == [i \in 0 .. 0 |-> <<>>]
  <2>1. IsLoop(q, S, 0, f) BY DEF IsLoop
  <2> QED BY <2>1
<1>2. ASSUME NEW n \in Nat, n \in I PROVE n + 1 \in I
  <2>1. PICK f : IsLoop(q, S, n, f) BY <1>2
  <2>6. Rounds(q, S, n, f)
    BY <2>1, LoopRounds
  <2> DEFINE v == IF q[n+1] \in S THEN Append(f[n], q[n+1]) ELSE f[n]
             g == [i \in 0 .. (n + 1) |-> IF i = n + 1 THEN v ELSE f[i]]
             h == [i \in 0 .. (n + 1) |->
                     IF i = 0 THEN <<>>
                     ELSE IF q[i] \in S THEN Append(g[i - 1], q[i]) ELSE g[i - 1]]
  <2>2. ASSUME NEW i \in 0 .. (n + 1) PROVE g[i] = h[i]
    <3>1. CASE i = n + 1
      BY <3>1
    <3>2. CASE i # n + 1
      <4>1. i \in 0 .. n /\ g[i] = f[i] /\ (i # 0 => g[i - 1] = f[i - 1])
        BY <3>2
      <4>2. f[0] = <<>> /\ (i # 0 => f[i] = IF q[i] \in S THEN Append(f[i - 1], q[i])
                                            ELSE f[i - 1])
        BY <2>6, <4>1 DEF Rounds
      <4> QED BY <4>1, <4>2, <3>2
    <3> QED BY <3>1, <3>2
  <2>3. g = h
    BY <2>2
  <2>4. IsLoop(q, S, n + 1, g)
    BY <2>3 DEF IsLoop
  <2> HIDE DEF g
  <2>5. \E x : IsLoop(q, S, n + 1, x)
    BY <2>4
  <2> QED BY <2>5
<1>3. Nat \subseteq I
  <2> HIDE DEF I
  <2> QED BY <1>1, <1>2, SetInduction
<1> QED BY <1>3

\* Kept is the result of the last round.
LEMMA KeptRuns ==
  ASSUME NEW T, NEW q \in Seq(T), NEW S
  PROVE  \E f : Rounds(q, S, Len(q), f) /\ Kept(q, S) = f[Len(q)]
<1> DEFINE k == CHOOSE f : IsLoop(q, S, Len(q), f)
<1>1. Len(q) \in Nat OBVIOUS
<1>2. \E f : IsLoop(q, S, Len(q), f)
  BY <1>1, LoopExists
<1>3. IsLoop(q, S, Len(q), k)
  BY <1>2
<1>4. Kept(q, S) = k[Len(q)]
  BY DEF Kept, IsLoop
<1> HIDE DEF k
<1>5. Rounds(q, S, Len(q), k)
  BY <1>1, <1>3, LoopRounds
<1> QED BY <1>4, <1>5

----------------------------------------------------------------------------
(* What the loop keeps.                                                     *)

\* Nothing of nothing ...
LEMMA KeptEmpty == ASSUME NEW S PROVE Kept(<<>>, S) = <<>>
<1> DEFINE e == <<>>
<1>1. e \in Seq({}) /\ Len(e) = 0
  OBVIOUS
<1> HIDE DEF e
<1>2. PICK f : Rounds(e, S, Len(e), f) /\ Kept(e, S) = f[Len(e)]
  BY <1>1, KeptRuns
<1> QED BY <1>1, <1>2 DEF e, Rounds

\* ... and of one element more, that element if it is wanted.
LEMMA KeptAppend ==
  ASSUME NEW T, NEW q \in Seq(T), NEW x \in T, NEW S
  PROVE  Kept(Append(q, x), S) =
           IF x \in S THEN Append(Kept(q, S), x) ELSE Kept(q, S)
<1> DEFINE r == Append(q, x)
<1>1. r \in Seq(T) /\ Len(r) = Len(q) + 1 /\ Len(q) \in Nat
  OBVIOUS
<1>2. r[Len(q) + 1] = x /\ \A i \in 1 .. Len(q) : r[i] = q[i]
  OBVIOUS
<1> HIDE DEF r
<1>3. PICK f : Rounds(q, S, Len(q), f) /\ Kept(q, S) = f[Len(q)]
  BY KeptRuns
<1>4. PICK g : Rounds(r, S, Len(r), g) /\ Kept(r, S) = g[Len(r)]
  BY <1>1, KeptRuns
<1> DEFINE I == {n \in Nat : n <= Len(q) => g[n] = f[n]}
<1>5. 0 \in I
  BY <1>3, <1>4 DEF Rounds
<1>6. ASSUME NEW n \in Nat, n \in I PROVE n + 1 \in I
  <2> SUFFICES ASSUME n + 1 <= Len(q) PROVE g[n + 1] = f[n + 1]
    OBVIOUS
  <2>1. f[n + 1] = IF q[n + 1] \in S THEN Append(f[n], q[n + 1]) ELSE f[n]
    BY <1>3, <1>1 DEF Rounds
  <2>2. g[n + 1] = IF r[n + 1] \in S THEN Append(g[n], r[n + 1]) ELSE g[n]
    BY <1>4, <1>1 DEF Rounds
  <2>3. r[n + 1] = q[n + 1] /\ g[n] = f[n]
    BY <1>6, <1>1, <1>2
  <2> QED BY <2>1, <2>2, <2>3
<1>7. Nat \subseteq I
  <2> HIDE DEF I
  <2> QED BY <1>5, <1>6, SetInduction
<1>8. g[Len(q)] = f[Len(q)]
  BY <1>1, <1>7
<1>9. g[Len(r)] = IF x \in S THEN Append(g[Len(q)], x) ELSE g[Len(q)]
  BY <1>1, <1>2, <1>4 DEF Rounds
<1> QED BY <1>3, <1>4, <1>8, <1>9 DEF r

\* The kept elements are elements of the slice that are wanted.
LEMMA KeptType ==
  ASSUME NEW T, NEW q \in Seq(T), NEW S
  PROVE  Kept(q, S) \in Seq(T) /\ Kept(q, S) \in Seq(T \cap S)
<1> DEFINE P == {s \in Seq(T) : Kept(s, S) \in Seq(T \cap S)}
<1>1. <<>> \in P
  <2>1. Kept(<<>>, S) = <<>>
    BY KeptEmpty
  <2>2. <<>> \in Seq(T) /\ <<>> \in Seq(T \cap S)
    OBVIOUS
  <2> QED BY <2>1, <2>2
<1>2. ASSUME NEW s \in Seq(T), NEW x \in T, s \in P PROVE Append(s, x) \in P
  <2>1. Append(s, x) \in Seq(T) /\ Kept(s, S) \in Seq(T \cap S)
    BY <1>2
  <2>2. Kept(Append(s, x), S) =
          IF x \in S THEN Append(Kept(s, S), x) ELSE Kept(s, S)
    BY KeptAppend
  <2>3. x \in S => Append(Kept(s, S), x) \in Seq(T \cap S)
    BY <2>1
  <2> QED BY <2>1, <2>2, <2>3
<1>3. Seq(T) \subseteq P
  <2> HIDE DEF P
  <2> QED BY <1>1, <1>2, SeqInduction
<1>4. ASSUME NEW k \in Seq(T \cap S) PROVE k \in Seq(T)
  OBVIOUS
<1> QED BY <1>3, <1>4

\* The elements of k stand in q, in the same order.
Within(k, q) ==
  /\ \A i \in 1 .. Len(k) : \E a \in 1 .. Len(q) : q[a] = k[i]
  /\ \A i, j \in 1 .. Len(k) : i < j =>
       \E a, b \in 1 .. Len(q) : a < b /\ q[a] = k[i] /\ q[b] = k[j]

\* It stays so when q grows, and when both grow by the same element.
LEMMA WithinGrows ==
  ASSUME NEW T, NEW q \in Seq(T), NEW k \in Seq(T), NEW x \in T, Within(k, q)
  PROVE  Within(k, Append(q, x)) /\ Within(Append(k, x), Append(q, x))
<1> DEFINE r == Append(q, x)
           l == Append(k, x)
<1>1. /\ Len(r) = Len(q) + 1 /\ Len(q) \in Nat /\ r[Len(r)] = x
      /\ \A a \in 1 .. Len(q) : r[a] = q[a]
  OBVIOUS
<1>2. /\ Len(l) = Len(k) + 1 /\ Len(k) \in Nat /\ l[Len(l)] = x
      /\ \A i \in 1 .. Len(k) : l[i] = k[i]
  OBVIOUS
<1> HIDE DEF r, l
<1>3. ASSUME NEW i \in 1 .. Len(k)
      PROVE  \E a \in 1 .. Len(r) : a < Len(r) /\ r[a] = k[i]
  <2>1. PICK a \in 1 .. Len(q) : q[a] = k[i]
    BY DEF Within
  <2>2. a \in 1 .. Len(r) /\ a < Len(r) /\ r[a] = k[i]
    BY <1>1, <2>1
  <2> QED BY <2>2
<1>4. ASSUME NEW i \in 1 .. Len(k), NEW j \in 1 .. Len(k), i < j
      PROVE  \E a, b \in 1 .. Len(r) : a < b /\ r[a] = k[i] /\ r[b] = k[j]
  <2>1. PICK a \in 1 .. Len(q), b \in 1 .. Len(q) :
          a < b /\ q[a] = k[i] /\ q[b] = k[j]
    BY <1>4 DEF Within
  <2>2. a \in 1 .. Len(r) /\ b \in 1 .. Len(r) /\ r[a] = k[i] /\ r[b] = k[j]
    BY <1>1, <2>1
  <2> QED BY <2>1, <2>2
<1>5. Within(k, r)
  BY <1>3, <1>4 DEF Within
<1>6. Len(r) \in 1 .. Len(r) /\ 1 .. Len(l) = (1 .. Len(k)) \cup {Len(l)}
  BY <1>1, <1>2
<1>7. ASSUME NEW i \in 1 .. Len(l) PROVE \E a \in 1 .. Len(r) : r[a] = l[i]
  BY <1>1, <1>2, <1>3, <1>6
<1>8. ASSUME NEW i \in 1 .. Len(l), NEW j \in 1 .. Len(l), i < j
      PROVE  \E a, b \in 1 .. Len(r) : a < b /\ r[a] = l[i] /\ r[b] = l[j]
  <2>1. i \in 1 .. Len(k) /\ l[i] = k[i]
    BY <1>2, <1>8
  <2>2. CASE j \in 1 .. Len(k)
    <3>1. l[j] = k[j]
      BY <1>2, <2>2
    <3> QED BY <1>4, <1>8, <2>1, <2>2, <3>1
  <2>3. CASE j = Len(l)
    <3>1. PICK a \in 1 .. Len(r) : a < Len(r) /\ r[a] = k[i]
      BY <1>3, <2>1
    <3>2. l[j] = r[Len(r)] /\ l[i] = r[a]
      BY <1>1, <1>2, <2>1, <2>3, <3>1
    <3> QED BY <1>6, <3>1, <3>2
  <2> QED BY <1>6, <2>2, <2>3
<1>9. Within(l, r)
  BY <1>7, <1>8 DEF Within
<1> QED BY <1>5, <1>9 DEF l, r

\* What is kept keeps its order.
LEMMA KeptWithin ==
  ASSUME NEW T, NEW q \in Seq(T), NEW S PROVE Within(Kept(q, S), q)
<1> DEFINE P == {s \in Seq(T) : Within(Kept(s, S), s)}
<1>1. <<>> \in P
  <2>1. Kept(<<>>, S) = <<>>
    BY KeptEmpty
  <2>2. Within(<<>>, <<>>)
    BY DEF Within
  <2> QED BY <2>1, <2>2
<1>2. ASSUME NEW s \in Seq(T), NEW x \in T, s \in P PROVE Append(s, x) \in P
  <2>1. Within(Kept(s, S), s)
    BY <1>2
  <2>2. Kept(s, S) \in Seq(T)
    BY KeptType
  <2>3. Within(Kept(s, S), Append(s, x)) /\ Within(Append(Kept(s, S), x), Append(s, x))
    BY <2>1, <2>2, WithinGrows
  <2>4. Within(Kept(Append(s, x), S), Append(s, x))
    BY <2>3, KeptAppend
  <2>5. Append(s, x) \in Seq(T)
    OBVIOUS
  <2> QED BY <2>4, <2>5
<1>3. Seq(T) \subseteq P
  <2> HIDE DEF P
  <2> QED BY <1>1, <1>2, SeqInduction
<1> QED BY <1>3

\* Only which of the slice's own elements are wanted matters.
LEMMA KeptSame ==
  ASSUME NEW T, NEW q \in Seq(T), NEW A, NEW B,
         \A i \in 1 .. Len(q) : q[i] \in A <=> q[i] \in B
  PROVE  Kept(q, A) = Kept(q, B)
<1> DEFINE Agree(s) == \A i \in 1 .. Len(s) : s[i] \in A <=> s[i] \in B
           P == {s \in Seq(T) : Agree(s) => Kept(s, A) = Kept(s, B)}
<1>1. <<>> \in P
  <2>1. Kept(<<>>, A) = <<>> /\ Kept(<<>>, B) = <<>>
    BY KeptEmpty
  <2>2. <<>> \in Seq(T)
    OBVIOUS
  <2> QED BY <2>1, <2>2
<1>2. ASSUME NEW s \in Seq(T), NEW x \in T, s \in P PROVE Append(s, x) \in P
  <2> DEFINE r == Append(s, x)
  <2>1. /\ r \in Seq(T) /\ Len(r) = Len(s) + 1 /\ Len(s) \in Nat
        /\ r[Len(s) + 1] = x /\ \A i \in 1 .. Len(s) : r[i] = s[i]
    OBVIOUS
  <2>2. /\ Kept(r, A) = IF x \in A THEN Append(Kept(s, A), x) ELSE Kept(s, A)
        /\ Kept(r, B) = IF x \in B THEN Append(Kept(s, B), x) ELSE Kept(s, B)
    BY KeptAppend
  <2> HIDE DEF r
  <2>3. ASSUME Agree(r) PROVE Kept(r, A) = Kept(r, B)
    <3>1. Agree(s) /\ (x \in A <=> x \in B)
      <4>1. Len(s) + 1 \in 1 .. Len(r) /\ 1 .. Len(s) \subseteq 1 .. Len(r)
        BY <2>1
      <4>2. x \in A <=> x \in B
        BY <2>1, <2>3, <4>1
      <4>3. ASSUME NEW i \in 1 .. Len(s) PROVE s[i] \in A <=> s[i] \in B
        BY <2>1, <2>3, <4>1
      <4> QED BY <4>2, <4>3
    <3>2. Kept(s, A) = Kept(s, B)
      BY <1>2, <3>1
    <3> QED BY <2>2, <3>1, <3>2
  <2>4. r \in P
    BY <2>1, <2>3
  <2> QED BY <2>4 DEF r
<1>3. Seq(T) \subseteq P
  <2> HIDE DEF P
  <2> QED BY <1>1, <1>2, SeqInduction
<1> QED BY <1>3

\* Filtering twice keeps what both filters want.
LEMMA KeptTwice ==
  ASSUME NEW T, NEW q \in Seq(T), NEW A, NEW B
  PROVE  Kept(Kept(q, A), B) = Kept(q, A \cap B)
<1> DEFINE P == {s \in Seq(T) : Kept(Kept(s, A), B) = Kept(s, A \cap B)}
<1>1. <<>> \in P
  <2>1. Kept(<<>>, A) = <<>> /\ Kept(<<>>, B) = <<>> /\ Kept(<<>>, A \cap B) = <<>>
    BY KeptEmpty
  <2>2. <<>> \in Seq(T)
    OBVIOUS
  <2> QED BY <2>1, <2>2
<1>2. ASSUME NEW s \in Seq(T), NEW x \in T, s \in P PROVE Append(s, x) \in P
  <2>1. Append(s, x) \in Seq(T)
    OBVIOUS
  <2>0. Kept(s, A) \in Seq(T)
    BY KeptType
  <2>2. Kept(Append(s, x), A) = IF x \in A THEN Append(Kept(s, A), x) ELSE Kept(s, A)
    BY KeptAppend
  <2>3. Kept(Append(Kept(s, A), x), B) =
          IF x \in B THEN Append(Kept(Kept(s, A), B), x) ELSE Kept(Kept(s, A), B)
    BY <2>0, KeptAppend
  <2>4. Kept(Append(s, x), A \cap B) =
          IF x \in A \cap B THEN Append(Kept(s, A \cap B), x) ELSE Kept(s, A \cap B)
    BY KeptAppend
  <2>5. Kept(Kept(s, A), B) = Kept(s, A \cap B)
    BY <1>2
  <2>6. x \in A \cap B <=> x \in A /\ x \in B
    OBVIOUS
  <2>7. Kept(Kept(Append(s, x), A), B) = Kept(Append(s, x), A \cap B)
    BY <2>2, <2>3, <2>4, <2>5, <2>6
  <2> QED BY <2>1, <2>7
<1>3. Seq(T) \subseteq P
  <2> HIDE DEF P
  <2> QED BY <1>1, <1>2, SeqInduction
<1> QED BY <1>3

\* One element more leaves the beginnings of a sequence as they are.
LEMMA BeginningOfAppend ==
  ASSUME NEW T, NEW s \in Seq(T), NEW x \in T, NEW n \in 0 .. Len(s)
  PROVE  SubSeq(Append(s, x), 1, n) = SubSeq(s, 1, n)
<1> DEFINE r == Append(s, x)
<1>1. /\ r \in Seq(T) /\ Len(r) = Len(s) + 1 /\ Len(s) \in Nat
      /\ \A i \in 1 .. Len(s) : r[i] = s[i]
  OBVIOUS
<1>2. n \in Nat /\ n <= Len(s)
  BY <1>1
<1>3. /\ SubSeq(r, 1, n) \in Seq(T) /\ Len(SubSeq(r, 1, n)) = n
      /\ \A i \in 1 .. n : SubSeq(r, 1, n)[i] = r[i]
  BY <1>1, <1>2
<1>4. /\ SubSeq(s, 1, n) \in Seq(T) /\ Len(SubSeq(s, 1, n)) = n
      /\ \A i \in 1 .. n : SubSeq(s, 1, n)[i] = s[i]
  BY <1>1, <1>2
<1>5. \A i \in 1 .. n : r[i] = s[i]
  BY <1>1, <1>2
<1> QED BY <1>3, <1>4, <1>5, SeqEqual

\* If the wanted elements are the first m ones, they are what is kept.
LEMMA KeptPrefix ==
  ASSUME NEW T, NEW q \in Seq(T), NEW S, NEW m \in 0 .. Len(q),
         \A i \in 1 .. Len(q) : q[i] \in S <=> i <= m
  PROVE  Kept(q, S) = SubSeq(q, 1, m)
<1> DEFINE Split(s, n) == \A i \in 1 .. Len(s) : s[i] \in S <=> i <= n
           P == {s \in Seq(T) : \A n \in 0 .. Len(s) :
                   Split(s, n) => Kept(s, S) = SubSeq(s, 1, n)}
<1>1. <<>> \in P
  <2>1. Kept(<<>>, S) = <<>>
    BY KeptEmpty
  <2>2. <<>> \in Seq(T) /\ SubSeq(<<>>, 1, 0) = <<>>
    OBVIOUS
  <2>3. ASSUME NEW n \in 0 .. Len(<<>>) PROVE Kept(<<>>, S) = SubSeq(<<>>, 1, n)
    <3>1. n = 0
      OBVIOUS
    <3> QED BY <2>1, <2>2, <3>1
  <2> QED BY <2>2, <2>3
<1>2. ASSUME NEW s \in Seq(T), NEW x \in T, s \in P PROVE Append(s, x) \in P
  <2> DEFINE r == Append(s, x)
  <2>1. /\ r \in Seq(T) /\ Len(r) = Len(s) + 1 /\ Len(s) \in Nat
        /\ r[Len(s) + 1] = x /\ \A i \in 1 .. Len(s) : r[i] = s[i]
    OBVIOUS
  <2>2. Kept(r, S) = IF x \in S THEN Append(Kept(s, S), x) ELSE Kept(s, S)
    BY KeptAppend
  <2>3. ASSUME NEW n \in 0 .. Len(s) PROVE SubSeq(r, 1, n) = SubSeq(s, 1, n)
    BY BeginningOfAppend
  <2>4. SubSeq(r, 1, Len(s) + 1) = Append(SubSeq(s, 1, Len(s)), x)
    OBVIOUS
  <2> HIDE DEF r
  <2>5. ASSUME NEW n \in 0 .. Len(r), Split(r, n) PROVE Kept(r, S) = SubSeq(r, 1, n)
    <3>1. Len(s) + 1 \in 1 .. Len(r) /\ 1 .. Len(s) \subseteq 1 .. Len(r)
      BY <2>1
    <3>2. x \in S <=> Len(s) + 1 <= n
      BY <2>1, <2>5, <3>1
    <3>3. CASE n = Len(s) + 1
      <4>1. Len(s) \in 0 .. Len(s) /\ Split(s, Len(s))
        BY <2>1, <2>5, <3>1, <3>3
      <4>2. Kept(s, S) = SubSeq(s, 1, Len(s))
        BY <1>2, <4>1
      <4> QED BY <2>1, <2>2, <2>4, <3>2, <3>3, <4>2
    <3>4. CASE n # Len(s) + 1
      <4>1. n \in 0 .. Len(s) /\ Split(s, n)
        BY <2>1, <2>5, <3>1, <3>4
      <4>2. Kept(s, S) = SubSeq(s, 1, n)
        BY <1>2, <4>1
      <4> QED BY <2>1, <2>2, <2>3, <3>2, <4>1, <4>2
    <3> QED BY <3>3, <3>4
  <2>6. r \in P
    BY <2>1, <2>5
  <2> QED BY <2>6 DEF r
<1>3. Seq(T) \subseteq P
  <2> HIDE DEF P
  <2> QED BY <1>1, <1>2, SeqInduction
<1> QED BY <1>3

\* What is kept of a beginning of the slice is a beginning of what is kept.
LEMMA KeptBeginning ==
  ASSUME NEW T, NEW q \in Seq(T), NEW S, NEW n \in 0 .. Len(q)
  PROVE  \E m \in 0 .. Len(Kept(q, S)) :
           Kept(SubSeq(q, 1, n), S) = SubSeq(Kept(q, S), 1, m)
<1> DEFINE Begins(s, j) == \E m \in 0 .. Len(Kept(s, S)) :
             Kept(SubSeq(s, 1, j), S) = SubSeq(Kept(s, S), 1, m)
           P == {s \in Seq(T) : \A j \in 0 .. Len(s) : Begins(s, j)}
<1>1. ASSUME NEW s \in Seq(T) PROVE Begins(s, Len(s))
  <2>1. Kept(s, S) \in Seq(T) /\ Len(Kept(s, S)) \in 0 .. Len(Kept(s, S))
    <3>1. Kept(s, S) \in Seq(T)
      BY KeptType
    <3>2. Len(Kept(s, S)) \in Nat
      BY <3>1, LenProperties
    <3> QED BY <3>1, <3>2
  <2>2. /\ SubSeq(s, 1, Len(s)) = s
        /\ SubSeq(Kept(s, S), 1, Len(Kept(s, S))) = Kept(s, S)
    BY <2>1
  <2> QED BY <2>1, <2>2
<1>2. <<>> \in P
  <2>1. <<>> \in Seq(T) /\ \A j \in 0 .. Len(<<>>) : j = Len(<<>>)
    OBVIOUS
  <2> HIDE DEF Begins
  <2> QED BY <1>1, <2>1
<1>3. ASSUME NEW s \in Seq(T), NEW x \in T, s \in P PROVE Append(s, x) \in P
  <2> DEFINE r == Append(s, x)
  <2>1. r \in Seq(T) /\ Len(r) = Len(s) + 1 /\ Len(s) \in Nat
    OBVIOUS
  <2>2. Kept(r, S) = IF x \in S THEN Append(Kept(s, S), x) ELSE Kept(s, S)
    BY KeptAppend
  <2>3. Kept(s, S) \in Seq(T)
    BY KeptType
  <2>4. ASSUME NEW j \in 0 .. Len(s) PROVE Begins(r, j)
    <3>1. SubSeq(r, 1, j) = SubSeq(s, 1, j)
      BY BeginningOfAppend
    <3>2. PICK m \in 0 .. Len(Kept(s, S)) :
            Kept(SubSeq(s, 1, j), S) = SubSeq(Kept(s, S), 1, m)
      BY <1>3
    <3>3. SubSeq(Append(Kept(s, S), x), 1, m) = SubSeq(Kept(s, S), 1, m)
      BY <2>3, BeginningOfAppend
    <3>4. m \in 0 .. Len(Kept(r, S))
      BY <2>2, <2>3
    <3>5. SubSeq(Kept(r, S), 1, m) = SubSeq(Kept(s, S), 1, m)
      BY <2>2, <3>3
    <3> QED BY <3>1, <3>2, <3>4, <3>5
  <2> HIDE DEF Begins, r
  <2>5. \A j \in 0 .. Len(r) : j \in 0 .. Len(s) \/ j = Len(r)
    BY <2>1
  <2>6. r \in P
    BY <1>1, <2>1, <2>4, <2>5
  <2> QED BY <2>6 DEF r
<1>4. Seq(T) \subseteq P
  <2> HIDE DEF P
  <2> QED BY <1>2, <1>3, SeqInduction
<1> QED BY <1>4

\* If they are the ones after the first m, the rest is kept.
LEMMA KeptSuffix ==
  ASSUME NEW T, NEW q \in Seq(T), NEW S, NEW m \in 0 .. Len(q),
         \A i \in 1 .. Len(q) : q[i] \in S <=> i > m
  PROVE  Kept(q, S) = SubSeq(q, m + 1, Len(q))
<1> DEFINE Split(s, n) == \A i \in 1 .. Len(s) : s[i] \in S <=> i > n
           P == {s \in Seq(T) : \A n \in 0 .. Len(s) :
                   Split(s, n) => Kept(s, S) = SubSeq(s, n + 1, Len(s))}
<1>1. <<>> \in P
  <2>1. Kept(<<>>, S) = <<>>
    BY KeptEmpty
  <2>2. <<>> \in Seq(T) /\ SubSeq(<<>>, 1, 0) = <<>>
    OBVIOUS
  <2>3. ASSUME NEW n \in 0 .. Len(<<>>)
        PROVE  Kept(<<>>, S) = SubSeq(<<>>, n + 1, Len(<<>>))
    <3>1. n + 1 = 1 /\ Len(<<>>) = 0
      OBVIOUS
    <3> QED BY <2>1, <2>2, <3>1
  <2> QED BY <2>2, <2>3
<1>2. ASSUME NEW s \in Seq(T), NEW x \in T, s \in P PROVE Append(s, x) \in P
  <2> DEFINE r == Append(s, x)
  <2>1. /\ r \in Seq(T) /\ Len(r) = Len(s) + 1 /\ Len(s) \in Nat
        /\ r[Len(s) + 1] = x /\ \A i \in 1 .. Len(s) : r[i] = s[i]
    OBVIOUS
  <2>2. Kept(r, S) = IF x \in S THEN Append(Kept(s, S), x) ELSE Kept(s, S)
    BY KeptAppend
  <2>3. ASSUME NEW n \in 0 .. Len(s)
        PROVE  SubSeq(r, n + 1, Len(s) + 1) = Append(SubSeq(s, n + 1, Len(s)), x)
    <3> DEFINE l == Len(s) - n
               u == SubSeq(r, n + 1, Len(s) + 1)
               v == SubSeq(s, n + 1, Len(s))
    <3>1. n \in Nat /\ l \in Nat /\ Len(s) = n + l
      BY <2>1
    <3> HIDE DEF r, l
    <3>2. u \in Seq(T) /\ Len(u) = l + 1 /\ \A i \in 1 .. l + 1 : u[i] = r[n + i]
      BY <2>1, <3>1
    <3>3. v \in Seq(T) /\ Len(v) = l /\ \A i \in 1 .. l : v[i] = s[n + i]
      BY <2>1, <3>1
    <3>4. \A i \in 1 .. l : r[n + i] = s[n + i]
      BY <2>1, <3>1
    <3>5. r[n + l + 1] = x
      BY <2>1, <3>1
    <3> HIDE DEF u, v
    <3> DEFINE w == Append(v, x)
    <3>6. w \in Seq(T) /\ Len(w) = l + 1 /\ w[l + 1] = x /\ \A i \in 1 .. l : w[i] = v[i]
      BY <3>1, <3>3
    <3> HIDE DEF w
    <3>7. ASSUME NEW i \in 1 .. l + 1 PROVE u[i] = w[i]
      <4>1. CASE i = l + 1
        <5>1. u[i] = r[n + i]
          BY <3>2
        <5>2. n + i = n + l + 1
          BY <3>1, <4>1
        <5> QED BY <3>5, <3>6, <4>1, <5>1, <5>2
      <4>2. CASE i # l + 1
        <5>1. i \in 1 .. l
          BY <3>1, <4>2
        <5> QED BY <3>2, <3>3, <3>4, <3>6, <5>1
      <4> QED BY <4>1, <4>2
    <3>8. u = Append(v, x)
      BY <3>1, <3>2, <3>6, <3>7, SeqEqual DEF w
    <3> QED BY <3>8 DEF u, v
  <2>4. SubSeq(r, Len(s) + 2, Len(s) + 1) = <<>> /\ SubSeq(s, Len(s) + 1, Len(s)) = <<>>
    OBVIOUS
  <2> HIDE DEF r
  <2>5. ASSUME NEW n \in 0 .. Len(r), Split(r, n)
        PROVE  Kept(r, S) = SubSeq(r, n + 1, Len(r))
    <3>1. Len(s) + 1 \in 1 .. Len(r) /\ 1 .. Len(s) \subseteq 1 .. Len(r)
      BY <2>1
    <3>2. x \in S <=> Len(s) + 1 > n
      BY <2>1, <2>5, <3>1
    <3>3. CASE n = Len(s) + 1
      <4>1. Len(s) \in 0 .. Len(s) /\ Split(s, Len(s))
        BY <2>1, <2>5, <3>1, <3>3
      <4>2. Kept(s, S) = <<>>
        BY <1>2, <2>4, <4>1
      <4>3. n + 1 = Len(s) + 2 /\ x \notin S
        BY <2>1, <3>2, <3>3
      <4> QED BY <2>1, <2>2, <2>4, <4>2, <4>3
    <3>4. CASE n # Len(s) + 1
      <4>1. n \in 0 .. Len(s) /\ Split(s, n) /\ x \in S
        BY <2>1, <2>5, <3>1, <3>2, <3>4
      <4>2. Kept(s, S) = SubSeq(s, n + 1, Len(s))
        BY <1>2, <4>1
      <4> QED BY <2>1, <2>2, <2>3, <4>1, <4>2
    <3> QED BY <3>3, <3>4
  <2>6. r \in P
    BY <2>1, <2>5
  <2> QED BY <2>6 DEF r
<1>3. Seq(T) \subseteq P
  <2> HIDE DEF P
  <2> QED BY <1>1, <1>2, SeqInduction
<1> QED BY <1>3

\* If an element is wanted whenever an earlier one is, the wanted ones are the
\* rest of the slice after some point.
LEMMA KeptRest ==
  ASSUME NEW T, NEW q \in Seq(T), NEW S,
         \A i, j \in 1 .. Len(q) : i < j /\ q[i] \in S => q[j] \in S
  PROVE  \E m \in 0 .. Len(q) : Kept(q, S) = SubSeq(q, m + 1, Len(q))
<1> DEFINE Closed(s) == \A i, j \in 1 .. Len(s) : i < j /\ s[i] \in S => s[j] \in S
           Split(s, n) == \A i \in 1 .. Len(s) : s[i] \in S <=> i > n
           P == {s \in Seq(T) : Closed(s) => \E n \in 0 .. Len(s) : Split(s, n)}
<1>1. <<>> \in P
  <2>1. <<>> \in Seq(T) /\ 0 \in 0 .. Len(<<>>) /\ Split(<<>>, 0)
    OBVIOUS
  <2> QED BY <2>1
<1>2. ASSUME NEW s \in Seq(T), NEW x \in T, s \in P PROVE Append(s, x) \in P
  <2> DEFINE r == Append(s, x)
  <2>1. /\ r \in Seq(T) /\ Len(r) = Len(s) + 1 /\ Len(s) \in Nat
        /\ r[Len(s) + 1] = x /\ \A i \in 1 .. Len(s) : r[i] = s[i]
    OBVIOUS
  <2> HIDE DEF r
  <2>2. ASSUME Closed(r) PROVE \E n \in 0 .. Len(r) : Split(r, n)
    <3>1. Len(s) + 1 \in 1 .. Len(r) /\ 1 .. Len(s) \subseteq 1 .. Len(r)
      BY <2>1
    <3>2. CASE x \in S
      <4>1. Closed(s)
        BY <2>1, <2>2, <3>1
      <4>2. PICK n \in 0 .. Len(s) : Split(s, n)
        BY <1>2, <4>1
      <4>3. n \in 0 .. Len(r) /\ Split(r, n)
        BY <2>1, <3>2, <4>2
      <4> QED BY <4>3
    <3>3. CASE x \notin S
      <4>1. ASSUME NEW i \in 1 .. Len(s), s[i] \in S PROVE FALSE
        <5>1. i < Len(s) + 1 /\ i \in 1 .. Len(r) /\ r[i] \in S
          BY <2>1, <4>1
        <5>2. r[Len(s) + 1] \in S
          BY <2>2, <3>1, <5>1
        <5> QED BY <2>1, <3>3, <5>2
      <4>2. Len(r) \in 0 .. Len(r) /\ Split(r, Len(r))
        <5>1. ASSUME NEW i \in 1 .. Len(r) PROVE r[i] \notin S /\ ~(i > Len(r))
          BY <2>1, <3>3, <4>1
        <5> QED BY <2>1, <5>1
      <4> QED BY <4>2
    <3> QED BY <3>2, <3>3
  <2>3. r \in P
    BY <2>1, <2>2
  <2> QED BY <2>3 DEF r
<1>3. Seq(T) \subseteq P
  <2> HIDE DEF P
  <2> QED BY <1>1, <1>2, SeqInduction
<1>4. PICK m \in 0 .. Len(q) : Split(q, m)
  BY <1>3
<1> QED BY <1>4, KeptSuffix

\* The first element of the slice, if it is wanted, is the first that is kept;
\* removing it removes it from what is kept.
LEMMA KeptTail ==
  ASSUME NEW T, NEW q \in Seq(T), NEW S, q # <<>>
  PROVE  IF q[1] \in S
           THEN /\ Kept(q, S) # <<>> /\ Kept(q, S)[1] = q[1]
                /\ Kept(Tail(q), S) = Tail(Kept(q, S))
           ELSE Kept(Tail(q), S) = Kept(q, S)
<1> DEFINE Claim(s) == IF s[1] \in S
             THEN /\ Kept(s, S) # <<>> /\ Kept(s, S)[1] = s[1]
                  /\ Kept(Tail(s), S) = Tail(Kept(s, S))
             ELSE Kept(Tail(s), S) = Kept(s, S)
           P == {s \in Seq(T) : s # <<>> => Claim(s)}
<1>1. <<>> \in P
  OBVIOUS
<1>2. ASSUME NEW s \in Seq(T), NEW x \in T, s \in P PROVE Append(s, x) \in P
  <2> DEFINE r == Append(s, x)
             k == Kept(s, S)
  <2>1. r \in Seq(T) /\ r # <<>>
    OBVIOUS
  <2>2. Kept(r, S) = IF x \in S THEN Append(k, x) ELSE k
    BY KeptAppend
  <2>3. k \in Seq(T)
    BY KeptType
  <2>4. CASE s = <<>>
    <3>1. k = <<>> /\ Kept(<<>>, S) = <<>>
      BY <2>4, KeptEmpty
    <3>2. r[1] = x /\ Tail(r) = <<>>
      BY <2>4
    <3>3. /\ Append(<<>>, x) # <<>> /\ Tail(Append(<<>>, x)) = <<>>
          /\ Append(<<>>, x)[1] = x
      OBVIOUS
    <3>4. Claim(r)
      BY <2>2, <3>1, <3>2, <3>3
    <3> QED BY <2>1, <3>4
  <2>5. CASE s # <<>>
    <3>1. r[1] = s[1] /\ Tail(r) = Append(Tail(s), x) /\ Tail(s) \in Seq(T)
      BY <2>5
    <3>2. Kept(Tail(r), S) =
            IF x \in S THEN Append(Kept(Tail(s), S), x) ELSE Kept(Tail(s), S)
      BY <3>1, KeptAppend
    <3>3. Claim(s)
      BY <1>2, <2>5
    <3>4. k # <<>> => /\ Append(k, x) # <<>> /\ Append(k, x)[1] = k[1]
                      /\ Tail(Append(k, x)) = Append(Tail(k), x)
      BY <2>3
    <3> HIDE DEF r, k
    <3>5. CASE s[1] \in S
      <4>1. k # <<>> /\ k[1] = s[1] /\ Kept(Tail(s), S) = Tail(k)
        BY <3>3, <3>5 DEF k
      <4>2. /\ Kept(r, S) # <<>> /\ Kept(r, S)[1] = s[1]
            /\ Kept(Tail(r), S) = Tail(Kept(r, S))
        BY <2>2, <3>2, <3>4, <4>1
      <4> QED BY <2>1, <3>1, <3>5, <4>2 DEF r
    <3>6. CASE s[1] \notin S
      <4>1. Kept(Tail(s), S) = k
        BY <3>3, <3>6 DEF k
      <4>2. Kept(Tail(r), S) = Kept(r, S)
        BY <2>2, <3>2, <4>1
      <4> QED BY <2>1, <3>1, <3>6, <4>2 DEF r
    <3> QED BY <3>5, <3>6
  <2> QED BY <2>4, <2>5
<1>3. Seq(T) \subseteq P
  <2> HIDE DEF P
  <2> QED BY <1>1, <1>2, SeqInduction
<1> QED BY <1>3

\* The images of the elements of q under the function f.
Mapped(f, q) == [i \in 1 .. Len(q) |-> f[q[i]]]

\* The elements of T whose image is in B.
Preimage(f, T, B) == {x \in T : f[x] \in B}

\* To keep the elements whose image is wanted is to keep the wanted images.
LEMMA KeptMapped ==
  ASSUME NEW T, NEW f, NEW q \in Seq(T), NEW B
  PROVE  Mapped(f, Kept(q, Preimage(f, T, B))) = Kept(Mapped(f, q), B)
<1> DEFINE A == Preimage(f, T, B)
           U == {f[x] : x \in T}
           P == {s \in Seq(T) : Mapped(f, Kept(s, A)) = Kept(Mapped(f, s), B)}
<1>a. \A x \in T : x \in A <=> f[x] \in B
  BY DEF Preimage
<1>b. \A x \in T : f[x] \in U
  OBVIOUS
<1> HIDE DEF A, U
<1>0. Mapped(f, <<>>) = <<>>
  BY DEF Mapped
<1>1. <<>> \in P
  <2>1. Kept(<<>>, A) = <<>> /\ Kept(<<>>, B) = <<>>
    BY KeptEmpty
  <2>2. <<>> \in Seq(T)
    OBVIOUS
  <2> QED BY <1>0, <2>1, <2>2
<1>2. ASSUME NEW s \in Seq(T), NEW x \in T
      PROVE  Mapped(f, Append(s, x)) = Append(Mapped(f, s), f[x]) /\ Mapped(f, s) \in Seq(U)
  <2> DEFINE r == Append(s, x)
             n == Len(s)
             u == Mapped(f, r)
             v == Mapped(f, s)
             w == Append(v, f[x])
  <2>1. /\ Len(r) = n + 1 /\ n \in Nat /\ r[n + 1] = x /\ \A i \in 1 .. n : r[i] = s[i]
        /\ r \in Seq(T)
    OBVIOUS
  <2> HIDE DEF r
  <2>2. v \in Seq(U) /\ Len(v) = n /\ \A i \in 1 .. n : v[i] = f[s[i]]
    BY <1>b DEF Mapped
  <2>3. u \in Seq(U) /\ Len(u) = n + 1 /\ \A i \in 1 .. n + 1 : u[i] = f[r[i]]
    BY <1>b, <2>1 DEF Mapped
  <2> HIDE DEF n, u, v
  <2>4. w \in Seq(U) /\ Len(w) = n + 1 /\ w[n + 1] = f[x] /\ \A i \in 1 .. n : w[i] = v[i]
    BY <1>b, <2>1, <2>2
  <2> HIDE DEF w
  <2>5. ASSUME NEW i \in 1 .. n + 1 PROVE u[i] = w[i]
    <3>1. CASE i = n + 1
      BY <2>1, <2>3, <2>4, <3>1
    <3>2. CASE i # n + 1
      <4>1. i \in 1 .. n
        BY <2>1, <3>2
      <4> QED BY <2>1, <2>2, <2>3, <2>4, <4>1
    <3> QED BY <3>1, <3>2
  <2>6. u = w
    BY <2>1, <2>3, <2>4, <2>5, SeqEqual
  <2> QED BY <2>2, <2>6 DEF r, u, v, w
<1>3. ASSUME NEW s \in Seq(T), NEW x \in T, s \in P PROVE Append(s, x) \in P
  <2>1. Kept(Append(s, x), A) = IF x \in A THEN Append(Kept(s, A), x) ELSE Kept(s, A)
    BY KeptAppend
  <2>2. Kept(s, A) \in Seq(T)
    BY KeptType
  <2>3. Mapped(f, Append(Kept(s, A), x)) = Append(Mapped(f, Kept(s, A)), f[x])
    BY <1>2, <2>2
  <2>4. Mapped(f, Append(s, x)) = Append(Mapped(f, s), f[x]) /\ Mapped(f, s) \in Seq(U)
        /\ f[x] \in U
    BY <1>b, <1>2
  <2>5. Kept(Append(Mapped(f, s), f[x]), B) =
          IF f[x] \in B THEN Append(Kept(Mapped(f, s), B), f[x]) ELSE Kept(Mapped(f, s), B)
    <3> DEFINE v == Mapped(f, s)
               y == f[x]
    <3>1. v \in Seq(U) /\ y \in U
      BY <2>4
    <3> HIDE DEF v, y
    <3>2. Kept(Append(v, y), B) = IF y \in B THEN Append(Kept(v, B), y) ELSE Kept(v, B)
      BY <3>1, KeptAppend
    <3> QED BY <3>2 DEF v, y
  <2>6. Mapped(f, Kept(s, A)) = Kept(Mapped(f, s), B)
    BY <1>3
  <2>7. Mapped(f, Kept(Append(s, x), A)) = Kept(Mapped(f, Append(s, x)), B)
    BY <1>a, <2>1, <2>3, <2>4, <2>5, <2>6
  <2>8. Append(s, x) \in Seq(T)
    OBVIOUS
  <2> QED BY <2>7, <2>8
<1>4. Seq(T) \subseteq P
  <2> HIDE DEF P
  <2> QED BY <1>1, <1>3, SeqInduction
<1> QED BY <1>4 DEF A

----------------------------------------------------------------------------
(* What pushPendingContainer does to a queue.                               *)

\* A push appends the entry to elements of the queue that have other names, and
\* are forward if it is.
LEMMA PushedShape ==
  ASSUME NEW T, NEW q \in Seq(T), NEW pc
  PROVE  \E k \in Seq(T) :
           /\ Pushed(q, pc) = Append(k, pc)
           /\ Within(k, q)
           /\ \A i \in 1 .. Len(k) : k[i].name # pc.name
           /\ pc.forward => \A i \in 1 .. Len(k) : k[i].forward
<1> DEFINE F == {x \in Range(q) : x.forward}
           O(s) == {x \in Range(s) : x.name # pc.name}
<1>1. CASE pc.forward
  <2> DEFINE G == O(Kept(q, F))
             k == Kept(q, F \cap G)
  <2>1. Pushed(q, pc) = Append(k, pc)
    <3>1. Pushed(q, pc) = Append(Kept(Kept(q, F), G), pc)
      BY <1>1 DEF Pushed, Without, Forward
    <3> HIDE DEF F, G
    <3>2. Kept(Kept(q, F), G) = Kept(q, F \cap G)
      BY KeptTwice
    <3> QED BY <3>1, <3>2
  <2>2. k \in Seq(T) /\ k \in Seq(T \cap (F \cap G)) /\ Within(k, q)
    BY KeptType, KeptWithin
  <2>3. \A i \in 1 .. Len(k) : k[i] \in F /\ k[i] \in G
    <3> HIDE DEF k, F, G
    <3> QED BY <2>2
  <2> QED BY <2>1, <2>2, <2>3
<1>2. CASE ~pc.forward
  <2> DEFINE k == Kept(q, O(q))
  <2>1. Pushed(q, pc) = Append(k, pc)
    BY <1>2 DEF Pushed, Without
  <2>2. k \in Seq(T) /\ k \in Seq(T \cap O(q)) /\ Within(k, q)
    BY KeptType, KeptWithin
  <2>3. \A i \in 1 .. Len(k) : k[i] \in O(q)
    <3> HIDE DEF k, O
    <3> QED BY <2>2
  <2> QED BY <1>2, <2>1, <2>2, <2>3
<1> QED BY <1>1, <1>2
=============================================================================
