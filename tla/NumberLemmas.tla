---------------------------- MODULE NumberLemmas ----------------------------
(***************************************************************************)
(* Facts about numbers and sequences that the proofs of several components *)
(* use.  Where a fact would be proved by induction it is proved from a     *)
(* least counterexample (LeastNatural).                                    *)
(***************************************************************************)
EXTENDS Integers, Sequences, SequencesExt, WellFoundedInduction, SequenceTheorems, TLAPS

\* A set of natural numbers has a least one.
LEMMA LeastNatural ==
    ASSUME NEW T \in SUBSET Nat, T # {}
    PROVE  \E n \in T : \A m \in T : n <= m
<1> DEFINE R == OpToRel(<, Nat)
<1>1. IsWellFoundedOn(R, Nat)
  BY NatLessThanWellFounded
<1> HIDE DEF R
<1>2. PICK n \in T : \A m \in T : ~(<<m, n>> \in R)
  BY <1>1, WFMin
<1> USE DEF R
<1>3. \A m \in T : ~(m < n)
  BY <1>2 DEF OpToRel
<1>4. QED
  BY <1>3

\* A set of numbers up to b has a greatest one.
LEMMA GreatestUpTo ==
    ASSUME NEW b \in Nat, NEW T \in SUBSET (1..b), T # {}
    PROVE  \E n \in T : \A m \in T : m <= n
<1> DEFINE U == {u \in 0..b : b - u \in T}
<1>1. U \in SUBSET Nat
  OBVIOUS
<1>2. U # {}
  <2>1. PICK t \in T : TRUE
    OBVIOUS
  <2>2. b - t \in 0..b /\ b - (b - t) = t
    BY <2>1
  <2>3. QED
    BY <2>1, <2>2
<1>3. PICK u \in U : \A v \in U : u <= v
  <2> HIDE DEF U
  <2> QED BY <1>1, <1>2, LeastNatural
<1>4. ASSUME NEW m \in T
      PROVE  m <= b - u
  <2>1. b - m \in 0..b /\ b - (b - m) = m
    OBVIOUS
  <2>2. u <= b - m
    BY <2>1, <1>3
  <2>3. QED
    BY <2>2, <1>3
<1>5. QED
  BY <1>3, <1>4

\* What is left of a sequence after its first m elements.
LEMMA SuffixFacts ==
    ASSUME NEW T, NEW q \in Seq(T), NEW m \in Nat
    PROVE  /\ SubSeq(q, m + 1, Len(q)) \in Seq(T)
           /\ \A i \in 1..Len(SubSeq(q, m + 1, Len(q))) :
                i + m \in 1..Len(q) /\ SubSeq(q, m + 1, Len(q))[i] = q[i + m]
<1> DEFINE n == Len(q)
           r == SubSeq(q, m + 1, n)
<1>1. n \in Nat /\ \A i \in 1..n : q[i] \in T
  OBVIOUS
<1> HIDE DEF n
<1>2. \A i \in (m + 1)..n : q[i] \in T /\ i \in 1..n
  BY <1>1
<1>3. r \in Seq(T)
  BY <1>1, <1>2, SubSeqProperties DEF n
<1>4. Len(r) = IF m + 1 <= n THEN n - (m + 1) + 1 ELSE 0
  BY <1>1, <1>2, SubSeqProperties DEF n
<1>5. \A i \in 1..(n - (m + 1) + 1) : r[i] = q[(m + 1) + i - 1]
  BY <1>1, <1>2, SubSeqProperties DEF n
<1> HIDE DEF r
<1>6. ASSUME NEW i \in 1..Len(r)
      PROVE  i + m \in 1..n /\ r[i] = q[i + m]
  <2>1. m + 1 <= n /\ Len(r) = n - (m + 1) + 1
    BY <1>1, <1>4
  <2>2. i + m \in 1..n /\ (m + 1) + i - 1 = i + m
    BY <2>1, <1>1
  <2>3. QED
    BY <2>1, <2>2, <1>5
<1>7. QED
  BY <1>3, <1>6 DEF n, r

\* A sequence with another one at its end.
LEMMA ConcatFacts ==
    ASSUME NEW T, NEW q \in Seq(T), NEW r \in Seq(T)
    PROVE  /\ q \o r \in Seq(T)
           /\ Len(q \o r) = Len(q) + Len(r)
           /\ \A i \in 1..Len(q) : (q \o r)[i] = q[i]
           /\ \A i \in 1..Len(q \o r) :
                i > Len(q) => i - Len(q) \in 1..Len(r) /\ (q \o r)[i] = r[i - Len(q)]
<1>1. q \o r \in Seq(T) /\ Len(q \o r) = Len(q) + Len(r)
  BY ConcatProperties
<1>2. \A i \in 1..(Len(q) + Len(r)) :
        (q \o r)[i] = IF i <= Len(q) THEN q[i] ELSE r[i - Len(q)]
  BY ConcatProperties
<1>3. Len(q) \in Nat /\ Len(r) \in Nat
  OBVIOUS
<1>4. QED
  BY <1>1, <1>2, <1>3

-----------------------------------------------------------------------------
(* Sequences, one member after the other. *)

\* A sequence without its last element.
LEMMA Shorter ==
    ASSUME NEW T, NEW r \in Seq(T), r # <<>>
    PROVE  /\ SubSeq(r, 1, Len(r) - 1) \in Seq(T)
           /\ Len(SubSeq(r, 1, Len(r) - 1)) = Len(r) - 1
           /\ r[Len(r)] \in T
           /\ r = Append(SubSeq(r, 1, Len(r) - 1), r[Len(r)])
<1>1. PICK p \in Seq(T), x \in T : r = Append(p, x)
  BY SequenceEmptyOrAppend
<1>2. Len(r) = Len(p) + 1 /\ Len(p) \in Nat /\ r[Len(r)] = x
  BY <1>1
<1>3. SubSeq(r, 1, Len(r) - 1) = p
  <2>1. \A i \in 1..Len(p) : r[i] = p[i] /\ r[i] \in T
    BY <1>1
  <2>2. /\ SubSeq(r, 1, Len(p)) \in Seq(T)
        /\ Len(SubSeq(r, 1, Len(p))) = Len(p)
        /\ \A i \in 1..Len(p) : SubSeq(r, 1, Len(p))[i] = r[i]
    BY <1>2, <2>1
  <2>3. SubSeq(r, 1, Len(p)) = p
    BY <2>1, <2>2, SeqEqual
  <2>4. QED
    BY <1>2, <2>3
<1>4. QED
  BY <1>1, <1>2, <1>3

\* A set of sequences that has the empty one, and with a sequence every longer one, has all.
LEMMA SequencesAreBuilt ==
    ASSUME NEW T, NEW U \in SUBSET Seq(T), <<>> \in U,
           \A r \in U : \A x \in T : Append(r, x) \in U
    PROVE  \A r \in Seq(T) : r \in U
<1> DEFINE N == {Len(r) : r \in Seq(T) \ U}
<1>1. SUFFICES ASSUME N # {} PROVE FALSE
  OBVIOUS
<1>2. N \in SUBSET Nat
  OBVIOUS
<1>3. PICK n \in N : \A m \in N : n <= m
  <2> HIDE DEF N
  <2>1. QED
    BY <1>1, <1>2, LeastNatural
<1>4. PICK r \in Seq(T) : r \notin U /\ Len(r) = n
  BY <1>3
<1>5. r # <<>>
  BY <1>4
<1> DEFINE p == SubSeq(r, 1, Len(r) - 1)
<1>6. /\ p \in Seq(T) /\ Len(p) = Len(r) - 1 /\ r[Len(r)] \in T
      /\ r = Append(p, r[Len(r)])
  BY <1>5, Shorter
<1>7. p \in U
  <2>1. Len(p) \in Nat /\ ~(n <= Len(p))
    <3>1. Len(r) \in Nat
      OBVIOUS
    <3> HIDE DEF p
    <3>2. Len(p) \in Nat
      BY <1>6
    <3>3. QED
      BY <1>4, <1>6, <3>1, <3>2
  <2>2. QED
    BY <1>3, <1>6, <2>1
<1>8. QED
  BY <1>4, <1>6, <1>7

\* A sequence is a prefix of its continuations.
LEMMA PrefixOfConcat ==
    ASSUME NEW S, NEW s \in Seq(S), NEW r \in Seq(S)
    PROVE  IsPrefix(s, s \o r)
<1>1. Len(s \o r) = Len(s) + Len(r) /\ Len(s) \in Nat /\ Len(r) \in Nat
  BY ConcatProperties
<1>2. \A i \in 1..Len(s) : (s \o r)[i] = s[i]
  BY ConcatProperties
<1>3. SubSeq(s \o r, 1, Len(s)) = SubSeq(s, 1, Len(s))
  BY <1>1, SubSeqOfConcat1
<1>4. QED
  BY <1>1, <1>3 DEF IsPrefix

\* A sequence is its first n members and the rest.
LEMMA SplitAt ==
    ASSUME NEW S, NEW s \in Seq(S), NEW n \in 0..Len(s)
    PROVE  /\ SubSeq(s, 1, n) \in Seq(S) /\ SubSeq(s, n + 1, Len(s)) \in Seq(S)
           /\ s = SubSeq(s, 1, n) \o SubSeq(s, n + 1, Len(s))
           /\ Len(SubSeq(s, 1, n)) = n
<1>1. PICK m \in Nat : m = Len(s)
  BY LenProperties
<1>2. SubSeq(s, 1, m) = s
  BY <1>1, SubSeqFull
<1>3. \A i \in 1..m : s[i] \in S
  BY <1>1
<1>4. SubSeq(s, 1, n) \in Seq(S) /\ Len(SubSeq(s, 1, n)) = n
  BY <1>1, <1>3
<1>5. SubSeq(s, n + 1, m) \in Seq(S)
  BY <1>1, <1>3
<1>6. SubSeq(s, 1, n) \o SubSeq(s, n + 1, m) = SubSeq(s, 1, m)
  <2>1. 1 \in 1..(Len(s) + 1) /\ n \in (1 - 1)..Len(s) /\ m \in n..Len(s)
    BY <1>1
  <2>2. QED
    BY <2>1, ConcatAdjacentSubSeq
<1>7. QED
  BY <1>1, <1>2, <1>4, <1>5, <1>6

-----------------------------------------------------------------------------
(* FlattenSeq: its definition is recursive, and these are the facts that follow. *)

\* What FlattenSeq computes of the first n members of s, one after the other.
Piling(s, n, f) == f = [i \in 1..n |-> IF i = 1 THEN s[i] ELSE f[i - 1] \o s[i]]

\* Each of them is its definition.
LEMMA PileElement ==
    ASSUME NEW s, NEW n \in Nat, NEW f, Piling(s, n, f)
    PROVE  \A i \in 1..n : f[i] = IF i = 1 THEN s[i] ELSE f[i - 1] \o s[i]
<1> DEFINE e == [i \in 1..n |-> IF i = 1 THEN s[i] ELSE f[i - 1] \o s[i]]
<1>1. \A i \in 1..n : e[i] = IF i = 1 THEN s[i] ELSE f[i - 1] \o s[i]
  OBVIOUS
<1>2. f = e
  BY DEF Piling
<1> HIDE DEF e
<1>3. QED
  BY <1>1, <1>2

\* They exist, however many members there are.
LEMMA PilesExist ==
    ASSUME NEW s, NEW n \in Nat
    PROVE  \E f : Piling(s, n, f)
<1> DEFINE P(m) == \E f : Piling(s, m, f)
           T == {m \in Nat : ~P(m)}
<1>1. P(0)
  <2>1. Piling(s, 0, [i \in 1..0 |-> <<>>])
    BY DEF Piling
  <2>2. QED
    BY <2>1
<1>2. ASSUME NEW m \in Nat, P(m) PROVE P(m + 1)
  <2>1. PICK f : Piling(s, m, f)
    BY <1>2
  <2> DEFINE g == [i \in 1..(m + 1) |->
                     IF i = 1 THEN s[i] ELSE f[i - 1] \o s[i]]
  <2>2. \A i \in 1..m : g[i] = f[i]
    <3>1. \A i \in 1..m : f[i] = IF i = 1 THEN s[i] ELSE f[i - 1] \o s[i]
      BY <2>1, PileElement
    <3>2. QED
      BY <3>1
  <2>3. \A i \in 1..(m + 1) : i # 1 => i - 1 \in 1..m
    OBVIOUS
  <2>4. \A i \in 1..(m + 1) : i # 1 => g[i - 1] = f[i - 1]
    BY <2>2, <2>3
  <2>5. g = [i \in 1..(m + 1) |-> IF i = 1 THEN s[i] ELSE g[i - 1] \o s[i]]
    BY <2>4
  <2>6. QED
    BY <2>5 DEF Piling
<1> HIDE DEF P
<1>3. SUFFICES ASSUME T # {} PROVE FALSE
  BY DEF P
<1>4. PICK m \in T : \A k \in T : m <= k
  BY <1>3, LeastNatural
<1>5. m # 0
  BY <1>1, <1>4
<1>6. m - 1 \in Nat /\ ~(m <= m - 1) /\ (m - 1) + 1 = m
  BY <1>5
<1>7. P(m - 1)
  BY <1>6, <1>4
<1>8. QED
  BY <1>7, <1>2, <1>6

\* FlattenSeq of s is the last of them.
LEMMA FlattenIs ==
    ASSUME NEW s, Len(s) \in Nat, Len(s) # 0
    PROVE  \E f : Piling(s, Len(s), f) /\ FlattenSeq(s) = f[Len(s)]
<1> DEFINE n == Len(s)
<1>1. \E f : Piling(s, Len(s), f)
  BY PilesExist
<1> DEFINE h == CHOOSE f : f = [i \in 1..Len(s) |-> IF i = 1 THEN s[i] ELSE f[i - 1] \o s[i]]
<1>2. Piling(s, Len(s), h)
  BY <1>1, Zenon DEF Piling
<1>3. FlattenSeq(s) = h[Len(s)]
  BY Zenon DEF FlattenSeq
<1>4. QED
  BY <1>2, <1>3

\* s and r have the same first n members.
Alike(s, r, n) == \A i \in 1..n : s[i] = r[i]

\* Two piles of sequences that begin alike begin alike.
LEMMA PilesAgree ==
    ASSUME NEW s, NEW r, NEW n \in Nat, NEW m \in Nat, n <= m, NEW f, NEW g,
           Piling(s, n, f), Piling(r, m, g), Alike(s, r, n)
    PROVE  Alike(f, g, n)
<1> DEFINE T == {i \in 1..n : f[i] # g[i]}
<1>1. \A i \in 1..n : /\ f[i] = IF i = 1 THEN s[i] ELSE f[i - 1] \o s[i]
                      /\ g[i] = IF i = 1 THEN r[i] ELSE g[i - 1] \o r[i]
  BY PileElement
<1>2. SUFFICES ASSUME T # {} PROVE FALSE
  BY DEF Alike
<1>3. PICK i \in T : \A k \in T : i <= k
  <2>1. T \in SUBSET Nat
    OBVIOUS
  <2> HIDE DEF T
  <2>2. QED
    BY <1>2, <2>1, LeastNatural
<1>4. i \in 1..n /\ f[i] # g[i]
  BY <1>3
<1>5. i # 1
  BY <1>1, <1>4 DEF Alike
<1>6. i - 1 \in 1..n /\ ~(i <= i - 1)
  BY <1>4, <1>5
<1>7. f[i - 1] = g[i - 1]
  BY <1>3, <1>6
<1>8. s[i] = r[i]
  BY <1>4 DEF Alike
<1>9. QED
  BY <1>1, <1>4, <1>5, <1>7, <1>8

\* Sequences over S pile up to sequences over S.
LEMMA PileType ==
    ASSUME NEW S, NEW s, NEW n \in Nat, NEW f, Piling(s, n, f), \A i \in 1..n : s[i] \in Seq(S)
    PROVE  \A i \in 1..n : f[i] \in Seq(S)
<1> DEFINE T == {i \in 1..n : f[i] \notin Seq(S)}
<1>1. \A i \in 1..n : f[i] = IF i = 1 THEN s[i] ELSE f[i - 1] \o s[i]
  BY PileElement
<1>2. SUFFICES ASSUME T # {} PROVE FALSE
  OBVIOUS
<1>3. PICK i \in T : \A k \in T : i <= k
  <2>1. T \in SUBSET Nat
    OBVIOUS
  <2> HIDE DEF T
  <2>2. QED
    BY <1>2, <2>1, LeastNatural
<1>4. i \in 1..n /\ f[i] \notin Seq(S)
  BY <1>3
<1>5. i # 1
  BY <1>1, <1>4
<1>6. i - 1 \in 1..n /\ ~(i <= i - 1)
  BY <1>4, <1>5
<1>7. f[i - 1] \in Seq(S) /\ s[i] \in Seq(S)
  BY <1>3, <1>4, <1>6
<1>8. f[i - 1] \o s[i] \in Seq(S)
  BY <1>7, ConcatProperties
<1>9. QED
  BY <1>1, <1>4, <1>5, <1>8

\* FlattenSeq of one sequence more.
LEMMA FlattenGrows ==
    ASSUME NEW s, NEW r, NEW n \in Nat, n # 0, Len(s) = n, Len(r) = n + 1,
           \A i \in 1..n : s[i] = r[i]
    PROVE  FlattenSeq(r) = FlattenSeq(s) \o r[n + 1]
<1>1. PICK m \in Nat : m = n + 1
  OBVIOUS
<1>2. n <= m /\ n \in 1..n /\ m \in 1..m /\ m # 1 /\ m - 1 = n /\ m # 0
  BY <1>1
<1>3. PICK f : Piling(s, n, f) /\ FlattenSeq(s) = f[n]
  BY FlattenIs
<1>4. PICK g : Piling(r, m, g) /\ FlattenSeq(r) = g[m]
  BY <1>1, <1>2, FlattenIs
<1>5. Alike(f, g, n)
  <2>1. Alike(s, r, n)
    BY DEF Alike
  <2>2. QED
    BY <1>2, <1>3, <1>4, <2>1, PilesAgree
<1>6. \A i \in 1..m : g[i] = IF i = 1 THEN r[i] ELSE g[i - 1] \o r[i]
  BY <1>4, PileElement
<1>7. g[m] = f[n] \o r[m]
  BY <1>2, <1>5, <1>6 DEF Alike
<1>8. QED
  BY <1>1, <1>3, <1>4, <1>7

\* FlattenSeq of a single sequence, of none, and of one more.
LEMMA FlattenOne ==
    ASSUME NEW t
    PROVE  FlattenSeq(<<t>>) = t
<1>1. PICK r : r = <<t>>
  OBVIOUS
<1>2. Len(r) = 1 /\ r[1] = t
  BY <1>1
<1>3. PICK f : Piling(r, 1, f) /\ FlattenSeq(r) = f[1]
  <2>1. Len(r) \in Nat /\ Len(r) # 0
    BY <1>2
  <2>2. \E f : Piling(r, Len(r), f) /\ FlattenSeq(r) = f[Len(r)]
    BY <2>1, FlattenIs
  <2>3. QED
    BY <1>2, <2>2
<1>4. \A i \in 1..1 : f[i] = IF i = 1 THEN r[i] ELSE f[i - 1] \o r[i]
  BY <1>3, PileElement
<1>5. QED
  BY <1>1, <1>2, <1>3, <1>4

LEMMA FlattenEmpty == FlattenSeq(<<>>) = <<>>
<1>1. Len(<<>>) = 0
  OBVIOUS
<1>2. QED
  BY <1>1, Zenon DEF FlattenSeq

LEMMA FlattenAppend ==
    ASSUME NEW S, NEW s \in Seq(Seq(S)), NEW t \in Seq(S)
    PROVE  FlattenSeq(Append(s, t)) = FlattenSeq(s) \o t
<1>1. CASE s = <<>>
  <2>1. Append(s, t) = <<t>> /\ <<>> \o t = t
    BY <1>1
  <2>2. QED
    BY <1>1, <2>1, FlattenOne, FlattenEmpty
<1>2. CASE s # <<>>
  <2>1. PICK n \in Nat : n = Len(s)
    OBVIOUS
  <2>2. PICK r : r = Append(s, t)
    OBVIOUS
  <2>3. n # 0 /\ Len(r) = n + 1 /\ r[n + 1] = t /\ \A i \in 1..n : s[i] = r[i]
    BY <1>2, <2>1, <2>2
  <2>4. FlattenSeq(r) = FlattenSeq(s) \o r[n + 1]
    BY <2>1, <2>3, FlattenGrows
  <2>5. QED
    BY <2>2, <2>3, <2>4
<1>3. QED
  BY <1>1, <1>2

\* FlattenSeq of sequences over S is one.
LEMMA FlattenType ==
    ASSUME NEW S, NEW s \in Seq(Seq(S))
    PROVE  FlattenSeq(s) \in Seq(S)
<1>1. CASE s = <<>>
  <2>1. <<>> \in Seq(S)
    OBVIOUS
  <2>2. QED
    BY <1>1, <2>1, FlattenEmpty
<1>2. CASE s # <<>>
  <2>1. PICK n \in Nat : n = Len(s)
    OBVIOUS
  <2>2. n # 0 /\ n \in 1..n /\ \A i \in 1..n : s[i] \in Seq(S)
    BY <1>2, <2>1
  <2>3. PICK f : Piling(s, n, f) /\ FlattenSeq(s) = f[n]
    BY <2>1, <2>2, FlattenIs
  <2>4. \A i \in 1..n : f[i] \in Seq(S)
    BY <2>2, <2>3, PileType
  <2>5. QED
    BY <2>2, <2>3, <2>4
<1>3. QED
  BY <1>1, <1>2

\* FlattenSeq distributes over concatenation.
LEMMA FlattenConcat ==
    ASSUME NEW S, NEW s \in Seq(Seq(S)), NEW r \in Seq(Seq(S))
    PROVE  FlattenSeq(s \o r) = FlattenSeq(s) \o FlattenSeq(r)
<1>0. \A a, b, c \in Seq(S) : (a \o b) \o c = a \o (b \o c)
  BY ConcatAssociative
<1>1. PICK v \in Seq(S) : v = FlattenSeq(s)
  BY FlattenType
<1>2. ASSUME NEW u \in Seq(Seq(S)), NEW t \in Seq(S), FlattenSeq(s \o u) = v \o FlattenSeq(u)
      PROVE  FlattenSeq(s \o Append(u, t)) = v \o FlattenSeq(Append(u, t))
  <2>1. PICK p \in Seq(Seq(S)) : p = s \o u
    BY ConcatProperties
  <2>2. s \o Append(u, t) = Append(p, t)
    BY <2>1
  <2>3. FlattenSeq(Append(p, t)) = FlattenSeq(p) \o t
    BY FlattenAppend
  <2>4. FlattenSeq(Append(u, t)) = FlattenSeq(u) \o t
    BY FlattenAppend
  <2>5. PICK w \in Seq(S) : w = FlattenSeq(u)
    BY FlattenType
  <2>6. (v \o w) \o t = v \o (w \o t)
    BY <1>0, Zenon
  <2>7. QED
    BY <1>2, <2>1, <2>2, <2>3, <2>4, <2>5, <2>6
<1> DEFINE U == {u \in Seq(Seq(S)) : FlattenSeq(s \o u) = v \o FlattenSeq(u)}
<1>3. <<>> \in U
  <2>1. <<>> \in Seq(Seq(S)) /\ s \o <<>> = s /\ v \o <<>> = v
    OBVIOUS
  <2>2. QED
    BY <1>1, <2>1, FlattenEmpty
<1>4. \A u \in U : \A t \in Seq(S) : Append(u, t) \in U
  <2>1. \A u \in Seq(Seq(S)) : \A t \in Seq(S) : Append(u, t) \in Seq(Seq(S))
    OBVIOUS
  <2>2. QED
    BY <1>2, <2>1
<1>5. U \in SUBSET Seq(Seq(S))
  OBVIOUS
<1> HIDE DEF U
<1>6. r \in U
  BY <1>3, <1>4, <1>5, SequencesAreBuilt
<1>7. QED
  BY <1>1, <1>6 DEF U

-----------------------------------------------------------------------------
(* A sequence in which every member is replaced by a sequence. *)

Mapped(s, g) == FlattenSeq([i \in DOMAIN s |-> g[s[i]]])

\* Replacing in the empty sequence, and in one that has a member more.
LEMMA MapEmpty ==
    ASSUME NEW g
    PROVE  Mapped(<<>>, g) = <<>>
<1>1. [i \in DOMAIN <<>> |-> g[(<<>>)[i]]] = <<>>
  OBVIOUS
<1>2. QED
  BY <1>1, FlattenEmpty, Zenon DEF Mapped

LEMMA MapAppend ==
    ASSUME NEW T, NEW S, NEW g \in [T -> Seq(S)], NEW s \in Seq(T), NEW x \in T
    PROVE  Mapped(Append(s, x), g) = Mapped(s, g) \o g[x]
<1> DEFINE m == [i \in DOMAIN s |-> g[s[i]]]
           n == [i \in DOMAIN Append(s, x) |-> g[Append(s, x)[i]]]
<1>1. m \in Seq(Seq(S)) /\ Len(m) = Len(s) /\ \A i \in 1..Len(s) : m[i] = g[s[i]]
  <2>1. DOMAIN s = 1..Len(s) /\ Len(s) \in Nat /\ \A i \in 1..Len(s) : s[i] \in T
    OBVIOUS
  <2>2. m \in [1..Len(s) -> Seq(S)]
    BY <2>1
  <2>3. QED
    BY <2>1, <2>2
<1>2. n = Append(m, g[x])
  <2>1. /\ DOMAIN Append(s, x) = 1..(Len(s) + 1) /\ Len(s) \in Nat
        /\ \A i \in 1..Len(s) : Append(s, x)[i] = s[i]
        /\ Append(s, x)[Len(s) + 1] = x
        /\ g[x] \in Seq(S)
    OBVIOUS
  <2>2. /\ Append(m, g[x]) \in Seq(Seq(S)) /\ Len(Append(m, g[x])) = Len(s) + 1
        /\ \A i \in 1..Len(s) : Append(m, g[x])[i] = g[s[i]]
        /\ Append(m, g[x])[Len(s) + 1] = g[x]
    <3> HIDE DEF m
    <3> QED BY <1>1, <2>1
  <2>3. Append(m, g[x]) = [i \in 1..(Len(s) + 1) |-> Append(m, g[x])[i]]
    BY <2>2
  <2>4. \A i \in 1..(Len(s) + 1) : n[i] = Append(m, g[x])[i]
    <3>1. \A i \in 1..(Len(s) + 1) : n[i] = g[Append(s, x)[i]]
      BY <2>1
    <3>2. \A i \in 1..(Len(s) + 1) : i \in 1..Len(s) \/ i = Len(s) + 1
      BY <2>1
    <3> HIDE DEF n, m
    <3>3. QED
      BY <3>1, <3>2, <2>1, <2>2
  <2>5. n = [i \in 1..(Len(s) + 1) |-> n[i]]
    BY <2>1
  <2> HIDE DEF n, m
  <2>6. QED
    BY <2>3, <2>4, <2>5
<1>3. g[x] \in Seq(S)
  OBVIOUS
<1> HIDE DEF m, n
<1>4. FlattenSeq(Append(m, g[x])) = FlattenSeq(m) \o g[x]
  BY <1>1, <1>3, FlattenAppend
<1>5. Mapped(s, g) = FlattenSeq(m) /\ Mapped(Append(s, x), g) = FlattenSeq(n)
  BY Zenon DEF Mapped, m, n
<1>6. QED
  BY <1>2, <1>4, <1>5

\* The result is a sequence over what the pieces are sequences over.
LEMMA MapType ==
    ASSUME NEW T, NEW S, NEW g \in [T -> Seq(S)], NEW s \in Seq(T)
    PROVE  Mapped(s, g) \in Seq(S)
<1> DEFINE m == [i \in DOMAIN s |-> g[s[i]]]
<1>1. DOMAIN s = 1..Len(s) /\ Len(s) \in Nat /\ \A i \in 1..Len(s) : s[i] \in T
  OBVIOUS
<1>2. m \in [1..Len(s) -> Seq(S)]
  BY <1>1
<1>3. m \in Seq(Seq(S))
  BY <1>1, <1>2
<1> HIDE DEF m
<1>4. FlattenSeq(m) \in Seq(S)
  BY <1>3, FlattenType
<1>5. QED
  BY <1>4, Zenon DEF Mapped, m

\* Replacing distributes over concatenation.
LEMMA MapConcat ==
    ASSUME NEW T, NEW S, NEW g \in [T -> Seq(S)], NEW s \in Seq(T), NEW r \in Seq(T)
    PROVE  Mapped(s \o r, g) = Mapped(s, g) \o Mapped(r, g)
<1>0. \A a, b, c \in Seq(S) : (a \o b) \o c = a \o (b \o c)
  BY ConcatAssociative
<1>1. PICK v \in Seq(S) : v = Mapped(s, g)
  BY MapType
<1>3. ASSUME NEW u \in Seq(T), NEW x \in T, Mapped(s \o u, g) = v \o Mapped(u, g)
      PROVE  Mapped(s \o Append(u, x), g) = v \o Mapped(Append(u, x), g)
  <2>1. PICK p \in Seq(T) : p = s \o u
    BY ConcatProperties
  <2>2. s \o Append(u, x) = Append(p, x)
    BY <2>1
  <2>3. Mapped(Append(p, x), g) = Mapped(p, g) \o g[x]
    BY MapAppend
  <2>4. Mapped(Append(u, x), g) = Mapped(u, g) \o g[x]
    BY MapAppend
  <2>5. PICK w \in Seq(S) : w = Mapped(u, g)
    BY MapType
  <2>6. PICK y \in Seq(S) : y = g[x]
    OBVIOUS
  <2>7. (v \o w) \o y = v \o (w \o y)
    BY <1>0, Zenon
  <2>8. QED
    BY <1>3, <2>1, <2>2, <2>3, <2>4, <2>5, <2>6, <2>7
<1> DEFINE U == {u \in Seq(T) : Mapped(s \o u, g) = Mapped(s, g) \o Mapped(u, g)}
<1>2. <<>> \in U
  <2>1. <<>> \in Seq(T) /\ s \o <<>> = s /\ v \o <<>> = v
    OBVIOUS
  <2>2. Mapped(<<>>, g) = <<>>
    BY MapEmpty
  <2>3. QED
    BY <1>1, <2>1, <2>2
<1>4. \A u \in U : \A x \in T : Append(u, x) \in U
  <2>1. \A u \in Seq(T) : \A x \in T : Append(u, x) \in Seq(T)
    OBVIOUS
  <2>2. QED
    BY <1>1, <1>3, <2>1
<1>5. U \in SUBSET Seq(T)
  OBVIOUS
<1> HIDE DEF U
<1>6. r \in U
  BY <1>2, <1>4, <1>5, SequencesAreBuilt
<1>7. QED
  BY <1>6 DEF U

\* Replacing every element by itself changes nothing.
LEMMA MapIdentity ==
    ASSUME NEW T, NEW R, NEW S, NEW g \in [R -> Seq(S)], T \subseteq R,
           \A x \in T : g[x] = <<x>>, NEW s \in Seq(T)
    PROVE  Mapped(s, g) = s
<1>2. ASSUME NEW u \in Seq(T), NEW x \in T, Mapped(u, g) = u
      PROVE  Mapped(Append(u, x), g) = Append(u, x)
  <2>1. u \in Seq(R) /\ x \in R
    BY SeqMonotonic
  <2>2. Mapped(Append(u, x), g) = Mapped(u, g) \o g[x]
    BY <2>1, MapAppend
  <2>3. Append(u, x) = u \o <<x>>
    BY AppendIsConcat
  <2>4. QED
    BY <1>2, <2>2, <2>3
<1> DEFINE U == {u \in Seq(T) : Mapped(u, g) = u}
<1>1. <<>> \in U
  BY MapEmpty
<1>3. \A u \in U : \A x \in T : Append(u, x) \in U
  <2>1. \A u \in Seq(T) : \A x \in T : Append(u, x) \in Seq(T)
    OBVIOUS
  <2>2. QED
    BY <1>2, <2>1
<1>4. U \in SUBSET Seq(T)
  OBVIOUS
<1> HIDE DEF U
<1>5. s \in U
  BY <1>1, <1>3, <1>4, SequencesAreBuilt
<1>6. QED
  BY <1>5 DEF U

\* Replacing every element by nothing leaves nothing.
LEMMA MapToNothing ==
    ASSUME NEW T, NEW R, NEW S, NEW g \in [R -> Seq(S)], T \subseteq R,
           \A x \in T : g[x] = <<>>, NEW s \in Seq(T)
    PROVE  Mapped(s, g) = <<>>
<1>2. ASSUME NEW u \in Seq(T), NEW x \in T, Mapped(u, g) = <<>>
      PROVE  Mapped(Append(u, x), g) = <<>>
  <2>1. u \in Seq(R) /\ x \in R
    BY SeqMonotonic
  <2>2. Mapped(Append(u, x), g) = Mapped(u, g) \o g[x]
    BY <2>1, MapAppend
  <2>3. QED
    BY <1>2, <2>2
<1> DEFINE U == {u \in Seq(T) : Mapped(u, g) = <<>>}
<1>1. <<>> \in U
  BY MapEmpty
<1>3. \A u \in U : \A x \in T : Append(u, x) \in U
  <2>1. \A u \in Seq(T) : \A x \in T : Append(u, x) \in Seq(T)
    OBVIOUS
  <2>2. QED
    BY <1>2, <2>1
<1>4. U \in SUBSET Seq(T)
  OBVIOUS
<1> HIDE DEF U
<1>5. s \in U
  BY <1>1, <1>3, <1>4, SequencesAreBuilt
<1>6. QED
  BY <1>5 DEF U

\* Replacing in a sequence of one.
LEMMA MapOne ==
    ASSUME NEW T, NEW S, NEW g \in [T -> Seq(S)], NEW x \in T
    PROVE  Mapped(<<x>>, g) = g[x]
<1>1. PICK e \in Seq(T) : e = <<>>
  <2>1. <<>> \in Seq(T)
    OBVIOUS
  <2>2. QED
    BY <2>1, Zenon
<1>2. Append(e, x) = <<x>>
  BY <1>1
<1>3. Mapped(Append(e, x), g) = Mapped(e, g) \o g[x]
  BY MapAppend
<1>4. Mapped(e, g) = <<>>
  BY <1>1, MapEmpty
<1>5. <<>> \o g[x] = g[x]
  OBVIOUS
<1>6. QED
  BY <1>2, <1>3, <1>4, <1>5

=============================================================================
