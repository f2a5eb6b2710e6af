---------------------------- MODULE DutSetupProofs ----------------------------
(***************************************************************************)
(* Proofs about DutSetup, for any sessions, services and ports: every      *)
(* object is closed once and before what it works through, a test leaves   *)
(* nothing behind, no port stays occupied for nothing, and the classes of  *)
(* a DUT fit one another but for one combination of services.              *)
(***************************************************************************)
EXTENDS DutSetup, NumberLemmas, SequenceTheorems, TLAPS

Kind ==
    {"queue", "listener", "reader", "classes", "app", "openocd", "gdb", "flash", "serial", "qemu",
     "espemu", "wokwi", "dut"}

\* The kinds a call passes without making an object.
Steps == {"classes", "app", "flash"}

Task == Kind \X (Nat \X Nat)
Obj == (Kind \ Steps) \X (Nat \X Nat)

CallOf(p, o) == p[o[2][1]][o[2][2]]

\* What an object works through is on a lower level, and made before it.
Level ==
    [queue |-> 1, listener |-> 2, reader |-> 3, openocd |-> 4, gdb |-> 5, serial |-> 6,
     qemu |-> 7, espemu |-> 7, wokwi |-> 7, dut |-> 8]

\* A sequence of objects to close, those of the highest level first: with an object it has
\* what the object works through.
Closable(p, q) ==
    /\ q \in Seq(Obj)
    /\ IsInjective(q)
    /\ \A i, j \in 1..Len(q) : i <= j => Level[q[i][1]] <= Level[q[j][1]]
    /\ \A i \in 1..Len(q) : \A k \in Uses(q[i][1]) :
         k \in Makes(CallOf(p, q[i])) => <<k, q[i][2]>> \in ToSet(q)

\* The layout under construction, the fixtures' objects and the stack of layouts hold no
\* object twice.
Pieces(p, lay, ow, st) ==
    /\ Closable(p, lay) /\ Closable(p, ow)
    /\ st \in Seq(Seq(Obj)) /\ \A i \in 1..Len(st) : Closable(p, st[i])
    /\ ToSet(lay) \cap ToSet(ow) = {}
    /\ \A i \in 1..Len(st) : ToSet(st[i]) \cap (ToSet(lay) \cup ToSet(ow)) = {}
    /\ \A i, j \in 1..Len(st) : i # j => ToSet(st[i]) \cap ToSet(st[j]) = {}

KeptIn(lay, ow, st) == ToSet(lay) \cup ToSet(ow) \cup UNION {ToSet(st[i]) : i \in 1..Len(st)}

-----------------------------------------------------------------------------
(* Levels. *)

LEMMA LevelNat == \A k \in Kind \ Steps : Level[k] \in Nat
BY DEF Kind, Steps, Level

LEMMA UsedIsLower ==
    ASSUME NEW kind \in Kind \ Steps, NEW k \in Uses(kind)
    PROVE  k \in Kind \ Steps /\ Level[k] < Level[kind]
<1>1. CASE kind = "dut"
  BY <1>1 DEF Uses, Kind, Steps, Level
<1>2. CASE kind = "gdb"
  BY <1>2 DEF Uses, Kind, Steps, Level
<1>3. CASE kind = "listener"
  BY <1>3 DEF Uses, Kind, Steps, Level
<1>4. CASE kind \in {"queue", "reader"}
  BY <1>4 DEF Uses
<1>5. CASE kind \in {"openocd", "serial", "qemu", "espemu", "wokwi"}
  BY <1>5 DEF Uses, Kind, Steps, Level
<1>6. QED
  BY <1>1, <1>2, <1>3, <1>4, <1>5 DEF Kind, Steps

\* Neither create() nor the fixtures leave the order of the levels.
LEMMA OrderRespectsLevels ==
    ASSUME NEW by, NEW j \in Kind \ Steps, NEW k \in Kind \ Steps, ~(Order(by)[k] < Order(by)[j])
    PROVE  Level[j] <= Level[k]
<1>1. CASE by = "factory"
  BY <1>1 DEF Kind, Steps, Order, Level
<1>2. CASE by # "factory"
  BY <1>2 DEF Kind, Steps, Order, Level
<1>3. QED
  BY <1>1, <1>2

-----------------------------------------------------------------------------
(* Sequences of objects. *)

LEMMA FrontFacts ==
    ASSUME NEW T, NEW q \in Seq(T), q # <<>>
    PROVE  /\ Front(q) \in Seq(T) /\ Len(Front(q)) = Len(q) - 1
           /\ \A i \in 1..(Len(q) - 1) : Front(q)[i] = q[i]
<1> DEFINE n == Len(q)
<1>1. n \in Nat /\ n >= 1 /\ n - 1 \in Nat /\ \A i \in 1..n : q[i] \in T
  OBVIOUS
<1> HIDE DEF n
<1>2. \A i \in 1..(n - 1) : q[i] \in T /\ i \in 1..n
  BY <1>1
<1>3. SubSeq(q, 1, n - 1) \in Seq(T)
  BY <1>1, <1>2, SubSeqProperties DEF n
<1>4. Len(SubSeq(q, 1, n - 1)) = n - 1
  <2>1. Len(SubSeq(q, 1, n - 1)) = IF 1 <= n - 1 THEN (n - 1) - 1 + 1 ELSE 0
    BY <1>1, <1>2, SubSeqProperties
  <2>2. QED
    BY <1>1, <2>1
<1>5. ASSUME NEW i \in 1..(n - 1)  PROVE SubSeq(q, 1, n - 1)[i] = q[i]
  BY <1>1, <1>2, <1>5, SubSeqProperties DEF n
<1>6. QED
  BY <1>3, <1>4, <1>5 DEF Front, n

LEMMA PrefixFacts ==
    ASSUME NEW T, NEW q \in Seq(T), NEW n \in 0..Len(q)
    PROVE  /\ SubSeq(q, 1, n) \in Seq(T) /\ Len(SubSeq(q, 1, n)) = n
           /\ \A i \in 1..n : SubSeq(q, 1, n)[i] = q[i]
<1>1. Len(q) \in Nat /\ n \in Nat /\ \A i \in 1..n : i \in 1..Len(q)
  OBVIOUS
<1>2. \A i \in 1..n : q[i] \in T
  BY <1>1
<1> DEFINE r == SubSeq(q, 1, n)
<1>3. /\ r \in Seq(T) /\ Len(r) = (IF 1 <= n THEN n - 1 + 1 ELSE 0)
      /\ \A i \in 1..(n - 1 + 1) : r[i] = q[1 + i - 1]
  BY <1>1, <1>2, SubSeqProperties
<1> HIDE DEF r
<1>4. Len(r) = n /\ n - 1 + 1 = n
  BY <1>1, <1>3
<1>5. ASSUME NEW i \in 1..n  PROVE r[i] = q[i]
  <2>1. 1 + i - 1 = i
    BY <1>1
  <2>2. QED
    BY <1>3, <1>4, <2>1
<1>6. QED
  BY <1>3, <1>4, <1>5 DEF r

LEMMA RestFacts ==
    ASSUME NEW T, NEW q \in Seq(T), NEW n \in 0..Len(q)
    PROVE  /\ SubSeq(q, n + 1, Len(q)) \in Seq(T) /\ Len(SubSeq(q, n + 1, Len(q))) = Len(q) - n
           /\ \A i \in 1..(Len(q) - n) : SubSeq(q, n + 1, Len(q))[i] = q[n + i]
<1> DEFINE m == Len(q)
           r == SubSeq(q, n + 1, m)
<1>1. m \in Nat /\ n \in Nat /\ n <= m /\ \A i \in 1..m : q[i] \in T
  OBVIOUS
<1> HIDE DEF m
<1>2. n + 1 \in Int /\ m \in Int /\ \A i \in (n + 1)..m : q[i] \in T
  BY <1>1
<1>3. /\ r \in Seq(T) /\ Len(r) = (IF n + 1 <= m THEN m - (n + 1) + 1 ELSE 0)
      /\ \A i \in 1..(m - (n + 1) + 1) : r[i] = q[(n + 1) + i - 1]
  BY <1>2, SubSeqProperties
<1> HIDE DEF r
<1>4. Len(r) = m - n /\ m - (n + 1) + 1 = m - n
  BY <1>1, <1>3
<1>5. ASSUME NEW i \in 1..(m - n)  PROVE r[i] = q[n + i]
  <2>1. (n + 1) + i - 1 = n + i
    BY <1>1
  <2>2. QED
    BY <1>3, <1>4, <2>1
<1>6. QED
  BY <1>3, <1>4, <1>5 DEF r, m

LEMMA RemoveFacts ==
    ASSUME NEW T, NEW q \in Seq(T), NEW i \in 1..Len(q)
    PROVE  /\ RemoveAt(q, i) \in Seq(T) /\ Len(RemoveAt(q, i)) = Len(q) - 1
           /\ \A j \in 1..(Len(q) - 1) : RemoveAt(q, i)[j] = IF j < i THEN q[j] ELSE q[j + 1]
<1> DEFINE m == Len(q)
           a == SubSeq(q, 1, i - 1)
           b == SubSeq(q, i + 1, m)
<1>1. m \in Nat /\ i \in Nat /\ 1 <= i /\ i <= m /\ i - 1 \in 0..m /\ i \in 0..m
  OBVIOUS
<1>2. a \in Seq(T) /\ Len(a) = i - 1 /\ \A j \in 1..(i - 1) : a[j] = q[j]
  BY <1>1, PrefixFacts
<1>3. b \in Seq(T) /\ Len(b) = m - i /\ \A j \in 1..(m - i) : b[j] = q[i + j]
  BY <1>1, RestFacts
<1>4. RemoveAt(q, i) = a \o b
  BY DEF RemoveAt
<1> HIDE DEF m, a, b
<1>5. /\ a \o b \in Seq(T) /\ Len(a \o b) = Len(a) + Len(b)
      /\ \A j \in 1..(Len(a) + Len(b)) : (a \o b)[j] = IF j <= Len(a) THEN a[j] ELSE b[j - Len(a)]
  BY <1>2, <1>3, ConcatProperties
<1>6. Len(a) + Len(b) = m - 1
  BY <1>1, <1>2, <1>3
<1>7. ASSUME NEW j \in 1..(m - 1)  PROVE (a \o b)[j] = IF j < i THEN q[j] ELSE q[j + 1]
  <2>1. CASE j < i
    <3>1. j \in 1..(i - 1) /\ j <= Len(a)
      BY <1>1, <1>2, <2>1
    <3>2. QED
      BY <1>2, <1>5, <1>6, <2>1, <3>1
  <2>2. CASE ~(j < i)
    <3>1. ~(j <= Len(a)) /\ j - Len(a) \in 1..(m - i) /\ i + (j - Len(a)) = j + 1
      BY <1>1, <1>2, <2>2
    <3>2. QED
      BY <1>3, <1>5, <1>6, <2>2, <3>1
  <2>3. QED
    BY <2>1, <2>2
<1>8. QED
  BY <1>4, <1>5, <1>6, <1>7 DEF m

LEMMA EmptyClosable == \A p : Closable(p, <<>>) /\ ToSet(<<>>) = {}
BY DEF Closable, IsInjective, ToSet

LEMMA PushOne ==
    ASSUME NEW p, NEW q, Closable(p, q), NEW o \in Obj, o \notin ToSet(q),
           \A x \in ToSet(q) : Level[x[1]] <= Level[o[1]],
           \A k \in Uses(o[1]) : k \in Makes(CallOf(p, o)) => <<k, o[2]>> \in ToSet(q)
    PROVE  Closable(p, Append(q, o)) /\ ToSet(Append(q, o)) = ToSet(q) \cup {o}
<1> DEFINE r == Append(q, o)
           n == Len(q)
<1>1. q \in Seq(Obj) /\ n \in Nat
  BY DEF Closable
<1>2. r \in Seq(Obj) /\ Len(r) = n + 1 /\ r[n + 1] = o /\ DOMAIN r = 1..(n + 1)
      /\ DOMAIN q = 1..n /\ \A i \in 1..n : r[i] = q[i]
  BY <1>1
<1> HIDE DEF r, n
<1>3. ToSet(r) = ToSet(q) \cup {o}
  <2>1. \A i \in 1..(n + 1) : i \in 1..n \/ i = n + 1
    BY <1>1
  <2>2. \A i \in 1..n : i \in 1..(n + 1)
    BY <1>1
  <2>3. n + 1 \in 1..(n + 1)
    BY <1>1
  <2>4. QED
    BY <1>2, <2>1, <2>2, <2>3 DEF ToSet
<1>4. IsInjective(r)
  <2> SUFFICES ASSUME NEW a \in 1..(n + 1), NEW b \in 1..(n + 1), r[a] = r[b]
               PROVE  a = b
    BY <1>2 DEF IsInjective
  <2>1. \A i \in 1..n : q[i] # o
    BY <1>2 DEF ToSet
  <2>2. CASE a \in 1..n /\ b \in 1..n
    BY <1>2, <2>2 DEF Closable, IsInjective
  <2>3. CASE a = n + 1 \/ b = n + 1
    <3>1. a \in 1..n => b = n + 1 /\ r[a] = q[a] /\ r[b] = o
      BY <1>1, <1>2, <2>3
    <3>2. b \in 1..n => a = n + 1 /\ r[b] = q[b] /\ r[a] = o
      BY <1>1, <1>2, <2>3
    <3>3. a \in 1..n \/ a = n + 1
      BY <1>1
    <3>4. b \in 1..n \/ b = n + 1
      BY <1>1
    <3>5. QED
      BY <2>1, <3>1, <3>2, <3>3, <3>4
  <2>4. QED
    BY <1>1, <2>2, <2>3
<1>5. \A i, j \in 1..(n + 1) : i <= j => Level[r[i][1]] <= Level[r[j][1]]
  <2> SUFFICES ASSUME NEW i \in 1..(n + 1), NEW j \in 1..(n + 1), i <= j
               PROVE  Level[r[i][1]] <= Level[r[j][1]]
    OBVIOUS
  <2>1. CASE j \in 1..n
    <3>1. i \in 1..n
      BY <1>1, <2>1
    <3>2. QED
      BY <1>2, <2>1, <3>1 DEF Closable, n
  <2>2. CASE j = n + 1 /\ i \in 1..n
    BY <1>2, <2>2 DEF ToSet
  <2>3. CASE j = n + 1 /\ i = n + 1
    <3>1. o[1] \in Kind \ Steps
      BY DEF Obj
    <3>2. Level[o[1]] \in Nat
      BY <3>1, LevelNat
    <3>3. QED
      BY <1>2, <2>3, <3>2
  <2>4. QED
    BY <1>1, <2>1, <2>2, <2>3
<1>6. ASSUME NEW i \in 1..(n + 1), NEW k \in Uses(r[i][1]), k \in Makes(CallOf(p, r[i]))
      PROVE  <<k, r[i][2]>> \in ToSet(r)
  <2>1. CASE i \in 1..n
    BY <1>2, <1>3, <1>6, <2>1 DEF Closable, n
  <2>2. CASE i = n + 1
    BY <1>2, <1>3, <1>6, <2>2
  <2>3. QED
    BY <1>1, <2>1, <2>2
<1>7. QED
  BY <1>2, <1>3, <1>4, <1>5, <1>6 DEF Closable, r

\* A sequence keeps its form if the objects that leave it have none on a higher level left.
LEMMA SubClosable ==
    ASSUME NEW p, NEW q, Closable(p, q), NEW r \in Seq(Obj), NEW f,
           \A i \in 1..Len(r) : f[i] \in 1..Len(q) /\ r[i] = q[f[i]],
           \A i, j \in 1..Len(r) : i <= j => f[i] <= f[j],
           \A i, j \in 1..Len(r) : f[i] = f[j] => i = j,
           \A x \in ToSet(q) \ ToSet(r) : \A i \in 1..Len(r) : Level[r[i][1]] <= Level[x[1]]
    PROVE  Closable(p, r)
<1>1. IsInjective(r)
  BY DEF IsInjective, Closable
<1>2. ASSUME NEW i \in 1..Len(r), NEW j \in 1..Len(r), i <= j
      PROVE  Level[r[i][1]] <= Level[r[j][1]]
  BY <1>2 DEF Closable
<1>3. ASSUME NEW i \in 1..Len(r), NEW k \in Uses(r[i][1]), k \in Makes(CallOf(p, r[i]))
      PROVE  <<k, r[i][2]>> \in ToSet(r)
  <2>1. r[i] = q[f[i]] /\ f[i] \in 1..Len(q) /\ r[i] \in Obj
    OBVIOUS
  <2>2. <<k, r[i][2]>> \in ToSet(q)
    BY <1>3, <2>1 DEF Closable
  <2>3. r[i][1] \in Kind \ Steps
    BY <2>1 DEF Obj
  <2>4. k \in Kind \ Steps /\ Level[k] < Level[r[i][1]] /\ Level[k] \in Nat /\ Level[r[i][1]] \in Nat
    BY <2>3, UsedIsLower, LevelNat
  <2>5. ~(Level[r[i][1]] <= Level[k])
    BY <2>4
  <2>6. QED
    BY <2>2, <2>5
<1>4. QED
  BY <1>1, <1>2, <1>3 DEF Closable

LEMMA PrefixClosable ==
    ASSUME NEW p, NEW q, Closable(p, q), NEW n \in 0..Len(q)
    PROVE  /\ Closable(p, SubSeq(q, 1, n))
           /\ ToSet(SubSeq(q, 1, n)) = ToSet(q) \ ToSet(SubSeq(q, n + 1, Len(q)))
           /\ ToSet(SubSeq(q, n + 1, Len(q))) = {q[i] : i \in (n + 1)..Len(q)}
<1> DEFINE m == Len(q)
           r == SubSeq(q, 1, n)
           t == SubSeq(q, n + 1, m)
<1>1. q \in Seq(Obj) /\ m \in Nat /\ n \in Nat /\ n <= m /\ DOMAIN q = 1..m
  BY DEF Closable
<1>2. r \in Seq(Obj) /\ Len(r) = n /\ \A i \in 1..n : r[i] = q[i]
  BY <1>1, PrefixFacts
<1>3. t \in Seq(Obj) /\ Len(t) = m - n /\ \A i \in 1..(m - n) : t[i] = q[n + i]
  <2>1. q \in Seq(Obj) /\ n \in 0..Len(q)
    BY DEF Closable
  <2>2. QED
    BY ONLY <2>1, RestFacts
<1> HIDE DEF m, r, t
<1>4. DOMAIN r = 1..n /\ DOMAIN t = 1..(m - n)
  BY <1>1, <1>2, <1>3
<1>5. \A i \in 1..n : i \in 1..m
  BY <1>1
<1>6. \A i \in (n + 1)..m : i \in 1..m /\ i \notin 1..n /\ i - n \in 1..(m - n) /\ n + (i - n) = i
  BY <1>1
<1>7. \A i \in 1..(m - n) : n + i \in (n + 1)..m
  BY <1>1
<1>8. \A i \in 1..m : i \in 1..n \/ i \in (n + 1)..m
  BY <1>1
<1>9. ToSet(t) = {q[i] : i \in (n + 1)..m}
  <2>1. ASSUME NEW x \in ToSet(t)  PROVE x \in {q[i] : i \in (n + 1)..m}
    BY <1>3, <1>4, <1>7 DEF ToSet
  <2>2. ASSUME NEW i \in (n + 1)..m  PROVE q[i] \in ToSet(t)
    <3>1. t[i - n] = q[i] /\ i - n \in DOMAIN t
      BY <1>3, <1>4, <1>6
    <3>2. QED
      BY <3>1 DEF ToSet
  <2>3. QED
    BY <2>1, <2>2
<1>10. ToSet(r) = ToSet(q) \ ToSet(t)
  <2>1. ASSUME NEW x \in ToSet(r)  PROVE x \in ToSet(q) /\ x \notin ToSet(t)
    <3>1. PICK i \in 1..n : x = q[i]
      BY <1>2, <1>4 DEF ToSet
    <3>2. \A j \in (n + 1)..m : q[j] # q[i]
      BY <1>1, <1>5, <1>6 DEF Closable, IsInjective
    <3>3. QED
      BY <1>1, <1>5, <1>9, <3>1, <3>2 DEF ToSet
  <2>2. ASSUME NEW x \in ToSet(q), x \notin ToSet(t)  PROVE x \in ToSet(r)
    BY <1>1, <1>2, <1>4, <1>8, <1>9, <2>2 DEF ToSet
  <2>3. QED
    BY <2>1, <2>2
<1>11. Closable(p, r)
  <2> DEFINE f == [i \in 1..n |-> i]
  <2>1. \A i \in 1..Len(r) : f[i] = i /\ f[i] \in 1..Len(q) /\ r[i] = q[f[i]]
    BY <1>2, <1>5 DEF m
  <2> HIDE DEF f
  <2>2. \A i, j \in 1..Len(r) : (i <= j => f[i] <= f[j]) /\ (f[i] = f[j] => i = j)
    BY <2>1
  <2>3. ASSUME NEW x \in ToSet(q) \ ToSet(r), NEW i \in 1..Len(r)
        PROVE  Level[r[i][1]] <= Level[x[1]]
    <3>1. PICK j \in (n + 1)..m : x = q[j]
      BY <1>9, <1>10
    <3>2. i \in 1..m /\ j \in 1..m /\ i <= j /\ r[i] = q[i]
      BY <1>1, <1>2, <1>5, <1>6
    <3>3. QED
      BY <3>1, <3>2 DEF Closable, m
  <2>4. QED
    BY <1>2, <2>1, <2>2, <2>3, SubClosable
<1>12. QED
  BY <1>9, <1>10, <1>11 DEF r, t, m

LEMMA PopOne ==
    ASSUME NEW p, NEW q, Closable(p, q), q # <<>>
    PROVE  /\ Closable(p, Front(q)) /\ Last(q) \in ToSet(q)
           /\ ToSet(Front(q)) = ToSet(q) \ {Last(q)}
<1> DEFINE n == Len(q)
<1>1. q \in Seq(Obj) /\ n \in Nat /\ n >= 1 /\ n - 1 \in 0..n /\ DOMAIN q = 1..n /\ n \in 1..n
      /\ (n - 1) + 1 = n
  BY DEF Closable
<1>2. /\ Closable(p, SubSeq(q, 1, n - 1))
      /\ ToSet(SubSeq(q, 1, n - 1)) = ToSet(q) \ ToSet(SubSeq(q, (n - 1) + 1, n))
      /\ ToSet(SubSeq(q, (n - 1) + 1, n)) = {q[i] : i \in ((n - 1) + 1)..n}
  BY <1>1, PrefixClosable
<1>3. {q[i] : i \in ((n - 1) + 1)..n} = {q[n]}
  BY <1>1
<1>4. QED
  BY <1>1, <1>2, <1>3 DEF Front, Last, ToSet

\* One of the objects of the highest level is taken out.
LEMMA RemoveOne ==
    ASSUME NEW p, NEW q, Closable(p, q), NEW i \in 1..Len(q), q[i][1] = Last(q)[1]
    PROVE  /\ Closable(p, RemoveAt(q, i)) /\ q[i] \in ToSet(q)
           /\ ToSet(RemoveAt(q, i)) = ToSet(q) \ {q[i]}
<1> DEFINE m == Len(q)
           r == RemoveAt(q, i)
<1>1. q \in Seq(Obj) /\ m \in Nat /\ i \in 1..m /\ m \in 1..m /\ DOMAIN q = 1..m /\ Last(q) = q[m]
  BY DEF Closable, Last
<1>2. /\ r \in Seq(Obj) /\ Len(r) = m - 1
      /\ \A j \in 1..(m - 1) : r[j] = IF j < i THEN q[j] ELSE q[j + 1]
  BY <1>1, RemoveFacts
<1> HIDE DEF m, r
<1> DEFINE f == [j \in 1..(m - 1) |-> IF j < i THEN j ELSE j + 1]
<1>3. \A j \in 1..(m - 1) : f[j] = IF j < i THEN j ELSE j + 1
  OBVIOUS
<1> HIDE DEF f
<1>4. \A j \in 1..(m - 1) : f[j] \in 1..m /\ f[j] # i /\ r[j] = q[f[j]]
  BY <1>1, <1>2, <1>3
<1>5. \A j, k \in 1..(m - 1) : (j <= k => f[j] <= f[k]) /\ (f[j] = f[k] => j = k)
  BY <1>1, <1>3
<1>6. ASSUME NEW j \in 1..m, j # i  PROVE \E k \in 1..(m - 1) : f[k] = j
  <2>1. CASE j < i
    BY <1>1, <1>3, <2>1
  <2>2. CASE ~(j < i)
    <3>1. j - 1 \in 1..(m - 1) /\ ~(j - 1 < i) /\ (j - 1) + 1 = j
      BY <1>1, <1>6, <2>2
    <3>2. QED
      BY <1>3, <3>1
  <2>3. QED
    BY <2>1, <2>2
<1>7. DOMAIN r = 1..(m - 1)
  BY <1>1, <1>2
<1>8. ToSet(r) = ToSet(q) \ {q[i]}
  <2>1. ASSUME NEW x \in ToSet(r)  PROVE x \in ToSet(q) /\ x # q[i]
    <3>1. PICK j \in 1..(m - 1) : x = r[j]
      BY <1>7 DEF ToSet
    <3>2. x = q[f[j]] /\ f[j] \in 1..m /\ f[j] # i
      BY <1>4, <3>1
    <3>3. QED
      BY <1>1, <3>2 DEF ToSet, Closable, IsInjective
  <2>2. ASSUME NEW x \in ToSet(q), x # q[i]  PROVE x \in ToSet(r)
    <3>1. PICK j \in 1..m : x = q[j] /\ j # i
      BY <1>1, <2>2 DEF ToSet
    <3>2. PICK k \in 1..(m - 1) : f[k] = j
      BY <1>6, <3>1
    <3>3. QED
      BY <1>4, <1>7, <3>1, <3>2 DEF ToSet
  <2>3. QED
    BY <2>1, <2>2
<1>9. ASSUME NEW x \in ToSet(q) \ ToSet(r), NEW j \in 1..Len(r)
      PROVE  Level[r[j][1]] <= Level[x[1]]
  <2>1. x = q[i]
    BY <1>8
  <2>2. j \in 1..(m - 1) /\ r[j] = q[f[j]] /\ f[j] \in 1..m /\ f[j] <= m
    BY <1>1, <1>2, <1>4
  <2>3. Level[q[f[j]][1]] <= Level[q[m][1]]
    BY <1>1, <2>2 DEF Closable, m
  <2>4. QED
    BY <1>1, <2>1, <2>2, <2>3
<1>10. Closable(p, r)
  <2>1. \A j \in 1..Len(r) : f[j] \in 1..Len(q) /\ r[j] = q[f[j]]
    BY <1>2, <1>4 DEF m
  <2>2. \A j, k \in 1..Len(r) : j <= k => f[j] <= f[k]
    BY <1>2, <1>5
  <2>3. \A j, k \in 1..Len(r) : f[j] = f[k] => j = k
    BY <1>2, <1>5
  <2>4. r \in Seq(Obj)
    BY <1>2
  <2>5. \A x \in ToSet(q) \ ToSet(r) : \A j \in 1..Len(r) : Level[r[j][1]] <= Level[x[1]]
    BY <1>9
  <2>6. QED
    BY <2>1, <2>2, <2>3, <2>4, <2>5, SubClosable
<1>11. QED
  BY <1>1, <1>8, <1>10 DEF r, ToSet

-----------------------------------------------------------------------------
(* What the steps do to the pieces. *)

LEMMA PushObject ==
    ASSUME NEW p, NEW lay, NEW ow, NEW st, Pieces(p, lay, ow, st),
           NEW o \in Obj, o \notin KeptIn(lay, ow, st),
           \A x \in ToSet(lay) : Level[x[1]] <= Level[o[1]],
           \A k \in Uses(o[1]) : k \in Makes(CallOf(p, o)) => <<k, o[2]>> \in ToSet(lay)
    PROVE  /\ Pieces(p, Append(lay, o), ow, st)
           /\ KeptIn(Append(lay, o), ow, st) = KeptIn(lay, ow, st) \cup {o}
           /\ ToSet(Append(lay, o)) = ToSet(lay) \cup {o}
<1>1. o \notin ToSet(lay) /\ o \notin ToSet(ow) /\ \A i \in 1..Len(st) : o \notin ToSet(st[i])
  BY DEF KeptIn
<1>2. Closable(p, lay)
  BY DEF Pieces
<1>3. Closable(p, Append(lay, o)) /\ ToSet(Append(lay, o)) = ToSet(lay) \cup {o}
  BY <1>1, <1>2, PushOne
<1>4. Pieces(p, Append(lay, o), ow, st)
  BY <1>1, <1>3 DEF Pieces
<1>5. QED
  BY <1>3, <1>4 DEF KeptIn

LEMMA MoveToOwn ==
    ASSUME NEW p, NEW lay, NEW st, Pieces(p, lay, <<>>, st)
    PROVE  Pieces(p, <<>>, lay, st) /\ KeptIn(<<>>, lay, st) = KeptIn(lay, <<>>, st)
BY EmptyClosable DEF Pieces, KeptIn

LEMMA DropLayout ==
    ASSUME NEW p, NEW lay, NEW ow, NEW st, Pieces(p, lay, ow, st)
    PROVE  /\ Pieces(p, <<>>, ow, st)
           /\ KeptIn(<<>>, ow, st) = KeptIn(lay, ow, st) \ ToSet(lay)
BY EmptyClosable DEF Pieces, KeptIn

LEMMA CutLayout ==
    ASSUME NEW p, NEW lay, NEW st, Pieces(p, lay, <<>>, st), NEW n \in 0..Len(lay)
    PROVE  /\ Pieces(p, <<>>, SubSeq(lay, 1, n), st)
           /\ KeptIn(<<>>, SubSeq(lay, 1, n), st)
                = KeptIn(lay, <<>>, st) \ ToSet(SubSeq(lay, n + 1, Len(lay)))
           /\ ToSet(SubSeq(lay, n + 1, Len(lay))) \subseteq KeptIn(lay, <<>>, st)
<1> DEFINE r == SubSeq(lay, 1, n)
           t == SubSeq(lay, n + 1, Len(lay))
<1>1. Closable(p, r) /\ ToSet(r) = ToSet(lay) \ ToSet(t) /\ ToSet(t) = {lay[i] : i \in (n + 1)..Len(lay)}
  BY PrefixClosable DEF Pieces
<1>2. ToSet(t) \subseteq ToSet(lay)
  <2>1. lay \in Seq(Obj) /\ Len(lay) \in Nat /\ DOMAIN lay = 1..Len(lay)
    BY DEF Pieces, Closable
  <2>2. \A i \in (n + 1)..Len(lay) : i \in DOMAIN lay
    BY <2>1
  <2>3. QED
    BY <1>1, <2>2 DEF ToSet
<1> HIDE DEF r, t
<1>3. \A i \in 1..Len(st) : ToSet(st[i]) \cap ToSet(lay) = {}
  BY DEF Pieces
<1>4. Pieces(p, <<>>, r, st)
  BY <1>1, <1>3, EmptyClosable DEF Pieces
<1>5. KeptIn(<<>>, r, st) = KeptIn(lay, <<>>, st) \ ToSet(t)
  BY <1>1, <1>2, <1>3, EmptyClosable DEF KeptIn
<1>6. QED
  BY <1>2, <1>4, <1>5 DEF r, t, KeptIn

LEMMA MoveToStack ==
    ASSUME NEW p, NEW lay, NEW ow, NEW st, Pieces(p, lay, ow, st)
    PROVE  /\ Pieces(p, <<>>, ow, Append(st, lay))
           /\ KeptIn(<<>>, ow, Append(st, lay)) = KeptIn(lay, ow, st)
<1> DEFINE r == Append(st, lay)
           n == Len(st)
<1>1. st \in Seq(Seq(Obj)) /\ lay \in Seq(Obj) /\ n \in Nat
  BY DEF Pieces, Closable
<1>2. r \in Seq(Seq(Obj)) /\ Len(r) = n + 1 /\ r[n + 1] = lay /\ \A i \in 1..n : r[i] = st[i]
  BY <1>1
<1> HIDE DEF r, n
<1>3. \A i \in 1..(n + 1) : i \in 1..n \/ i = n + 1
  BY <1>1
<1>4. (\A i \in 1..n : i \in 1..(n + 1)) /\ n + 1 \in 1..(n + 1)
  BY <1>1
<1>5. \A i \in 1..(n + 1) : Closable(p, r[i]) /\ ToSet(r[i]) \cap ToSet(ow) = {}
  BY <1>2, <1>3 DEF Pieces, n
<1>6. \A i, j \in 1..(n + 1) : i # j => ToSet(r[i]) \cap ToSet(r[j]) = {}
  <2> SUFFICES ASSUME NEW i \in 1..(n + 1), NEW j \in 1..(n + 1), i # j
               PROVE  ToSet(r[i]) \cap ToSet(r[j]) = {}
    OBVIOUS
  <2>1. CASE i \in 1..n /\ j \in 1..n
    BY <1>2, <2>1 DEF Pieces, n
  <2>2. CASE i \in 1..n /\ j = n + 1
    BY <1>2, <2>2 DEF Pieces, n
  <2>3. CASE i = n + 1 /\ j \in 1..n
    BY <1>2, <2>3 DEF Pieces, n
  <2>4. QED
    BY <1>3, <2>1, <2>2, <2>3
<1>7. Pieces(p, <<>>, ow, r)
  BY <1>2, <1>5, <1>6, EmptyClosable DEF Pieces
<1>8. UNION {ToSet(r[i]) : i \in 1..(n + 1)} = ToSet(lay) \cup UNION {ToSet(st[i]) : i \in 1..n}
  BY <1>2, <1>3, <1>4
<1>9. KeptIn(<<>>, ow, r) = KeptIn(lay, ow, st)
  BY <1>2, <1>8, EmptyClosable DEF KeptIn, n
<1>10. QED
  BY <1>7, <1>9 DEF r

LEMMA PopLayout ==
    ASSUME NEW p, NEW lay, NEW ow, NEW st, Pieces(p, lay, ow, st), lay # <<>>
    PROVE  /\ Pieces(p, Front(lay), ow, st)
           /\ Last(lay) \in KeptIn(lay, ow, st)
           /\ KeptIn(Front(lay), ow, st) = KeptIn(lay, ow, st) \ {Last(lay)}
<1>1. /\ Closable(p, Front(lay)) /\ Last(lay) \in ToSet(lay)
      /\ ToSet(Front(lay)) = ToSet(lay) \ {Last(lay)}
  BY PopOne DEF Pieces
<1>2. Pieces(p, Front(lay), ow, st)
  BY <1>1 DEF Pieces
<1>3. Last(lay) \notin ToSet(ow) /\ \A i \in 1..Len(st) : Last(lay) \notin ToSet(st[i])
  BY <1>1 DEF Pieces
<1>4. QED
  BY <1>1, <1>2, <1>3 DEF KeptIn

LEMMA RemoveOwn ==
    ASSUME NEW p, NEW lay, NEW ow, NEW st, Pieces(p, lay, ow, st),
           NEW i \in 1..Len(ow), ow[i][1] = Last(ow)[1]
    PROVE  /\ Pieces(p, lay, RemoveAt(ow, i), st)
           /\ ow[i] \in KeptIn(lay, ow, st)
           /\ KeptIn(lay, RemoveAt(ow, i), st) = KeptIn(lay, ow, st) \ {ow[i]}
<1> DEFINE o == ow[i]
           r == RemoveAt(ow, i)
<1>1. Closable(p, r) /\ o \in ToSet(ow) /\ ToSet(r) = ToSet(ow) \ {o}
  BY RemoveOne DEF Pieces
<1> HIDE DEF o, r
<1>2. Pieces(p, lay, r, st)
  BY <1>1 DEF Pieces
<1>3. o \notin ToSet(lay) /\ \A j \in 1..Len(st) : o \notin ToSet(st[j])
  BY <1>1 DEF Pieces
<1>4. o \in KeptIn(lay, ow, st) /\ KeptIn(lay, r, st) = KeptIn(lay, ow, st) \ {o}
  BY <1>1, <1>3 DEF KeptIn
<1>5. QED
  BY <1>2, <1>4 DEF o, r

LEMMA PopEmptyLayout ==
    ASSUME NEW p, NEW lay, NEW ow, NEW st, Pieces(p, lay, ow, st), st # <<>>, Last(st) = <<>>
    PROVE  Pieces(p, lay, ow, Front(st)) /\ KeptIn(lay, ow, Front(st)) = KeptIn(lay, ow, st)
<1> DEFINE r == Front(st)
           n == Len(st)
<1>1. st \in Seq(Seq(Obj)) /\ n \in Nat /\ n >= 1 /\ n - 1 \in Nat
  BY DEF Pieces
<1>2. r \in Seq(Seq(Obj)) /\ Len(r) = n - 1 /\ \A i \in 1..(n - 1) : r[i] = st[i]
  BY <1>1, FrontFacts
<1>3. st[n] = <<>>
  BY <1>1 DEF Last
<1> HIDE DEF r, n
<1>4. (\A i \in 1..(n - 1) : i \in 1..n) /\ \A i \in 1..n : i \in 1..(n - 1) \/ i = n
  BY <1>1
<1>5. \A i \in 1..(n - 1) : Closable(p, r[i]) /\ ToSet(r[i]) \cap (ToSet(lay) \cup ToSet(ow)) = {}
  BY <1>2, <1>4 DEF Pieces, n
<1>6. \A i, j \in 1..(n - 1) : i # j => ToSet(r[i]) \cap ToSet(r[j]) = {}
  BY <1>2, <1>4 DEF Pieces, n
<1>7. Pieces(p, lay, ow, r)
  BY <1>2, <1>5, <1>6 DEF Pieces
<1>8. UNION {ToSet(r[i]) : i \in 1..(n - 1)} = UNION {ToSet(st[i]) : i \in 1..n}
  BY <1>2, <1>3, <1>4, EmptyClosable
<1>9. QED
  BY <1>2, <1>7, <1>8 DEF KeptIn, r, n

\* The last object of the last layout is taken off.
Popped(st) == Append(Front(st), Front(Last(st)))

LEMMA PopFromStack ==
    ASSUME NEW p, NEW lay, NEW ow, NEW st, Pieces(p, lay, ow, st), st # <<>>, Last(st) # <<>>
    PROVE  /\ Pieces(p, lay, ow, Popped(st))
           /\ Last(Last(st)) \in KeptIn(lay, ow, st)
           /\ KeptIn(lay, ow, Popped(st)) = KeptIn(lay, ow, st) \ {Last(Last(st))}
<1> DEFINE r == Popped(st)
           n == Len(st)
           o == Last(Last(st))
<1>1. st \in Seq(Seq(Obj)) /\ n \in Nat /\ n >= 1 /\ n - 1 \in Nat /\ n \in 1..n
  BY DEF Pieces
<1>2. Front(st) \in Seq(Seq(Obj)) /\ Len(Front(st)) = n - 1 /\ \A i \in 1..(n - 1) : Front(st)[i] = st[i]
  BY <1>1, FrontFacts
<1>3. Last(st) = st[n]
  BY DEF Last
<1>4. Closable(p, st[n]) /\ st[n] # <<>> /\ o = Last(st[n])
  BY <1>1, <1>3 DEF Pieces
<1>5. Closable(p, Front(st[n])) /\ o \in ToSet(st[n]) /\ ToSet(Front(st[n])) = ToSet(st[n]) \ {o}
  BY <1>4, PopOne
<1>6. Front(st[n]) \in Seq(Obj)
  BY <1>5 DEF Closable
<1>7. r \in Seq(Seq(Obj)) /\ Len(r) = n /\ r[n] = Front(st[n]) /\ \A i \in 1..(n - 1) : r[i] = st[i]
  <2>1. Len(r) = (n - 1) + 1 /\ r[(n - 1) + 1] = Front(st[n]) /\ r \in Seq(Seq(Obj))
        /\ \A i \in 1..(n - 1) : r[i] = Front(st)[i]
    BY <1>1, <1>2, <1>3, <1>6 DEF Popped
  <2>2. (n - 1) + 1 = n
    BY <1>1
  <2>3. QED
    BY <1>2, <2>1, <2>2
<1> HIDE DEF n, o, r
<1>8. \A i \in 1..n : i \in 1..(n - 1) \/ i = n
  BY <1>1
<1>9. \A i \in 1..n : Closable(p, st[i]) /\ ToSet(st[i]) \cap (ToSet(lay) \cup ToSet(ow)) = {}
  BY DEF Pieces, n
<1>10. \A i, j \in 1..n : i # j => ToSet(st[i]) \cap ToSet(st[j]) = {}
  BY DEF Pieces, n
<1>11. \A i \in 1..n : ToSet(r[i]) = ToSet(st[i]) \ {o}
  <2> SUFFICES ASSUME NEW i \in 1..n
               PROVE  ToSet(r[i]) = ToSet(st[i]) \ {o}
    OBVIOUS
  <2>1. CASE i = n
    BY <1>5, <1>7, <2>1
  <2>2. CASE i \in 1..(n - 1)
    <3>1. i # n
      BY <1>1, <2>2
    <3>2. o \notin ToSet(st[i])
      BY <1>1, <1>5, <1>10, <3>1
    <3>3. QED
      BY <1>7, <2>2, <3>2
  <2>3. QED
    BY <1>8, <2>1, <2>2
<1>12. \A i \in 1..n : Closable(p, r[i])
  BY <1>5, <1>7, <1>8, <1>9
<1>13. Pieces(p, lay, ow, r)
  <2>1. \A i \in 1..n : ToSet(r[i]) \cap (ToSet(lay) \cup ToSet(ow)) = {}
    BY <1>9, <1>11
  <2>2. \A i, j \in 1..n : i # j => ToSet(r[i]) \cap ToSet(r[j]) = {}
    BY <1>10, <1>11
  <2>3. QED
    BY <1>7, <1>12, <2>1, <2>2 DEF Pieces
<1>14. o \in KeptIn(lay, ow, st)
  BY <1>1, <1>5 DEF KeptIn, n
<1>15. o \notin ToSet(lay) /\ o \notin ToSet(ow)
  BY <1>1, <1>5, <1>9
<1>16. UNION {ToSet(r[i]) : i \in 1..n} = (UNION {ToSet(st[i]) : i \in 1..n}) \ {o}
  <2>1. ASSUME NEW x, NEW i \in 1..n  PROVE x \in ToSet(r[i]) <=> x \in ToSet(st[i]) /\ x # o
    BY <1>11
  <2>2. QED
    BY <2>1
<1>17. KeptIn(lay, ow, r) = KeptIn(lay, ow, st) \ {o}
  BY <1>7, <1>15, <1>16 DEF KeptIn, n
<1>18. QED
  BY <1>13, <1>14, <1>17 DEF o, r

-----------------------------------------------------------------------------
(***************************************************************************)
(* The inductive invariant: alive is what some piece keeps or nobody does  *)
(* (AliveIsKept), no step makes an object a second time (Fresh), what the  *)
(* objects still to make work through is made or is to be made (Progress), *)
(* and they are on no lower level than those that are made (Ahead).        *)
(***************************************************************************)
SetupTypes ==
    /\ plan \in Plans
    /\ at \in Nat \X Nat /\ at[1] \in 1..Len(plan) /\ at[2] \in 0..Len(plan[at[1]])
    /\ pc \in {"test", "make", "unwind", "teardown", "over"}
    /\ todo \subseteq Task
    /\ alive \subseteq Obj

AliveIsKept ==
    /\ alive = KeptIn(layout, own, stack) \cup orphans
    /\ orphans \cap KeptIn(layout, own, stack) = {}

\* The call b is not after the call a.
NotAfter(a, b) == b[1] < a[1] \/ (b[1] = a[1] /\ b[2] <= a[2])

Fresh ==
    /\ \A o \in alive : NotAfter(at, o[2])
    /\ \A o \in todo : o \notin alive

\* The calls that are under way: one of the factory, or those of the fixtures.
UnderWay ==
    /\ \A o \in todo : o[2][1] = at[1] /\ o[2][2] \in 1..at[2]
    /\ \A x, y \in todo : Call(x).by = Call(y).by
    /\ \A o \in todo : IF Call(o).by = "factory" THEN o[2] = at ELSE own = <<>>

Progress ==
    \A o \in todo : \A k \in Makes(Call(o)) \ Steps : <<k, o[2]>> \in todo \cup ToSet(layout)

Ahead ==
    \A x \in ToSet(layout) : \A o \in todo : o[1] \notin Steps => Level[x[1]] <= Level[o[1]]

Phases ==
    /\ todo # {} => pc = "make"
    /\ pc \in {"make", "unwind"} => at[2] > 0
    /\ pc \in {"test", "teardown", "over"} => layout = <<>>
    /\ (pc = "test" /\ at[2] = 0) \/ pc = "over" => own = <<>> /\ stack = <<>>

LinesAlive == \A l \in lines : l.obj \in alive

SetupInv ==
    /\ SetupTypes
    /\ Pieces(plan, layout, own, stack)
    /\ AliveIsKept
    /\ Fresh
    /\ UnderWay
    /\ Progress
    /\ Ahead
    /\ Phases
    /\ LinesAlive

LEMMA InitSetup == Init => SetupInv
<1> SUFFICES ASSUME Init
             PROVE  SetupInv
  OBVIOUS
<1>1. plan \in Seq(Seq(CallRecord)) /\ plan # <<>>
  BY PlansAssumption DEF Init
<1>2. 1 \in 1..Len(plan) /\ plan[1] \in Seq(CallRecord)
  BY <1>1
<1>3. SetupTypes
  <2>1. at = <<1, 0>> /\ at \in Nat \X Nat /\ at[1] = 1 /\ at[2] = 0
    BY DEF Init
  <2>2. Len(plan[1]) \in Nat
    BY <1>2
  <2>3. 0 \in 0..Len(plan[1])
    BY <2>2
  <2>4. QED
    BY <1>2, <2>1, <2>3 DEF Init, SetupTypes
<1>4. layout = <<>> /\ own = <<>> /\ stack = <<>>
  BY DEF Init
<1>5. Pieces(plan, layout, own, stack) /\ KeptIn(layout, own, stack) = {}
  BY <1>4, EmptyClosable DEF Pieces, KeptIn
<1>6. AliveIsKept /\ Fresh /\ UnderWay /\ Progress /\ Ahead /\ Phases /\ LinesAlive
  BY <1>4, <1>5 DEF Init, AliveIsKept, Fresh, UnderWay, Progress, Ahead, Phases, LinesAlive
<1>7. QED
  BY <1>3, <1>5, <1>6 DEF SetupInv

\* The call of an object under way.
LEMMA CallUnderWay ==
    ASSUME SetupInv, NEW o \in todo
    PROVE  /\ o \in Task /\ o[2][1] = at[1] /\ o[2][1] \in DOMAIN plan
           /\ o[2][2] \in 1..at[2] /\ o[2][2] \in DOMAIN plan[o[2][1]]
           /\ Call(o) \in CallRecord /\ NotAfter(at, o[2])
<1>1. plan \in Seq(Seq(CallRecord)) /\ at[1] \in DOMAIN plan /\ at[1] \in Nat /\ at[2] \in Nat
  BY PlansAssumption DEF SetupInv, SetupTypes
<1>2. plan[at[1]] \in Seq(CallRecord)
  BY <1>1
<1>3. at[2] \in 0..Len(plan[at[1]])
  BY DEF SetupInv, SetupTypes
<1>4. o \in Task /\ o[2][1] = at[1] /\ o[2][2] \in 1..at[2]
  BY DEF SetupInv, SetupTypes, UnderWay
<1>5. o[2][2] \in DOMAIN plan[at[1]]
  BY <1>1, <1>2, <1>3, <1>4
<1>6. Call(o) \in CallRecord
  BY <1>2, <1>4, <1>5 DEF Call
<1>7. NotAfter(at, o[2])
  BY <1>1, <1>4 DEF NotAfter
<1>8. QED
  BY <1>1, <1>4, <1>5, <1>6, <1>7

\* The next object: it is new, and what it works through is there.
LEMMA NextObject ==
    ASSUME SetupInv, NEW o, o[1] \notin Steps, Making(o)
    PROVE  /\ o \in Obj /\ o \notin alive /\ NotAfter(at, o[2])
           /\ Pieces(plan, Append(layout, o), own, stack)
           /\ KeptIn(Append(layout, o), own, stack) = KeptIn(layout, own, stack) \cup {o}
           /\ ToSet(Append(layout, o)) = ToSet(layout) \cup {o}
           /\ \A y \in todo : y[1] \notin Steps => Level[o[1]] <= Level[y[1]]
<1>1. o \in todo /\ o \in Task /\ NotAfter(at, o[2]) /\ \A y \in todo : ~Earlier(y, o)
  BY CallUnderWay DEF Making
<1>2. o \in Obj /\ o[1] \in Kind \ Steps
  BY <1>1 DEF Obj, Task
<1>3. o \notin alive
  BY <1>1 DEF SetupInv, Fresh
<1>4. o \notin KeptIn(layout, own, stack)
  BY <1>3 DEF SetupInv, AliveIsKept
<1>5. ASSUME NEW y \in todo, y[1] \notin Steps  PROVE Level[o[1]] <= Level[y[1]]
  <2>1. y[1] \in Kind \ Steps /\ Call(y).by = Call(o).by
    BY <1>1, <1>5 DEF SetupInv, SetupTypes, UnderWay, Task
  <2>2. ~(Place(y) < Place(o))
    BY <1>1 DEF Earlier
  <2>3. QED
    BY <1>2, <2>1, <2>2, OrderRespectsLevels DEF Place
<1>6. ASSUME NEW k \in Uses(o[1]), k \in Makes(CallOf(plan, o))
      PROVE  <<k, o[2]>> \in ToSet(layout)
  <2> DEFINE u == <<k, o[2]>>
  <2>1. k \in Kind \ Steps /\ Level[k] < Level[o[1]] /\ Level[k] \in Nat /\ Level[o[1]] \in Nat
    BY <1>2, UsedIsLower, LevelNat
  <2>2. u \in todo \cup ToSet(layout)
    BY <1>1, <1>6, <2>1 DEF SetupInv, Progress, CallOf, Call
  <2>3. u \notin todo
    BY <1>5, <2>1
  <2>4. QED
    BY <2>2, <2>3
<1>7. Pieces(plan, layout, own, stack)
  BY DEF SetupInv
<1>8. \A x \in ToSet(layout) : Level[x[1]] <= Level[o[1]]
  BY <1>1 DEF SetupInv, Ahead
<1>9. QED
  BY <1>1, <1>2, <1>3, <1>4, <1>5, <1>6, <1>7, <1>8, PushObject

-----------------------------------------------------------------------------
(* One step keeps SetupInv. *)

\* The calls C begin, n is the last.
LEMMA BeginSetup ==
    ASSUME SetupInv, pc = "test", pc' = "make", layout' = <<>>,
           UNCHANGED <<plan, own, stack, alive, orphans, lines>>,
           NEW n \in 1..Len(plan[at[1]]), NEW C \in SUBSET ((at[2] + 1)..n),
           at' = <<at[1], n>>, todo' = UNION {Objects(i) : i \in C}, at[2] < n,
           \/ C = {n} /\ plan[at[1]][n].by = "factory"
           \/ own = <<>> /\ \A i \in C : plan[at[1]][i].by = "fixture"
    PROVE  SetupInv'
<1>1. layout = <<>> /\ at \in Nat \X Nat /\ at[1] \in Nat /\ at[2] \in Nat /\ at[1] \in 1..Len(plan)
      /\ at'[1] = at[1] /\ at'[2] = n /\ n \in Nat
  BY DEF SetupInv, SetupTypes, Phases
<1>2. ASSUME NEW o \in todo'
      PROVE  /\ o \in Task /\ o[1] \in Makes(plan[at[1]][o[2][2]])
             /\ o[2] = <<at[1], o[2][2]>> /\ o[2][1] = at[1] /\ o[2][2] \in C
  <2>1. PICK i \in C : o \in Objects(i)
    OBVIOUS
  <2>2. PICK k \in Makes(plan[at[1]][i]) : o = <<k, <<at[1], i>>>>
    BY <2>1 DEF Objects
  <2>3. k \in Kind /\ i \in Nat
    BY <1>1 DEF Makes, Fixtures, Kind
  <2>4. QED
    BY <1>1, <2>2, <2>3 DEF Task
<1>3. \A i \in C : i > at[2] /\ i <= n /\ i \in 1..n
  BY <1>1
<1>4. SetupTypes'
  <2>1. plan[at[1]] \in Seq(CallRecord)
    BY <1>1, PlansAssumption DEF SetupInv, SetupTypes
  <2>2. n \in 0..Len(plan[at[1]]) /\ at' \in Nat \X Nat
    BY <1>1, <2>1
  <2>3. QED
    BY <1>1, <1>2, <2>2 DEF SetupInv, SetupTypes
<1>5. Pieces(plan, layout, own, stack)' /\ AliveIsKept' /\ LinesAlive'
  BY <1>1 DEF SetupInv, AliveIsKept, LinesAlive
<1>6. Fresh'
  <2>1. ASSUME NEW o \in alive
        PROVE  o[2][1] \in Nat /\ o[2][2] \in Nat /\ NotAfter(at, o[2])
    BY DEF SetupInv, SetupTypes, Fresh, Obj
  <2>2. ASSUME NEW o \in alive  PROVE NotAfter(at', o[2])
    BY <1>1, <2>1 DEF NotAfter
  <2>3. ASSUME NEW o \in todo', o \in alive  PROVE FALSE
    BY <1>1, <1>2, <1>3, <2>1, <2>3 DEF NotAfter
  <2>4. QED
    BY <2>2, <2>3 DEF Fresh
<1>7. \A o \in todo' : Call(o)' = plan[at[1]][o[2][2]]
  BY <1>2 DEF Call
<1>8. UnderWay'
  <2>1. \A o \in todo' : o[2][1] = at'[1] /\ o[2][2] \in 1..at'[2]
    BY <1>1, <1>2, <1>3
  <2>2. \A x, y \in todo' : Call(x)'.by = Call(y)'.by
    BY <1>2, <1>7
  <2>3. \A o \in todo' : IF Call(o)'.by = "factory" THEN o[2] = at' ELSE own' = <<>>
    BY <1>2, <1>7
  <2>4. QED
    BY <2>1, <2>2, <2>3 DEF UnderWay
<1>9. Progress'
  <2> SUFFICES ASSUME NEW o \in todo', NEW k \in Makes(Call(o)') \ Steps
               PROVE  <<k, o[2]>> \in todo'
    BY DEF Progress
  <2>1. <<k, o[2]>> \in Objects(o[2][2])
    BY <1>2, <1>7 DEF Objects
  <2>2. QED
    BY <1>2, <2>1
<1>10. Ahead' /\ Phases'
  BY <1>1, EmptyClosable DEF Ahead, Phases
<1>11. QED
  BY <1>4, <1>5, <1>6, <1>8, <1>9, <1>10 DEF SetupInv

LEMMA BeginCallSetup ==
    ASSUME SetupInv, BeginFixtures \/ BeginCall
    PROVE  SetupInv'
<1>1. /\ pc = "test" /\ pc' = "make" /\ layout' = <<>>
      /\ UNCHANGED <<plan, own, stack, alive, orphans, lines>>
  BY DEF BeginFixtures, BeginCall, ports
<1>2. at[1] \in Nat /\ at[2] \in Nat /\ plan[at[1]] \in Seq(CallRecord)
  BY PlansAssumption DEF SetupInv, SetupTypes
<1>3. CASE BeginFixtures
  <2>1. PICK n \in DOMAIN plan[at[1]] :
          /\ \A i \in DOMAIN plan[at[1]] : plan[at[1]][i].by = "fixture" <=> i <= n
          /\ at' = <<at[1], n>> /\ todo' = UNION {Objects(i) : i \in 1..n}
    BY <1>3 DEF BeginFixtures
  <2>2. at[2] = 0 /\ own = <<>>
    BY <1>1, <1>3 DEF BeginFixtures, SetupInv, Phases
  <2>3. n \in 1..Len(plan[at[1]]) /\ at[2] < n /\ 1..n \in SUBSET ((at[2] + 1)..n)
    BY <1>2, <2>2
  <2>4. \A i \in 1..n : plan[at[1]][i].by = "fixture"
    BY <1>2, <2>1, <2>3
  <2>5. QED
    BY <1>1, <2>1, <2>2, <2>3, <2>4, BeginSetup
<1>4. CASE BeginCall
  <2> DEFINE n == at[2] + 1
  <2>1. n \in 1..Len(plan[at[1]]) /\ at[2] < n /\ {n} \in SUBSET ((at[2] + 1)..n)
    <3>1. at[2] < Len(plan[at[1]])
      BY <1>4 DEF BeginCall
    <3>2. Len(plan[at[1]]) \in Nat /\ at[2] \in Nat
      BY <1>2
    <3>3. QED
      BY <3>1, <3>2
  <2>2. at' = <<at[1], n>> /\ todo' = UNION {Objects(i) : i \in {n}} /\ plan[at[1]][n].by = "factory"
    BY <1>4 DEF BeginCall
  <2> HIDE DEF n
  <2>3. QED
    BY <1>1, <2>1, <2>2, BeginSetup
<1>5. QED
  BY <1>3, <1>4

LEMMA MadeSetup ==
    ASSUME SetupInv, NEW o, o[1] \notin Steps, Making(o), Made(o),
           UNCHANGED <<pc, orphans>>, LinesAlive'
    PROVE  SetupInv'
<1>1. /\ pc = "make" /\ o \in todo /\ todo' = todo \ {o} /\ layout' = Append(layout, o)
      /\ alive' = alive \cup {o} /\ UNCHANGED <<plan, at, own, stack, pc, orphans>>
  BY DEF Making, Made
<1>2. /\ o \in Obj /\ o \notin alive /\ NotAfter(at, o[2])
      /\ Pieces(plan, layout', own, stack)
      /\ KeptIn(layout', own, stack) = KeptIn(layout, own, stack) \cup {o}
      /\ ToSet(layout') = ToSet(layout) \cup {o}
      /\ \A y \in todo : y[1] \notin Steps => Level[o[1]] <= Level[y[1]]
  BY <1>1, NextObject
<1>3. SetupTypes' /\ Pieces(plan, layout, own, stack)' /\ Fresh'
  BY <1>1, <1>2 DEF SetupInv, SetupTypes, Fresh
<1>4. AliveIsKept'
  BY <1>1, <1>2 DEF SetupInv, AliveIsKept
<1>5. \A x : Call(x)' = Call(x)
  BY <1>1 DEF Call
<1>6. UnderWay' /\ Progress'
  BY <1>1, <1>2, <1>5 DEF SetupInv, UnderWay, Progress
<1>7. Ahead' /\ Phases'
  BY <1>1, <1>2 DEF SetupInv, Ahead, Phases
<1>8. QED
  BY <1>3, <1>4, <1>6, <1>7 DEF SetupInv

LEMMA PassedSetup ==
    ASSUME SetupInv, NEW o, o[1] \in Steps, Making(o), Passed(o), UNCHANGED <<pc, orphans, lines>>
    PROVE  SetupInv'
<1>1. /\ pc = "make" /\ todo' = todo \ {o}
      /\ UNCHANGED <<plan, at, own, stack, layout, alive, pc, orphans, lines>>
  BY DEF Making, Passed
<1>2. SetupTypes' /\ Pieces(plan, layout, own, stack)' /\ AliveIsKept' /\ Phases' /\ LinesAlive'
  BY <1>1 DEF SetupInv, SetupTypes, AliveIsKept, Phases, LinesAlive
<1>3. \A x : Call(x)' = Call(x)
  BY <1>1 DEF Call
<1>4. Fresh' /\ UnderWay' /\ Progress' /\ Ahead'
  BY <1>1, <1>3 DEF SetupInv, Fresh, UnderWay, Progress, Ahead
<1>5. QED
  BY <1>2, <1>4 DEF SetupInv

\* An exception; D is what the constructor has left to nobody.
LEMMA FailsSetup ==
    ASSUME SetupInv, NEW o, Making(o), NEW cause, Fails(o, cause),
           NEW D \in {{}, {o}}, D # {} => o[1] \notin Steps,
           alive' = alive \cup D, orphans' = orphans \cup D, LinesAlive'
    PROVE  SetupInv'
<1>1. /\ pc = "make" /\ o \in todo /\ todo' = {} /\ UNCHANGED <<plan, at, stack>>
      /\ IF Call(o).by = "factory" THEN pc' = "unwind" /\ UNCHANGED <<layout, own>>
         ELSE pc' = "teardown" /\ own' = layout /\ layout' = <<>>
  BY DEF Making, Fails
<1>2. at[2] > 0 /\ (Call(o).by # "factory" => own = <<>>)
  BY <1>1 DEF SetupInv, Phases, UnderWay
<1>3. /\ Pieces(plan, layout, own, stack)'
      /\ KeptIn(layout, own, stack)' = KeptIn(layout, own, stack)
  <2>1. CASE Call(o).by = "factory"
    BY <1>1, <2>1 DEF SetupInv
  <2>2. CASE Call(o).by # "factory"
    BY <1>1, <1>2, <2>2, MoveToOwn DEF SetupInv
  <2>3. QED
    BY <2>1, <2>2
<1>4. D = {} \/ (D = {o} /\ o \in Obj /\ o \notin alive /\ NotAfter(at, o[2]))
  BY NextObject
<1>5. SetupTypes'
  BY <1>1, <1>4 DEF SetupInv, SetupTypes
<1>6. AliveIsKept'
  BY <1>3, <1>4 DEF SetupInv, AliveIsKept
<1>7. Fresh' /\ UnderWay' /\ Progress' /\ Ahead' /\ Phases'
  BY <1>1, <1>2, <1>4 DEF SetupInv, Fresh, UnderWay, Progress, Ahead, Phases
<1>8. QED
  BY <1>3, <1>5, <1>6, <1>7 DEF SetupInv

LEMMA ExitsSetup ==
    ASSUME SetupInv, NEW o, Making(o), Exits(o)
    PROVE  SetupInv'
<1> DEFINE t(n) == ToSet(SubSeq(layout, n + 1, Len(layout)))
<1>1. /\ pc = "make" /\ o \in todo /\ pc' = "teardown" /\ layout' = <<>> /\ todo' = {}
      /\ UNCHANGED <<plan, at, stack, alive, lines>>
  BY DEF Making, Exits, ports
<1>2. PICK n \in 0..Len(layout) :
        /\ \A i \in DOMAIN layout : i > n <=> Call(o).by = "factory" \/ Place(layout[i]) = Place(o)
        /\ orphans' = orphans \cup t(n)
        /\ own' = IF Call(o).by = "factory" THEN own ELSE SubSeq(layout, 1, n)
  BY DEF Exits
<1>3. Call(o).by # "factory" => own = <<>>
  BY <1>1 DEF SetupInv, UnderWay
<1>4. /\ Pieces(plan, layout, own, stack)'
      /\ KeptIn(layout, own, stack)' = KeptIn(layout, own, stack) \ t(n)
      /\ t(n) \subseteq KeptIn(layout, own, stack)
  <2>1. CASE Call(o).by = "factory"
    <3>1. /\ Pieces(plan, <<>>, own, stack)
          /\ KeptIn(<<>>, own, stack) = KeptIn(layout, own, stack) \ ToSet(layout)
      BY DropLayout DEF SetupInv
    <3>2. t(n) = ToSet(layout)
      <4>1. layout \in Seq(Obj) /\ Len(layout) \in Nat /\ DOMAIN layout = 1..Len(layout) /\ n \in Nat
        BY DEF SetupInv, Pieces, Closable
      <4>2. t(n) = {layout[i] : i \in (n + 1)..Len(layout)}
        BY PrefixClosable DEF SetupInv, Pieces
      <4>3. \A i \in 1..Len(layout) : i \in (n + 1)..Len(layout)
        BY <1>2, <2>1, <4>1
      <4>4. \A i \in (n + 1)..Len(layout) : i \in 1..Len(layout)
        BY <4>1
      <4>5. QED
        BY <4>1, <4>2, <4>3, <4>4 DEF ToSet
    <3> HIDE DEF t
    <3>3. ToSet(layout) \subseteq KeptIn(layout, own, stack)
      BY DEF KeptIn
    <3>4. own' = own
      BY <1>2, <2>1
    <3>5. QED
      BY <1>1, <3>1, <3>2, <3>3, <3>4
  <2>2. CASE Call(o).by # "factory"
    <3>1. Pieces(plan, layout, <<>>, stack) /\ own = <<>>
      BY <1>3, <2>2 DEF SetupInv
    <3>2. /\ Pieces(plan, <<>>, SubSeq(layout, 1, n), stack)
          /\ KeptIn(<<>>, SubSeq(layout, 1, n), stack) = KeptIn(layout, <<>>, stack) \ t(n)
          /\ t(n) \subseteq KeptIn(layout, <<>>, stack)
      BY <3>1, CutLayout
    <3>3. own' = SubSeq(layout, 1, n)
      BY <1>2, <2>2
    <3> HIDE DEF t
    <3>4. QED
      BY <1>1, <3>1, <3>2, <3>3
  <2>3. QED
    BY <2>1, <2>2
<1> HIDE DEF t
<1>5. AliveIsKept'
  BY <1>1, <1>2, <1>4 DEF SetupInv, AliveIsKept
<1>6. SetupTypes' /\ Fresh' /\ UnderWay' /\ Progress' /\ Ahead' /\ Phases' /\ LinesAlive'
  BY <1>1 DEF SetupInv, SetupTypes, Fresh, UnderWay, Progress, Ahead, Phases, LinesAlive
<1>7. QED
  BY <1>4, <1>5, <1>6 DEF SetupInv

LEMMA MakeDutSetup ==
    ASSUME SetupInv, NEW o, MakeDut(o)
    PROVE  SetupInv'
<1> DEFINE whole == Append(layout, o)
<1>1. /\ pc = "make" /\ Making(o) /\ o \in todo /\ o[1] \notin Steps /\ todo' = todo \ {o}
      /\ alive' = alive \cup {o} /\ UNCHANGED <<plan, at, orphans, lines, logs>>
  BY DEF Making, MakeDut, ports, Steps
<1>2. /\ o \in Obj /\ o \notin alive /\ NotAfter(at, o[2])
      /\ Pieces(plan, whole, own, stack)
      /\ KeptIn(whole, own, stack) = KeptIn(layout, own, stack) \cup {o}
  BY <1>1, NextObject
<1>3. at[2] > 0 /\ (Call(o).by # "factory" => own = <<>>)
  BY <1>1 DEF SetupInv, Phases, UnderWay
<1>4. CASE todo' # {}
  <2>1. layout' = whole /\ UNCHANGED <<pc, own, stack>>
    BY <1>4 DEF MakeDut
  <2>2. LinesAlive'
    BY <1>1 DEF SetupInv, LinesAlive
  <2>3. Made(o)
    BY <1>1, <2>1 DEF Made
  <2>4. QED
    BY <1>1, <2>1, <2>2, <2>3, MadeSetup
<1>5. CASE todo' = {}
  <2>1. /\ layout' = <<>> /\ pc' = "test"
        /\ IF Call(o).by = "factory" THEN stack' = Append(stack, whole) /\ UNCHANGED own
           ELSE own' = whole /\ UNCHANGED stack
    BY <1>5 DEF MakeDut
  <2> HIDE DEF whole
  <2>2. /\ Pieces(plan, layout, own, stack)'
        /\ KeptIn(layout, own, stack)' = KeptIn(layout, own, stack) \cup {o}
    <3>1. CASE Call(o).by = "factory"
      <4>1. /\ Pieces(plan, <<>>, own, Append(stack, whole))
            /\ KeptIn(<<>>, own, Append(stack, whole)) = KeptIn(whole, own, stack)
        BY <1>2, MoveToStack
      <4>2. stack' = Append(stack, whole) /\ own' = own
        BY <2>1, <3>1
      <4>3. QED
        BY <1>1, <1>2, <2>1, <4>1, <4>2
    <3>2. CASE Call(o).by # "factory"
      <4>1. /\ Pieces(plan, <<>>, whole, stack)
            /\ KeptIn(<<>>, whole, stack) = KeptIn(whole, own, stack)
        BY <1>2, <1>3, <3>2, MoveToOwn
      <4>2. own' = whole /\ stack' = stack
        BY <2>1, <3>2
      <4>3. QED
        BY <1>1, <1>2, <2>1, <4>1, <4>2
    <3>3. QED
      BY <3>1, <3>2
  <2>3. AliveIsKept'
    BY <1>1, <1>2, <2>2 DEF SetupInv, AliveIsKept
  <2>4. SetupTypes' /\ Fresh' /\ LinesAlive'
    BY <1>1, <1>2, <1>5, <2>1 DEF SetupInv, SetupTypes, Fresh, LinesAlive
  <2>5. UnderWay' /\ Progress' /\ Ahead' /\ Phases'
    BY <1>1, <1>3, <1>5, <2>1 DEF UnderWay, Progress, Ahead, Phases
  <2>6. QED
    BY <2>2, <2>3, <2>4, <2>5 DEF SetupInv
<1>6. QED
  BY <1>4, <1>5

\* An object is closed.
LEMMA CloseSetup ==
    ASSUME SetupInv, pc # "make", NEW o, Close(o), o \in KeptIn(layout, own, stack),
           UNCHANGED <<plan, at, todo, orphans>>,
           pc' = pc, Pieces(plan, layout, own, stack)',
           KeptIn(layout, own, stack)' = KeptIn(layout, own, stack) \ {o},
           Phases'
    PROVE  SetupInv'
<1>1. alive' = alive \ {o} /\ lines' = {l \in lines : l.obj # o} /\ todo = {} /\ todo' = {}
  BY DEF Close, SetupInv, Phases
<1>2. AliveIsKept'
  BY <1>1 DEF SetupInv, AliveIsKept
<1>3. SetupTypes' /\ Fresh' /\ UnderWay' /\ Progress' /\ Ahead' /\ LinesAlive'
  BY <1>1 DEF SetupInv, SetupTypes, Fresh, UnderWay, Progress, Ahead, LinesAlive
<1>4. QED
  BY <1>2, <1>3 DEF SetupInv

LEMMA UnwindSetup ==
    ASSUME SetupInv, Unwind
    PROVE  SetupInv'
<1>1. pc = "unwind" /\ UNCHANGED <<plan, at, todo, own, stack, orphans>> /\ at[2] > 0 /\ todo = {}
  BY DEF Unwind, SetupInv, Phases
<1>2. CASE layout = <<>>
  <2>1. pc' = "test" /\ UNCHANGED <<layout, alive, lines>>
    BY <1>2 DEF Unwind, ports
  <2>2. SetupTypes' /\ Pieces(plan, layout, own, stack)' /\ AliveIsKept' /\ Phases' /\ LinesAlive'
    BY <1>1, <1>2, <2>1 DEF SetupInv, SetupTypes, AliveIsKept, Phases, LinesAlive
  <2>3. Fresh' /\ UnderWay' /\ Progress' /\ Ahead'
    BY <1>1, <2>1 DEF SetupInv, Fresh, UnderWay, Progress, Ahead
  <2>4. QED
    BY <2>2, <2>3 DEF SetupInv
<1>3. CASE layout # <<>>
  <2>1. Close(Last(layout)) /\ layout' = Front(layout) /\ pc' = pc
    BY <1>3 DEF Unwind
  <2>2. /\ Pieces(plan, layout, own, stack)' /\ Last(layout) \in KeptIn(layout, own, stack)
        /\ KeptIn(layout, own, stack)' = KeptIn(layout, own, stack) \ {Last(layout)}
    BY <1>1, <1>3, <2>1, PopLayout DEF SetupInv
  <2>3. Phases'
    BY <1>1, <2>1 DEF Phases
  <2>4. QED
    BY <1>1, <2>1, <2>2, <2>3, CloseSetup
<1>4. QED
  BY <1>2, <1>3

LEMMA TeardownSetup ==
    ASSUME SetupInv, Teardown
    PROVE  SetupInv'
<1>1. /\ pc = "teardown" /\ CloseNext /\ UNCHANGED <<plan, at, pc, todo, layout, orphans>>
      /\ layout = <<>> /\ todo = {}
  BY DEF Teardown, SetupInv, Phases
<1>2. Phases'
  BY <1>1 DEF Phases
<1>3. ASSUME NEW i \in DOMAIN own, own[i][1] = Last(own)[1], Close(own[i]),
             own' = RemoveAt(own, i), UNCHANGED stack
      PROVE  SetupInv'
  <2>1. own \in Seq(Obj) /\ Pieces(plan, layout, own, stack)
    BY DEF SetupInv, Pieces, Closable
  <2>2. /\ Pieces(plan, layout, RemoveAt(own, i), stack) /\ own[i] \in KeptIn(layout, own, stack)
        /\ KeptIn(layout, RemoveAt(own, i), stack) = KeptIn(layout, own, stack) \ {own[i]}
    <3>1. i \in 1..Len(own)
      BY <2>1
    <3>2. QED
      BY <1>3, <2>1, <3>1, RemoveOwn
  <2>3. QED
    BY <1>1, <1>2, <1>3, <2>2, CloseSetup
<1>4. CASE /\ own = <<>> /\ stack # <<>> /\ UNCHANGED own /\ Last(stack) = <<>>
           /\ stack' = Front(stack) /\ UNCHANGED <<alive, ports>>
  <2>1. /\ Pieces(plan, layout, own, stack)'
        /\ KeptIn(layout, own, stack)' = KeptIn(layout, own, stack)
    BY <1>1, <1>4, PopEmptyLayout DEF SetupInv
  <2>2. SetupTypes' /\ AliveIsKept' /\ LinesAlive'
    BY <1>1, <1>4, <2>1 DEF SetupInv, SetupTypes, AliveIsKept, LinesAlive, ports
  <2>3. Fresh' /\ UnderWay' /\ Progress' /\ Ahead'
    BY <1>1, <1>4 DEF SetupInv, Fresh, UnderWay, Progress, Ahead
  <2>4. QED
    BY <1>2, <2>1, <2>2, <2>3 DEF SetupInv
<1>5. CASE /\ own = <<>> /\ stack # <<>> /\ UNCHANGED own /\ Last(stack) # <<>>
           /\ stack' = Append(Front(stack), Front(Last(stack))) /\ Close(Last(Last(stack)))
  <2>1. Pieces(plan, layout, own, stack) /\ stack # <<>> /\ Last(stack) # <<>>
    BY <1>5 DEF SetupInv
  <2>2. /\ Pieces(plan, layout, own, Popped(stack))
        /\ Last(Last(stack)) \in KeptIn(layout, own, stack)
        /\ KeptIn(layout, own, Popped(stack)) = KeptIn(layout, own, stack) \ {Last(Last(stack))}
    BY <2>1, PopFromStack
  <2>3. stack' = Popped(stack)
    BY <1>5 DEF Popped
  <2>4. QED
    BY <1>1, <1>2, <1>5, <2>2, <2>3, CloseSetup
<1>6. QED
  BY <1>1, <1>3, <1>4, <1>5 DEF CloseNext

LEMMA NextTestSetup ==
    ASSUME SetupInv, NextTest
    PROVE  SetupInv'
<1>1. /\ pc = "teardown" /\ own = <<>> /\ stack = <<>> /\ layout = <<>>
      /\ todo = {} /\ UNCHANGED <<plan, todo, layout, own, stack, alive, orphans, lines>>
      /\ \/ at[1] = Len(plan) /\ pc' = "over" /\ at' = at
         \/ at[1] # Len(plan) /\ pc' = "test" /\ at' = <<at[1] + 1, 0>>
  BY DEF NextTest, objects, ports, SetupInv, Phases
<1>2. at \in Nat \X Nat /\ at[1] \in Nat /\ at[2] \in Nat /\ at[1] \in 1..Len(plan)
  BY DEF SetupInv, SetupTypes
<1>3. plan \in Seq(Seq(CallRecord))
  BY PlansAssumption DEF SetupInv, SetupTypes
<1>4. SetupTypes'
  <2>1. CASE at' = at
    BY <1>1, <2>1 DEF SetupInv, SetupTypes
  <2>2. CASE at[1] # Len(plan) /\ at' = <<at[1] + 1, 0>>
    <3>1. at[1] + 1 \in 1..Len(plan) /\ at' \in Nat \X Nat /\ at'[1] = at[1] + 1 /\ at'[2] = 0
      BY <1>2, <1>3, <2>2
    <3>2. Len(plan[at[1] + 1]) \in Nat
      BY <1>3, <3>1
    <3>3. 0 \in 0..Len(plan[at[1] + 1])
      BY <3>2
    <3>4. QED
      BY <1>1, <3>1, <3>3 DEF SetupInv, SetupTypes
  <2>3. QED
    BY <1>1, <2>1, <2>2
<1>5. Pieces(plan, layout, own, stack)' /\ AliveIsKept' /\ LinesAlive'
  BY <1>1 DEF SetupInv, AliveIsKept, LinesAlive
<1>6. Fresh'
  <2>1. ASSUME NEW o \in alive  PROVE NotAfter(at', o[2])
    <3>1. o[2][1] \in Nat /\ o[2][2] \in Nat /\ NotAfter(at, o[2])
      BY DEF Obj, SetupInv, SetupTypes, Fresh
    <3>2. at' = at \/ at'[1] = at[1] + 1
      BY <1>1
    <3>3. QED
      BY <1>2, <3>1, <3>2 DEF NotAfter
  <2>2. QED
    BY <1>1, <2>1 DEF Fresh
<1>7. UnderWay' /\ Progress' /\ Ahead' /\ Phases'
  BY <1>1 DEF UnderWay, Progress, Ahead, Phases
<1>8. QED
  BY <1>4, <1>5, <1>6, <1>7 DEF SetupInv

LEMMA SerialSetup ==
    ASSUME SetupInv, NEW o, MakeSerial(o) \/ NoSerial(o) \/ StartFails(o) \/ NuttxBinaryFails(o)
    PROVE  SetupInv'
<1>1. Making(o) /\ o[1] \notin Steps
  BY DEF MakeSerial, NoSerial, StartFails, NuttxBinaryFails, Steps
<1>2. \A p : Finalize(o, p) => \A l \in lines' : l \in lines \/ l.obj = o
  BY DEF Finalize
<1>3. CASE MakeSerial(o)
  <2>1. /\ Made(o) /\ UNCHANGED <<pc, orphans>>
        /\ \A l \in lines' : l \in lines \/ l.obj = o
    BY <1>2, <1>3 DEF MakeSerial, ports
  <2>2. LinesAlive'
    BY <2>1 DEF SetupInv, LinesAlive, Made
  <2>3. QED
    BY <1>1, <2>1, <2>2, MadeSetup
<1>4. CASE NoSerial(o) \/ StartFails(o)
  <2>1. Fails(o, "environment") /\ UNCHANGED <<alive, orphans, lines>>
    BY <1>4 DEF NoSerial, StartFails, ports
  <2>2. LinesAlive'
    BY <2>1 DEF SetupInv, LinesAlive
  <2>3. alive' = alive \cup {} /\ orphans' = orphans \cup {}
    BY <2>1
  <2>4. QED
    BY <1>1, <2>1, <2>2, <2>3, FailsSetup
<1>5. CASE NuttxBinaryFails(o)
  <2> DEFINE D == {o}
  <2>1. /\ Fails(o, "environment") /\ alive' = alive \cup D /\ orphans' = orphans \cup D
        /\ \A l \in lines' : l \in lines \/ l.obj = o
    BY <1>2, <1>5 DEF NuttxBinaryFails
  <2>2. LinesAlive'
    BY <2>1 DEF SetupInv, LinesAlive
  <2> HIDE DEF D
  <2>3. D \in {{}, {o}}
    BY DEF D
  <2>4. QED
    BY <1>1, <2>1, <2>2, <2>3, FailsSetup
<1>6. QED
  BY <1>3, <1>4, <1>5

LEMMA OtherCallSetup ==
    ASSUME SetupInv, NEW o,
           Make(o) \/ MakeFails(o) \/ WokwiExits(o) \/ ClassesOrApp(o) \/ Flash(o) \/ DutFails(o)
    PROVE  SetupInv'
<1>1. LinesAlive
  BY DEF SetupInv
<1>2. \A cause : Making(o) /\ Fails(o, cause) /\ UNCHANGED <<alive, orphans, lines>> => SetupInv'
  <2> SUFFICES ASSUME NEW cause, Making(o), Fails(o, cause), UNCHANGED <<alive, orphans, lines>>
               PROVE  SetupInv'
    OBVIOUS
  <2>1. LinesAlive' /\ alive' = alive \cup {} /\ orphans' = orphans \cup {}
    BY <1>1 DEF LinesAlive
  <2>2. QED
    BY <2>1, FailsSetup
<1>3. CASE Make(o)
  <2>1. Making(o) /\ o[1] \notin Steps /\ Made(o)
    BY <1>3 DEF Make, Simple, Steps
  <2>2. LinesAlive' /\ UNCHANGED <<pc, orphans>>
    BY <1>1, <1>3, <2>1 DEF Make, Made, LinesAlive, ports
  <2>3. QED
    BY <2>1, <2>2, MadeSetup
<1>4. CASE MakeFails(o)
  <2>1. /\ Making(o) /\ o[1] \notin Steps
        /\ \/ UNCHANGED <<alive, orphans>>
           \/ alive' = alive \cup {o} /\ orphans' = orphans \cup {o}
    BY <1>4 DEF MakeFails, Simple, Steps
  <2>2. Fails(o, "environment") /\ lines' = lines
    BY <1>4 DEF MakeFails, ports
  <2>3. CASE UNCHANGED <<alive, orphans>>
    BY <1>2, <2>1, <2>2, <2>3
  <2>4. CASE alive' = alive \cup {o} /\ orphans' = orphans \cup {o}
    <3> DEFINE D == {o}
    <3>1. D \in {{}, {o}} /\ alive' = alive \cup D /\ orphans' = orphans \cup D
      BY <2>4
    <3>2. LinesAlive'
      BY <1>1, <2>2, <2>4 DEF LinesAlive
    <3> HIDE DEF D
    <3>3. QED
      BY <2>1, <2>2, <3>1, <3>2, FailsSetup
  <2>5. QED
    BY <2>1, <2>3, <2>4
<1>5. CASE WokwiExits(o)
  BY <1>5, ExitsSetup DEF WokwiExits
<1>6. CASE ClassesOrApp(o)
  BY <1>2, <1>6, PassedSetup, ExitsSetup DEF ClassesOrApp, ports, Steps
<1>7. CASE Flash(o)
  BY <1>2, <1>7, PassedSetup, ExitsSetup DEF Flash, ports, Steps
<1>8. CASE DutFails(o)
  BY <1>2, <1>8 DEF DutFails, ports
<1>9. QED
  BY <1>3, <1>4, <1>5, <1>6, <1>7, <1>8

LEMMA QuietSetup ==
    ASSUME SetupInv, EndTest \/ Over \/ UNCHANGED vars
    PROVE  SetupInv'
<1>1. /\ UNCHANGED <<plan, at, todo, layout, own, stack, alive, orphans, lines>>
      /\ pc' = pc \/ (pc = "test" /\ pc' = "teardown")
  BY DEF EndTest, Over, vars, objects, ports
<1>2. \A x : Call(x)' = Call(x)
  BY <1>1 DEF Call
<1>3. SetupTypes' /\ AliveIsKept' /\ Fresh' /\ UnderWay' /\ Progress' /\ Ahead' /\ Phases' /\ LinesAlive'
  BY <1>1, <1>2
  DEF SetupInv, SetupTypes, AliveIsKept, Fresh, UnderWay, Progress, Ahead, Phases, LinesAlive
<1>4. QED
  BY <1>1, <1>3 DEF SetupInv

LEMMA SetupInvariant == Spec => []SetupInv
<1>1. SetupInv /\ [Next]_vars => SetupInv'
  BY BeginCallSetup, SerialSetup, OtherCallSetup, MakeDutSetup, UnwindSetup, TeardownSetup,
     NextTestSetup, QuietSetup
  DEF Next, MakeNext
<1>2. QED
  BY InitSetup, <1>1, PTL DEF Spec

LEMMA KeptIsKeptIn == ASSUME SetupInv PROVE Kept = KeptIn(layout, own, stack)
<1>1. stack \in Seq(Seq(Obj))
  BY DEF SetupInv, Pieces
<1>2. DOMAIN stack = 1..Len(stack)
  BY <1>1
<1>3. QED
  BY <1>2 DEF Kept, KeptIn

\* A serial port or an emulator is closed before its listener, a DUT before its serial
\* port, whatever the calls are and whichever of them fails.
THEOREM UsersAreClosedFirst == Spec => []UsersCloseFirst
<1>1. ASSUME SetupInv  PROVE UsersCloseFirst
  <2> SUFFICES ASSUME NEW o \in Kept, NEW k \in Uses(o[1]), k \in Makes(Call(o))
               PROVE  <<k, o[2]>> \in alive
    BY DEF UsersCloseFirst
  <2>1. Kept = KeptIn(layout, own, stack) /\ Kept \subseteq alive
    BY <1>1, KeptIsKeptIn DEF SetupInv, AliveIsKept
  <2>2. ASSUME NEW q, Closable(plan, q), o \in ToSet(q)
        PROVE  <<k, o[2]>> \in ToSet(q)
    <3>1. q \in Seq(Obj) /\ DOMAIN q = 1..Len(q)
      BY <2>2 DEF Closable
    <3>2. PICK i \in 1..Len(q) : q[i] = o
      BY <2>2, <3>1 DEF ToSet
    <3>3. QED
      BY <2>2, <3>2 DEF Closable, CallOf, Call
  <2>3. PICK q : Closable(plan, q) /\ o \in ToSet(q) /\ ToSet(q) \subseteq Kept
    BY <1>1, <2>1 DEF SetupInv, Pieces, KeptIn
  <2>4. QED
    BY <2>1, <2>2, <2>3
<1>2. QED
  BY <1>1, SetupInvariant, PTL

-----------------------------------------------------------------------------
(* The ports. *)

\* Every port that is given up belongs to the line that is closed, or to none.
LEMMA HeldStays ==
    ASSUME OccupiedIsHeld, [Next]_vars
    PROVE  OccupiedIsHeld'
<1>1. ASSUME NEW o, NEW p, Finalize(o, p)  PROVE OccupiedIsHeld'
  <2> DEFINE l == [obj |-> o, port |-> p, auto |-> Call(o).auto,
                   reserved |-> (AlsoOccupied(o) \cup {p}) \ occupied]
  <2>1. lines' = lines \cup {l} /\ l.reserved = (AlsoOccupied(o) \cup {p}) \ occupied
    BY <1>1 DEF Finalize
  <2> HIDE DEF l
  <2>2. occupied' = occupied \cup (AlsoOccupied(o) \cup {p})
    BY <1>1 DEF Finalize
  <2>3. QED
    BY <2>1, <2>2 DEF OccupiedIsHeld
<1>2. ASSUME NEW o, Close(o)  PROVE OccupiedIsHeld'
  <2> SUFFICES ASSUME NEW p \in occupied'
               PROVE  \E l \in lines' : p \in l.reserved
    BY DEF OccupiedIsHeld
  <2>1. p \in occupied /\ \A l \in lines : l.obj = o => p \notin l.reserved
    BY <1>2 DEF Close
  <2>2. PICK l \in lines : p \in l.reserved
    BY <2>1 DEF OccupiedIsHeld
  <2>3. QED
    BY <1>2, <2>1, <2>2 DEF Close
<1>3. UNCHANGED lines /\ occupied' \subseteq occupied => OccupiedIsHeld'
  BY DEF OccupiedIsHeld
<1>4. ASSUME NEW o, MakeNext(o)  PROVE OccupiedIsHeld'
  <2>1. CASE MakeSerial(o) \/ NuttxBinaryFails(o)
    BY <1>1, <1>3, <2>1 DEF MakeSerial, NuttxBinaryFails, ports
  <2>2. CASE Make(o) \/ MakeFails(o) \/ WokwiExits(o) \/ ClassesOrApp(o)
    BY <1>3, <2>2 DEF Make, MakeFails, WokwiExits, ClassesOrApp, Exits, ports
  <2>3. CASE Flash(o) \/ NoSerial(o) \/ StartFails(o)
    BY <1>3, <2>3 DEF Flash, NoSerial, StartFails, Exits, ports
  <2>4. CASE MakeDut(o) \/ DutFails(o)
    BY <1>3, <2>4 DEF MakeDut, DutFails, ports
  <2>5. QED
    BY <1>4, <2>1, <2>2, <2>3, <2>4 DEF MakeNext
<1>5. CASE Unwind \/ Teardown
  BY <1>2, <1>3, <1>5 DEF Unwind, Teardown, CloseNext, ports
<1>6. CASE BeginFixtures \/ BeginCall \/ EndTest \/ NextTest \/ Over \/ UNCHANGED vars
  BY <1>3, <1>6 DEF BeginFixtures, BeginCall, EndTest, NextTest, Over, ports, vars
<1>7. QED
  BY <1>4, <1>5, <1>6 DEF Next

\* An occupied port is reserved by a serial port that is alive: none is lost to the DUTs to
\* come, by whatever call has failed.
THEOREM OccupiedIsReserved == Spec => []OccupiedIsHeld
<1>1. Init => OccupiedIsHeld
  BY DEF Init, OccupiedIsHeld
<1>2. QED
  BY <1>1, HeldStays, PTL DEF Spec

\* Between two tests nothing is alive and no port occupied, but what an exception of
\* __init__ or a SystemExit has left to nobody.
THEOREM TestsLeaveNothing == Spec => []NothingLeft
<1>1. ASSUME SetupInv, OccupiedIsHeld  PROVE NothingLeft
  <2> SUFFICES ASSUME (pc = "test" /\ at[2] = 0) \/ pc = "over"
               PROVE  /\ alive = orphans
                      /\ occupied \subseteq UNION {l.reserved : l \in {m \in lines : m.obj \in orphans}}
    BY DEF NothingLeft
  <2>1. layout = <<>> /\ own = <<>> /\ stack = <<>>
    BY <1>1 DEF SetupInv, Phases
  <2>2. KeptIn(layout, own, stack) = {}
    BY <2>1, EmptyClosable DEF KeptIn
  <2>3. alive = orphans
    BY <1>1, <2>2 DEF SetupInv, AliveIsKept
  <2>4. {m \in lines : m.obj \in orphans} = lines
    BY <1>1, <2>3 DEF SetupInv, LinesAlive
  <2>5. QED
    BY <1>1, <2>3, <2>4 DEF OccupiedIsHeld
<1>2. QED
  BY <1>1, SetupInvariant, OccupiedIsReserved, PTL

-----------------------------------------------------------------------------
(* The logfiles. *)

DutAlive(c) == <<"dut", <<at[1], c>>>> \in alive

ByFixture(c) == plan[at[1]][c].by = "fixture"

\* The fixtures name a logfile by the number of the DUT.  create() takes the number of DUTs
\* so far: a DUT that is alive has been counted.
Named(x) ==
    IF ByFixture(x.call) THEN x.name = <<"dut">> \/ x.name = <<"dut", x.call>>
    ELSE \E n \in Nat : /\ x.name = <<"custom-dut", n>> /\ n <= dutIndex
                        /\ DutAlive(x.call) => n < dutIndex

LogInv ==
    /\ dutIndex \in Nat
    /\ \A x \in logs : x.call \in 1..at[2] /\ Named(x)
    /\ \A x, y \in logs : x.call = y.call => x = y
    /\ \A x, y \in logs :
         x.call < y.call /\ (ByFixture(x.call) \/ DutAlive(x.call)) => x.name # y.name

\* A step that makes no DUT and leaves the logfiles alone.
LEMMA QuietLogs ==
    ASSUME LogInv, UNCHANGED <<plan, at, logs>>, dutIndex' = dutIndex \/ dutIndex' = dutIndex + 1,
           \A c : DutAlive(c)' => DutAlive(c)
    PROVE  LogInv'
<1>1. dutIndex \in Nat /\ dutIndex' \in Nat /\ dutIndex <= dutIndex'
  BY DEF LogInv
<1>2. \A c : ByFixture(c)' <=> ByFixture(c)
  BY DEF ByFixture
<1>3. ASSUME NEW x \in logs  PROVE Named(x)'
  <2>1. CASE ByFixture(x.call)
    BY <1>2, <2>1 DEF LogInv, Named
  <2>2. CASE ~ByFixture(x.call)
    <3>1. PICK n \in Nat : /\ x.name = <<"custom-dut", n>> /\ n <= dutIndex
                           /\ DutAlive(x.call) => n < dutIndex
      BY <2>2 DEF LogInv, Named
    <3>2. n <= dutIndex' /\ (DutAlive(x.call)' => n < dutIndex')
      BY <1>1, <3>1
    <3>3. QED
      BY <1>2, <2>2, <3>1, <3>2 DEF Named
  <2>3. QED
    BY <2>1, <2>2
<1>4. QED
  BY <1>1, <1>2, <1>3 DEF LogInv

LEMMA BeginFixturesLogs ==
    ASSUME SetupInv, BeginFixtures, dutIndex \in Nat
    PROVE  LogInv'
<1>1. PICK n \in DOMAIN plan[at[1]] :
        /\ \A i \in DOMAIN plan[at[1]] : plan[at[1]][i].by = "fixture" <=> i <= n
        /\ at' = <<at[1], n>>
        /\ logs' = {[call |-> i, name |-> IF n = 1 THEN <<"dut">> ELSE <<"dut", i>>] : i \in 1..n}
  BY DEF BeginFixtures
<1>2. UNCHANGED <<plan, dutIndex>>
  BY DEF BeginFixtures
<1>3. plan[at[1]] \in Seq(CallRecord)
  BY PlansAssumption DEF SetupInv, SetupTypes
<1>4. n \in Nat /\ \A i \in 1..n : i \in DOMAIN plan[at[1]] /\ i <= n
  BY <1>3
<1>5. \A i \in 1..n : ByFixture(i)'
  BY <1>1, <1>2, <1>4 DEF ByFixture
<1>6. ASSUME NEW x \in logs'
      PROVE  x.call \in 1..n /\ x.name = IF n = 1 THEN <<"dut">> ELSE <<"dut", x.call>>
  BY <1>1
<1>7. \A x \in logs' : x.call \in 1..at'[2] /\ Named(x)'
  BY <1>1, <1>5, <1>6 DEF Named
<1>8. \A x, y \in logs' : x.call = y.call => x = y
  BY <1>1
<1>9. ASSUME NEW x \in logs', NEW y \in logs', x.call < y.call  PROVE x.name # y.name
  <2>1. n # 1 /\ x.call # y.call
    <3>1. x.call \in 1..n /\ y.call \in 1..n
      BY <1>6
    <3> DEFINE a == x.call
               b == y.call
    <3> HIDE DEF a, b
    <3>2. a \in 1..n /\ b \in 1..n /\ a < b
      BY <1>9, <3>1 DEF a, b
    <3>3. n # 1 /\ a # b
      BY ONLY <1>4, <3>2
    <3>4. QED
      BY <3>3 DEF a, b
  <2>2. x.name = <<"dut", x.call>> /\ y.name = <<"dut", y.call>>
    BY <1>6, <2>1
  <2>3. x.name[2] = x.call /\ y.name[2] = y.call
    BY <2>2
  <2>4. QED
    BY <2>1, <2>3
<1>10. QED
  BY <1>2, <1>7, <1>8, <1>9 DEF LogInv

LEMMA BeginCallLogs ==
    ASSUME SetupInv, LogInv, BeginCall
    PROVE  LogInv'
<1>0. PICK y : y = [call |-> at[2] + 1, name |-> <<"custom-dut", dutIndex>>]
  OBVIOUS
<1>1. /\ at' = <<at[1], at[2] + 1>> /\ logs' = logs \cup {y}
      /\ plan[at[1]][at[2] + 1].by = "factory" /\ UNCHANGED <<plan, alive, dutIndex>>
  BY <1>0 DEF BeginCall
<1>2. /\ at \in Nat \X Nat /\ at[1] \in Nat /\ at[2] \in Nat
      /\ at'[1] = at[1] /\ at'[2] = at[2] + 1
  BY <1>1 DEF SetupInv, SetupTypes
<1>3. dutIndex \in Nat /\ y.call = at[2] + 1 /\ y.name = <<"custom-dut", dutIndex>>
  BY <1>0 DEF LogInv
<1>4. \A d : (DutAlive(d)' <=> DutAlive(d)) /\ (ByFixture(d)' <=> ByFixture(d))
  BY <1>1, <1>2 DEF DutAlive, ByFixture
<1>5. ~DutAlive(y.call) /\ ~ByFixture(y.call)
  <2>1. ~NotAfter(at, <<at[1], at[2] + 1>>)
    BY <1>2 DEF NotAfter
  <2>2. QED
    BY <1>1, <1>3, <2>1 DEF SetupInv, Fresh, DutAlive, ByFixture
<1>6. Named(y)'
  <2>1. dutIndex' = dutIndex /\ dutIndex <= dutIndex
    BY <1>1, <1>3
  <2>2. QED
    BY <1>3, <1>4, <1>5, <2>1 DEF Named
<1>7. \A x \in logs : Named(x) /\ Named(x)' /\ x.call \in 1..at[2] /\ x.call \in 1..at'[2]
  <2> SUFFICES ASSUME NEW x \in logs
               PROVE  Named(x) /\ Named(x)' /\ x.call \in 1..at[2] /\ x.call \in 1..at'[2]
    OBVIOUS
  <2>1. Named(x) /\ x.call \in 1..at[2]
    BY DEF LogInv
  <2>2. Named(x)'
    BY <1>1, <1>4, <2>1 DEF Named
  <2>3. QED
    BY <1>2, <2>1, <2>2
<1>8. ASSUME NEW x \in logs, ByFixture(x.call) \/ DutAlive(x.call)  PROVE x.name # y.name
  <2>1. CASE ByFixture(x.call)
    <3>1. x.name[1] = "dut" /\ y.name[1] = "custom-dut"
      BY <1>3, <1>7, <2>1 DEF Named
    <3>2. QED
      BY <3>1
  <2>2. CASE ~ByFixture(x.call)
    <3>1. PICK n \in Nat : x.name = <<"custom-dut", n>> /\ n < dutIndex
      BY <1>7, <1>8, <2>2 DEF Named
    <3>2. x.name[2] = n /\ y.name[2] = dutIndex
      BY <1>3, <3>1
    <3>3. QED
      BY <1>3, <3>1, <3>2
  <2>3. QED
    BY <2>1, <2>2
<1>9. \A x \in logs : x.call # y.call /\ ~(y.call < x.call)
  BY <1>2, <1>3, <1>7
<1>10. \A x \in logs' : x.call \in 1..at'[2] /\ Named(x)'
  <2>1. y.call \in 1..at'[2]
    BY <1>2, <1>3
  <2>2. QED
    BY <1>1, <1>6, <1>7, <2>1
<1>11. \A x, z \in logs' : x.call = z.call => x = z
  BY <1>1, <1>9 DEF LogInv
<1>12. ASSUME NEW x \in logs', NEW z \in logs', x.call < z.call,
              ByFixture(x.call)' \/ DutAlive(x.call)'
       PROVE  x.name # z.name
  <2>1. (ByFixture(x.call) \/ DutAlive(x.call)) /\ x \in logs
    BY <1>1, <1>4, <1>5, <1>12
  <2>2. CASE z \in logs
    BY <1>12, <2>1, <2>2 DEF LogInv
  <2>3. CASE z = y
    BY <1>8, <2>1, <2>3
  <2>4. QED
    BY <1>1, <2>2, <2>3
<1>13. QED
  BY <1>1, <1>3, <1>10, <1>11, <1>12 DEF LogInv

LEMMA MakeDutLogs ==
    ASSUME SetupInv, LogInv, NEW o, MakeDut(o)
    PROVE  LogInv'
<1>1. /\ UNCHANGED <<plan, at, logs>> /\ dutIndex' = dutIndex + 1
      /\ alive' = alive \cup {o} /\ o \in todo
  BY DEF MakeDut, Making
<1>2. dutIndex \in Nat /\ dutIndex' \in Nat /\ at[2] \in Nat
  BY <1>1 DEF LogInv, SetupInv, SetupTypes
<1>3. o \in Task /\ o[2][1] = at[1] /\ Call(o) \in CallRecord
  BY <1>1, CallUnderWay
<1>4. \A d : (DutAlive(d)' => DutAlive(d) \/ d = o[2][2]) /\ (ByFixture(d)' <=> ByFixture(d))
  BY <1>1 DEF DutAlive, ByFixture
<1>5. ByFixture(o[2][2]) \/ o[2][2] = at[2]
  BY <1>1, <1>3 DEF SetupInv, UnderWay, CallRecord, Call, ByFixture
<1>6. ASSUME NEW x \in logs  PROVE x.call \in 1..at[2] /\ Named(x)'
  <2>1. Named(x) /\ x.call \in 1..at[2]
    BY DEF LogInv
  <2>2. ASSUME NEW n \in Nat, n <= dutIndex  PROVE n <= dutIndex' /\ n < dutIndex'
    BY <1>1, <1>2, <2>2
  <2>3. QED
    BY <1>4, <2>1, <2>2 DEF Named
<1>7. ASSUME NEW x \in logs, NEW y \in logs, x.call < y.call, ByFixture(x.call) \/ DutAlive(x.call)'
      PROVE  x.name # y.name
  <2>1. x.call # at[2]
    BY <1>2, <1>6, <1>7
  <2>2. QED
    BY <1>4, <1>5, <1>7, <2>1 DEF LogInv
<1>8. QED
  BY <1>1, <1>2, <1>4, <1>6, <1>7 DEF LogInv

\* Two DUTs of a test that are alive write into different logfiles.
THEOREM LogsNeverShared == Spec => []LogsAreDistinct
<1>1. Init => LogInv
  <2> SUFFICES ASSUME Init
               PROVE  LogInv
    OBVIOUS
  <2>1. logs = {} /\ dutIndex = 0
    BY DEF Init
  <2>2. QED
    BY <2>1 DEF LogInv
<1>2. ASSUME SetupInv, LogInv, [Next]_vars  PROVE LogInv'
  <2>1. ASSUME UNCHANGED <<plan, at, logs>>, dutIndex' = dutIndex \/ dutIndex' = dutIndex + 1,
               \A c : <<"dut", <<at[1], c>>>> \in alive' => <<"dut", <<at[1], c>>>> \in alive
        PROVE  LogInv'
    BY <1>2, <2>1, QuietLogs DEF DutAlive
  <2>2. ASSUME NEW o, MakeNext(o)  PROVE LogInv'
    <3>1. \A c : o[1] # "dut" => o # <<"dut", <<at[1], c>>>>
      OBVIOUS
    <3>2. CASE Make(o) \/ MakeFails(o)
      BY <2>1, <3>1, <3>2 DEF Make, MakeFails, Made, Fails, Simple
    <3>3. CASE WokwiExits(o) \/ ClassesOrApp(o) \/ Flash(o)
      BY <2>1, <3>3 DEF WokwiExits, ClassesOrApp, Flash, Exits, Passed, Fails
    <3>4. CASE MakeSerial(o) \/ NoSerial(o) \/ StartFails(o) \/ NuttxBinaryFails(o)
      BY <2>1, <3>1, <3>4 DEF MakeSerial, NoSerial, StartFails, NuttxBinaryFails, Made, Fails
    <3>5. CASE DutFails(o)
      BY <2>1, <3>5 DEF DutFails, Fails
    <3>6. QED
      BY <1>2, <2>2, <3>2, <3>3, <3>4, <3>5, MakeDutLogs DEF MakeNext
  <2>3. CASE Unwind \/ Teardown
    BY <2>1, <2>3 DEF Unwind, Teardown, CloseNext, Close
  <2>4. CASE EndTest \/ Over \/ UNCHANGED vars
    BY <2>1, <2>4 DEF EndTest, Over, vars, objects
  <2>5. CASE NextTest
    <3>1. logs' = {} /\ dutIndex' = 0
      BY <2>5 DEF NextTest
    <3>2. QED
      BY <3>1 DEF LogInv
  <2>6. CASE BeginFixtures
    BY <1>2, <2>6, BeginFixturesLogs DEF LogInv
  <2>7. QED
    BY <1>2, <2>2, <2>3, <2>4, <2>5, <2>6, BeginCallLogs DEF Next
<1>3. ASSUME LogInv, SetupInv  PROVE LogsAreDistinct
  <2> SUFFICES ASSUME NEW x \in logs, NEW y \in logs, x # y,
                      DutAlive(x.call), DutAlive(y.call)
               PROVE  x.name # y.name
    BY DEF LogsAreDistinct, DutAlive
  <2>1. x.call \in Nat /\ y.call \in Nat /\ x.call # y.call
    BY <1>3 DEF LogInv, SetupInv, SetupTypes
  <2>2. x.call < y.call \/ y.call < x.call
    BY <2>1
  <2>3. QED
    BY <1>3, <2>2 DEF LogInv
<1>4. QED
  BY <1>1, <1>2, <1>3, SetupInvariant, PTL DEF Spec


-----------------------------------------------------------------------------
(***************************************************************************)
(* The ports that are found.  A port that is given, or flashed through, is *)
(* taken as it is, and given up with the call that fails on it, whether or *)
(* not an earlier DUT has it: a found port is safe only if no later call,  *)
(* while the DUT is open, is given what its DUT wants or flashed through   *)
(* it (KeepsApart).                                                        *)
(***************************************************************************)
Fixed(c) == (IF Flashes(c) THEN c.flash ELSE {}) \cup (IF c.auto THEN {} ELSE c.ports)

Wanted(c) == c.ports \cup (IF Flashes(c) THEN c.flash ELSE {})

\* The calls of the session s: <<test, call>>.
Calls(s) == UNION {{<<t, i>> : i \in DOMAIN s[t]} : t \in DOMAIN s}

Findable(s) == UNION {s[a[1]][a[2]].ports : a \in {b \in Calls(s) : s[b[1]][b[2]].auto}}

\* The calls whose serial port may be left open for the tests to come: what has failed is
\* the NuttX binary, or it is a SystemExit, of create() or of a fixture for another DUT.
MayBeOrphaned(s, a) ==
    LET c == s[a[1]][a[2]]
    IN  \/ SerialClass(Seen(c.services, c.form), c.linux) = "NuttxSerial"
        \/ c.by = "factory" /\ "wokwi" \in Makes(c)
        \/ /\ c.by = "fixture"
           /\ \E b \in Calls(s) : /\ b[1] = a[1] /\ b # a
                                  /\ s[b[1]][b[2]].by = "fixture" /\ Flashes(s[b[1]][b[2]])

KeepsApart(s) ==
    \A a, b \in Calls(s) :
      Before(a, b) /\ (a[1] = b[1] \/ MayBeOrphaned(s, a)) =>
        Fixed(s[b[1]][b[2]]) \cap Wanted(s[a[1]][a[2]]) \cap Findable(s) = {}

\* The next object is of the first place of those to make; a serial port comes after its
\* flash_port.
TaskInv ==
    /\ \A o \in todo : o[1] \in Makes(Call(o))
    /\ \A x \in ToSet(layout), o \in todo :
         /\ x[2][1] = o[2][1] /\ Call(x).by = Call(o).by
         /\ Call(o).by = "factory" => x[2] = o[2]
         /\ Place(x) <= Place(o)
         /\ x[1] = "serial" /\ o[1] = "flash" => x[2] # o[2]

LEMMA PlaceNat == \A by : \A k \in Kind : Order(by)[k] \in 1..12
<1> SUFFICES ASSUME NEW by, NEW k \in Kind
             PROVE  Order(by)[k] \in 1..12
  OBVIOUS
<1>1. CASE by = "factory"
  BY <1>1 DEF Kind, Order
<1>2. CASE by # "factory"
  BY <1>2 DEF Kind, Order
<1>3. QED
  BY <1>1, <1>2

\* The next object is before the others.
LEMMA NextPlace ==
    ASSUME SetupInv, NEW o, Making(o), NEW y \in todo
    PROVE  /\ Place(o) <= Place(y) /\ o[2][1] = y[2][1] /\ Call(o).by = Call(y).by
           /\ Call(o).by = "factory" => o[2] = y[2]
           /\ o[1] = "serial" /\ y[1] = "flash" => o[2] # y[2]
           /\ Place(o) = Place(y) => o[2][2] <= y[2][2]
           /\ o \in todo /\ o[2][2] \in Nat /\ y[2][2] \in Nat
<1>1. o \in todo /\ ~Earlier(y, o)
  BY DEF Making
<1>2. o \in Task /\ y \in Task
  BY <1>1 DEF SetupInv, SetupTypes
<1>3. Place(o) \in Nat /\ Place(y) \in Nat /\ o[2][2] \in Nat /\ y[2][2] \in Nat
  BY <1>2, PlaceNat DEF Place, Task
<1>4. o[2][1] = y[2][1] /\ Call(o).by = Call(y).by /\ (Call(o).by = "factory" => o[2] = y[2])
  BY <1>1 DEF SetupInv, UnderWay
<1>5. Place(o) <= Place(y) /\ (Place(o) = Place(y) => o[2][2] <= y[2][2])
  BY <1>1, <1>3 DEF Earlier
<1>6. o[1] = "serial" /\ y[1] = "flash" => o[2] # y[2]
  BY <1>1 DEF Earlier
<1>7. QED
  BY <1>1, <1>3, <1>4, <1>5, <1>6

LEMMA TaskStep ==
    ASSUME SetupInv, TaskInv, [Next]_vars
    PROVE  TaskInv'
<1>1. UNCHANGED plan
  BY DEF Next, MakeNext, vars, BeginFixtures, BeginCall, Make, MakeFails, WokwiExits, ClassesOrApp, Flash,
     MakeSerial, NoSerial, StartFails, NuttxBinaryFails, MakeDut, DutFails, Unwind, EndTest, Teardown,
     NextTest, Over, Made, Passed, Fails, Exits
<1>2. \A x : Call(x)' = Call(x) /\ Place(x)' = Place(x)
  BY <1>1 DEF Call, Place
<1>3. todo' = {} \/ UNCHANGED <<todo, layout>> => TaskInv'
  BY <1>2 DEF TaskInv
<1>4. ASSUME NEW C, todo' = UNION {Objects(i) : i \in C}, layout' = <<>>
      PROVE  TaskInv'
  <2>1. ASSUME NEW o \in todo'  PROVE o[1] \in Makes(Call(o))
    <3>1. PICK i \in C : o \in Objects(i)
      BY <1>4
    <3>2. PICK k \in Makes(plan[at[1]][i]) : o = <<k, <<at[1], i>>>>
      BY <3>1 DEF Objects
    <3>3. QED
      BY <3>2 DEF Call
  <2>2. ToSet(layout') = {}
    BY <1>4, EmptyClosable
  <2>3. QED
    BY <1>2, <2>1, <2>2 DEF TaskInv
<1>5. ASSUME NEW o, Making(o), todo' = todo \ {o},
             layout' = layout \/ (o[1] \notin Steps /\ layout' = Append(layout, o)) \/ todo' = {}
      PROVE  TaskInv'
  <2>1. CASE todo' = {} \/ layout' = layout
    BY <1>2, <1>5, <2>1 DEF TaskInv
  <2>2. CASE o[1] \notin Steps /\ layout' = Append(layout, o)
    <3>1. ToSet(layout') = ToSet(layout) \cup {o}
      BY <1>5, <2>2, NextObject
    <3>2. \A y \in todo' : /\ o[2][1] = y[2][1] /\ Call(o).by = Call(y).by
                           /\ Call(y).by = "factory" => o[2] = y[2]
                           /\ Place(o) <= Place(y)
                           /\ o[1] = "serial" /\ y[1] = "flash" => o[2] # y[2]
      BY <1>5, NextPlace
    <3>3. QED
      BY <1>2, <1>5, <3>1, <3>2 DEF TaskInv
  <2>3. QED
    BY <1>5, <2>1, <2>2
<1>6. ASSUME NEW o, MakeNext(o)  PROVE TaskInv'
  <2>1. CASE Make(o) \/ MakeSerial(o)
    BY <1>5, <2>1 DEF Make, MakeSerial, Made, Steps, Simple
  <2>2. CASE MakeFails(o) \/ NoSerial(o) \/ StartFails(o) \/ NuttxBinaryFails(o) \/ DutFails(o)
    BY <1>3, <2>2 DEF MakeFails, NoSerial, StartFails, NuttxBinaryFails, DutFails, Fails
  <2>3. CASE WokwiExits(o) \/ ClassesOrApp(o) \/ Flash(o)
    BY <1>3, <1>5, <2>3 DEF WokwiExits, ClassesOrApp, Flash, Passed, Fails, Exits
  <2>4. CASE MakeDut(o)
    BY <1>5, <2>4 DEF MakeDut, Steps
  <2>5. QED
    BY <1>6, <2>1, <2>2, <2>3, <2>4 DEF MakeNext
<1>7. CASE Unwind
  <2>1. todo' = {}
    BY <1>7 DEF Unwind, SetupInv, Phases
  <2>2. QED
    BY <1>3, <2>1
<1>8. CASE Teardown \/ EndTest \/ NextTest \/ Over \/ UNCHANGED vars
  BY <1>3, <1>8 DEF Teardown, EndTest, NextTest, Over, vars, objects
<1>9. CASE BeginFixtures
  BY <1>4, <1>9 DEF BeginFixtures
<1>10. CASE BeginCall
  <2>1. todo' = UNION {Objects(i) : i \in {at[2] + 1}} /\ layout' = <<>>
    BY <1>10 DEF BeginCall
  <2>2. QED
    BY <1>4, <2>1
<1>11. QED
  BY <1>6, <1>7, <1>8, <1>9, <1>10 DEF Next

-----------------------------------------------------------------------------
\* The findable ports a line has.
Held(l) == ({l.port} \cup AlsoOccupied(l.obj)) \cap Findable(plan)

LinesKnown ==
    \A l \in lines :
      /\ l.obj[1] = "serial" /\ l.obj[2] \in Calls(plan)
      /\ l.port \in Call(l.obj).ports /\ l.auto = Call(l.obj).auto

\* A line occupies and reserves what it has, and no two lines have a port in common.
LinesHeld ==
    /\ \A l \in lines : Held(l) \subseteq occupied /\ l.reserved \cap Findable(plan) = Held(l)
    /\ \A l, m \in lines : l = m \/ Held(l) \cap Held(m) = {}

\* A line of an earlier test is nobody's.
LinesOfOld ==
    \A l \in lines :
      /\ l.obj[2][1] # at[1] => l.obj \in orphans
      /\ l.obj \in orphans => MayBeOrphaned(plan, l.obj[2])

\* What is still to be opened, or flashed through, is for a later call.
LinesEarlier ==
    \A l \in lines, o \in todo : o[1] \in {"flash", "serial"} => Before(l.obj[2], o[2])

LineInv == LinesKnown /\ LinesHeld /\ LinesOfOld /\ LinesEarlier

LEMMA FlashIsMade == \A c : "flash" \in Makes(c) => Flashes(c)
BY DEF Makes, Fixtures

LEMMA CallOfPlan == ASSUME SetupInv, NEW o \in todo PROVE o[2] \in Calls(plan)
<1>1. o[2][1] \in DOMAIN plan /\ o[2][2] \in DOMAIN plan[o[2][1]] /\ o[2] = <<o[2][1], o[2][2]>>
  BY CallUnderWay DEF Task
<1>2. QED
  BY <1>1 DEF Calls

\* What a call is given, or flashes through, no line has.
LEMMA Undisturbed ==
    ASSUME SetupInv, LineInv, KeepsApart(plan),
           NEW o \in todo, o[1] \in {"flash", "serial"}, NEW l \in lines
    PROVE  Fixed(Call(o)) \cap Held(l) = {}
<1> DEFINE a == l.obj[2]
           b == o[2]
<1>1. a \in Calls(plan) /\ Call(l.obj) = plan[a[1]][a[2]] /\ l.port \in Call(l.obj).ports
  BY DEF LineInv, LinesKnown, Call
<1>2. b[1] = at[1] /\ Call(o) = plan[b[1]][b[2]]
  BY CallUnderWay DEF Call
<1>3. b \in Calls(plan)
  BY CallOfPlan
<1>4. Before(a, b) /\ (a[1] = b[1] \/ MayBeOrphaned(plan, a))
  BY <1>2 DEF LineInv, LinesEarlier, LinesOfOld
<1>5. Held(l) \subseteq Wanted(Call(l.obj)) \cap Findable(plan)
  BY <1>1 DEF Held, Wanted, AlsoOccupied
<1>6. Fixed(plan[b[1]][b[2]]) \cap Wanted(plan[a[1]][a[2]]) \cap Findable(plan) = {}
  BY <1>1, <1>3, <1>4 DEF KeepsApart
<1>7. QED
  BY <1>1, <1>2, <1>5, <1>6

\* A port is chosen and occupied.
LEMMA FinalizeLines ==
    ASSUME SetupInv, LineInv, OccupiedIsHeld, KeepsApart(plan), UNCHANGED plan,
           NEW o \in todo, o[1] = "serial", NEW p \in Candidates(o), Finalize(o, p)
    PROVE  /\ LinesKnown' /\ LinesHeld'
           /\ \A l \in lines' : l \in lines \/ l.obj = o
<1> DEFINE F == Findable(plan)
           wanted == AlsoOccupied(o) \cup {p}
<1>1. PICK n : n = [obj |-> o, port |-> p, auto |-> Call(o).auto, reserved |-> wanted \ occupied]
  OBVIOUS
<1>2. lines' = lines \cup {n} /\ occupied' = occupied \cup wanted
  BY <1>1 DEF Finalize
<1>3. n.obj = o /\ n.port = p /\ n.auto = Call(o).auto /\ n.reserved = wanted \ occupied
      /\ Held(n) = wanted \cap F
  BY <1>1 DEF Held
<1>4. \A x : Call(x)' = Call(x) /\ AlsoOccupied(x)' = AlsoOccupied(x)
  BY DEF Call, AlsoOccupied
<1>5. \A l : Held(l)' = Held(l)
  BY <1>4 DEF Held
<1>6. p \in Call(o).ports /\ (Call(o).auto => p \notin occupied)
  BY DEF Candidates
<1>7. LinesKnown'
  <2>1. o[2] \in Calls(plan)
    BY CallOfPlan
  <2>2. QED
    BY <1>2, <1>3, <1>4, <1>6, <2>1 DEF LineInv, LinesKnown
<1>8. ASSUME NEW l \in lines  PROVE wanted \cap Held(l) = {}
  <2>1. Fixed(Call(o)) \cap Held(l) = {} /\ Held(l) \subseteq occupied
    BY Undisturbed DEF LineInv, LinesHeld
  <2>2. AlsoOccupied(o) \subseteq Fixed(Call(o)) /\ (~Call(o).auto => p \in Fixed(Call(o)))
    BY <1>6 DEF AlsoOccupied, Fixed
  <2>3. QED
    BY <1>6, <2>1, <2>2
<1>9. wanted \cap F \cap occupied = {}
  <2> SUFFICES ASSUME NEW q \in wanted \cap F, q \in occupied
               PROVE  FALSE
    OBVIOUS
  <2>1. PICK l \in lines : q \in l.reserved
    BY DEF OccupiedIsHeld
  <2>2. q \in Held(l)
    BY <2>1 DEF LineInv, LinesHeld
  <2>3. QED
    BY <1>8, <2>2
<1> HIDE DEF wanted
<1>10. LinesHeld'
  <2>1. \A l \in lines' : Held(l) \subseteq occupied' /\ l.reserved \cap F = Held(l)
    BY <1>2, <1>3, <1>9 DEF LineInv, LinesHeld
  <2>2. \A l, m \in lines' : l = m \/ Held(l) \cap Held(m) = {}
    BY <1>2, <1>3, <1>8 DEF LineInv, LinesHeld
  <2>3. QED
    BY <1>5, <2>1, <2>2 DEF LinesHeld
<1>11. QED
  BY <1>2, <1>3, <1>7, <1>10

\* A line is closed.
LEMMA CloseLines ==
    ASSUME LinesKnown, LinesHeld, NEW o, Close(o), UNCHANGED plan
    PROVE  LinesKnown' /\ LinesHeld' /\ lines' \subseteq lines
<1>1. /\ lines' = {l \in lines : l.obj # o}
      /\ occupied' = occupied \ UNION {l.reserved : l \in {m \in lines : m.obj = o}}
  BY DEF Close
<1>2. \A x : Call(x)' = Call(x) /\ Held(x)' = Held(x)
  BY DEF Call, Held, AlsoOccupied
<1>3. ASSUME NEW l \in lines', NEW q \in Held(l)  PROVE q \in occupied'
  <2>1. l \in lines /\ l.obj # o /\ q \in occupied /\ q \in Findable(plan)
    BY <1>1, <1>3 DEF LinesHeld, Held
  <2>2. ASSUME NEW m \in lines, m.obj = o, q \in m.reserved  PROVE FALSE
    <3>1. q \in Held(m)
      BY <2>1, <2>2 DEF LinesHeld
    <3>2. QED
      BY <1>3, <2>1, <2>2, <3>1 DEF LinesHeld
  <2>3. QED
    BY <1>1, <2>1, <2>2
<1>4. LinesKnown'
  BY <1>1, <1>2 DEF LinesKnown
<1>5. LinesHeld'
  BY <1>1, <1>2, <1>3 DEF LinesHeld
<1>6. QED
  BY <1>1, <1>4, <1>5

\* Ports are given up that no line has.
LEMMA GiveUpLines ==
    ASSUME LinesKnown, LinesHeld, UNCHANGED <<plan, lines>>, \A l \in lines : Held(l) \subseteq occupied'
    PROVE  LinesKnown' /\ LinesHeld'
<1>1. \A x : Call(x)' = Call(x) /\ Held(x)' = Held(x)
  BY DEF Call, Held, AlsoOccupied
<1>2. LinesKnown'
  BY <1>1 DEF LinesKnown
<1>3. LinesHeld'
  BY <1>1 DEF LinesHeld
<1>4. QED
  BY <1>2, <1>3

\* What a step makes of the lines and their ports; where a line is new, it is that of o.
LEMMA PortsStep ==
    ASSUME SetupInv, TaskInv, LineInv, OccupiedIsHeld, KeepsApart(plan), [Next]_vars
    PROVE  /\ LinesKnown' /\ LinesHeld'
           /\ \/ lines' \subseteq lines
              \/ \E o \in todo : /\ MakeSerial(o) \/ NuttxBinaryFails(o)
                                 /\ \A l \in lines' : l \in lines \/ l.obj = o
<1>1. LinesKnown /\ LinesHeld /\ \A l \in lines : Held(l) \subseteq occupied
  BY DEF LineInv, LinesHeld
<1>2. UNCHANGED <<plan, lines, occupied>> => LinesKnown' /\ LinesHeld' /\ lines' \subseteq lines
  BY <1>1, GiveUpLines
<1>3. ASSUME NEW o \in todo, MakeNext(o)
      PROVE  /\ LinesKnown' /\ LinesHeld'
             /\ \/ lines' \subseteq lines
                \/ /\ MakeSerial(o) \/ NuttxBinaryFails(o)
                   /\ \A l \in lines' : l \in lines \/ l.obj = o
  <2>1. CASE MakeSerial(o) \/ NuttxBinaryFails(o)
    <3>1. o[1] = "serial" /\ UNCHANGED plan
      BY <2>1 DEF MakeSerial, NuttxBinaryFails, Made, Fails
    <3>2. UNCHANGED ports \/ \E p \in Candidates(o) : Finalize(o, p)
      BY <2>1 DEF MakeSerial, NuttxBinaryFails
    <3>3. QED
      BY <1>2, <2>1, <3>1, <3>2, FinalizeLines DEF ports
  <2>2. CASE Flash(o) \/ StartFails(o)
    <3>1. o[1] \in {"flash", "serial"} /\ UNCHANGED <<plan, lines>>
      BY <2>2 DEF Flash, StartFails, Passed, Fails, Exits, ports
    <3>2. ASSUME NEW l \in lines  PROVE Held(l) \subseteq occupied'
      <4>1. Fixed(Call(o)) \cap Held(l) = {} /\ Held(l) \subseteq occupied
        BY <1>1, <3>1, Undisturbed
      <4>2. CASE Flash(o) /\ o[1] = "flash"
        <5>1. CASE occupied' = occupied
          BY <4>1, <5>1
        <5>2. CASE occupied' = occupied \ Call(o).flash
          <6>1. Call(o).flash \subseteq Fixed(Call(o))
            BY <4>2, FlashIsMade DEF Fixed, TaskInv
          <6>2. QED
            BY <4>1, <5>2, <6>1
        <5>3. QED
          BY <4>2, <5>1, <5>2 DEF Flash, Exits, ports
      <4>3. CASE StartFails(o)
        <5>1. PICK p \in Candidates(o) : occupied' = occupied \ (AlsoOccupied(o) \cup {p})
          BY <4>3 DEF StartFails
        <5>2. AlsoOccupied(o) \subseteq Fixed(Call(o)) /\ (p \in Fixed(Call(o)) \/ p \notin occupied)
          BY DEF AlsoOccupied, Fixed, Candidates
        <5>3. QED
          BY <4>1, <5>1, <5>2
      <4>4. QED
        BY <2>2, <4>2, <4>3 DEF Flash
    <3>3. QED
      BY <1>1, <3>1, <3>2, GiveUpLines
  <2>3. CASE Make(o) \/ MakeFails(o) \/ WokwiExits(o) \/ ClassesOrApp(o) \/ NoSerial(o) \/ MakeDut(o) \/ DutFails(o)
    <3>1. UNCHANGED <<plan, lines, occupied>>
      BY <2>3 DEF Make, MakeFails, WokwiExits, ClassesOrApp, NoSerial, MakeDut, DutFails, Made, Passed,
           Fails, Exits, ports
    <3>2. QED
      BY <1>2, <3>1
  <2>4. QED
    BY <1>3, <2>1, <2>2, <2>3 DEF MakeNext
<1>4. CASE Unwind \/ Teardown
  <2>1. UNCHANGED plan /\ (UNCHANGED <<lines, occupied>> \/ \E o : Close(o))
    BY <1>4 DEF Unwind, Teardown, CloseNext, ports
  <2>2. QED
    BY <1>1, <1>2, <2>1, CloseLines
<1>5. CASE BeginFixtures \/ BeginCall \/ EndTest \/ NextTest \/ Over \/ UNCHANGED vars
  BY <1>2, <1>5 DEF BeginFixtures, BeginCall, EndTest, NextTest, Over, vars, ports
<1>6. QED
  BY <1>3, <1>4, <1>5 DEF Next

\* A line that is left to nobody is one of a call that may leave it.
LEMMA ExitsLeavesOld ==
    ASSUME SetupInv, TaskInv, LinesKnown, NEW o, WokwiExits(o) \/ ClassesOrApp(o) \/ Flash(o), Exits(o),
           NEW l \in lines, l.obj \in orphans', l.obj \notin orphans
    PROVE  MayBeOrphaned(plan, l.obj[2])
<1> DEFINE x == l.obj
<1>1. Making(o) /\ o \in todo /\ o[1] \in {"wokwi", "classes", "app", "flash"}
  BY DEF WokwiExits, ClassesOrApp, Flash, Making
<1>2. /\ o \in Task /\ o[2][1] = at[1] /\ o[2][1] \in DOMAIN plan /\ o[2][2] \in DOMAIN plan[o[2][1]]
      /\ Call(o) \in CallRecord
  BY <1>1, CallUnderWay
<1>3. PICK n \in 0..Len(layout) :
        /\ \A i \in DOMAIN layout : i > n <=> Call(o).by = "factory" \/ Place(layout[i]) = Place(o)
        /\ orphans' = orphans \cup ToSet(SubSeq(layout, n + 1, Len(layout)))
  BY DEF Exits
<1>4. PICK i \in (n + 1)..Len(layout) : x = layout[i]
  <2>1. ToSet(SubSeq(layout, n + 1, Len(layout))) = {layout[i] : i \in (n + 1)..Len(layout)}
    BY PrefixClosable DEF SetupInv, Pieces
  <2>2. QED
    BY <1>3, <2>1
<1>5. x \in ToSet(layout) /\ (Call(o).by = "factory" \/ Place(x) = Place(o))
  <2>1. layout \in Seq(Obj) /\ DOMAIN layout = 1..Len(layout) /\ Len(layout) \in Nat
    BY DEF SetupInv, Pieces, Closable
  <2>2. i \in DOMAIN layout /\ i > n
    BY <2>1
  <2>3. QED
    BY <1>3, <1>4, <2>2 DEF ToSet
<1>6. /\ x[1] = "serial" /\ x[2] \in Calls(plan) /\ o[1] \in Makes(Call(o))
      /\ x[2][1] = o[2][1] /\ Call(x).by = Call(o).by /\ (Call(o).by = "factory" => x[2] = o[2])
      /\ Place(x) <= Place(o) /\ (o[1] = "flash" => x[2] # o[2])
  BY <1>1, <1>5 DEF TaskInv, LinesKnown
<1> HIDE DEF x
<1>7. CASE Call(o).by = "factory"
  <2>1. Place(x) = 8
    BY <1>6, <1>7 DEF Place, Order
  <2>2. o[1] \in {"classes", "app"} => Place(o) \in {4, 5}
    BY <1>7 DEF Place, Order
  <2>3. o[1] \notin {"classes", "app", "flash"}
    BY <1>6, <1>7, <2>1, <2>2
  <2>4. o[1] = "wokwi" /\ Call(x) = Call(o)
    BY <1>1, <1>6, <1>7, <2>3 DEF Call
  <2>5. QED
    BY <1>6, <1>7, <2>4 DEF MayBeOrphaned, Call, x
<1>8. CASE Call(o).by # "factory"
  <2>1. Call(o).by = "fixture" /\ Place(x) = Place(o)
    BY <1>2, <1>5, <1>8 DEF CallRecord
  <2>2. Place(x) = 8
    BY <1>6, <2>1 DEF Place, Order
  <2>3. o[1] = "flash"
    BY <1>1, <2>1, <2>2 DEF Place, Order
  <2>4. Flashes(Call(o)) /\ x[2] # o[2]
    BY <1>6, <2>3, FlashIsMade
  <2>5. o[2] \in Calls(plan)
    BY <1>1, CallOfPlan
  <2>6. QED
    BY <1>6, <2>1, <2>4, <2>5 DEF MayBeOrphaned, Call, x
<1>9. QED
  BY <1>7, <1>8

LEMMA OldStep ==
    ASSUME SetupInv, TaskInv, LineInv, OccupiedIsHeld, KeepsApart(plan), [Next]_vars
    PROVE  LinesOfOld'
<1>1. LinesOfOld /\ LinesKnown
  BY DEF LineInv
<1>2. \/ lines' \subseteq lines
      \/ \E o \in todo : /\ MakeSerial(o) \/ NuttxBinaryFails(o)
                         /\ \A l \in lines' : l \in lines \/ l.obj = o
  BY PortsStep
<1>3. ASSUME lines' \subseteq lines, UNCHANGED plan, at'[1] = at[1], orphans \subseteq orphans',
             \A l \in lines : l.obj \in orphans' /\ l.obj \notin orphans => MayBeOrphaned(plan, l.obj[2])
      PROVE  LinesOfOld'
  BY <1>1, <1>3 DEF LinesOfOld
<1>4. lines' \subseteq lines /\ UNCHANGED <<plan, orphans>> /\ at'[1] = at[1] => LinesOfOld'
  BY <1>3
<1>5. ASSUME NEW o \in todo, MakeNext(o)  PROVE LinesOfOld'
  <2>1. /\ o \in Task /\ o[2][1] = at[1] /\ Making(o) => o \notin alive
        /\ orphans \subseteq alive
    BY <1>5 DEF SetupInv, SetupTypes, UnderWay, Fresh, AliveIsKept
  <2>2. o \notin orphans /\ o[2][1] = at[1]
    BY <2>1 DEF SetupInv, Fresh, UnderWay
  <2>3. CASE MakeSerial(o)
    <3>1. /\ UNCHANGED <<plan, at, orphans>>
          /\ \A l \in lines' : l \in lines \/ l.obj = o
      <4>1. UNCHANGED <<plan, at, orphans>>
        BY <2>3 DEF MakeSerial, Made
      <4>2. UNCHANGED lines \/ \E p : Finalize(o, p)
        BY <2>3 DEF MakeSerial, ports
      <4>3. QED
        BY <4>1, <4>2 DEF Finalize
    <3>2. QED
      BY <1>1, <2>2, <3>1 DEF LinesOfOld
  <2>4. CASE NuttxBinaryFails(o)
    <3>1. /\ UNCHANGED <<plan, at>> /\ orphans' = orphans \cup {o}
          /\ \E p : Finalize(o, p)
          /\ SerialClass(S(o), Call(o).linux) = "NuttxSerial"
      BY <2>4 DEF NuttxBinaryFails, Fails
    <3>2. \A l \in lines' : l \in lines \/ l.obj = o
      BY <3>1 DEF Finalize
    <3>3. MayBeOrphaned(plan, o[2])
      BY <3>1 DEF MayBeOrphaned, S, Call
    <3>4. QED
      BY <1>1, <2>2, <3>1, <3>2, <3>3 DEF LinesOfOld
  <2>5. CASE MakeFails(o)
    <3>1. /\ UNCHANGED <<plan, at, lines>>
          /\ orphans' = orphans \/ (o[1] = "openocd" /\ orphans' = orphans \cup {o})
      BY <2>5 DEF MakeFails, Fails, ports
    <3>2. \A l \in lines : o[1] = "openocd" => l.obj # o
      BY <1>1 DEF LinesKnown
    <3>3. QED
      BY <1>3, <3>1, <3>2
  <2>6. CASE Exits(o) /\ (WokwiExits(o) \/ ClassesOrApp(o) \/ Flash(o))
    <3>1. UNCHANGED <<plan, at, lines>> /\ orphans \subseteq orphans'
      BY <2>6 DEF Exits, ports
    <3>2. \A l \in lines : l.obj \in orphans' /\ l.obj \notin orphans => MayBeOrphaned(plan, l.obj[2])
      BY <1>1, <2>6, ExitsLeavesOld
    <3>3. QED
      BY <1>3, <3>1, <3>2
  <2>7. CASE ~Exits(o) /\ (WokwiExits(o) \/ ClassesOrApp(o) \/ Flash(o))
    <3>1. UNCHANGED <<plan, at, lines, orphans>>
      BY <2>7 DEF WokwiExits, ClassesOrApp, Flash, Passed, Fails, ports
    <3>2. QED
      BY <1>4, <3>1
  <2>8. CASE Make(o) \/ NoSerial(o) \/ StartFails(o) \/ MakeDut(o) \/ DutFails(o)
    <3>1. UNCHANGED <<plan, at, lines, orphans>>
      BY <2>8 DEF Make, NoSerial, StartFails, MakeDut, DutFails, Made, Fails, ports
    <3>2. QED
      BY <1>4, <3>1
  <2>9. QED
    BY <1>5, <2>3, <2>4, <2>5, <2>6, <2>7, <2>8 DEF MakeNext
<1>6. CASE NextTest
  <2>1. /\ own = <<>> /\ stack = <<>> /\ layout = <<>> /\ UNCHANGED <<plan, orphans, lines>>
    BY <1>6 DEF NextTest, objects, ports, SetupInv, Phases
  <2>2. KeptIn(layout, own, stack) = {}
    BY <2>1, EmptyClosable DEF KeptIn
  <2>3. \A l \in lines : l.obj \in orphans
    BY <2>2 DEF SetupInv, AliveIsKept, LinesAlive
  <2>4. QED
    BY <1>1, <2>1, <2>3 DEF LinesOfOld
<1>7. CASE Unwind \/ Teardown
  <2>1. UNCHANGED <<plan, at, orphans>> /\ (UNCHANGED lines \/ \E o : Close(o))
    BY <1>7 DEF Unwind, Teardown, CloseNext, ports
  <2>2. lines' \subseteq lines
    BY <2>1 DEF Close
  <2>3. QED
    BY <1>4, <2>1, <2>2
<1>8. CASE BeginFixtures \/ BeginCall \/ EndTest \/ Over \/ UNCHANGED vars
  <2>1. UNCHANGED <<plan, orphans, lines>> /\ at'[1] = at[1]
    <3>1. CASE BeginFixtures \/ BeginCall
      <4>1. UNCHANGED <<plan, orphans, lines>>
        BY <3>1 DEF BeginFixtures, BeginCall, ports
      <4>2. \E n : at' = <<at[1], n>>
        BY <3>1 DEF BeginFixtures, BeginCall
      <4>3. QED
        BY <4>1, <4>2
    <3>2. CASE EndTest \/ Over \/ UNCHANGED vars
      BY <3>2 DEF EndTest, Over, vars, objects, ports
    <3>3. QED
      BY <1>8, <3>1, <3>2
  <2>2. QED
    BY <1>4, <2>1
<1>9. QED
  BY <1>5, <1>6, <1>7, <1>8 DEF Next

LEMMA EarlierStep ==
    ASSUME SetupInv, TaskInv, LineInv, OccupiedIsHeld, KeepsApart(plan), [Next]_vars
    PROVE  LinesEarlier'
<1>1. LinesEarlier
  BY DEF LineInv
<1>2. CASE BeginFixtures \/ BeginCall
  <2>1. lines' = lines /\ \A o \in todo' : o[2][1] = at[1] /\ o[2][2] > at[2]
    <3>1. at[1] \in Nat /\ at[2] \in Nat
      BY DEF SetupInv, SetupTypes
    <3>2. CASE BeginFixtures
      <4>1. at[2] = 0 /\ lines' = lines
        BY <3>2 DEF BeginFixtures, ports
      <4>2. PICK n : todo' = UNION {Objects(i) : i \in 1..n}
        BY <3>2 DEF BeginFixtures
      <4>3. \A o \in todo' : o[2][1] = at[1] /\ o[2][2] \in 1..n
        BY <4>2 DEF Objects
      <4>4. \A i \in 1..n : i > 0
        OBVIOUS
      <4>5. QED
        BY <4>1, <4>3, <4>4
    <3>3. CASE BeginCall
      <4>1. lines' = lines /\ todo' = Objects(at[2] + 1)
        BY <3>3 DEF BeginCall, ports
      <4>2. \A o \in todo' : o[2] = <<at[1], at[2] + 1>>
        BY <4>1 DEF Objects
      <4>3. QED
        BY <3>1, <4>1, <4>2
    <3>4. QED
      BY <1>2, <3>2, <3>3
  <2>2. ASSUME NEW l \in lines, NEW o \in todo'  PROVE Before(l.obj[2], o[2])
    <3>1. NotAfter(at, l.obj[2])
      BY DEF SetupInv, LinesAlive, Fresh
    <3>2. l.obj[2][1] \in Nat /\ l.obj[2][2] \in Nat /\ at[1] \in Nat /\ at[2] \in Nat
      BY DEF SetupInv, SetupTypes, LinesAlive, Obj
    <3>3. o[2][1] = at[1] /\ o[2][2] > at[2] /\ o[2][2] \in Nat
      <4>1. SetupInv'
        BY <1>2, BeginCallSetup
      <4>2. QED
        BY <2>1, <4>1 DEF SetupInv, SetupTypes, Task
    <3>4. QED
      BY <3>1, <3>2, <3>3 DEF NotAfter, Before
  <2>3. QED
    BY <2>1, <2>2 DEF LinesEarlier
<1>3. CASE \E o \in todo : MakeSerial(o) \/ NuttxBinaryFails(o)
  <2>1. PICK o \in todo : MakeSerial(o) \/ NuttxBinaryFails(o)
    BY <1>3
  <2>2. CASE NuttxBinaryFails(o)
    <3>1. todo' = {}
      BY <2>2 DEF NuttxBinaryFails, Fails
    <3>2. QED
      BY <3>1 DEF LinesEarlier
  <2>3. CASE MakeSerial(o)
    <3>1. Making(o) /\ o[1] = "serial" /\ todo' = todo \ {o} /\ \A l \in lines' : l \in lines \/ l.obj = o
      <4>1. UNCHANGED lines \/ \E p : Finalize(o, p)
        BY <2>3 DEF MakeSerial, ports
      <4>2. QED
        BY <2>3, <4>1 DEF MakeSerial, Made, Finalize
    <3>2. ASSUME NEW y \in todo', y[1] \in {"flash", "serial"}  PROVE Before(o[2], y[2])
      <4>1. /\ Place(o) = 8 /\ Place(y) = 8
        BY <3>1, <3>2 DEF Place, Order
      <4>2. /\ o[2][1] = y[2][1] /\ o[2][2] <= y[2][2] /\ o[2][2] \in Nat /\ y[2][2] \in Nat
            /\ (y[1] = "flash" => o[2] # y[2])
        BY <3>1, <3>2, <4>1, NextPlace
      <4>3. o \in Task /\ y \in Task /\ y # o
        BY <3>1, <3>2 DEF SetupInv, SetupTypes
      <4>4. o[2] # y[2]
        BY <3>1, <3>2, <4>2, <4>3 DEF Task
      <4>5. o[2][2] # y[2][2]
        BY <4>2, <4>3, <4>4 DEF Task
      <4>6. QED
        BY <4>2, <4>5 DEF Before
    <3>3. QED
      BY <1>1, <3>1, <3>2 DEF LinesEarlier
  <2>4. QED
    BY <2>1, <2>2, <2>3
<1>4. CASE ~(BeginFixtures \/ BeginCall \/ \E o \in todo : MakeSerial(o) \/ NuttxBinaryFails(o))
  <2>1. lines' \subseteq lines
    BY <1>4, PortsStep
  <2>2. todo' \subseteq todo
    <3>1. ASSUME NEW o \in todo, MakeNext(o)  PROVE todo' \subseteq todo
      BY <3>1 DEF MakeNext, Make, MakeFails, WokwiExits, ClassesOrApp, Flash,
         MakeSerial, NoSerial, StartFails, NuttxBinaryFails, MakeDut, DutFails, Made, Passed, Fails, Exits
    <3>2. QED
      BY <1>4, <3>1 DEF Next, Unwind, EndTest, Teardown, NextTest, Over, vars
  <2>3. QED
    BY <1>1, <2>1, <2>2 DEF LinesEarlier
<1>5. QED
  BY <1>2, <1>3, <1>4

\* A port that a DUT finds by itself is none that an earlier DUT, still open, reads or is
\* flashed through, if no call is given what a call before it, whose DUT may be open, wants,
\* or flashes through it.
THEOREM FoundPortsAreKept ==
    ASSUME \A s \in Plans : KeepsApart(s)
    PROVE  Spec => []FoundPortsAreFree
<1>1. ASSUME Init  PROVE TaskInv /\ LineInv
  <2>1. lines = {} /\ todo = {}
    BY <1>1 DEF Init
  <2>2. QED
    BY <2>1 DEF TaskInv, LineInv, LinesKnown, LinesHeld, LinesOfOld, LinesEarlier
<1>2. ASSUME SetupInv, OccupiedIsHeld, TaskInv, LineInv, [Next]_vars  PROVE TaskInv' /\ LineInv'
  <2>1. KeepsApart(plan)
    BY <1>2 DEF SetupInv, SetupTypes
  <2>2. QED
    BY <1>2, <2>1, TaskStep, PortsStep, OldStep, EarlierStep DEF LineInv
<1>3. ASSUME SetupInv, LineInv  PROVE FoundPortsAreFree
  <2> SUFFICES ASSUME NEW l \in lines, NEW m \in lines, m.auto, Before(l.obj[2], m.obj[2])
               PROVE  m.port \notin {l.port} \cup AlsoOccupied(l.obj)
    BY DEF FoundPortsAreFree
  <2>1. l # m
    BY <1>3 DEF Before, SetupInv, SetupTypes, LinesAlive, Obj
  <2>2. m.port \in Findable(plan)
    BY <1>3 DEF LineInv, LinesKnown, Findable, Call
  <2>3. m.port \in Held(m) /\ Held(l) \cap Held(m) = {}
    BY <1>3, <2>1, <2>2 DEF LineInv, LinesHeld, Held
  <2>4. QED
    BY <2>2, <2>3 DEF Held
<1>4. QED
  BY <1>1, <1>2, <1>3, SetupInvariant, OccupiedIsReserved, PTL DEF Spec
-----------------------------------------------------------------------------
(* The classes. *)

\* Row i is the first of the table all of whose services are in X.
FirstFit(table, i, X) ==
    /\ table[i].services \subseteq X
    /\ \A j \in DOMAIN table : j < i => ~(table[j].services \subseteq X)

\* The class is that of the first row that fits.
LEMMA LookupFacts ==
    ASSUME NEW table, DOMAIN table \subseteq Nat, NEW X, NEW k \in DOMAIN table, table[k].services \subseteq X
    PROVE  \E i \in DOMAIN table : FirstFit(table, i, X) /\ Lookup(table, X) = table[i].class
<1>1. PICK I : I = {j \in DOMAIN table : table[j].services \subseteq X}
  OBVIOUS
<1>2. I \in SUBSET Nat /\ I # {}
  BY <1>1
<1>3. \E i \in I : \A j \in I : i <= j
  BY <1>2, LeastNatural
<1>4. PICK i : i = Min(I)
  OBVIOUS
<1>5. i \in I /\ \A j \in I : i <= j
  BY <1>3, <1>4 DEF Min
<1>6. Lookup(table, X) = table[i].class
  BY <1>1, <1>4 DEF Lookup
<1>7. \A j \in I : ~(j < i)
  BY <1>2, <1>5
<1>8. QED
  BY <1>1, <1>5, <1>6, <1>7 DEF FirstFit

\* The class of an app: esp-idf before Arduino before NuttX.
LEMMA AppRows ==
    ASSUME NEW X, NEW c, c = Lookup(AppTable, X)
    PROVE  /\ "idf" \in X => c \in {"QemuApp", "EspEmuApp", "IdfApp"}
           /\ "idf" \notin X => c \in {"ArduinoApp", "NuttxApp", "App"}
           /\ "idf" \notin X /\ "arduino" \in X => c = "ArduinoApp"
           /\ {"idf", "arduino"} \cap X = {} /\ {"nuttx", "esp"} \subseteq X => c = "NuttxApp"
<1>1. PICK t : t = AppTable
  OBVIOUS
<1>2. /\ DOMAIN t = 1..6
      /\ t[1].services = {"idf", "qemu"} /\ t[1].class = "QemuApp"
      /\ t[2].services = {"idf", "espemu"} /\ t[2].class = "EspEmuApp"
      /\ t[3].services = {"idf"} /\ t[3].class = "IdfApp"
      /\ t[4].services = {"arduino"} /\ t[4].class = "ArduinoApp"
      /\ t[5].services = {"nuttx", "esp"} /\ t[5].class = "NuttxApp"
      /\ t[6].services = {} /\ t[6].class = "App"
  BY <1>1 DEF AppTable, Row
<1>3. DOMAIN t \subseteq Nat /\ 6 \in DOMAIN t /\ t[6].services \subseteq X
  BY <1>2
<1>4. PICK i \in 1..6 : FirstFit(t, i, X) /\ Lookup(t, X) = t[i].class
  BY <1>2, <1>3, LookupFacts
<1>5. c = t[i].class /\ t[i].services \subseteq X /\ \A j \in 1..6 : t[j].services \subseteq X => i <= j
  BY <1>1, <1>2, <1>4 DEF FirstFit
<1>6. CASE "idf" \in X
  <2>1. i <= 3
    BY <1>2, <1>5, <1>6
  <2>2. i = 1 \/ i = 2 \/ i = 3
    BY <2>1
  <2>3. QED
    BY <2>2, <1>2, <1>5, <1>6
<1>7. CASE "idf" \notin X
  <2>1. i # 1 /\ i # 2 /\ i # 3
    BY <1>2, <1>5, <1>7
  <2>2. i = 4 \/ i = 5 \/ i = 6
    BY <2>1
  <2>3. "arduino" \in X => i <= 4
    BY <1>2, <1>5
  <2>4. {"nuttx", "esp"} \subseteq X => i <= 5
    BY <1>2, <1>5
  <2>5. i = 4 => "arduino" \in X
    BY <1>2, <1>5
  <2>6. QED
    BY <2>2, <2>3, <2>4, <2>5, <1>2, <1>5, <1>7
<1>8. QED
  BY <1>6, <1>7

\* The class of a serial port: one of esptool's whenever esp is there.
LEMMA SerialRows ==
    ASSUME NEW X, NEW c, c = Lookup(SerialTable, X)
    PROVE  /\ "esp" \in X /\ "idf" \in X => c = "IdfSerial"
           /\ "esp" \in X /\ "idf" \notin X /\ "arduino" \in X => c = "ArduinoSerial"
           /\ "esp" \in X /\ {"idf", "arduino"} \cap X = {} /\ "nuttx" \in X => c = "NuttxSerial"
           /\ "esp" \in X /\ {"idf", "arduino", "nuttx"} \cap X = {} => c = "EspSerial"
           /\ "esp" \notin X /\ {"serial", "jtag"} \cap X # {} => c = "Serial"
           /\ {"esp", "serial", "jtag"} \cap X = {} => c = "none"
<1>1. PICK t : t = SerialTable
  OBVIOUS
<1>2. /\ DOMAIN t = 1..7
      /\ t[1].services = {"esp", "idf"} /\ t[1].class = "IdfSerial"
      /\ t[2].services = {"esp", "arduino"} /\ t[2].class = "ArduinoSerial"
      /\ t[3].services = {"esp", "nuttx"} /\ t[3].class = "NuttxSerial"
      /\ t[4].services = {"esp"} /\ t[4].class = "EspSerial"
      /\ t[5].services = {"serial"} /\ t[5].class = "Serial"
      /\ t[6].services = {"jtag"} /\ t[6].class = "Serial"
      /\ t[7].services = {} /\ t[7].class = "none"
  BY <1>1 DEF SerialTable, Row
<1>3. DOMAIN t \subseteq Nat /\ 7 \in DOMAIN t /\ t[7].services \subseteq X
  BY <1>2
<1>4. PICK i \in 1..7 : FirstFit(t, i, X) /\ Lookup(t, X) = t[i].class
  BY <1>2, <1>3, LookupFacts
<1>5. c = t[i].class /\ t[i].services \subseteq X /\ \A j \in 1..7 : t[j].services \subseteq X => i <= j
  BY <1>1, <1>2, <1>4 DEF FirstFit
<1>6. CASE "esp" \in X
  <2>1. i <= 4
    BY <1>2, <1>5, <1>6
  <2>2. i = 1 \/ i = 2 \/ i = 3 \/ i = 4
    BY <2>1
  <2>3. /\ "idf" \in X => i <= 1
        /\ "arduino" \in X => i <= 2
        /\ "nuttx" \in X => i <= 3
    BY <1>2, <1>5, <1>6
  <2>4. /\ i = 1 => "idf" \in X
        /\ i = 2 => "arduino" \in X
        /\ i = 3 => "nuttx" \in X
    BY <1>2, <1>5
  <2>5. QED
    BY <2>2, <2>3, <2>4, <1>2, <1>5, <1>6
<1>7. CASE "esp" \notin X
  <2>1. i # 1 /\ i # 2 /\ i # 3 /\ i # 4
    BY <1>2, <1>5, <1>7
  <2>2. i = 5 \/ i = 6 \/ i = 7
    BY <2>1
  <2>3. {"serial", "jtag"} \cap X # {} => i <= 6
    BY <1>2, <1>5
  <2>4. i = 5 \/ i = 6 => {"serial", "jtag"} \cap X # {}
    BY <1>2, <1>5
  <2>5. QED
    BY <2>2, <2>3, <2>4, <1>2, <1>5, <1>7
<1>8. QED
  BY <1>6, <1>7

\* The class of a DUT: an emulator before a board, on a board IdfDut wherever idf is.
LEMMA DutRows ==
    ASSUME NEW X, NEW c, c = Lookup(DutTable, X)
    PROVE  /\ "wokwi" \in X => c \in {"WokwiDut", "SystemExit"}
           /\ "wokwi" \notin X /\ "espemu" \in X => c = "EspEmuDut"
           /\ {"wokwi", "espemu"} \cap X = {} /\ "qemu" \in X => c \in {"NuttxQemuDut", "QemuDut"}
           /\ {"wokwi", "espemu", "qemu"} \cap X = {} =>
                /\ "idf" \in X /\ {"jtag", "esp"} \cap X # {} => c = "IdfDut"
                /\ ~("idf" \in X /\ {"jtag", "esp"} \cap X # {}) /\ {"jtag", "esp", "serial"} \cap X # {} =>
                     c \in {"SerialDut", "NuttxEspDut", "NuttxSerialDut"}
                /\ {"jtag", "esp", "serial"} \cap X = {} => c = "Dut"
<1>1. PICK t : t = DutTable
  OBVIOUS
<1>2. /\ DOMAIN t = 1..14
      /\ t[1].services = {"wokwi", "idf"} /\ t[1].class = "WokwiDut"
      /\ t[2].services = {"wokwi", "arduino"} /\ t[2].class = "WokwiDut"
      /\ t[3].services = {"wokwi"} /\ t[3].class = "SystemExit"
      /\ t[4].services = {"espemu"} /\ t[4].class = "EspEmuDut"
      /\ t[5].services = {"qemu", "nuttx"} /\ t[5].class = "NuttxQemuDut"
      /\ t[6].services = {"qemu"} /\ t[6].class = "QemuDut"
      /\ t[7].services = {"jtag", "idf"} /\ t[7].class = "IdfDut"
      /\ t[8].services = {"jtag"} /\ t[8].class = "SerialDut"
      /\ t[9].services = {"esp", "idf"} /\ t[9].class = "IdfDut"
      /\ t[10].services = {"esp", "nuttx"} /\ t[10].class = "NuttxEspDut"
      /\ t[11].services = {"serial", "nuttx"} /\ t[11].class = "NuttxSerialDut"
      /\ t[12].services = {"serial"} /\ t[12].class = "SerialDut"
      /\ t[13].services = {"esp"} /\ t[13].class = "SerialDut"
      /\ t[14].services = {} /\ t[14].class = "Dut"
  BY <1>1 DEF DutTable, Row
<1>3. DOMAIN t \subseteq Nat /\ 14 \in DOMAIN t /\ t[14].services \subseteq X
  BY <1>2
<1>4. PICK i \in 1..14 : FirstFit(t, i, X) /\ Lookup(t, X) = t[i].class
  BY <1>2, <1>3, LookupFacts
<1>5. c = t[i].class /\ t[i].services \subseteq X /\ \A j \in 1..14 : t[j].services \subseteq X => i <= j
  BY <1>1, <1>2, <1>4 DEF FirstFit
<1>6. CASE "wokwi" \in X
  <2>1. i <= 3
    BY <1>2, <1>5, <1>6
  <2>2. i = 1 \/ i = 2 \/ i = 3
    BY <2>1
  <2>3. QED
    BY <2>2, <1>2, <1>5, <1>6
<1>7. "wokwi" \notin X => i \notin 1..3
  BY <1>2, <1>5
<1>8. CASE "wokwi" \notin X /\ "espemu" \in X
  <2>1. i <= 4
    BY <1>2, <1>5, <1>8
  <2>2. i = 4
    BY <2>1, <1>7, <1>8
  <2>3. QED
    BY <2>2, <1>2, <1>5, <1>8
<1>9. "espemu" \notin X => i # 4
  BY <1>2, <1>5
<1>10. CASE {"wokwi", "espemu"} \cap X = {} /\ "qemu" \in X
  <2>1. i <= 6
    BY <1>2, <1>5, <1>10
  <2>2. i = 5 \/ i = 6
    BY <2>1, <1>7, <1>9, <1>10
  <2>3. QED
    BY <2>2, <1>2, <1>5, <1>10
<1>11. "qemu" \notin X => i # 5 /\ i # 6
  BY <1>2, <1>5
<1>12. CASE {"wokwi", "espemu", "qemu"} \cap X = {}
  <2>1. i \in 7..14
    BY <1>7, <1>9, <1>11, <1>12
  <2>2. \/ i = 7 \/ i = 8 \/ i = 9 \/ i = 10
        \/ i = 11 \/ i = 12 \/ i = 13 \/ i = 14
    BY <2>1
  <2>3. /\ {"jtag", "idf"} \subseteq X => i <= 7
        /\ {"esp", "idf"} \subseteq X => i <= 9
        /\ "serial" \in X => i <= 12
        /\ "esp" \in X => i <= 13
        /\ "jtag" \in X => i <= 8
    BY <1>2, <1>5
  <2>4. /\ i = 7 => {"jtag", "idf"} \subseteq X
        /\ i = 8 => "jtag" \in X
        /\ i = 9 => {"esp", "idf"} \subseteq X
        /\ i = 10 \/ i = 13 => "esp" \in X
        /\ i = 11 \/ i = 12 => "serial" \in X
    BY <1>2, <1>5
  <2>5. /\ i = 7 \/ i = 9 => c = "IdfDut"
        /\ i = 10 => c = "NuttxEspDut"
        /\ i = 11 => c = "NuttxSerialDut"
        /\ i = 8 \/ i = 12 \/ i = 13 => c = "SerialDut"
        /\ i = 14 => c = "Dut"
    BY <1>2, <1>5
  <2>6. CASE "idf" \in X /\ {"jtag", "esp"} \cap X # {}
    <3>1. i = 7 \/ i = 9
      BY <2>2, <2>3, <2>4, <2>6
    <3>2. QED
      BY <3>1, <2>5, <2>6, <1>12
  <2>7. CASE ~("idf" \in X /\ {"jtag", "esp"} \cap X # {}) /\ {"jtag", "esp", "serial"} \cap X # {}
    <3>1. i # 7 /\ i # 9 /\ i # 14
      BY <2>3, <2>4, <2>7
    <3>2. QED
      BY <3>1, <2>2, <2>5, <2>7, <1>12
  <2>8. CASE {"jtag", "esp", "serial"} \cap X = {}
    <3>1. i = 14
      BY <2>2, <2>4, <2>8
    <3>2. QED
      BY <3>1, <2>5, <2>8, <1>12
  <2>9. QED
    BY <2>6, <2>7, <2>8
<1>13. QED
  BY <1>6, <1>8, <1>10, <1>12

\* The superclasses that the checks look for.
LEMMA Families ==
    /\ "IdfApp" \in Family("QemuApp") /\ "IdfApp" \in Family("EspEmuApp") /\ "IdfApp" \in Family("IdfApp")
    /\ \A c \in {"ArduinoApp", "NuttxApp", "App", "LinuxSerial", "Serial", "LinuxDut", "WokwiDut", "SystemExit",
                  "EspEmuDut", "QemuDut", "SerialDut", "Dut"} : Family(c) = {c}
    /\ \A c \in {"IdfSerial", "ArduinoSerial", "NuttxSerial", "EspSerial"} : "EspSerial" \in Family(c)
    /\ Family("IdfDut") = {"IdfDut", "IdfUnityDutMixin", "SerialDut"}
    /\ Family("NuttxEspDut") = {"NuttxEspDut", "NuttxSerialDut", "SerialDut"}
    /\ Family("NuttxSerialDut") = {"NuttxSerialDut", "SerialDut"}
    /\ Family("NuttxQemuDut") = {"NuttxQemuDut", "QemuDut"}
<1>1. "IdfApp" \in Family("QemuApp") /\ "IdfApp" \in Family("EspEmuApp") /\ "IdfApp" \in Family("IdfApp")
  BY DEF Family
<1>2. \A c \in {"ArduinoApp", "NuttxApp", "App", "LinuxSerial", "Serial", "LinuxDut", "WokwiDut", "SystemExit",
                "EspEmuDut", "QemuDut", "SerialDut", "Dut"} : Family(c) = {c}
  BY DEF Family
<1>3. \A c \in {"IdfSerial", "ArduinoSerial", "NuttxSerial", "EspSerial"} : "EspSerial" \in Family(c)
  BY DEF Family
<1>4. /\ Family("IdfDut") = {"IdfDut", "IdfUnityDutMixin", "SerialDut"}
      /\ Family("NuttxEspDut") = {"NuttxEspDut", "NuttxSerialDut", "SerialDut"}
      /\ Family("NuttxSerialDut") = {"NuttxSerialDut", "SerialDut"}
      /\ Family("NuttxQemuDut") = {"NuttxQemuDut", "QemuDut"}
  BY DEF Family
<1>5. QED
  BY <1>1, <1>2, <1>3, <1>4

\* What the constructors of the DUTs ask for.
LEMMA Requirements ==
    /\ Required("WokwiDut") = {"wokwi"} /\ Required("EspEmuDut") = {"espemu"}
    /\ \A c \in {"QemuDut", "NuttxQemuDut"} : Required(c) = {"qemu"}
    /\ \A c \in {"SerialDut", "NuttxSerialDut", "NuttxEspDut", "IdfDut", "LinuxDut"} : Required(c) = {"serial"}
    /\ \A c \in {"SystemExit", "Dut"} : Required(c) = {}
  BY Families DEF Required

\* The services of DUTs that can be built: `linux` is a target of esp-idf, and with jtag
\* and idf there is esp, or an emulator whose class is no subclass of the mixin.
Buildable(X, linux) ==
    IF linux THEN "idf" \in X
    ELSE ~({"idf", "jtag"} \subseteq X /\ {"esp", "qemu", "espemu", "wokwi"} \cap X = {})

\* On linux the DUT and its port are those of the target.
LEMMA LinuxFits ==
    ASSUME NEW X, NEW noGdb \in BOOLEAN
    PROVE  Fit(X, TRUE, noGdb) <=> "idf" \in X
<1>1. DutClass(X, TRUE) = "LinuxDut" /\ SerialClass(X, TRUE) = "LinuxSerial"
  BY DEF DutClass, SerialClass
<1>0. PICK c : c = AppClass(X)
  OBVIOUS
<1>2. /\ "idf" \in X => c \in {"QemuApp", "EspEmuApp", "IdfApp"}
      /\ "idf" \notin X => c \in {"ArduinoApp", "NuttxApp", "App"}
  BY <1>0, AppRows DEF AppClass
<1>3. "serial" \in Fixtures(X, TRUE, noGdb)
  BY <1>1 DEF Fixtures
<1>4. "serial" \in Given(X, TRUE, noGdb)
  BY <1>3 DEF Given
<1>5. Required("LinuxDut") = {"serial"}
  BY Requirements
<1>6. AppFor(X, TRUE) = {"IdfApp"}
  BY <1>1 DEF AppFor
<1>7. "idf" \in X <=> {"IdfApp"} \subseteq Family(c)
  <2>1. CASE "idf" \in X
    BY <2>1, <1>2, Families
  <2>2. CASE "idf" \notin X
    <3>1. Family(c) = {c} /\ c # "IdfApp"
      BY <2>2, <1>2, Families
    <3>2. QED
      BY <2>2, <3>1
  <2>3. QED
    BY <2>1, <2>2
<1>8. Mixins(X) \cap Family("LinuxDut") = {}
  BY Families DEF Mixins
<1>9. Family("LinuxSerial") \cap {"EspSerial", "LinuxSerial"} # {}
  BY Families
<1>10. QED
  BY <1>0, <1>1, <1>4, <1>5, <1>6, <1>7, <1>8, <1>9 DEF Fit, HasOrder, HasReset

\* Any other serial port gets the app it is made for.
LEMMA BoardApps ==
    ASSUME NEW X
    PROVE  AppFor(X, FALSE) \subseteq Family(AppClass(X))
<1>0. PICK c : c = AppClass(X)
  OBVIOUS
<1>1. /\ "idf" \in X => c \in {"QemuApp", "EspEmuApp", "IdfApp"}
      /\ "idf" \notin X /\ "arduino" \in X => c = "ArduinoApp"
      /\ {"idf", "arduino"} \cap X = {} /\ {"nuttx", "esp"} \subseteq X => c = "NuttxApp"
  BY <1>0, AppRows DEF AppClass
<1>b. PICK r : r = SerialClass(X, FALSE)
  OBVIOUS
<1>2. /\ "esp" \in X /\ "idf" \in X => r = "IdfSerial"
      /\ "esp" \in X /\ "idf" \notin X /\ "arduino" \in X => r = "ArduinoSerial"
      /\ "esp" \in X /\ {"idf", "arduino"} \cap X = {} /\ "nuttx" \in X => r = "NuttxSerial"
      /\ "esp" \in X /\ {"idf", "arduino", "nuttx"} \cap X = {} => r = "EspSerial"
      /\ "esp" \notin X /\ {"serial", "jtag"} \cap X # {} => r = "Serial"
      /\ {"esp", "serial", "jtag"} \cap X = {} => r = "none"
  BY <1>b, SerialRows DEF SerialClass
<1>3. CASE r = "IdfSerial"
  <2>1. "idf" \in X
    BY <1>2, <1>3
  <2>2. "IdfApp" \in Family(c)
    BY <2>1, <1>1, Families
  <2>3. AppFor(X, FALSE) = {"IdfApp"}
    BY <1>b, <1>3 DEF AppFor
  <2>4. QED
    BY <2>2, <2>3, <1>0
<1>4. CASE r = "ArduinoSerial"
  <2>1. "idf" \notin X /\ "arduino" \in X
    BY <1>2, <1>4
  <2>2. c = "ArduinoApp"
    BY <2>1, <1>1
  <2>3. AppFor(X, FALSE) = {"ArduinoApp"}
    BY <1>b, <1>4 DEF AppFor
  <2>4. Family("ArduinoApp") = {"ArduinoApp"}
    BY Families
  <2>5. QED
    BY <2>2, <2>3, <2>4, <1>0
<1>5. CASE r = "NuttxSerial"
  <2>1. {"idf", "arduino"} \cap X = {} /\ {"nuttx", "esp"} \subseteq X
    BY <1>2, <1>5
  <2>2. c = "NuttxApp"
    BY <2>1, <1>1
  <2>3. AppFor(X, FALSE) = {"NuttxApp"}
    BY <1>b, <1>5 DEF AppFor
  <2>4. Family("NuttxApp") = {"NuttxApp"}
    BY Families
  <2>5. QED
    BY <2>2, <2>3, <2>4, <1>0
<1>6. CASE r \notin {"IdfSerial", "ArduinoSerial", "NuttxSerial"}
  <2>1. AppFor(X, FALSE) = {}
    BY <1>b, <1>6 DEF AppFor
  <2>2. QED
    BY <2>1
<1>7. QED
  BY <1>3, <1>4, <1>5, <1>6

LEMMA BoardFits ==
    ASSUME NEW X, NEW noGdb \in BOOLEAN
    PROVE  Fit(X, FALSE, noGdb) <=> Buildable(X, FALSE)
<1>1. PICK c : c = DutClass(X, FALSE)
  OBVIOUS
<1>2. /\ "wokwi" \in X => c \in {"WokwiDut", "SystemExit"}
      /\ "wokwi" \notin X /\ "espemu" \in X => c = "EspEmuDut"
      /\ {"wokwi", "espemu"} \cap X = {} /\ "qemu" \in X => c \in {"NuttxQemuDut", "QemuDut"}
      /\ {"wokwi", "espemu", "qemu"} \cap X = {} =>
           /\ "idf" \in X /\ {"jtag", "esp"} \cap X # {} => c = "IdfDut"
           /\ ~("idf" \in X /\ {"jtag", "esp"} \cap X # {}) /\ {"jtag", "esp", "serial"} \cap X # {} =>
                c \in {"SerialDut", "NuttxEspDut", "NuttxSerialDut"}
           /\ {"jtag", "esp", "serial"} \cap X = {} => c = "Dut"
  BY <1>1, DutRows DEF DutClass
<1>b. PICK r : r = SerialClass(X, FALSE)
  OBVIOUS
<1>3. /\ "esp" \in X => r \in {"IdfSerial", "ArduinoSerial", "NuttxSerial", "EspSerial"}
      /\ "esp" \notin X /\ {"serial", "jtag"} \cap X # {} => r = "Serial"
  BY <1>b, SerialRows DEF SerialClass
<1>4. Fit(X, FALSE, noGdb) <=>
        /\ Required(c) \subseteq Given(X, FALSE, noGdb)
        /\ Mixins(X) \cap Family(c) = {}
        /\ c \in {"IdfDut", "LinuxDut"} => Family(r) \cap {"EspSerial", "LinuxSerial"} # {}
  BY <1>1, <1>b, BoardApps DEF Fit, HasOrder, HasReset
<1>5. {"wokwi", "espemu", "qemu"} \cap X \subseteq Fixtures(X, FALSE, noGdb)
  BY DEF Fixtures
<1>6. {"esp", "serial", "jtag"} \cap X # {} => "serial" \in Fixtures(X, FALSE, noGdb)
  <2>1. {"esp", "serial", "jtag"} \cap X # {} => r # "none"
    BY <1>3
  <2>2. QED
    BY <2>1, <1>b DEF Fixtures
<1>7. CASE "wokwi" \in X
  <2>1. "wokwi" \in Given(X, FALSE, noGdb)
    BY <1>5, <1>7 DEF Given
  <2>2. Required(c) \subseteq {"wokwi"} /\ Family(c) = {c} /\ c \in {"WokwiDut", "SystemExit"}
    BY <1>2, <1>7, Families, Requirements
  <2>3. Mixins(X) \cap Family(c) = {}
    BY <2>2 DEF Mixins
  <2>4. QED
    BY <2>1, <2>2, <2>3, <1>4, <1>7 DEF Buildable
<1>8. CASE "wokwi" \notin X /\ "espemu" \in X
  <2>1. "espemu" \in Given(X, FALSE, noGdb)
    BY <1>5, <1>8 DEF Given
  <2>2. Required(c) = {"espemu"} /\ Family(c) = {c} /\ c = "EspEmuDut"
    BY <1>2, <1>8, Families, Requirements
  <2>3. Mixins(X) \cap Family(c) = {}
    BY <2>2 DEF Mixins
  <2>4. QED
    BY <2>1, <2>2, <2>3, <1>4, <1>8 DEF Buildable
<1>9. CASE {"wokwi", "espemu"} \cap X = {} /\ "qemu" \in X
  <2>1. "qemu" \in Given(X, FALSE, noGdb)
    BY <1>5, <1>9 DEF Given
  <2>2. Required(c) = {"qemu"} /\ Family(c) \subseteq {"QemuDut", "NuttxQemuDut"} /\ c \in {"NuttxQemuDut", "QemuDut"}
    BY <1>2, <1>9, Families, Requirements
  <2>3. Mixins(X) \cap Family(c) = {}
    BY <2>2 DEF Mixins
  <2>4. QED
    BY <2>1, <2>2, <2>3, <1>4, <1>9 DEF Buildable
<1>10. CASE {"wokwi", "espemu", "qemu"} \cap X = {}
  <2>1. {"jtag", "esp", "serial"} \cap X # {} => "serial" \in Given(X, FALSE, noGdb)
    BY <1>6, <1>10 DEF Given
  <2>2. CASE {"jtag", "esp", "serial"} \cap X = {}
    <3>1. Required(c) = {} /\ Family(c) = {c} /\ c = "Dut"
      BY <2>2, <1>2, <1>10, Families, Requirements
    <3>2. Mixins(X) \cap Family(c) = {}
      BY <3>1 DEF Mixins
    <3>3. QED
      BY <3>1, <3>2, <2>2, <1>4 DEF Buildable
  <2>3. CASE "idf" \in X /\ {"jtag", "esp"} \cap X # {}
    <3>1. c = "IdfDut"
      BY <2>3, <1>2, <1>10
    <3>2. Required(c) = {"serial"} /\ Family(c) = {"IdfDut", "IdfUnityDutMixin", "SerialDut"}
      BY <3>1, Families, Requirements
    <3>3. CASE "esp" \in X
      <4>1. Mixins(X) = {}
        BY <3>3 DEF Mixins
      <4>2. Family(r) \cap {"EspSerial", "LinuxSerial"} # {}
        BY <3>3, <1>3, Families
      <4>3. QED
        BY <3>2, <3>3, <4>1, <4>2, <2>1, <2>3, <1>4 DEF Buildable
    <3>4. CASE "esp" \notin X
      <4>1. "IdfUnityDutMixin" \in Mixins(X)
        BY <2>3, <3>4 DEF Mixins
      <4>2. ~Fit(X, FALSE, noGdb)
        BY <3>2, <4>1, <1>4
      <4>3. QED
        BY <4>2, <3>4, <2>3, <1>10 DEF Buildable
    <3>5. QED
      BY <3>3, <3>4
  <2>4. CASE ~("idf" \in X /\ {"jtag", "esp"} \cap X # {}) /\ {"jtag", "esp", "serial"} \cap X # {}
    <3>1. c \in {"SerialDut", "NuttxEspDut", "NuttxSerialDut"}
      BY <2>4, <1>2, <1>10
    <3>2. Required(c) = {"serial"} /\ "IdfUnityDutMixin" \notin Family(c)
      BY <3>1, Families, Requirements
    <3>3. Mixins(X) \cap Family(c) = {}
      BY <3>2 DEF Mixins
    <3>4. QED
      BY <3>1, <3>2, <3>3, <2>1, <2>4, <1>4 DEF Buildable
  <2>5. QED
    BY <2>2, <2>3, <2>4
<1>11. QED
  BY <1>7, <1>8, <1>9, <1>10

\* For all services there are, and no others, the classes fit: the tables of
\* _fixture_classes_and_options_fn leave out nothing but jtag with idf and without esp.
THEOREM ServicesThatFit ==
    ASSUME NEW X \in SUBSET Service, NEW linux \in BOOLEAN, NEW noGdb \in BOOLEAN
    PROVE  Fit(X, linux, noGdb) <=> Buildable(X, linux)
<1>1. CASE linux = TRUE
  BY <1>1, LinuxFits DEF Buildable
<1>2. CASE linux = FALSE
  BY <1>2, BoardFits
<1>3. QED
  BY <1>1, <1>2

\* All calls of a session are for DUTs that can be built.
AllBuildable(s) ==
    \A t \in DOMAIN s : \A i \in DOMAIN s[t] :
      Buildable(Seen(s[t][i].services, s[t][i].form), s[t][i].linux)

\* No DUT fails because its classes do not fit one another, in any session whose calls
\* are for services that can be built.
THEOREM ClassesAlwaysFit ==
    ASSUME \A s \in Plans : AllBuildable(s)
    PROVE  Spec => []ClassesFit
<1>1. ASSUME Init  PROVE ClassesFit
  BY <1>1 DEF Init, ClassesFit
<1>2. ASSUME SetupInv, ClassesFit, [Next]_vars  PROVE ClassesFit'
  <2>1. ASSUME NEW o \in todo, DutFails(o)  PROVE ClassesFit'
    <3>1. /\ o[2][1] \in DOMAIN plan /\ o[2][2] \in DOMAIN plan[o[2][1]] /\ Call(o) \in CallRecord
          /\ AllBuildable(plan)
      BY <1>2, CallUnderWay DEF SetupInv, SetupTypes
    <3>2. Buildable(S(o), Call(o).linux)
      BY <3>1 DEF AllBuildable, S, Call
    <3>3. S(o) \in SUBSET Service /\ Call(o).linux \in BOOLEAN /\ Call(o).noGdb \in BOOLEAN
      BY <3>1 DEF CallRecord, S, Seen, Service
    <3>4. Fit(S(o), Call(o).linux, Call(o).noGdb)
      BY <3>2, <3>3, ServicesThatFit
    <3>5. why' = "environment"
      BY <2>1, <3>4 DEF DutFails, Fails
    <3>6. QED
      BY <3>5 DEF ClassesFit
  <2>2. ASSUME NEW o \in todo, MakeNext(o), ~DutFails(o)  PROVE ClassesFit'
    BY <1>2, <2>2
    DEF MakeNext, ClassesFit, Make, MakeFails, WokwiExits, ClassesOrApp, Flash, MakeSerial, NoSerial,
        StartFails, NuttxBinaryFails, MakeDut, Fails, Exits
  <2>3. CASE ~\E o \in todo : MakeNext(o)
    BY <1>2, <2>3
    DEF Next, ClassesFit, vars, BeginFixtures, BeginCall, Unwind, EndTest, Teardown, NextTest, Over
  <2>4. QED
    BY <2>1, <2>2, <2>3
<1>3. QED
  BY <1>1, <1>2, SetupInvariant, PTL DEF Spec

=============================================================================
