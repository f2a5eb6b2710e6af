------------------------ MODULE SessionReportProofs ------------------------
(***************************************************************************)
(* Proofs about SessionReport, for any number of items, jobs, DUTs and     *)
(* cases.  Parallel jobs deal out the items so that each is run once: the  *)
(* division of ParallelJobs makes the arithmetic nonlinear, so the two     *)
(* facts about products it needs are lemmas of their own.  The counters of *)
(* the merged report match its rows, and the report leaves no case out.    *)
(***************************************************************************)
EXTENDS SessionReport, FiniteSetTheorems, NumberLemmas, TLAPS

\* A division rounds down.
LEMMA DivisionBounds ==
    ASSUME NEW a \in Nat, NEW b \in Nat \ {0}
    PROVE  /\ a \div b \in Nat
           /\ b * (a \div b) <= a
           /\ a < b * (a \div b) + b
  BY SMT

\* A positive factor cancels.
LEMMA ProductOrder ==
    ASSUME NEW b \in Nat \ {0}, NEW x \in Int, NEW y \in Int, b * x < b * y
    PROVE  x < y
  BY SMT

\* No job is given more than PerJob items, and count jobs are enough for all.
LEMMA PerJobIsEnough ==
    ASSUME NEW n \in Nat \ {0}, NEW count \in Nat \ {0}
    PROVE  PerJob(n, count) \in Nat \ {0} /\ n <= PerJob(n, count) * count
<1> DEFINE P == PerJob(n, count)
<1>1. P \in Nat /\ count * P <= n + count - 1 /\ n + count - 1 < count * P + count
  BY DivisionBounds DEF PerJob
<1>2. n <= count * P
  BY <1>1
<1>3. P # 0
  BY <1>2
<1>4. count * P = P * count
  BY <1>1
<1>5. QED
  BY <1>1, <1>2, <1>3, <1>4

\* The items of a job, without the case distinction of LastItem.
LEMMA JobItemsBounds ==
    ASSUME NEW n \in Nat \ {0}, NEW count \in Nat \ {0}, NEW i \in 1..n, NEW j \in 1..count
    PROVE  i \in JobItems(n, count, j) <=>
             PerJob(n, count) * (j - 1) < i /\ i <= PerJob(n, count) * j
<1> DEFINE P == PerJob(n, count)
<1>1. P \in Nat /\ j \in Nat /\ P * (j - 1) \in Int /\ P * j \in Int
  BY PerJobIsEnough
<1> HIDE DEF P
<1>2. QED
  BY <1>1 DEF JobItems, FirstItem, LastItem, P

\* Every item is in the slice of one job and of one only.
THEOREM EveryItemHasOneJob ==
    ASSUME NEW n \in Nat, NEW count \in Nat \ {0}, NEW i \in 1..n
    PROVE  \E j \in 1..count : /\ i \in JobItems(n, count, j)
                              /\ \A k \in 1..count : i \in JobItems(n, count, k) => k = j
<1> DEFINE P == PerJob(n, count)
           q == (i - 1) \div P
<1>1. n \in Nat \ {0} /\ i - 1 \in Nat
  OBVIOUS
<1>2. P \in Nat \ {0} /\ n <= P * count
  BY <1>1, PerJobIsEnough
<1> HIDE DEF P
<1>3. q \in Nat /\ P * q <= i - 1 /\ i - 1 < P * q + P
  BY <1>1, <1>2, DivisionBounds
<1> HIDE DEF q
<1>4. P * (q + 1) = P * q + P
  BY <1>2, <1>3
<1>5. q < count
  <2>1. P * q < P * count
    BY <1>2, <1>3
  <2>2. QED
    BY <2>1, <1>2, <1>3, ProductOrder
<1>6. q + 1 \in 1..count /\ i \in JobItems(n, count, q + 1)
  <2>1. P * ((q + 1) - 1) < i /\ i <= P * (q + 1)
    BY <1>2, <1>3, <1>4
  <2>2. QED
    BY <2>1, <1>1, <1>3, <1>5, JobItemsBounds DEF P
<1>7. ASSUME NEW k \in 1..count, i \in JobItems(n, count, k)
      PROVE  k = q + 1
  <2>1. P * (k - 1) < i /\ i <= P * k
    BY <1>1, <1>7, JobItemsBounds DEF P
  <2>2. P * (k - 1) < P * (q + 1)
    BY <2>1, <1>2, <1>3, <1>4
  <2>3. P * q < P * k
    BY <2>1, <1>2, <1>3
  <2>4. k - 1 < q + 1
    BY <2>2, <1>2, <1>3, ProductOrder
  <2>5. q < k
    BY <2>3, <1>2, <1>3, ProductOrder
  <2>6. QED
    BY <2>4, <2>5, <1>3
<1>8. QED
  BY <1>6, <1>7

\* The options of a session do not change.
LEMMA SessionIsFixed == Spec => [](session \in Sessions)
<1>1. Init => session \in Sessions
  BY DEF Init
<1>2. session \in Sessions /\ [Next]_vars => (session \in Sessions)'
  BY DEF Next, vars, Collect, CollectFails, Start, Records, FindsNoCase, BodyEnds, Teardown,
         SessionFinish, Merge, MergeFails, MergeEnds, Done
<1>3. QED
  BY <1>1, <1>2, PTL DEF Spec

\* JobsPartitionItems: the parallel jobs of any session run every collected item once
\* (pytest_collection_modifyitems).
THEOREM JobsPartition == Spec => []JobsPartitionItems
<1>1. ASSUME NEW n \in Nat, NEW count \in Nat \ {0}, NEW i \in 1..n
      PROVE  Cardinality({j \in 1..count : i \in JobItems(n, count, j)}) = 1
  <2>1. PICK j \in 1..count : /\ i \in JobItems(n, count, j)
                             /\ \A k \in 1..count : i \in JobItems(n, count, k) => k = j
    BY EveryItemHasOneJob
  <2>2. {k \in 1..count : i \in JobItems(n, count, k)} = {j}
    BY <2>1
  <2>3. QED
    BY <2>2, FS_Singleton
<1>2. session \in Sessions => JobsPartitionItems
  <2> SUFFICES ASSUME session \in Sessions, NEW i \in 1..Len(session.items)
               PROVE  Cardinality({j \in 1..session.count :
                                     i \in JobItems(Len(session.items), session.count, j)}) = 1
    BY DEF JobsPartitionItems, Items
  <2>1. Len(session.items) \in Nat
    BY SessionAssumption
  <2>2. session.count \in Nat \ {0}
    BY SessionAssumption
  <2>3. QED
    BY <2>1, <2>2, <1>1, Zenon
<1>3. QED
  BY <1>2, SessionIsFixed, PTL

-----------------------------------------------------------------------------
(* The invariant. *)

Attributes == [failures : Int, skipped : Int, tests : Int]

Having(S, r) == {c \in S : c.result = r}

\* They are in no `tests` counter.
UntoldIn(S) == {c \in S : c.how = "run" /\ c.result # "PASS"}

\* The attributes of a suite with the cases S.
CountsOf(S) ==
    [failures |-> Cardinality(Having(S, "FAIL")),
     skipped |-> Cardinality(Having(S, "IGNORE")),
     tests |-> Cardinality(S) - Cardinality(UntoldIn(S))]

NameOf(i) == session.items[i].name

Running == phase \in {"body", "teardown"}

CaseType ==
    [item : Items, dut : Dut, nr : Nat, how : {"parsed", "run"}, result : Result]

RowType ==
    [unity : {"no", "0", "yes"}, item : Items, nr : Nat,
     result : Result \cup {"pass", "fail", "skip"}]

SessionTypes ==
    /\ session \in Sessions
    /\ phase \in {"collect", "next", "body", "teardown", "merge", "done"}
    /\ phase = "collect" => rows = {} /\ recorded = {} /\ dumps = {} /\ todo = <<>>
    /\ todo \in Seq(Items)
    /\ Running => item \in Items
    /\ verdict \in {"pass", "fail", "skip"}
    /\ rows \in SUBSET RowType /\ IsFiniteSet(rows)
    /\ recorded \in SUBSET CaseType /\ IsFiniteSet(recorded)
    /\ stats \in Attributes

\* A case has a number of its own.
CaseInv ==
    /\ \A c \in recorded : /\ c.nr <= Cardinality(recorded)
                           /\ \A k \in 1..Len(todo) : todo[k] # c.item
    /\ \A c, e \in recorded : c.nr = e.nr => c = e

\* A suite of DUT d counts the cases it has.
IsSuite(s, d) ==
    /\ s.cases \in SUBSET recorded
    /\ \A c \in s.cases : c.dut = d
    /\ s.stats = CountsOf(s.cases)

SuiteInv ==
    /\ suites = [d \in Dut |-> [cases |-> suites[d].cases, stats |-> suites[d].stats]]
    /\ \A d \in Dut : IsSuite(suites[d], d) /\ \A c \in suites[d].cases : c.item = item

\* An xml file is of one test's DUT.
DumpInv ==
    /\ \A x \in dumps : /\ x.dut \in Dut /\ x.suite.cases # {} /\ IsSuite(x.suite, x.dut)
                        /\ \A c \in x.suite.cases : NameOf(c.item) = x.dir
    /\ \A x, y \in dumps : x.dir = y.dir /\ x.dut = y.dut => x = y

\* An item is run once and has one row when it was run.
ItemInv ==
    /\ \A k, l \in 1..Len(todo) : todo[k] = todo[l] => k = l
    /\ \A r \in rows, k \in 1..Len(todo) : todo[k] # r.item
    /\ Running => /\ \A r \in rows : r.item # item
                  /\ \A k \in 1..Len(todo) : todo[k] # item

\* Rows change only when their directory is merged.
RowInv ==
    /\ \A r \in rows :
         /\ r.unity = "no" => r.result \in {"pass", "fail", "skip"}
         /\ r.unity # "no" => phase \in {"merge", "done"} /\ NameOf(r.item) \notin Dirs
         /\ r.unity = "yes" => \E c \in recorded : c.nr = r.nr /\ c.item = r.item /\ c.result = r.result

ReportInv ==
    SessionTypes /\ CaseInv /\ SuiteInv /\ DumpInv /\ ItemInv /\ RowInv /\ CountersMatchRows

\* Where a recorded case is, when tests have names of their own.
Kept(c) ==
    \/ Running /\ c \in suites[c.dut].cases
    \/ \E x \in dumps : c \in x.suite.cases
    \/ \E r \in rows : r.unity = "yes" /\ r.nr = c.nr

KeptInv ==
    DistinctNames => /\ \A c \in recorded : Kept(c)
                     /\ \A x \in dumps : \A c \in x.suite.cases : Running => c.item # item

FailedInv ==
    failed \in BOOLEAN /\ ((\E r \in rows : r.unity = "yes" /\ r.result = "FAIL") => failed)

EndInv ==
    /\ phase \in {"next", "merge", "body", "teardown"} => exit # "error"
    /\ phase = "merge" \/ (phase = "done" /\ exit # "error") => todo = <<>>
    /\ phase = "done" /\ session.junit /\ exit # "error" => dumps = {} /\ (failed => exit # "ok")

\* The row of an item, or what stands for it.
HasRow(i) ==
    \/ \E r \in rows : r.unity # "yes" /\ r.item = i
    \/ session.mode = "replace" /\ \E c \in recorded : c.item = i

CoverInv ==
    DistinctNames /\ phase # "collect" /\ exit # "error" =>
      \A i \in MyItems : \/ \E k \in 1..Len(todo) : todo[k] = i
                         \/ Running /\ item = i
                         \/ HasRow(i)

WholeInv == ReportInv /\ KeptInv /\ FailedInv /\ EndInv /\ CoverInv

-----------------------------------------------------------------------------
(* Counting. *)

LEMMA PlusFacts ==
    ASSUME NEW s \in Attributes, NEW t \in Attributes
    PROVE  Plus(s, t) = [failures |-> s.failures + t.failures, skipped |-> s.skipped + t.skipped,
                         tests |-> s.tests + t.tests]
<1>1. DOMAIN s = {"failures", "skipped", "tests"}
  BY DEF Attributes
<1>2. Plus(s, t) = [a \in {"failures", "skipped", "tests"} |-> s[a] + t[a]]
  BY <1>1 DEF Plus
<1>3. QED
  BY <1>2

LEMMA PlusTypes ==
    ASSUME NEW s \in Attributes, NEW t \in Attributes
    PROVE  Plus(s, t) \in Attributes
  BY PlusFacts DEF Attributes

LEMMA PartsAreFinite ==
    ASSUME NEW S, IsFiniteSet(S)
    PROVE  /\ \A r : IsFiniteSet(Having(S, r)) /\ Cardinality(Having(S, r)) \in Nat
           /\ IsFiniteSet(UntoldIn(S)) /\ Cardinality(UntoldIn(S)) \in Nat
           /\ Cardinality(S) \in Nat
<1>1. (\A r : Having(S, r) \in SUBSET S) /\ UntoldIn(S) \in SUBSET S
  BY DEF Having, UntoldIn
<1>2. QED
  BY <1>1, FS_Subset, FS_CardinalityType

LEMMA CountsTypes ==
    ASSUME NEW S, IsFiniteSet(S)
    PROVE  CountsOf(S) \in Attributes
  BY PartsAreFinite DEF CountsOf, Attributes

LEMMA DisjointUnion ==
    ASSUME NEW S, IsFiniteSet(S), NEW T, IsFiniteSet(T), S \cap T = {}
    PROVE  Cardinality(S \cup T) = Cardinality(S) + Cardinality(T)
<1>1. Cardinality(S \cup T) = Cardinality(S) + Cardinality(T) - Cardinality({})
  BY FS_Union
<1>2. Cardinality({}) = 0 /\ Cardinality(S) \in Nat /\ Cardinality(T) \in Nat
  BY FS_EmptySet, FS_CardinalityType
<1>3. QED
  BY <1>1, <1>2

\* The attributes of suites that share no case add up.
LEMMA CountsAdd ==
    ASSUME NEW S, IsFiniteSet(S), NEW T, IsFiniteSet(T), S \cap T = {}
    PROVE  Plus(CountsOf(S), CountsOf(T)) = CountsOf(S \cup T)
<1>1. CountsOf(S) \in Attributes /\ CountsOf(T) \in Attributes
  BY CountsTypes
<1>2. \A r : /\ Having(S \cup T, r) = Having(S, r) \cup Having(T, r)
             /\ Having(S, r) \cap Having(T, r) = {}
  BY DEF Having
<1>3. UntoldIn(S \cup T) = UntoldIn(S) \cup UntoldIn(T) /\ UntoldIn(S) \cap UntoldIn(T) = {}
  BY DEF UntoldIn
<1>4. \A r : Cardinality(Having(S \cup T, r)) = Cardinality(Having(S, r)) + Cardinality(Having(T, r))
  BY <1>2, PartsAreFinite, DisjointUnion
<1>5. Cardinality(UntoldIn(S \cup T)) = Cardinality(UntoldIn(S)) + Cardinality(UntoldIn(T))
  BY <1>3, PartsAreFinite, DisjointUnion
<1>6. Cardinality(S \cup T) = Cardinality(S) + Cardinality(T)
  BY DisjointUnion
<1>7. Plus(CountsOf(S), CountsOf(T)) =
        [failures |-> CountsOf(S).failures + CountsOf(T).failures,
         skipped |-> CountsOf(S).skipped + CountsOf(T).skipped,
         tests |-> CountsOf(S).tests + CountsOf(T).tests]
  BY <1>1, PlusFacts
<1>8. /\ Cardinality(S) \in Nat /\ Cardinality(T) \in Nat
      /\ Cardinality(UntoldIn(S)) \in Nat /\ Cardinality(UntoldIn(T)) \in Nat
  BY PartsAreFinite
<1>9. CountsOf(S).tests + CountsOf(T).tests = CountsOf(S \cup T).tests
  BY <1>5, <1>6, <1>8 DEF CountsOf
<1>10. QED
  BY <1>4, <1>7, <1>9 DEF CountsOf

LEMMA NoCounts ==
    /\ CountsOf({}) = Zero /\ Zero \in Attributes
<1>1. Having({}, "FAIL") = {} /\ Having({}, "IGNORE") = {} /\ UntoldIn({}) = {}
  BY DEF Having, UntoldIn
<1>2. QED
  BY <1>1, FS_EmptySet DEF CountsOf, Zero, Attributes

LEMMA OneFacts ==
    /\ One("failures") = [failures |-> 1, skipped |-> 0, tests |-> 0]
    /\ One("skipped") = [failures |-> 0, skipped |-> 1, tests |-> 0]
    /\ One("tests") = [failures |-> 0, skipped |-> 0, tests |-> 1]
<1>1. \A a : One(a) = [x \in {"failures", "skipped", "tests"} |-> IF x = a THEN 1 ELSE 0]
  <2>1. Zero = [x \in {"failures", "skipped", "tests"} |-> 0]
    BY DEF Zero
  <2>2. QED
    BY <2>1 DEF One
<1>2. QED
  BY <1>1

\* What a DUT counts for a case is what the case is.
LEMMA CountFacts ==
    ASSUME NEW c, c.how \in {"parsed", "run"}, c.result \in Result
    PROVE  Count(c.how, c.result) = CountsOf({c})
<1>1. Cardinality({c}) = 1 /\ Cardinality({}) = 0
  BY FS_Singleton, FS_EmptySet
<1>2. /\ Having({c}, "FAIL") = IF c.result = "FAIL" THEN {c} ELSE {}
      /\ Having({c}, "IGNORE") = IF c.result = "IGNORE" THEN {c} ELSE {}
      /\ UntoldIn({c}) = IF c.how = "run" /\ c.result # "PASS" THEN {c} ELSE {}
  BY DEF Having, UntoldIn
<1>3. CountsOf({c}) = [failures |-> IF c.result = "FAIL" THEN 1 ELSE 0,
                       skipped |-> IF c.result = "IGNORE" THEN 1 ELSE 0,
                       tests |-> IF c.how = "run" /\ c.result # "PASS" THEN 0 ELSE 1]
  BY <1>1, <1>2 DEF CountsOf
<1>4. /\ One("failures") \in Attributes /\ One("skipped") \in Attributes
      /\ One("tests") \in Attributes /\ Zero \in Attributes
  BY OneFacts DEF Attributes, Zero
<1>5. CASE c.result = "PASS"
  BY <1>3, <1>5, OneFacts DEF Count
<1>6. CASE c.result = "FAIL"
  <2>1. Count(c.how, c.result) = Plus(One("failures"), IF c.how = "parsed" THEN One("tests") ELSE Zero)
    BY <1>6 DEF Count
  <2>2. QED
    BY <2>1, <1>3, <1>4, <1>6, OneFacts, PlusFacts DEF Zero
<1>7. CASE c.result = "IGNORE"
  <2>1. Count(c.how, c.result) = Plus(One("skipped"), IF c.how = "parsed" THEN One("tests") ELSE Zero)
    BY <1>7 DEF Count
  <2>2. QED
    BY <2>1, <1>3, <1>4, <1>7, OneFacts, PlusFacts DEF Zero
<1>8. QED
  BY <1>5, <1>6, <1>7 DEF Result

-----------------------------------------------------------------------------
(* The suites of a directory. *)

FilesOf(dir, d) == {x \in dumps : x.dir = dir /\ x.dut = d}

CasesOf(dir, d) == UNION {x.suite.cases : x \in FilesOf(dir, d)}

\* The cases of the first d DUTs.
CasesUpto(dir, d) == UNION {x.suite.cases : x \in {y \in dumps : y.dir = dir /\ y.dut <= d}}

SuiteStats(dir, d) ==
    IF \E x \in dumps : x.dir = dir /\ x.dut = d
    THEN (CHOOSE x \in dumps : x.dir = dir /\ x.dut = d).suite.stats
    ELSE Zero

LEMMA SuitesAreFinite ==
    ASSUME IsFiniteSet(recorded), NEW s, NEW d, IsSuite(s, d)
    PROVE  IsFiniteSet(s.cases)
  BY FS_Subset DEF IsSuite

LEMMA SuiteStatsFacts ==
    ASSUME IsFiniteSet(recorded), DumpInv, NEW dir, NEW d \in Dut
    PROVE  /\ IsFiniteSet(CasesOf(dir, d)) /\ SuiteStats(dir, d) = CountsOf(CasesOf(dir, d))
           /\ \A c \in CasesOf(dir, d) : c.dut = d
<1>1. CASE ~ \E x \in dumps : x.dir = dir /\ x.dut = d
  <2>1. CasesOf(dir, d) = {}
    BY <1>1 DEF CasesOf, FilesOf
  <2>2. QED
    BY <2>1, <1>1, NoCounts, FS_EmptySet DEF SuiteStats
<1>2. CASE \E x \in dumps : x.dir = dir /\ x.dut = d
  <2>1. PICK x : x = CHOOSE y \in dumps : y.dir = dir /\ y.dut = d
    OBVIOUS
  <2>2. x \in dumps /\ x.dir = dir /\ x.dut = d
    BY <2>1, <1>2
  <2>3. FilesOf(dir, d) = {x}
    BY <2>2 DEF FilesOf, DumpInv
  <2>4. CasesOf(dir, d) = x.suite.cases
    BY <2>3 DEF CasesOf
  <2>5. IsSuite(x.suite, d)
    BY <2>2 DEF DumpInv
  <2>6. SuiteStats(dir, d) = x.suite.stats
    BY <2>1, <1>2 DEF SuiteStats
  <2>7. QED
    BY <2>4, <2>5, <2>6, SuitesAreFinite DEF IsSuite
<1>3. QED
  BY <1>1, <1>2

LEMMA UptoFacts ==
    ASSUME IsFiniteSet(recorded), DumpInv, NEW dir
    PROVE  /\ CasesUpto(dir, 0) = {}
           /\ \A d \in Dut : /\ CasesUpto(dir, d) = CasesUpto(dir, d - 1) \cup CasesOf(dir, d)
                             /\ CasesUpto(dir, d - 1) \cap CasesOf(dir, d) = {}
           /\ CasesUpto(dir, NDut) = MergedCases(dir)
           /\ \A d : CasesUpto(dir, d) \subseteq recorded /\ IsFiniteSet(CasesUpto(dir, d))
<1>1. \A x \in dumps : x.dut \in Dut /\ x.dut \in Nat /\ IsSuite(x.suite, x.dut)
  BY SessionAssumption DEF DumpInv, Dut
<1>2. CasesUpto(dir, 0) = {}
  BY <1>1 DEF CasesUpto, Dut
<1>3. ASSUME NEW d \in Dut
      PROVE  /\ CasesUpto(dir, d) = CasesUpto(dir, d - 1) \cup CasesOf(dir, d)
             /\ CasesUpto(dir, d - 1) \cap CasesOf(dir, d) = {}
  <2>1. d \in Nat
    BY SessionAssumption DEF Dut
  <2>2. \A x \in dumps : x.dut <= d <=> x.dut <= d - 1 \/ x.dut = d
    BY <1>1, <2>1
  <2>3. \A c \in CasesUpto(dir, d - 1) : c.dut <= d - 1
    BY <1>1 DEF CasesUpto, IsSuite
  <2>4. \A c \in CasesOf(dir, d) : c.dut = d
    BY SuiteStatsFacts
  <2>5. QED
    BY <2>1, <2>2, <2>3, <2>4 DEF CasesUpto, CasesOf, FilesOf
<1>4. CasesUpto(dir, NDut) = MergedCases(dir)
  BY <1>1, SessionAssumption DEF CasesUpto, MergedCases, Dut
<1>5. \A d : CasesUpto(dir, d) \subseteq recorded
  BY <1>1 DEF CasesUpto, IsSuite
<1>6. \A d : IsFiniteSet(CasesUpto(dir, d))
  BY <1>5, FS_Subset
<1>7. QED
  BY <1>2, <1>3, <1>4, <1>5, <1>6

\* The attributes of the merged suite are those of its cases.
LEMMA MergedStatsFacts ==
    ASSUME IsFiniteSet(recorded), DumpInv, NEW dir
    PROVE  MergedStats(dir) = CountsOf(MergedCases(dir))
<1> DEFINE Eq(f) == f = [d \in 0..NDut |-> IF d = 0 THEN Zero ELSE Plus(f[d - 1], SuiteStats(dir, d))]
           g == [d \in 0..NDut |-> CountsOf(CasesUpto(dir, d))]
<1>1. MergedStats(dir) = (CHOOSE f : Eq(f))[NDut]
  BY DEF MergedStats, SuiteStats
<1>2. NDut \in Nat
  BY SessionAssumption
<1>3. ASSUME NEW d \in 0..NDut
      PROVE  CountsOf(CasesUpto(dir, d)) = IF d = 0 THEN Zero ELSE Plus(g[d - 1], SuiteStats(dir, d))
  <2>1. CASE d = 0
    BY <2>1, UptoFacts, NoCounts
  <2>2. CASE d # 0
    <3>1. d \in Dut /\ d - 1 \in 0..NDut
      BY <2>2, <1>2 DEF Dut
    <3>2. Plus(CountsOf(CasesUpto(dir, d - 1)), SuiteStats(dir, d)) = CountsOf(CasesUpto(dir, d))
      <4>1. /\ CasesUpto(dir, d) = CasesUpto(dir, d - 1) \cup CasesOf(dir, d)
            /\ CasesUpto(dir, d - 1) \cap CasesOf(dir, d) = {}
            /\ IsFiniteSet(CasesUpto(dir, d - 1))
        BY <3>1, UptoFacts
      <4>2. IsFiniteSet(CasesOf(dir, d)) /\ SuiteStats(dir, d) = CountsOf(CasesOf(dir, d))
        BY <3>1, SuiteStatsFacts
      <4>3. QED
        BY <4>1, <4>2, CountsAdd
    <3>3. g[d - 1] = CountsOf(CasesUpto(dir, d - 1))
      BY <3>1
    <3>4. QED
      BY <3>2, <3>3, <2>2
  <2>3. QED
    BY <2>1, <2>2
<1>4. Eq(g)
  BY <1>3
<1>5. PICK f : f = CHOOSE h : Eq(h)
  OBVIOUS
<1>6. Eq(f)
  BY <1>4, <1>5
<1>7. ASSUME NEW d \in 0..NDut
      PROVE  f[d] = g[d]
  <2> DEFINE Bad == {e \in 0..NDut : f[e] # g[e]}
  <2>1. SUFFICES ASSUME Bad # {} PROVE FALSE
    OBVIOUS
  <2>2. Bad \in SUBSET Nat
    OBVIOUS
  <2>3. PICK e \in Bad : \A h \in Bad : e <= h
    <3> HIDE DEF Bad
    <3> QED BY <2>1, <2>2, LeastNatural
  <2>4. e \in 0..NDut /\ f[e] # g[e]
    BY <2>3
  <2>5. f[e] = IF e = 0 THEN Zero ELSE Plus(f[e - 1], SuiteStats(dir, e))
    BY <1>6, <2>4
  <2>6. g[e] = IF e = 0 THEN Zero ELSE Plus(g[e - 1], SuiteStats(dir, e))
    BY <1>3, <2>4
  <2>7. e # 0 => e - 1 \in 0..NDut /\ ~(e <= e - 1)
    BY <2>4, <1>2
  <2>8. e # 0 => f[e - 1] = g[e - 1]
    BY <2>3, <2>7
  <2>9. QED
    BY <2>4, <2>5, <2>6, <2>8
<1>8. NDut \in 0..NDut
  BY <1>2
<1>9. g[NDut] = CountsOf(MergedCases(dir))
  BY <1>8, UptoFacts
<1>10. QED
  BY <1>1, <1>5, <1>7, <1>8, <1>9

-----------------------------------------------------------------------------
(* The steps. *)

LEMMA ReportInvInit == Init => ReportInv
<1> SUFFICES ASSUME Init PROVE ReportInv
  OBVIOUS
<1> USE DEF Init
<1>1. SessionTypes
  BY NoCounts, FS_EmptySet DEF SessionTypes, Running
<1>2. CaseInv /\ ItemInv /\ RowInv /\ DumpInv
  BY DEF CaseInv, ItemInv, Running, RowInv, DumpInv
<1>3. SuiteInv
  BY NoCounts DEF SuiteInv, IsSuite, EmptySuite
<1>4. CountersMatchRows
  <2>1. CountedRows = {} /\ Failing = {} /\ Untold = {}
    BY DEF CountedRows, Failing, Untold
  <2>2. QED
    BY <2>1, FS_EmptySet DEF CountersMatchRows, Zero
<1>5. QED
  BY <1>1, <1>2, <1>3, <1>4 DEF ReportInv

\* A step that leaves the report and its files alone.
LEMMA SameReport ==
    ASSUME ReportInv, UNCHANGED <<session, dumps, rows, stats, recorded>>,
           SessionTypes', CaseInv', SuiteInv', ItemInv',
           phase \in {"merge", "done"} => phase' \in {"merge", "done"}
    PROVE  ReportInv'
<1>1. DumpInv'
  BY DEF ReportInv, DumpInv, IsSuite, NameOf
<1>2. RowInv'
  BY DEF ReportInv, RowInv, NameOf, Dirs
<1>3. CountersMatchRows'
  BY DEF ReportInv, CountersMatchRows, Failing, CountedRows, Untold
<1>4. QED
  BY <1>1, <1>2, <1>3 DEF ReportInv

\* A step that leaves the items alone, too.
LEMMA SameItems ==
    ASSUME ReportInv, UNCHANGED <<session, todo, item, suites, dumps, rows, stats, recorded>>,
           verdict' \in {"pass", "fail", "skip"},
           phase' \in {"next", "teardown", "merge", "done"}, Running' => Running,
           phase \in {"merge", "done"} => phase' \in {"merge", "done"}
    PROVE  ReportInv'
<1>1. SessionTypes'
  BY DEF ReportInv, SessionTypes, Items, RowType, CaseType
<1>2. CaseInv' /\ SuiteInv'
  BY DEF ReportInv, CaseInv, SuiteInv, IsSuite
<1>3. ItemInv'
  BY DEF ReportInv, ItemInv
<1>4. QED
  BY <1>1, <1>2, <1>3, SameReport

LEMMA JobItemsAreItems ==
    ASSUME session \in Sessions
    PROVE  /\ MyItems \subseteq Items
           /\ IsFiniteSet(MyItems)
           /\ \A k \in 1..Cardinality(MyItems) :
                FirstItem(Len(session.items), session.count, session.index) + k - 1 \in MyItems
           /\ \A i \in MyItems : \E k \in 1..Cardinality(MyItems) :
                i = FirstItem(Len(session.items), session.count, session.index) + k - 1
<1> DEFINE n == Len(session.items)
           count == session.count
           j == session.index
           a == FirstItem(n, count, j)
           b == LastItem(n, count, j)
<1>1. n \in Nat /\ count \in Nat \ {0} /\ j \in 1..count
  BY SessionAssumption
<1>2. MyItems = a..b
  BY DEF MyItems, JobItems
<1>3. PerJob(n, count) \in Nat /\ PerJob(n, count) * (j - 1) \in Nat /\ PerJob(n, count) * j \in Nat
  <2>1. n + count - 1 \in Nat
    BY <1>1
  <2>2. PerJob(n, count) \in Nat
    BY <2>1, <1>1, DivisionBounds DEF PerJob
  <2>3. j - 1 \in Nat /\ j \in Nat
    BY <1>1
  <2> HIDE DEF n, count, j
  <2>4. QED
    BY <2>2, <2>3
<1>4. a \in Nat \ {0} /\ b \in Nat /\ b <= n
  <2> HIDE DEF n, count, j
  <2>1. QED
    BY <1>1, <1>3 DEF FirstItem, LastItem
<1> HIDE DEF a, b
<1>5. IsFiniteSet(a..b) /\ Cardinality(a..b) = IF a > b THEN 0 ELSE b - a + 1
  BY <1>4, FS_Interval
<1>6. a..b \subseteq 1..n
  BY <1>1, <1>4
<1>7. \A k \in 1..Cardinality(a..b) : a + k - 1 \in a..b
  BY <1>4, <1>5
<1>8. \A i \in a..b : i - a + 1 \in 1..Cardinality(a..b) /\ i = a + (i - a + 1) - 1
  BY <1>4, <1>5
<1>9. QED
  BY <1>2, <1>5, <1>6, <1>7, <1>8 DEF Items, a

LEMMA CollectStep ==
    ASSUME ReportInv, Collect
    PROVE  ReportInv'
<1> DEFINE a == FirstItem(Len(session.items), session.count, session.index)
           m == Cardinality(MyItems)
<1>1. /\ phase = "collect" /\ phase' = "next" /\ todo' = [k \in 1..m |-> a + k - 1]
      /\ UNCHANGED <<session, item, suites, verdict, dumps, rows, stats, recorded>>
  BY DEF Collect
<1>2. rows = {} /\ recorded = {} /\ session \in Sessions
  BY <1>1 DEF ReportInv, SessionTypes
<1>3. m \in Nat /\ \A k \in 1..m : a + k - 1 \in Items
  BY <1>2, JobItemsAreItems, FS_CardinalityType
<1>4. a \in Int
  <2>1. m = 0 \/ 1 \in 1..m
    BY <1>3
  <2>2. PerJob(Len(session.items), session.count) \in Nat
    <3>1. Len(session.items) + session.count - 1 \in Nat
      BY <1>2, SessionAssumption
    <3>2. QED
      BY <3>1, <1>2, SessionAssumption, DivisionBounds DEF PerJob
  <2>3. session.index - 1 \in Int
    BY <1>2, SessionAssumption
  <2>4. PICK p : p = PerJob(Len(session.items), session.count)
    OBVIOUS
  <2>5. PICK q : q = session.index - 1
    OBVIOUS
  <2>6. p * q + 1 \in Int
    BY <2>2, <2>3, <2>4, <2>5
  <2>7. QED
    BY <2>4, <2>5, <2>6 DEF FirstItem
<1> HIDE DEF a, m
<1>5. /\ todo' \in Seq(Items) /\ Len(todo') = m /\ \A k \in 1..m : todo'[k] = a + k - 1
  BY <1>1, <1>3
<1>6. SessionTypes'
  <2>1. Items' = Items /\ ~Running'
    BY <1>1 DEF Items, Running
  <2>2. QED
    BY <2>1, <1>1, <1>5 DEF ReportInv, SessionTypes, RowType, CaseType
<1>7. CaseInv' /\ SuiteInv'
  BY <1>1, <1>2 DEF ReportInv, CaseInv, SuiteInv, IsSuite
<1>8. ItemInv'
  BY <1>1, <1>2, <1>3, <1>4, <1>5 DEF ItemInv, Running
<1>9. QED
  BY <1>1, <1>6, <1>7, <1>8, SameReport

LEMMA StartStep ==
    ASSUME ReportInv, Start
    PROVE  ReportInv'
<1>1. /\ phase = "next" /\ todo # <<>> /\ item' = Head(todo) /\ todo' = Tail(todo)
      /\ suites' = [d \in Dut |-> EmptySuite] /\ phase' \in {"body", "teardown"}
      /\ verdict' \in {"pass", "fail", "skip"}
      /\ UNCHANGED <<session, dumps, rows, stats, recorded>>
  BY DEF Start
<1>2. todo \in Seq(Items)
  BY DEF ReportInv, SessionTypes
<1>3. /\ Len(todo) \in Nat /\ 1 \in 1..Len(todo) /\ item' = todo[1] /\ item' \in Items
      /\ todo' \in Seq(Items) /\ Len(todo') = Len(todo) - 1
      /\ \A k \in 1..Len(todo') : k + 1 \in 1..Len(todo) /\ todo'[k] = todo[k + 1]
  BY <1>1, <1>2
<1>4. SessionTypes'
  <2>1. Items' = Items
    BY <1>1 DEF Items
  <2>2. QED
    BY <2>1, <1>1, <1>3 DEF ReportInv, SessionTypes, RowType, CaseType
<1>5. CaseInv'
  BY <1>1, <1>3 DEF ReportInv, CaseInv
<1>6. SuiteInv'
  BY <1>1, NoCounts DEF SuiteInv, IsSuite, EmptySuite
<1>7. ItemInv'
  <2>1. \A k \in 1..Len(todo') : todo'[k] # item'
    <3>1. \A k \in 1..Len(todo') : k + 1 # 1
      OBVIOUS
    <3>2. QED
      BY <3>1, <1>3 DEF ReportInv, ItemInv
  <2>2. \A k, l \in 1..Len(todo') : todo'[k] = todo'[l] => k = l
    BY <1>3 DEF ReportInv, ItemInv
  <2>3. QED
    BY <2>1, <2>2, <1>1, <1>3 DEF ReportInv, ItemInv
<1>8. QED
  BY <1>1, <1>4, <1>5, <1>6, <1>7, SameReport

LEMMA RecordsStep ==
    ASSUME ReportInv, NEW d \in Dut, NEW how \in {"parsed", "run"}, Records(d, how)
    PROVE  ReportInv'
<1>1. PICK r \in Result :
         LET c == [item |-> item, dut |-> d, nr |-> Cardinality(recorded) + 1, how |-> how, result |-> r]
         IN  /\ suites' = [suites EXCEPT ![d].cases = @ \cup {c}, ![d].stats = Plus(@, Count(how, r))]
             /\ recorded' = recorded \cup {c}
  BY DEF Records
<1>2. PICK c : c = [item |-> item, dut |-> d, nr |-> Cardinality(recorded) + 1, how |-> how, result |-> r]
  OBVIOUS
<1>3. /\ suites' = [suites EXCEPT ![d].cases = @ \cup {c}, ![d].stats = Plus(@, Count(how, r))]
      /\ recorded' = recorded \cup {c}
      /\ phase \in {"body", "teardown"} /\ UNCHANGED <<session, phase, todo, item, verdict, dumps, rows, stats>>
  BY <1>1, <1>2 DEF Records
<1>4. IsFiniteSet(recorded) /\ Cardinality(recorded) \in Nat /\ item \in Items
  BY <1>3, FS_CardinalityType DEF ReportInv, SessionTypes, Running
<1>5. /\ c \in CaseType /\ c.item = item /\ c.dut = d /\ c.nr = Cardinality(recorded) + 1
      /\ c.how = how /\ c.result = r
  BY <1>2, <1>4 DEF CaseType
<1> HIDE <1>1, <1>2
<1>6. \A e \in recorded : e.nr # c.nr
  BY <1>4, <1>5 DEF ReportInv, CaseInv, SessionTypes, CaseType
<1>7. c \notin recorded
  BY <1>6
<1>8. IsFiniteSet(recorded') /\ Cardinality(recorded') = Cardinality(recorded) + 1
  BY <1>3, <1>4, <1>7, FS_AddElement
<1>9. SessionTypes'
  <2>1. Items' = Items
    BY <1>3 DEF Items
  <2>2. recorded' \in SUBSET CaseType
    BY <1>3, <1>5 DEF ReportInv, SessionTypes
  <2>3. QED
    BY <2>1, <2>2, <1>3, <1>8 DEF ReportInv, SessionTypes, RowType, CaseType, Running
<1>10. CaseInv'
  <2>1. \A e \in recorded : e.nr <= Cardinality(recorded')
    BY <1>4, <1>8 DEF ReportInv, CaseInv, SessionTypes, CaseType
  <2>2. c.nr <= Cardinality(recorded')
    BY <1>4, <1>5, <1>8
  <2>3. \A k \in 1..Len(todo) : todo[k] # c.item
    BY <1>3, <1>5 DEF ReportInv, ItemInv, Running
  <2>4. \A e, f \in recorded' : e.nr = f.nr => e = f
    BY <1>3, <1>6 DEF ReportInv, CaseInv
  <2>5. \A e \in recorded' : e.nr <= Cardinality(recorded') /\ \A k \in 1..Len(todo) : todo[k] # e.item
    BY <2>1, <2>2, <2>3, <1>3 DEF ReportInv, CaseInv
  <2>6. QED
    BY <2>4, <2>5, <1>3 DEF CaseInv
<1>11. ASSUME NEW s, NEW e \in Dut, IsSuite(s, e)
       PROVE  IsSuite(s, e)'
  BY <1>3, <1>11 DEF IsSuite
<1>12. SuiteInv'
  <2>1. PICK old : old = suites[d]
    OBVIOUS
  <2>2. IsSuite(old, d) /\ IsFiniteSet(old.cases) /\ c \notin old.cases
    BY <2>1, <1>4, <1>7, SuitesAreFinite DEF ReportInv, SuiteInv, IsSuite
  <2>3. PICK new : new = [cases |-> old.cases \cup {c}, stats |-> Plus(old.stats, Count(how, r))]
    OBVIOUS
  <2>4. suites' = [e \in Dut |-> IF e = d THEN new ELSE suites[e]]
    <3>1. suites = [e \in Dut |-> [cases |-> suites[e].cases, stats |-> suites[e].stats]]
      BY DEF ReportInv, SuiteInv
    <3>2. \A e \in Dut : suites[e] = [cases |-> suites[e].cases, stats |-> suites[e].stats]
      BY <3>1
    <3>3. DOMAIN suites = Dut
      BY <3>1
    <3>4. \A e \in Dut : e # d => suites'[e] = suites[e]
      BY <3>3, <1>3
    <3>5. suites'[d] = [[old EXCEPT !.cases = @ \cup {c}] EXCEPT !.stats = Plus(@, Count(how, r))]
      BY <3>3, <2>1, <1>3
    <3>6. old = [cases |-> old.cases, stats |-> old.stats]
      BY <3>2, <2>1
    <3>7. suites'[d] = new
      BY <3>5, <3>6, <2>3
    <3>8. DOMAIN suites' = Dut /\ suites' = [e \in DOMAIN suites' |-> suites'[e]]
      BY <3>3, <1>3
    <3>9. QED
      BY <3>4, <3>7, <3>8
  <2>5. new.cases = old.cases \cup {c} /\ new.stats = Plus(old.stats, Count(how, r))
        /\ new = [cases |-> new.cases, stats |-> new.stats]
    BY <2>3
  <2>6. new.stats = CountsOf(new.cases)
    <3>1. Count(how, r) = CountsOf({c})
      BY <1>5, CountFacts
    <3>2. IsFiniteSet({c}) /\ old.cases \cap {c} = {}
      BY <2>2, FS_Singleton
    <3>3. QED
      BY <3>1, <3>2, <2>2, <2>5, CountsAdd DEF IsSuite
  <2> HIDE <2>3
  <2>7. IsSuite(new, d)'
    BY <2>2, <2>5, <2>6, <1>3, <1>5 DEF IsSuite
  <2>8. \A e \in new.cases : e.item = item
    BY <2>1, <2>5, <1>5 DEF ReportInv, SuiteInv
  <2>9. ASSUME NEW e \in Dut
        PROVE  IsSuite(suites[e], e)' /\ \A f \in suites'[e].cases : f.item = item
    <3>1. PICK x : x = suites'[e]
      OBVIOUS
    <3>2. x = IF e = d THEN new ELSE suites[e]
      BY <3>1, <2>4
    <3>3. IsSuite(x, e)' /\ \A f \in x.cases : f.item = item
      BY <3>2, <2>7, <2>8, <1>11 DEF ReportInv, SuiteInv
    <3>4. QED
      BY <3>1, <3>3 DEF IsSuite
  <2>10. suites' = [e \in Dut |-> [cases |-> suites'[e].cases, stats |-> suites'[e].stats]]
    <3>1. \A e \in Dut : suites[e] = [cases |-> suites[e].cases, stats |-> suites[e].stats]
      BY DEF ReportInv, SuiteInv
    <3>2. QED
      BY <3>1, <2>4, <2>5
  <2>11. QED
    BY <2>9, <2>10, <1>3 DEF SuiteInv
<1>13. DumpInv'
  BY <1>3, <1>11 DEF ReportInv, DumpInv, NameOf, IsSuite
<1>14. ItemInv'
  BY <1>3 DEF ReportInv, ItemInv, Running
<1>15. RowInv'
  BY <1>3 DEF ReportInv, RowInv, NameOf, Dirs
<1>16. CountersMatchRows'
  <2>1. Untold = {} /\ Untold' = {}
    BY <1>3 DEF ReportInv, RowInv, Untold
  <2>2. QED
    BY <2>1, <1>3 DEF ReportInv, CountersMatchRows, CountedRows, Failing
<1>17. QED
  BY <1>9, <1>10, <1>12, <1>13, <1>14, <1>15, <1>16 DEF ReportInv

\* The files of the item that is over.
LEMMA DumpKeeps ==
    ASSUME ReportInv, Running, dumps' = Dump, UNCHANGED <<session, recorded>>
    PROVE  DumpInv'
<1> DEFINE dir == session.items[item].name
           new == {d \in Dut : suites[d].cases # {}}
           file(d) == [dir |-> dir, dut |-> d, suite |-> suites[d]]
<1>1. dumps' = {x \in dumps : ~(x.dir = dir /\ x.dut \in new)} \cup {file(d) : d \in new}
  BY DEF Dump
<1>2. \A d : file(d).dir = dir /\ file(d).dut = d /\ file(d).suite = suites[d]
  OBVIOUS
<1>3. ASSUME NEW d \in new
      PROVE  /\ d \in Dut /\ suites[d].cases # {} /\ IsSuite(suites[d], d)
             /\ \A c \in suites[d].cases : NameOf(c.item) = dir
  BY DEF ReportInv, SuiteInv, NameOf
<1> HIDE DEF dir, new, file
<1>4. ASSUME NEW x \in dumps'
      PROVE  /\ x.dut \in Dut /\ x.suite.cases # {} /\ IsSuite(x.suite, x.dut)
             /\ \A c \in x.suite.cases : NameOf(c.item) = x.dir
  <2>1. CASE x \in dumps
    BY <2>1 DEF ReportInv, DumpInv
  <2>2. CASE \E d \in new : x = file(d)
    <3>1. PICK d \in new : x = file(d)
      BY <2>2
    <3>2. x.dir = dir /\ x.dut = d /\ x.suite = suites[d]
      BY <3>1, <1>2
    <3>3. QED
      BY <3>1, <3>2, <1>3
  <2>3. QED
    BY <2>1, <2>2, <1>1
<1>5. ASSUME NEW x \in dumps', NEW y \in dumps', x.dir = y.dir, x.dut = y.dut
      PROVE  x = y
  <2>1. CASE x \in dumps /\ y \in dumps
    BY <2>1, <1>5 DEF ReportInv, DumpInv
  <2>2. CASE (\E d \in new : x = file(d)) /\ (\E d \in new : y = file(d))
    BY <2>2, <1>2, <1>5
  <2>3. CASE ~(x.dir = dir /\ x.dut \in new) /\ (\E d \in new : y = file(d))
    BY <2>3, <1>2, <1>5
  <2>4. CASE ~(y.dir = dir /\ y.dut \in new) /\ (\E d \in new : x = file(d))
    BY <2>4, <1>2, <1>5
  <2>5. QED
    BY <2>1, <2>2, <2>3, <2>4, <1>1
<1>6. QED
  BY <1>4, <1>5 DEF DumpInv, IsSuite, NameOf

LEMMA TeardownStep ==
    ASSUME ReportInv, Teardown
    PROVE  ReportInv'
<1>1. PICK n : n = [unity |-> "no", item |-> item, nr |-> 0, result |-> verdict]
  OBVIOUS
<1>2. PICK t : t = CASE verdict = "fail" -> One("failures")
                     [] verdict = "skip" -> One("skipped")
                     [] verdict = "pass" -> Zero
  OBVIOUS
<1>3. /\ phase = "teardown" /\ dumps' = Dump /\ rows' = rows \cup {n}
      /\ stats' = Plus(stats, Plus(One("tests"), t)) /\ phase' = "next"
      /\ UNCHANGED <<session, todo, item, suites, verdict, recorded>>
  BY <1>1, <1>2 DEF Teardown
<1>4. /\ IsFiniteSet(rows) /\ stats \in Attributes /\ item \in Items /\ Running
      /\ verdict \in {"pass", "fail", "skip"}
  BY <1>3 DEF ReportInv, SessionTypes, Running
<1>5. n \in RowType /\ n.unity = "no" /\ n.item = item /\ n.result = verdict
  BY <1>1, <1>4 DEF RowType
<1>6. n \notin rows
  BY <1>4, <1>5 DEF ReportInv, ItemInv
<1> HIDE <1>1
<1>7. /\ t \in Attributes /\ t.failures = IF verdict = "fail" THEN 1 ELSE 0
      /\ t.tests = 0
  <2>1. CASE verdict = "fail"
    <3>1. t = One("failures")
      BY <1>2, <2>1
    <3>2. QED
      BY <3>1, <2>1, OneFacts DEF Attributes
  <2>2. CASE verdict = "skip"
    <3>1. t = One("skipped")
      BY <1>2, <2>2
    <3>2. QED
      BY <3>1, <2>2, OneFacts DEF Attributes
  <2>3. CASE verdict = "pass"
    <3>1. t = Zero
      BY <1>2, <2>3
    <3>2. QED
      BY <3>1, <2>3 DEF Zero, Attributes
  <2>4. QED
    BY <2>1, <2>2, <2>3, <1>4
<1> HIDE <1>2
<1>8. One("tests") \in Attributes /\ One("tests").failures = 0 /\ One("tests").tests = 1
  BY OneFacts DEF Attributes
<1>9. /\ stats' \in Attributes
      /\ stats'.failures = stats.failures + (IF verdict = "fail" THEN 1 ELSE 0)
      /\ stats'.tests = stats.tests + 1
  <2>1. PICK p : p = Plus(One("tests"), t)
    OBVIOUS
  <2>2. /\ p \in Attributes /\ p.failures = IF verdict = "fail" THEN 1 ELSE 0
        /\ p.tests = 1
    BY <2>1, <1>7, <1>8, PlusFacts DEF Attributes
  <2>3. stats' = Plus(stats, p)
    BY <2>1, <1>3
  <2> HIDE <2>1
  <2>4. stats' = [failures |-> stats.failures + p.failures, skipped |-> stats.skipped + p.skipped,
                  tests |-> stats.tests + p.tests]
    BY <2>2, <2>3, <1>4, PlusFacts
  <2>5. stats' \in Attributes
    BY <2>2, <2>3, <1>4, PlusTypes
  <2>6. stats'.failures = stats.failures + p.failures /\ stats'.tests = stats.tests + p.tests
    BY <2>4
  <2>7. QED
    BY <2>2, <2>5, <2>6
<1>10. SessionTypes'
  <2>1. Items' = Items
    BY <1>3 DEF Items
  <2>2. rows' \in SUBSET RowType /\ IsFiniteSet(rows')
    BY <1>3, <1>4, <1>5, FS_AddElement DEF ReportInv, SessionTypes
  <2>3. QED
    BY <2>1, <2>2, <1>3, <1>4, <1>9 DEF ReportInv, SessionTypes, RowType, CaseType, Running
<1>11. CaseInv' /\ SuiteInv'
  BY <1>3 DEF ReportInv, CaseInv, SuiteInv, IsSuite
<1>12. DumpInv'
  BY <1>3, <1>4, DumpKeeps
<1>13. ItemInv'
  <2>1. \A k \in 1..Len(todo) : todo[k] # n.item
    BY <1>4, <1>5 DEF ReportInv, ItemInv
  <2>2. QED
    BY <2>1, <1>3 DEF ReportInv, ItemInv, Running
<1>14. \A r \in rows' : r.unity = "no" /\ r.result \in {"pass", "fail", "skip"}
  BY <1>3, <1>4, <1>5 DEF ReportInv, RowInv
<1>15. RowInv'
  BY <1>14 DEF RowInv
<1>16. CountersMatchRows'
  <2>1. Untold = {} /\ Untold' = {}
    BY <1>3, <1>14 DEF Untold
  <2>2. CountedRows' = CountedRows \cup {n} /\ n \notin CountedRows
    BY <1>3, <1>5, <1>6 DEF CountedRows
  <2>3. Failing' = (IF verdict = "fail" THEN Failing \cup {n} ELSE Failing) /\ n \notin Failing
    BY <2>2, <1>4, <1>5 DEF Failing
  <2>4. IsFiniteSet(CountedRows) /\ IsFiniteSet(Failing)
    BY <1>4, FS_Subset DEF CountedRows, Failing
  <2>5. /\ Cardinality(CountedRows) \in Nat /\ Cardinality(Failing) \in Nat
        /\ Cardinality({}) = 0
    BY <2>4, FS_CardinalityType, FS_EmptySet
  <2>6. Cardinality(CountedRows') = Cardinality(CountedRows) + 1
    BY <2>2, <2>4, FS_AddElement
  <2>7. Cardinality(Failing') = Cardinality(Failing) + (IF verdict = "fail" THEN 1 ELSE 0)
    <3>1. CASE verdict = "fail"
      <4>1. Failing' = Failing \cup {n} /\ n \notin Failing
        BY <3>1, <2>3
      <4>2. Cardinality(Failing') = Cardinality(Failing) + 1
        BY <4>1, <2>4, FS_AddElement
      <4>3. QED
        BY <4>2, <3>1
    <3>2. CASE verdict # "fail"
      BY <3>2, <2>3, <2>5
    <3>3. QED
      BY <3>1, <3>2
  <2>8. /\ stats.failures = Cardinality(Failing)
        /\ stats.tests = Cardinality(CountedRows) - Cardinality(Untold)
    BY DEF ReportInv, CountersMatchRows
  <2>9. stats'.failures = Cardinality(Failing')
    BY <2>7, <2>8, <1>9
  <2>10. stats'.tests = Cardinality(CountedRows') - Cardinality(Untold')
    BY <2>1, <2>5, <2>6, <2>8, <1>9
  <2>11. QED
    BY <2>9, <2>10 DEF CountersMatchRows
<1>17. QED
  BY <1>10, <1>11, <1>12, <1>13, <1>15, <1>16 DEF ReportInv

\* The row of a case.
RowOf(c) == [unity |-> "yes", item |-> c.item, nr |-> c.nr, result |-> c.result]

RowsOf(S) == {RowOf(c) : c \in S}

LEMMA RowsOfFacts ==
    ASSUME CaseInv, NEW S \in SUBSET recorded, IsFiniteSet(S)
    PROVE  IsFiniteSet(RowsOf(S)) /\ Cardinality(RowsOf(S)) = Cardinality(S)
<1> DEFINE f == [c \in S |-> RowOf(c)]
<1>1. f \in [S -> RowsOf(S)]
  BY DEF RowsOf
<1>2. \A c, e \in S : f[c] = f[e] => c = e
  <2>1. \A c, e \in S : RowOf(c) = RowOf(e) => c.nr = e.nr
    BY DEF RowOf
  <2>2. QED
    BY <2>1 DEF CaseInv
<1>3. \A r \in RowsOf(S) : \E c \in S : f[c] = r
  BY DEF RowsOf
<1>4. f \in Bijection(S, RowsOf(S))
  BY <1>1, <1>2, <1>3 DEF Bijection, Injection, Surjection, IsInjective
<1>5. QED
  BY <1>4, FS_Bijection DEF ExistsBijection

\* The row that gives way is one of pytest's, of that directory.
LEMMA FirstFacts ==
    ASSUME ReportInv, NEW dir \in Dirs, Candidates(dir) # {}
    PROVE  First(dir) \in rows /\ First(dir).unity = "no" /\ NameOf(First(dir).item) = dir
<1> DEFINE C == Candidates(dir)
           is == {r.item : r \in C}
<1>1. C \in SUBSET rows /\ \A r \in C : r.unity # "yes" /\ NameOf(r.item) = dir
  BY DEF Candidates, NameOf
<1>2. is \in SUBSET Nat /\ is # {}
  BY <1>1 DEF ReportInv, SessionTypes, RowType, Items
<1>3. PICK i \in is : \A j \in is : i <= j
  <2> HIDE DEF is
  <2> QED BY <1>2, LeastNatural
<1>4. \E r \in C : \A q \in C : r.item <= q.item
  BY <1>3
<1>5. First(dir) = CHOOSE r \in C : \A q \in C : r.item <= q.item
  BY DEF First
<1>6. First(dir) \in C
  <2> HIDE DEF C, is
  <2> QED BY <1>4, <1>5
<1>7. \A r \in C : r.unity = "no"
  BY <1>1 DEF ReportInv, RowInv
<1>8. QED
  BY <1>1, <1>6, <1>7

LEMMA MergedAreRecorded ==
    ASSUME ReportInv, NEW dir
    PROVE  /\ MergedCases(dir) \in SUBSET recorded /\ IsFiniteSet(MergedCases(dir))
           /\ \A c \in MergedCases(dir) : NameOf(c.item) = dir
<1>1. MergedCases(dir) \in SUBSET recorded
  BY DEF MergedCases, ReportInv, DumpInv, IsSuite
<1>2. \A c \in MergedCases(dir) : NameOf(c.item) = dir
  BY DEF MergedCases, ReportInv, DumpInv
<1>3. QED
  BY <1>1, <1>2, FS_Subset DEF ReportInv, SessionTypes

\* What a merge does to the rows.
LEMMA MergedRows ==
    ASSUME ReportInv, NEW dir, Merge(dir)
    PROVE  /\ dir \in Dirs /\ First(dir) \in rows /\ First(dir).unity = "no" /\ NameOf(First(dir).item) = dir
           /\ \E z \in SUBSET RowType :
                /\ \A r \in z : r.unity = "0" /\ r.item = First(dir).item
                /\ session.mode = "merge" => z # {}
                /\ IsFiniteSet(z)
                /\ rows' = (rows \ {First(dir)}) \cup RowsOf(MergedCases(dir)) \cup z
           /\ RowsOf(MergedCases(dir)) \in SUBSET RowType
           /\ RowsOf(MergedCases(dir)) \cap rows = {}
<1> DEFINE F == First(dir)
           MC == MergedCases(dir)
<1>1. /\ phase = "merge" /\ dir \in Dirs /\ Candidates(dir) # {}
      /\ rows' = (rows \ {F}) \cup RowsOf(MC)
                    \cup (IF session.mode = "merge" THEN {[F EXCEPT !.unity = "0"]} ELSE {})
  BY DEF Merge, RowsOf, RowOf
<1>2. F \in rows /\ F.unity = "no" /\ NameOf(F.item) = dir
  BY <1>1, FirstFacts
<1>3. MC \in SUBSET recorded /\ \A c \in MC : NameOf(c.item) = dir
  BY MergedAreRecorded
<1> HIDE DEF F, MC
<1>4. F \in RowType
  BY <1>2 DEF ReportInv, SessionTypes
<1>5. PICK o : o = [F EXCEPT !.unity = "0"]
  OBVIOUS
<1>6. o \in RowType /\ o.unity = "0" /\ o.item = F.item
  BY <1>4, <1>5 DEF RowType
<1>7. PICK z : z = IF session.mode = "merge" THEN {o} ELSE {}
  OBVIOUS
<1>8. z \in SUBSET RowType /\ IsFiniteSet(z) /\ (session.mode = "merge" => z # {})
      /\ \A r \in z : r.unity = "0" /\ r.item = F.item
  BY <1>6, <1>7, FS_Singleton, FS_EmptySet
<1>9. rows' = (rows \ {F}) \cup RowsOf(MC) \cup z
  BY <1>1, <1>5, <1>7
<1>10. RowsOf(MC) \in SUBSET RowType
  BY <1>3 DEF RowsOf, RowOf, ReportInv, SessionTypes, CaseType, RowType
<1>11. ASSUME NEW r \in RowsOf(MC), r \in rows
       PROVE  FALSE
  <2>1. r.unity = "yes" /\ NameOf(r.item) = dir
    BY <1>3 DEF RowsOf, RowOf
  <2>2. QED
    BY <2>1, <1>1, <1>11 DEF ReportInv, RowInv
<1>12. QED
  BY <1>1, <1>2, <1>8, <1>9, <1>10, <1>11 DEF F, MC

LEMMA MergeStep ==
    ASSUME ReportInv, NEW dir, Merge(dir)
    PROVE  ReportInv'
<1>1. PICK F : F = First(dir)
  OBVIOUS
<1>2. PICK MC : MC = MergedCases(dir)
  OBVIOUS
<1>3. /\ dir \in Dirs /\ F \in rows /\ F.unity = "no" /\ NameOf(F.item) = dir
      /\ RowsOf(MC) \in SUBSET RowType /\ RowsOf(MC) \cap rows = {}
  BY <1>1, <1>2, MergedRows
<1>4. PICK z \in SUBSET RowType :
        /\ \A r \in z : r.unity = "0" /\ r.item = F.item
        /\ IsFiniteSet(z) /\ rows' = (rows \ {F}) \cup RowsOf(MC) \cup z
  BY <1>1, <1>2, MergedRows
<1>5. /\ MC \in SUBSET recorded /\ IsFiniteSet(MC) /\ \A c \in MC : NameOf(c.item) = dir
  BY <1>2, MergedAreRecorded
<1>6. IsFiniteSet(recorded) /\ DumpInv /\ CaseInv /\ IsFiniteSet(rows) /\ stats \in Attributes
      /\ F \in RowType
  BY <1>3 DEF ReportInv, SessionTypes
<1>7. MergedStats(dir) = CountsOf(MC)
  BY <1>2, <1>6, MergedStatsFacts
<1>8. /\ phase = "merge" /\ phase' = "merge" /\ dumps' = {x \in dumps : x.dir # dir}
      /\ UNCHANGED <<session, todo, item, suites, verdict, recorded>>
  BY DEF Merge
<1>9. \A r \in RowsOf(MC) : \E c \in MC : r.unity = "yes" /\ r.nr = c.nr /\ r.item = c.item /\ r.result = c.result
  BY DEF RowsOf, RowOf
<1>10. IsFiniteSet(RowsOf(MC)) /\ Cardinality(RowsOf(MC)) = Cardinality(MC)
  BY <1>5, <1>6, RowsOfFacts
<1>11. PICK adj : adj = [Zero EXCEPT !.tests = -1, !.failures = IF F.result = "fail" THEN -1 ELSE 0]
  OBVIOUS
<1>12. /\ adj \in Attributes /\ adj.tests = -1
       /\ adj.failures = IF F.result = "fail" THEN -1 ELSE 0
  <2>1. PICK v : v = IF F.result = "fail" THEN -1 ELSE 0
    OBVIOUS
  <2>2. v \in Int
    BY <2>1
  <2>3. adj = [[Zero EXCEPT !.tests = -1] EXCEPT !.failures = v]
    BY <2>1, <1>11
  <2>4. [Zero EXCEPT !.tests = -1] = [failures |-> 0, skipped |-> 0, tests |-> -1]
    BY DEF Zero
  <2>5. adj = [failures |-> v, skipped |-> 0, tests |-> -1]
    BY <2>3, <2>4
  <2>6. QED
    BY <2>1, <2>2, <2>5 DEF Attributes
<1>13. stats' = Plus(stats, Plus(CountsOf(MC), adj))
  BY <1>1, <1>7, <1>11 DEF Merge, NewStats
<1> HIDE <1>1, <1>2, <1>11
<1>14. /\ stats' \in Attributes
       /\ stats'.failures = stats.failures + Cardinality(Having(MC, "FAIL")) + adj.failures
       /\ stats'.tests = stats.tests + (Cardinality(MC) - Cardinality(UntoldIn(MC))) - 1
  <2>1. CountsOf(MC) \in Attributes
    BY <1>5, CountsTypes
  <2>2. PICK p : p = Plus(CountsOf(MC), adj)
    OBVIOUS
  <2>3. p \in Attributes
    BY <2>1, <2>2, <1>12, PlusTypes
  <2>4. p.failures = CountsOf(MC).failures + adj.failures /\ p.tests = CountsOf(MC).tests + adj.tests
    BY <2>1, <2>2, <1>12, PlusFacts
  <2>5. stats' \in Attributes
    BY <2>2, <2>3, <1>6, <1>13, PlusTypes
  <2>6. stats'.failures = stats.failures + p.failures /\ stats'.tests = stats.tests + p.tests
    BY <2>2, <2>3, <1>6, <1>13, PlusFacts
  <2>7. /\ CountsOf(MC).failures = Cardinality(Having(MC, "FAIL"))
        /\ CountsOf(MC).tests = Cardinality(MC) - Cardinality(UntoldIn(MC))
    BY DEF CountsOf
  <2>8. /\ Cardinality(Having(MC, "FAIL")) \in Nat /\ Cardinality(UntoldIn(MC)) \in Nat
        /\ Cardinality(MC) \in Nat
    BY <1>5, PartsAreFinite
  <2>9. stats.failures \in Int /\ stats.tests \in Int /\ adj.failures \in Int
    BY <1>6, <1>12 DEF Attributes
  <2>10. QED
    BY <2>4, <2>5, <2>6, <2>7, <2>8, <2>9, <1>12
<1>15. SessionTypes'
  <2>1. Items' = Items
    BY <1>8 DEF Items
  <2>2. rows' \in SUBSET RowType
    BY <1>3, <1>4 DEF ReportInv, SessionTypes
  <2>3. IsFiniteSet(rows')
    <3>1. IsFiniteSet(rows \ {F})
      BY <1>6, FS_RemoveElement
    <3>2. IsFiniteSet((rows \ {F}) \cup RowsOf(MC))
      BY <3>1, <1>10, FS_Union
    <3>3. QED
      BY <3>2, <1>4, FS_Union
  <2>4. QED
    BY <2>1, <2>2, <2>3, <1>8, <1>14 DEF ReportInv, SessionTypes, RowType, CaseType, Running
<1>16. CaseInv' /\ SuiteInv'
  BY <1>8 DEF ReportInv, CaseInv, SuiteInv, IsSuite
<1>17. DumpInv'
  BY <1>8 DEF ReportInv, DumpInv, IsSuite, NameOf
<1>18. ItemInv'
  <2>1. \A r \in RowsOf(MC), k \in 1..Len(todo) : todo[k] # r.item
    BY <1>5, <1>6, <1>9 DEF CaseInv
  <2>2. \A r \in z, k \in 1..Len(todo) : todo[k] # r.item
    BY <1>3, <1>4 DEF ReportInv, ItemInv
  <2>3. QED
    BY <2>1, <2>2, <1>4, <1>8 DEF ReportInv, ItemInv, Running
<1>19. RowInv'
  <2>1. Dirs' = Dirs \ {dir}
    BY <1>8 DEF Dirs
  <2>2. \A r \in RowsOf(MC) \cup z : NameOf(r.item) = dir
    BY <1>3, <1>4, <1>5, <1>9
  <2>3. \A r \in RowsOf(MC) : \E c \in recorded : c.nr = r.nr /\ c.item = r.item /\ c.result = r.result
    BY <1>5, <1>9
  <2>4. (\A r \in z : r.unity = "0") /\ (\A r \in RowsOf(MC) : r.unity = "yes")
    BY <1>4, <1>9
  <2>5. \A i : NameOf(i)' = NameOf(i)
    BY <1>8 DEF NameOf
  <2>6. ASSUME NEW r \in rows'
        PROVE  /\ r.unity = "no" => r.result \in {"pass", "fail", "skip"}
               /\ r.unity # "no" => NameOf(r.item) \notin Dirs'
               /\ r.unity = "yes" => \E c \in recorded : c.nr = r.nr /\ c.item = r.item /\ c.result = r.result
    <3>1. CASE r \in rows
      BY <3>1, <2>1 DEF ReportInv, RowInv
    <3>2. CASE r \in RowsOf(MC) \cup z
      BY <3>2, <2>1, <2>2, <2>3, <2>4
    <3>3. QED
      BY <3>1, <3>2, <1>4
  <2>7. QED
    BY <2>5, <2>6, <1>8 DEF RowInv
<1>20. CountersMatchRows'
  <2>1. CountedRows' = (CountedRows \ {F}) \cup RowsOf(MC)
    BY <1>4, <1>9 DEF CountedRows
  <2>2. Failing' = (Failing \ {F}) \cup RowsOf(Having(MC, "FAIL"))
    <3>1. \A r : r \in RowsOf(Having(MC, "FAIL")) <=> r \in RowsOf(MC) /\ r.result \in {"FAIL", "fail"}
      <4>1. \A c \in MC : c.result # "fail"
        BY <1>5 DEF ReportInv, SessionTypes, CaseType, Result
      <4>2. QED
        BY <4>1 DEF RowsOf, RowOf, Having
    <3>2. QED
      BY <3>1, <2>1 DEF Failing
  <2>3. Untold' = Untold \cup RowsOf(UntoldIn(MC))
    <3>1. \A r : r \in RowsOf(UntoldIn(MC)) <=>
            r \in RowsOf(MC) /\ \E c \in recorded : c.nr = r.nr /\ c.how = "run" /\ c.result # "PASS"
      BY <1>5, <1>6 DEF RowsOf, RowOf, UntoldIn, CaseInv
    <3>2. QED
      BY <3>1, <1>3, <1>4, <1>8, <1>9 DEF Untold
  <2>4. F \in CountedRows /\ (F \in Failing <=> F.result = "fail")
    <3>1. F.result # "FAIL"
      BY <1>3 DEF ReportInv, RowInv
    <3>2. QED
      BY <3>1, <1>3 DEF CountedRows, Failing
  <2>5. /\ (CountedRows \ {F}) \cap RowsOf(MC) = {}
        /\ (Failing \ {F}) \cap RowsOf(Having(MC, "FAIL")) = {}
        /\ Untold \cap RowsOf(UntoldIn(MC)) = {}
    BY <1>3 DEF CountedRows, Failing, Untold, RowsOf, Having, UntoldIn
  <2>6. /\ IsFiniteSet(CountedRows) /\ IsFiniteSet(Failing) /\ IsFiniteSet(Untold)
    BY <1>6, FS_Subset DEF CountedRows, Failing, Untold
  <2>7. /\ IsFiniteSet(Having(MC, "FAIL")) /\ IsFiniteSet(UntoldIn(MC))
        /\ Having(MC, "FAIL") \in SUBSET recorded /\ UntoldIn(MC) \in SUBSET recorded
    BY <1>5, PartsAreFinite DEF Having, UntoldIn
  <2>8. /\ IsFiniteSet(RowsOf(Having(MC, "FAIL"))) /\ IsFiniteSet(RowsOf(UntoldIn(MC)))
        /\ Cardinality(RowsOf(Having(MC, "FAIL"))) = Cardinality(Having(MC, "FAIL"))
        /\ Cardinality(RowsOf(UntoldIn(MC))) = Cardinality(UntoldIn(MC))
    BY <2>7, <1>6, RowsOfFacts
  <2>9. Cardinality(CountedRows') = (Cardinality(CountedRows) - 1) + Cardinality(MC)
    <3>1. IsFiniteSet(CountedRows \ {F}) /\ Cardinality(CountedRows \ {F}) = Cardinality(CountedRows) - 1
      BY <2>4, <2>6, FS_RemoveElement
    <3>2. QED
      BY <3>1, <2>1, <2>5, <1>10, DisjointUnion
  <2>10. Cardinality(Failing') = Cardinality(Failing) + adj.failures + Cardinality(Having(MC, "FAIL"))
    <3>1. /\ IsFiniteSet(Failing \ {F})
          /\ Cardinality(Failing \ {F}) = IF F \in Failing THEN Cardinality(Failing) - 1 ELSE Cardinality(Failing)
      BY <2>6, FS_RemoveElement
    <3>2. Cardinality(Failing') = Cardinality(Failing \ {F}) + Cardinality(Having(MC, "FAIL"))
      BY <3>1, <2>2, <2>5, <2>8, DisjointUnion
    <3>3. Cardinality(Failing) \in Nat
      BY <2>6, FS_CardinalityType
    <3>4. Cardinality(Failing \ {F}) = Cardinality(Failing) + adj.failures
      BY <3>1, <3>3, <2>4, <1>12
    <3>5. QED
      BY <3>2, <3>4
  <2>11. Cardinality(Untold') = Cardinality(Untold) + Cardinality(UntoldIn(MC))
    BY <2>3, <2>5, <2>6, <2>8, DisjointUnion
  <2>12. /\ Cardinality(CountedRows) \in Nat /\ Cardinality(Failing) \in Nat /\ Cardinality(Untold) \in Nat
         /\ Cardinality(MC) \in Nat /\ Cardinality(Having(MC, "FAIL")) \in Nat
         /\ Cardinality(UntoldIn(MC)) \in Nat /\ adj.failures \in Int
    BY <2>6, <1>5, <1>12, FS_CardinalityType, PartsAreFinite DEF Attributes
  <2>13. /\ stats.failures = Cardinality(Failing)
         /\ stats.tests = Cardinality(CountedRows) - Cardinality(Untold)
    BY DEF ReportInv, CountersMatchRows
  <2>14. stats'.failures = Cardinality(Failing')
    BY <2>10, <2>12, <2>13, <1>14
  <2>15. stats'.tests = Cardinality(CountedRows') - Cardinality(Untold')
    BY <2>9, <2>11, <2>12, <2>13, <1>14
  <2>16. QED
    BY <2>14, <2>15 DEF CountersMatchRows
<1>21. QED
  BY <1>15, <1>16, <1>17, <1>18, <1>19, <1>20 DEF ReportInv

LEMMA ReportInvStep ==
    ASSUME ReportInv, [Next]_vars
    PROVE  ReportInv'
<1>1. CASE Collect
  BY <1>1, CollectStep
<1>2. CASE Start
  BY <1>2, StartStep
<1>3. ASSUME NEW d \in Dut, NEW how \in {"parsed", "run"}, Records(d, how)
      PROVE  ReportInv'
  BY <1>3, RecordsStep
<1>4. CASE Teardown
  BY <1>4, TeardownStep
<1>5. ASSUME NEW dir \in Dirs, Merge(dir)
      PROVE  ReportInv'
  BY <1>5, MergeStep
<1>6. CASE CollectFails
  BY <1>6, SameItems DEF CollectFails, Running, ReportInv, SessionTypes
<1>7. ASSUME NEW d \in Dut, FindsNoCase(d)
      PROVE  ReportInv'
  BY <1>7, SameItems DEF FindsNoCase, Running
<1>8. CASE BodyEnds
  <2>1. verdict' \in {"pass", "fail", "skip"}
    BY <1>8 DEF BodyEnds
  <2>2. QED
    BY <2>1, <1>8, SameItems DEF BodyEnds, Running
<1>9. CASE SessionFinish
  BY <1>9, SameItems DEF SessionFinish, Running, ReportInv, SessionTypes
<1>10. ASSUME NEW dir \in Dirs, MergeFails(dir)
       PROVE  ReportInv'
  BY <1>10, SameItems DEF MergeFails, Running, ReportInv, SessionTypes
<1>11. CASE MergeEnds
  BY <1>11, SameItems DEF MergeEnds, Running, ReportInv, SessionTypes
<1>12. CASE Done \/ UNCHANGED vars
  <2>1. UNCHANGED vars
    BY <1>12 DEF Done
  <2>2. QED
    BY <2>1 DEF vars, ReportInv, SessionTypes, CaseInv, SuiteInv, IsSuite, DumpInv, ItemInv, RowInv,
        CountersMatchRows, CountedRows, Failing, Untold, Items, RowType, CaseType, Running, NameOf, Dirs
<1>13. QED
  BY <1>1, <1>2, <1>3, <1>4, <1>5, <1>6, <1>7, <1>8, <1>9, <1>10, <1>11, <1>12 DEF Next

\* CountersMatchRows: the attributes of the junit report are the numbers of its rows,
\* for any names of the tests and any number of DUTs (JunitMerger.merge).
THEOREM CountersAreRight == Spec => []CountersMatchRows
<1>1. ReportInv => CountersMatchRows
  BY DEF ReportInv
<1>2. QED
  BY <1>1, ReportInvInit, ReportInvStep, PTL DEF Spec

-----------------------------------------------------------------------------
(* Nothing is lost. *)

\* Tests with names of their own: a name is an item's.
LEMMA NamesAreItems ==
    ASSUME DistinctNames, NEW i \in Items, NEW j \in Items, NameOf(i) = NameOf(j)
    PROVE  i = j
  BY DEF DistinctNames, DuplicateNames, NameOf

LEMMA CasesHaveItems ==
    ASSUME ReportInv, NEW c \in recorded
    PROVE  c.item \in Items /\ c.dut \in Dut
  BY DEF ReportInv, SessionTypes, CaseType

\* A step that adds no case and moves none.
LEMMA SameKept ==
    ASSUME KeptInv, UNCHANGED <<session, suites, dumps, rows, recorded>>,
           Running <=> Running', Running => item' = item
    PROVE  KeptInv'
<1>1. DistinctNames' = DistinctNames
  BY DEF DistinctNames, DuplicateNames, Items
<1>2. \A c \in recorded : Kept(c) => Kept(c)'
  BY DEF Kept
<1>3. QED
  BY <1>1, <1>2 DEF KeptInv

LEMMA TeardownKeeps ==
    ASSUME ReportInv, KeptInv, Teardown
    PROVE  KeptInv'
<1>1. /\ phase = "teardown" /\ phase' = "next" /\ dumps' = Dump /\ rows \subseteq rows'
      /\ UNCHANGED <<session, item, suites, recorded>>
  BY DEF Teardown
<1>2. DistinctNames' = DistinctNames
  BY <1>1 DEF DistinctNames, DuplicateNames, Items
<1>3. Running /\ ~Running' /\ item \in Items
  BY <1>1 DEF Running, ReportInv, SessionTypes
<1> SUFFICES ASSUME DistinctNames, NEW c \in recorded
             PROVE  Kept(c)'
  BY <1>1, <1>2, <1>3 DEF KeptInv
<1>4. Kept(c) /\ c.item \in Items /\ c.dut \in Dut
  BY CasesHaveItems DEF KeptInv
<1>5. CASE c \in suites[c.dut].cases
  <2>1. PICK x : x = [dir |-> session.items[item].name, dut |-> c.dut, suite |-> suites[c.dut]]
    OBVIOUS
  <2>2. x \in dumps'
    BY <2>1, <1>1, <1>4, <1>5 DEF Dump
  <2>3. x.suite = suites[c.dut]
    BY <2>1
  <2>4. QED
    BY <2>2, <2>3, <1>5 DEF Kept
<1>6. ASSUME NEW x \in dumps, c \in x.suite.cases
      PROVE  Kept(c)'
  <2>1. c.item # item
    BY <1>3, <1>6 DEF KeptInv
  <2>2. NameOf(c.item) = x.dir
    BY <1>6 DEF ReportInv, DumpInv
  <2>3. x.dir # NameOf(item)
    BY <2>1, <2>2, <1>3, <1>4, NamesAreItems
  <2>4. x \in dumps'
    BY <2>3, <1>1 DEF Dump, NameOf
  <2>5. QED
    BY <2>4, <1>6 DEF Kept
<1>7. CASE \E r \in rows : r.unity = "yes" /\ r.nr = c.nr
  BY <1>1, <1>7 DEF Kept
<1>8. QED
  BY <1>4, <1>5, <1>6, <1>7 DEF Kept

LEMMA MergeKeeps ==
    ASSUME ReportInv, KeptInv, NEW dir, Merge(dir)
    PROVE  KeptInv'
<1>1. /\ phase = "merge" /\ phase' = "merge" /\ dumps' = {x \in dumps : x.dir # dir}
      /\ UNCHANGED <<session, recorded>>
  BY DEF Merge
<1>2. ~Running /\ ~Running'
  BY <1>1 DEF Running
<1>3. PICK F : F = First(dir)
  OBVIOUS
<1>4. PICK MC : MC = MergedCases(dir)
  OBVIOUS
<1>5. F.unity = "no" /\ rows \ {F} \subseteq rows' /\ RowsOf(MC) \subseteq rows'
  BY <1>3, <1>4, MergedRows
<1>6. \A x \in dumps : x.dir = dir => x.suite.cases \subseteq MC
  BY <1>4 DEF MergedCases
<1>7. \A c \in MC : RowOf(c) \in rows'
  BY <1>5 DEF RowsOf
<1>8. \A c : RowOf(c).unity = "yes" /\ RowOf(c).nr = c.nr
  BY DEF RowOf
<1>9. ASSUME NEW c \in recorded, Kept(c)
      PROVE  Kept(c)'
  <2>1. CASE \E r \in rows : r.unity = "yes" /\ r.nr = c.nr
    BY <2>1, <1>5 DEF Kept
  <2>2. ASSUME NEW x \in dumps, c \in x.suite.cases
        PROVE  Kept(c)'
    <3>1. CASE x.dir = dir
      BY <3>1, <2>2, <1>6, <1>7, <1>8 DEF Kept
    <3>2. CASE x.dir # dir
      BY <3>2, <2>2, <1>1 DEF Kept
    <3>3. QED
      BY <3>1, <3>2
  <2>3. QED
    BY <2>1, <2>2, <1>2, <1>9 DEF Kept
<1>10. DistinctNames' = DistinctNames
  BY <1>1 DEF DistinctNames, DuplicateNames, Items
<1>11. QED
  BY <1>1, <1>2, <1>9, <1>10 DEF KeptInv

LEMMA RecordsKeeps ==
    ASSUME ReportInv, KeptInv, NEW d \in Dut, NEW how \in {"parsed", "run"}, Records(d, how)
    PROVE  KeptInv'
<1>1. PICK r \in Result :
         LET c == [item |-> item, dut |-> d, nr |-> Cardinality(recorded) + 1, how |-> how, result |-> r]
         IN  /\ suites' = [suites EXCEPT ![d].cases = @ \cup {c}, ![d].stats = Plus(@, Count(how, r))]
             /\ recorded' = recorded \cup {c}
  BY DEF Records
<1>2. PICK c : c = [item |-> item, dut |-> d, nr |-> Cardinality(recorded) + 1, how |-> how, result |-> r]
  OBVIOUS
<1>3. /\ suites' = [suites EXCEPT ![d].cases = @ \cup {c}, ![d].stats = Plus(@, Count(how, r))]
      /\ recorded' = recorded \cup {c} /\ c.dut = d
      /\ phase \in {"body", "teardown"} /\ UNCHANGED <<session, phase, item, dumps, rows>>
  BY <1>1, <1>2 DEF Records
<1> HIDE <1>1, <1>2
<1>4. DOMAIN suites = Dut /\ suites[d] = [cases |-> suites[d].cases, stats |-> suites[d].stats]
  <2>1. suites = [e \in Dut |-> [cases |-> suites[e].cases, stats |-> suites[e].stats]]
    BY DEF ReportInv, SuiteInv
  <2>2. QED
    BY <2>1
<1>5. suites'[d].cases = suites[d].cases \cup {c} /\ \A e \in Dut : e # d => suites'[e] = suites[e]
  <2>1. PICK old : old = suites[d]
    OBVIOUS
  <2>2. old = [cases |-> old.cases, stats |-> old.stats]
    BY <2>1, <1>4
  <2>3. suites'[d] = [[old EXCEPT !.cases = @ \cup {c}] EXCEPT !.stats = Plus(@, Count(how, r))]
    BY <2>1, <1>3, <1>4
  <2>4. suites'[d].cases = old.cases \cup {c}
    BY <2>2, <2>3
  <2>5. QED
    BY <2>1, <2>4, <1>3, <1>4
<1>6. DistinctNames' = DistinctNames
  BY <1>3 DEF DistinctNames, DuplicateNames, Items
<1>7. Running /\ Running'
  BY <1>3 DEF Running
<1>8. Kept(c)'
  BY <1>3, <1>5, <1>7 DEF Kept
<1>9. ASSUME NEW e \in recorded, Kept(e)
      PROVE  Kept(e)'
  <2>1. e.dut \in Dut
    BY CasesHaveItems
  <2>2. CASE e \in suites[e.dut].cases
    <3>1. e \in suites'[e.dut].cases
      BY <2>1, <2>2, <1>5
    <3>2. QED
      BY <3>1, <1>7 DEF Kept
  <2>3. CASE e \notin suites[e.dut].cases
    BY <2>3, <1>3, <1>9 DEF Kept
  <2>4. QED
    BY <2>2, <2>3
<1>10. QED
  BY <1>3, <1>6, <1>7, <1>8, <1>9 DEF KeptInv

LEMMA KeptInvStep ==
    ASSUME ReportInv, KeptInv, [Next]_vars
    PROVE  KeptInv'
<1>1. CASE Collect \/ CollectFails
  <2>1. recorded = {} /\ dumps = {} /\ recorded' = {} /\ dumps' = {}
    BY <1>1 DEF Collect, CollectFails, ReportInv, SessionTypes
  <2>2. QED
    BY <2>1 DEF KeptInv
<1>2. CASE Start
  <2>1. /\ phase = "next" /\ todo # <<>> /\ item' = Head(todo)
        /\ UNCHANGED <<session, dumps, rows, recorded>>
    BY <1>2 DEF Start
  <2>2. todo \in Seq(Items)
    BY DEF ReportInv, SessionTypes
  <2>3. 1 \in 1..Len(todo) /\ item' = todo[1]
    BY <2>1, <2>2
  <2>4. \A c \in recorded : c.item # item'
    BY <2>3 DEF ReportInv, CaseInv
  <2>5. \A x \in dumps : x.suite.cases \subseteq recorded
    BY DEF ReportInv, DumpInv, IsSuite
  <2>6. ~Running
    BY <2>1 DEF Running
  <2>7. \A c \in recorded : Kept(c) => Kept(c)'
    BY <2>1, <2>6 DEF Kept
  <2>8. DistinctNames' = DistinctNames
    BY <2>1 DEF DistinctNames, DuplicateNames, Items
  <2>9. QED
    BY <2>1, <2>4, <2>5, <2>7, <2>8 DEF KeptInv
<1>3. ASSUME NEW d \in Dut, NEW how \in {"parsed", "run"}, Records(d, how)
      PROVE  KeptInv'
  BY <1>3, RecordsKeeps
<1>4. CASE Teardown
  BY <1>4, TeardownKeeps
<1>5. ASSUME NEW dir \in Dirs, Merge(dir)
      PROVE  KeptInv'
  BY <1>5, MergeKeeps
<1>6. CASE BodyEnds \/ SessionFinish \/ MergeEnds
  BY <1>6, SameKept DEF BodyEnds, SessionFinish, MergeEnds, Running
<1>7. ASSUME NEW d \in Dut, FindsNoCase(d)
      PROVE  KeptInv'
  BY <1>7, SameKept DEF FindsNoCase, Running
<1>8. ASSUME NEW dir \in Dirs, MergeFails(dir)
      PROVE  KeptInv'
  BY <1>8, SameKept DEF MergeFails, Running
<1>9. CASE Done \/ UNCHANGED vars
  BY <1>9, SameKept DEF Done, vars, Running
<1>10. QED
  BY <1>1, <1>2, <1>3, <1>4, <1>5, <1>6, <1>7, <1>8, <1>9 DEF Next

\* The counters tell of every failed case in a row: they match the rows.
LEMMA MergeTells ==
    ASSUME ReportInv, FailedInv, NEW dir, Merge(dir)
    PROVE  FailedInv'
<1>1. failed' = (failed \/ stats'.failures > 0)
  BY DEF Merge
<1>2. ReportInv'
  BY MergeStep
<1>3. stats'.failures = Cardinality(Failing') /\ IsFiniteSet(rows')
  BY <1>2 DEF ReportInv, CountersMatchRows, SessionTypes
<1>4. Failing' \in SUBSET rows'
  BY DEF Failing, CountedRows
<1>5. IsFiniteSet(Failing') /\ Cardinality(Failing') \in Nat /\ (Cardinality(Failing') = 0 <=> Failing' = {})
  BY <1>3, <1>4, FS_Subset, FS_CardinalityType, FS_EmptySet
<1>6. ASSUME NEW r \in rows', r.unity = "yes", r.result = "FAIL"
      PROVE  failed'
  <2>1. r \in Failing'
    BY <1>6 DEF Failing, CountedRows
  <2>2. stats'.failures > 0
    BY <2>1, <1>3, <1>5
  <2>3. QED
    BY <2>2, <1>1
<1>7. failed' \in BOOLEAN
  BY <1>1, Zenon
<1>8. QED
  BY <1>6, <1>7 DEF FailedInv

LEMMA FailedInvStep ==
    ASSUME ReportInv, FailedInv, [Next]_vars
    PROVE  FailedInv'
<1>1. CASE Teardown
  <2>1. /\ rows' = rows \cup {[unity |-> "no", item |-> item, nr |-> 0, result |-> verdict]}
        /\ UNCHANGED failed
    BY <1>1 DEF Teardown
  <2>2. \A r \in rows' : r.unity = "yes" => r \in rows
    BY <2>1
  <2>3. QED
    BY <2>1, <2>2 DEF FailedInv
<1>2. ASSUME NEW dir \in Dirs, Merge(dir)
      PROVE  FailedInv'
  BY <1>2, MergeTells
<1>3. CASE UNCHANGED <<rows, failed>>
  BY <1>3 DEF FailedInv
<1>4. QED
  BY <1>1, <1>2, <1>3 DEF Next, vars, Collect, CollectFails, Start, Records, FindsNoCase, BodyEnds,
     SessionFinish, MergeFails, MergeEnds, Done

LEMMA EndInvStep ==
    ASSUME ReportInv, FailedInv, EndInv, [Next]_vars
    PROVE  EndInv'
<1> USE DEF EndInv
<1>1. CASE Collect
  BY <1>1 DEF Collect
<1>2. CASE CollectFails
  BY <1>2 DEF CollectFails
<1>3. CASE Start
  BY <1>3 DEF Start
<1>4. ASSUME NEW d \in Dut, NEW how \in {"parsed", "run"}, Records(d, how)
      PROVE  EndInv'
  BY <1>4 DEF Records
<1>5. ASSUME NEW d \in Dut, FindsNoCase(d)
      PROVE  EndInv'
  BY <1>5 DEF FindsNoCase
<1>6. CASE BodyEnds
  BY <1>6 DEF BodyEnds
<1>7. CASE Teardown
  BY <1>7 DEF Teardown
<1>8. CASE SessionFinish
  BY <1>8 DEF SessionFinish
<1>9. ASSUME NEW dir \in Dirs, Merge(dir)
      PROVE  EndInv'
  BY <1>9 DEF Merge
<1>10. ASSUME NEW dir \in Dirs, MergeFails(dir)
       PROVE  EndInv'
  BY <1>10 DEF MergeFails
<1>11. CASE MergeEnds
  BY <1>11 DEF MergeEnds, FailedInv
<1>12. CASE Done \/ UNCHANGED vars
  BY <1>12 DEF Done, vars
<1>13. QED
  BY <1>1, <1>2, <1>3, <1>4, <1>5, <1>6, <1>7, <1>8, <1>9, <1>10, <1>11, <1>12 DEF Next

\* A merge takes the row of an item away only where a case stands for it.
LEMMA MergeCovers ==
    ASSUME ReportInv, DistinctNames, NEW dir, Merge(dir), NEW i, HasRow(i)
    PROVE  HasRow(i)'
<1>1. PICK F : F = First(dir)
  OBVIOUS
<1>2. PICK z \in SUBSET RowType :
        /\ \A r \in z : r.unity = "0" /\ r.item = F.item
        /\ session.mode = "merge" => z # {}
        /\ rows' = (rows \ {F}) \cup RowsOf(MergedCases(dir)) \cup z
  BY <1>1, MergedRows
<1>3. /\ F \in rows /\ NameOf(F.item) = dir /\ dir \in Dirs
      /\ UNCHANGED <<session, recorded>>
  BY <1>1, MergedRows DEF Merge
<1>4. CASE session.mode = "replace" /\ \E c \in recorded : c.item = i
  BY <1>3, <1>4 DEF HasRow
<1>5. ASSUME NEW r \in rows, r.unity # "yes", r.item = i
      PROVE  HasRow(i)'
  <2>1. CASE r # F
    BY <2>1, <1>2, <1>5 DEF HasRow
  <2>2. CASE r = F /\ session.mode = "merge"
    <3>1. PICK q \in z : TRUE
      BY <2>2, <1>2
    <3>2. q \in rows' /\ q.unity # "yes" /\ q.item = i
      BY <3>1, <2>2, <1>2, <1>5
    <3>3. QED
      BY <3>2 DEF HasRow
  <2>3. CASE r = F /\ session.mode = "replace"
    <3>1. PICK x \in dumps : x.dir = dir
      BY <1>3 DEF Dirs
    <3>2. PICK c \in x.suite.cases : c \in recorded /\ NameOf(c.item) = dir
      BY <3>1 DEF ReportInv, DumpInv, IsSuite
    <3>3. c.item \in Items /\ F.item \in Items
      BY <3>2, <1>3, CasesHaveItems DEF ReportInv, SessionTypes, RowType
    <3>4. c.item = F.item
      BY <3>2, <3>3, <1>3, NamesAreItems
    <3>5. QED
      BY <3>2, <3>4, <2>3, <1>3, <1>5 DEF HasRow
  <2>4. session.mode \in {"replace", "merge"}
    BY SessionAssumption DEF ReportInv, SessionTypes
  <2>5. QED
    BY <2>1, <2>2, <2>3, <2>4
<1>6. QED
  BY <1>4, <1>5 DEF HasRow

LEMMA CoverInvStep ==
    ASSUME ReportInv, EndInv, CoverInv, [Next]_vars
    PROVE  CoverInv'
<1>1. session' = session
  BY DEF Next, vars, Collect, CollectFails, Start, Records, FindsNoCase, BodyEnds,
     Teardown, SessionFinish, Merge, MergeFails, MergeEnds, Done
<1>2. DistinctNames' = DistinctNames /\ MyItems' = MyItems
  BY <1>1 DEF DistinctNames, DuplicateNames, Items, MyItems
<1> DEFINE Covered(i) == (\E k \in 1..Len(todo) : todo[k] = i) \/ (Running /\ item = i) \/ HasRow(i)
<1>3. CASE Collect
  <2>1. PICK a : a = FirstItem(Len(session.items), session.count, session.index)
    OBVIOUS
  <2>2. PICK m : m = Cardinality(MyItems)
    OBVIOUS
  <2>3. todo' = [k \in 1..m |-> a + k - 1] /\ session \in Sessions
    BY <2>1, <2>2, <1>3 DEF Collect, ReportInv, SessionTypes
  <2>4. m \in Nat /\ \A i \in MyItems : \E k \in 1..m : i = a + k - 1
    BY <2>1, <2>2, <2>3, JobItemsAreItems, FS_CardinalityType
  <2>5. Len(todo') = m
    BY <2>3, <2>4
  <2>6. \A i \in MyItems : \E k \in 1..Len(todo') : todo'[k] = i
    BY <2>3, <2>4, <2>5
  <2>7. QED
    BY <2>6, <1>2 DEF CoverInv
<1>4. CASE CollectFails
  BY <1>4 DEF CollectFails, CoverInv
<1>5. CASE phase # "collect" /\ ~CollectFails /\ ~Collect
  <2>1. (exit = "error" => exit' = "error") /\ phase' # "collect"
    BY <1>5 DEF EndInv, Next, vars, Start, Records, FindsNoCase, BodyEnds,
       Teardown, SessionFinish, Merge, MergeFails, MergeEnds, Done, ReportInv, SessionTypes
  <2> SUFFICES ASSUME DistinctNames, exit' # "error", NEW i \in MyItems
               PROVE  Covered(i)'
    BY <2>1, <1>2 DEF CoverInv
  <2>2. Covered(i)
    BY <2>1, <1>5 DEF CoverInv
  <2>3. CASE Start
    <3>1. todo \in Seq(Items) /\ todo # <<>> /\ todo' = Tail(todo) /\ item' = Head(todo)
          /\ phase = "next" /\ Running' /\ UNCHANGED <<rows, recorded>>
      BY <2>3 DEF Start, Running, ReportInv, SessionTypes
    <3>2. /\ Len(todo) \in Nat \ {0} /\ item' = todo[1] /\ Len(todo') = Len(todo) - 1
          /\ \A k \in 1..Len(todo') : todo'[k] = todo[k + 1]
      BY <3>1
    <3>3. HasRow(i) => HasRow(i)'
      BY <3>1, <1>1 DEF HasRow
    <3>4. ASSUME NEW k \in 1..Len(todo), todo[k] = i
          PROVE  item' = i \/ \E l \in 1..Len(todo') : todo'[l] = i
      <4>1. CASE k = 1
        BY <4>1, <3>2, <3>4
      <4>2. CASE k # 1
        <5>1. k - 1 \in 1..Len(todo') /\ (k - 1) + 1 = k
          BY <4>2, <3>2
        <5>2. todo'[k - 1] = i
          BY <5>1, <3>2, <3>4
        <5>3. QED
          BY <5>1, <5>2
      <4>3. QED
        BY <4>1, <4>2
    <3>5. ~Running
      BY <3>1 DEF Running
    <3>6. QED
      BY <3>1, <3>3, <3>4, <3>5, <2>2
  <2>4. CASE Teardown
    <3>1. PICK r : r = [unity |-> "no", item |-> item, nr |-> 0, result |-> verdict]
      OBVIOUS
    <3>2. rows' = rows \cup {r} /\ UNCHANGED <<todo, recorded>>
      BY <3>1, <2>4 DEF Teardown
    <3>3. r.unity = "no" /\ r.item = item
      BY <3>1
    <3>4. HasRow(i) \/ item = i => HasRow(i)'
      BY <3>2, <3>3, <1>1 DEF HasRow
    <3>5. QED
      BY <3>2, <3>4, <2>2
  <2>5. ASSUME NEW dir \in Dirs, Merge(dir)
        PROVE  Covered(i)'
    <3>1. /\ phase = "merge" /\ UNCHANGED todo
      BY <2>5 DEF Merge
    <3>2. ~Running
      BY <3>1 DEF Running
    <3>3. HasRow(i) => HasRow(i)'
      BY <2>5, MergeCovers
    <3>4. QED
      BY <3>1, <3>2, <3>3, <2>2
  <2>6. ASSUME NEW d \in Dut, NEW how \in {"parsed", "run"}, Records(d, how)
        PROVE  Covered(i)'
    <3>1. UNCHANGED <<phase, todo, item, rows>> /\ recorded \subseteq recorded'
      BY <2>6 DEF Records
    <3>2. QED
      BY <3>1, <1>1, <2>2 DEF HasRow, Running
  <2>7. CASE UNCHANGED <<todo, item, rows, recorded>> /\ (Running => Running')
    BY <2>7, <1>1, <2>2 DEF HasRow
  <2>8. CASE \E d \in Dut : FindsNoCase(d)
    BY <2>7, <2>8 DEF FindsNoCase, Running
  <2>9. CASE BodyEnds \/ SessionFinish \/ MergeEnds \/ Done \/ UNCHANGED vars
    BY <2>7, <2>9 DEF BodyEnds, SessionFinish, MergeEnds, Done, vars, Running
  <2>10. CASE \E dir \in Dirs : MergeFails(dir)
    BY <2>7, <2>10 DEF MergeFails, Running
  <2>11. QED
    BY <2>3, <2>4, <2>5, <2>6, <2>8, <2>9, <2>10, <1>5 DEF Next
<1>6. CASE phase = "collect" /\ ~CollectFails /\ ~Collect
  <2>1. UNCHANGED vars
    BY <1>6 DEF Next, Start, Records, FindsNoCase, BodyEnds,
       Teardown, SessionFinish, Merge, MergeFails, MergeEnds, Done
  <2>2. QED
    BY <2>1, <1>6 DEF vars, CoverInv
<1>7. QED
  BY <1>3, <1>4, <1>5, <1>6

LEMMA WholeInvHolds == Spec => []WholeInv
<1>1. Init => WholeInv
  <2> SUFFICES ASSUME Init PROVE WholeInv
    OBVIOUS
  <2>1. ReportInv
    BY ReportInvInit
  <2>2. KeptInv /\ FailedInv /\ EndInv /\ CoverInv
    BY DEF Init, KeptInv, FailedInv, EndInv, CoverInv
  <2>3. QED
    BY <2>1, <2>2 DEF WholeInv
<1>2. WholeInv /\ [Next]_vars => WholeInv'
  BY ReportInvStep, KeptInvStep, FailedInvStep, EndInvStep, CoverInvStep DEF WholeInv
<1>3. QED
  BY <1>1, <1>2, PTL DEF Spec

\* NoFailureIsSilent: the exit status tells of every unity case that failed, in a test
\* that was skipped or after the test's verdict, when tests have names of their own
\* (pytest_runtest_call, pytest_sessionfinish).
THEOREM FailuresAreTold == Spec => []NoFailureIsSilent
<1>1. WholeInv => NoFailureIsSilent
  <2> SUFFICES ASSUME WholeInv, phase = "done", session.junit, DistinctNames, exit = "ok",
                      NEW c \in recorded, c.result = "FAIL"
               PROVE  FALSE
    BY DEF NoFailureIsSilent
  <2>1. dumps = {} /\ ~failed
    BY DEF WholeInv, EndInv, FailedInv
  <2>2. ~Running
    BY DEF Running
  <2>3. PICK r \in rows : r.unity = "yes" /\ r.nr = c.nr
    BY <2>1, <2>2 DEF WholeInv, KeptInv, Kept
  <2>4. PICK e \in recorded : e.nr = r.nr /\ e.result = r.result
    BY <2>3 DEF WholeInv, ReportInv, RowInv
  <2>5. e = c
    BY <2>3, <2>4 DEF WholeInv, ReportInv, CaseInv
  <2>6. QED
    BY <2>1, <2>3, <2>4, <2>5 DEF WholeInv, FailedInv
<1>2. QED
  BY <1>1, WholeInvHolds, PTL

\* ReportIsComplete: the merged report has every case that a DUT recorded and a row for
\* every test of the job, in both modes (JunitMerger.merge, Dut.close).
THEOREM NothingIsLost == Spec => []ReportIsComplete
<1>1. WholeInv => ReportIsComplete
  <2> SUFFICES ASSUME WholeInv, phase = "done", session.junit, DistinctNames, exit # "error"
               PROVE  /\ {r.nr : r \in {q \in rows : q.unity = "yes"}} = {c.nr : c \in recorded}
                      /\ \A i \in MyItems : HasRow(i)
    BY DEF ReportIsComplete, HasRow
  <2>1. dumps = {} /\ todo = <<>> /\ ~Running
    BY DEF WholeInv, EndInv, Running
  <2>2. \A c \in recorded : \E r \in rows : r.unity = "yes" /\ r.nr = c.nr
    BY <2>1 DEF WholeInv, KeptInv, Kept
  <2>3. \A r \in rows : r.unity = "yes" => \E c \in recorded : c.nr = r.nr
    BY DEF WholeInv, ReportInv, RowInv
  <2>4. \A i \in MyItems : HasRow(i)
    <3>1. Len(todo) = 0 /\ 1..Len(todo) = {}
      BY <2>1
    <3>2. QED
      BY <3>1, <2>1 DEF WholeInv, CoverInv
  <2>5. QED
    BY <2>2, <2>3, <2>4
<1>2. QED
  BY <1>1, WholeInvHolds, PTL

=============================================================================
