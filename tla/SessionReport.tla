--------------------------- MODULE SessionReport ---------------------------
(***************************************************************************)
(* One pytest session from the collected items to its exit status: which   *)
(* items a job runs, the unity cases its DUTs record, the reports they     *)
(* dump when they are closed, and the merge of those into the junit report *)
(* of pytest (unity.py; PytestEmbedded in plugin.py).                      *)
(*                                                                         *)
(* pytest itself (its outcome of a test, its rows and counters of the      *)
(* junit report, its exit status) is external.                             *)
(***************************************************************************)
EXTENDS Integers, Sequences, FiniteSets, ParallelJobs

CONSTANTS
    NDut,      \* DUTs of a test
    MaxCases,  \* bound: unity cases in a session
    Sessions   \* what may be collected, and with which options

ASSUME SessionAssumption ==
    /\ NDut \in Nat \ {0} /\ MaxCases \in Nat
    /\ \A s \in Sessions :
          /\ Len(s.items) \in Nat /\ s.count \in Nat \ {0} /\ s.index \in 1..s.count
          /\ s.mode \in {"replace", "merge"}

Dut == 1..NDut
Result == {"PASS", "FAIL", "IGNORE"}

VARIABLES
    session,   \* [items, idf, target, duplicates, index, count, mode, junit]
    phase,     \* what pytest is doing
    todo,      \* numbers of the items still to run
    item,      \* the item being run
    suites,    \* the test suite of each DUT of that item
    verdict,   \* of the body of that item
    dumps,     \* [dir, dut] :> suite: the xml files in the session's directory
    rows,      \* test cases of the junit report: of pytest and of unity
    stats,     \* attributes of its <testsuite>
    failed,    \* JunitMerger.failed
    exit,      \* the exit status of the session
    recorded   \* history: every unity case a DUT recorded

vars == <<session, phase, todo, item, suites, verdict, dumps, rows, stats,
          failed, exit, recorded>>

Zero == [failures |-> 0, skipped |-> 0, tests |-> 0]

Plus(s, t) == [a \in DOMAIN s |-> s[a] + t[a]]

One(a) == [Zero EXCEPT ![a] = 1]

EmptySuite == [cases |-> {}, stats |-> Zero]

Init ==
    /\ session \in Sessions
    /\ phase = "collect" /\ todo = <<>> /\ item = 0
    /\ suites = [d \in Dut |-> EmptySuite] /\ verdict = "pass"
    /\ dumps = {} /\ rows = {} /\ stats = Zero
    /\ failed = FALSE /\ exit = "ok" /\ recorded = {}

----------------------------------------------------------------------------
(* Collection.                                                             *)

Items == 1..Len(session.items)

MarkedWithoutIdf == ~session.idf /\ \E i \in Items : session.items[i].soc # "none"

\* For a target that is `auto` or for several DUTs the marker is ignored.
SkippedForSoc(i) == session.items[i].soc = "filtered" /\ session.target = "one"

DuplicateNames ==
    \E i, j \in Items : i # j /\ session.items[i].name = session.items[j].name

DuplicateScripts ==
    \E i, j \in Items : /\ session.items[i].script = session.items[j].script
                        /\ session.items[i].dir # session.items[j].dir

Refused == MarkedWithoutIdf \/ (session.duplicates /\ (DuplicateNames \/ DuplicateScripts))

MyItems == JobItems(Len(session.items), session.count, session.index)

Collect ==
    /\ phase = "collect" /\ ~Refused
    /\ todo' = [k \in 1..Cardinality(MyItems) |->
                    FirstItem(Len(session.items), session.count, session.index) + k - 1]
    /\ exit' = IF MyItems = {} THEN "nothing collected" ELSE "ok"
    /\ phase' = "next"
    /\ UNCHANGED <<session, item, suites, verdict, dumps, rows, stats, failed, recorded>>

CollectFails ==
    /\ phase = "collect" /\ Refused
    /\ phase' = "done" /\ exit' = "error"
    /\ UNCHANGED <<session, todo, item, suites, verdict, dumps, rows, stats, failed, recorded>>

----------------------------------------------------------------------------
(* A test.                                                                 *)

Start ==
    /\ phase = "next" /\ todo # <<>>
    /\ item' = Head(todo) /\ todo' = Tail(todo)
    /\ suites' = [d \in Dut |-> EmptySuite]
    /\ IF SkippedForSoc(item')
       THEN phase' = "teardown" /\ verdict' = "skip"
       ELSE phase' = "body" /\ verdict' = "pass"
    /\ UNCHANGED <<session, dumps, rows, stats, failed, exit, recorded>>

(***************************************************************************)
(* A case counted in the suite's attributes: parsed from the output by      *)
(* add_unity_test_cases, or run from the menu (`_add_test_case_to_test_suite`, *)
(* which counts among the tests only those that passed).                   *)
(***************************************************************************)
Count(how, r) ==
    IF r = "PASS" THEN One("tests")
    ELSE Plus(One(IF r = "FAIL" THEN "failures" ELSE "skipped"),
              IF how = "parsed" THEN One("tests") ELSE Zero)

\* In the body of a test, or in a fixture that is torn down after it.
Records(d, how) ==
    /\ phase \in {"body", "teardown"} /\ ~SkippedForSoc(item)
    /\ Cardinality(recorded) < MaxCases
    /\ \E r \in Result :
          LET case == [item |-> item, dut |-> d, nr |-> Cardinality(recorded) + 1,
                       how |-> how, result |-> r]
          IN  /\ suites' = [suites EXCEPT ![d].cases = @ \cup {case},
                                          ![d].stats = Plus(@, Count(how, r))]
              /\ recorded' = recorded \cup {case}
    /\ UNCHANGED <<session, phase, todo, item, verdict, dumps, rows, stats, failed, exit>>

\* The summary is there and no case before it: an error only in an empty suite.
FindsNoCase(d) ==
    /\ phase = "body" /\ suites[d].cases = {}
    /\ phase' = "teardown" /\ verdict' = "fail"
    /\ UNCHANGED <<session, todo, item, suites, dumps, rows, stats, failed, exit, recorded>>

FailedCases(d) == {c \in suites[d].cases : c.result = "FAIL"}

\* pytest_runtest_call: a test that passed fails for the failed cases of its DUTs.
BodyEnds ==
    /\ phase = "body"
    /\ \E v \in {"pass", "fail", "skip"} :
          verdict' = IF v = "pass" /\ \E d \in Dut : FailedCases(d) # {} THEN "fail" ELSE v
    /\ phase' = "teardown"
    /\ UNCHANGED <<session, todo, item, suites, dumps, rows, stats, failed, exit, recorded>>

\* Dut.close, into the directory that has the test's name.
DumpFirstOnly ==
    LET dir == session.items[item].name
        new == {d \in Dut : suites[d].cases # {} /\ d = 1}
    IN  {x \in dumps : ~(x.dir = dir /\ x.dut \in new)}
            \cup {[dir |-> dir, dut |-> d, suite |-> suites[d]] : d \in new}

Dump ==
    LET dir == session.items[item].name
        new == {d \in Dut : suites[d].cases # {}}
    IN  {x \in dumps : ~(x.dir = dir /\ x.dut \in new)}
            \cup {[dir |-> dir, dut |-> d, suite |-> suites[d]] : d \in new}

\* The row and the counters are pytest's.
Teardown ==
    /\ phase = "teardown"
    /\ dumps' = Dump
    /\ rows' = rows \cup {[unity |-> "no", item |-> item, nr |-> 0, result |-> verdict]}
    /\ stats' = Plus(stats, Plus(One("tests"),
                    CASE verdict = "fail" -> One("failures")
                      [] verdict = "skip" -> One("skipped")
                      [] verdict = "pass" -> Zero))
    /\ exit' = IF verdict = "fail" THEN "failed" ELSE exit
    /\ phase' = "next"
    /\ UNCHANGED <<session, todo, item, suites, verdict, failed, recorded>>

----------------------------------------------------------------------------
(* The end of the session.  The report can be merged only if there is one. *)

Dirs == {x.dir : x \in dumps}

SessionFinish ==
    /\ phase = "next" /\ todo = <<>>
    /\ phase' = IF session.junit THEN "merge" ELSE "done"
    /\ UNCHANGED <<session, todo, item, suites, verdict, dumps, rows, stats, failed, exit, recorded>>

\* First round: the suites of a directory become one.
MergedCases(dir) == UNION {x.suite.cases : x \in {y \in dumps : y.dir = dir}}

MergedStats(dir) ==
    LET Of(d) == IF \E x \in dumps : x.dir = dir /\ x.dut = d
                 THEN (CHOOSE x \in dumps : x.dir = dir /\ x.dut = d).suite.stats
                 ELSE Zero
        Upto[d \in 0..NDut] == IF d = 0 THEN Zero ELSE Plus(Upto[d - 1], Of(d))
    IN  Upto[NDut]

\* The rows of pytest a directory's name is found by; a name with a slash makes
\* directories whose last part is no test's name.
Candidates(dir) ==
    {r \in rows : r.unity # "yes" /\ session.items[r.item].name = dir
                    /\ ~session.items[r.item].slash}

First(dir) == CHOOSE r \in Candidates(dir) : \A q \in Candidates(dir) : r.item <= q.item

NewStatsKeepingFailure(dir) ==
    Plus(stats, Plus(MergedStats(dir), [Zero EXCEPT !.tests = -1]))

\* Second round: the row of pytest gives way to the unity cases of its directory,
\* or stays beside them, and counts no more.
NewStats(dir) ==
    Plus(stats, Plus(MergedStats(dir),
                     [Zero EXCEPT !.tests = -1,
                                  !.failures = IF First(dir).result = "fail" THEN -1 ELSE 0]))

Merge(dir) ==
    /\ phase = "merge" /\ dir \in Dirs /\ Candidates(dir) # {}
    /\ rows' = (rows \ {First(dir)})
                  \cup {[unity |-> "yes", item |-> c.item, nr |-> c.nr, result |-> c.result] : c \in MergedCases(dir)}
                  \cup IF session.mode = "merge" THEN {[First(dir) EXCEPT !.unity = "0"]} ELSE {}
    /\ stats' = NewStats(dir)
    /\ failed' = (failed \/ stats'.failures > 0)
    /\ dumps' = {x \in dumps : x.dir # dir}
    /\ UNCHANGED <<session, phase, todo, item, suites, verdict, exit, recorded>>

\* The ValueError leaves the report of pytest on the disk.
MergeFails(dir) ==
    /\ phase = "merge" /\ dir \in Dirs /\ Candidates(dir) = {}
    /\ phase' = "done" /\ exit' = "error"
    /\ UNCHANGED <<session, todo, item, suites, verdict, dumps, rows, stats, failed, recorded>>

MergeEndsQuietly ==
    /\ phase = "merge" /\ dumps = {}
    /\ phase' = "done"
    /\ UNCHANGED <<session, todo, item, suites, verdict, dumps, rows, stats, failed, exit, recorded>>

\* A failure in the merged report fails the session that did not fail yet.
MergeEnds ==
    /\ phase = "merge" /\ dumps = {}
    /\ phase' = "done"
    /\ exit' = IF failed /\ exit = "ok" THEN "failed" ELSE exit
    /\ UNCHANGED <<session, todo, item, suites, verdict, dumps, rows, stats, failed, recorded>>

Done == phase = "done" /\ UNCHANGED vars

Next ==
    \/ Collect \/ CollectFails \/ Start
    \/ \E d \in Dut : (\E how \in {"parsed", "run"} : Records(d, how)) \/ FindsNoCase(d)
    \/ BodyEnds \/ Teardown \/ SessionFinish
    \/ \E dir \in Dirs : Merge(dir)
    \/ \E dir \in Dirs : MergeFails(dir)
    \/ MergeEnds
    \/ Done

Spec == Init /\ [][Next]_vars

----------------------------------------------------------------------------
(* Properties.                                                             *)

\* Every collected item is run by one of the parallel jobs and by one only
\* (the ceiling division of pytest_collection_modifyitems).
JobsPartitionItems ==
    \A i \in Items :
        Cardinality({j \in 1..session.count : i \in JobItems(Len(session.items), session.count, j)}) = 1

\* The rows that count: in mode `merge` the rows of pytest that unity cases stand
\* beside do not (is_unity_case="0").
CountedRows == {r \in rows : r.unity # "0"}

Failing == {r \in CountedRows : r.result \in {"FAIL", "fail"}}

\* Cases run from the menu that failed or were ignored are in no `tests` counter.
Untold ==
    {r \in rows : r.unity = "yes" /\ \E c \in recorded : c.nr = r.nr /\ c.how = "run" /\ c.result # "PASS"}

\* `failures` and `tests` of the junit report are the numbers of its rows, while
\* rows of pytest are replaced by those of unity, of several DUTs and under names
\* that tests share (JunitMerger.merge).
CountersMatchRows ==
    /\ stats.failures = Cardinality(Failing)
    /\ stats.tests = Cardinality(CountedRows) - Cardinality(Untold)

DistinctNames == ~DuplicateNames

\* A session whose tests have names of their own does not succeed when a unity case
\* failed, be it recorded in a test that was skipped or after the test's verdict
\* (pytest_runtest_call, pytest_sessionfinish).
NoFailureIsSilent ==
    phase = "done" /\ session.junit /\ DistinctNames /\ exit = "ok"
        => \A c \in recorded : c.result # "FAIL"

\* A merged report of tests with names of their own has all the cases that their
\* DUTs recorded, and a row for every test (JunitMerger.merge, Dut.close).
ReportIsComplete ==
    phase = "done" /\ session.junit /\ DistinctNames /\ exit # "error"
        => /\ {r.nr : r \in {q \in rows : q.unity = "yes"}} = {c.nr : c \in recorded}
           /\ \A i \in MyItems : \/ \E r \in rows : r.unity # "yes" /\ r.item = i
                                 \/ session.mode = "replace" /\ \E c \in recorded : c.item = i

=============================================================================
