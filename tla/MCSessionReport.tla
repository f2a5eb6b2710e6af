-------------------------- MODULE MCSessionReport --------------------------
(***************************************************************************)
(* SessionReport for TLC.  Reports: one or two tests, of one name or of    *)
(* two, in both modes.  Jobs: three items with two and four jobs, as one   *)
(* of them.  Refusals: the markers and the duplicates.                     *)
(***************************************************************************)
EXTENDS SessionReport

Test(name) == [name |-> name, script |-> name, dir |-> 1, soc |-> "none", slash |-> FALSE]

Session(items) ==
    [items |-> items, idf |-> TRUE, target |-> "one", duplicates |-> FALSE,
     index |-> 1, count |-> 1, mode |-> "replace", junit |-> TRUE]

Reports ==
    {[Session(i) EXCEPT !.mode = m] :
        i \in {<<Test("a"), Test("b")>>, <<Test("a"), [Test("a") EXCEPT !.dir = 2]>>},
        m \in {"replace", "merge"}}
    \cup {[Session(<<Test("a")>>) EXCEPT !.junit = FALSE],
          Session(<<[Test("a") EXCEPT !.slash = TRUE]>>)}

Filtered == [Test("a") EXCEPT !.soc = "filtered"]

Jobs ==
    {[Session(<<Test("a"), Filtered, Test("c")>>) EXCEPT !.count = n, !.index = n, !.target = t] :
        n \in {2, 4}, t \in {"one", "auto"}}

Refusals ==
    {[Session(<<Filtered>>) EXCEPT !.idf = FALSE],
     [Session(<<Test("a"), Test("a")>>) EXCEPT !.duplicates = TRUE],
     [Session(<<Test("a"), [Test("b") EXCEPT !.script = "a", !.dir = 2]>>) EXCEPT !.duplicates = TRUE]}

AllSessions == Reports \cup Jobs \cup Refusals

=============================================================================
