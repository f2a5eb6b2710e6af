---------------------------- MODULE ParallelJobs ----------------------------
(***************************************************************************)
(* How the collected items are dealt out to parallel jobs                  *)
(* (PytestEmbedded.pytest_collection_modifyitems).  Items and jobs are     *)
(* counted from 1; job j of `count` jobs runs the items in                 *)
(* JobItems(n, count, j).                                                  *)
(***************************************************************************)
EXTENDS Integers

PerJobRoundedDown(n, count) == n \div count

PerJob(n, count) == (n + count - 1) \div count

FirstItem(n, count, j) == PerJob(n, count) * (j - 1) + 1

LastItem(n, count, j) ==
    IF PerJob(n, count) * j < n THEN PerJob(n, count) * j ELSE n

\* Empty for the jobs that are left with nothing to do.
JobItems(n, count, j) == FirstItem(n, count, j) .. LastItem(n, count, j)

=============================================================================
