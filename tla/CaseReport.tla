----------------------------- MODULE CaseReport -----------------------------
(***************************************************************************)
(* What `run_all_single_board_cases` promises: one record for each case it *)
(* was asked to run, in the order of the menu, under that case's name, and *)
(* no record is changed or taken back.                                     *)
(***************************************************************************)
EXTENDS Naturals, Sequences

CONSTANT Result  \* what a record may say

VARIABLES
    plan,    \* the cases to be run, by their places in the menu
    report   \* the records so far: [asked, named, result]

Init == report = <<>>

\* The cases without a record.
Open == {k \in plan : \A i \in DOMAIN report : report[i].asked # k}

\* The first of them is recorded.
Record ==
    /\ \E k \in Open, r \in Result :
          /\ \A j \in Open : k <= j
          /\ report' = Append(report, [asked |-> k, named |-> k, result |-> r])
    /\ UNCHANGED plan

Spec == Init /\ [][Record]_<<plan, report>>

=============================================================================
