--------------------------- MODULE MCMultiDevice ---------------------------
(***************************************************************************)
(* Menus for checking MultiDevice with TLC. The cases are cut down from    *)
(* `multiple_devices_test` of tests/fixtures/unit_test_app_idf to the      *)
(* shapes that matter: a signal that releases, one that comes twice, one   *)
(* that never comes.                                                       *)
(***************************************************************************)
EXTENDS MultiDevice

Send(s) == [op |-> "send", sig |-> s]
Wait(s) == [op |-> "wait", sig |-> s]

\* The indices are no numbers of sub-cases: a menu of more than two cases whose
\* multi-device cases come last, two of them or one.
LaterIndex == <<3, 4>>
LaterIndex1 == <<3>>

\* A repeated signal of which one is left over, and in the end both devices wait for
\* a signal nobody sends.
Stuck == << << <<Send("a"), Send("a"), Wait("b")>>, <<Wait("a"), Wait("b")>> >> >>

\* A case whose first sub-case ends without the second.
Teller == <<Send("a")>>
Listener == <<Wait("a")>>
\* Two cases with the same signal, which nobody sends in the second one.
TwoCases == << <<Teller, Listener>>, << <<>>, Listener>> >>

=============================================================================
