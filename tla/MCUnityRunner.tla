--------------------------- MODULE MCUnityRunner ---------------------------
(***************************************************************************)
(* UnityRunner for TLC: a menu with a normal case, a case of two stages, a *)
(* case that is ignored and one for several devices.  The indices are no   *)
(* numbers of stages.                                                      *)
(***************************************************************************)
EXTENDS UnityRunner

Menu == << [tags |-> {"a"}, stages |-> 0,
            attributes |-> {<<"env", "x">>, <<"slow", "no">>}, results |-> {"PASS"}],
           [tags |-> {"b", "multi_stage"}, stages |-> 2,
            attributes |-> {<<"env", "y">>}, results |-> Outcomes],
           [tags |-> {"a", "ignore"}, stages |-> 0,
            attributes |-> {<<"env", "x">>}, results |-> Outcomes],
           [tags |-> {"b", "multi_device"}, stages |-> 2,
            attributes |-> {}, results |-> Outcomes] >>

Call(reset, kind, slow) ==
    [reset |-> reset, kind |-> kind, slow |-> slow, groups |-> {}, names |-> {},
     attributes |-> {}, ignored |-> FALSE]

\* Boards of every kind that answer in time, with and without resets; where the board can
\* be reset, the ignored case as well.
InTimeCalls == {[Call(r, k, FALSE) EXCEPT !.ignored = (k = "board")] :
                  r \in BOOLEAN, k \in {"board", "line", "none"}}

\* By group, name and attributes, on boards slower than the timeouts.
SlowCalls ==
    LET OfB == {{[tag |-> "b", invert |-> FALSE]}}
    IN  {[Call(FALSE, "none", TRUE) EXCEPT !.groups = OfB],
         [Call(FALSE, "board", TRUE) EXCEPT !.groups = OfB,
            !.attributes = {<<"env", "x">>, <<"slow", "no">>}]}

\* The ignored case too, by its group; a name that is not for a single board.
IgnoredCalls ==
    {[Call(TRUE, "board", FALSE) EXCEPT
        !.groups = {{[tag |-> "b", invert |-> TRUE], [tag |-> "a", invert |-> FALSE]}},
        !.names = {4}, !.ignored = TRUE]}

AllCalls == InTimeCalls \cup SlowCalls \cup IgnoredCalls

=============================================================================
