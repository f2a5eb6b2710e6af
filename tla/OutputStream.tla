---------------------------- MODULE OutputStream ----------------------------
(***************************************************************************)
(* What the redirect pipeline of pytest-embedded promises a test, without  *)
(* queues, processes or files: everything the daemons of a DUT print       *)
(* becomes visible to `Dut.expect` piece by piece, in the order in which   *)
(* it was printed, and a new test case starts from nothing.                *)
(***************************************************************************)
EXTENDS Naturals, Sequences

CONSTANTS
    Dut,    \* the devices under test of one test case
    Chunk   \* the pieces of output a daemon can put into a `msg_queue`

VARIABLES
    sent,   \* sent[d]: what the daemons of d have printed in this test case
    seen    \* seen[d]: what the logfile of d shows of it

streamVars == <<sent, seen>>

Nothing == [d \in Dut |-> <<>>]

StreamInit ==
    /\ sent = Nothing
    /\ seen = Nothing

\* A daemon of d prints c.
Send(d, c) ==
    /\ sent' = [sent EXCEPT ![d] = Append(@, c)]
    /\ UNCHANGED seen

\* The next piece of output of d becomes visible.
Show(d) ==
    /\ Len(seen[d]) < Len(sent[d])
    /\ seen' = [seen EXCEPT ![d] = Append(@, sent[d][Len(seen[d]) + 1])]
    /\ UNCHANGED sent

\* The next test case begins; what was still under way is gone.
Restart ==
    /\ sent' = Nothing
    /\ seen' = Nothing

StreamNext ==
    \/ \E d \in Dut : (\E c \in Chunk : Send(d, c)) \/ Show(d)
    \/ Restart

StreamSpec == StreamInit /\ [][StreamNext]_streamVars

=============================================================================
