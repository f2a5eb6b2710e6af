----------------------------- MODULE MultiDevice -----------------------------
(***************************************************************************)
(* The multi-device cases of esp-idf's unit tests: `CaseTester` runs the   *)
(* cases of the menu one after the other; for each of them                 *)
(* `MultiDevRunTestManager.gather` polls, in rounds, one generator         *)
(* (`_MultiDevTestDut.run_case`) per DUT, which starts the sub-case of its *)
(* DUT, hands the signals the devices print on to the other generators,    *)
(* and reports the result.                                                 *)
(*                                                                         *)
(* The devices run beside them.  Their firmware (the menu of esp-idf's     *)
(* unity runner) is not part of the repository; it is modelled from what   *)
(* unity_tester.py waits for and writes.                                   *)
(***************************************************************************)
EXTENDS Integers, FiniteSets, Sequences, SequencesExt

CONSTANTS
    NDut,        \* the number of devices, and of sub-cases of a case
    NCase,       \* the cases of the menu
    CaseIndex,   \* CaseIndex[k]: the number that starts case k
    Script,      \* Script[k][i]: what sub-case i of case k does, a sequence of
                 \* operations [op |-> "send" or "wait", sig |-> a signal]
    StartRetry,  \* `start_retry`
    Reset,       \* the `reset` argument of run_multi_dev_case
    Slow,        \* may a device that got the index need more than the timeout
                 \* of one second to show the name of the case?
    Hangs,       \* may a device hang?
    WriteFails,  \* may `Dut.write` raise?
    MaxPolls     \* bound: the fruitless polls a timeout lasts at most

Dut == 1..NDut
Case == 1..NCase

ASSUME SizeAssumption == {NDut, NCase, StartRetry} \subseteq Nat \ {0} /\ MaxPolls \in Nat
ASSUME FlagAssumption == {Reset, Slow, Hangs, WriteFails} \subseteq BOOLEAN

Signals == UNION {{l.sig : l \in Range(Script[t[1]][t[2]])} : t \in Case \X Dut}

ASSUME MenuAssumption ==
    /\ CaseIndex \in [Case -> Nat \ {0}]
    /\ \A j, k \in Case : CaseIndex[j] = CaseIndex[k] => j = k
    /\ Script \in [Case -> [Dut -> Seq([op : {"send", "wait"}, sig : Signals])]]

VARIABLES
    at,       \* the tester: "gather", "between" two cases, or "raised"
    case,     \* the case it is at
    turn,     \* the worker whose turn it is in the round; NDut + 1 at its end
    wpc,      \* wpc[d]: the generator of d: "ready", "name", "run", "wait",
              \* "done" (response.completed) or "raised"
    data,     \* data[d]: the result in `response.data`
    retry,    \* retry[d]: `retry`
    polls,    \* polls[d]: fruitless polls since the running timeout started
    waitSig,  \* waitSig[d]: `wait_sig`
    query,    \* query[d]: `shared_message_query`, signals for d not yet used
    report,   \* report[k]: the verdict on case k in the test suite, or "none"
    dev,      \* dev[d]: the device: its state, case, sub-case, next operation
    in, out,  \* in[d], out[d]: the lines on the way to and from the device;
              \* out[d] is also the buffer of the DUT's `expect`
    did,      \* did[d]: what device d has done, a sequence of events (history)
    handed,   \* handed[d]: the signals of d handed on in this case (history)
    taken     \* taken[d]: the signals that released d in this case (history)

workerVars == <<wpc, data, retry, polls, waitSig>>
deviceVars == <<dev, in, out, did>>
vars == <<at, case, turn, workerVars, query, report, deviceVars, handed, taken>>

Each(v) == [d \in Dut |-> v]

\* What the line of a result says: UNITY_BASIC_REGEX, UNITY_FIXTURE_REGEX.
Outcomes == {"PASS", "FAIL", "IGNORE"}

\* A line of output, or an event: its kind, the case it belongs to, and the
\* signal or the result.
Line(t, c, v) == [t |-> t, c |-> c, i |-> 0, v |-> v]

\* The event of sub-case i of case c that ends with r.
Concluded(c, i, r) == [Line("result", c, r) EXCEPT !.i = i]
Ready == Line("ready", 0, "")

Booting == [st |-> "boot", case |-> 0, sub |-> 0, ip |-> 0]

FreshWorkers ==
    /\ turn' = 1
    /\ wpc' = Each("ready")
    /\ data' = Each("none")
    /\ retry' = Each(0)
    /\ polls' = Each(0)
    /\ waitSig' = Each("")
    /\ handed' = Each(<<>>)
    /\ taken' = Each(<<>>)

Init ==
    /\ at = "gather"
    /\ case = 1
    /\ turn = 1
    /\ wpc = Each("ready")
    /\ data = Each("none")
    /\ retry = Each(0)
    /\ polls = Each(0)
    /\ waitSig = Each("")
    /\ query = Each(<<>>)
    /\ report = [k \in Case |-> "none"]
    /\ dev = Each(Booting)
    /\ in = Each(<<>>)
    /\ out = Each(<<>>)
    /\ did = Each(<<>>)
    /\ handed = Each(<<>>)
    /\ taken = Each(<<>>)

-----------------------------------------------------------------------------
(* What a worker does with its DUT. *)

\* `dut.write(x)`: a device that boots loses what is written to it.
Write(d, x) ==
    in' = IF dev[d].st = "boot" THEN in ELSE [in EXCEPT ![d] = Append(@, x)]

\* A match takes the buffer up to line i.
Consume(d, i) == out' = [out EXCEPT ![d] = SubSeq(@, i + 1, Len(@))]

\* A pattern: the kinds of line it matches.  `case.name` is in the line that starts
\* the case and in the one of its result.
ReadyPattern == {"ready"}
NamePattern == {"name", "result"}

\* `signal_pattern_list`
SignalPattern == {"send", "wait", "end"}

\* The first line `expect` finds the pattern in, 0 if there is none.
Find(d, pattern) ==
    SelectInSeq(out[d], LAMBDA l : l.t \in pattern /\ (pattern = NamePattern => l.c = case))

\* `_parse_unity_test_output`: the last result in the text, FAIL if there is none.
ParsedResult(lines) ==
    LET rs == {i \in DOMAIN lines : lines[i].t = "result"}
    IN  IF rs = {} THEN "FAIL" ELSE lines[CHOOSE i \in rs : \A j \in rs : j <= i].v

\* The generator of d is over, and r is its result.
Complete(d, r) ==
    /\ wpc' = [wpc EXCEPT ![d] = "done"]
    /\ data' = [data EXCEPT ![d] = r]

MyTurn(d) == at = "gather" /\ turn = d /\ turn' = d + 1

\* What no worker touches.
Outside == UNCHANGED <<at, case, report, dev, did>>

\* `next()` of a worker that is done returns its response again.
SkipDone(d) ==
    /\ MyTurn(d)
    /\ wpc[d] = "done"
    /\ UNCHANGED <<workerVars, query, in, out, handed, taken>>
    /\ Outside

\* The menu is there: the index of the case is written.  An exception in here is
\* a failure before the run.
SeeReady(d) ==
    /\ MyTurn(d)
    /\ wpc[d] = "ready"
    /\ Find(d, ReadyPattern) # 0
    /\ Consume(d, Find(d, ReadyPattern))
    /\ \/ /\ Write(d, CaseIndex[case])
          /\ wpc' = [wpc EXCEPT ![d] = "name"]
          /\ polls' = [polls EXCEPT ![d] = 0]
          /\ UNCHANGED data
       \/ /\ WriteFails
          /\ Complete(d, "PRE_RUN_FAILURE")
          /\ UNCHANGED <<in, polls>>
    /\ UNCHANGED <<retry, waitSig, query, handed, taken>>
    /\ Outside

\* The case has started: the number of the sub-case is written.  An exception of
\* this write is not caught in run_case.
SeeName(d) ==
    /\ MyTurn(d)
    /\ wpc[d] = "name"
    /\ Find(d, NamePattern) # 0
    /\ Consume(d, Find(d, NamePattern))
    /\ \/ /\ Write(d, d)
          /\ wpc' = [wpc EXCEPT ![d] = "run"]
          /\ polls' = [polls EXCEPT ![d] = 0]
       \/ /\ WriteFails
          /\ wpc' = [wpc EXCEPT ![d] = "raised"]
          /\ UNCHANGED <<in, polls>>
    /\ UNCHANGED <<data, retry, waitSig, query, handed, taken>>
    /\ Outside

\* The signal goes to every other worker.
HandOn(d, s) ==
    query' = [e \in Dut |-> IF e = d THEN query[e] ELSE Append(query[e], s)]

\* Back in the loop of run_case: the time of the case may be up.
RunOn(d) ==
    \/ wpc' = [wpc EXCEPT ![d] = "run"] /\ UNCHANGED data
    \/ Complete(d, "FAIL")

SeeSend(d) ==
    LET i == Find(d, SignalPattern)
    IN  /\ MyTurn(d)
        /\ wpc[d] = "run"
        /\ i # 0
        /\ out[d][i].t = "send"
        /\ Consume(d, i)
        /\ HandOn(d, out[d][i].v)
        /\ handed' = [handed EXCEPT ![d] = Append(@, out[d][i].v)]
        /\ RunOn(d)
        /\ UNCHANGED <<retry, polls, waitSig, in, taken>>
        /\ Outside

SeeWait(d) ==
    LET i == Find(d, SignalPattern)
    IN  /\ MyTurn(d)
        /\ wpc[d] = "run"
        /\ i # 0
        /\ out[d][i].t = "wait"
        /\ Consume(d, i)
        /\ waitSig' = [waitSig EXCEPT ![d] = out[d][i].v]
        /\ wpc' = [wpc EXCEPT ![d] = "wait"]
        /\ UNCHANGED <<data, retry, polls, query, in, handed, taken>>
        /\ Outside

\* The summary of the case: the result is parsed from the text before it.
SeeEnd(d) ==
    LET i == Find(d, SignalPattern)
    IN  /\ MyTurn(d)
        /\ wpc[d] = "run"
        /\ i # 0
        /\ out[d][i].t = "end"
        /\ Consume(d, i)
        /\ Complete(d, ParsedResult(SubSeq(out[d], 1, i)))
        /\ UNCHANGED <<retry, polls, waitSig, query, in, handed, taken>>
        /\ Outside

\* Mutant: the signal is left in the queue.
UnqueueNothing(d) == UNCHANGED query

\* `shared_message_query[dut_index].remove(...)`
Unqueue(d) ==
    query' = [query EXCEPT ![d] = RemoveFirst(@, waitSig[d])]

\* The signal has come: the device that waits for it is released.
TakeSignal(d) ==
    /\ MyTurn(d)
    /\ wpc[d] = "wait"
    /\ Contains(query[d], waitSig[d])
    /\ Unqueue(d)
    /\ \/ /\ Write(d, 0)
          /\ RunOn(d)
       \/ /\ WriteFails
          /\ wpc' = [wpc EXCEPT ![d] = "raised"]
          /\ UNCHANGED <<data, in>>
    /\ taken' = [taken EXCEPT ![d] = Append(@, waitSig[d])]
    /\ UNCHANGED <<retry, polls, waitSig, out, handed>>
    /\ Outside

\* What d is waiting for is not there.
Fruitless(d) ==
    \/ wpc[d] = "ready" /\ Find(d, ReadyPattern) = 0
    \/ wpc[d] = "name" /\ Find(d, NamePattern) = 0
    \/ wpc[d] = "run" /\ Find(d, SignalPattern) = 0
    \/ wpc[d] = "wait" /\ ~Contains(query[d], waitSig[d])

\* The device has the index and is about to show the name of the case.
Answering(d) == dev[d].st = "menu" /\ in[d] # <<>>

TimeMayBeUp(d) == wpc[d] = "name" => Slow \/ ~Answering(d)

PollAgain(d) ==
    /\ MyTurn(d)
    /\ Fruitless(d)
    /\ polls[d] < MaxPolls \/ ~TimeMayBeUp(d)
    /\ polls' = [polls EXCEPT ![d] = IF @ < MaxPolls THEN @ + 1 ELSE @]
    /\ UNCHANGED <<wpc, data, retry, waitSig, query, in, out, handed, taken>>
    /\ Outside

\* No name in time: the index is written again.
RetryStart(d) ==
    /\ MyTurn(d)
    /\ wpc[d] = "name"
    /\ Fruitless(d)
    /\ TimeMayBeUp(d)
    /\ retry[d] < StartRetry - 1
    /\ \/ /\ Write(d, CaseIndex[case])
          /\ retry' = [retry EXCEPT ![d] = @ + 1]
          /\ polls' = [polls EXCEPT ![d] = 0]
          /\ UNCHANGED <<wpc, data>>
       \/ /\ WriteFails
          /\ Complete(d, "PRE_RUN_FAILURE")
          /\ UNCHANGED <<in, retry, polls>>
    /\ UNCHANGED <<waitSig, query, out, handed, taken>>
    /\ Outside

\* No menu in time, or no name after the last retry.
GiveUpStart(d) ==
    /\ MyTurn(d)
    /\ \/ wpc[d] = "ready"
       \/ wpc[d] = "name" /\ retry[d] >= StartRetry - 1
    /\ Fruitless(d)
    /\ TimeMayBeUp(d)
    /\ Complete(d, "PRE_RUN_FAILURE")
    /\ UNCHANGED <<retry, polls, waitSig, query, in, out, handed, taken>>
    /\ Outside

\* TIMEOUT of `dut.expect`.  Its message quotes the buffer, and the message is
\* what the result is parsed from.
RunTimeout(d) ==
    /\ MyTurn(d)
    /\ wpc[d] = "run"
    /\ Fruitless(d)
    /\ Complete(d, ParsedResult(out[d]))
    /\ UNCHANGED <<retry, polls, waitSig, query, in, out, handed, taken>>
    /\ Outside

\* Mutant: a wait for a signal has no end.
WaitForEver(d) ==
    /\ MyTurn(d)
    /\ wpc[d] = "wait"
    /\ Fruitless(d)
    /\ UNCHANGED <<workerVars, query, in, out, handed, taken>>
    /\ Outside

\* TIMEOUT('Not receive signal ...')
WaitTimeout(d) ==
    /\ MyTurn(d)
    /\ wpc[d] = "wait"
    /\ Fruitless(d)
    /\ Complete(d, "FAIL")
    /\ UNCHANGED <<retry, polls, waitSig, query, in, out, handed, taken>>
    /\ Outside

\* A generator that has raised in this round is not asked again.
Worker(d) ==
    \/ SkipDone(d)
    \/ SeeReady(d)
    \/ SeeName(d)
    \/ SeeSend(d)
    \/ SeeWait(d)
    \/ SeeEnd(d)
    \/ TakeSignal(d)
    \/ PollAgain(d)
    \/ RetryStart(d)
    \/ GiveUpStart(d)
    \/ RunTimeout(d)
    \/ WaitTimeout(d)

-----------------------------------------------------------------------------
(* `gather` at the end of a round, and the tester. *)

\* Mutant: the first worker's result is the verdict.
MergedFirst(results) == results[1]

\* Mutant: an IGNORE is looked for before a FAIL.
MergedIgnoreFirst(results) ==
    IF \E d \in Dut : results[d] \in {"PRE_RUN_FAILURE", "IGNORE"} THEN "IGNORE"
    ELSE IF \E d \in Dut : results[d] = "FAIL" THEN "FAIL"
    ELSE "PASS"

\* The result of get_merge_data.
Merged(results) ==
    IF \E d \in Dut : results[d] = "PRE_RUN_FAILURE" THEN "IGNORE"
    ELSE IF \E d \in Dut : results[d] = "FAIL" THEN "FAIL"
    ELSE IF \E d \in Dut : results[d] = "IGNORE" THEN "IGNORE"
    ELSE "PASS"

EndOfRound == at = "gather" /\ turn = NDut + 1

\* `raise Exception('There are Exception: ', er)`: no verdict is recorded.
GatherRaises ==
    /\ EndOfRound
    /\ \E d \in Dut : wpc[d] = "raised"
    /\ at' = "raised"
    /\ UNCHANGED <<case, turn, workerVars, query, report, deviceVars, handed, taken>>

\* Every worker is done: the merged verdict goes to the test suite.
GatherReturns ==
    /\ EndOfRound
    /\ \A d \in Dut : wpc[d] = "done"
    /\ report' = [report EXCEPT ![case] = Merged(data)]
    /\ at' = "between"
    /\ UNCHANGED <<case, turn, workerVars, query, deviceVars, handed, taken>>

\* Another round; after a FAIL every other worker is interrupted.
NextRound ==
    /\ EndOfRound
    /\ \A d \in Dut : wpc[d] # "raised"
    /\ \E d \in Dut : wpc[d] # "done"
    /\ IF \E d \in Dut : data[d] = "FAIL"
       THEN /\ wpc' = Each("done")
            /\ data' = [d \in Dut |-> IF wpc[d] = "done" THEN data[d] ELSE "FAIL"]
       ELSE UNCHANGED <<wpc, data>>
    /\ turn' = 1
    /\ UNCHANGED <<at, case, retry, polls, waitSig, query, report, deviceVars,
                   handed, taken>>

\* Mutant: the queues belong to the tester, not to the manager of one case.
FreshQueryKept == UNCHANGED query

\* `shared_query = [[] for _ in case.subcases]`
FreshQuery == query' = Each(<<>>)

\* run_multi_dev_case for the next case: the devices are reset if asked for, and
\* the manager gets new workers.
NextCase ==
    /\ at = "between"
    /\ case < NCase
    /\ at' = "gather"
    /\ case' = case + 1
    /\ FreshWorkers
    /\ FreshQuery
    /\ IF Reset
       THEN dev' = Each(Booting) /\ in' = Each(<<>>)
       ELSE UNCHANGED <<dev, in>>
    /\ UNCHANGED <<report, out, did>>

\* All cases are done, or an exception has ended the test.
Over ==
    /\ at = "raised" \/ (at = "between" /\ case = NCase)
    /\ UNCHANGED vars

Tester ==
    \/ \E d \in Dut : Worker(d)
    \/ GatherRaises
    \/ GatherReturns
    \/ NextRound
    \/ NextCase

-----------------------------------------------------------------------------
(* The devices (firmware). *)

\* The device of d changes to x, reads one line if r, prints ls, and does es.
Device(d, x, r, ls, es) ==
    /\ dev' = [dev EXCEPT ![d] = x]
    /\ r => in[d] # <<>>
    /\ in' = IF r THEN [in EXCEPT ![d] = Tail(@)] ELSE in
    /\ out' = [out EXCEPT ![d] = @ \o ls]
    /\ did' = [did EXCEPT ![d] = @ \o es]
    /\ UNCHANGED <<at, case, turn, workerVars, query, report, handed, taken>>

AtMenu(d) == [dev[d] EXCEPT !.st = "menu"]

Boot(d) ==
    /\ dev[d].st = "boot"
    /\ Device(d, AtMenu(d), FALSE, <<Ready>>, <<>>)

\* A number of the menu starts its case; anything else shows the menu again.
ReadIndex(d) ==
    /\ dev[d].st = "menu"
    /\ in[d] # <<>>
    /\ \/ \E k \in Case :
            /\ CaseIndex[k] = Head(in[d])
            /\ Device(d, [st |-> "sub", case |-> k, sub |-> 0, ip |-> 0], TRUE,
                      <<Line("name", k, "")>>, <<>>)
       \/ /\ \A k \in Case : CaseIndex[k] # Head(in[d])
          /\ Device(d, dev[d], TRUE, <<Ready>>, <<>>)

\* The number of a sub-case runs it; any other ends the case with nothing run.
ReadSubCase(d) ==
    /\ dev[d].st = "sub"
    /\ in[d] # <<>>
    /\ IF Head(in[d]) \in Dut
       THEN Device(d, [dev[d] EXCEPT !.st = "run", !.sub = Head(in[d]), !.ip = 1],
                   TRUE, <<>>, <<>>)
       ELSE Device(d, AtMenu(d), TRUE, <<Line("end", dev[d].case, ""), Ready>>, <<>>)

Steps(d) == Script[dev[d].case][dev[d].sub]

\* unity_send_signal()
SendSignal(d) ==
    LET l == Line("send", dev[d].case, Steps(d)[dev[d].ip].sig)
    IN  /\ dev[d].st = "run"
        /\ dev[d].ip <= Len(Steps(d))
        /\ Steps(d)[dev[d].ip].op = "send"
        /\ Device(d, [dev[d] EXCEPT !.ip = @ + 1], FALSE, <<l>>, <<l>>)

\* unity_wait_for_signal()
WaitForSignal(d) ==
    LET l == Line("wait", dev[d].case, Steps(d)[dev[d].ip].sig)
    IN  /\ dev[d].st = "run"
        /\ dev[d].ip <= Len(Steps(d))
        /\ Steps(d)[dev[d].ip].op = "wait"
        /\ Device(d, [dev[d] EXCEPT !.st = "blocked"], FALSE, <<l>>, <<>>)

\* Any line that comes releases the wait.
Released(d) ==
    /\ dev[d].st = "blocked"
    /\ Device(d, [dev[d] EXCEPT !.st = "run", !.ip = @ + 1], TRUE, <<>>,
              <<Line("passed", dev[d].case, Steps(d)[dev[d].ip].sig)>>)

\* The sub-case ends: a test can fail, or give up with TEST_IGNORE(), anywhere.
Conclude(d) ==
    /\ dev[d].st = "run"
    /\ \E r \in Outcomes :
         /\ r = "PASS" => dev[d].ip > Len(Steps(d))
         /\ Device(d, [dev[d] EXCEPT !.st = "ended"], FALSE,
                   <<Line("result", dev[d].case, r)>>,
                   <<Concluded(dev[d].case, dev[d].sub, r)>>)

\* UNITY_END(), and the menu's prompt.
Summary(d) ==
    /\ dev[d].st = "ended"
    /\ Device(d, AtMenu(d), FALSE, <<Line("end", dev[d].case, ""), Ready>>,
              <<Line("end", dev[d].case, "")>>)

Hang(d) ==
    /\ Hangs
    /\ dev[d].st \in {"menu", "sub", "run", "ended"}
    /\ Device(d, [dev[d] EXCEPT !.st = "hung"], FALSE, <<>>, <<>>)

Firmware(d) ==
    \/ Boot(d)
    \/ ReadIndex(d)
    \/ ReadSubCase(d)
    \/ SendSignal(d)
    \/ WaitForSignal(d)
    \/ Released(d)
    \/ Conclude(d)
    \/ Summary(d)

Next ==
    \/ Tester
    \/ \E d \in Dut : Firmware(d) \/ Hang(d)
    \/ Over

Spec == Init /\ [][Next]_vars

\* The tester runs on, and a device that does not hang runs on, too.
Fairness == WF_vars(Tester) /\ \A d \in Dut : WF_vars(Firmware(d))

FairSpec == Spec /\ Fairness

-----------------------------------------------------------------------------
(* Properties. *)

\* How often x occurs in the sequences f[e] of the devices e in D.
Occurrences(f, D, x) ==
    Cardinality(UNION {{<<e, i>> : i \in {j \in DOMAIN f[e] : f[e][j] = x}} : e \in D})

\* A signal is handed on to every other worker, and used up by one wait: what d has
\* used and what is in its queue is what the others have handed on in this case.
SignalsConserved ==
    \A d \in Dut, s \in Signals :
      Occurrences(taken, {d}, s) + Occurrences(query, {d}, s)
        = Occurrences(handed, Dut \ {d}, s)

\* The purpose of the signals: the n-th time a device gets past a wait for a signal
\* in a case, the other devices have sent it n times in that very case.
WaitsForOthers ==
    \A d \in Dut, k \in Case, s \in Signals :
      Occurrences(did, {d}, Line("passed", k, s))
        <= Occurrences(did, Dut \ {d}, Line("send", k, s))

Did(d, l) == Contains(did[d], l)

\* A case is reported as passed only if each device has passed its own sub-case of
\* it: never on the output of another case, another sub-case or another device.
PassMeansPassed ==
    \A k \in Case : report[k] = "PASS" =>
      \A d \in Dut : Did(d, Concluded(k, d, "PASS"))

\* A case is reported as ignored for one of two reasons only. Some device has ended no
\* sub-case of it, or all have ended their own with PASS or IGNORE and one with IGNORE.
IgnoredIsExplained ==
    \A k \in Case : report[k] = "IGNORE" =>
      \/ \E d \in Dut : \A i \in Dut, r \in Outcomes : ~Did(d, Concluded(k, i, r))
      \/ /\ \A d \in Dut : \E r \in {"PASS", "IGNORE"} : Did(d, Concluded(k, d, r))
         /\ \E d \in Dut : Did(d, Concluded(k, d, "IGNORE"))

\* Every case comes to an end, also when devices hang, wait for each other or fail.
GatherEnds == \A k \in Case : (at = "gather" /\ case = k) ~> (at # "gather" \/ case # k)

=============================================================================
