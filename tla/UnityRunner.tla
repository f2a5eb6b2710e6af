---------------------------- MODULE UnityRunner ----------------------------
(***************************************************************************)
(* `IdfUnityDutMixin`: the unit tests of one board, run one after the      *)
(* other through the menu its firmware prints.  The runner writes lines,   *)
(* waits for prompts and results, repeats what is not confirmed, resets    *)
(* the board and starts a case a second time, and takes a case of several  *)
(* stages through all of them.  It records one result per case.            *)
(***************************************************************************)
EXTENDS Naturals, Sequences

CONSTANTS
    Lines,       \* the menu: [tags, stages, attributes, results] per case, tags a set of
                 \* strings, attributes a set of <<key, value>>; results is not in the
                 \* menu: what the case, or a stage of it, may print at its end
    FirstIndex,  \* the index of the first case of the menu
    Configs      \* [reset, kind, slow, groups, names, attributes, ignored]: how the
                 \* runner is called and what board it meets, see `config`

ASSUME FirstIndexAssumption == FirstIndex \in Nat \ {0}
\* The results that UNITY_BASIC_REGEX and UNITY_FIXTURE_REGEX know.
Outcomes == {"PASS", "FAIL", "IGNORE"}

ASSUME LinesAssumption ==
    /\ Len(Lines) \in Nat
    /\ \A k \in 1..Len(Lines) : Lines[k].stages \in Nat /\ Lines[k].results \subseteq Outcomes

VARIABLES
    config,   \* never changes: `reset`, `groups`, `names`, `attributes`, `ignored`
              \* (run_ignore_cases) are arguments; `kind` says what hard_reset does
              \* ("board": resets, "line": writes a line, "none": NotImplementedError);
              \* `slow` whether the board may be slower than any timeout
    pc,       \* what the runner is waiting for
    case,     \* the case it is running, 0 before the first
    attempt,  \* of _prepare_and_start_case: 1 or 2
    tries,    \* of confirm_write
    stage,    \* the stages of the case that were started
    failed,   \* the name in the first of `failed_subcases`, 0 if there is none
    late,     \* the sub-case loop has raised
    ignoreReady, \* `_ignore_first_ready_pattern`
    report,   \* the test suite: [asked, named, result] per record; "SKIPPED" is the
              \* result IGNORE with the message "Skipped due to a failure before test
              \* execution", "IGNORE" one that the board has printed
    out,      \* what the board has printed and nobody has matched yet
    inp,      \* the lines written to the board and not yet read
    dev,      \* the firmware: [st, case, stage]
    did,      \* history: the <<case, stage, outcome>> the board got to
    hung      \* history: the cases during which the board hung

runnerVars == <<pc, case, attempt, tries, stage, failed, late, ignoreReady, report>>
boardVars == <<out, inp, dev, did, hung>>
vars == <<config, runnerVars, boardVars>>

-----------------------------------------------------------------------------
(* The menu. *)

\* _parse_unity_menu_from_str: what becomes of the tags of a line.
TypeOf(l) ==
    IF "multi_stage" \in l.tags THEN "multi_stage"
    ELSE IF "multi_device" \in l.tags THEN "multi_device" ELSE "normal"

Ignored(l) == l.tags \cap {"ignore", "disable"} # {}

Groups(l) == l.tags \ {TypeOf(l), IF "ignore" \in l.tags THEN "ignore" ELSE "disable"}

Case == 1..Len(Lines)

Index(k) == FirstIndex + k - 1

\* _select_to_run.  `groups` is a disjunction of conjunctions of [tag, invert].
Selected(k) ==
    \/ config.groups = {} /\ config.names = {} /\ config.attributes = {}
    \/ \E conj \in config.groups :
          \A lit \in conj : (lit.tag \in Groups(Lines[k])) # lit.invert
    \/ k \in config.names
    \/ config.attributes # {} /\ config.attributes \subseteq Lines[k].attributes

\* run_all_single_board_cases: the cases that are run.
Runs(k) ==
    /\ Selected(k)
    /\ Ignored(Lines[k]) => config.ignored
    /\ TypeOf(Lines[k]) # "multi_device"

Plan == {k \in Case : Runs(k)}

LastStage(k) == IF TypeOf(Lines[k]) = "multi_stage" THEN Lines[k].stages ELSE 0

-----------------------------------------------------------------------------
(* Lines the board prints. *)

Text(t) == [t |-> t, case |-> 0, result |-> ""]
Line(t, k, r) == [t |-> t, case |-> k, result |-> r]

\* READY_PATTERN_LIST
Ready == {"press", "enter", "next"}

\* The first line of out of one of the kinds ts, about the present case if it names one; 0 if none.
Find(ts) ==
    LET is == {i \in DOMAIN out : out[i].t \in ts /\ (out[i].t = "name" => out[i].case = case)}
    IN  IF is = {} THEN 0 ELSE CHOOSE i \in is : \A j \in is : i <= j

\* Mutant: what was matched stays in the buffer.
ConsumeNothing(i) == out' = out

\* pexpect drops the text up to and with the match.
Consume(i) == out' = SubSeq(out, i + 1, Len(out))

\* _parse_unity_test_output on the text before line i: the last result in it, or a
\* failure of the present case.
Parsed(i) ==
    LET rs == {j \in 1..(i - 1) : out[j].t = "result"}
    IN  IF rs = {} THEN Line("result", case, "FAIL")
        ELSE out[CHOOSE j \in rs : \A k \in rs : k <= j]

Init ==
    /\ config \in Configs
    /\ pc = "press"
    /\ case = 0
    /\ attempt = 1
    /\ tries = 0
    /\ stage = 0
    /\ failed = 0
    /\ late = FALSE
    /\ ignoreReady = FALSE
    /\ report = <<>>
    /\ out = <<>>
    /\ inp = <<>>
    /\ dev = [st |-> "boot", case |-> 0, stage |-> 0]
    /\ did = {}
    /\ hung = {}

-----------------------------------------------------------------------------
(* Writing, resetting, waiting. *)

\* An empty line is written as 0.
Write(n) == inp' = Append(inp, n)

\* The first write of confirm_write(n), then its expect.
ConfirmWrite(n, at) == Write(n) /\ tries' = 1 /\ pc' = at

\* _hard_reset, and then the runner is at `at`.
HardReset(at) ==
    \/ /\ config.kind = "board"
       /\ dev' = [st |-> "boot", case |-> 0, stage |-> 0]
       /\ inp' = <<>>
       /\ pc' = at
       /\ UNCHANGED tries
    \/ /\ config.kind = "line"
       /\ Write(0)
       /\ pc' = at
       /\ UNCHANGED <<tries, dev>>
    \/ /\ config.kind = "none"
       /\ ConfirmWrite(0, "reset")
       /\ UNCHANGED dev

\* What is being waited for, by pc.
Awaited ==
    CASE pc = "press" -> {"press"}
      [] pc = "menu" -> {"menu"}
      [] pc \in {"reset", "ready", "stageReady"} -> Ready
      [] pc \in {"name", "stageName"} -> {"name"}
      [] pc = "result" -> {"end"}
      [] OTHER -> {}

\* What confirm_write has to repeat.
Repeated == IF pc \in {"name", "stageName"} THEN Index(case) ELSE 0

\* The board is about to do something by itself.
BoardMoves ==
    \/ dev.st \in {"boot", "run", "ended", "prompt"}
    \/ dev.st \in {"menu", "sub"} /\ inp # <<>>

\* It is not there in time.
TimeIsUp == Awaited # {} /\ Find(Awaited) = 0 /\ (config.slow \/ late \/ ~BoardMoves)

\* range(retry_times)
RetryTimes == 3

\* confirm_write: no confirmation within a second, the line is written again.
WriteAgain ==
    /\ pc \in {"menu", "reset", "name", "stageName"}
    /\ TimeIsUp
    /\ tries < RetryTimes
    /\ Write(Repeated)
    /\ tries' = tries + 1
    /\ UNCHANGED <<config, pc, case, attempt, stage, failed, late, ignoreReady, report,
                   out, dev, did, hung>>

\* An expect, or the last try of a confirm_write, has raised TIMEOUT.
Raised ==
    /\ TimeIsUp
    /\ pc \in {"menu", "reset", "name", "stageName"} => tries = RetryTimes

-----------------------------------------------------------------------------
(* test_menu *)

\* _parse_test_menu: the menu is asked for.
AskForMenu ==
    /\ pc = "press"
    /\ Find({"press"}) # 0
    /\ Consume(Find({"press"}))
    /\ ConfirmWrite(0, "menu")
    /\ UNCHANGED <<config, case, attempt, stage, failed, late, ignoreReady, report, dev, did, hung>>

\* The menu, which ends with a prompt, is parsed; the board is reset for the first case.
SeeMenu ==
    /\ pc = "menu"
    /\ Find({"menu"}) # 0
    /\ Consume(Find({"menu"}) + 1)
    /\ HardReset("next")
    /\ UNCHANGED <<config, case, attempt, stage, failed, late, ignoreReady, report, did, hung>>

\* A board that cannot be reset has confirmed with a prompt, which is now used up.
ConfirmReset ==
    /\ pc = "reset"
    /\ Find(Ready) # 0
    /\ Consume(Find(Ready))
    /\ ignoreReady' = TRUE
    /\ pc' = IF case = 0 THEN "next" ELSE "ready"
    /\ UNCHANGED <<config, case, attempt, tries, stage, failed, late, report,
                   inp, dev, did, hung>>

\* No menu: the exception ends the test.
MenuFails ==
    /\ Raised
    /\ case = 0
    /\ pc' = "raised"
    /\ UNCHANGED <<config, case, attempt, tries, stage, failed, late, ignoreReady, report, boardVars>>

-----------------------------------------------------------------------------
(* One case. *)

Rest == {k \in Plan : k > case}

\* The next case that is selected; a case starts with a reset if asked for.
NextCase ==
    /\ pc = "next"
    /\ case' \in Rest
    /\ \A k \in Rest : case' <= k
    /\ attempt' = 1
    /\ stage' = 0
    /\ failed' = 0
    /\ late' = FALSE
    /\ IF config.reset THEN HardReset("ready")
       ELSE pc' = "ready" /\ UNCHANGED <<tries, inp, dev>>
    /\ UNCHANGED <<config, ignoreReady, report, out, did, hung>>

\* _get_ready: a prompt, unless one was used up by the reset.
PromptSeen(i) == IF ignoreReady THEN i = 0 ELSE i # 0 /\ i = Find(Ready)

\* _prepare_and_start_case: the index is written.
StartCase ==
    /\ pc = "ready"
    /\ \E i \in 0..Len(out) : PromptSeen(i) /\ Consume(i)
    /\ ignoreReady' = FALSE
    /\ ConfirmWrite(Index(case), "name")
    /\ UNCHANGED <<config, case, attempt, stage, failed, late, report, dev, did, hung>>

\* Mutant: a start that has failed is not tried again.
GiveUpStart ==
    /\ Raised
    /\ pc \in {"reset", "ready", "name"}
    /\ case # 0
    /\ report' = Append(report, [asked |-> case, named |-> case, result |-> "SKIPPED"])
    /\ pc' = "next"
    /\ UNCHANGED <<config, case, attempt, tries, stage, failed, late, ignoreReady, boardVars>>

\* Mutant: each failed start of the case is recorded.
StartFailsRecorded ==
    /\ Raised
    /\ pc \in {"reset", "ready", "name"}
    /\ case # 0
    /\ report' = Append(report, [asked |-> case, named |-> case, result |-> "SKIPPED"])
    /\ \/ /\ attempt = 1
          /\ attempt' = 2
          /\ HardReset("ready")
       \/ /\ attempt = 2
          /\ pc' = "next"
          /\ UNCHANGED <<attempt, tries, inp, dev>>
    /\ UNCHANGED <<config, case, stage, failed, late, ignoreReady, out, did, hung>>

\* Mutant: the start is tried until it succeeds.
StartUntilItWorks ==
    /\ Raised
    /\ pc \in {"reset", "ready", "name"}
    /\ case # 0
    /\ HardReset("ready")
    /\ UNCHANGED <<config, case, attempt, stage, failed, late, ignoreReady, report, out, did, hung>>

\* The start has failed: once more after a hard reset, or the case is recorded as
\* skipped "due to a failure before test execution".
StartFails ==
    /\ Raised
    /\ pc \in {"reset", "ready", "name"}
    /\ case # 0
    /\ \/ /\ attempt = 1
          /\ attempt' = 2
          /\ HardReset("ready")
          /\ UNCHANGED report
       \/ /\ attempt = 2
          /\ report' = Append(report, [asked |-> case, named |-> case, result |-> "SKIPPED"])
          /\ pc' = "next"
          /\ UNCHANGED <<attempt, tries, inp, dev>>
    /\ UNCHANGED <<config, case, stage, failed, late, ignoreReady, out, did, hung>>

\* The number of the next stage is written; after the last one only the result is left.
EnterStage ==
    /\ stage' = stage + 1
    /\ Write(stage + 1)
    /\ pc' = IF stage + 1 = LastStage(case) THEN "result" ELSE "stageReady"

\* 'Running <name>...': a normal case runs, one of several stages is told which.
SeeName ==
    /\ pc \in {"name", "stageName"}
    /\ Find({"name"}) # 0
    /\ Consume(Find({"name"}))
    /\ IF LastStage(case) = 0
       THEN pc' = "result" /\ UNCHANGED <<stage, inp>>
       ELSE EnterStage
    /\ UNCHANGED <<config, case, attempt, tries, failed, late, ignoreReady, report, dev, did, hung>>

\* Mutant: the stages before the last are not looked at.
NextStageBlindly ==
    /\ pc = "stageReady"
    /\ Find(Ready) # 0
    /\ Consume(Find(Ready))
    /\ ConfirmWrite(Index(case), "stageName")
    /\ UNCHANGED <<config, case, attempt, stage, failed, late, ignoreReady, report, dev, did, hung>>

\* A stage is over: the board has restarted, or printed a summary.  A failure in it is
\* kept; PASS and IGNORE are not.
NextStage ==
    LET i == Find(Ready)
    IN  /\ pc = "stageReady"
        /\ i # 0
        /\ Consume(i)
        /\ failed' =
             IF /\ failed = 0
                /\ \E j \in 1..(i - 1) : out[j].t = "end"
                /\ Parsed(i).result = "FAIL"
             THEN Parsed(i).case ELSE failed
        /\ ConfirmWrite(Index(case), "stageName")
        /\ UNCHANGED <<config, case, attempt, stage, late, ignoreReady, report, dev, did, hung>>

\* An exception in the sub-case loop: "let the result recorder handle the failure".
StageFails ==
    /\ Raised
    /\ pc \in {"stageReady", "stageName"}
    /\ late' = TRUE
    /\ pc' = "result"
    /\ UNCHANGED <<config, case, attempt, tries, stage, failed, ignoreReady, report, boardVars>>

\* The result r goes to the test suite, or the failure of an earlier stage.
Record(r) ==
    /\ report' = Append(report,
         IF failed = 0 THEN [asked |-> case, named |-> r.case, result |-> r.result]
         ELSE [asked |-> case, named |-> failed, result |-> "FAIL"])
    /\ pc' = "next"

\* The summary line.
SeeResult ==
    /\ pc = "result"
    /\ Find({"end"}) # 0
    /\ Consume(Find({"end"}))
    /\ Record(Parsed(Find({"end"})))
    /\ UNCHANGED <<config, case, attempt, tries, stage, failed, late, ignoreReady, inp, dev, did, hung>>

\* Mutant: no result, so skipped.
NoResultSkipped ==
    /\ Raised
    /\ pc = "result"
    /\ Record(Line("result", case, "SKIPPED"))
    /\ UNCHANGED <<config, case, attempt, tries, stage, failed, late, ignoreReady, boardVars>>

\* No summary in time: a failure.
NoResult ==
    /\ Raised
    /\ pc = "result"
    /\ Record(Line("result", case, "FAIL"))
    /\ UNCHANGED <<config, case, attempt, tries, stage, failed, late, ignoreReady, boardVars>>

\* All cases are done, or the menu never came.
Over ==
    /\ pc = "raised" \/ (pc = "next" /\ Rest = {})
    /\ UNCHANGED vars

Runner ==
    \/ WriteAgain
    \/ AskForMenu
    \/ SeeMenu
    \/ ConfirmReset
    \/ MenuFails
    \/ NextCase
    \/ StartCase
    \/ StartFails
    \/ SeeName
    \/ NextStage
    \/ StageFails
    \/ SeeResult
    \/ NoResult

-----------------------------------------------------------------------------
(* The board: esp-idf's unity menu.  It is not in the repository. *)

Board(x, ls, es) ==
    /\ dev' = x
    /\ out' = out \o ls
    /\ did' = did \cup es
    /\ UNCHANGED <<config, runnerVars, hung>>

In(st) == [dev EXCEPT !.st = st]

\* What is written while the board boots may be lost.
Boot ==
    /\ dev.st = "boot"
    /\ inp' \in {inp, <<>>}
    /\ Board(In("menu"), <<Text("press")>>, {})

\* An index runs its case, anything else prints the menu.
ReadIndex ==
    /\ dev.st = "menu"
    /\ inp # <<>>
    /\ inp' = Tail(inp)
    /\ \/ \E k \in Case :
             /\ Index(k) = Head(inp)
             /\ Board([st |-> IF LastStage(k) = 0 THEN "run" ELSE "sub", case |-> k, stage |-> 0],
                      <<Line("name", k, "")>>, {})
       \/ /\ \A k \in Case : Index(k) # Head(inp)
          /\ Board(dev, <<Text("menu"), Text("enter")>>, {})

\* The number of a stage runs it; any other line ends the case.
ReadStage ==
    /\ dev.st = "sub"
    /\ inp # <<>>
    /\ inp' = Tail(inp)
    /\ IF Head(inp) \in 1..LastStage(dev.case)
       THEN Board([dev EXCEPT !.st = "run", !.stage = Head(inp)], <<>>, {})
       ELSE Board(In("prompt"), <<Line("end", dev.case, "")>>, {})

Outcome(r) == {<<dev.case, dev.stage, r>>}

Conclude(r) ==
    /\ dev.st = "run"
    /\ r \in Lines[dev.case].results
    /\ Board(In("ended"), <<Line("result", dev.case, r)>>, Outcome(r))
    /\ UNCHANGED inp

\* A stage that is not the last ends with a restart; any test can crash.
Restart ==
    /\ dev.st = "run"
    /\ inp' = <<>>
    /\ Board(In("boot"), <<>>,
             Outcome(IF dev.stage < LastStage(dev.case) THEN "restart" ELSE "crash"))

Summary ==
    /\ dev.st = "ended"
    /\ Board(In("prompt"), <<Line("end", dev.case, "")>>, {})
    /\ UNCHANGED inp

Prompt ==
    /\ dev.st = "prompt"
    /\ Board(In("menu"), <<Text("next")>>, {})
    /\ UNCHANGED inp

Hang ==
    /\ dev.st \in {"menu", "sub", "run"}
    /\ hung' = hung \cup {case}
    /\ dev' = In("hung")
    /\ UNCHANGED <<config, runnerVars, out, inp, did>>

Firmware ==
    \/ Boot
    \/ ReadIndex
    \/ ReadStage
    \/ \E r \in Outcomes : Conclude(r)
    \/ Restart
    \/ Summary
    \/ Prompt

Next == Runner \/ Firmware \/ Hang \/ Over

Spec == Init /\ [][Next]_vars

\* Every wait of the runner has a timeout, and a board that does not hang goes on.
FairSpec == Spec /\ WF_vars(Runner) /\ WF_vars(Firmware)

-----------------------------------------------------------------------------
(* Properties. *)

Report == INSTANCE CaseReport WITH
    plan <- Plan, report <- report, Result <- Outcomes \cup {"SKIPPED"}

\* One record for each case, in order and under its own name.
ReportSpec == Report!Spec

Reported(k, r) == \E i \in DOMAIN report : report[i].asked = k /\ report[i].result = r

\* A case is reported as passed only if the board has printed PASS for that case:
\* never on what an earlier case, or an earlier start of the case, has left behind.
PassMeansPassed ==
    \A k \in Case : Reported(k, "PASS") =>
      \E s \in 0..LastStage(k) : <<k, s, "PASS">> \in did

\* A case of several stages is reported as passed only if the board has printed PASS for
\* the last one, went through all those before it, and failed in none (an IGNORE there
\* is passed over), unless the board is slower than the timeouts.
PassMeansAllStages ==
    \A k \in Case : Reported(k, "PASS") /\ ~config.slow =>
      /\ <<k, LastStage(k), "PASS">> \in did
      /\ \A s \in 1..(LastStage(k) - 1) :
            \E r \in {"PASS", "IGNORE", "restart"} : <<k, s, r>> \in did
      /\ \A s \in 0..LastStage(k) : <<k, s, "FAIL">> \notin did

\* "Skipped due to a failure before test execution" (unity_tester.py:300): the record of
\* such a case never stands for a test that has come to an end, unless the board is
\* slower than the timeouts, and any other IGNORE is one the board has printed for that case.
IgnoredIsExplained ==
    \A k \in Case :
      /\ Reported(k, "SKIPPED") /\ ~config.slow =>
           \A s \in 0..LastStage(k), r \in Outcomes : <<k, s, r>> \notin did
      /\ Reported(k, "IGNORE") => \E s \in 0..LastStage(k) : <<k, s, "IGNORE">> \in did

\* A case that hangs or crashes does not take the following cases with it: on a board
\* that can be reset a case is skipped only if the board hangs while that case starts.
FailureIsContained ==
    \A k \in Case : Reported(k, "SKIPPED") /\ config.kind = "board" /\ ~config.slow => k \in hung

\* Every call comes to an end, whatever the board does.
RunEnds == <>(pc = "raised" \/ (pc = "next" /\ Rest = {}))

=============================================================================
