# A TLA+ verification of pytest-embedded

pytest-embedded runs pytest test cases against embedded devices (DUTs): it
flashes and resets boards or starts emulators, redirects everything they print
to the terminal and to a file, lets the test wait for text in that file, and
reports the unit tests that run on the devices. This directory holds TLA+
models of the parts of it that are concurrent or stateful, the TLC
configurations that check them, and proofs for TLAPS.

Paths of the form `log.py:33` are in `pytest-embedded/pytest_embedded/` unless
another package is named; `PROJECT.json` has the full paths, the lines every
definition models (`map`), and the hazards the properties are aimed at.

## Inventory

| Component | State | Operations | What is hard | What makes it correct |
|---|---|---|---|---|
| Redirect pipeline (`log.py`, `dut_factory.py:55-125`, fixtures in `plugin.py`, `Dut.expect`) | one message queue, one listener process, one logfile, one reader per DUT and test case; the session's stdout lock | put, get, log, print, expect, teardown | processes that share a terminal and a lock; kills at any point; chunks cut anywhere; TIMEOUTs that the test catches | output is logged once and in order; a test sees its own output only; the terminal's lines are whole and complete |
| Serial port and redirect thread (`pytest-embedded-serial`, `use_esptool`) | the pyserial object, the thread, its event queue | disable and restart, pause, close, reconnect | two users of one port; join of a thread in any state; lost connections; exceptions in a context manager | one reader at most, none beside esptool, one again afterwards; join returns |
| Multi-device unit tests (`unity_tester.py:544-970`) | a generator per DUT, signal queues, verdicts | start a case, hand on signals, time out, interrupt, merge | devices run beside the tester; retries, late answers, stale prompts, hanging devices | a verdict is about this case and every device; signals are used once; every case ends |
| Single-board unit tests (`unity_tester.py:120-541`) | parsed menu, used-up prompt, sub-case failures, the suite | ask for the menu, select, reset, start, confirm, go through stages, record | lines that are written again, a second start after a reset, prompts of the case before, boards that restart, hang or answer late | one record per case, in order, under its own name and true; the run ends |
| Expect wrapper (`dut.py:68-170`) | remaining patterns | expect, expect_exact, expect_all, not_matching | patterns matched in any order; the caller's list is changed | every pattern is matched once |
| Port occupancy (`Serial.__init__`, `_finalize_init`, `close`, `serial_gn`, `EspSerial.__init__`) | `Serial.occupied_ports`, `ports_to_occupy` | open, occupy, release | failing starts, flash port and operation port, several DUTs, a port given twice | a port that is found is nobody else's; an owner gives back what it took |
| Flash and port caches (`utils.py:190-235`, `IdfSerial`, `IdfDut`, `ArduinoSerial`, `NuttxSerial`) | port-app cache, port-target cache, `*_flashed.bin`, the flash itself | autoflash, flash, erase, JTAG, load and save | stale claims about what is on a flash; tools that fail half-way | a skipped flash implies the app is on the device |
| DutFactory and multi-DUT fixtures (`dut_factory.py:657-955`, `plugin.py:389-573`) | `obj_stack`, `DUT_GLOBAL_INDEX`, the fixtures' layouts | create, close, set-up of several DUTs | one creation step of many fails; `SystemExit` is no `Exception` | nothing opened stays open; users are closed before what they use; every DUT has its own logfile |
| JUnit reports (`unity.py:84-328`, `plugin.py:1542-1580`) | suites, their dumps, the merged file with its counters | record, dump, merge | counters adjusted while rows are replaced, by suites of several DUTs | the counters count the rows; no case and no failure is lost |
| Collection and parallel jobs (`plugin.py:1454-1540`) | the items of a job | mark, skip, refuse, slice | rounding; more jobs than items | the jobs' slices partition the items |
| Services to classes (`dut_factory.py:128-504`) | tables | resolve | combinations of services | the classes can be built from one another |
| Subprocess backends (qemu, espemu, wokwi, openocd, gdb, linux) | a process and its forwarder | start, forward, terminate | a start that fails with the process running | output is put into the queue; the process ends with the DUT |
| Apps, options, logging | file contents | parse | — | — |

How they interact. Every backend (the redirect thread of a serial port, the
forwarder of a subprocess, `Dut.write`) *puts* chunks of bytes into the message
queue of its DUT. The listener process of that DUT takes them out, appends them
to the logfile and prints them under the lock all listeners share; the reader of
that logfile is what `Dut.expect` works on. esptool and the unit test runners sit
on top: the first takes the serial port away from the redirect thread, the second
only expect and write. pytest fixtures and `DutFactory` create one set of these
objects per DUT and destroy it in reverse order; the class tables say of which
classes. The serial objects of all DUTs share `occupied_ports`, and those of
consecutive tests the port-app cache. A DUT dumps the suite its runner recorded
when it is closed, and the session merges the dumps into pytest's report.

## Modules

| Module | Models | Uses |
|---|---|---|
| `OutputStream` | abstract: what the pipeline promises | |
| `RedirectPipeline`, `MCRedirectPipeline`, `RedirectPipelineProofs` | queues, listeners, logfiles, readers, terminal | implements `OutputStream` |
| `SerialRedirect`, `MCSerialRedirect`, `SerialRedirectProofs` | one serial port and its users | |
| `MultiDevice`, `MCMultiDevice`, `MultiDeviceProofs` | multi-device unit tests | |
| `CaseReport` | abstract: what the single-board runner promises | |
| `UnityRunner`, `MCUnityRunner`, `UnityRunnerProofs` | single-board unit tests | implements `CaseReport` |
| `FlashCache`, `MCFlashCache`, `FlashCacheProofs` | flash contents and port-app cache | |
| `Services` | the class tables | |
| `DutSetup`, `MCDutSetup`, `DutSetupProofs` | creating and closing DUTs, ports | `Services` |
| `ParallelJobs` | the slices of parallel jobs | |
| `SessionReport`, `MCSessionReport`, `SessionReportProofs` | collection, unity reports and their merge | `ParallelJobs` |
| `NumberLemmas` | facts about numbers and sequences for the proofs | |

The `MC...` modules give TLC the chunks, menus, scripts, plans and sessions.

`OutputStream` is the abstract specification of the pipeline: chunks become
visible in the order in which they were sent, and a new test case starts from
nothing.

`RedirectPipeline` is the pipeline, for `NDut` DUTs over `MaxTests` consecutive
test cases. `Put` is `MessageQueue.put` by whatever backend; `Get`,
`AppendToLog`, `FormatLine` or `FormatPart`, `Acquire`, `Write`, `Release` are
the loop of `_listen` (`dut_factory.py:60-94`), cut where another process can
come in between; `ExpectCall`, `ExpectRead`, `ExpectMatch`, `ExpectTimeout` are
`Dut.expect_exact` on the reader; `CloseDaemons`, `Kill`, `NextTest` are the
fixtures' teardown and the next test case. Text is a sequence of characters as
far as `_listen` tells them apart: `NL`, `CR`, a byte that does not decode
(`Bad`), and others; the time stamp and `[dut-i]` are one character `Prefix`,
and who wrote a character of the terminal is recorded beside it. A chunk is a
member of the constant set `Chunk`. `OutputStream` is implemented under
`seen <- log`.

`SerialRedirect` is one serial port. The main thread's actions are
`disable_redirect_thread` (`Disable`, `DisableNothing`, `Joined`, `BodyReturns`,
`BodyRaises`; the body is esptool, or another `disable_redirect_thread`:
`IdfSerial.erase_flash` nests them), `Pause` (`stop_reading`, `start_reading`)
and `Close`. The redirect thread's are `TakeEvent`, `Read`, `ReadClosed`,
`ReadLost`, `Reconnect`, `ReconnectFails` (`_event_loop`). Beside them the
device prints and the cable is pulled and plugged in. pyserial objects are
numbered: object 1 is `Serial.proc`. `read_all` of a closed port raises, so the
thread exits, whichever exception it is.

`MultiDevice` is `CaseTester` with `MultiDevRunTestManager` and
`_MultiDevTestDut`. A step is one `next()` of one generator (`Worker(d)`), taken
in the order of the workers; `GatherRaises`, `GatherReturns`, `NextRound` are the
end of a round, `NextCase` the next case of the menu. `out[d]` is the device's
output and at the same time the buffer of `expect`: a match removes everything up
to it. The devices' firmware, esp-idf's unity menu, is not in the repository; it
is modelled from the prompts, signals and lines the code waits for and writes
(`Firmware(d)`), and marked external. A sub-case ends with PASS, or anywhere with
FAIL or IGNORE, the results the code parses (`Outcomes`, `unity.py:15`); a device may
hang, answer late or lose what is written to it while it boots. `Merged` is
`get_merge_data`, with `PRE_RUN_FAILURE` for a failure before the test. A message of a TIMEOUT quotes
the buffer, shortened to 200 characters; the model lets it quote all of it, which
is what happens when little was printed since the last match.

`UnityRunner` is `IdfUnityDutMixin`. `AskForMenu` and `SeeMenu` are
`_parse_test_menu`; `Selected` and `Runs` the selection by groups, names,
attributes and ignored cases; `NextCase`, `StartCase`, `StartFails`, `SeeName` the two attempts
of `_prepare_and_start_case`; `NextStage`, `StageFails` the loop over the stages
of a case, whose exception is left to the result recorder; `SeeResult`,
`NoResult` the recorder. `confirm_write` is what `WriteAgain` repeats: `pc` says
what is waited for and `tries` how often the line was written. `HardReset` has
three forms: a board that is reset, a DUT that is reset by a line, and one that
cannot be (`NotImplementedError`), whose confirmation uses up a prompt
(`ignoreReady`). A result is PASS, FAIL or IGNORE (`Outcomes`; which of them a case
may have, its `results`). A case whose start was given up is also reported as
IGNORE, with the message "Skipped due to a failure before test execution": `report`
has `"SKIPPED"` for it, to tell it from an `"IGNORE"` the board has printed. The board (`Boot` to `Hang`) is external, as above. Regular
expressions are kinds of lines (`t`), each naming the case it is about; the
parser of results takes the last result before the summary (`Parsed`). A timeout
can fire at any time on a slow board, and otherwise only when the board is not
about to do anything. The records are those `CaseReport` promises for the plan.

`FlashCache` is a session's boards, each with two regions: what esptool writes
first and the app. `PostInit`, `EspPostInit`, `StartWithoutFlash`, `StartFlash`,
`NoJtagFlash`, `JtagFlash` are the constructors of `IdfSerial`, `EspSerial` and
`IdfDut` in their order, with the cache consulted where they do; `WriteFile`,
`WriteDone`, `WriteFails` are `IdfSerial.flash`, `EraseFlash` and `EraseUntold`
`erase_flash` and `erase_partition`; `...Fails` are the exceptions. `doubt` is
history: it says that something has changed the board without the cache being
told (a tool that failed, an erased partition, a backend that does not use the
cache).

`Services` has the `if`/`elif` chains of `_fixture_classes_and_options_fn` as
tables: the first row whose services are all there gives the class. `Fit` says
what the constructors ask for. `DutSetup` makes and closes the DUTs of a plan. A
test is a sequence of calls. Those of the fixtures come first: one, several (`count`)
or none; they are set up together (`BeginFixtures`), and each fixture makes its
objects for all DUTs before the next fixture begins (`Earlier`, `Place`). The others
are calls of `DutFactory.create` (`BeginCall`), which makes everything for one DUT. What
has still to be made is `todo`, and each object is a step (`Make`, `ClassesOrApp`,
`Flash`, `MakeSerial`, `MakeDut`) with its failures beside it. After a failure
(`Fails`), `create` closes its layout (`Unwind`); a fixture closes what it has made for
the DUTs before (`plugin.py:557-564`), and the fixtures before it are torn down.
`SystemExit` passes both `except Exception` (`Exits`): what the call, or this fixture, has
made is left to nobody. `Teardown` takes the fixtures' objects, those of the last
fixture first and among them the first DUT's first (`plugin.py:569`), and then does
`close_factory_duts`; what a failing fixture closes, it closes in that order too. A
serial object carries the ports `_finalize_init` has left in `ports_to_occupy`
(`reserved`). What nobody will close is recorded in `orphans`.

`SessionReport` runs from the collected items to the exit status: `Collect` and
`CollectFails` are `pytest_collection_modifyitems` (duplicates, `skip_if_soc`,
slices), `Records` a unity case of a DUT with the suite's counters, `BodyEnds`
`pytest_runtest_call`, `Dump` `Dut.close`, `Merge` one directory of
`JunitMerger.merge` and `MergeEnds` `pytest_sessionfinish`. pytest's own rows,
counters and exit status are external.

## Runs

Passing runs:

| Run | Bounds | Shows |
|---|---|---|
| `PipelineTwoDuts` | 2 DUTs, 2 test cases, 2 chunks each | `NothingLostOrReordered`, `LinesAreWhole`, `StreamSpec` |
| `PipelineReader` | 1 DUT, chunks of every shape, a test that expects and times out | `ExpectSeesSentInOrder`, `PrintedIsLogged`, `TypeOK` |
| `PipelineLiveness` | one test case | `LoggedEventually`, `PrintedEventually` |
| `SerialPort` | 5 threads, 4 calls, nesting of 2, 2 disconnections | `ToolHasPortAlone`, `OneReader`, `ClosedIsQuiet`, `RedirectRestored`, `JoinReturns`, `OutputForwarded`, `TypeOK` |
| `MultiTwoCases` | 2 devices, 2 cases that wait for the same signal, sent in the first one only; resets in between, one start | `PassMeansPassed`, `WaitsForOthers`, `IgnoredIsExplained` |
| `MultiDevices` | 2 devices, one case with a repeated signal that ends with both waiting; late answers, hangs, failing writes | `SignalsConserved`, `GatherEnds` |
| `UnityRunner` | a menu of 4 cases (normal, 2 stages, ignored, multi-device), 9 ways to call the runner and kinds of boards | `PassMeansPassed`, `PassMeansAllStages`, `IgnoredIsExplained`, `FailureIsContained`, `ReportSpec`, `RunEnds` |
| `FlashCache` | 2 boards, 3 apps of 3 kinds, 5 combinations of options | `CacheTruthful`, `StartsWithOwnApp`, `ErasedIsFlashed`, `TypeOK` |
| `DutSetup` | every combination of services that can be built once; 8 plans of up to 2 tests and 3 DUTs on 3 ports; each pair of 8 kinds of DUTs, and two triples, as the DUTs of the fixtures; a failure at every step | `UsersCloseFirst`, `NothingLeft`, `OccupiedIsHeld`, `FoundPortsAreFree`, `LogsAreDistinct`, `ClassesFit` |
| `SessionReport` | 13 sessions of up to 3 items, 2 DUTs, 2 unity cases, both modes of the merge, 2 and 4 jobs | `JobsPartitionItems`, `CountersMatchRows`, `NoFailureIsSilent`, `ReportIsComplete` |

Why the bounds are enough.

* Pipeline: two DUTs are what it takes for listeners to disturb each other, two
  test cases for one to leave something to the next (a queue, a lock, a file, a
  reader); the loop of `_listen` has no memory beyond `pending` and
  `shall_add_prefix`, and two chunks take it through every combination of the two.
* Serial port: two calls of `disable_redirect_thread` nest as deep as the
  repository's callers do, and two disconnections let the thread reconnect to a
  port it reconnected to before. For any other number there are the proofs.
* Multi-device: two cases on two devices make every pair of worker, device, case
  and leftover. `MaxPolls`, the fruitless polls of a timeout, only orders a
  timeout against the steps of the devices, which 1 does already; `MultiTwoCases`
  leaves the second start to `MultiDevices`, where devices are slow.
* Single board: two or three cases are run in each call but one, so that a case meets what
  another has left; what one case can leave to the next (output, lines not
  yet read, the prompt, the state of the board) does not grow with the number of
  cases. `confirm_write` and the starts have the code's own limits. A number of a
  stage is never the index of a case in this menu; see below for one that is.
* Flash cache: two boards, so that an entry can be of the wrong one; two apps
  that are written, so that the cache can name the wrong one, and one that is
  loaded; the options decide independently of each other except for skip with
  JTAG, which is there. For any other number there are the proofs.
* DUT set-up: ports are compared two at a time, and the plans have a port that is
  found, one that is given twice, and one that is flashed through; three DUTs
  make a failing one in the middle of two others, made by `create` or by the
  fixtures. The pairs of the fixtures have every kind of step that can fail or exit,
  with another DUT made before it and one still to be made.
* Session: two DUTs make a directory of two dumps, two cases a dump of two cases
  or two dumps; a name is shared by two tests or not. The slices for any number
  of items and jobs are proved.

Runs that find a violation, each of a sentence of the repository:

| Run | Violated | What happens |
|---|---|---|
| `OrphanedLock` | `LoggedEventually` | a listener killed inside `with _stdout_lock` leaves the session's lock locked; later listeners block at their first finished line, and later tests see no output after it |
| `JtagIdf` | `ClassesFit` | for `jtag,idf` without `esp` or an emulator, `IdfDut` gets the mixin it is already based on, in an order that no class can have |

`PipelineLiveness` has one test case because of the first. Because of the second
`DutSetup` leaves out the combinations with `jtag` and `idf` but without `esp`, `qemu`,
`espemu` and `wokwi`; that no others fail is proved (`ServicesThatFit`).

## What the models show and no run states

Behaviours of the code met while modelling. The models have them; the passing
properties are stated, or their instances chosen, so that they do not depend on
them.

* Two tests of one name (two modules, or a test that is run again) share a
  logfile, and the reader starts at its first byte (`plugin.py:759`,
  `dut_factory.py:121`): the second reads the first one's output. Constant
  `SharedName` of `RedirectPipeline`; with `TRUE`, `ExpectSeesSentInOrder` fails.
  Their junit dumps overwrite each other in the same way (`DistinctNames`).
* Text that does not end a line is logged at once and printed only with the next
  line end (`FormatPart`); `\r` and `\n` that arrive in two chunks are both
  printed (`JoinCRLF` looks at one chunk).
* An exception inside `use_esptool()` leaves a port that still works without a
  reader: the context manager has no `finally` (serial package, `serial.py:158`).
  Constant `ToolFails` of `SerialRedirect`; with `TRUE`, `RedirectRestored` fails.
* After a reconnection the thread reads from an object of its own and
  `Serial.proc` stays the old one, so that the port can be read and not written
  (`serial.py:224`; `Reconnect`).
* With `kill_port=True` nothing opens the port again. `_start()`, which comes next,
  does nothing or resets the board for some classes; those that flash in it need the
  closed port, so it may raise (`StartRaises`), and there is no thread afterwards.
  Otherwise the thread that is started exits at once (`Enter`, `ReadClosed`). This is why
  `RedirectRestored` speaks of a port that is open.
* A multi-device case: a result line that is still in the buffer at a TIMEOUT is
  part of the exception's message, which is parsed, and reported as PASS without a
  summary (`unity_tester.py:598`).
* An index that is written again to a device that only answered late is taken for
  the number of a sub-case or of a stage if there is one of that number
  (`unity_tester.py:617`, `:145`). The menus of the instances have larger indices,
  and the single-board properties that would be touched otherwise exempt slow boards.
* A case of several stages goes on after a stage that ended in IGNORE, and is PASS if
  the last one is: only a FAIL is kept (`unity_tester.py:432`, `NextStage`).
  `PassMeansAllStages` says so: no stage before the last one has failed.
* A write that raises outside of the start makes `gather()` raise; the case gets no
  verdict and the remaining cases do not run (`GatherRaises`).
* `esptool` that fails half-way, `erase_partition`, `erase_all` followed by a
  failing start, and OpenOCD's unread answer leave a cache entry that is not true
  of the board (`doubt`); the next test with the same app does not flash.
* A `_start()` that fails gives up all ports it was to occupy, those of an earlier
  DUT included when a port was given twice (`StartFails` of `DutSetup`), and so does
  a flash port that fails while it is flashed through (`Flash`).
* `SystemExit` (no Wokwi token, a flash port without a port) passes `create()`'s
  `except Exception`, and that of the fixtures: what the fixture has made for the DUTs
  before is not closed (`Exits`); OpenOCD that runs and cannot be reached is not stopped; a
  `NuttxSerial` whose binary cannot be read has occupied its port (`orphans`).
* A `create()` that fails before the DUT is made leaves `DUT_GLOBAL_INDEX` as it
  was, and the next DUT appends to the failed one's logfile; `LogsAreDistinct`
  is about DUTs that live.
* `create()` looks for services in the text of the option, where `espemu` contains
  `esp`; the fixtures look in a list (`Seen`).
* Cases run from the menu that failed or were ignored are in no `tests` attribute
  of the report (`Untold`); a test name with a slash cannot be merged
  (`MergeFails`).

## Fairness

Safety properties assume none.

* `RedirectPipeline`: a listener that can go on goes on (it is a process of its
  own in a blocking loop), and a running `expect` polls; no test has to end, so the
  liveness properties are about a test case that runs long enough
  (`phase # "run"` is the way out).
* `SerialRedirect`: the redirect thread polls every 50 ms, a join returns when the
  thread is dead; tests, devices and cables owe nothing.
* `MultiDevice`: the tester's loop goes on, and a device that neither hangs nor
  waits goes on; every timeout is finite (`MaxPolls`).
* `UnityRunner`: every wait of the runner has a timeout and every repetition a
  limit, so the runner goes on; a board that does not hang goes on. It may hang
  for ever.

Weak fairness is enough everywhere: none of these steps can be disabled again by
another process for ever, the stdout lock included, since one listener at a time
is between the lock and its release in the liveness instance.

## Proofs

All theorems hold for every value of the constants, under the named assumptions
of the modules; where a theorem has a hypothesis of its own, it is given here
with what the code does without it. Each rests on an inductive invariant, since
none of the properties is inductive as it stands; every invariant was first
checked by TLC on the runs' instances.

**`RedirectPipelineProofs`**, for any number of DUTs, test cases and chunks and
any set `Chunk`.

* `NothingIsLostOrReordered`, `OneWriter` (two live listeners never write at the
  same time), and `PipelineRefinesStream`: `Spec => StreamSpec`, the refinement
  of `OutputStream` that `PipelineTwoDuts` checks on a small instance. The
  invariant is `PipelineInv`: the chunk in a listener's hands is a chunk
  (`InHandIsChunk`), `NothingLostOrReordered`, and `WriterHoldsLock`. What is
  appended is what was taken from the queue last, so `AppendToLog` is the abstract
  `Show`, and every other step stutters, sends or restarts. `WriterHoldsLock`
  says who holds the lock of a dead listener as well, which is the finding
  `OrphanedLock` seen from the other side, and why `OneWriter` holds even then.
* `ReaderSeesItsOutput` (`ExpectSeesSentInOrder`), for tests with names of their
  own (`~SharedName`; see above for the others). `ReaderInv` adds that the log is
  the beginning of what was sent, also after the listener died (`LogIsSent`), and
  that what was matched and what is kept in the buffer are, together, the text of
  the file up to the reader's offset (`BufferIsRead`). No hypothesis is needed
  for these; only that the file has nothing from an earlier test (`NothingOld`).
* `LinesStayWhole` (`LinesAreWhole`) and `TypeCorrect`, under any kills. `FormatInv`
  says what a listener holds back: nothing while a prefix is due, otherwise a line
  that is open (`PendingIsOpen`), and of what it writes that it is a line. `LineInv`
  looks at the terminal from the end of the writer at work: the terminal is whole
  with what is still to be written behind it, and while nobody has the lock the
  next character starts a line. A listener that is killed while writing leaves an
  open line, but takes the lock with it, so nobody writes behind it: the property
  is safe for the same reason for which `OrphanedLock` is a finding.
* `TerminalShowsTheLog` (`PrintedIsLogged`): `TextInv` puts together `FormatInv`,
  `LineInv` and that nothing on the terminal is of a later test (`NoLaterTest`),
  which makes the text of a new listener start from nothing.

The last two are about the text that `FormatLine` and `FormatPart` make, of any
length and with line ends anywhere. `NumberLemmas` has the facts they need about
`FlattenSeq`, and about sequences whose characters are replaced one by one
(`Mapped`); on them rest the lemmas that a formatted text is prefixed at its line
starts and nowhere else, and that taking the prefixes off gives the text back.
The library's induction theorems cannot be used (they take an operator), so what
would be an induction is an argument by the least counterexample (`LeastNatural`).
`Decoded`, `Plain` and `Terminal` of `RedirectPipeline` are folds of that form for
this reason, and `PrefixAssumption` (a time stamp is no byte of the output) is
what the record of the terminal needs to tell them apart.

**`SerialRedirectProofs`**, for any number of threads, calls, nestings and
disconnections.

* `ToolIsAlone`, `PortHasOneReader`, `ClosedStaysQuiet`, by `UseInv`: a thread
  that was replaced is dead (`OnlyCurrentLives`: `Joined` waits for the current one
  only); of the blocks entered only the outermost has stopped a thread
  (`OuterKills`: the end of an inner block must not start one while the outer body
  has the port); and where the main thread is, against the blocks it is in
  (`FramesMatch`).
* `TypeCorrect` by `ObjectInv`: for each reconnection there is an object left
  (`Reconnectable`), and the device is behind one object at a time (`OneLive`).
* `RedirectComesBack` (`RedirectRestored`), when no tool raises inside
  `use_esptool()` (`~ToolFails`; see above). `RestoreInv`: no thread is told to end
  but by `terminate()` (`NoEarlyEnd`), a thread reads `proc` as long as `proc` works
  (`ReadsProc`), and the outermost block has a thread to start again
  (`OuterRestores`).

**`FlashCacheProofs`**, for any boards, apps and options: `CacheIsTruthful`,
`TestStartsWithOwnApp`, `ErasedBoardIsFlashed`, `TypeCorrect`. `CacheInv` adds
that the files esptool has behind it are on the flash (`WrittenIsThere`), so that
the entry made when it returns is true; that a constructor that will not flash
was told so or trusts the cache, and has not erased (`SkipJustified`: `_post_init`
decides, `_start` acts on it, with the erase of `EspSerial` in between); and that
what `_start` flashes is the test's app (`StartWritesOwnApp`).

**`DutSetupProofs`**, for any plans, services and ports, with a failure at every
step.

* `UsersAreClosedFirst`, `TestsLeaveNothing` and `OccupiedIsReserved` rest on
  `SetupInv`: the layout under construction, the fixtures' objects and the stack of
  layouts hold no object twice and each in an order in which it can be closed from
  the end (`Pieces`); what is alive is what they hold and the named orphans
  (`AliveIsKept`); no object is made twice (`Fresh`), and what the calls under way
  make is in the layout or still to be made (`Progress`). The fixtures of several
  DUTs make, and close, in an order of their own; the order is by `Level`, to which both
  orders keep (`OrderRespectsLevels`, `Ahead`), so that an object's users are never on
  a lower level than the object. `TestsLeaveNothing` (`NothingLeft`) includes a fixture
  that fails for one DUT after it has made its object for others.
* `LogsNeverShared`, by `LogInv`: the fixtures' names are numbers of DUTs, and a DUT that
  is alive and made by `create` has been counted since its name was given (`Named`).
* `FoundPortsAreKept` (`FoundPortsAreFree`) has a hypothesis, `KeepsApart`: no call is
  given, or flashes through, a findable port that a call before it may have, if that
  one's DUT may still be open, being of the same test or left to nobody
  (`MayBeOrphaned`). A given port is taken as it is and given up with the call that
  fails on it, so that a third DUT may find it while the first is reading it. What the
  hypothesis does not say is what `_finalize_init` is for: a port that a DUT was given or
  flashed through may be found by every later call. All plans of the run but nine
  are within it, and the mutant that forgets the flash port breaks the property
  there. `LineInv` says that the findable ports of a line are occupied, reserved by it
  and by no other (`LinesHeld`), that lines of earlier tests are orphans of calls which
  can leave one (`LinesOfOld`), and that what is still to be opened is for a later
  call (`LinesEarlier`, for which `TaskInv` has the order of the steps).

The classes, in the same module, for every set of services, either target and with
or without GDB: `ServicesThatFit` says exactly which can be built. On `linux` it takes
`idf`; elsewhere everything fits but `jtag` and `idf` without `esp`, `qemu`, `espemu` and
`wokwi` (`Buildable`), which is what the run `JtagIdf` shows failing. A table gives
the class of its first row whose services are all asked for (`FirstFit`); which row
that is makes the DUT one of a few families, each with its own needs (`Families`).
`ClassesAlwaysFit` (`ClassesFit`) is the consequence for sessions: if the services of every
call are buildable, no DUT of any plan fails because of its classes, whatever else
fails on the way.

**`UnityRunnerProofs`**, for any menu, selection and kind of board.

* `PassIsEarned`, `RunnerKeepsReport` (the refinement of `CaseReport`), when
  boards answer within the timeouts or no index in the menu is the number of a
  stage (`Unmistakable`): a menu whose index 1 has stages and a board that answers
  late is the behaviour described above. The two halves have invariants of their
  own. With any board, `RunInv`: what the board has printed, the case it is at
  and the lines it will read are in order of age, so that what is younger than
  something about the present case is about it too (`Chain`); once the start
  was seen nothing older is left (`OnlyPresent`), and a printed result is one the
  board got to (`Heard`). With any menu, `FastInv`: runner and board are at the
  same point of the same case (`InStep`), and a stage is at one of four points
  of its course (`Course`).
* `IgnoredWasExplained` (`IgnoredIsExplained`), also when `Unmistakable`: a case given
  up before its start has come to no result (by `FastInv`; the property exempts
  slow boards there), and an IGNORE was printed for that case (`Earned`, in both
  halves).
* `AllStagesPassed`: from `FastInv`, without a hypothesis (the property itself exempts
  slow boards).
* `FailureStaysInside`: a second start of a case meets a board that starts it,
  or hangs in this very case (`SecondStart`).

**`MultiDeviceProofs`**, for any devices, cases, scripts, starts, timeouts, hangs
and failing writes, with or without the reset in between.

* `PassIsEarned`, `IgnoredWasExplained`, when no index of a case is the number of a
  device (`IndicesApart`) or devices answer before the index is written again
  (`~Slow`). With neither, a repeated index can start a sub-case, as described above,
  and TLC finds both properties violated with two devices, one case of index 1 and two
  starts. The two halves have invariants of their own.
  * With `IndicesApart`, `MultiInv`: what is written for a case follows its index
    (`InputInv`), output of the present case is followed by its output only
    (`OutputInv`), a worker that has seen the start has a device at this case, and
    its PASS is this device's (`WorkerInv`); a device whose worker gave up before the
    start has not run the case and never will (`Barred`), although the lines for it
    may still lie in its input.
  * With `~Slow`, `FairInv`, on top of the step of worker and device that carries
    `WaitsAreForOthers` below (`InLane`): a printed PASS is one the device had
    (`Truthful`); a worker's result is its device's, and until it has seen the
    start, or once it gave up, the device has run no sub-case of the case and, in
    step, has nothing to read that would start one (`Judged`, `Spared`).
* `NoSignalIsLost` (`SignalsConserved`), without a hypothesis: signals are places
  in the queues and in the histories, and each step moves one (`Balanced`).
* `WaitsAreForOthers` (`WaitsForOthers`), with the hypothesis that a device that has
  got the index shows the name of the case before it is written again (`~Slow`):
  after a late answer the device has a line too many to read, and one that was meant
  for another place can come to a wait and release it. TLC finds that with three
  starts and no resets, or when an index of a case is the number of a device. Two
  invariants carry it. Worker and device are in step (`InLane`): what waits
  to be read is what the device reads where it is, at the menu the index of a case,
  then its own number, then the end of a wait (`InputFits`), and a device that waits
  has said so with the last line it printed, until its worker has seen that line
  (`InStep`). And along the way of a signal no count grows: waits passed are
  at most signals taken (`Allowed`), those were handed on by others (`Balanced`), and
  what was handed on or still lies in the output was sent (`Sent`). When the next case
  begins the two bounds become one about the case that is over (`Earned`). Neither
  resets between the cases nor `IndicesApart` is needed: in step, no device
  reads a line that was meant for another place.

**`SessionReportProofs`**, for any number of items, jobs, DUTs and cases.

* `EveryItemHasOneJob` and, for every state, `JobsPartition`: with `P` items per job
  an item `i` belongs to job `(i - 1) \div P + 1` and, since the slices of two jobs
  are at least `P` apart, to no other. The argument is nonlinear; `DivisionBounds`
  and `ProductOrder` keep the products apart from the rest.
* `CountersAreRight` (`CountersMatchRows`), by `ReportInv`: a suite's counters are
  those of its cases (`SuiteInv` with `CountsOf`), each file is of one DUT of one
  test (`DumpInv`), a case has a number of its own (`CaseInv`), and rows change only
  when their directory is merged (`RowInv`). Merging is then counting: the counters
  move by the cardinality of the rows a step adds and removes.
* `FailuresAreTold`, `NothingIsLost`: a recorded case is in a suite, in a file or in
  the rows (`KeptInv`), an item is still to be run or has its row (`CoverInv`), and a
  failure in the rows is in the exit status (`FailedInv`, `EndInv`).

Only model-checked: all liveness properties. They need fairness, which is stated with
ENABLED, and the installed provers do not know ENABLED.

What the hypotheses of the theorems exclude are cases in which the properties fail, as
described here or above: `PassMeansPassed` for late boards together with indices that
are numbers of stages or devices, `IgnoredIsExplained` for such boards and devices,
`WaitsForOthers` for late devices,
`FoundPortsAreFree` for plans that give a call a findable port of a call before it, `ExpectSeesSentInOrder`
for tests that share a logfile, `RedirectRestored` when a tool raises, `ClassesFit` for
services that cannot be built.

## Not modelled

* Apps, options, logging: parsing of files and command lines, wiring.
* `expect` with regular expressions, `expect_all` and `not_matching`: loops over
  the modelled call, without concurrency of their own; the text decides.
* The port-target cache and the reference binaries of fast flashing: the first
  only orders the ports that are tried, the second is compared with the flash by
  esptool before it is believed.
* esptool, OpenOCD, GDB, the emulators and their protocols; what a board does
  except print, reset, hang and read lines; pytest's own reports. They appear as
  steps that succeed or fail.
* Operating system buffers of pipes other than stdout; Windows.
* The panic and core dump decoders: their result depends on the text of the log.

## Plan

Done: all the modules above; every safety property of the runs is a theorem, under the
hypotheses named above, and both refinements are proved.

Next: the type invariants of the components that have none among the runs'
properties, as far as the invariants do not contain them already; the actions that
PROJECT.json lists as hazards without a property, where a model of them would say
something.
