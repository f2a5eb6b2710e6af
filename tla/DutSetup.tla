------------------------------ MODULE DutSetup ------------------------------
(***************************************************************************)
(* The objects of the DUTs of a session: those of the fixtures, which make *)
(* them for all DUTs of a test before the next fixture begins, and those   *)
(* `DutFactory.create` makes in the middle of a test, of the classes       *)
(* Services gives, until they are closed after the test; and the ports     *)
(* their serial objects choose, occupy and release.                        *)
(***************************************************************************)
EXTENDS Naturals, Sequences, FiniteSets, SequencesExt, Services

CONSTANTS
    Ports,  \* the serial ports that are plugged in
    Plans   \* the sessions: sequences of tests, which are sequences of CallRecords

\* form: "list" or "text", see Seen; auto: whether the port is found in `ports` (all, or
\* those of a pattern) or given, then ports is a singleton; flash: the flash_port if there
\* is one, else {}.
CallRecord ==
    [by : {"fixture", "factory"}, services : SUBSET Service, form : {"list", "text"},
     linux : BOOLEAN, noGdb : BOOLEAN, ports : SUBSET Ports, auto : BOOLEAN, flash : SUBSET Ports]

ASSUME PlansAssumption == \A s \in Plans :
    /\ s \in Seq(Seq(CallRecord)) /\ s # <<>>
    /\ \A t \in DOMAIN s : \A i \in DOMAIN s[t] :
         /\ s[t][i].auto \/ Cardinality(s[t][i].ports) = 1
         /\ s[t][i].by = "fixture" =>
              s[t][i].form = "list" /\ \A j \in 1..i : s[t][j].by = "fixture"

VARIABLES
    plan,      \* the session, never changes
    at,        \* <<test, number of calls begun in the test>>
    pc,        \* "test", "make", "unwind" (create() has failed), "teardown" or "over"
    todo,      \* what the present call, or the fixtures, have still to make
    layout,    \* the objects they have made: <<kind, <<test, call>>>>
    own,       \* the objects of the fixtures
    stack,     \* DutFactory.obj_stack
    alive,     \* the objects that are not closed
    orphans,   \* those of them nobody will close
    lines,     \* of every live serial port: [obj, port, reserved, auto]; reserved is what
               \* _finalize_init has left in ports_to_occupy
    occupied,  \* Serial.occupied_ports
    dutIndex,  \* DUT_GLOBAL_INDEX
    logs,      \* the logfile of each call of this test: [call, name]
    why        \* what has made the last call fail: "", "environment", "classes", "exit"

objects == <<layout, own, stack, alive, orphans>>
ports == <<lines, occupied>>
vars == <<plan, at, pc, todo, objects, ports, dutIndex, logs, why>>

Call(o) == plan[o[2][1]][o[2][2]]

S(o) == Seen(Call(o).services, Call(o).form)

\* The order of DutFactory.create, and of the arguments of the fixture `dut`.
Order(by) ==
    IF by = "factory"
    THEN [queue |-> 1, listener |-> 2, reader |-> 3, classes |-> 4, app |-> 5, openocd |-> 6, gdb |-> 7,
          flash |-> 8, serial |-> 8, qemu |-> 9, espemu |-> 10, wokwi |-> 11, dut |-> 12]
    ELSE [queue |-> 1, listener |-> 2, reader |-> 3, classes |-> 4, openocd |-> 5, gdb |-> 6, app |-> 7,
          flash |-> 8, serial |-> 8, qemu |-> 9, wokwi |-> 10, espemu |-> 11, dut |-> 12]

Place(o) == Order(Call(o).by)[o[1]]

\* x is made before o: a fixture is made for one DUT after the other, and the flash_port is
\* flashed through by the serial port it belongs to.
Earlier(x, o) ==
    \/ Place(x) < Place(o)
    \/ Place(x) = Place(o) /\ x[2][2] < o[2][2]
    \/ x[2] = o[2] /\ x[1] = "flash" /\ o[1] = "serial"

\* `serial_gn` looks for a flash_port, which only the ports of the esp service know.
Flashes(c) == c.flash # {} /\ "esp" \in Seen(c.services, c.form) /\ ~c.linux

Makes(c) ==
    Fixtures(Seen(c.services, c.form), c.linux, c.noGdb)
    \cup {"queue", "listener", "reader", "classes", "app"}
    \cup (IF Flashes(c) THEN {"flash"} ELSE {})

\* What is made for call n of the present test.
Objects(n) == {<<kind, <<at[1], n>>>> : kind \in Makes(plan[at[1]][n])}

Init ==
    /\ plan \in Plans
    /\ at = <<1, 0>>
    /\ pc = "test"
    /\ todo = {}
    /\ layout = <<>> /\ own = <<>> /\ stack = <<>>
    /\ alive = {} /\ orphans = {}
    /\ lines = {} /\ occupied = {}
    /\ dutIndex = 0
    /\ logs = {}
    /\ why = ""

-----------------------------------------------------------------------------
(* A call. *)

\* Before the test the fixtures are set up, for all of its DUTs.
BeginFixtures ==
    /\ pc = "test"
    /\ at[2] = 0
    /\ \E n \in DOMAIN plan[at[1]] :
         /\ \A i \in DOMAIN plan[at[1]] : plan[at[1]][i].by = "fixture" <=> i <= n
         /\ at' = <<at[1], n>>
         /\ todo' = UNION {Objects(i) : i \in 1..n}
         /\ logs' = {[call |-> i, name |-> IF n = 1 THEN <<"dut">> ELSE <<"dut", i>>] : i \in 1..n}
    /\ pc' = "make"
    /\ layout' = <<>>
    /\ why' = ""
    /\ UNCHANGED <<plan, own, stack, alive, orphans, ports, dutIndex>>

\* The test calls DutFactory.create().
BeginCall ==
    /\ pc = "test"
    /\ at[2] < Len(plan[at[1]])
    /\ plan[at[1]][at[2] + 1].by = "factory"
    /\ at' = <<at[1], at[2] + 1>>
    /\ todo' = Objects(at[2] + 1)
    /\ logs' = logs \cup {[call |-> at[2] + 1, name |-> <<"custom-dut", dutIndex>>]}
    /\ pc' = "make"
    /\ layout' = <<>>
    /\ why' = ""
    /\ UNCHANGED <<plan, own, stack, alive, orphans, ports, dutIndex>>

Making(o) == pc = "make" /\ o \in todo /\ \A x \in todo : ~Earlier(x, o)

Made(o) ==
    /\ todo' = todo \ {o}
    /\ layout' = Append(layout, o)
    /\ alive' = alive \cup {o}
    /\ UNCHANGED <<plan, at, own, stack, logs>>

\* A step of the order that makes no object.
Passed(o) ==
    /\ todo' = todo \ {o}
    /\ UNCHANGED <<plan, at, own, stack, layout, alive, logs>>

\* Mutant: a fixture that fails for one DUT forgets what it has made for those before.
FailsForgetting(o, cause) ==
    /\ IF Call(o).by = "factory"
       THEN pc' = "unwind" /\ UNCHANGED <<layout, own>>
       ELSE /\ pc' = "teardown"
            /\ own' = SelectSeq(layout, LAMBDA x : x[1] # o[1])
            /\ layout' = <<>>
    /\ todo' = {}
    /\ why' = cause
    /\ UNCHANGED <<plan, at, stack, logs>>

\* An exception: create() closes what it has made; a fixture closes what it has made for the
\* DUTs before, and the fixtures before it are torn down, see CloseNext.
Fails(o, cause) ==
    /\ IF Call(o).by = "factory"
       THEN pc' = "unwind" /\ UNCHANGED <<layout, own>>
       ELSE pc' = "teardown" /\ own' = layout /\ layout' = <<>>
    /\ todo' = {}
    /\ why' = cause
    /\ UNCHANGED <<plan, at, stack, logs>>

\* SystemExit is not an Exception: create() closes nothing, a fixture nothing of what it has
\* made for the DUTs before, and the test ends.
Exits(o) ==
    /\ \E n \in 0..Len(layout) :
         /\ \A i \in DOMAIN layout : i > n <=> Call(o).by = "factory" \/ Place(layout[i]) = Place(o)
         /\ orphans' = orphans \cup ToSet(SubSeq(layout, n + 1, Len(layout)))
         /\ own' = IF Call(o).by = "factory" THEN own ELSE SubSeq(layout, 1, n)
    /\ layout' = <<>>
    /\ pc' = "teardown"
    /\ todo' = {}
    /\ why' = "exit"
    /\ UNCHANGED <<plan, at, stack, alive, ports, dutIndex, logs>>

\* The objects that are just made.
Simple == {"queue", "listener", "reader", "openocd", "gdb", "qemu", "espemu", "wokwi"}

Make(o) ==
    /\ Making(o) /\ o[1] \in Simple
    /\ Made(o)
    /\ UNCHANGED <<pc, orphans, ports, dutIndex, why>>

\* An emulator or a debugger does not start.  OpenOcd does not stop its process if it
\* cannot be reached by telnet.
MakeFails(o) ==
    /\ Making(o) /\ o[1] \in Simple \ {"queue", "listener", "reader"}
    /\ \/ UNCHANGED <<alive, orphans>>
       \/ /\ o[1] = "openocd"
          /\ alive' = alive \cup {o}
          /\ orphans' = orphans \cup {o}
    /\ Fails(o, "environment")
    /\ UNCHANGED <<ports, dutIndex>>

\* Wokwi without WOKWI_CLI_TOKEN.
WokwiExits(o) ==
    /\ Making(o) /\ o[1] = "wokwi"
    /\ Exits(o)

\* The classes are chosen, the app is made.
ClassesOrApp(o) ==
    /\ Making(o) /\ o[1] \in {"classes", "app"}
    /\ IF o[1] = "classes" /\ Lookup(DutTable, S(o)) = "SystemExit" THEN Exits(o)
       ELSE \/ Passed(o) /\ UNCHANGED <<pc, orphans, ports, dutIndex, why>>
            \/ Fails(o, "environment") /\ UNCHANGED <<alive, orphans, ports, dutIndex>>

-----------------------------------------------------------------------------
(* The serial port. *)

Esp(o) == "EspSerial" \in Family(SerialClass(S(o), Call(o).linux))

\* The flash_port, once it was flashed through, is occupied along with the port.
AlsoOccupied(o) == IF Flashes(Call(o)) THEN Call(o).flash ELSE {}

\* EspSerial.__init__ tries the ports that are not occupied; a given port is tried as it
\* is.  A Serial has to be given one.
Candidates(o) ==
    IF ~Call(o).auto THEN Call(o).ports
    ELSE IF Esp(o) THEN Call(o).ports \ (occupied \cup AlsoOccupied(o)) ELSE {}

\* Mutant: the port that was flashed through is not occupied.
FinalizeWithoutFlashPort(o, p) ==
    /\ occupied' = occupied \cup {p}
    /\ lines' = lines \cup {[obj |-> o, port |-> p, auto |-> Call(o).auto,
                             reserved |-> {p} \ occupied]}

\* _finalize_init: of ports_to_occupy, what is not occupied yet is kept.
Finalize(o, p) ==
    LET wanted == AlsoOccupied(o) \cup {p}
    IN  /\ occupied' = occupied \cup wanted
        /\ lines' = lines \cup {[obj |-> o, port |-> p, auto |-> Call(o).auto,
                                 reserved |-> wanted \ occupied]}

\* No port was asked for, which a flash_port makes an error.
Unspecified(o) == Call(o).auto /\ Call(o).ports = Ports

\* The port that is only flashed through: occupied for that time, then closed.
Flash(o) ==
    /\ Making(o) /\ o[1] = "flash"
    /\ \/ Unspecified(o) /\ Exits(o)
       \/ /\ ~Unspecified(o)
          /\ Passed(o)
          /\ UNCHANGED <<pc, orphans, ports, dutIndex, why>>
       \/ /\ ~Unspecified(o)
          /\ Fails(o, "environment")
          /\ occupied' \in {occupied, occupied \ Call(o).flash}
          /\ UNCHANGED <<alive, orphans, lines, dutIndex>>

MakeSerial(o) ==
    /\ Making(o) /\ o[1] = "serial"
    /\ IF Call(o).linux THEN UNCHANGED ports ELSE \E p \in Candidates(o) : Finalize(o, p)
    /\ Made(o)
    /\ UNCHANGED <<pc, orphans, dutIndex, why>>

\* No port, no board, or it cannot be erased.
NoSerial(o) ==
    /\ Making(o) /\ o[1] = "serial"
    /\ Fails(o, "environment")
    /\ UNCHANGED <<alive, orphans, ports, dutIndex>>

\* _start, which flashes, fails: close() gives up ports_to_occupy as it was given.
StartFails(o) ==
    /\ Making(o) /\ o[1] = "serial"
    /\ Esp(o)
    /\ \E p \in Candidates(o) : occupied' = occupied \ (AlsoOccupied(o) \cup {p})
    /\ Fails(o, "environment")
    /\ UNCHANGED <<alive, orphans, lines, dutIndex>>

\* NuttxSerial reads its binary after the port was set up.
NuttxBinaryFails(o) ==
    /\ Making(o) /\ o[1] = "serial"
    /\ SerialClass(S(o), Call(o).linux) = "NuttxSerial"
    /\ \E p \in Candidates(o) : Finalize(o, p)
    /\ alive' = alive \cup {o}
    /\ orphans' = orphans \cup {o}
    /\ Fails(o, "environment")
    /\ UNCHANGED dutIndex

-----------------------------------------------------------------------------
(* The DUT. *)

\* Mutant: DUT_GLOBAL_INDEX is that of the fixture for all.
MakeDutUncounted(o) ==
    /\ Making(o) /\ o[1] = "dut"
    /\ Fit(S(o), Call(o).linux, Call(o).noGdb)
    /\ todo' = todo \ {o}
    /\ alive' = alive \cup {o}
    /\ LET whole == Append(layout, o)
       IN  IF todo' # {} THEN layout' = whole /\ UNCHANGED <<pc, own, stack>>
           ELSE /\ layout' = <<>>
                /\ pc' = "test"
                /\ IF Call(o).by = "factory" THEN stack' = Append(stack, whole) /\ UNCHANGED own
                   ELSE own' = whole /\ UNCHANGED stack
    /\ UNCHANGED <<plan, at, orphans, ports, dutIndex, logs, why>>

\* dut_gn: a layout is complete with the DUT, the fixtures with the last DUT.
MakeDut(o) ==
    /\ Making(o) /\ o[1] = "dut"
    /\ Fit(S(o), Call(o).linux, Call(o).noGdb)
    /\ dutIndex' = dutIndex + 1
    /\ todo' = todo \ {o}
    /\ alive' = alive \cup {o}
    /\ LET whole == Append(layout, o)
       IN  IF todo' # {} THEN layout' = whole /\ UNCHANGED <<pc, own, stack>>
           ELSE /\ layout' = <<>>
                /\ pc' = "test"
                /\ IF Call(o).by = "factory" THEN stack' = Append(stack, whole) /\ UNCHANGED own
                   ELSE own' = whole /\ UNCHANGED stack
    /\ UNCHANGED <<plan, at, orphans, ports, logs, why>>

\* Its class cannot be built from what there is, or the constructor fails on its own.
DutFails(o) ==
    /\ Making(o) /\ o[1] = "dut"
    /\ Fails(o, IF Fit(S(o), Call(o).linux, Call(o).noGdb) THEN "environment" ELSE "classes")
    /\ dutIndex' = dutIndex + 1
    /\ UNCHANGED <<alive, orphans, ports>>

-----------------------------------------------------------------------------
(* Closing. *)

\* Mutant: a serial port that is closed keeps its ports occupied.
CloseKeepingPorts(obj) ==
    /\ alive' = alive \ {obj}
    /\ lines' = {l \in lines : l.obj # obj}
    /\ UNCHANGED occupied

\* _close_or_terminate, for a serial port Serial.close.
Close(obj) ==
    /\ alive' = alive \ {obj}
    /\ lines' = {l \in lines : l.obj # obj}
    /\ occupied' = occupied \ UNION {l.reserved : l \in {m \in lines : m.obj = obj}}

\* create() closes what it has made, the last first, and raises again; the test may go on.
Unwind ==
    /\ pc = "unwind"
    /\ IF layout = <<>> THEN pc' = "test" /\ UNCHANGED <<layout, alive, ports>>
       ELSE /\ Close(Last(layout))
            /\ layout' = Front(layout)
            /\ UNCHANGED pc
    /\ UNCHANGED <<plan, at, todo, own, stack, orphans, dutIndex, logs, why>>

\* The test is over, at its end or with an exception.
EndTest ==
    /\ pc = "test"
    /\ at[2] > 0
    /\ pc' = "teardown"
    /\ UNCHANGED <<plan, at, todo, objects, ports, dutIndex, logs, why>>

\* Mutant: the objects of a layout are closed in the order they were made.
CloseNextFirst ==
    \/ /\ own # <<>>
       /\ Close(own[1])
       /\ own' = Tail(own)
       /\ UNCHANGED stack
    \/ /\ own = <<>>
       /\ stack # <<>>
       /\ IF Last(stack) = <<>> THEN stack' = Front(stack) /\ UNCHANGED <<alive, ports>>
          ELSE /\ Close(Last(stack)[1])
               /\ stack' = Append(Front(stack), Tail(Last(stack)))
       /\ UNCHANGED own

\* The fixtures are torn down in reverse, what each has made for several DUTs in the order
\* it was made; then close_factory_duts pops the stack of layouts, and each layout.
CloseNext ==
    \/ /\ \E i \in DOMAIN own :
            /\ own[i][1] = Last(own)[1] /\ \A j \in 1..(i - 1) : own[j][1] # Last(own)[1]
            /\ Close(own[i])
            /\ own' = RemoveAt(own, i)
       /\ UNCHANGED stack
    \/ /\ own = <<>>
       /\ stack # <<>>
       /\ IF Last(stack) = <<>> THEN stack' = Front(stack) /\ UNCHANGED <<alive, ports>>
          ELSE /\ Close(Last(Last(stack)))
               /\ stack' = Append(Front(stack), Front(Last(stack)))
       /\ UNCHANGED own

Teardown ==
    /\ pc = "teardown"
    /\ CloseNext
    /\ UNCHANGED <<plan, at, pc, todo, layout, orphans, dutIndex, logs, why>>

\* DutFactory.close resets the index of its DUTs.
NextTest ==
    /\ pc = "teardown"
    /\ own = <<>> /\ stack = <<>>
    /\ dutIndex' = 0
    /\ logs' = {}
    /\ pc' = IF at[1] = Len(plan) THEN "over" ELSE "test"
    /\ at' = IF at[1] = Len(plan) THEN at ELSE <<at[1] + 1, 0>>
    /\ UNCHANGED <<plan, todo, objects, ports, why>>

Over == pc = "over" /\ UNCHANGED vars

MakeNext(o) ==
    \/ Make(o)
    \/ MakeFails(o)
    \/ WokwiExits(o)
    \/ ClassesOrApp(o)
    \/ Flash(o)
    \/ MakeSerial(o)
    \/ NoSerial(o)
    \/ StartFails(o)
    \/ NuttxBinaryFails(o)
    \/ MakeDut(o)
    \/ DutFails(o)

Next ==
    \/ BeginFixtures
    \/ BeginCall
    \/ \E o \in todo : MakeNext(o)
    \/ Unwind
    \/ EndTest
    \/ Teardown
    \/ NextTest
    \/ Over

Spec == Init /\ [][Next]_vars

-----------------------------------------------------------------------------
(* Properties. *)

Kept == ToSet(layout) \cup ToSet(own) \cup UNION {ToSet(stack[i]) : i \in DOMAIN stack}

\* What object o of kind k works through.
Uses(k) ==
    CASE k = "dut" -> {"queue", "listener", "reader", "openocd", "gdb", "serial", "qemu", "espemu", "wokwi"}
      [] k = "gdb" -> {"openocd", "queue", "listener"}
      [] k = "listener" -> {"queue"}
      [] k \in {"queue", "reader"} -> {}
      [] OTHER -> {"queue", "listener"}

\* An object is closed before those it works through: no serial port or emulator runs on
\* without its listener, no DUT without its serial port.
UsersCloseFirst ==
    \A o \in Kept : \A k \in Uses(o[1]) :
      k \in Makes(Call(o)) => <<k, o[2]>> \in alive

\* Between two tests nothing is alive and no port occupied, whichever call has failed and
\* where, but for what an exception of __init__ or a SystemExit has left to nobody.
NothingLeft ==
    (pc = "test" /\ at[2] = 0) \/ pc = "over" =>
      /\ alive = orphans
      /\ occupied \subseteq UNION {l.reserved : l \in {m \in lines : m.obj \in orphans}}

\* An occupied port is reserved by a live serial port: no port stays out of the reach of the
\* following DUTs.
OccupiedIsHeld == occupied \subseteq UNION {l.reserved : l \in lines}

Before(a, b) == a[1] < b[1] \/ (a[1] = b[1] /\ a[2] < b[2])

\* A port that a DUT finds by itself is not one that an earlier DUT reads or is flashed
\* through.
FoundPortsAreFree ==
    \A l, m \in lines :
      m.auto /\ Before(l.obj[2], m.obj[2]) =>
        m.port \notin {l.port} \cup AlsoOccupied(l.obj)

\* No two DUTs of a test write into one logfile.
LogsAreDistinct ==
    \A x, y \in logs :
      {<<"dut", <<at[1], x.call>>>>, <<"dut", <<at[1], y.call>>>>} \subseteq alive /\ x # y =>
        x.name # y.name

\* The services a DUT is created with give classes that can be built from one another.
ClassesFit == why # "classes"

=============================================================================
