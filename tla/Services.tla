------------------------------ MODULE Services ------------------------------
(***************************************************************************)
(* `_fixture_classes_and_options_fn`: which objects a DUT consists of, and *)
(* of which classes, for the services it is created with.  Each if/elif    *)
(* chain of the code is a table whose first fitting row counts.            *)
(***************************************************************************)
EXTENDS Naturals, Sequences, FiniteSetsExt

\* SERVICE_LIB_NAMES, but `base`, which every DUT has.
Service == {"serial", "esp", "idf", "jtag", "qemu", "espemu", "arduino", "wokwi", "nuttx"}

\* What `x in _services` finds.  The fixture has a list, DutFactory.create() the text of
\* the option, in which "esp" is also a part of "espemu".
Seen(S, form) == IF form = "text" /\ "espemu" \in S THEN S \cup {"esp"} ELSE S

Row(services, class) == [services |-> services, class |-> class]

\* The class in the first row all of whose services are in S.
Lookup(table, S) == table[Min({i \in DOMAIN table : table[i].services \subseteq S})].class

AppTable ==
    << Row({"idf", "qemu"}, "QemuApp"), Row({"idf", "espemu"}, "EspEmuApp"), Row({"idf"}, "IdfApp"),
       Row({"arduino"}, "ArduinoApp"), Row({"nuttx", "esp"}, "NuttxApp"), Row({}, "App") >>

SerialTable ==
    << Row({"esp", "idf"}, "IdfSerial"), Row({"esp", "arduino"}, "ArduinoSerial"),
       Row({"esp", "nuttx"}, "NuttxSerial"), Row({"esp"}, "EspSerial"),
       Row({"serial"}, "Serial"), Row({"jtag"}, "Serial"), Row({}, "none") >>

DutTable ==
    << Row({"wokwi", "idf"}, "WokwiDut"), Row({"wokwi", "arduino"}, "WokwiDut"),
       Row({"wokwi"}, "SystemExit"), Row({"espemu"}, "EspEmuDut"),
       Row({"qemu", "nuttx"}, "NuttxQemuDut"), Row({"qemu"}, "QemuDut"),
       Row({"jtag", "idf"}, "IdfDut"), Row({"jtag"}, "SerialDut"),
       Row({"esp", "idf"}, "IdfDut"), Row({"esp", "nuttx"}, "NuttxEspDut"),
       Row({"serial", "nuttx"}, "NuttxSerialDut"), Row({"serial"}, "SerialDut"),
       Row({"esp"}, "SerialDut"), Row({}, "Dut") >>

\* Mutant: all DUTs of the idf service get the mixin.
MixinsAlways(S) == IF "idf" \in S THEN {"IdfUnityDutMixin"} ELSE {}

\* The mixins of the DUT class.
Mixins(S) == IF "idf" \in S /\ "esp" \notin S THEN {"IdfUnityDutMixin"} ELSE {}

\* `app.target == 'linux'`, known once there is an app of esp-idf, replaces the classes of
\* the serial port and of the DUT.
AppClass(S) == Lookup(AppTable, S)
SerialClass(S, linux) == IF linux THEN "LinuxSerial" ELSE Lookup(SerialTable, S)
DutClass(S, linux) == IF linux THEN "LinuxDut" ELSE Lookup(DutTable, S)

\* The objects that are made for S, beside the app, in the names of the fixtures.
Fixtures(S, linux, noGdb) ==
    {"dut"}
    \cup (IF SerialClass(S, linux) = "none" THEN {} ELSE {"serial"})
    \cup (IF "jtag" \in S THEN {"openocd"} ELSE {})
    \cup (IF "jtag" \in S /\ ~noGdb THEN {"gdb"} ELSE {})
    \cup (S \cap {"qemu", "espemu", "wokwi"})

\* The objects the DUT is given: those named in its kwargs that exist.
Given(S, linux, noGdb) ==
    LET named == CASE "wokwi" \in S -> {"wokwi"}
                   [] "wokwi" \notin S /\ "espemu" \in S -> {"espemu"}
                   [] S \cap {"wokwi", "espemu"} = {} /\ "qemu" \in S -> {"qemu"}
                   [] S \cap {"wokwi", "espemu", "qemu"} = {} /\ "jtag" \in S ->
                        {"serial", "openocd", "gdb"}
                   [] OTHER -> IF S \cap {"serial", "esp"} = {} THEN {} ELSE {"serial"}
    IN  (named \cup (IF linux THEN {"serial"} ELSE {})) \cap Fixtures(S, linux, noGdb)

-----------------------------------------------------------------------------
(* What the classes themselves ask for. *)

\* The class and its bases, as far as they matter.
Family(c) ==
    {c} \cup (CASE c \in {"QemuApp", "EspEmuApp"} -> {"IdfApp"}
                [] c \in {"IdfSerial", "ArduinoSerial", "NuttxSerial"} -> {"EspSerial", "Serial"}
                [] c = "EspSerial" -> {"Serial"}
                [] c = "IdfDut" -> {"IdfUnityDutMixin", "SerialDut"}
                [] c = "NuttxEspDut" -> {"NuttxSerialDut", "SerialDut"}
                [] c = "NuttxSerialDut" -> {"SerialDut"}
                [] c = "NuttxQemuDut" -> {"QemuDut"}
                [] OTHER -> {})

\* The objects without which the DUT's constructor has an argument missing.
Required(c) ==
    CASE c = "WokwiDut" -> {"wokwi"}
      [] c = "EspEmuDut" -> {"espemu"}
      [] "QemuDut" \in Family(c) -> {"qemu"}
      [] "SerialDut" \in Family(c) \/ c = "LinuxDut" -> {"serial"}
      [] OTHER -> {}

\* The app a serial port is made for.
AppFor(S, linux) ==
    CASE linux \/ SerialClass(S, linux) = "IdfSerial" -> {"IdfApp"}
      [] SerialClass(S, linux) = "ArduinoSerial" -> {"ArduinoApp"}
      [] SerialClass(S, linux) = "NuttxSerial" -> {"NuttxApp"}
      [] OTHER -> {}

\* type(name, (*mixins, cls)): a mixin before a class it is a base of has no place in a
\* method resolution order.
HasOrder(S, linux) == Mixins(S) \cap Family(DutClass(S, linux)) = {}

\* IdfDut and LinuxDut take their hard reset from the serial port.
HasReset(S, linux) ==
    DutClass(S, linux) \in {"IdfDut", "LinuxDut"} =>
      Family(SerialClass(S, linux)) \cap {"EspSerial", "LinuxSerial"} # {}

\* Every constructor gets what it asks for.
Fit(S, linux, noGdb) ==
    /\ Required(DutClass(S, linux)) \subseteq Given(S, linux, noGdb)
    /\ AppFor(S, linux) \subseteq Family(AppClass(S))
    /\ HasOrder(S, linux)
    /\ HasReset(S, linux)

=============================================================================
