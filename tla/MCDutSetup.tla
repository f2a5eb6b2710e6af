----------------------------- MODULE MCDutSetup -----------------------------
(***************************************************************************)
(* DutSetup for TLC: three ports, sessions of one and of two tests, with   *)
(* up to three DUTs of the fixtures and up to three of DutFactory.         *)
(***************************************************************************)
EXTENDS DutSetup

CONSTANTS p1, p2, p3

ThreePorts == {p1, p2, p3}

Factory(services) ==
    [by |-> "factory", services |-> services, form |-> "text", linux |-> FALSE, noGdb |-> FALSE,
     ports |-> {p1, p2}, auto |-> TRUE, flash |-> {}]

AtPort(c, p) == [c EXCEPT !.ports = {p}, !.auto = FALSE]
Given3(c) == AtPort(c, p3)

AsFixture(c) == [c EXCEPT !.by = "fixture", !.form = "list"]

\* Every combination of services that can be built, one DUT of it.
Single ==
    {<< <<AsFixture(Given3(Factory(s)))>> >> :
        s \in {x \in SUBSET Service :
                ~({"idf", "jtag"} \subseteq x /\ {"esp", "qemu", "espemu", "wokwi"} \cap x = {})}}
    \cup {<< <<[AsFixture(Factory(s \cup {"idf"})) EXCEPT !.linux = TRUE, !.noGdb = TRUE]>> >> :
            s \in SUBSET (Service \ {"idf"})}

Idf == Factory({"esp", "idf"})
Linux == [Factory({"idf"}) EXCEPT !.linux = TRUE]
Nuttx == Factory({"esp", "nuttx"})
Wokwi == Factory({"idf", "wokwi"})
EspWokwi == Factory({"esp", "idf", "wokwi"})
Qemu == Factory({"idf", "qemu"})
Jtag == Given3(Factory({"jtag"}))
Flashing == [Given3(Idf) EXCEPT !.flash = {p1}]
FlashingAny == [Flashing EXCEPT !.auto = TRUE, !.ports = ThreePorts]

\* Two tests: boards found, given, flashed through another port.
Several ==
    {<< <<AsFixture(Idf), Idf, Idf>>, <<AsFixture(Idf), Wokwi>> >>,
     << <<AsFixture(Given3(Idf)), Given3(Idf), Idf>>, <<Idf>> >>,
     << <<AsFixture(AtPort(Idf, p1)), Idf, Idf>>, <<AtPort(Idf, p2), Idf>> >>,
     << <<Flashing, Idf, Idf>>, <<FlashingAny>> >>,
     << <<[Flashing EXCEPT !.auto = TRUE, !.ports = {p2, p3}], Idf>> >>,
     << <<AsFixture(Nuttx), Factory({"esp", "arduino"})>>, <<Idf>> >>,
     << <<AsFixture(Idf), Factory({"idf", "espemu"}), Idf>> >>,
     << <<AsFixture(Linux), Wokwi, [Given3(Factory({"jtag"})) EXCEPT !.noGdb = TRUE]>> >>}

\* The fixtures of a test make several DUTs, of equal or of different services.
Fixed ==
    {<< <<AsFixture(a), AsFixture(b), Idf>>, <<Idf>> >> :
        a, b \in {Idf, Nuttx, Linux, Wokwi, EspWokwi, Qemu, Jtag, FlashingAny}}
    \cup {<< <<AsFixture(Idf), AsFixture(Wokwi), AsFixture(Flashing)>>, <<AsFixture(Idf), AsFixture(Idf)>> >>,
          << <<AsFixture(Jtag), AsFixture(Idf), AsFixture(Idf), Qemu>>, <<Idf>> >>}

\* The services of pytest-embedded-jtag/tests/test_jtag.py:28.
JtagIdf == {<< <<AsFixture(Given3(Factory({"jtag", "idf"})))>> >>}

AllPlans == Single \cup Several \cup Fixed

=============================================================================
