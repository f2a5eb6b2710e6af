----------------------------- MODULE FlashCache -----------------------------
(***************************************************************************)
(* What is on the flash of the boards, and what the session's port-app     *)
(* cache (`Meta.port_app_cache`) says is on it.  A test case opens a port  *)
(* with an app: `IdfSerial` flashes it, or trusts the cache and does not.  *)
(* The test may flash and erase, by esptool and by JTAG, and any of these  *)
(* tools may fail half-way.  Test cases of a session run one at a time.    *)
(***************************************************************************)
EXTENDS Naturals, Sequences

CONSTANTS
    Port,    \* the boards
    App,     \* the apps, by `binary_path`
    Kind,    \* Kind[a]: "flash", "encrypted", "ram" (is_loadable_elf), "linux"
             \* (is_linux_elf) or "nofiles" (no flash files or settings)
    Option,  \* the option records test cases run with
    Other,   \* a region that holds none of the apps: blank, half-written or foreign
    None     \* no entry in the cache, no test, no write

ASSUME KindAssumption == Kind \in [App -> {"flash", "encrypted", "ram", "linux", "nofiles"}]
ASSUME OptionAssumption ==
    Option \subseteq [skip : BOOLEAN, eraseAll : BOOLEAN, confirm : BOOLEAN, jtag : BOOLEAN]
ASSUME DistinctAssumption == Other \notin App /\ None \notin App

\* What an app's flash files are written to, in the order of their offsets:
\* bootloader and partition table, then the app's own binary.
Files == <<"boot", "app">>
Region == {"boot", "app"}

\* A test case, skip being `skip_autoflash`, and a call of esptool's write-flash: its app,
\* the files not yet written, and whether _start() called it.
TestCase == [port : Port, app : App, opt : Option, skip : BOOLEAN]
Writing == [app : App, left : {<<>>, <<"app">>, Files}, starting : BOOLEAN]

ASSUME NoneAssumption == None \notin TestCase /\ None \notin Writing

VARIABLES
    flash,     \* flash[p][r]: what region r of board p holds
    appCache,  \* Meta.port_app_cache
    doubt,     \* history: something the cache is not told of happened to board p
    at,        \* "free" (no test), then the constructor's steps "post", "meta", "start",
               \* "write" (esptool is writing), "dut" (setup_jtag), and "run" (the test)
    test,      \* the test case
    write      \* the call of esptool's write-flash

vars == <<flash, appCache, doubt, at, test, write>>

Whole(a) == [r \in Region |-> a]

\* app.flash_files can be written by esptool.
Flashable(a) == Kind[a] \in {"flash", "encrypted"}

Init ==
    /\ flash = [p \in Port |-> Whole(Other)]
    /\ appCache = [p \in Port |-> None]
    /\ doubt = [p \in Port |-> FALSE]
    /\ at = "free"
    /\ test = None
    /\ write = None

-----------------------------------------------------------------------------
(* The constructors of IdfSerial and IdfDut. *)

\* hit_port_app_cache
Hit == appCache[test.port] = test.app

\* is_target_flashed_same_elf: the sha256 in the app's binary on the flash.
SameElf == flash[test.port]["app"] = test.app

\* The cache entry of this board.
SetAppCache(c) == appCache' = [appCache EXCEPT ![test.port] = c]

\* The contents of the board become c; d says whether the cache is not told.
Becomes(c, d) ==
    /\ flash' = [flash EXCEPT ![test.port] = c]
    /\ doubt' = [doubt EXCEPT ![test.port] = d]

\* Mutant: esptool goes on writing when the port is closed.
LeaveWriting == at' = "free" /\ test' = None /\ UNCHANGED write

\* The constructor raises, or the test is over.
Leave == at' = "free" /\ test' = None /\ write' = None

\* esptool has connected to a board; nothing on it is changed yet.
Open(p, a, o) ==
    /\ at = "free"
    /\ at' = "post"
    /\ test' = [port |-> p, app |-> a, opt |-> o, skip |-> o.skip]
    /\ UNCHANGED <<flash, appCache, doubt, write>>

\* Mutant: erase_all does not force a flash.
SkipAlthoughErased == IF Hit THEN test.opt.confirm => SameElf ELSE test.opt.skip

\* `self.skip_autoflash` after IdfSerial._post_init.
Skip ==
    IF test.opt.eraseAll THEN FALSE
    ELSE IF Hit THEN test.opt.confirm => SameElf
    ELSE test.opt.skip

\* IdfSerial._post_init
PostInit ==
    /\ at = "post"
    /\ test' = [test EXCEPT !.skip = Skip]
    /\ at' = "meta"
    /\ UNCHANGED <<flash, appCache, doubt, write>>

\* read_flash_elf_sha256 raises; nothing in Serial.__init__ catches it.
ConfirmFails ==
    /\ at = "post"
    /\ ~test.opt.eraseAll /\ Hit /\ test.opt.confirm
    /\ Leave
    /\ UNCHANGED <<flash, appCache, doubt>>

\* EspSerial._post_init: `erase_all` erases, and leaves the port-app cache alone.
EspPostInit ==
    /\ at = "meta"
    /\ at' = "start"
    /\ IF test.opt.eraseAll THEN Becomes(Whole(Other), TRUE) ELSE UNCHANGED <<flash, doubt>>
    /\ UNCHANGED <<appCache, test, write>>

\* That erase raises, before or after the chip has obeyed.
EraseAllFails ==
    /\ at = "meta"
    /\ test.opt.eraseAll
    /\ \E c \in {flash[test.port], Whole(Other)} : Becomes(c, TRUE)
    /\ Leave
    /\ UNCHANGED appCache

\* IdfSerial._start without esptool's write-flash: a hard reset, load_ram, or flash()
\* that finds nothing to flash.
StartWithoutFlash ==
    /\ at = "start"
    /\ test.skip \/ ~Flashable(test.app)
    /\ at' = "dut"
    /\ UNCHANGED <<flash, appCache, doubt, test, write>>

BeginWrite(a, s) ==
    /\ at' = "write"
    /\ write' = [app |-> a, left |-> Files, starting |-> s]
    /\ UNCHANGED <<flash, appCache, doubt, test>>

\* IdfSerial._start: flash()
StartFlash ==
    /\ at = "start"
    /\ ~test.skip /\ Flashable(test.app)
    /\ BeginWrite(test.app, TRUE)

\* _start() raises before anything is written; Serial.__init__ closes the port.
StartFails ==
    /\ at = "start"
    /\ Leave
    /\ UNCHANGED <<flash, appCache, doubt>>

-----------------------------------------------------------------------------
(* IdfSerial.flash, called by _start() or by the test. *)

\* esptool writes the next file.  Until the last one is there, the board holds a mixture.
WriteFile ==
    /\ at = "write"
    /\ write.left # <<>>
    /\ Becomes([flash[test.port] EXCEPT ![Head(write.left)] = write.app], TRUE)
    /\ write' = [write EXCEPT !.left = Tail(@)]
    /\ UNCHANGED <<appCache, at, test>>

AfterWrite == IF write.starting THEN "dut" ELSE "run"

\* Mutant: the test's own app, not the one that was flashed, goes into the cache.
WriteDoneOwnApp ==
    /\ at = "write"
    /\ write.left = <<>>
    /\ SetAppCache(test.app)
    /\ doubt' = [doubt EXCEPT ![test.port] = FALSE]
    /\ at' = AfterWrite
    /\ write' = None
    /\ UNCHANGED <<flash, test>>

\* esptool.main returns: set_port_app_cache.
WriteDone ==
    /\ at = "write"
    /\ write.left = <<>>
    /\ SetAppCache(write.app)
    /\ doubt' = [doubt EXCEPT ![test.port] = FALSE]
    /\ at' = AfterWrite
    /\ write' = None
    /\ UNCHANGED <<flash, test>>

\* esptool raises, between two files or within one, with the cache as it was.  In
\* _start() the constructor closes the port and raises; a test may catch it and go on.
WriteFails ==
    /\ at = "write"
    /\ \/ Becomes(flash[test.port], TRUE)
       \/ write.left # <<>> /\ Becomes([flash[test.port] EXCEPT ![Head(write.left)] = Other], TRUE)
    /\ IF write.starting THEN Leave ELSE at' = "run" /\ write' = None /\ UNCHANGED test
    /\ UNCHANGED appCache

-----------------------------------------------------------------------------
(* IdfDut.setup_jtag *)

\* No openocd, a hit in the cache, or an app that is not flashed.
NoJtagFlash ==
    /\ at = "dut"
    /\ ~test.opt.jtag \/ Hit \/ Kind[test.app] \in {"ram", "linux"}
    /\ at' = "run"
    /\ UNCHANGED <<flash, appCache, doubt, test, write>>

\* flash_via_jtag.  What OpenOCD answers to `program_esp` is not looked at: the cache
\* is set whether the files were written or not.
JtagFlash ==
    /\ at = "dut"
    /\ test.opt.jtag /\ ~Hit /\ Kind[test.app] \in {"flash", "nofiles"}
    /\ SetAppCache(test.app)
    /\ \E written \in SUBSET {r \in Region : Flashable(test.app)} :
          LET c == [r \in Region |-> IF r \in written THEN test.app ELSE flash[test.port][r]]
          IN  Becomes(c, c # Whole(test.app))
    /\ at' = "run"
    /\ UNCHANGED <<test, write>>

\* OpenOCD or GDB raises, or an encrypted file is found, possibly behind files that
\* are written already.
JtagFails ==
    /\ at = "dut"
    /\ test.opt.jtag
    /\ \/ UNCHANGED <<flash, doubt>>
       \/ /\ ~Hit /\ Flashable(test.app)
          /\ Becomes([flash[test.port] EXCEPT !["boot"] = test.app], TRUE)
    /\ Leave
    /\ UNCHANGED appCache

-----------------------------------------------------------------------------
(* The test. *)

\* `dut.serial.flash(b)`: another app, or the same one again.
TestFlash(b) ==
    /\ at = "run"
    /\ Flashable(b)
    /\ BeginWrite(b, FALSE)

\* Mutant: erase_flash does not drop the cache entry.
EraseFlashKeepingCache ==
    /\ at = "run"
    /\ Becomes(Whole(Other), FALSE)
    /\ UNCHANGED <<appCache, at, test, write>>

\* EspSerial.erase_flash: esptool, then drop_port_app_cache.
EraseFlash ==
    /\ at = "run"
    /\ Becomes(Whole(Other), FALSE)
    /\ SetAppCache(None)
    /\ UNCHANGED <<at, test, write>>

\* erase_partition, or an erase_flash that raises before or after the chip has obeyed:
\* the cache is not told.
EraseUntold(regions) ==
    /\ at = "run"
    /\ Becomes([r \in Region |-> IF r \in regions THEN Other ELSE flash[test.port][r]], TRUE)
    /\ UNCHANGED <<appCache, at, test, write>>

\* Serial.close()
Close ==
    /\ at = "run"
    /\ Leave
    /\ UNCHANGED <<flash, appCache, doubt>>

\* A test case of the session whose app is flashed by ArduinoSerial or NuttxSerial,
\* which do not use the port-app cache.
ForeignFlash(p) ==
    /\ at = "free"
    /\ flash' = [flash EXCEPT ![p] = Whole(Other)]
    /\ doubt' = [doubt EXCEPT ![p] = TRUE]
    /\ UNCHANGED <<appCache, at, test, write>>

Constructor ==
    \/ PostInit
    \/ ConfirmFails
    \/ EspPostInit
    \/ EraseAllFails
    \/ StartWithoutFlash
    \/ StartFlash
    \/ StartFails
    \/ NoJtagFlash
    \/ JtagFlash
    \/ JtagFails

Flashing ==
    \/ WriteFile
    \/ WriteDone
    \/ WriteFails

Test ==
    \/ \E b \in App : TestFlash(b)
    \/ EraseFlash
    \/ \E regions \in SUBSET Region : EraseUntold(regions)
    \/ Close

Next ==
    \/ \E p \in Port, a \in App, o \in Option : Open(p, a, o)
    \/ Constructor
    \/ Flashing
    \/ Test
    \/ \E p \in Port : ForeignFlash(p)

Spec == Init /\ [][Next]_vars

-----------------------------------------------------------------------------
(* Properties. *)

\* The type invariant.
TypeOK ==
    /\ flash \in [Port -> [Region -> App \cup {Other}]]
    /\ appCache \in [Port -> App \cup {None}]
    /\ doubt \in [Port -> BOOLEAN]
    /\ at \in {"free", "post", "meta", "start", "write", "dut", "run"}
    /\ test \in TestCase \cup {None}
    /\ write \in Writing \cup {None}
    /\ test = None <=> at = "free"
    /\ write = None <=> at # "write"

\* The constructor of the serial object has just returned.
Started == at = "dut" /\ Flashable(test.app)

\* The user asked for no flash, and the cache does not know better.
SkippedByUser == test.opt.skip /\ ~Hit

\* "set port-app cache" (utils.py:219): what the cache says of a board is what the
\* whole of its flash holds, unless a tool failed, a partition was erased, or someone
\* who does not use the cache was there since.
CacheTruthful ==
    \A p \in Port : appCache[p] # None /\ ~doubt[p] => flash[p] = Whole(appCache[p])

\* "auto-flash the binary into the target" (README.md:76): a test begins with its own
\* app on the flash, freshly written or trusted to be there.  Only the user's
\* skip_autoflash, or a board in doubt, makes an exception.
StartsWithOwnApp ==
    Started /\ ~SkippedByUser /\ ~doubt[test.port] => flash[test.port] = Whole(test.app)

\* After erase_all the whole app is written again, whatever the cache says and whatever
\* happened to the board before.
ErasedIsFlashed ==
    Started /\ test.opt.eraseAll => flash[test.port] = Whole(test.app)

=============================================================================
