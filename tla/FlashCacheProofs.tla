-------------------------- MODULE FlashCacheProofs --------------------------
(***************************************************************************)
(* Proofs about FlashCache, for any boards, apps and options: the cache    *)
(* tells the truth of a board nothing untold happened to, and a test       *)
(* begins with its own app on the flash.                                   *)
(***************************************************************************)
EXTENDS FlashCache, SequenceTheorems, TLAPS

Contents == [Region -> App \cup {Other}]

\* The types the argument needs.
FlashTypes ==
    /\ flash \in [Port -> Contents]
    /\ appCache \in [Port -> App \cup {None}]
    /\ doubt \in [Port -> BOOLEAN]
    /\ at \in {"free", "post", "meta", "start", "write", "dut", "run"}
    /\ at # "free" => test \in TestCase
    /\ at = "write" => write \in Writing

\* The files esptool has behind it are on the flash.
WrittenIsThere ==
    at = "write" =>
        /\ write.left # Files => flash[test.port]["boot"] = write.app
        /\ write.left = <<>> => flash[test.port]["app"] = write.app

\* _start() flashes the app of the test.
StartWritesOwnApp == at = "write" /\ write.starting => write.app = test.app

\* A constructor that will not flash was told so, or trusts the cache; and it has not
\* erased the flash.
SkipJustified ==
    at \in {"meta", "start"} /\ test.skip => ~test.opt.eraseAll /\ (Hit \/ test.opt.skip)

(***************************************************************************)
(* The inductive invariant.  CacheTruthful needs WrittenIsThere for the    *)
(* moment esptool returns; StartsWithOwnApp needs CacheTruthful for a      *)
(* flash that is skipped and StartWritesOwnApp for one that is not.        *)
(***************************************************************************)
CacheInv ==
    /\ FlashTypes
    /\ WrittenIsThere
    /\ StartWritesOwnApp
    /\ SkipJustified
    /\ CacheTruthful
    /\ StartsWithOwnApp
    /\ ErasedIsFlashed

-----------------------------------------------------------------------------

\* Two contents that agree on both regions are the same.
LEMMA SameContents ==
    ASSUME NEW c \in Contents, NEW a, c["boot"] = a, c["app"] = a
    PROVE  c = Whole(a)
<1>1. \A r \in Region : c[r] = a
  BY DEF Region
<1>2. c = [r \in Region |-> c[r]]
  BY DEF Contents
<1>3. QED
  BY <1>1, <1>2 DEF Whole

LEMMA WholeIsContents ==
    ASSUME NEW a \in App \cup {Other}
    PROVE  Whole(a) \in Contents
BY DEF Whole, Contents

LEMMA InitEstablishes == Init => CacheInv
<1> SUFFICES ASSUME Init
             PROVE  CacheInv
  OBVIOUS
<1>1. FlashTypes
  BY WholeIsContents DEF Init, FlashTypes
<1>2. CacheTruthful
  BY DEF Init, CacheTruthful
<1>3. QED
  BY <1>1, <1>2 DEF Init, CacheInv, WrittenIsThere, StartWritesOwnApp, SkipJustified,
     StartsWithOwnApp, ErasedIsFlashed, Started

\* A step that leaves boards and cache alone keeps CacheTruthful.
LEMMA TruthfulStays ==
    ASSUME CacheTruthful, UNCHANGED <<flash, appCache, doubt>>
    PROVE  CacheTruthful'
BY DEF CacheTruthful, Whole

\* A step that changes the board of the test as the cache may not know, or as it does.
LEMMA TruthfulAfter ==
    ASSUME CacheTruthful, FlashTypes, at # "free",
           NEW c \in Contents, NEW d \in BOOLEAN, NEW e \in App \cup {None},
           flash' = [flash EXCEPT ![test.port] = c],
           doubt' = [doubt EXCEPT ![test.port] = d],
           appCache' = [appCache EXCEPT ![test.port] = e],
           e # None /\ ~d => c = Whole(e)
    PROVE  /\ CacheTruthful'
           /\ flash' \in [Port -> Contents]
           /\ doubt' \in [Port -> BOOLEAN]
           /\ appCache' \in [Port -> App \cup {None}]
<1>1. test.port \in Port
  BY DEF FlashTypes, TestCase
<1>2. /\ flash' \in [Port -> Contents]
      /\ doubt' \in [Port -> BOOLEAN]
      /\ appCache' \in [Port -> App \cup {None}]
  BY <1>1 DEF FlashTypes
<1>3. ASSUME NEW p \in Port, appCache'[p] # None, ~doubt'[p]
      PROVE  flash'[p] = Whole(appCache'[p])
  <2>1. CASE p = test.port
    <3>1. flash'[p] = c /\ appCache'[p] = e
      BY <2>1 DEF FlashTypes
    <3>2. doubt'[p] = d
      BY <2>1 DEF FlashTypes
    <3>3. QED
      BY <3>1, <3>2, <1>3
  <2>2. CASE p # test.port
    <3>1. flash'[p] = flash[p] /\ appCache'[p] = appCache[p]
      BY <2>2 DEF FlashTypes
    <3>2. doubt'[p] = doubt[p]
      BY <2>2 DEF FlashTypes
    <3>3. QED
      BY <3>1, <3>2, <1>3 DEF CacheTruthful
  <2>3. QED
    BY <2>1, <2>2
<1>4. QED
  BY <1>2, <1>3 DEF CacheTruthful, Whole

\* The same for a step the cache is not told of.
LEMMA UntoldChange ==
    ASSUME CacheInv, at # "free", NEW c \in Contents, Becomes(c, TRUE), UNCHANGED appCache
    PROVE  /\ CacheTruthful'
           /\ flash' \in [Port -> Contents]
           /\ doubt' \in [Port -> BOOLEAN]
           /\ appCache' \in [Port -> App \cup {None}]
<1> DEFINE e == appCache[test.port]
<1>1. CacheTruthful /\ FlashTypes /\ test.port \in Port
  BY DEF CacheInv, FlashTypes, TestCase
<1>2. e \in App \cup {None} /\ appCache' = [appCache EXCEPT ![test.port] = e]
  BY <1>1 DEF FlashTypes
<1>3. /\ flash' = [flash EXCEPT ![test.port] = c]
      /\ doubt' = [doubt EXCEPT ![test.port] = TRUE]
  BY DEF Becomes
<1> HIDE DEF e
<1>4. QED
  BY <1>1, <1>2, <1>3, TruthfulAfter

\* Between the constructors nothing but types and the cache is asked for.
LEMMA NothingPending ==
    ASSUME at' \in {"free", "post", "run"}, FlashTypes', CacheTruthful'
    PROVE  CacheInv'
BY DEF CacheInv, WrittenIsThere, StartWritesOwnApp, SkipJustified, StartsWithOwnApp,
   ErasedIsFlashed, Started

\* A step that leaves the boards alone and ends where nothing is pending.
LEMMA QuietStep ==
    ASSUME CacheInv, UNCHANGED <<flash, appCache, doubt>>,
           at' \in {"free", "post", "run"}, at' # "free" => test' \in TestCase
    PROVE  CacheInv'
<1>1. CacheTruthful'
  BY TruthfulStays DEF CacheInv
<1>2. FlashTypes'
  BY DEF CacheInv, FlashTypes
<1>3. QED
  BY <1>1, <1>2, NothingPending

LEMMA OpenKeeps ==
    ASSUME CacheInv, NEW p \in Port, NEW a \in App, NEW o \in Option, Open(p, a, o)
    PROVE  CacheInv'
<1>1. o.skip \in BOOLEAN
  BY OptionAssumption
<1>2. test' \in TestCase /\ at' = "post" /\ UNCHANGED <<flash, appCache, doubt>>
  BY <1>1 DEF Open, TestCase
<1>3. QED
  BY <1>2, QuietStep

LEMMA PostInitKeeps ==
    ASSUME CacheInv, PostInit
    PROVE  CacheInv'
<1>1. /\ at = "post" /\ at' = "meta"
      /\ test' = [test EXCEPT !.skip = Skip]
      /\ UNCHANGED <<flash, appCache, doubt>>
  BY DEF PostInit
<1>2. test \in TestCase /\ test.opt.skip \in BOOLEAN
  <2>1. test \in TestCase
    BY <1>1 DEF CacheInv, FlashTypes
  <2>2. test.opt \in Option
    BY <2>1 DEF TestCase
  <2>3. QED
    BY <2>1, <2>2, OptionAssumption
<1>3. Skip \in BOOLEAN
  BY <1>2 DEF Skip, SameElf
<1>4. /\ test' \in TestCase
      /\ test'.skip = Skip /\ test'.opt = test.opt /\ test'.port = test.port
      /\ test'.app = test.app
  BY <1>1, <1>2, <1>3 DEF TestCase
<1>5. Skip => ~test.opt.eraseAll /\ (Hit \/ test.opt.skip)
  BY DEF Skip
<1>6. Hit' = Hit
  BY <1>1, <1>4 DEF Hit
<1>7. SkipJustified'
  BY <1>4, <1>5, <1>6 DEF SkipJustified
<1>8. CacheTruthful'
  BY <1>1, TruthfulStays DEF CacheInv
<1>9. FlashTypes'
  BY <1>1, <1>4 DEF CacheInv, FlashTypes
<1>10. QED
  BY <1>1, <1>7, <1>8, <1>9 DEF CacheInv, WrittenIsThere, StartWritesOwnApp, StartsWithOwnApp,
     ErasedIsFlashed, Started

LEMMA EspPostInitKeeps ==
    ASSUME CacheInv, EspPostInit
    PROVE  CacheInv'
<1>1. at = "meta" /\ at' = "start" /\ UNCHANGED <<appCache, test, write>>
  BY DEF EspPostInit
<1>2. /\ CacheTruthful'
      /\ flash' \in [Port -> Contents]
      /\ doubt' \in [Port -> BOOLEAN]
  <2>1. CASE test.opt.eraseAll
    BY <1>1, <2>1, WholeIsContents, UntoldChange DEF EspPostInit
  <2>2. CASE ~test.opt.eraseAll
    BY <1>1, <2>2, TruthfulStays DEF EspPostInit, CacheInv, FlashTypes
  <2>3. QED
    BY <2>1, <2>2
<1>3. FlashTypes'
  BY <1>1, <1>2 DEF CacheInv, FlashTypes
<1>4. SkipJustified'
  BY <1>1 DEF CacheInv, SkipJustified, Hit
<1>5. QED
  BY <1>1, <1>2, <1>3, <1>4 DEF CacheInv, WrittenIsThere, StartWritesOwnApp, StartsWithOwnApp,
     ErasedIsFlashed, Started

LEMMA EraseAllFailsKeeps ==
    ASSUME CacheInv, EraseAllFails
    PROVE  CacheInv'
<1>1. at = "meta" /\ at' = "free" /\ UNCHANGED appCache
  BY DEF EraseAllFails, Leave
<1>2. PICK c \in {flash[test.port], Whole(Other)} : Becomes(c, TRUE)
  BY DEF EraseAllFails
<1>3. flash[test.port] \in Contents
  BY <1>1 DEF CacheInv, FlashTypes, TestCase
<1>4. c \in Contents
  BY <1>3, WholeIsContents
<1>5. /\ CacheTruthful'
      /\ flash' \in [Port -> Contents]
      /\ doubt' \in [Port -> BOOLEAN]
      /\ appCache' \in [Port -> App \cup {None}]
  BY <1>1, <1>2, <1>4, UntoldChange
<1>6. FlashTypes'
  BY <1>1, <1>5 DEF FlashTypes
<1>7. QED
  BY <1>1, <1>5, <1>6, NothingPending

LEMMA StartWithoutFlashKeeps ==
    ASSUME CacheInv, StartWithoutFlash
    PROVE  CacheInv'
<1>1. /\ at = "start" /\ at' = "dut"
      /\ test.skip \/ ~Flashable(test.app)
      /\ UNCHANGED <<flash, appCache, doubt, test, write>>
  BY DEF StartWithoutFlash
<1>2. CacheTruthful'
  BY <1>1, TruthfulStays DEF CacheInv
<1>3. FlashTypes'
  BY <1>1 DEF CacheInv, FlashTypes
<1>4. test.port \in Port /\ test.app \in App /\ test.app # None
  BY <1>1, DistinctAssumption DEF CacheInv, FlashTypes, TestCase
<1>5. Hit /\ ~doubt[test.port] => flash[test.port] = Whole(test.app)
  BY <1>4 DEF CacheInv, CacheTruthful, Hit
<1>6. StartsWithOwnApp'
  <2>1. Flashable(test.app) => ~test.opt.eraseAll /\ (Hit \/ test.opt.skip)
    BY <1>1 DEF CacheInv, SkipJustified
  <2>2. Flashable(test.app) /\ ~SkippedByUser /\ ~doubt[test.port] =>
          flash[test.port] = Whole(test.app)
    BY <2>1, <1>5 DEF SkippedByUser
  <2>3. QED
    BY <1>1, <2>2 DEF StartsWithOwnApp, Started, SkippedByUser, Hit, Whole, Flashable
<1>7. ErasedIsFlashed'
  BY <1>1 DEF CacheInv, SkipJustified, ErasedIsFlashed, Started, Flashable
<1>8. QED
  BY <1>1, <1>2, <1>3, <1>6, <1>7 DEF CacheInv, WrittenIsThere, StartWritesOwnApp, SkipJustified

\* flash() has begun; nothing is written yet.
LEMMA BeginWriteKeeps ==
    ASSUME CacheInv, NEW a \in App, NEW b \in BOOLEAN, BeginWrite(a, b),
           at # "free", b => a = test.app
    PROVE  CacheInv'
<1>1. /\ at' = "write" /\ UNCHANGED <<flash, appCache, doubt, test>>
      /\ write' = [app |-> a, left |-> Files, starting |-> b]
  BY DEF BeginWrite
<1>2. write' \in Writing /\ write'.left = Files /\ write'.starting = b /\ write'.app = a
  BY <1>1 DEF Writing
<1>3. Files # <<>>
  BY DEF Files
<1>4. FlashTypes'
  BY <1>1, <1>2 DEF CacheInv, FlashTypes
<1>5. CacheTruthful'
  BY <1>1, TruthfulStays DEF CacheInv
<1>6. WrittenIsThere' /\ StartWritesOwnApp'
  BY <1>1, <1>2, <1>3 DEF WrittenIsThere, StartWritesOwnApp, Files
<1>7. QED
  BY <1>1, <1>4, <1>5, <1>6 DEF CacheInv, SkipJustified, StartsWithOwnApp, ErasedIsFlashed, Started

\* Bootloader first, then the app.
LEMMA FilesInOrder ==
    /\ Head(Files) = "boot" /\ Tail(Files) = <<"app">>
    /\ Head(<<"app">>) = "app" /\ Tail(<<"app">>) = <<>>
<1>1. Head(Files) = "boot" /\ Head(<<"app">>) = "app"
  BY DEF Files
<1>2. Tail(Files) = <<"app">>
  BY DEF Files
<1>3. Tail(<<"app">>) = <<>>
  <2>1. Tail(<<"app">>) \in Seq({"app"}) /\ Len(Tail(<<"app">>)) = 0
    OBVIOUS
  <2>2. QED
    BY <2>1, EmptySeq
<1>4. QED
  BY <1>1, <1>2, <1>3

LEMMA WriteFileKeeps ==
    ASSUME CacheInv, WriteFile
    PROVE  CacheInv'
<1> DEFINE r == Head(write.left)
           c == [flash[test.port] EXCEPT ![r] = write.app]
<1>1. /\ at = "write" /\ at' = "write" /\ write.left # <<>>
      /\ UNCHANGED <<appCache, test>>
      /\ Becomes(c, TRUE)
      /\ write' = [write EXCEPT !.left = Tail(@)]
  BY DEF WriteFile
<1>2. /\ write \in Writing /\ write.app \in App
      /\ write.left = Files \/ write.left = <<"app">>
      /\ flash[test.port] \in Contents /\ test.port \in Port /\ flash \in [Port -> Contents]
  BY <1>1 DEF CacheInv, FlashTypes, Writing, TestCase
<1>3. /\ write.left = Files => r = "boot" /\ Tail(write.left) = <<"app">>
      /\ write.left = <<"app">> => r = "app" /\ Tail(write.left) = <<>>
  BY FilesInOrder
<1>4. /\ write' \in Writing /\ write'.app = write.app /\ write'.left = Tail(write.left)
      /\ write'.starting = write.starting
  BY <1>1, <1>2, <1>3 DEF Writing
<1>5. r \in Region
  BY <1>2, <1>3 DEF Region
<1>6. c \in Contents /\ c[r] = write.app /\ \A q \in Region \ {r} : c[q] = flash[test.port][q]
  BY <1>2, <1>5 DEF Contents
<1> HIDE DEF r, c
<1>7. /\ CacheTruthful'
      /\ flash' \in [Port -> Contents]
      /\ doubt' \in [Port -> BOOLEAN]
      /\ appCache' \in [Port -> App \cup {None}]
  BY <1>1, <1>6, UntoldChange
<1>8. FlashTypes'
  BY <1>1, <1>4, <1>7 DEF CacheInv, FlashTypes
<1>9. flash'[test'.port] = c
  BY <1>1, <1>2 DEF Becomes
<1>10. WrittenIsThere'
  <2>1. CASE write.left = Files
    <3>1. write'.left = <<"app">> /\ c["boot"] = write'.app
      BY <2>1, <1>3, <1>4, <1>6
    <3>2. <<"app">> # <<>>
      OBVIOUS
    <3>3. QED
      BY <3>1, <3>2, <1>9 DEF WrittenIsThere
  <2>2. CASE write.left = <<"app">>
    <3>1. "boot" \in Region \ {r} /\ c["app"] = write'.app
      BY <2>2, <1>3, <1>4, <1>6 DEF Region
    <3>2. <<"app">> # Files
      BY DEF Files
    <3>3. c["boot"] = write'.app
      BY <3>1, <3>2, <2>2, <1>1, <1>4, <1>6 DEF CacheInv, WrittenIsThere
    <3>4. QED
      BY <3>1, <3>3, <1>9 DEF WrittenIsThere
  <2>3. QED
    BY <2>1, <2>2, <1>2
<1>11. StartWritesOwnApp'
  BY <1>1, <1>4 DEF CacheInv, StartWritesOwnApp
<1>12. QED
  BY <1>1, <1>7, <1>8, <1>10, <1>11 DEF CacheInv, SkipJustified, StartsWithOwnApp, ErasedIsFlashed,
     Started

LEMMA WriteDoneKeeps ==
    ASSUME CacheInv, WriteDone
    PROVE  CacheInv'
<1> DEFINE c == flash[test.port]
<1>1. /\ at = "write" /\ write.left = <<>> /\ at' = AfterWrite
      /\ appCache' = [appCache EXCEPT ![test.port] = write.app]
      /\ doubt' = [doubt EXCEPT ![test.port] = FALSE]
      /\ UNCHANGED <<flash, test>>
  BY DEF WriteDone, SetAppCache
<1>2. /\ write \in Writing /\ write.app \in App
      /\ c \in Contents /\ test.port \in Port /\ flash \in [Port -> Contents]
      /\ test \in TestCase
  BY <1>1 DEF CacheInv, FlashTypes, Writing, TestCase
<1>3. c = Whole(write.app)
  <2>1. <<>> # Files
    BY DEF Files
  <2>2. c["boot"] = write.app /\ c["app"] = write.app
    BY <1>1, <2>1 DEF CacheInv, WrittenIsThere
  <2>3. QED
    BY <2>2, <1>2, SameContents
<1>4. flash' = [flash EXCEPT ![test.port] = c]
  BY <1>1, <1>2
<1> HIDE DEF c
<1>5. /\ CacheTruthful'
      /\ flash' \in [Port -> Contents]
      /\ doubt' \in [Port -> BOOLEAN]
      /\ appCache' \in [Port -> App \cup {None}]
  BY <1>1, <1>2, <1>3, <1>4, TruthfulAfter DEF CacheInv
<1>6. at' \in {"dut", "run"}
  BY <1>1 DEF AfterWrite
<1>7. FlashTypes'
  BY <1>1, <1>2, <1>5, <1>6 DEF FlashTypes
<1>8. at' = "dut" => flash'[test'.port] = Whole(test'.app)
  <2>1. at' = "dut" => write.app = test.app
    BY <1>1 DEF AfterWrite, CacheInv, StartWritesOwnApp
  <2>2. QED
    BY <2>1, <1>1, <1>3 DEF c
<1>9. StartsWithOwnApp' /\ ErasedIsFlashed'
  BY <1>8 DEF StartsWithOwnApp, ErasedIsFlashed, Started, Whole
<1>10. QED
  BY <1>5, <1>6, <1>7, <1>9 DEF CacheInv, WrittenIsThere, StartWritesOwnApp, SkipJustified

LEMMA WriteFailsKeeps ==
    ASSUME CacheInv, WriteFails
    PROVE  CacheInv'
<1>1. /\ at = "write" /\ at' \in {"free", "run"} /\ UNCHANGED appCache
      /\ at' = "run" => UNCHANGED test
  BY DEF WriteFails, Leave
<1>2. flash[test.port] \in Contents /\ test \in TestCase
  BY <1>1 DEF CacheInv, FlashTypes, TestCase
<1>3. PICK c \in Contents : Becomes(c, TRUE)
  <2>1. [flash[test.port] EXCEPT ![Head(write.left)] = Other] \in Contents
    BY <1>2 DEF Contents
  <2>2. QED
    BY <1>2, <2>1 DEF WriteFails
<1>4. /\ CacheTruthful'
      /\ flash' \in [Port -> Contents]
      /\ doubt' \in [Port -> BOOLEAN]
      /\ appCache' \in [Port -> App \cup {None}]
  BY <1>1, <1>3, UntoldChange
<1>5. FlashTypes'
  BY <1>1, <1>2, <1>4 DEF FlashTypes
<1>6. QED
  BY <1>1, <1>4, <1>5, NothingPending

LEMMA NoJtagFlashKeeps ==
    ASSUME CacheInv, NoJtagFlash
    PROVE  CacheInv'
<1>1. test' \in TestCase /\ at' = "run" /\ UNCHANGED <<flash, appCache, doubt>>
  BY DEF NoJtagFlash, CacheInv, FlashTypes
<1>2. QED
  BY <1>1, QuietStep

LEMMA JtagFlashKeeps ==
    ASSUME CacheInv, JtagFlash
    PROVE  CacheInv'
<1>1. /\ at = "dut" /\ at' = "run" /\ UNCHANGED test
      /\ appCache' = [appCache EXCEPT ![test.port] = test.app]
  BY DEF JtagFlash, SetAppCache
<1>2. flash[test.port] \in Contents /\ test \in TestCase /\ test.app \in App
  BY <1>1 DEF CacheInv, FlashTypes, TestCase
<1>3. PICK written \in SUBSET Region :
          LET c == [r \in Region |-> IF r \in written THEN test.app ELSE flash[test.port][r]]
          IN  Becomes(c, c # Whole(test.app))
  BY DEF JtagFlash
<1> DEFINE c == [r \in Region |-> IF r \in written THEN test.app ELSE flash[test.port][r]]
           d == c # Whole(test.app)
<1>4. c \in Contents
  BY <1>2 DEF Contents
<1>5. /\ flash' = [flash EXCEPT ![test.port] = c]
      /\ doubt' = [doubt EXCEPT ![test.port] = d]
  BY <1>3 DEF Becomes
<1>6. d \in BOOLEAN /\ (~d => c = Whole(test.app))
  OBVIOUS
<1> HIDE DEF c, d
<1>7. /\ CacheTruthful'
      /\ flash' \in [Port -> Contents]
      /\ doubt' \in [Port -> BOOLEAN]
      /\ appCache' \in [Port -> App \cup {None}]
  BY <1>1, <1>2, <1>4, <1>5, <1>6, TruthfulAfter DEF CacheInv
<1>8. FlashTypes'
  BY <1>1, <1>2, <1>7 DEF FlashTypes
<1>9. QED
  BY <1>1, <1>7, <1>8, NothingPending

LEMMA JtagFailsKeeps ==
    ASSUME CacheInv, JtagFails
    PROVE  CacheInv'
<1>1. at = "dut" /\ at' = "free" /\ UNCHANGED appCache
  BY DEF JtagFails, Leave
<1>2. CASE UNCHANGED <<flash, doubt>>
  BY <1>1, <1>2, QuietStep
<1>3. CASE Becomes([flash[test.port] EXCEPT !["boot"] = test.app], TRUE)
  <2>1. [flash[test.port] EXCEPT !["boot"] = test.app] \in Contents
    BY <1>1 DEF CacheInv, FlashTypes, TestCase, Contents
  <2>2. /\ CacheTruthful'
        /\ flash' \in [Port -> Contents]
        /\ doubt' \in [Port -> BOOLEAN]
        /\ appCache' \in [Port -> App \cup {None}]
    BY <1>1, <1>3, <2>1, UntoldChange
  <2>3. FlashTypes'
    BY <1>1, <2>2 DEF FlashTypes
  <2>4. QED
    BY <1>1, <2>2, <2>3, NothingPending
<1>4. QED
  BY <1>2, <1>3 DEF JtagFails

LEMMA EraseFlashKeeps ==
    ASSUME CacheInv, EraseFlash
    PROVE  CacheInv'
<1>1. /\ at = "run" /\ at' = "run" /\ UNCHANGED test
      /\ appCache' = [appCache EXCEPT ![test.port] = None]
      /\ flash' = [flash EXCEPT ![test.port] = Whole(Other)]
      /\ doubt' = [doubt EXCEPT ![test.port] = FALSE]
  BY DEF EraseFlash, SetAppCache, Becomes
<1>2. /\ CacheTruthful'
      /\ flash' \in [Port -> Contents]
      /\ doubt' \in [Port -> BOOLEAN]
      /\ appCache' \in [Port -> App \cup {None}]
  BY <1>1, WholeIsContents, TruthfulAfter DEF CacheInv
<1>3. FlashTypes'
  BY <1>1, <1>2 DEF CacheInv, FlashTypes
<1>4. QED
  BY <1>1, <1>2, <1>3, NothingPending

LEMMA EraseUntoldKeeps ==
    ASSUME CacheInv, NEW regions \in SUBSET Region, EraseUntold(regions)
    PROVE  CacheInv'
<1> DEFINE c == [r \in Region |-> IF r \in regions THEN Other ELSE flash[test.port][r]]
<1>1. at = "run" /\ at' = "run" /\ UNCHANGED <<appCache, test>> /\ Becomes(c, TRUE)
  BY DEF EraseUntold
<1>2. c \in Contents
  BY <1>1 DEF CacheInv, FlashTypes, TestCase, Contents
<1> HIDE DEF c
<1>3. /\ CacheTruthful'
      /\ flash' \in [Port -> Contents]
      /\ doubt' \in [Port -> BOOLEAN]
      /\ appCache' \in [Port -> App \cup {None}]
  BY <1>1, <1>2, UntoldChange
<1>4. FlashTypes'
  BY <1>1, <1>3 DEF CacheInv, FlashTypes
<1>5. QED
  BY <1>1, <1>3, <1>4, NothingPending

LEMMA ForeignFlashKeeps ==
    ASSUME CacheInv, NEW p \in Port, ForeignFlash(p)
    PROVE  CacheInv'
<1>1. /\ at = "free" /\ at' = "free" /\ UNCHANGED appCache
      /\ flash' = [flash EXCEPT ![p] = Whole(Other)]
      /\ doubt' = [doubt EXCEPT ![p] = TRUE]
  BY DEF ForeignFlash
<1>2. FlashTypes'
  BY <1>1, WholeIsContents DEF CacheInv, FlashTypes
<1>3. ASSUME NEW q \in Port, appCache'[q] # None, ~doubt'[q]
      PROVE  flash'[q] = Whole(appCache'[q])
  <2>1. q # p
    BY <1>1, <1>3 DEF CacheInv, FlashTypes
  <2>2. flash'[q] = flash[q] /\ appCache'[q] = appCache[q]
    BY <1>1, <2>1 DEF CacheInv, FlashTypes
  <2>3. doubt'[q] = doubt[q]
    BY <1>1, <2>1 DEF CacheInv, FlashTypes
  <2>4. QED
    BY <2>2, <2>3, <1>3 DEF CacheInv, CacheTruthful
<1>4. CacheTruthful'
  BY <1>3 DEF CacheTruthful, Whole
<1>5. QED
  BY <1>1, <1>2, <1>4, NothingPending

\* The steps that leave the boards alone and the constructor or the test behind.
LEMMA LeavingKeeps ==
    ASSUME CacheInv, ConfirmFails \/ StartFails \/ Close
    PROVE  CacheInv'
<1>1. at' = "free" /\ UNCHANGED <<flash, appCache, doubt>>
  BY DEF ConfirmFails, StartFails, Close, Leave
<1>2. QED
  BY <1>1, QuietStep

LEMMA FlashBegunKeeps ==
    ASSUME CacheInv, StartFlash \/ \E b \in App : TestFlash(b)
    PROVE  CacheInv'
<1>1. CASE StartFlash
  <2>1. at = "start" /\ BeginWrite(test.app, TRUE)
    BY <1>1 DEF StartFlash
  <2>2. test.app \in App
    BY <2>1 DEF CacheInv, FlashTypes, TestCase
  <2>3. QED
    BY <2>1, <2>2, BeginWriteKeeps
<1>2. CASE \E b \in App : TestFlash(b)
  BY <1>2, BeginWriteKeeps DEF TestFlash
<1>3. QED
  BY <1>1, <1>2

LEMMA StutterKeeps ==
    ASSUME CacheInv, UNCHANGED vars
    PROVE  CacheInv'
<1>1. UNCHANGED <<flash, appCache, doubt, at, test, write>>
  BY DEF vars
<1>2. FlashTypes' /\ CacheTruthful'
  BY <1>1, TruthfulStays DEF CacheInv, FlashTypes
<1>3. WrittenIsThere' /\ StartWritesOwnApp'
  BY <1>1 DEF CacheInv, WrittenIsThere, StartWritesOwnApp, Files
<1>4. SkipJustified'
  BY <1>1 DEF CacheInv, SkipJustified, Hit
<1>5. StartsWithOwnApp' /\ ErasedIsFlashed'
  BY <1>1 DEF CacheInv, StartsWithOwnApp, ErasedIsFlashed, Started, SkippedByUser, Hit, Whole,
     Flashable
<1>6. QED
  BY <1>2, <1>3, <1>4, <1>5 DEF CacheInv

\* CacheInv holds in every reachable state.
THEOREM CacheInvariant == Spec => []CacheInv
<1>1. CacheInv /\ [Next]_vars => CacheInv'
  <2> SUFFICES ASSUME CacheInv, [Next]_vars
               PROVE  CacheInv'
    OBVIOUS
  <2>1. CASE Constructor
    BY <2>1, PostInitKeeps, EspPostInitKeeps, EraseAllFailsKeeps, StartWithoutFlashKeeps,
       FlashBegunKeeps, LeavingKeeps, NoJtagFlashKeeps, JtagFlashKeeps, JtagFailsKeeps
       DEF Constructor
  <2>2. CASE Flashing
    BY <2>2, WriteFileKeeps, WriteDoneKeeps, WriteFailsKeeps DEF Flashing
  <2>3. CASE Test
    BY <2>3, FlashBegunKeeps, EraseFlashKeeps, EraseUntoldKeeps, LeavingKeeps DEF Test
  <2>4. QED
    BY <2>1, <2>2, <2>3, OpenKeeps, ForeignFlashKeeps, StutterKeeps DEF Next
<1>2. QED
  BY InitEstablishes, <1>1, PTL DEF Spec

-----------------------------------------------------------------------------
\* What the port-app cache says of a board is what its flash holds, unless something the
\* cache is not told of happened to the board.
THEOREM CacheIsTruthful == Spec => []CacheTruthful
<1>1. CacheInv => CacheTruthful
  BY DEF CacheInv
<1>2. QED
  BY <1>1, CacheInvariant, PTL

\* A test begins with its own app on the flash, written by its constructor or trusted to
\* be there, unless its user said otherwise or the board is in doubt.
THEOREM TestStartsWithOwnApp == Spec => []StartsWithOwnApp
<1>1. CacheInv => StartsWithOwnApp
  BY DEF CacheInv
<1>2. QED
  BY <1>1, CacheInvariant, PTL

\* What erase_all erased is written again before the test begins, in doubt or not.
THEOREM ErasedBoardIsFlashed == Spec => []ErasedIsFlashed
<1>1. CacheInv => ErasedIsFlashed
  BY DEF CacheInv
<1>2. QED
  BY <1>1, CacheInvariant, PTL

-----------------------------------------------------------------------------
\* A test and a write are there exactly while they are under way.
NoneElse ==
    /\ test = None <=> at = "free"
    /\ write = None <=> at # "write"

LEMMA NoneElseKeeps ==
    ASSUME FlashTypes', NoneElse, [Next]_vars
    PROVE  NoneElse'
<1>2. at' # "free" => test' # None
  BY NoneAssumption DEF FlashTypes
<1>3. at' = "write" => write' # None
  BY NoneAssumption DEF FlashTypes
<1>4. (at' = "free" => test' = None) /\ (at' # "write" => write' = None)
  <2>1. CASE Constructor
    BY <2>1 DEF Constructor, PostInit, ConfirmFails, EspPostInit, EraseAllFails, StartWithoutFlash,
       StartFlash, StartFails, NoJtagFlash, JtagFlash, JtagFails, BeginWrite, Leave, NoneElse
  <2>2. CASE Flashing
    BY <2>2 DEF Flashing, WriteFile, WriteDone, WriteFails, AfterWrite, Leave, NoneElse
  <2>3. CASE Test
    BY <2>3 DEF Test, TestFlash, EraseFlash, EraseUntold, Close, BeginWrite, Leave, NoneElse
  <2>4. CASE \E p \in Port, a \in App, o \in Option : Open(p, a, o)
    BY <2>4 DEF Open, NoneElse
  <2>5. CASE (\E p \in Port : ForeignFlash(p)) \/ UNCHANGED vars
    BY <2>5 DEF ForeignFlash, vars, NoneElse
  <2>6. QED
    BY <2>1, <2>2, <2>3, <2>4, <2>5 DEF Next
<1>5. QED
  BY <1>2, <1>3, <1>4 DEF NoneElse

\* The types of all variables, and that no step leaves a test or a write of its own behind:
\* whichever tool fails, the constructor raises or goes on, never both.
THEOREM TypeCorrect == Spec => []TypeOK
<1>1. Init => NoneElse
  BY DEF Init, NoneElse
<1>2. CacheInv' /\ NoneElse /\ [Next]_vars => NoneElse'
  BY NoneElseKeeps DEF CacheInv
<1>3. CacheInv /\ NoneElse => TypeOK
  BY DEF CacheInv, FlashTypes, NoneElse, TypeOK, Contents
<1>4. QED
  BY <1>1, <1>2, <1>3, CacheInvariant, PTL DEF Spec

=============================================================================
