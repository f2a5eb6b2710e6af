------------------------ MODULE SerialRedirectProofs ------------------------
(***************************************************************************)
(* Proofs about SerialRedirect, for any number of threads, calls, nestings *)
(* and disconnections: esptool has the port for itself, the port has one   *)
(* reader at most, and after close() none.                                 *)
(***************************************************************************)
EXTENDS SerialRedirect, FiniteSetTheorems, SequenceTheorems, TLAPS

Frame == [killed : BOOLEAN, killPort : BOOLEAN]

\* The types the argument needs.
UseTypeOK ==
    /\ at \in {"idle", "join", "body", "closed"}
    /\ closing \in BOOLEAN
    /\ frames \in Seq(Frame)
    /\ cur \in Thread
    /\ th \in [Thread -> {"unborn", "loop", "reconnect", "dead"}]
    /\ obj \in [Object -> {"unborn", "open", "broken", "closed"}]

\* A thread that was replaced is dead.
OnlyCurrentLives == \A t \in Thread : Alive(t) => t = cur

\* The blocks that are entered, by what the main thread is doing.
FramesMatch ==
    /\ at = "idle" => frames = <<>> /\ ~closing
    /\ at = "join" => IF closing THEN frames = <<>> ELSE Len(frames) = 1
    /\ at = "body" => frames # <<>> /\ ~closing

\* Only the outermost block has stopped a thread, so only its end starts one.
OuterKills == \A i \in 2..Len(frames) : ~frames[i].killed

(***************************************************************************)
(* The inductive invariant.  ToolHasPortAlone is not inductive by itself:  *)
(* the end of an inner block must not start a thread (OuterKills), and the *)
(* thread that join() waited for must be the only one (OnlyCurrentLives).  *)
(***************************************************************************)
UseInv ==
    /\ UseTypeOK
    /\ OnlyCurrentLives
    /\ FramesMatch
    /\ OuterKills
    /\ ToolHasPortAlone
    /\ ClosedIsQuiet

LEMMA InitEstablishes == Init => UseInv
<1> SUFFICES ASSUME Init PROVE UseInv
  OBVIOUS
<1>1. UseTypeOK
  <2>1. frames \in Seq(Frame)
    BY DEF Init
  <2>2. cur \in Thread
    BY BoundAssumption DEF Init, Thread
  <2>3. QED
    BY <2>1, <2>2 DEF Init, UseTypeOK
<1>2. OnlyCurrentLives
  BY DEF Init, OnlyCurrentLives, Alive
<1>3. FramesMatch /\ OuterKills /\ ToolHasPortAlone /\ ClosedIsQuiet
  BY DEF Init, FramesMatch, OuterKills, ToolHasPortAlone, ClosedIsQuiet
<1>4. QED
  BY <1>1, <1>2, <1>3 DEF UseInv

-----------------------------------------------------------------------------
(* Steps of the main thread, one lemma each. *)

LEMMA DisableKeeps ==
    ASSUME UseInv, NEW kp \in KillPort, Disable(kp)
    PROVE  UseInv'
<1> DEFINE f == [killed |-> TRUE, killPort |-> kp]
<1>1. f \in Frame
  BY FlagAssumption DEF Frame
<1>2. at = "idle" /\ frames = <<>> /\ ~closing
  BY DEF UseInv, UseTypeOK, ToolHasPortAlone, FramesMatch, Disable, Redirecting
<1>3. /\ frames' = <<f>> /\ at' = "join"
      /\ UNCHANGED <<closing, cur, th, obj>>
  BY <1>2 DEF Disable, portVars
<1> HIDE DEF f
<1>4. UseTypeOK'
  BY <1>1, <1>3 DEF UseInv, UseTypeOK
<1>5. OnlyCurrentLives'
  BY <1>3 DEF UseInv, OnlyCurrentLives, Alive
<1>6. FramesMatch' /\ OuterKills'
  BY <1>2, <1>3 DEF FramesMatch, OuterKills
<1>7. ToolHasPortAlone' /\ ClosedIsQuiet'
  BY <1>3 DEF ToolHasPortAlone, ClosedIsQuiet
<1>8. QED
  BY <1>4, <1>5, <1>6, <1>7 DEF UseInv

LEMMA DisableNothingKeeps ==
    ASSUME UseInv, NEW kp \in KillPort, DisableNothing(kp)
    PROVE  UseInv'
<1> DEFINE f == [killed |-> FALSE, killPort |-> kp]
<1>1. f \in Frame /\ ~f.killed
  BY FlagAssumption DEF Frame
<1> HIDE DEF f
<1>2. /\ frames' = Append(frames, f) /\ at' = "body" /\ ~Redirecting
      /\ obj' = IF kp THEN [obj EXCEPT ![proc] = "closed"] ELSE obj
      /\ UNCHANGED <<closing, cur, th>>
  BY DEF DisableNothing, Enter, CloseProcIf, threadVars, f
<1>3. at \in {"idle", "body"} /\ frames \in Seq(Frame) /\ ~closing
  BY DEF DisableNothing, UseInv, UseTypeOK, FramesMatch
<1>4. UseTypeOK'
  <2>1. frames' \in Seq(Frame)
    BY <1>1, <1>2, <1>3
  <2>2. QED
    BY <2>1, <1>2 DEF UseInv, UseTypeOK
<1>5. OnlyCurrentLives' /\ ToolHasPortAlone'
  BY <1>2 DEF UseInv, OnlyCurrentLives, ToolHasPortAlone, Alive, Redirecting
<1>6. FramesMatch'
  BY <1>1, <1>2, <1>3 DEF FramesMatch
<1>7. OuterKills'
  BY <1>1, <1>2, <1>3 DEF UseInv, OuterKills
<1>8. QED
  BY <1>2, <1>4, <1>5, <1>6, <1>7 DEF UseInv, ClosedIsQuiet

LEMMA JoinedKeeps ==
    ASSUME UseInv, Joined
    PROVE  UseInv'
<1>1. /\ at' = IF closing THEN "closed" ELSE "body"
      /\ closing => obj' = [obj EXCEPT ![proc] = "closed"]
      /\ obj' \in {obj, [obj EXCEPT ![proc] = "closed"]}
      /\ at = "join" /\ ~Redirecting
      /\ UNCHANGED <<closing, frames, cur, th>>
  BY DEF Joined, CloseProcIf, threadVars
<1>2. proc \in Object
  BY BoundAssumption DEF proc, Object
<1>3. UseTypeOK'
  BY <1>1 DEF UseInv, UseTypeOK
<1>4. OnlyCurrentLives'
  BY <1>1 DEF UseInv, OnlyCurrentLives, Alive
<1>5. \A t \in Thread : ~Alive(t)'
  BY <1>1 DEF UseInv, OnlyCurrentLives, Alive, Redirecting
<1>6. ToolHasPortAlone' /\ ClosedIsQuiet'
  BY <1>1, <1>2, <1>5 DEF UseInv, UseTypeOK, ToolHasPortAlone, ClosedIsQuiet
<1>7. FramesMatch'
  BY <1>1 DEF UseInv, UseTypeOK, FramesMatch
<1>8. OuterKills'
  BY <1>1 DEF UseInv, OuterKills
<1>9. QED
  BY <1>3, <1>4, <1>6, <1>7, <1>8 DEF UseInv

\* What start_redirect_thread does at the end of a block.
LEMMA RestartKeeps ==
    ASSUME UseInv, NEW killed \in BOOLEAN, Restart(killed)
    PROVE  /\ cur' \in Thread
           /\ th' \in [Thread -> {"unborn", "loop", "reconnect", "dead"}]
           /\ OnlyCurrentLives'
           /\ ~killed => UNCHANGED <<cur, th>>
<1>1. CASE killed /\ ~Redirecting
  <2>1. cur < MaxThreads /\ cur' = cur + 1 /\ th' = [th EXCEPT ![cur + 1] = "loop"]
    BY <1>1 DEF Restart, StartThread
  <2>2. cur + 1 \in Thread
    BY <2>1, BoundAssumption DEF UseInv, UseTypeOK, Thread
  <2>3. \A t \in Thread : ~Alive(t)
    BY <1>1 DEF UseInv, OnlyCurrentLives, Redirecting
  <2>4. QED
    BY <1>1, <2>1, <2>2, <2>3 DEF UseInv, UseTypeOK, OnlyCurrentLives, Alive
<1>2. CASE ~(killed /\ ~Redirecting)
  BY <1>2 DEF Restart, UseInv, UseTypeOK, OnlyCurrentLives, Alive, threadVars
<1>3. QED
  BY <1>1, <1>2

LEMMA BodyReturnsKeeps ==
    ASSUME UseInv, BodyReturns
    PROVE  UseInv'
<1> DEFINE n == Len(frames)
<1>1. frames \in Seq(Frame) /\ frames # <<>> /\ ~closing /\ n \in Nat /\ n >= 1
  BY DEF UseInv, UseTypeOK, FramesMatch, BodyReturns
<1>2. frames[n].killed \in BOOLEAN
  <2>1. frames[n] \in Frame
    BY <1>1
  <2>2. QED
    BY <2>1 DEF Frame
<1>3. /\ at = "body" /\ Restart(frames[n].killed)
      /\ frames' = SubSeq(frames, 1, n - 1)
      /\ at' = IF n = 1 THEN "idle" ELSE "body"
      /\ UNCHANGED <<closing, obj>>
  BY DEF BodyReturns
<1>4. /\ cur' \in Thread
      /\ th' \in [Thread -> {"unborn", "loop", "reconnect", "dead"}]
      /\ OnlyCurrentLives'
      /\ ~frames[n].killed => UNCHANGED <<cur, th>>
  BY <1>2, <1>3, RestartKeeps
<1> HIDE DEF n
<1>5. frames' \in Seq(Frame) /\ Len(frames') = n - 1
      /\ \A i \in 1..(n - 1) : frames'[i] = frames[i]
  <2>1. \A i \in 1..n : frames[i] \in Frame
    BY <1>1 DEF n
  <2>2. \A i \in 1..(n - 1) : frames[i] \in Frame
    BY <2>1, <1>1
  <2>3. SubSeq(frames, 1, n - 1) \in Seq(Frame)
    BY <2>2, <1>1, SubSeqProperties
  <2>4. Len(SubSeq(frames, 1, n - 1)) = IF 1 <= n - 1 THEN (n - 1) - 1 + 1 ELSE 0
    BY <2>2, <1>1, SubSeqProperties
  <2>5. \A i \in 1..(n - 1) : SubSeq(frames, 1, n - 1)[i] = frames[i]
    <3> SUFFICES ASSUME NEW i \in 1..(n - 1)
                 PROVE  SubSeq(frames, 1, n - 1)[i] = frames[i]
      OBVIOUS
    <3>1. i \in 1..((n - 1) - 1 + 1) /\ 1 + i - 1 = i /\ 1 + (i - 1) = i
      BY <1>1
    <3>2. QED
      BY <2>2, <3>1, <1>1, SubSeqProperties
  <2>6. QED
    BY <2>3, <2>4, <2>5, <1>1, <1>3
<1>6. UseTypeOK'
  BY <1>3, <1>4, <1>5 DEF UseInv, UseTypeOK
<1>7. FramesMatch'
  <2>1. closing' = closing /\ (at' = "idle" \/ at' = "body") /\ (at' = "idle" <=> n = 1)
    BY <1>3
  <2>2. frames' = <<>> <=> n = 1
    BY <1>5, <1>1, EmptySeq
  <2>3. QED
    BY <1>1, <2>1, <2>2 DEF FramesMatch
<1>8. OuterKills'
  BY <1>1, <1>5 DEF UseInv, OuterKills, n
<1>9. ToolHasPortAlone'
  <2> SUFFICES ASSUME n > 1
               PROVE  ToolHasPortAlone'
    <3>1. n = 1 => at' = "idle"
      BY <1>3
    <3>2. QED
      BY <1>1, <3>1 DEF ToolHasPortAlone
  <2>1. ~frames[n].killed
    BY <1>1 DEF UseInv, OuterKills, n
  <2>2. UNCHANGED <<cur, th>>
    BY <2>1, <1>4
  <2>3. QED
    BY <2>2, <1>3 DEF UseInv, ToolHasPortAlone, Alive
<1>10. ClosedIsQuiet'
  BY <1>3 DEF ClosedIsQuiet
<1>11. QED
  BY <1>4, <1>6, <1>7, <1>8, <1>9, <1>10 DEF UseInv

LEMMA OtherMainStepsKeep ==
    ASSUME UseInv, BodyRaises \/ Close \/ \E e \in {"stop", "start"} : Pause(e)
    PROVE  UseInv'
<1>1. proc \in Object
  BY BoundAssumption DEF proc, Object
<1>2. CASE BodyRaises
  BY <1>2 DEF BodyRaises, UseInv, UseTypeOK, OnlyCurrentLives, FramesMatch, OuterKills,
       ToolHasPortAlone, ClosedIsQuiet, Alive, threadVars, portVars
<1>3. CASE \E e \in {"stop", "start"} : Pause(e)
  BY <1>3 DEF Pause, UseInv, UseTypeOK, OnlyCurrentLives, FramesMatch, OuterKills,
       ToolHasPortAlone, ClosedIsQuiet, Alive, portVars
<1>4. CASE Close
  <2>1. /\ at = "idle" /\ closing' = TRUE /\ UNCHANGED <<frames, cur, th>>
        /\ \/ at' = "join" /\ UNCHANGED obj
           \/ /\ ~Redirecting /\ at' = "closed"
              /\ obj' = [obj EXCEPT ![proc] = "closed"]
    BY <1>4 DEF Close, CloseProcIf
  <2>2. UseTypeOK'
    BY <2>1 DEF UseInv, UseTypeOK
  <2>3. OnlyCurrentLives' /\ FramesMatch' /\ OuterKills' /\ ToolHasPortAlone'
    BY <2>1 DEF UseInv, OnlyCurrentLives, FramesMatch, OuterKills, ToolHasPortAlone, Alive
  <2>4. ClosedIsQuiet'
    BY <2>1, <1>1 DEF UseInv, UseTypeOK, OnlyCurrentLives, ClosedIsQuiet, Alive, Redirecting
  <2>5. QED
    BY <2>2, <2>3, <2>4 DEF UseInv
<1>5. QED
  BY <1>2, <1>3, <1>4

-----------------------------------------------------------------------------
(* Steps of a redirect thread: it dies or goes on, and opens no port that the main *)
(* thread has closed. *)

LEMMA ThreadKeeps ==
    ASSUME UseInv, NEW t \in Thread, ThreadStep(t)
    PROVE  UseInv'
<1>1. Alive(t) /\ UNCHANGED mainVars
  BY DEF ThreadStep, TakeEvent, Read, ReadClosed, ReadLost, Reconnect, ReconnectFails,
         Reads, Alive
<1>2. \E x \in {"loop", "reconnect", "dead"} : th' = [th EXCEPT ![t] = x]
  BY <1>1 DEF ThreadStep, TakeEvent, Read, ReadClosed, ReadLost, Reconnect, ReconnectFails,
         Reads, Alive, UseInv, UseTypeOK, threadVars
<1>3. obj' \in [Object -> {"unborn", "open", "broken", "closed"}]
  BY DEF ThreadStep, TakeEvent, Read, ReadClosed, ReadLost, Reconnect, ReconnectFails,
         UseInv, UseTypeOK, portVars
<1>4. UseTypeOK'
  BY <1>1, <1>2, <1>3 DEF UseInv, UseTypeOK, mainVars
<1>5. OnlyCurrentLives'
  BY <1>1, <1>2 DEF UseInv, UseTypeOK, OnlyCurrentLives, Alive, mainVars
<1>6. at \notin {"body", "closed"}
  BY <1>1 DEF UseInv, ToolHasPortAlone, ClosedIsQuiet
<1>7. FramesMatch' /\ OuterKills' /\ ToolHasPortAlone' /\ ClosedIsQuiet'
  BY <1>1, <1>6 DEF UseInv, FramesMatch, OuterKills, ToolHasPortAlone, ClosedIsQuiet, mainVars
<1>8. QED
  BY <1>4, <1>5, <1>7 DEF UseInv

LEMMA DeviceKeeps ==
    ASSUME UseInv, DeviceOutput \/ Unplug \/ Replug \/ Done \/ UNCHANGED vars
    PROVE  UseInv'
<1>1. UNCHANGED <<at, closing, frames, cur, th>>
  BY DEF DeviceOutput, Unplug, Replug, Done, vars, mainVars, threadVars
<1>2. /\ obj' \in [Object -> {"unborn", "open", "broken", "closed"}]
      /\ \A o \in Object : obj[o] = "closed" => obj'[o] = "closed"
  BY DEF DeviceOutput, Unplug, Replug, Done, vars, portVars, UseInv, UseTypeOK
<1>3. proc \in Object
  BY BoundAssumption DEF proc, Object
<1>4. UseTypeOK'
  BY <1>1, <1>2 DEF UseInv, UseTypeOK
<1>5. OnlyCurrentLives' /\ FramesMatch' /\ OuterKills' /\ ToolHasPortAlone'
  BY <1>1 DEF UseInv, OnlyCurrentLives, FramesMatch, OuterKills, ToolHasPortAlone, Alive
<1>6. ClosedIsQuiet'
  BY <1>1, <1>2, <1>3 DEF UseInv, ClosedIsQuiet, Alive
<1>7. QED
  BY <1>4, <1>5, <1>6 DEF UseInv

LEMMA UseInvariant == Spec => []UseInv
<1>1. UseInv /\ [Next]_vars => UseInv'
  BY DisableKeeps, DisableNothingKeeps, JoinedKeeps, BodyReturnsKeeps, OtherMainStepsKeep,
     ThreadKeeps, DeviceKeeps
  DEF Next, MainStep
<1>2. QED
  BY InitEstablishes, <1>1, PTL DEF Spec

-----------------------------------------------------------------------------
\* esptool and a redirect thread never use the port at the same time, however the blocks
\* of disable_redirect_thread are nested.
THEOREM ToolIsAlone == Spec => []ToolHasPortAlone
<1>1. UseInv => ToolHasPortAlone
  BY DEF UseInv
<1>2. QED
  BY <1>1, UseInvariant, PTL

\* The output of a port is not shared out between two redirect threads.
THEOREM PortHasOneReader == Spec => []OneReader
<1>1. ASSUME UseInv  PROVE OneReader
  <2> DEFINE readers == {t \in Thread : Alive(t)}
  <2>1. cur \in Thread /\ readers \in {{}, {cur}}
    BY <1>1 DEF UseInv, UseTypeOK, OnlyCurrentLives
  <2>2. Cardinality({}) = 0 /\ Cardinality({cur}) = 1
    BY FS_EmptySet, FS_Singleton
  <2>3. Cardinality(readers) \in {0, 1}
    BY <2>1, <2>2
  <2> HIDE DEF readers
  <2>4. Cardinality(readers) <= 1
    BY <2>3
  <2>5. QED
    BY <2>4 DEF OneReader, readers
<1>2. QED
  BY <1>1, UseInvariant, PTL

\* After Serial.close() `proc` is closed and stays so, and no thread reads.
THEOREM ClosedStaysQuiet == Spec => []ClosedIsQuiet
<1>1. UseInv => ClosedIsQuiet
  BY DEF UseInv
<1>2. QED
  BY <1>1, UseInvariant, PTL

-----------------------------------------------------------------------------
(***************************************************************************)
(* The pyserial objects and the redirect thread's return.  A thread that   *)
(* reconnects finds an object that is not used yet, since every loss of    *)
(* the connection makes at most one new object (Reconnectable); and it is  *)
(* `proc` that the thread reads as long as `proc` works (ReadsProc).       *)
(***************************************************************************)
Event == {"stop", "start", "end"}

RestTypeOK ==
    /\ calls \in 0..MaxCalls
    /\ s \in [Thread -> Object]
    /\ evq \in [Thread -> Seq(Event)]
    /\ blocked \in [Thread -> BOOLEAN]
    /\ attempt \in [Thread -> 0..MaxAttempts]
    /\ plugged \in BOOLEAN
    /\ unplugs \in 0..MaxUnplug
    /\ avail \in BOOLEAN

Live(o) == obj[o] \in {"open", "broken"}

\* The device went away and the new object it may cost is not made yet.
Pending == th[cur] = "reconnect" \/ \E o \in Object : obj[o] = "broken"

\* The objects 1..k are made.
MadeUpTo(k) == \A o \in Object : obj[o] # "unborn" <=> o <= k

\* There is an object left for each reconnection to come.
Reconnectable ==
    \E k \in Object : MadeUpTo(k) /\ k <= unplugs + 1 /\ (Pending => k <= unplugs)

\* The device is behind one object at a time, and while the thread reconnects behind none.
OneLive ==
    /\ \A o, p \in Object : Live(o) /\ Live(p) => o = p
    /\ th[cur] = "reconnect" => \A o \in Object : Live(o) => o = s[cur] /\ obj[o] = "broken"

\* What is read was opened.
ReadsMade == obj[proc] # "unborn" /\ obj[s[cur]] # "unborn"

ObjectInv == RestTypeOK /\ Reconnectable /\ OneLive /\ ReadsMade

\* A thread that is not started yet has no events, and only terminate() sends the end.
NoEarlyEnd ==
    /\ \A t \in Thread : t > cur => evq[t] = <<>>
    /\ at = "idle" /\ Alive(cur) => \A i \in 1..Len(evq[cur]) : evq[cur][i] # "end"

ReadsProc == s[cur] # proc => obj[proc] # "open"

\* The outermost block has stopped a thread, which it will start again, if the port works.
OuterRestores == frames # <<>> /\ obj[proc] = "open" => frames[1].killed

RestoreInv == NoEarlyEnd /\ ReadsProc /\ OuterRestores /\ RedirectRestored

-----------------------------------------------------------------------------
LEMMA InitObjects == Init => ObjectInv /\ RestoreInv
<1> SUFFICES ASSUME Init
             PROVE  ObjectInv /\ RestoreInv
  OBVIOUS
<1>1. proc \in Object /\ proc = 1 /\ 1 \in Thread
  BY BoundAssumption DEF proc, Object, Thread
<1>2. RestTypeOK
  <2>1. evq \in [Thread -> Seq(Event)]
    BY EmptySeq DEF Init
  <2>2. calls \in 0..MaxCalls /\ unplugs \in 0..MaxUnplug
    BY BoundAssumption DEF Init
  <2>3. s \in [Thread -> Object] /\ blocked \in [Thread -> BOOLEAN]
    BY <1>1 DEF Init
  <2>4. attempt \in [Thread -> 0..MaxAttempts]
    BY DEF Init, MaxAttempts
  <2>5. plugged \in BOOLEAN /\ avail \in BOOLEAN
    BY DEF Init
  <2>6. QED
    BY <2>1, <2>2, <2>3, <2>4, <2>5 DEF RestTypeOK
<1>3. Reconnectable
  <2>1. MadeUpTo(1)
    <3> SUFFICES ASSUME NEW o \in Object
                 PROVE  obj[o] # "unborn" <=> o <= 1
      BY DEF MadeUpTo
    <3>1. o \in Nat /\ o >= 1 /\ obj[o] = IF o = 1 THEN "open" ELSE "unborn"
      BY <1>1, BoundAssumption DEF Init, Object
    <3>2. QED
      BY <3>1
  <2>2. ~Pending
    BY <1>1 DEF Init, Pending
  <2>3. QED
    BY <1>1, <2>1, <2>2, BoundAssumption DEF Init, Reconnectable, Object
<1>4. OneLive /\ ReadsMade
  BY <1>1 DEF Init, OneLive, Live, ReadsMade
<1>5. NoEarlyEnd
  BY <1>1 DEF Init, NoEarlyEnd
<1>6. ReadsProc /\ OuterRestores /\ RedirectRestored
  BY <1>1 DEF Init, ReadsProc, OuterRestores, RedirectRestored, Redirecting, Alive
<1>7. QED
  BY <1>2, <1>3, <1>4, <1>5, <1>6 DEF ObjectInv, RestoreInv

\* A step that makes no object and loses none.
LEMMA QuietObjects ==
    ASSUME UseInv, ObjectInv, unplugs' = unplugs,
           NEW q \in Object, obj[q] # "unborn",
           obj' = obj \/ obj' = [obj EXCEPT ![q] = "closed"],
           th'[cur'] = "reconnect" =>
             s'[cur'] = s[cur] /\ (th[cur] = "reconnect" \/ obj[s[cur]] = "broken"),
           s'[cur'] = s[cur] \/ s'[cur'] = proc
    PROVE  Reconnectable' /\ OneLive' /\ ReadsMade'
<1>1. obj \in [Object -> {"unborn", "open", "broken", "closed"}]
  BY DEF UseInv, UseTypeOK
<1>2. \A o \in Object : /\ obj'[o] = "unborn" <=> obj[o] = "unborn"
                        /\ obj'[o] = "open" => obj[o] = "open"
                        /\ obj'[o] = "broken" => obj[o] = "broken"
  BY <1>1
<1>3. PICK k \in Object : MadeUpTo(k) /\ k <= unplugs + 1 /\ (Pending => k <= unplugs)
  BY DEF ObjectInv, Reconnectable
<1> DEFINE o1 == s[cur]
<1>0. o1 \in Object /\ proc \in Object
  BY BoundAssumption DEF ObjectInv, RestTypeOK, UseInv, UseTypeOK, proc, Object
<1>4. MadeUpTo(k)'
  BY <1>2, <1>3 DEF MadeUpTo
<1>5. Pending' => Pending
  BY <1>0, <1>2 DEF Pending
<1>6. Reconnectable'
  BY <1>3, <1>4, <1>5 DEF Reconnectable, MadeUpTo
<1>7. OneLive'
  <2>1. \A o \in Object : Live(o)' => Live(o)
    BY <1>2 DEF Live
  <2>2. \A o, p \in Object : Live(o)' /\ Live(p)' => o = p
    BY <2>1 DEF ObjectInv, OneLive
  <2>3. ASSUME th'[cur'] = "reconnect", NEW o \in Object, Live(o)'
        PROVE  o = s'[cur'] /\ obj'[o] = "broken"
    <3>1. Live(o) /\ o = o1
      BY <2>1, <2>3, <1>0 DEF ObjectInv, OneLive, Live
    <3>2. obj[o] = "broken"
      BY <3>1, <2>3 DEF ObjectInv, OneLive
    <3>3. QED
      BY <3>1, <3>2, <2>3, <1>2 DEF Live
  <2>4. QED
    BY <2>2, <2>3 DEF OneLive
<1>8. ReadsMade'
  BY <1>0, <1>2 DEF ObjectInv, ReadsMade
<1>9. QED
  BY <1>6, <1>7, <1>8

LEMMA NewObjectIsNext ==
    ASSUME UseInv, RestTypeOK, NEW k \in Object, MadeUpTo(k), k <= unplugs
    PROVE  NewObject \in Object /\ NewObject = k + 1 /\ obj[NewObject] = "unborn"
<1>1. k \in Nat /\ k >= 1 /\ k + 1 \in Object
  BY BoundAssumption DEF RestTypeOK, Object
<1>2. obj[k + 1] = "unborn" /\ \A q \in 1..((k + 1) - 1) : obj[q] # "unborn"
  <2>1. obj[k + 1] = "unborn"
    BY <1>1 DEF MadeUpTo
  <2>2. \A q \in 1..k : q \in Object /\ q <= k
    BY <1>1, BoundAssumption DEF Object, RestTypeOK
  <2>3. \A q \in 1..k : obj[q] # "unborn"
    BY <2>2 DEF MadeUpTo
  <2>4. (k + 1) - 1 = k
    BY <1>1
  <2>5. QED
    BY <2>1, <2>3, <2>4
<1>3. \A o \in Object : obj[o] = "unborn" /\ (\A q \in 1..(o - 1) : obj[q] # "unborn") => o = k + 1
  <2> SUFFICES ASSUME NEW o \in Object, obj[o] = "unborn", \A q \in 1..(o - 1) : obj[q] # "unborn"
               PROVE  o = k + 1
    OBVIOUS
  <2>1. o \in Nat /\ o > k
    BY <1>1 DEF MadeUpTo, Object
  <2>2. ~(o > k + 1)
    BY <2>1, <1>1, <1>2
  <2>3. QED
    BY <2>1, <2>2, <1>1
<1>4. QED
  BY <1>1, <1>2, <1>3 DEF NewObject

LEMMA UnplugObjects ==
    ASSUME UseInv, ObjectInv, Unplug
    PROVE  Reconnectable' /\ OneLive' /\ ReadsMade'
<1>1. /\ obj' = [o \in Object |-> IF obj[o] = "open" THEN "broken" ELSE obj[o]]
      /\ unplugs' = unplugs + 1 /\ UNCHANGED <<th, s, cur>>
  BY DEF Unplug, mainVars, threadVars
<1>2. PICK k \in Object : MadeUpTo(k) /\ k <= unplugs + 1
  BY DEF ObjectInv, Reconnectable
<1>3. MadeUpTo(k)'
  BY <1>1, <1>2 DEF MadeUpTo
<1>4. k \in Nat /\ unplugs \in Nat
  BY BoundAssumption DEF Object, ObjectInv, RestTypeOK
<1>5. Reconnectable'
  BY <1>1, <1>2, <1>3, <1>4 DEF Reconnectable, MadeUpTo
<1>6. \A o \in Object : Live(o)' => Live(o)
  BY <1>1 DEF Live
<1>7. OneLive'
  BY <1>1, <1>6 DEF ObjectInv, OneLive, Live
<1>8. ReadsMade'
  BY <1>1, BoundAssumption DEF ObjectInv, RestTypeOK, UseInv, UseTypeOK, ReadsMade, proc, Object
<1>9. QED
  BY <1>5, <1>7, <1>8

LEMMA ReconnectObjects ==
    ASSUME UseInv, ObjectInv, NEW t \in Thread, Reconnect(t)
    PROVE  /\ Reconnectable' /\ OneLive'
           /\ s' = [s EXCEPT ![t] = NewObject] /\ NewObject \in Object /\ NewObject # proc
           /\ obj'[proc] # "open" /\ ReadsMade'
<1>1. /\ th[t] = "reconnect" /\ UNCHANGED <<cur, unplugs>>
      /\ obj' = [obj EXCEPT ![s[t]] = "closed", ![NewObject] = "open"]
      /\ s' = [s EXCEPT ![t] = NewObject] /\ th' = [th EXCEPT ![t] = "loop"]
  BY DEF Reconnect, mainVars
<1>2. t = cur
  BY <1>1 DEF UseInv, OnlyCurrentLives, Alive
<1>3. PICK k \in Object : MadeUpTo(k) /\ k <= unplugs
  BY <1>1, <1>2 DEF ObjectInv, Reconnectable, Pending
<1>4. NewObject \in Object /\ NewObject = k + 1 /\ obj[NewObject] = "unborn"
  BY <1>3, NewObjectIsNext DEF ObjectInv
<1> DEFINE n == NewObject
<1> HIDE DEF n
<1>5. /\ n \in Object /\ n = k + 1 /\ obj[n] = "unborn"
      /\ obj' = [obj EXCEPT ![s[t]] = "closed", ![n] = "open"]
      /\ s' = [s EXCEPT ![t] = n]
  BY <1>1, <1>4 DEF n
<1>6. /\ obj \in [Object -> {"unborn", "open", "broken", "closed"}] /\ s[t] \in Object
      /\ th \in [Thread -> {"unborn", "loop", "reconnect", "dead"}]
  BY DEF UseInv, UseTypeOK, ObjectInv, RestTypeOK
<1>7. \A o \in Object : Live(o) => o = s[t] /\ obj[o] = "broken"
  BY <1>1, <1>2 DEF ObjectInv, OneLive
<1>8. obj'[n] = "open" /\ \A o \in Object \ {n} :
         obj'[o] = IF o = s[t] THEN "closed" ELSE obj[o]
  BY <1>5, <1>6
<1>9. \A o \in Object \ {n} : obj'[o] \notin {"open", "broken"}
  BY <1>7, <1>8 DEF Live
<1>10. OneLive'
  <2>1. \A o \in Object : Live(o)' => o = n
    BY <1>9 DEF Live
  <2>2. th'[cur'] # "reconnect"
    BY <1>1, <1>2, <1>6
  <2>3. QED
    BY <2>1, <2>2 DEF OneLive
<1>11. k \in Nat /\ n \in Nat
  BY BoundAssumption, <1>5 DEF Object
<1>12. s[t] <= k
  BY <1>2, <1>3, <1>6 DEF MadeUpTo, ObjectInv, ReadsMade
<1>13. MadeUpTo(k + 1)'
  <2> SUFFICES ASSUME NEW o \in Object
               PROVE  obj'[o] # "unborn" <=> o <= k + 1
    BY DEF MadeUpTo
  <2>1. o \in Nat
    BY BoundAssumption DEF Object
  <2>2. CASE o = n
    BY <2>2, <1>5, <1>8, <1>11
  <2>3. CASE o # n
    <3>1. obj'[o] = IF o = s[t] THEN "closed" ELSE obj[o]
      BY <2>3, <1>8
    <3>2. obj[o] # "unborn" <=> o <= k
      BY <1>3 DEF MadeUpTo
    <3>3. QED
      BY <2>1, <2>3, <3>1, <3>2, <1>5, <1>11, <1>12
  <2>4. QED
    BY <2>2, <2>3
<1>14. ~Pending'
  BY <1>1, <1>2, <1>6, <1>8, <1>9 DEF Pending
<1>15. unplugs \in Nat /\ unplugs' = unplugs /\ k + 1 <= unplugs + 1 /\ k + 1 \in Object
  BY <1>1, <1>3, <1>5, <1>11, BoundAssumption DEF ObjectInv, RestTypeOK
<1>16. Reconnectable'
  BY <1>5, <1>13, <1>14, <1>15 DEF Reconnectable, MadeUpTo
<1>17. n # proc /\ obj'[proc] # "open"
  <2>1. proc \in Object /\ obj[proc] # "unborn"
    BY BoundAssumption DEF proc, Object, ObjectInv, ReadsMade
  <2>2. QED
    BY <2>1, <1>5, <1>9
<1>18. ReadsMade'
  <2>1. s'[cur'] = n /\ proc \in Object \ {n}
    BY <1>1, <1>2, <1>5, <1>6, <1>17, BoundAssumption DEF proc, Object, ObjectInv, RestTypeOK
  <2>2. obj[proc] # "unborn"
    BY DEF ObjectInv, ReadsMade
  <2>3. QED
    BY <2>1, <2>2, <1>8 DEF ReadsMade
<1>19. QED
  BY <1>1, <1>4, <1>10, <1>16, <1>17, <1>18 DEF n

-----------------------------------------------------------------------------
(* One step keeps ObjectInv. *)

\* The events for the current thread are those there were, but for one.
LEMMA PostType ==
    ASSUME UseInv, RestTypeOK, NEW e \in Event, Post(e)
    PROVE  evq' \in [Thread -> Seq(Event)]
<1>1. cur \in Thread /\ evq[cur] \in Seq(Event)
  BY DEF UseInv, UseTypeOK, RestTypeOK
<1>2. Append(evq[cur], e) \in Seq(Event)
  BY <1>1
<1>3. QED
  BY <1>1, <1>2 DEF Post, RestTypeOK

LEMMA DisableObjects ==
    ASSUME UseInv, ObjectInv, NEW kp \in KillPort, Disable(kp) \/ DisableNothing(kp)
    PROVE  ObjectInv'
<1>1. proc \in Object /\ obj[proc] # "unborn"
  BY BoundAssumption DEF proc, Object, ObjectInv, ReadsMade
<1>2. calls' \in 0..MaxCalls
  <2>1. MaxCalls \in Nat /\ calls \in 0..MaxCalls
    BY BoundAssumption DEF ObjectInv, RestTypeOK
  <2>2. calls < MaxCalls /\ calls' = calls + 1
    BY DEF Disable, DisableNothing
  <2>3. QED
    BY <2>1, <2>2
<1>3. /\ UNCHANGED <<cur, th, s, blocked, attempt, plugged, unplugs, avail>>
      /\ obj' = obj \/ obj' = [obj EXCEPT ![proc] = "closed"]
      /\ evq' = evq \/ Post("end")
  BY DEF Disable, DisableNothing, Enter, CloseProcIf, threadVars, portVars
<1>4. evq' \in [Thread -> Seq(Event)]
  BY <1>3, PostType DEF ObjectInv, RestTypeOK, Event
<1>5. RestTypeOK'
  BY <1>2, <1>3, <1>4 DEF ObjectInv, RestTypeOK
<1>6. Reconnectable' /\ OneLive' /\ ReadsMade'
  BY <1>1, <1>3, QuietObjects
<1>7. QED
  BY <1>5, <1>6 DEF ObjectInv

LEMMA JoinedObjects ==
    ASSUME UseInv, ObjectInv, Joined
    PROVE  ObjectInv'
<1>1. proc \in Object /\ obj[proc] # "unborn"
  BY BoundAssumption DEF proc, Object, ObjectInv, ReadsMade
<1>2. /\ UNCHANGED <<calls, cur, th, s, evq, blocked, attempt, plugged, unplugs, avail>>
      /\ obj' = obj \/ obj' = [obj EXCEPT ![proc] = "closed"]
  BY DEF Joined, CloseProcIf, threadVars
<1>3. RestTypeOK'
  BY <1>2 DEF ObjectInv, RestTypeOK
<1>4. Reconnectable' /\ OneLive' /\ ReadsMade'
  BY <1>1, <1>2, QuietObjects
<1>5. QED
  BY <1>3, <1>4 DEF ObjectInv

LEMMA BodyReturnsObjects ==
    ASSUME UseInv, ObjectInv, BodyReturns
    PROVE  ObjectInv'
<1>1. proc \in Object /\ obj[proc] # "unborn"
  BY BoundAssumption DEF proc, Object, ObjectInv, ReadsMade
<1>2. /\ UNCHANGED <<calls, evq, blocked, attempt, plugged, unplugs, obj>> /\ avail' = FALSE
      /\ Restart(frames[Len(frames)].killed)
  BY DEF BodyReturns, Restart, threadVars
<1>3. \/ UNCHANGED <<cur, th, s>>
      \/ /\ cur' = cur + 1 /\ cur + 1 \in Thread
         /\ th' = [th EXCEPT ![cur + 1] = "loop"] /\ s' = [s EXCEPT ![cur + 1] = proc]
  BY <1>2, BoundAssumption DEF Restart, StartThread, threadVars, UseInv, UseTypeOK, Thread
<1>4. /\ s' \in [Thread -> Object]
      /\ s'[cur'] = s[cur] \/ s'[cur'] = proc
      /\ th'[cur'] = "reconnect" => th[cur] = "reconnect" /\ s'[cur'] = s[cur]
  BY <1>1, <1>3 DEF ObjectInv, RestTypeOK, UseInv, UseTypeOK
<1>5. RestTypeOK'
  BY <1>2, <1>4 DEF ObjectInv, RestTypeOK
<1>6. Reconnectable' /\ OneLive' /\ ReadsMade'
  BY <1>1, <1>2, <1>4, QuietObjects
<1>7. QED
  BY <1>5, <1>6 DEF ObjectInv

LEMMA OtherMainObjects ==
    ASSUME UseInv, ObjectInv, BodyRaises \/ Close \/ \E e \in {"stop", "start"} : Pause(e)
    PROVE  ObjectInv'
<1>1. proc \in Object /\ obj[proc] # "unborn"
  BY BoundAssumption DEF proc, Object, ObjectInv, ReadsMade
<1>2. /\ UNCHANGED <<cur, th, s, blocked, attempt, plugged, unplugs, avail>>
      /\ obj' = obj \/ obj' = [obj EXCEPT ![proc] = "closed"]
      /\ evq' = evq \/ \E e \in Event : Post(e)
      /\ calls' = calls \/ (calls < MaxCalls /\ calls' = calls + 1)
  BY DEF BodyRaises, Close, Pause, CloseProcIf, threadVars, portVars, Event
<1>3. evq' \in [Thread -> Seq(Event)]
  BY <1>2, PostType DEF ObjectInv, RestTypeOK
<1>4. calls' \in 0..MaxCalls
  <2>1. MaxCalls \in Nat /\ calls \in 0..MaxCalls
    BY BoundAssumption DEF ObjectInv, RestTypeOK
  <2>2. calls' = calls \/ (calls < MaxCalls /\ calls' = calls + 1)
    BY <1>2
  <2>3. CASE calls' = calls
    BY <2>1, <2>3
  <2>4. CASE calls < MaxCalls /\ calls' = calls + 1
    BY <2>1, <2>4
  <2>5. QED
    BY <2>2, <2>3, <2>4
<1>5. RestTypeOK'
  BY <1>2, <1>3, <1>4 DEF ObjectInv, RestTypeOK
<1>6. Reconnectable' /\ OneLive' /\ ReadsMade'
  BY <1>1, <1>2, QuietObjects
<1>7. QED
  BY <1>5, <1>6 DEF ObjectInv

LEMMA ThreadObjects ==
    ASSUME UseInv, ObjectInv, NEW t \in Thread, ThreadStep(t)
    PROVE  ObjectInv'
<1>1. t = cur /\ UNCHANGED <<calls, cur, plugged, unplugs>>
  BY DEF ThreadStep, TakeEvent, Read, ReadClosed, ReadLost, Reconnect, ReconnectFails, mainVars,
     portVars, Reads, UseInv, OnlyCurrentLives, Alive
<1>2. /\ th \in [Thread -> {"unborn", "loop", "reconnect", "dead"}]
      /\ obj \in [Object -> {"unborn", "open", "broken", "closed"}]
      /\ s \in [Thread -> Object] /\ evq \in [Thread -> Seq(Event)]
      /\ blocked \in [Thread -> BOOLEAN] /\ attempt \in [Thread -> 0..MaxAttempts]
      /\ avail \in BOOLEAN /\ s[t] \in Object /\ evq[t] \in Seq(Event) /\ blocked[t] \in BOOLEAN
      /\ attempt[t] \in 0..MaxAttempts
  BY DEF UseInv, UseTypeOK, ObjectInv, RestTypeOK
<1>3. obj[s[t]] # "unborn"
  BY <1>1 DEF ObjectInv, ReadsMade
<1>4. CASE TakeEvent(t)
  <2>1. /\ UNCHANGED <<s, attempt, obj, avail>> /\ evq[t] # <<>>
        /\ evq' = [evq EXCEPT ![t] = Tail(evq[t])]
        /\ th' = [th EXCEPT ![t] = IF Head(evq[t]) = "end" THEN "dead" ELSE th[t]]
        /\ blocked' = [blocked EXCEPT ![t] = (Head(evq[t]) = "stop") \/ (Head(evq[t]) = "end" /\ blocked[t])]
    BY <1>4 DEF TakeEvent, portVars
  <2>2. Tail(evq[t]) \in Seq(Event)
    BY <1>2, <2>1
  <2>3. evq' \in [Thread -> Seq(Event)]
    BY <1>2, <2>1, <2>2
  <2>4. blocked' \in [Thread -> BOOLEAN]
    BY <1>2, <2>1
  <2>5. RestTypeOK'
    BY <1>1, <2>1, <2>3, <2>4 DEF ObjectInv, RestTypeOK
  <2>6. th'[cur'] = "reconnect" => th[cur] = "reconnect"
    BY <1>1, <1>2, <2>1
  <2>7. Reconnectable' /\ OneLive' /\ ReadsMade'
    BY <1>1, <1>2, <1>3, <2>1, <2>6, QuietObjects
  <2>8. QED
    BY <2>5, <2>7 DEF ObjectInv
<1>5. CASE Read(t) \/ ReadClosed(t)
  <2>1. /\ UNCHANGED <<s, attempt, obj, evq, blocked>> /\ avail' \in BOOLEAN
        /\ th' = th \/ th' = [th EXCEPT ![t] = "dead"]
    BY <1>2, <1>5 DEF Read, ReadClosed, threadVars, portVars
  <2>2. RestTypeOK'
    BY <1>1, <2>1 DEF ObjectInv, RestTypeOK
  <2>3. th'[cur'] = "reconnect" => th[cur] = "reconnect"
    BY <1>1, <1>2, <2>1
  <2>4. Reconnectable' /\ OneLive' /\ ReadsMade'
    BY <1>1, <1>2, <1>3, <2>1, <2>3, QuietObjects
  <2>5. QED
    BY <2>2, <2>4 DEF ObjectInv
<1>6. CASE ReadLost(t)
  <2>1. /\ UNCHANGED <<s, obj, evq, blocked, avail>> /\ obj[s[t]] = "broken"
        /\ attempt' = [attempt EXCEPT ![t] = 1]
    BY <1>6 DEF ReadLost, portVars
  <2>2. attempt' \in [Thread -> 0..MaxAttempts]
    BY <1>2, <2>1 DEF MaxAttempts
  <2>3. RestTypeOK'
    BY <1>1, <2>1, <2>2 DEF ObjectInv, RestTypeOK
  <2>4. Reconnectable' /\ OneLive' /\ ReadsMade'
    BY <1>1, <1>2, <1>3, <2>1, QuietObjects
  <2>5. QED
    BY <2>3, <2>4 DEF ObjectInv
<1>7. CASE Reconnect(t)
  <2>1. /\ Reconnectable' /\ OneLive' /\ ReadsMade'
        /\ s' = [s EXCEPT ![t] = NewObject] /\ NewObject \in Object
    BY <1>7, ReconnectObjects
  <2>2. s' \in [Thread -> Object]
    BY <1>2, <2>1
  <2>3. UNCHANGED <<evq, blocked, attempt, avail>>
    BY <1>7 DEF Reconnect
  <2>4. RestTypeOK'
    BY <1>1, <2>2, <2>3 DEF ObjectInv, RestTypeOK
  <2>5. QED
    BY <2>1, <2>4 DEF ObjectInv
<1>8. CASE ReconnectFails(t)
  <2>1. /\ UNCHANGED <<s, evq, blocked, avail>> /\ th[t] = "reconnect"
        /\ obj' = [obj EXCEPT ![s[t]] = "closed"]
        /\ attempt' = [attempt EXCEPT ![t] = IF attempt[t] = MaxAttempts THEN attempt[t] ELSE attempt[t] + 1]
    BY <1>8 DEF ReconnectFails
  <2>2. attempt' \in [Thread -> 0..MaxAttempts]
    BY <1>2, <2>1 DEF MaxAttempts
  <2>3. RestTypeOK'
    BY <1>1, <2>1, <2>2 DEF ObjectInv, RestTypeOK
  <2>4. Reconnectable' /\ OneLive' /\ ReadsMade'
    BY <1>1, <1>2, <1>3, <2>1, QuietObjects
  <2>5. QED
    BY <2>3, <2>4 DEF ObjectInv
<1>9. QED
  BY <1>4, <1>5, <1>6, <1>7, <1>8 DEF ThreadStep

LEMMA DeviceObjects ==
    ASSUME UseInv, ObjectInv, DeviceOutput \/ Unplug \/ Replug \/ Done \/ UNCHANGED vars
    PROVE  ObjectInv'
<1>1. UNCHANGED <<calls, cur, th, s, evq, blocked, attempt>>
  BY DEF DeviceOutput, Unplug, Replug, Done, vars, mainVars, threadVars
<1>2. plugged' \in BOOLEAN /\ avail' \in BOOLEAN /\ unplugs' \in 0..MaxUnplug
  <2>1. MaxUnplug \in Nat /\ unplugs \in 0..MaxUnplug
    BY BoundAssumption DEF ObjectInv, RestTypeOK
  <2>2. unplugs' = unplugs \/ (unplugs < MaxUnplug /\ unplugs' = unplugs + 1)
    BY DEF DeviceOutput, Unplug, Replug, Done, vars, portVars
  <2>3. unplugs' \in 0..MaxUnplug
    BY <2>1, <2>2
  <2>4. plugged' \in BOOLEAN
    BY DEF DeviceOutput, Unplug, Replug, Done, vars, portVars, ObjectInv, RestTypeOK
  <2>5. avail' \in BOOLEAN
    BY DEF DeviceOutput, Unplug, Replug, Done, vars, portVars, ObjectInv, RestTypeOK
  <2>6. QED
    BY <2>3, <2>4, <2>5
<1>3. RestTypeOK'
  BY <1>1, <1>2 DEF ObjectInv, RestTypeOK
<1>4. CASE Unplug
  BY <1>3, <1>4, UnplugObjects DEF ObjectInv
<1>5. CASE ~Unplug
  <2>1. UNCHANGED <<obj, unplugs>>
    BY <1>5 DEF DeviceOutput, Replug, Done, vars, portVars
  <2>2. proc \in Object /\ obj[proc] # "unborn"
    BY BoundAssumption DEF proc, Object, ObjectInv, ReadsMade
  <2>3. QED
    BY <1>1, <1>3, <2>1, <2>2, QuietObjects DEF ObjectInv
<1>6. QED
  BY <1>4, <1>5

LEMMA ObjectInvariant == Spec => []ObjectInv
<1>1. UseInv /\ ObjectInv /\ [Next]_vars => ObjectInv'
  BY DisableObjects, JoinedObjects, BodyReturnsObjects, OtherMainObjects, ThreadObjects, DeviceObjects
  DEF Next, MainStep
<1>2. QED
  BY InitObjects, <1>1, UseInvariant, PTL DEF Spec

\* The types of all variables; no index runs out of its range, in particular there is an
\* object for every reconnection.
THEOREM TypeCorrect == Spec => []TypeOK
<1>1. UseInv /\ ObjectInv => TypeOK
  BY DEF UseInv, UseTypeOK, FramesMatch, ObjectInv, RestTypeOK, TypeOK, Frame, Event
<1>2. QED
  BY <1>1, UseInvariant, ObjectInvariant, PTL

-----------------------------------------------------------------------------
(* One step keeps RestoreInv. *)

\* What may change the verdict: `proc` is not opened again, and the threads to come have no
\* events.  The rest of the step is in the hypotheses.
LEMMA SameThreadRestores ==
    ASSUME RestoreInv, UNCHANGED <<cur, frames>>,
           obj'[proc] = "open" => obj[proc] = "open" /\ s'[cur] = s[cur],
           \A u \in Thread : u > cur => evq'[u] = evq[u],
           at' # "idle"
    PROVE  RestoreInv'
BY DEF RestoreInv, NoEarlyEnd, ReadsProc, OuterRestores, RedirectRestored

LEMMA DisableRestores ==
    ASSUME UseInv, ObjectInv, RestoreInv, NEW kp \in KillPort, Disable(kp) \/ DisableNothing(kp)
    PROVE  RestoreInv'
<1>1. proc \in Object /\ cur \in Thread /\ frames \in Seq(Frame)
      /\ obj \in [Object -> {"unborn", "open", "broken", "closed"}] /\ evq \in [Thread -> Seq(Event)]
  BY BoundAssumption DEF proc, Object, UseInv, UseTypeOK, ObjectInv, RestTypeOK
<1>2. kp \in BOOLEAN
  BY FlagAssumption
<1>3. CASE Disable(kp)
  <2>1. frames = <<>>
    BY <1>3 DEF UseInv, UseTypeOK, ToolHasPortAlone, FramesMatch, Disable, Redirecting
  <2>2. /\ frames' = <<[killed |-> TRUE, killPort |-> kp]>> /\ at' = "join"
        /\ UNCHANGED <<cur, s, obj>> /\ \A u \in Thread : u > cur => evq'[u] = evq[u]
    BY <1>1, <1>3, <2>1 DEF Disable, Post, portVars, Thread
  <2>3. frames'[1].killed
    BY <2>2
  <2>4. QED
    BY <2>2, <2>3 DEF RestoreInv, NoEarlyEnd, ReadsProc, OuterRestores, RedirectRestored
<1>4. CASE DisableNothing(kp)
  <2>1. /\ ~Redirecting /\ at \in {"idle", "body"} /\ at' = "body"
        /\ frames' = Append(frames, [killed |-> FALSE, killPort |-> kp])
        /\ obj' = obj \/ obj' = [obj EXCEPT ![proc] = "closed"]
        /\ UNCHANGED <<cur, s, evq>>
    BY <1>4 DEF DisableNothing, Enter, CloseProcIf, threadVars
  <2>2. obj'[proc] = "open" => obj[proc] = "open"
    BY <1>1, <2>1
  <2>3. CASE frames = <<>>
    <3>1. obj[proc] # "open"
      BY <2>1, <2>3 DEF UseInv, FramesMatch, RestoreInv, RedirectRestored
    <3>2. QED
      BY <2>1, <2>2, <3>1 DEF RestoreInv, NoEarlyEnd, ReadsProc, OuterRestores, RedirectRestored
  <2>4. CASE frames # <<>>
    <3>1. frames'[1] = frames[1]
      BY <1>1, <2>1, <2>4
    <3>2. QED
      BY <2>1, <2>2, <2>4, <3>1 DEF RestoreInv, NoEarlyEnd, ReadsProc, OuterRestores, RedirectRestored
  <2>5. QED
    BY <2>3, <2>4
<1>5. QED
  BY <1>3, <1>4

LEMMA JoinedRestores ==
    ASSUME UseInv, ObjectInv, RestoreInv, Joined
    PROVE  RestoreInv'
<1>1. proc \in Object /\ obj \in [Object -> {"unborn", "open", "broken", "closed"}]
  BY BoundAssumption DEF proc, Object, UseInv, UseTypeOK
<1>2. /\ at' # "idle" /\ UNCHANGED <<cur, frames, s, evq>>
      /\ obj' = obj \/ obj' = [obj EXCEPT ![proc] = "closed"]
  BY DEF Joined, CloseProcIf, threadVars
<1>3. obj'[proc] = "open" => obj[proc] = "open"
  BY <1>1, <1>2
<1>4. QED
  BY <1>2, <1>3, SameThreadRestores

LEMMA BodyReturnsRestores ==
    ASSUME UseInv, ObjectInv, RestoreInv, BodyReturns
    PROVE  RestoreInv'
<1> DEFINE n == Len(frames)
<1>1. /\ frames \in Seq(Frame) /\ n \in Nat /\ n >= 1 /\ cur \in Thread
      /\ th \in [Thread -> {"unborn", "loop", "reconnect", "dead"}] /\ s \in [Thread -> Object]
  BY DEF UseInv, UseTypeOK, FramesMatch, BodyReturns, ObjectInv, RestTypeOK
<1>2. /\ \A t \in Thread : ~Alive(t)
      /\ ~Redirecting
  BY <1>1 DEF BodyReturns, UseInv, ToolHasPortAlone, Redirecting
<1>3. /\ Restart(frames[n].killed) /\ UNCHANGED <<obj, evq>>
      /\ frames' = SubSeq(frames, 1, n - 1)
      /\ at' = IF n = 1 THEN "idle" ELSE "body"
  BY DEF BodyReturns, Restart, threadVars
<1>4. frames[1] \in Frame
  BY <1>1
<1> HIDE DEF n
<1>5. CASE n = 1
  <2>1. frames' = <<>> /\ at' = "idle" /\ Restart(frames[1].killed)
    BY <1>1, <1>3, <1>5 DEF n
  <2>2. frames # <<>>
    BY DEF UseInv, FramesMatch, BodyReturns
  <2>3. CASE frames[1].killed
    <3>1. /\ cur < MaxThreads /\ cur' = cur + 1 /\ th' = [th EXCEPT ![cur + 1] = "loop"]
          /\ s' = [s EXCEPT ![cur + 1] = proc]
      BY <1>2, <2>1, <2>3 DEF Restart, StartThread
    <3>2. cur + 1 \in Thread /\ cur + 1 > cur
      BY <1>1, <3>1, BoundAssumption DEF Thread
    <3>3. th'[cur'] = "loop" /\ s'[cur'] = proc /\ evq'[cur'] = <<>>
      BY <1>1, <1>3, <3>1, <3>2 DEF RestoreInv, NoEarlyEnd
    <3>4. \A u \in Thread : u > cur' => evq'[u] = <<>>
      <4>1. \A u \in Thread : u > cur + 1 => u > cur
        BY <1>1 DEF Thread
      <4>2. QED
        BY <1>3, <3>1, <4>1 DEF RestoreInv, NoEarlyEnd
    <3>5. NoEarlyEnd'
      BY <3>3, <3>4 DEF NoEarlyEnd
    <3>6. QED
      BY <2>1, <3>3, <3>5 DEF RestoreInv, ReadsProc, OuterRestores, RedirectRestored, Redirecting, Alive
  <2>4. CASE ~frames[1].killed
    <3>1. UNCHANGED <<cur, th, s>>
      BY <2>1, <2>4 DEF Restart, threadVars
    <3>2. obj[proc] # "open"
      BY <2>2, <2>4 DEF RestoreInv, OuterRestores
    <3>3. ~Alive(cur)'
      BY <1>1, <1>2, <3>1 DEF Alive
    <3>4. QED
      BY <1>3, <2>1, <3>1, <3>2, <3>3 DEF RestoreInv, NoEarlyEnd, ReadsProc, OuterRestores, RedirectRestored
  <2>5. QED
    BY <2>3, <2>4
<1>6. CASE n # 1
  <2>1. n - 1 \in Nat /\ n - 1 >= 1 /\ at' = "body"
    BY <1>1, <1>3, <1>6
  <2>2. ~frames[n].killed
    <3>1. Len(frames) \in 2..Len(frames)
      BY <1>1, <2>1 DEF n
    <3>2. QED
      BY <3>1 DEF UseInv, OuterKills, n
  <2>3. UNCHANGED <<cur, th, s>>
    BY <1>3, <2>2 DEF Restart, threadVars
  <2>4. frames'[1] = frames[1] /\ frames # <<>>
    BY <1>1, <1>3, <2>1 DEF n
  <2>5. QED
    BY <1>3, <2>1, <2>3, <2>4 DEF RestoreInv, NoEarlyEnd, ReadsProc, OuterRestores, RedirectRestored
<1>7. QED
  BY <1>5, <1>6

\* The tool raises only because the port is gone: there is nothing to redirect.
LEMMA BodyRaisesRestores ==
    ASSUME UseInv, RestoreInv, ~ToolFails, BodyRaises
    PROVE  RestoreInv'
<1>1. at = "body" /\ frames' = <<>> /\ obj[proc] # "open"
      /\ UNCHANGED <<cur, th, s, evq, obj>>
  BY DEF BodyRaises, StartRaises, threadVars, portVars
<1>2. ~Alive(cur)'
  BY <1>1 DEF UseInv, UseTypeOK, ToolHasPortAlone, Alive
<1>3. QED
  BY <1>1, <1>2 DEF RestoreInv, NoEarlyEnd, ReadsProc, OuterRestores, RedirectRestored

LEMMA PauseRestores ==
    ASSUME UseInv, ObjectInv, RestoreInv, NEW e \in {"stop", "start"}, Pause(e)
    PROVE  RestoreInv'
<1>1. /\ at = "idle" /\ evq' = [evq EXCEPT ![cur] = Append(evq[cur], e)]
      /\ UNCHANGED <<at, frames, cur, th, s, obj>>
  BY DEF Pause, Post, portVars
<1>2. cur \in Thread /\ evq \in [Thread -> Seq(Event)] /\ evq[cur] \in Seq(Event)
  BY DEF UseInv, UseTypeOK, ObjectInv, RestTypeOK
<1>3. ASSUME Alive(cur), NEW i \in 1..Len(evq'[cur])  PROVE evq'[cur][i] # "end"
  <2>1. evq'[cur] = Append(evq[cur], e)
    BY <1>1, <1>2
  <2>2. \A j \in 1..Len(evq[cur]) : evq[cur][j] # "end"
    BY <1>1, <1>3 DEF RestoreInv, NoEarlyEnd
  <2>3. QED
    BY <1>2, <2>1, <2>2
<1>4. \A u \in Thread : u > cur => evq'[u] = evq[u]
  <2>1. \A u \in Thread : u > cur => u # cur
    BY <1>2 DEF Thread
  <2>2. \A u \in Thread : u # cur => evq'[u] = evq[u]
    BY <1>1, <1>2, Zenon
  <2>3. QED
    BY <2>1, <2>2
<1>5. QED
  BY <1>1, <1>3, <1>4 DEF RestoreInv, NoEarlyEnd, ReadsProc, OuterRestores, RedirectRestored,
       Redirecting, Alive

LEMMA CloseRestores ==
    ASSUME UseInv, ObjectInv, RestoreInv, Close
    PROVE  RestoreInv'
<1>1. /\ proc \in Object /\ obj \in [Object -> {"unborn", "open", "broken", "closed"}]
      /\ cur \in Thread /\ evq \in [Thread -> Seq(Event)]
  BY BoundAssumption DEF proc, Object, UseInv, UseTypeOK, ObjectInv, RestTypeOK
<1>2. /\ at' # "idle" /\ UNCHANGED <<cur, frames, s>>
      /\ evq' = evq \/ Post("end")
      /\ obj' = obj \/ obj' = [obj EXCEPT ![proc] = "closed"]
  BY DEF Close, CloseProcIf
<1>3. obj'[proc] = "open" => obj[proc] = "open"
  BY <1>1, <1>2
<1>4. \A u \in Thread : u > cur => evq'[u] = evq[u]
  <2>1. \A u \in Thread : u > cur => u # cur
    BY <1>1 DEF Thread
  <2>2. ASSUME NEW u \in Thread, u # cur  PROVE evq'[u] = evq[u]
    BY <1>1, <1>2, <2>2 DEF Post
  <2>3. QED
    BY <2>1, <2>2
<1>5. QED
  BY <1>2, <1>3, <1>4, SameThreadRestores

LEMMA ThreadRestores ==
    ASSUME UseInv, ObjectInv, RestoreInv, NEW t \in Thread, ThreadStep(t)
    PROVE  RestoreInv'
<1>1. t = cur /\ Alive(t) /\ UNCHANGED <<at, frames, cur>>
  BY DEF ThreadStep, TakeEvent, Read, ReadClosed, ReadLost, Reconnect, ReconnectFails, mainVars,
         Reads, UseInv, OnlyCurrentLives, Alive
<1>2. /\ th \in [Thread -> {"unborn", "loop", "reconnect", "dead"}] /\ proc \in Object
      /\ obj \in [Object -> {"unborn", "open", "broken", "closed"}]
      /\ s \in [Thread -> Object] /\ evq \in [Thread -> Seq(Event)] /\ evq[t] \in Seq(Event)
  BY BoundAssumption DEF proc, Object, UseInv, UseTypeOK, ObjectInv, RestTypeOK
<1>3. CASE TakeEvent(t)
  <2>1. /\ UNCHANGED <<s, obj>> /\ th[t] = "loop" /\ evq[t] # <<>>
        /\ evq' = [evq EXCEPT ![t] = Tail(evq[t])]
        /\ th' = [th EXCEPT ![t] = IF Head(evq[t]) = "end" THEN "dead" ELSE th[t]]
    BY <1>3 DEF TakeEvent, portVars
  <2>2. \A u \in Thread : u > cur => evq'[u] = evq[u]
    BY <1>1, <1>2, <2>1 DEF Thread
  <2>3. CASE at # "idle"
    BY <1>1, <2>1, <2>2, <2>3, SameThreadRestores
  <2>4. CASE at = "idle"
    <3>1. \A i \in 1..Len(evq[t]) : evq[t][i] # "end"
      BY <1>1, <2>4 DEF RestoreInv, NoEarlyEnd
    <3>2. Len(evq[t]) \in Nat /\ Len(evq[t]) >= 1 /\ Head(evq[t]) = evq[t][1]
      BY <1>2, <2>1
    <3>3. th'[cur'] = "loop"
      BY <1>1, <1>2, <2>1, <3>1, <3>2
    <3>4. ASSUME NEW i \in 1..Len(Tail(evq[t]))  PROVE Tail(evq[t])[i] # "end"
      <4>1. Tail(evq[t])[i] = evq[t][i + 1] /\ i + 1 \in 1..Len(evq[t])
        BY <1>2, <2>1, <3>4
      <4>2. QED
        BY <3>1, <4>1
    <3>5. evq'[cur'] = Tail(evq[t])
      BY <1>1, <1>2, <2>1
    <3>6. NoEarlyEnd'
      BY <1>1, <2>2, <3>4, <3>5 DEF RestoreInv, NoEarlyEnd
    <3>7. QED
      BY <1>1, <2>1, <3>3, <3>6 DEF RestoreInv, ReadsProc, OuterRestores, RedirectRestored,
           Redirecting, Alive
  <2>5. QED
    BY <2>3, <2>4
<1>4. CASE Read(t)
  BY <1>1, <1>4 DEF Read, threadVars, RestoreInv, NoEarlyEnd, ReadsProc, OuterRestores,
       RedirectRestored, Redirecting, Alive
<1>5. CASE ReadClosed(t)
  <2>1. /\ obj[s[t]] = "closed" /\ th' = [th EXCEPT ![t] = "dead"]
        /\ UNCHANGED <<s, evq, obj>>
    BY <1>5 DEF ReadClosed, portVars
  <2>2. obj[proc] # "open"
    BY <1>1, <2>1 DEF RestoreInv, ReadsProc
  <2>3. ~Alive(cur)'
    BY <1>1, <1>2, <2>1 DEF Alive
  <2>4. QED
    BY <1>1, <2>1, <2>2, <2>3 DEF RestoreInv, NoEarlyEnd, ReadsProc, OuterRestores, RedirectRestored
<1>6. CASE ReadLost(t)
  <2>1. /\ th' = [th EXCEPT ![t] = "reconnect"] /\ UNCHANGED <<s, evq, obj>>
    BY <1>6 DEF ReadLost, portVars
  <2>2. Alive(cur)'
    BY <1>1, <1>2, <2>1 DEF Alive
  <2>3. QED
    BY <1>1, <2>1, <2>2 DEF RestoreInv, NoEarlyEnd, ReadsProc, OuterRestores, RedirectRestored,
         Redirecting
<1>7. CASE Reconnect(t)
  <2>1. obj'[proc] # "open"
    BY <1>7, ReconnectObjects
  <2>2. UNCHANGED evq
    BY <1>7 DEF Reconnect
  <2>3. QED
    BY <1>1, <2>1, <2>2 DEF RestoreInv, NoEarlyEnd, ReadsProc, OuterRestores, RedirectRestored
<1>8. CASE ReconnectFails(t)
  <2>1. /\ th[t] = "reconnect" /\ UNCHANGED <<s, evq>>
        /\ obj' = [obj EXCEPT ![s[t]] = "closed"]
    BY <1>8 DEF ReconnectFails
  <2>2. obj'[proc] # "open"
    BY <1>1, <1>2, <2>1 DEF ObjectInv, OneLive, Live
  <2>3. QED
    BY <1>1, <2>1, <2>2 DEF RestoreInv, NoEarlyEnd, ReadsProc, OuterRestores, RedirectRestored
<1>9. QED
  BY <1>3, <1>4, <1>5, <1>6, <1>7, <1>8 DEF ThreadStep

LEMMA DeviceRestores ==
    ASSUME UseInv, RestoreInv, DeviceOutput \/ Unplug \/ Replug \/ Done \/ UNCHANGED vars
    PROVE  RestoreInv'
<1>1. UNCHANGED <<at, frames, cur, th, s, evq>>
  BY DEF DeviceOutput, Unplug, Replug, Done, vars, mainVars, threadVars
<1>2. obj'[proc] = "open" => obj[proc] = "open"
  BY BoundAssumption DEF DeviceOutput, Unplug, Replug, Done, vars, portVars, proc, Object
<1>3. QED
  BY <1>1, <1>2 DEF RestoreInv, NoEarlyEnd, ReadsProc, OuterRestores, RedirectRestored,
       Redirecting, Alive

\* When the test goes on and the port still works, its output is being redirected, as long
\* as the tool itself does not raise: the generator of disable_redirect_thread has no
\* `finally`, so that a tool that fails on a working port leaves no redirect thread.
THEOREM RedirectComesBack ==
    ASSUME ~ToolFails
    PROVE  Spec => []RedirectRestored
<1>1. UseInv /\ ObjectInv /\ RestoreInv /\ [Next]_vars => RestoreInv'
  BY DisableRestores, JoinedRestores, BodyReturnsRestores, BodyRaisesRestores, PauseRestores,
     CloseRestores, ThreadRestores, DeviceRestores
  DEF Next, MainStep
<1>2. RestoreInv => RedirectRestored
  BY DEF RestoreInv
<1>3. QED
  BY InitObjects, <1>1, <1>2, UseInvariant, ObjectInvariant, PTL DEF Spec

=============================================================================
