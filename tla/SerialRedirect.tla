--------------------------- MODULE SerialRedirect ---------------------------
(***************************************************************************)
(* One serial port of pytest-embedded and the two parties that use it: the *)
(* redirect thread (`_SerialRedirectThread`), which forwards what the      *)
(* device prints, and the test's main thread, which takes the port away    *)
(* from it to run esptool (`EspSerial.use_esptool`, that is                *)
(* `Serial.disable_redirect_thread`), gives it back, and finally closes    *)
(* it.  The cable may be pulled and plugged in again; the redirect thread  *)
(* then opens a pyserial object of its own.                                *)
(***************************************************************************)
EXTENDS Naturals, Sequences, FiniteSets, SequencesExt

CONSTANTS
    ToolFails,   \* may esptool raise on a port that works?
    KillPort,    \* the values of `kill_port` callers pass, a set of Booleans
    Pausing,     \* does anyone call stop_reading() and start_reading()?
    MaxThreads,  \* bound: redirect threads started
    MaxCalls,    \* bound: calls of disable_redirect_thread, stop_/start_reading
    MaxNest,     \* bound: nesting of disable_redirect_thread
    MaxUnplug    \* bound: times the cable is pulled

ASSUME FlagAssumption == ToolFails \in BOOLEAN /\ Pausing \in BOOLEAN /\ KillPort \subseteq BOOLEAN
ASSUME BoundAssumption ==
    /\ {MaxThreads, MaxCalls, MaxNest, MaxUnplug} \subseteq Nat
    /\ MaxThreads > 0

Thread == 1..MaxThreads

\* `Serial.__init__` opens object 1; each reconnection opens another one.
Object == 1..(MaxUnplug + 1)

\* `Serial.proc` is never assigned again.
proc == 1

\* `range(1, 4)`
MaxAttempts == 3

VARIABLES
    at,       \* the main thread: "idle" in the test, "join" in terminate(), "body"
              \* inside the `with`, "closed" after Serial.close()
    closing,  \* is the join that of Serial.close()?
    frames,   \* the `with` blocks entered: [killed, killPort] each
    calls,    \* calls made so far
    cur,      \* `_redirect_thread`
    th,       \* th[t]: "unborn", "loop", "reconnect" or "dead"
    s,        \* s[t]: the pyserial object `_s` of thread t
    evq,      \* evq[t]: the events for thread t
    blocked,  \* blocked[t]: `_block_reading`
    attempt,  \* attempt[t]: the reconnection attempt thread t is in
    obj,      \* obj[o]: "unborn", "open", "broken" (its device went away), "closed"
    plugged,  \* is the cable plugged in?
    unplugs,  \* times it was pulled
    avail     \* has the device printed something nobody has read yet?

mainVars == <<at, closing, frames, calls, cur>>
threadVars == <<th, s, evq, blocked, attempt>>
portVars == <<obj, plugged, unplugs, avail>>
vars == <<mainVars, threadVars, portVars>>

Alive(t) == th[t] \in {"loop", "reconnect"}

\* `if self._redirect_thread and self._redirect_thread.is_alive()`
Redirecting == Alive(cur)

Init ==
    /\ at = "idle"
    /\ closing = FALSE
    /\ frames = <<>>
    /\ calls = 0
    /\ cur = 1
    /\ th = [t \in Thread |-> IF t = 1 THEN "loop" ELSE "unborn"]
    /\ s = [t \in Thread |-> proc]
    /\ evq = [t \in Thread |-> <<>>]
    /\ blocked = [t \in Thread |-> FALSE]
    /\ attempt = [t \in Thread |-> 0]
    /\ obj = [o \in Object |-> IF o = proc THEN "open" ELSE "unborn"]
    /\ plugged = TRUE
    /\ unplugs = 0
    /\ avail = FALSE

-----------------------------------------------------------------------------
(* The main thread. *)

Post(e) == evq' = [evq EXCEPT ![cur] = Append(@, e)]

\* `self.proc.close()` if c
CloseProcIf(c) == obj' = IF c THEN [obj EXCEPT ![proc] = "closed"] ELSE obj

\* The `with` block is entered.
Enter(killed, kp) ==
    /\ frames' = Append(frames, [killed |-> killed, killPort |-> kp])
    /\ CloseProcIf(kp)
    /\ at' = "body"

\* disable_redirect_thread with no thread to stop: `killed` is False.
DisableNothing(kp) ==
    /\ at \in {"idle", "body"}
    /\ Len(frames) < MaxNest
    /\ calls < MaxCalls
    /\ calls' = calls + 1
    /\ ~Redirecting
    /\ Enter(FALSE, kp)
    /\ UNCHANGED <<closing, cur, threadVars, plugged, unplugs, avail>>

\* disable_redirect_thread with a thread: terminate() posts 'end' and joins.
\* The frame is recorded now and takes effect when the join returns.
Disable(kp) ==
    /\ at \in {"idle", "body"}
    /\ Len(frames) < MaxNest
    /\ calls < MaxCalls
    /\ calls' = calls + 1
    /\ Redirecting
    /\ Post("end")
    /\ frames' = Append(frames, [killed |-> TRUE, killPort |-> kp])
    /\ at' = "join"
    /\ UNCHANGED <<closing, cur, th, s, blocked, attempt, portVars>>

\* Mutant: terminate() does not join.
JoinedAtOnce ==
    /\ at = "join"
    /\ IF closing
       THEN at' = "closed" /\ CloseProcIf(TRUE)
       ELSE at' = "body" /\ CloseProcIf(frames[Len(frames)].killPort)
    /\ UNCHANGED <<closing, frames, calls, cur, threadVars, plugged, unplugs, avail>>

\* The join returns.
Joined ==
    /\ at = "join"
    /\ ~Redirecting
    /\ IF closing
       THEN at' = "closed" /\ CloseProcIf(TRUE)
       ELSE at' = "body" /\ CloseProcIf(frames[Len(frames)].killPort)
    /\ UNCHANGED <<closing, frames, calls, cur, threadVars, plugged, unplugs, avail>>

\* start_redirect_thread when there is none that lives: a new one on `self.proc`.
StartThread ==
    /\ cur < MaxThreads
    /\ cur' = cur + 1
    /\ th' = [th EXCEPT ![cur + 1] = "loop"]
    /\ s' = [s EXCEPT ![cur + 1] = proc]

\* Mutant: the liveness check of start_redirect_thread is missing and every
\* frame starts a thread.
RestartAlways(killed) ==
    /\ StartThread
    /\ UNCHANGED <<evq, blocked, attempt>>

\* Mutant: no restart.
RestartNever(killed) == UNCHANGED <<cur, threadVars>>

\* `if killed: ... self.start_redirect_thread()`.  What `_start()` does before it to a
\* board whose port was closed is a reset, of which this model keeps nothing, or
\* a flash (StartRaises).
Restart(killed) ==
    IF killed /\ ~Redirecting
    THEN StartThread /\ UNCHANGED <<evq, blocked, attempt>>
    ELSE UNCHANGED <<cur, threadVars>>

\* The body is done: esptool talks through `self.proc`, so it must be open, unless
\* the caller had it closed.  What the device printed meanwhile is gone.
BodyReturns ==
    LET f == frames[Len(frames)]
    IN  /\ at = "body"
        /\ f.killPort \/ obj[proc] = "open"
        /\ Restart(f.killed)
        /\ frames' = SubSeq(frames, 1, Len(frames) - 1)
        /\ at' = IF Len(frames) = 1 THEN "idle" ELSE "body"
        /\ avail' = FALSE
        /\ UNCHANGED <<closing, calls, obj, plugged, unplugs>>

\* `if kill_port: self._start()`: it flashes (IdfSerial, ArduinoSerial) and so runs
\* esptool on the port that this block has closed.
StartRaises(f) == f.killed /\ f.killPort /\ obj[proc] # "open"

\* The body raises, or what follows it in disable_redirect_thread.  The generator
\* has no `finally`: the exception leaves every `with` block at once.
BodyRaises ==
    LET f == frames[Len(frames)]
    IN  /\ at = "body"
        /\ ToolFails \/ (obj[proc] # "open" /\ ~f.killPort) \/ StartRaises(f)
        /\ frames' = <<>>
        /\ at' = "idle"
        /\ UNCHANGED <<closing, calls, cur, threadVars, portVars>>

\* stop_reading() and start_reading() of the redirect thread.
Pause(e) ==
    /\ Pausing
    /\ at = "idle"
    /\ calls < MaxCalls
    /\ calls' = calls + 1
    /\ Post(e)
    /\ UNCHANGED <<at, closing, frames, cur, th, s, blocked, attempt, portVars>>

\* Serial.close()
Close ==
    /\ at = "idle"
    /\ closing' = TRUE
    /\ IF Redirecting
       THEN Post("end") /\ at' = "join" /\ UNCHANGED obj
       ELSE at' = "closed" /\ CloseProcIf(TRUE) /\ UNCHANGED evq
    /\ UNCHANGED <<frames, calls, cur, th, s, blocked, attempt, plugged, unplugs, avail>>

-----------------------------------------------------------------------------
(* The redirect thread. *)

\* Mutant: 'end' ends a pause and nothing else.
TakeEventButStay(t) ==
    LET e == Head(evq[t])
    IN  /\ th[t] = "loop"
        /\ evq[t] # <<>>
        /\ evq' = [evq EXCEPT ![t] = Tail(@)]
        /\ blocked' = [blocked EXCEPT ![t] = (e = "stop")]
        /\ UNCHANGED <<mainVars, th, s, attempt, portVars>>

\* `_e = self._event_q.get_nowait()`
TakeEvent(t) ==
    LET e == Head(evq[t])
    IN  /\ th[t] = "loop"
        /\ evq[t] # <<>>
        /\ evq' = [evq EXCEPT ![t] = Tail(@)]
        /\ th' = [th EXCEPT ![t] = IF e = "end" THEN "dead" ELSE @]
        /\ blocked' = [blocked EXCEPT ![t] = (e = "stop") \/ (e = "end" /\ @)]
        /\ UNCHANGED <<mainVars, s, attempt, portVars>>

Reads(t) == th[t] = "loop" /\ evq[t] = <<>> /\ ~blocked[t]

\* read_all() returns what there is, which is put into the message queue.
Read(t) ==
    /\ Reads(t)
    /\ obj[s[t]] = "open"
    /\ avail
    /\ avail' = FALSE
    /\ UNCHANGED <<mainVars, threadVars, obj, plugged, unplugs>>

\* The port is closed: the thread exits.
ReadClosed(t) ==
    /\ Reads(t)
    /\ obj[s[t]] = "closed"
    /\ th' = [th EXCEPT ![t] = "dead"]
    /\ UNCHANGED <<mainVars, s, evq, blocked, attempt, portVars>>

\* OSError: the connection is lost.
ReadLost(t) ==
    /\ Reads(t)
    /\ obj[s[t]] = "broken"
    /\ th' = [th EXCEPT ![t] = "reconnect"]
    /\ attempt' = [attempt EXCEPT ![t] = 1]
    /\ UNCHANGED <<mainVars, s, evq, blocked, portVars>>

NewObject == CHOOSE o \in Object : obj[o] = "unborn" /\ \A p \in 1..(o - 1) : obj[p] # "unborn"

\* `self._s.close()` and serial_for_url(): a new object for `_s`, and `Serial.proc`
\* remains the old one.
Reconnect(t) ==
    /\ th[t] = "reconnect"
    /\ plugged
    /\ obj' = [obj EXCEPT ![s[t]] = "closed", ![NewObject] = "open"]
    /\ s' = [s EXCEPT ![t] = NewObject]
    /\ th' = [th EXCEPT ![t] = "loop"]
    /\ UNCHANGED <<mainVars, evq, blocked, attempt, plugged, unplugs, avail>>

\* Mutant: the attempts are not limited.
ReconnectFailsForEver(t) ==
    /\ th[t] = "reconnect"
    /\ ~plugged
    /\ obj' = [obj EXCEPT ![s[t]] = "closed"]
    /\ attempt' = [attempt EXCEPT ![t] = @ + 1]
    /\ UNCHANGED <<mainVars, th, s, evq, blocked, plugged, unplugs, avail>>

\* The attempt fails; after the last one the thread exits.
ReconnectFails(t) ==
    /\ th[t] = "reconnect"
    /\ ~plugged
    /\ obj' = [obj EXCEPT ![s[t]] = "closed"]
    /\ th' = [th EXCEPT ![t] = IF attempt[t] = MaxAttempts THEN "dead" ELSE @]
    /\ attempt' = [attempt EXCEPT ![t] = IF @ = MaxAttempts THEN @ ELSE @ + 1]
    /\ UNCHANGED <<mainVars, s, evq, blocked, plugged, unplugs, avail>>

-----------------------------------------------------------------------------
(* The device and its cable. *)

DeviceOutput ==
    /\ plugged
    /\ ~avail
    /\ avail' = TRUE
    /\ UNCHANGED <<mainVars, threadVars, obj, plugged, unplugs>>

Unplug ==
    /\ plugged
    /\ unplugs < MaxUnplug
    /\ plugged' = FALSE
    /\ unplugs' = unplugs + 1
    /\ avail' = FALSE
    /\ obj' = [o \in Object |-> IF obj[o] = "open" THEN "broken" ELSE obj[o]]
    /\ UNCHANGED <<mainVars, threadVars>>

Replug ==
    /\ ~plugged
    /\ plugged' = TRUE
    /\ UNCHANGED <<mainVars, threadVars, obj, unplugs, avail>>

\* The port is closed and the session is over.
Done == at = "closed" /\ UNCHANGED vars

ThreadStep(t) ==
    \/ TakeEvent(t)
    \/ Read(t)
    \/ ReadClosed(t)
    \/ ReadLost(t)
    \/ Reconnect(t)
    \/ ReconnectFails(t)

MainStep ==
    \/ \E kp \in KillPort : Disable(kp) \/ DisableNothing(kp)
    \/ Joined
    \/ BodyReturns
    \/ BodyRaises
    \/ \E e \in {"stop", "start"} : Pause(e)
    \/ Close

Next ==
    \/ MainStep
    \/ \E t \in Thread : ThreadStep(t)
    \/ DeviceOutput
    \/ Unplug
    \/ Replug
    \/ Done

Spec == Init /\ [][Next]_vars

\* The thread polls without end, and a join returns when it can.  The test, the
\* device and the cable owe nothing.
Fairness == (\A t \in Thread : WF_vars(ThreadStep(t))) /\ WF_vars(Joined)

FairSpec == Spec /\ Fairness

-----------------------------------------------------------------------------
(* Properties. *)

\* The type invariant.
TypeOK ==
    /\ at \in {"idle", "join", "body", "closed"}
    /\ closing \in BOOLEAN
    /\ frames \in Seq([killed : BOOLEAN, killPort : BOOLEAN])
    /\ at = "idle" => frames = <<>>
    /\ at = "body" => frames # <<>>
    /\ calls \in 0..MaxCalls
    /\ cur \in Thread
    /\ th \in [Thread -> {"unborn", "loop", "reconnect", "dead"}]
    /\ s \in [Thread -> Object]
    /\ evq \in [Thread -> Seq({"stop", "start", "end"})]
    /\ blocked \in [Thread -> BOOLEAN]
    /\ attempt \in [Thread -> 0..MaxAttempts]
    /\ obj \in [Object -> {"unborn", "open", "broken", "closed"}]
    /\ plugged \in BOOLEAN
    /\ unplugs \in 0..MaxUnplug
    /\ avail \in BOOLEAN

\* esptool and the redirect thread never use the port at the same time
\* (`use_esptool`: "1. tell the redirect serial thread to stop reading").
ToolHasPortAlone == at = "body" => \A t \in Thread : ~Alive(t)

\* No two redirect threads share out the output of one port.
OneReader == Cardinality({t \in Thread : Alive(t)}) <= 1

\* After Serial.close() nobody reads the port and `proc` is closed.
ClosedIsQuiet ==
    at = "closed" => obj[proc] = "closed" /\ \A t \in Thread : ~Alive(t)

\* "kill the redirect thread, and start a new one after got yield back"
\* (serial.py:149), "3. tell the redirect serial thread to continue reading from
\* serial" (esp serial.py:137): when the test goes on and the port still works,
\* its output is being redirected.
RedirectRestored == at = "idle" /\ obj[proc] = "open" => Redirecting

\* A join in terminate() returns, whatever the thread is doing: paused, trying to
\* reconnect, or dying by itself.
JoinReturns == at = "join" ~> at # "join"

\* The test has asked the redirect thread not to read.
Paused(t) == blocked[t] \/ Contains(evq[t], "stop")

\* The connection is lost: not restored yet, or too late for the thread.
Lost == obj[s[cur]] # "open" \/ (obj[proc] # "open" /\ ~Redirecting)

\* What the device prints while the test runs is forwarded, over a reconnection
\* too, unless the test takes the port, pauses the thread or the cable is pulled.
OutputForwarded ==
    (at = "idle" /\ avail) ~> (~avail \/ at # "idle" \/ Paused(cur) \/ Lost)

=============================================================================
