-------------------------- MODULE RedirectPipeline --------------------------
(***************************************************************************)
(* The path every byte of a device takes in pytest-embedded:               *)
(*                                                                         *)
(*   daemon --put--> msg_queue --get--> listener process                   *)
(*                         +-- append --> logfile --read--> Dut.expect     *)
(*                         +-- print, under the session's lock --> stdout  *)
(*                                                                         *)
(* One pytest session runs MaxTests test cases.  Each of them has one      *)
(* message queue, one listener process (`_listen` in dut_factory.py) and   *)
(* one reader (`PexpectProcess` in log.py) per DUT; the fixtures of the    *)
(* test case are torn down in reverse order of their creation, and the     *)
(* stdout lock outlives them all.                                          *)
(***************************************************************************)
EXTENDS Integers, Sequences, SequencesExt

CONSTANTS
    NDut,        \* the number of DUTs of a test case (`--count`)
    Chunk,       \* the pieces of output a daemon can put, sequences of characters
    NL, CR,      \* '\n' and '\r'
    Bad,         \* bytes that are no UTF-8 of their own (half a character)
    Prefix,      \* '<timestamp> [dut-i] ', what starts a line on the terminal
    Free,        \* the owner of a lock nobody holds
    Idle,        \* the pattern of a DUT no `expect` is waiting on
    Patterns,    \* the characters the test waits for with `Dut.expect_exact`
    SharedName,  \* consecutive test cases have the same `request.node.name`
    MaxTests,    \* bound: test cases of the session
    MaxSent      \* bound: chunks put per DUT and test case

Dut == 1..NDut

ASSUME NDutAssumption == NDut \in Nat \ {0}
ASSUME ChunkAssumption == \A c \in Chunk : c \in Seq(UNION {Range(b) : b \in Chunk})
ASSUME BoundAssumption == MaxTests \in Nat \ {0} /\ MaxSent \in Nat
ASSUME SharedNameAssumption == SharedName \in BOOLEAN
ASSUME PrefixAssumption == Prefix \notin {NL, CR} \cup UNION {Range(b) : b \in Chunk}
ASSUME FreeAssumption == Free \notin (1..MaxTests) \X Dut

VARIABLES
    phase,     \* "run": the test runs; "closed": its daemons are closed and its
               \* listeners are being killed; "over": every listener is killed
    test,      \* the number of the running test case
    q,         \* q[d]: the `msg_queue` of d
    pc,        \* pc[d]: where the listener of d is
    msg,       \* msg[d]: the chunk the listener got last
    shallAddPrefix, pending,   \* the locals of `_listen`
    toWrite,   \* toWrite[d]: what the listener has yet to write to stdout
    lock,      \* the holder of `_stdout_lock`: Free or <<test, dut>>
    stdout,    \* the terminal: characters with the listener that wrote them
    old,       \* old[d]: what the logfile held when the listener was started
    log,       \* log[d]: the chunks this listener has appended to the logfile
    expecting, \* expecting[d]: the pattern a running `expect` waits for, or Idle
    offset,    \* offset[d]: the chunks of the logfile the reader has read
    buf,       \* buf[d]: `pexpect_proc.buffer`
    consumed,  \* consumed[d]: what matches have taken out of the buffer (history)
    sent       \* sent[d]: what was put into the queue of d (history)

queueVars == <<q, sent>>
listenVars == <<pc, msg, shallAddPrefix, pending, toWrite>>
readVars == <<expecting, offset, buf, consumed>>
vars == <<phase, test, queueVars, listenVars, lock, stdout, old, log, readVars>>

Each(v) == [d \in Dut |-> v]

-----------------------------------------------------------------------------
(* The text operations of `_listen`. *)

\* `to_str`: bytes that do not decode are ignored.
Decoded(c) == FlattenSeq([i \in DOMAIN c |-> IF c[i] = Bad THEN <<>> ELSE <<c[i]>>])

\* `_s.replace('\r\n', '\n')`
JoinCRLF(s) ==
    LET Drop(i) == s[i] = CR /\ i < Len(s) /\ s[i + 1] = NL
    IN  FlattenSeq([i \in DOMAIN s |-> IF Drop(i) THEN <<>> ELSE <<s[i]>>])

\* `_s.replace('\n', '\n' + prefix)`
PrefixLines(s) ==
    FlattenSeq([i \in DOMAIN s |-> IF s[i] = NL THEN <<NL, Prefix>> ELSE <<s[i]>>])

\* The text of every chunk, with a prefix or without, before its inner newlines
\* get theirs (a constant: TLC computes it once).
Texts ==
    [c \in Chunk |-> [addPrefix \in BOOLEAN |->
        JoinCRLF((IF addPrefix THEN <<Prefix>> ELSE <<>>) \o Decoded(c))]]

Text(c, addPrefix) == Texts[c][addPrefix]

EndsLine(s) == Last(s) = NL

\* The content of the logfile of d.
File(d) == old[d] \o log[d]

-----------------------------------------------------------------------------
Init ==
    /\ phase = "run"
    /\ test = 1
    /\ q = Each(<<>>)
    /\ pc = Each("get")
    /\ msg = Each(<<>>)
    /\ shallAddPrefix = Each(TRUE)
    /\ pending = Each(<<>>)
    /\ toWrite = Each(<<>>)
    /\ lock = Free
    /\ stdout = <<>>
    /\ old = Each(<<>>)
    /\ log = Each(<<>>)
    /\ expecting = Each(Idle)
    /\ offset = Each(0)
    /\ buf = Each(<<>>)
    /\ consumed = Each(<<>>)
    /\ sent = Each(<<>>)

(***************************************************************************)
(* `MessageQueue.put`, by the redirect thread of a serial port, a          *)
(* forwarder of a subprocess, `Dut.write` or `redirect()`.  Empty chunks   *)
(* are dropped.  The bound MaxSent stands for the end of the output.       *)
(***************************************************************************)
Put(d, c) ==
    /\ phase = "run"
    /\ c # <<>>
    /\ Len(sent[d]) < MaxSent
    /\ q' = [q EXCEPT ![d] = Append(@, c)]
    /\ sent' = [sent EXCEPT ![d] = Append(@, c)]
    /\ UNCHANGED <<phase, test, listenVars, lock, stdout, old, log, readVars>>

\* Mutant: a stack in place of the queue.
GetLast(d) ==
    /\ pc[d] = "get"
    /\ q[d] # <<>>
    /\ msg' = [msg EXCEPT ![d] = Last(q[d])]
    /\ q' = [q EXCEPT ![d] = Front(@)]
    /\ pc' = [pc EXCEPT ![d] = "append"]
    /\ UNCHANGED <<phase, test, sent, shallAddPrefix, pending, toWrite, lock,
                   stdout, old, log, readVars>>

\* `msg = q.get()`
Get(d) ==
    /\ pc[d] = "get"
    /\ q[d] # <<>>
    /\ msg' = [msg EXCEPT ![d] = Head(q[d])]
    /\ q' = [q EXCEPT ![d] = Tail(@)]
    /\ pc' = [pc EXCEPT ![d] = "append"]
    /\ UNCHANGED <<phase, test, sent, shallAddPrefix, pending, toWrite, lock,
                   stdout, old, log, readVars>>

\* The chunk is appended to the logfile and flushed.
AppendToLog(d) ==
    /\ pc[d] = "append"
    /\ log' = [log EXCEPT ![d] = Append(@, msg[d])]
    /\ pc' = [pc EXCEPT ![d] = IF Decoded(msg[d]) = <<>> THEN "get" ELSE "format"]
    /\ UNCHANGED <<phase, test, queueVars, msg, shallAddPrefix, pending, toWrite,
                   lock, stdout, old, readVars>>

\* A chunk that ends a line goes to the terminal with the pending text before it.
FormatLine(d) ==
    LET s == Text(msg[d], shallAddPrefix[d])
    IN  /\ pc[d] = "format"
        /\ EndsLine(s)
        /\ shallAddPrefix' = [shallAddPrefix EXCEPT ![d] = TRUE]
        /\ toWrite' = [toWrite EXCEPT
                         ![d] = pending[d] \o PrefixLines(Front(s)) \o <<NL>>]
        /\ pc' = [pc EXCEPT ![d] = "acquire"]
        /\ UNCHANGED <<phase, test, queueVars, msg, pending, lock, stdout, old,
                       log, readVars>>

\* A chunk that leaves a line open is kept back.
FormatPart(d) ==
    LET s == Text(msg[d], shallAddPrefix[d])
    IN  /\ pc[d] = "format"
        /\ ~EndsLine(s)
        /\ shallAddPrefix' = [shallAddPrefix EXCEPT ![d] = FALSE]
        /\ pending' = [pending EXCEPT ![d] = @ \o PrefixLines(s)]
        /\ pc' = [pc EXCEPT ![d] = "get"]
        /\ UNCHANGED <<phase, test, queueVars, msg, toWrite, lock, stdout, old,
                       log, readVars>>

\* Mutant: no lock, as `_listen` runs when it is given none.
AcquireNothing(d) ==
    /\ pc[d] = "acquire"
    /\ pc' = [pc EXCEPT ![d] = "write"]
    /\ UNCHANGED <<phase, test, queueVars, msg, shallAddPrefix, pending, toWrite,
                   lock, stdout, old, log, readVars>>

\* Mutant: a lock that is not waited for; the line is given up.
AcquireOrSkip(d) ==
    /\ pc[d] = "acquire"
    /\ lock' = IF lock = Free THEN <<test, d>> ELSE lock
    /\ pc' = [pc EXCEPT ![d] = IF lock = Free THEN "write" ELSE "get"]
    /\ UNCHANGED <<phase, test, queueVars, msg, shallAddPrefix, pending, toWrite,
                   stdout, old, log, readVars>>

\* `with _stdout_lock`
Acquire(d) ==
    /\ pc[d] = "acquire"
    /\ lock = Free
    /\ lock' = <<test, d>>
    /\ pc' = [pc EXCEPT ![d] = "write"]
    /\ UNCHANGED <<phase, test, queueVars, msg, shallAddPrefix, pending, toWrite,
                   stdout, old, log, readVars>>

\* `_stdout.write(...)` and `_stdout.flush()`: the operating system may take the
\* text in pieces of any size.
Write(d) ==
    /\ pc[d] = "write"
    /\ \E n \in 1..Len(toWrite[d]) :
         /\ stdout' = stdout \o [i \in 1..n |-> [by |-> <<test, d>>, ch |-> toWrite[d][i]]]
         /\ toWrite' = [toWrite EXCEPT ![d] = SubSeq(@, n + 1, Len(@))]
    /\ UNCHANGED <<phase, test, queueVars, pc, msg, shallAddPrefix, pending, lock,
                   old, log, readVars>>

\* Mutant: `_pending` is not cleared.
ReleaseKeepingPending(d) ==
    /\ pc[d] = "write"
    /\ toWrite[d] = <<>>
    /\ lock' = Free
    /\ pc' = [pc EXCEPT ![d] = "get"]
    /\ UNCHANGED <<phase, test, queueVars, msg, shallAddPrefix, pending, toWrite,
                   stdout, old, log, readVars>>

\* Mutant: the lock is not released.
ReleaseNothing(d) ==
    /\ pc[d] = "write"
    /\ toWrite[d] = <<>>
    /\ pending' = [pending EXCEPT ![d] = <<>>]
    /\ pc' = [pc EXCEPT ![d] = "get"]
    /\ UNCHANGED <<phase, test, queueVars, msg, shallAddPrefix, toWrite, lock,
                   stdout, old, log, readVars>>

\* The end of the `with` block and `_pending = ''`.
Release(d) ==
    /\ pc[d] = "write"
    /\ toWrite[d] = <<>>
    /\ lock' = Free
    /\ pending' = [pending EXCEPT ![d] = <<>>]
    /\ pc' = [pc EXCEPT ![d] = "get"]
    /\ UNCHANGED <<phase, test, queueVars, msg, shallAddPrefix, toWrite, stdout,
                   old, log, readVars>>

-----------------------------------------------------------------------------
(* `Dut.expect_exact(p)` on the reader of d. *)

ExpectCall(d, p) ==
    /\ phase = "run"
    /\ \A e \in Dut : expecting[e] = Idle
    /\ expecting' = [expecting EXCEPT ![d] = p]
    /\ UNCHANGED <<phase, test, queueVars, listenVars, lock, stdout, old, log,
                   offset, buf, consumed>>

\* `read_nonblocking`: os.read at the reader's own offset.  At the end of the
\* file it returns nothing, and pexpect asks again.
ExpectRead(d) ==
    /\ expecting[d] # Idle
    /\ ~Contains(buf[d], expecting[d])
    /\ \E n \in (offset[d] + 1)..Len(File(d)) :
         /\ buf' = [buf EXCEPT ![d] = @ \o FlattenSeq(SubSeq(File(d), offset[d] + 1, n))]
         /\ offset' = [offset EXCEPT ![d] = n]
    /\ UNCHANGED <<phase, test, queueVars, listenVars, lock, stdout, old, log,
                   expecting, consumed>>

\* The first occurrence matches; the buffer keeps what comes after it.
ExpectMatch(d) ==
    LET at == SelectInSeq(buf[d], LAMBDA x : x = expecting[d])
    IN  /\ expecting[d] # Idle
        /\ Contains(buf[d], expecting[d])
        /\ consumed' = [consumed EXCEPT ![d] = @ \o SubSeq(buf[d], 1, at)]
        /\ buf' = [buf EXCEPT ![d] = SubSeq(@, at + 1, Len(@))]
        /\ expecting' = [expecting EXCEPT ![d] = Idle]
        /\ UNCHANGED <<phase, test, queueVars, listenVars, lock, stdout, old,
                       log, offset>>

\* Mutant: a TIMEOUT empties the buffer.
ExpectTimeoutFlush(d) ==
    /\ expecting[d] # Idle
    /\ ~Contains(buf[d], expecting[d])
    /\ expecting' = [expecting EXCEPT ![d] = Idle]
    /\ buf' = [buf EXCEPT ![d] = <<>>]
    /\ UNCHANGED <<phase, test, queueVars, listenVars, lock, stdout, old, log,
                   offset, consumed>>

\* TIMEOUT: the exception reaches the test, which may catch it and go on.
ExpectTimeout(d) ==
    /\ expecting[d] # Idle
    /\ ~Contains(buf[d], expecting[d])
    /\ expecting' = [expecting EXCEPT ![d] = Idle]
    /\ UNCHANGED <<phase, test, queueVars, listenVars, lock, stdout, old, log,
                   offset, buf, consumed>>

-----------------------------------------------------------------------------
(* Teardown and the next test case. *)

\* The test function returns; `dut`, `serial`, ... are closed, so nothing is put
\* any more, and the reader's file is closed.
CloseDaemons ==
    /\ phase = "run"
    /\ \A d \in Dut : expecting[d] = Idle
    /\ phase' = "closed"
    /\ UNCHANGED <<test, queueVars, listenVars, lock, stdout, old, log, readVars>>

\* `_close_or_terminate(listener)`: terminate() and kill(), whatever the listener
\* is doing, in the order of the DUTs.  A process that dies releases no lock.
Kill(d) ==
    /\ phase = "closed"
    /\ pc[d] # "dead"
    /\ \A e \in 1..(d - 1) : pc[e] = "dead"
    /\ pc' = [pc EXCEPT ![d] = "dead"]
    /\ phase' = IF d = NDut THEN "over" ELSE phase
    /\ UNCHANGED <<test, queueVars, msg, shallAddPrefix, pending, toWrite, lock,
                   stdout, old, log, readVars>>

\* The new listeners.
FreshListeners ==
    /\ pc' = Each("get")
    /\ msg' = Each(<<>>)
    /\ shallAddPrefix' = Each(TRUE)
    /\ pending' = Each(<<>>)
    /\ toWrite' = Each(<<>>)
    /\ log' = Each(<<>>)

\* Mutant: a reader keeps the file offset of the test case before.
FreshReadersAtOffset ==
    /\ expecting' = Each(Idle)
    /\ buf' = Each(<<>>)
    /\ consumed' = Each(<<>>)
    /\ UNCHANGED offset

\* The new readers: `open(_pexpect_logfile, 'rb')` starts at the first byte.
FreshReaders ==
    /\ expecting' = Each(Idle)
    /\ offset' = Each(0)
    /\ buf' = Each(<<>>)
    /\ consumed' = Each(<<>>)

\* Mutant: the queues outlive the test case.
FreshQueuesKept ==
    /\ sent' = Each(<<>>)
    /\ UNCHANGED q

FreshQueues ==
    /\ q' = Each(<<>>)
    /\ sent' = Each(<<>>)

\* The fixtures of the next test case: new queues, listeners and readers.  Its
\* logfile is another one, unless the test has the name of the one before.
NextTest ==
    /\ phase = "over"
    /\ test < MaxTests
    /\ test' = test + 1
    /\ phase' = "run"
    /\ FreshQueues
    /\ FreshListeners
    /\ FreshReaders
    /\ old' = [d \in Dut |-> IF SharedName THEN File(d) ELSE <<>>]
    /\ UNCHANGED <<lock, stdout>>

\* The session is over.
SessionOver ==
    /\ phase = "over"
    /\ test = MaxTests
    /\ UNCHANGED vars

Listen(d) ==
    \/ Get(d)
    \/ AppendToLog(d)
    \/ FormatLine(d)
    \/ FormatPart(d)
    \/ Acquire(d)
    \/ Write(d)
    \/ Release(d)

Expect(d) ==
    \/ \E p \in Patterns : ExpectCall(d, p)
    \/ ExpectRead(d)
    \/ ExpectMatch(d)
    \/ ExpectTimeout(d)

Next ==
    \/ \E d \in Dut :
         \/ \E c \in Chunk : Put(d, c)
         \/ Listen(d)
         \/ Expect(d)
         \/ Kill(d)
    \/ CloseDaemons
    \/ NextTest
    \/ SessionOver

Spec == Init /\ [][Next]_vars

\* A listener is a process of its own, and an `expect` polls: neither is left
\* waiting for ever with work to do.  Nothing obliges a test to end.
Fairness ==
    \A d \in Dut :
      /\ WF_vars(Listen(d))
      /\ WF_vars(ExpectRead(d))
      /\ WF_vars(ExpectMatch(d))

FairSpec == Spec /\ Fairness

-----------------------------------------------------------------------------
(* Properties. *)

Char == UNION {Range(c) : c \in Chunk}

\* The part of the type invariant that is about chunks and processes.
ChunkTypeOK ==
    /\ phase \in {"run", "closed", "over"}
    /\ test \in 1..MaxTests
    /\ q \in [Dut -> Seq(Chunk)]
    /\ sent \in [Dut -> Seq(Chunk)]
    /\ pc \in [Dut -> {"get", "append", "format", "acquire", "write", "dead"}]
    /\ msg \in [Dut -> Chunk \cup {<<>>}]
    /\ shallAddPrefix \in [Dut -> BOOLEAN]
    /\ lock \in {Free} \cup ((1..MaxTests) \X Dut)
    /\ old \in [Dut -> Seq(Chunk)]
    /\ log \in [Dut -> Seq(Chunk)]
    /\ expecting \in [Dut -> Patterns \cup {Idle}]

\* The part that is about text; a reader is never past the end of its file.
TextTypeOK ==
    /\ pending \in [Dut -> Seq(Char \cup {Prefix, NL})]
    /\ toWrite \in [Dut -> Seq(Char \cup {Prefix, NL})]
    /\ stdout \in Seq([by : (1..MaxTests) \X Dut, ch : Char \cup {Prefix, NL}])
    /\ \A d \in Dut : offset[d] \in 0..(Len(old[d]) + Len(log[d]))
    /\ buf \in [Dut -> Seq(Char)]
    /\ consumed \in [Dut -> Seq(Char)]

\* The type invariant.
TypeOK == ChunkTypeOK /\ TextTypeOK

Alive(d) == pc[d] # "dead"

InFlight(d) == IF pc[d] = "append" THEN <<msg[d]>> ELSE <<>>

\* While its listener lives, every chunk put for a DUT is in the logfile, in the
\* listener's hands or in the queue, once and in the order of the puts.  This is
\* what `MessageQueue` and `_listen` owe to every user of the logfile.
NothingLostOrReordered ==
    \A d \in Dut : Alive(d) => sent[d] = log[d] \o InFlight(d) \o q[d]

\* All that `Dut.expect` has ever looked at is what the DUT put in this very test
\* case, in that order: no output is skipped, read twice (also after a TIMEOUT),
\* or inherited from another test case.
ExpectSeesSentInOrder ==
    \A d \in Dut : IsPrefix(consumed[d] \o buf[d], FlattenSeq(sent[d]))

LineStart(i) == i = 1 \/ stdout[i - 1].ch = NL

\* Two live listeners are never both in the `with _stdout_lock` block, and the
\* lock is theirs while they are.
WriterHoldsLock == \A d \in Dut : pc[d] = "write" => lock = <<test, d>>

\* The purpose of `_stdout_lock` and of `_pending`: a line on the terminal comes
\* from one listener, starts with that listener's prefix, and has no other prefix.
LinesAreWhole ==
    \A i \in DOMAIN stdout :
      /\ LineStart(i) <=> stdout[i].ch = Prefix
      /\ ~LineStart(i) => stdout[i].by = stdout[i - 1].by

Plain(s) == FlattenSeq([i \in DOMAIN s |-> IF s[i] = Prefix THEN <<>> ELSE <<s[i]>>])

PlainLog(chunks) == FlattenSeq([i \in DOMAIN chunks |-> JoinCRLF(Decoded(chunks[i]))])

Terminal(d) ==
    FlattenSeq([i \in DOMAIN stdout |->
                  IF stdout[i].by = <<test, d>> /\ stdout[i].ch # Prefix
                  THEN <<stdout[i].ch>> ELSE <<>>])

\* What the listener keeps back of what it has logged.
Held(d) == IF pc[d] \in {"acquire", "write"} THEN toWrite[d] ELSE pending[d]

\* The terminal shows the text of the logfile: nothing is printed twice, dropped
\* or reordered between the append to the file and the print, whatever chunks the
\* output is cut into.
PrintedIsLogged ==
    \A d \in Dut : Alive(d) =>
      LET done == IF pc[d] = "format" THEN Front(log[d]) ELSE log[d]
      IN  Terminal(d) \o Plain(Held(d)) = PlainLog(done)

\* "A background listener process reads all messages from this queue [...] and
\* records them to the pexpect process" (docs/concepts/key-concepts.rst:11): a
\* chunk that was put gets into the logfile, unless the test ends before.
LoggedEventually ==
    \A d \in Dut, n \in 1..MaxSent :
      Len(sent[d]) >= n ~> (Len(log[d]) >= n \/ phase # "run")

\* The text of the first n chunks is on the terminal.
PrintedUpTo(d, n) ==
    /\ Len(log[d]) >= n
    /\ Len(Terminal(d)) >= Len(PlainLog(SubSeq(log[d], 1, n)))

\* Once a chunk that ends a line has been put, that line and all the text before
\* it get to the terminal, unless the test ends before.
PrintedEventually ==
    \A d \in Dut, n \in 1..MaxSent :
      (Len(sent[d]) >= n /\ EndsLine(sent[d][n])) ~> (PrintedUpTo(d, n) \/ phase # "run")

\* The pipeline implements the abstract stream: the logfile, as far as this
\* listener wrote it, is what is visible of the output.
Stream == INSTANCE OutputStream WITH seen <- log
StreamSpec == Stream!StreamSpec

=============================================================================
