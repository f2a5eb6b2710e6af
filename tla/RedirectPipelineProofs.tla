----------------------- MODULE RedirectPipelineProofs -----------------------
(***************************************************************************)
(* Proofs about RedirectPipeline, for any number of DUTs, chunks and test  *)
(* cases.  First the chunks: none is lost or reordered on its way to the   *)
(* logfile, a listener prints only under the lock, and the pipeline        *)
(* implements OutputStream.  Then the reader, which sees the output of its *)
(* own DUT in order.  Then the text: the lines of the terminal are whole,  *)
(* and say what is in the logfiles.                                        *)
(***************************************************************************)
EXTENDS RedirectPipeline, NumberLemmas, TLAPS

-----------------------------------------------------------------------------
(* Facts about sequences. *)

\* Taking the head of the queue in hand leaves the stream as it is.
LEMMA GetKeeps ==
    ASSUME NEW S, NEW s \in Seq(S), NEW r \in Seq(S), r # <<>>
    PROVE  (s \o <<>>) \o r = (s \o <<Head(r)>>) \o Tail(r)
  OBVIOUS

\* So does moving it from the hand to the log.
LEMMA LogKeeps ==
    ASSUME NEW S, NEW s \in Seq(S), NEW r \in Seq(S), NEW m \in S
    PROVE  (s \o <<m>>) \o r = (Append(s, m) \o <<>>) \o r
  OBVIOUS

\* What is in hand is the element of the stream that follows the log.
LEMMA InHandIsNext ==
    ASSUME NEW S, NEW s \in Seq(S), NEW r \in Seq(S), NEW m \in S
    PROVE  /\ Len(s) < Len((s \o <<m>>) \o r)
           /\ ((s \o <<m>>) \o r)[Len(s) + 1] = m
  OBVIOUS

-----------------------------------------------------------------------------
(***************************************************************************)
(* The inductive invariant.  NothingLostOrReordered is not inductive by    *)
(* itself: the step from the hand to the log needs the chunk in hand to be *)
(* a chunk.                                                                *)
(***************************************************************************)
InHandIsChunk == \A d \in Dut : pc[d] = "append" => msg[d] \in Chunk

PipelineInv ==
    /\ ChunkTypeOK
    /\ InHandIsChunk
    /\ NothingLostOrReordered
    /\ WriterHoldsLock

LEMMA InitEstablishes == Init => PipelineInv
<1> SUFFICES ASSUME Init PROVE PipelineInv
  OBVIOUS
<1>1. ChunkTypeOK
  BY BoundAssumption DEF Init, ChunkTypeOK, Each
<1>2. InHandIsChunk /\ WriterHoldsLock
  BY DEF Init, InHandIsChunk, WriterHoldsLock, Each
<1>3. NothingLostOrReordered
  BY DEF Init, NothingLostOrReordered, InFlight, Each
<1>4. QED
  BY <1>1, <1>2, <1>3 DEF PipelineInv

-----------------------------------------------------------------------------
(* Type correctness, one step per action. *)

LEMMA StepKeepsChunkType ==
    ASSUME PipelineInv, [Next]_vars
    PROVE  ChunkTypeOK'
<1> USE DEF PipelineInv, ChunkTypeOK
<1>1. ASSUME NEW d \in Dut, NEW c \in Chunk, Put(d, c)  PROVE ChunkTypeOK'
  BY <1>1 DEF Put, listenVars, readVars
<1>2. ASSUME NEW d \in Dut, Get(d)  PROVE ChunkTypeOK'
  BY <1>2 DEF Get, readVars
<1>3. ASSUME NEW d \in Dut, AppendToLog(d)  PROVE ChunkTypeOK'
  BY <1>3 DEF AppendToLog, InHandIsChunk, queueVars, readVars
<1>4. ASSUME NEW d \in Dut, FormatLine(d)  PROVE ChunkTypeOK'
  BY <1>4 DEF FormatLine, queueVars, readVars
<1>5. ASSUME NEW d \in Dut, FormatPart(d)  PROVE ChunkTypeOK'
  BY <1>5 DEF FormatPart, queueVars, readVars
<1>6. ASSUME NEW d \in Dut, Acquire(d)  PROVE ChunkTypeOK'
  BY <1>6 DEF Acquire, queueVars, readVars
<1>7. ASSUME NEW d \in Dut, Write(d)  PROVE ChunkTypeOK'
  BY <1>7 DEF Write, queueVars, readVars
<1>8. ASSUME NEW d \in Dut, Release(d)  PROVE ChunkTypeOK'
  BY <1>8 DEF Release, queueVars, readVars
<1>9. ASSUME NEW d \in Dut, NEW p \in Patterns, ExpectCall(d, p)  PROVE ChunkTypeOK'
  BY <1>9 DEF ExpectCall, queueVars, listenVars
<1>10. ASSUME NEW d \in Dut, ExpectRead(d)  PROVE ChunkTypeOK'
  BY <1>10 DEF ExpectRead, queueVars, listenVars
<1>11. ASSUME NEW d \in Dut, ExpectMatch(d)  PROVE ChunkTypeOK'
  BY <1>11 DEF ExpectMatch, queueVars, listenVars
<1>12. ASSUME NEW d \in Dut, ExpectTimeout(d)  PROVE ChunkTypeOK'
  BY <1>12 DEF ExpectTimeout, queueVars, listenVars
<1>13. ASSUME CloseDaemons  PROVE ChunkTypeOK'
  BY <1>13 DEF CloseDaemons, queueVars, listenVars, readVars
<1>14. ASSUME NEW d \in Dut, Kill(d)  PROVE ChunkTypeOK'
  BY <1>14 DEF Kill, queueVars, readVars
<1>15. ASSUME NextTest  PROVE ChunkTypeOK'
  BY <1>15, BoundAssumption
  DEF NextTest, FreshQueues, FreshListeners, FreshReaders, Each, File
<1>16. CASE UNCHANGED vars
  BY <1>16 DEF vars, queueVars, listenVars, readVars
<1>17. QED
  BY <1>1, <1>2, <1>3, <1>4, <1>5, <1>6, <1>7, <1>8, <1>9, <1>10, <1>11, <1>12,
     <1>13, <1>14, <1>15, <1>16
  DEF Next, Listen, Expect, SessionOver

-----------------------------------------------------------------------------
(* Only Get takes a chunk in hand, and takes it from the queue. *)

LEMMA StepKeepsInHand ==
    ASSUME PipelineInv, [Next]_vars
    PROVE  InHandIsChunk'
<1> USE DEF PipelineInv, ChunkTypeOK, InHandIsChunk
<1>1. ASSUME NEW d \in Dut, NEW c \in Chunk, Put(d, c)  PROVE InHandIsChunk'
  BY <1>1 DEF Put, listenVars
<1>2. ASSUME NEW d \in Dut, Get(d)  PROVE InHandIsChunk'
  BY <1>2 DEF Get
<1>3. ASSUME NEW d \in Dut, AppendToLog(d) \/ FormatLine(d) \/ FormatPart(d)
                            \/ Acquire(d) \/ Write(d) \/ Release(d) \/ Kill(d)
      PROVE  InHandIsChunk'
  BY <1>3 DEF AppendToLog, FormatLine, FormatPart, Acquire, Write, Release, Kill
<1>4. ASSUME NEW d \in Dut, Expect(d)  PROVE InHandIsChunk'
  BY <1>4 DEF Expect, ExpectCall, ExpectRead, ExpectMatch, ExpectTimeout, listenVars
<1>5. ASSUME CloseDaemons \/ NextTest \/ UNCHANGED vars  PROVE InHandIsChunk'
  BY <1>5 DEF CloseDaemons, NextTest, FreshListeners, Each, vars, listenVars
<1>6. QED
  BY <1>1, <1>2, <1>3, <1>4, <1>5 DEF Next, Listen, SessionOver

-----------------------------------------------------------------------------
(* The chunks of a live listener's DUT, one step per action that moves one. *)

LEMMA StepKeepsStream ==
    ASSUME PipelineInv, [Next]_vars
    PROVE  NothingLostOrReordered'
<1> USE DEF PipelineInv, ChunkTypeOK, Alive, InFlight, NothingLostOrReordered
<1>1. ASSUME NEW d \in Dut, NEW c \in Chunk, Put(d, c)
      PROVE  NothingLostOrReordered'
  <2>1. SUFFICES ASSUME NEW e \in Dut, Alive(e)
                 PROVE  sent'[e] = log[e] \o InFlight(e) \o q'[e]
    BY <1>1 DEF Put, listenVars
  <2>2. CASE e # d
    BY <1>1, <2>1, <2>2 DEF Put
  <2>3. CASE e = d
    <3>1. InFlight(d) \in Seq(Chunk) /\ log[d] \in Seq(Chunk) /\ q[d] \in Seq(Chunk)
      BY DEF InHandIsChunk
    <3>2. sent'[d] = Append(sent[d], c) /\ q'[d] = Append(q[d], c)
      BY <1>1 DEF Put
    <3>3. sent[d] = log[d] \o InFlight(d) \o q[d]
      BY <2>1, <2>3
    <3> HIDE DEF PipelineInv, ChunkTypeOK, InFlight, NothingLostOrReordered
    <3>4. PICK s \in Seq(Chunk), i \in Seq(Chunk), r \in Seq(Chunk) :
             s = log[d] /\ i = InFlight(d) /\ r = q[d]
      BY <3>1
    <3>5. s \o i \o Append(r, c) = Append(s \o i \o r, c)
      OBVIOUS
    <3>6. QED
      BY <2>3, <3>2, <3>3, <3>4, <3>5
  <2>4. QED
    BY <2>2, <2>3
<1>2. ASSUME NEW d \in Dut, Get(d)
      PROVE  NothingLostOrReordered'
  <2>1. SUFFICES ASSUME NEW e \in Dut, Alive(e)'
                 PROVE  sent[e] = log[e] \o InFlight(e)' \o q'[e]
    BY <1>2 DEF Get
  <2>2. CASE e # d
    BY <1>2, <2>1, <2>2 DEF Get
  <2>3. CASE e = d
    <3>1. sent[d] = log[d] \o <<>> \o q[d] /\ q[d] # <<>>
      BY <1>2 DEF Get
    <3>2. InFlight(d)' = <<Head(q[d])>> /\ q'[d] = Tail(q[d])
      BY <1>2 DEF Get
    <3>3. QED
      BY <2>3, <3>1, <3>2, GetKeeps
  <2>4. QED
    BY <2>2, <2>3
<1>3. ASSUME NEW d \in Dut, AppendToLog(d)
      PROVE  NothingLostOrReordered'
  <2>1. SUFFICES ASSUME NEW e \in Dut, Alive(e)'
                 PROVE  sent[e] = log'[e] \o InFlight(e)' \o q[e]
    BY <1>3 DEF AppendToLog, queueVars
  <2>2. CASE e # d
    BY <1>3, <2>1, <2>2 DEF AppendToLog
  <2>3. CASE e = d
    <3>1. sent[d] = log[d] \o <<msg[d]>> \o q[d]
      BY <1>3 DEF AppendToLog
    <3>2. InFlight(d)' = <<>> /\ log'[d] = Append(log[d], msg[d])
      BY <1>3 DEF AppendToLog
    <3>3. log[d] \in Seq(Chunk) /\ q[d] \in Seq(Chunk) /\ msg[d] \in Chunk
      BY <1>3 DEF AppendToLog, InHandIsChunk
    <3> HIDE DEF PipelineInv, ChunkTypeOK, InFlight, NothingLostOrReordered
    <3>4. (log[d] \o <<msg[d]>>) \o q[d] = (Append(log[d], msg[d]) \o <<>>) \o q[d]
      BY <3>3, LogKeeps, Zenon
    <3>5. QED
      BY <2>3, <3>1, <3>2, <3>4
  <2>4. QED
    BY <2>2, <2>3
<1>4. ASSUME NEW d \in Dut, FormatLine(d) \/ FormatPart(d) \/ Acquire(d)
                            \/ Write(d) \/ Release(d) \/ Kill(d)
      PROVE  NothingLostOrReordered'
  BY <1>4 DEF FormatLine, FormatPart, Acquire, Write, Release, Kill, queueVars
<1>5. ASSUME NEW d \in Dut, Expect(d)
      PROVE  NothingLostOrReordered'
  BY <1>5 DEF Expect, ExpectCall, ExpectRead, ExpectMatch, ExpectTimeout,
              queueVars, listenVars
<1>6. ASSUME CloseDaemons \/ UNCHANGED vars
      PROVE  NothingLostOrReordered'
  BY <1>6 DEF CloseDaemons, vars, queueVars, listenVars
<1>7. ASSUME NextTest
      PROVE  NothingLostOrReordered'
  BY <1>7 DEF NextTest, FreshQueues, FreshListeners, Each
<1>8. QED
  BY <1>1, <1>2, <1>3, <1>4, <1>5, <1>6, <1>7 DEF Next, Listen, SessionOver

-----------------------------------------------------------------------------
(* The lock. *)

LEMMA StepKeepsLock ==
    ASSUME PipelineInv, [Next]_vars
    PROVE  WriterHoldsLock'
<1> USE DEF PipelineInv, ChunkTypeOK, WriterHoldsLock
<1>1. ASSUME NEW d \in Dut, NEW c \in Chunk, Put(d, c)  PROVE WriterHoldsLock'
  BY <1>1 DEF Put, listenVars
<1>2. ASSUME NEW d \in Dut, Get(d) \/ AppendToLog(d) \/ FormatLine(d)
                            \/ FormatPart(d) \/ Write(d) \/ Kill(d)
      PROVE  WriterHoldsLock'
  BY <1>2 DEF Get, AppendToLog, FormatLine, FormatPart, Write, Kill
<1>3. ASSUME NEW d \in Dut, Acquire(d)  PROVE WriterHoldsLock'
  \* Nobody else writes: the lock was free.
  <2>1. lock \notin (1..MaxTests) \X Dut
    BY <1>3, FreeAssumption DEF Acquire
  <2>2. QED
    BY <1>3, <2>1 DEF Acquire
<1>4. ASSUME NEW d \in Dut, Release(d)  PROVE WriterHoldsLock'
  BY <1>4 DEF Release
<1>5. ASSUME NEW d \in Dut, Expect(d)  PROVE WriterHoldsLock'
  BY <1>5 DEF Expect, ExpectCall, ExpectRead, ExpectMatch, ExpectTimeout, listenVars
<1>6. ASSUME CloseDaemons \/ NextTest \/ UNCHANGED vars  PROVE WriterHoldsLock'
  BY <1>6 DEF CloseDaemons, NextTest, FreshListeners, Each, vars, listenVars
<1>7. QED
  BY <1>1, <1>2, <1>3, <1>4, <1>5, <1>6 DEF Next, Listen, SessionOver

-----------------------------------------------------------------------------
(* The theorems. *)

LEMMA PipelineInvariant == Spec => []PipelineInv
<1>1. PipelineInv /\ [Next]_vars => PipelineInv'
  BY StepKeepsChunkType, StepKeepsInHand, StepKeepsStream, StepKeepsLock
  DEF PipelineInv
<1>2. QED
  BY InitEstablishes, <1>1, PTL DEF Spec

\* Queues, listeners, lock and logfiles keep their types, in any session.
THEOREM ChunkTypeCorrect == Spec => []ChunkTypeOK
<1>1. PipelineInv => ChunkTypeOK
  BY DEF PipelineInv
<1>2. QED
  BY PipelineInvariant, <1>1, PTL

\* Every chunk put while the listener lives is, once and in order, in the
\* logfile, in the listener's hands or in the queue: `_listen` drops, repeats and
\* reorders nothing on the way to the file that `Dut.expect` reads.
THEOREM NothingIsLostOrReordered == Spec => []NothingLostOrReordered
<1>1. PipelineInv => NothingLostOrReordered
  BY DEF PipelineInv
<1>2. QED
  BY PipelineInvariant, <1>1, PTL

\* A listener in the `with _stdout_lock` block holds the lock.
THEOREM WritersHoldTheLock == Spec => []WriterHoldsLock
<1>1. PipelineInv => WriterHoldsLock
  BY DEF PipelineInv
<1>2. QED
  BY PipelineInvariant, <1>1, PTL

\* At most one listener of the test case is writing to the terminal.
THEOREM OneWriter ==
    Spec => [](\A d, e \in Dut : pc[d] = "write" /\ pc[e] = "write" => d = e)
<1>1. PipelineInv => \A d, e \in Dut : pc[d] = "write" /\ pc[e] = "write" => d = e
  <2>1. SUFFICES ASSUME PipelineInv,
                        NEW d \in Dut, NEW e \in Dut, pc[d] = "write", pc[e] = "write"
                 PROVE  d = e
    OBVIOUS
  <2>2. lock = <<test, d>> /\ lock = <<test, e>>
    BY <2>1 DEF PipelineInv, WriterHoldsLock
  <2>3. QED
    BY <2>2
<1>2. QED
  BY PipelineInvariant, <1>1, PTL

-----------------------------------------------------------------------------
(* The refinement: Put is Send, AppendToLog is Show, NextTest is Restart, and  *)
(* every other step stutters.                                                  *)

LEMMA InitRefines == Init => Stream!StreamInit
  BY DEF Init, Each, Stream!StreamInit, Stream!Nothing

LEMMA StepRefines ==
    ASSUME PipelineInv, [Next]_vars
    PROVE  [Stream!StreamNext]_(Stream!streamVars)
<1> USE DEF Stream!streamVars
<1>1. ASSUME NEW d \in Dut, NEW c \in Chunk, Put(d, c)
      PROVE  Stream!Send(d, c)
  BY <1>1 DEF Put, Stream!Send
<1>2. ASSUME NEW d \in Dut, AppendToLog(d)
      PROVE  Stream!Show(d)
  <2>1. /\ log' = [log EXCEPT ![d] = Append(@, msg[d])]
        /\ UNCHANGED sent
    BY <1>2 DEF AppendToLog, queueVars
  <2>2. sent[d] = log[d] \o <<msg[d]>> \o q[d]
    BY <1>2 DEF AppendToLog, PipelineInv, NothingLostOrReordered, Alive, InFlight
  <2>3. log[d] \in Seq(Chunk) /\ q[d] \in Seq(Chunk) /\ msg[d] \in Chunk
    BY <1>2 DEF AppendToLog, PipelineInv, InHandIsChunk, ChunkTypeOK
  <2>4. PICK s \in Seq(Chunk), r \in Seq(Chunk), m \in Chunk :
           s = log[d] /\ r = q[d] /\ m = msg[d]
    BY <2>3
  <2>5. Len(s) < Len(s \o <<m>> \o r) /\ (s \o <<m>> \o r)[Len(s) + 1] = m
    BY InHandIsNext
  <2>6. Len(log[d]) < Len(sent[d]) /\ sent[d][Len(log[d]) + 1] = msg[d]
    BY <2>2, <2>4, <2>5
  <2>7. QED
    BY <2>1, <2>6 DEF Stream!Show
<1>3. ASSUME NextTest
      PROVE  Stream!Restart
  BY <1>3 DEF NextTest, FreshQueues, FreshListeners, Each, Stream!Restart, Stream!Nothing
<1>4. ASSUME NEW d \in Dut, Get(d) \/ FormatLine(d) \/ FormatPart(d) \/ Acquire(d)
                            \/ Write(d) \/ Release(d) \/ Kill(d)
      PROVE  UNCHANGED <<sent, log>>
  BY <1>4 DEF Get, FormatLine, FormatPart, Acquire, Write, Release, Kill, queueVars
<1>5. ASSUME NEW d \in Dut, Expect(d)
      PROVE  UNCHANGED <<sent, log>>
  BY <1>5 DEF Expect, ExpectCall, ExpectRead, ExpectMatch, ExpectTimeout, queueVars
<1>6. ASSUME CloseDaemons \/ UNCHANGED vars
      PROVE  UNCHANGED <<sent, log>>
  BY <1>6 DEF CloseDaemons, vars, queueVars
<1>7. QED
  BY <1>1, <1>2, <1>3, <1>4, <1>5, <1>6
  DEF Next, Listen, SessionOver, Stream!StreamNext

\* What a test sees of its DUTs is a stream: each piece of output becomes visible
\* in the order of the puts, whatever the interleaving, the kills included.
THEOREM PipelineRefinesStream == Spec => StreamSpec
<1>1. QED
  BY InitRefines, StepRefines, PipelineInvariant, PTL
  DEF Spec, StreamSpec, Stream!StreamSpec

-----------------------------------------------------------------------------
(* The reader: `Dut.expect` sees the output of its DUT, in order. *)

\* Chunks are sequences of characters, and a log of chunks is one of sequences.
LEMMA ChunkIsText == \A c \in Chunk : c \in Seq(Char)
  BY ChunkAssumption DEF Char

LEMMA ChunksAreText == \A s \in Seq(Chunk) : s \in Seq(Seq(Char))
<1>1. Chunk \subseteq Seq(Char)
  BY ChunkIsText
<1>2. QED
  BY <1>1, SeqMonotonic

\* What is put extends what has not been logged yet.
LEMMA ChunksAppend ==
    \A s, r \in Seq(Chunk) : \A c \in Chunk : Append(s \o r, c) = s \o Append(r, c)
<1> TAKE s, r \in Seq(Chunk)
<1> TAKE c \in Chunk
<1> QED
  OBVIOUS

\* The log is the beginning of what was sent, also after the listener died.
LogIsSent == \A d \in Dut : \E r \in Seq(Chunk) : sent[d] = log[d] \o r

\* What the reader has matched and kept is the text of the chunks it has read.
BufferIsRead ==
    \A d \in Dut : consumed[d] \o buf[d] = FlattenSeq(SubSeq(File(d), 1, offset[d]))

ReaderInv ==
    /\ PipelineInv
    /\ LogIsSent
    /\ offset \in [Dut -> Nat]
    /\ \A d \in Dut : offset[d] <= Len(File(d))
    /\ buf \in [Dut -> Seq(Char)]
    /\ consumed \in [Dut -> Seq(Char)]
    /\ BufferIsRead

\* The logfile is a sequence of chunks.
LEMMA FileType ==
    ASSUME ChunkTypeOK, NEW d \in Dut
    PROVE  /\ File(d) \in Seq(Chunk) /\ Len(File(d)) \in Nat
           /\ Len(File(d)) = Len(old[d]) + Len(log[d])
  BY DEF ChunkTypeOK, File

\* Only AppendToLog lets the log grow, with the chunk that is next.
LEMMA StepKeepsLogSent ==
    ASSUME PipelineInv, LogIsSent, [Next]_vars
    PROVE  LogIsSent'
<1> USE DEF LogIsSent
<1>1. ASSUME NEW d \in Dut, NEW c \in Chunk, Put(d, c)  PROVE LogIsSent'
  <2>1. SUFFICES ASSUME NEW e \in Dut
                 PROVE  \E r \in Seq(Chunk) : sent'[e] = log[e] \o r
    BY <1>1 DEF Put
  <2>2. CASE e # d
    BY <1>1, <2>2 DEF Put, PipelineInv, ChunkTypeOK
  <2>3. CASE e = d
    <3>1. PICK r \in Seq(Chunk) : sent[d] = log[d] \o r
      OBVIOUS
    <3>2. log[d] \in Seq(Chunk) /\ sent'[d] = Append(sent[d], c)
      BY <1>1 DEF Put, PipelineInv, ChunkTypeOK
    <3>3. PICK l \in Seq(Chunk) : l = log[d]
      BY <3>2
    <3>4. PICK p \in Seq(Chunk) : p = Append(r, c)
      BY AppendProperties
    <3>5. Append(l \o r, c) = l \o Append(r, c)
      BY ChunksAppend, Zenon
    <3>6. QED
      BY <2>3, <3>1, <3>2, <3>3, <3>4, <3>5
  <2>4. QED
    BY <2>2, <2>3
<1>2. ASSUME NEW d \in Dut, AppendToLog(d)  PROVE LogIsSent'
  <2>1. SUFFICES ASSUME NEW e \in Dut
                 PROVE  \E r \in Seq(Chunk) : sent[e] = log'[e] \o r
    BY <1>2 DEF AppendToLog, queueVars
  <2>2. CASE e # d
    BY <1>2, <2>2 DEF AppendToLog, PipelineInv, ChunkTypeOK
  <2>3. CASE e = d
    <3>1. sent[d] = (log[d] \o <<msg[d]>>) \o q[d]
      BY <1>2 DEF AppendToLog, PipelineInv, NothingLostOrReordered, Alive, InFlight
    <3>2. log'[d] = Append(log[d], msg[d])
      BY <1>2 DEF AppendToLog, PipelineInv, ChunkTypeOK
    <3>3. log[d] \in Seq(Chunk) /\ q[d] \in Seq(Chunk) /\ msg[d] \in Chunk
      BY <1>2 DEF AppendToLog, PipelineInv, InHandIsChunk, ChunkTypeOK
    <3>4. log[d] \o <<msg[d]>> = Append(log[d], msg[d])
      BY <3>3
    <3>5. QED
      BY <2>3, <3>1, <3>2, <3>3, <3>4
  <2>4. QED
    BY <2>2, <2>3
<1>3. ASSUME NEW d \in Dut, Get(d) \/ FormatLine(d) \/ FormatPart(d) \/ Acquire(d)
                            \/ Write(d) \/ Release(d) \/ Kill(d) \/ Expect(d)
      PROVE  LogIsSent'
  <2>1. UNCHANGED <<sent, log>>
    BY <1>3 DEF Get, FormatLine, FormatPart, Acquire, Write, Release, Kill, Expect,
                ExpectCall, ExpectRead, ExpectMatch, ExpectTimeout, queueVars
  <2>2. QED
    BY <2>1
<1>4. ASSUME CloseDaemons \/ UNCHANGED vars  PROVE LogIsSent'
  BY <1>4 DEF CloseDaemons, vars, queueVars
<1>5. ASSUME NextTest  PROVE LogIsSent'
  <2>1. \A e \in Dut : sent'[e] = <<>> /\ log'[e] = <<>>
    BY <1>5 DEF NextTest, FreshQueues, FreshListeners, Each
  <2>2. <<>> \in Seq(Chunk) /\ <<>> \o <<>> = <<>>
    OBVIOUS
  <2>3. QED
    BY <2>1, <2>2
<1>6. QED
  BY <1>1, <1>2, <1>3, <1>4, <1>5 DEF Next, Listen, SessionOver

\* ExpectRead moves text from the file to the buffer, ExpectMatch from there to what
\* is consumed; nothing else touches them but the next test case.
LEMMA StepKeepsReader ==
    ASSUME ReaderInv, [Next]_vars
    PROVE  /\ offset' \in [Dut -> Nat]
           /\ \A d \in Dut : offset'[d] <= Len(File(d)')
           /\ buf' \in [Dut -> Seq(Char)]
           /\ consumed' \in [Dut -> Seq(Char)]
           /\ BufferIsRead'
<1> DEFINE Goal == /\ offset' \in [Dut -> Nat]
                   /\ \A d \in Dut : offset'[d] <= Len(File(d)')
                   /\ buf' \in [Dut -> Seq(Char)]
                   /\ consumed' \in [Dut -> Seq(Char)]
                   /\ BufferIsRead'
<1>0. /\ offset \in [Dut -> Nat] /\ buf \in [Dut -> Seq(Char)] /\ consumed \in [Dut -> Seq(Char)]
      /\ ChunkTypeOK
      /\ \A d \in Dut : /\ offset[d] <= Len(File(d))
                        /\ consumed[d] \o buf[d] = FlattenSeq(SubSeq(File(d), 1, offset[d]))
  BY DEF ReaderInv, BufferIsRead, PipelineInv
<1>1. ASSUME NEW d \in Dut, AppendToLog(d)  PROVE Goal
  <2>1. offset' = offset /\ buf' = buf /\ consumed' = consumed /\ old' = old
    BY <1>1 DEF AppendToLog, readVars
  <2>2. SUFFICES ASSUME NEW e \in Dut
                 PROVE  /\ offset[e] <= Len(File(e)')
                        /\ SubSeq(File(e)', 1, offset[e]) = SubSeq(File(e), 1, offset[e])
    BY <1>0, <2>1 DEF BufferIsRead
  <2>3. CASE e # d
    <3>1. File(e)' = File(e)
      BY <1>0, <1>1, <2>1, <2>3 DEF AppendToLog, File, ChunkTypeOK
    <3>2. QED
      BY <1>0, <3>1
  <2>4. CASE e = d
    <3>1. PICK f \in Seq(Chunk) : f = File(d)
      BY <1>0, FileType
    <3>2. File(d)' = Append(f, msg[d])
      <4>1. log'[d] = Append(log[d], msg[d]) /\ old' = old
        BY <1>0, <1>1, <2>1 DEF AppendToLog, ChunkTypeOK
      <4>2. PICK l \in Seq(Chunk), p \in Seq(Chunk), m \in Chunk :
              l = log[d] /\ p = old[d] /\ m = msg[d]
        BY <1>0, <1>1 DEF AppendToLog, ChunkTypeOK, PipelineInv, InHandIsChunk, ReaderInv
      <4>3. p \o Append(l, m) = Append(p \o l, m)
        OBVIOUS
      <4>4. QED
        BY <3>1, <4>1, <4>2, <4>3 DEF File
    <3>3. PICK n \in Nat : n = offset[d]
      BY <1>0
    <3>4. PICK m \in Chunk : m = msg[d]
      BY <1>1 DEF AppendToLog, PipelineInv, InHandIsChunk, ReaderInv
    <3>5. n <= Len(f)
      BY <1>0, <3>1, <3>3
    <3>6. n <= Len(Append(f, m)) /\ SubSeq(Append(f, m), 1, n) = SubSeq(f, 1, n)
      BY <3>5
    <3>7. QED
      BY <2>4, <3>1, <3>2, <3>3, <3>4, <3>6
  <2>5. QED
    BY <2>3, <2>4
<1>2. ASSUME NEW d \in Dut, ExpectRead(d)  PROVE Goal
  <2>1. log' = log /\ old' = old /\ consumed' = consumed
    BY <1>2 DEF ExpectRead
  <2>2. \A e \in Dut : File(e)' = File(e)
    BY <2>1 DEF File
  <2>3. PICK n \in (offset[d] + 1)..Len(File(d)) :
          /\ buf' = [buf EXCEPT ![d] = @ \o FlattenSeq(SubSeq(File(d), offset[d] + 1, n))]
          /\ offset' = [offset EXCEPT ![d] = n]
    BY <1>2 DEF ExpectRead
  <2>4. PICK f \in Seq(Chunk), o \in Nat : f = File(d) /\ o = offset[d]
    BY <1>0, FileType
  <2>5. Len(f) \in Nat /\ o <= Len(f) /\ n \in 0..Len(f) /\ o <= n /\ n \in Nat
    BY <1>0, <2>3, <2>4
  <2>6. PICK a \in Seq(Chunk), b \in Seq(Chunk) :
          a = SubSeq(f, 1, o) /\ b = SubSeq(f, o + 1, n)
    <3>1. \A i \in 1..Len(f) : f[i] \in Chunk
      BY <2>5
    <3>2. SubSeq(f, 1, o) \in Seq(Chunk) /\ SubSeq(f, o + 1, n) \in Seq(Chunk)
      BY <2>5, <3>1
    <3>3. QED
      BY <3>2
  <2>7. a \o b = SubSeq(f, 1, n)
    <3>1. 1 \in 1..(Len(f) + 1) /\ o \in (1 - 1)..Len(f) /\ n \in o..Len(f)
      BY <2>5
    <3>2. QED
      BY <2>6, <3>1, ConcatAdjacentSubSeq
  <2>8. FlattenSeq(a \o b) = FlattenSeq(a) \o FlattenSeq(b)
    BY ChunksAreText, FlattenConcat
  <2>9. PICK v \in Seq(Char) : v = FlattenSeq(b)
    BY ChunksAreText, FlattenType
  <2>10. PICK x \in Seq(Char), y \in Seq(Char) : x = consumed[d] /\ y = buf[d]
    BY <1>0
  <2>11. x \o (y \o v) = (x \o y) \o v
    OBVIOUS
  <2>12. /\ buf'[d] = y \o v /\ offset'[d] = n
         /\ \A e \in Dut : e # d => buf'[e] = buf[e] /\ offset'[e] = offset[e]
    BY <1>0, <2>3, <2>4, <2>6, <2>9, <2>10
  <2>13. offset' \in [Dut -> Nat] /\ buf' \in [Dut -> Seq(Char)]
    <3>1. y \o v \in Seq(Char)
      OBVIOUS
    <3>2. buf' = [buf EXCEPT ![d] = y \o v]
      BY <2>3, <2>4, <2>6, <2>9, <2>10
    <3>3. QED
      BY <1>0, <2>3, <2>5, <3>1, <3>2
  <2>14. \A e \in Dut : offset'[e] <= Len(File(e)')
    <3>1. n <= Len(File(d))
      BY <2>4, <2>5
    <3>2. QED
      BY <1>0, <2>2, <2>12, <3>1
  <2>15. ASSUME NEW e \in Dut
         PROVE  consumed'[e] \o buf'[e] = FlattenSeq(SubSeq(File(e)', 1, offset'[e]))
    <3>1. CASE e # d
      BY <1>0, <2>1, <2>2, <2>12, <3>1
    <3>2. CASE e = d
      <4>1. x \o y = FlattenSeq(a)
        BY <1>0, <2>4, <2>6, <2>10
      <4>2. x \o (y \o v) = FlattenSeq(SubSeq(f, 1, n))
        BY <2>7, <2>8, <2>9, <2>11, <4>1
      <4>3. QED
        BY <2>1, <2>2, <2>4, <2>10, <2>12, <3>2, <4>2
    <3>3. QED
      BY <3>1, <3>2
  <2>16. BufferIsRead'
    BY <2>15 DEF BufferIsRead
  <2>17. QED
    BY <1>0, <2>1, <2>13, <2>14, <2>16
<1>3. ASSUME NEW d \in Dut, ExpectMatch(d)  PROVE Goal
  <2> DEFINE at == SelectInSeq(buf[d], LAMBDA x : x = expecting[d])
  <2>1. /\ log' = log /\ old' = old /\ offset' = offset
        /\ consumed' = [consumed EXCEPT ![d] = @ \o SubSeq(buf[d], 1, at)]
        /\ buf' = [buf EXCEPT ![d] = SubSeq(@, at + 1, Len(@))]
    BY <1>3 DEF ExpectMatch
  <2>2. \A e \in Dut : File(e)' = File(e)
    BY <2>1 DEF File
  <2>3. at \in 0..Len(buf[d])
    <3> DEFINE I == {i \in 1..Len(buf[d]) : buf[d][i] = expecting[d]}
    <3>1. at = IF I # {} THEN Min(I) ELSE 0
      BY Zenon DEF SelectInSeq
    <3>2. Len(buf[d]) \in Nat
      BY <1>0
    <3>3. I \in SUBSET Nat /\ I \subseteq 1..Len(buf[d])
      OBVIOUS
    <3> HIDE DEF I, at
    <3>4. I # {} => Min(I) \in I
      <4>1. ASSUME I # {} PROVE \E x \in I : \A y \in I : x <= y
        BY <3>3, <4>1, LeastNatural
      <4>2. QED
        BY <4>1, Zenon DEF Min
    <3>5. PICK n \in Nat : n = Len(buf[d])
      BY <3>2
    <3>6. \A i \in I : i \in 0..n
      BY <3>3, <3>5
    <3>7. 0 \in 0..n
      BY <3>5
    <3>8. at \in 0..n
      BY <3>1, <3>4, <3>6, <3>7
    <3>9. QED
      BY <3>5, <3>8
  <2> HIDE DEF at
  <2>4. PICK x \in Seq(Char), y \in Seq(Char) : x = consumed[d] /\ y = buf[d]
    BY <1>0
  <2>5. PICK a \in Seq(Char), b \in Seq(Char) :
          a = SubSeq(y, 1, at) /\ b = SubSeq(y, at + 1, Len(y)) /\ y = a \o b
    <3>1. PICK k \in 0..Len(y) : k = at
      BY <2>3, <2>4
    <3>2. /\ SubSeq(y, 1, k) \in Seq(Char) /\ SubSeq(y, k + 1, Len(y)) \in Seq(Char)
          /\ y = SubSeq(y, 1, k) \o SubSeq(y, k + 1, Len(y))
      BY SplitAt
    <3>3. QED
      BY <3>1, <3>2
  <2>6. (x \o a) \o b = x \o (a \o b)
    OBVIOUS
  <2>7. consumed' = [consumed EXCEPT ![d] = x \o a] /\ buf' = [buf EXCEPT ![d] = b]
    BY <1>0, <2>1, <2>4, <2>5
  <2>8. consumed' \in [Dut -> Seq(Char)] /\ buf' \in [Dut -> Seq(Char)]
    <3>1. x \o a \in Seq(Char)
      OBVIOUS
    <3>2. QED
      BY <1>0, <2>7, <3>1
  <2>9. \A e \in Dut : consumed'[e] \o buf'[e] = consumed[e] \o buf[e]
    BY <1>0, <2>4, <2>5, <2>6, <2>7
  <2>10. BufferIsRead'
    BY <1>0, <2>1, <2>2, <2>9 DEF BufferIsRead
  <2>11. QED
    BY <1>0, <2>1, <2>2, <2>8, <2>10
<1>4. ASSUME NextTest  PROVE Goal
  <2>1. /\ offset' = [d \in Dut |-> 0] /\ buf' = [d \in Dut |-> <<>>]
        /\ consumed' = [d \in Dut |-> <<>>]
    BY <1>4 DEF NextTest, FreshReaders, Each
  <2>2. ASSUME NEW d \in Dut
        PROVE  0 <= Len(File(d)')
    <3>1. ChunkTypeOK'
      BY <1>4, StepKeepsChunkType DEF ReaderInv, Next
    <3>2. File(d)' \in Seq(Chunk)
      BY <3>1 DEF ChunkTypeOK, File
    <3>3. QED
      BY <3>2
  <2>3. \A d \in Dut : SubSeq(File(d)', 1, 0) = <<>>
    BY SubSeqEmpty
  <2>4. <<>> \in Seq(Char) /\ <<>> \o <<>> = <<>> /\ FlattenSeq(<<>>) = <<>>
    BY FlattenEmpty
  <2>5. BufferIsRead'
    BY <2>1, <2>3, <2>4 DEF BufferIsRead
  <2>6. QED
    BY <2>1, <2>2, <2>4, <2>5
<1>5. ASSUME UNCHANGED <<log, old, offset, buf, consumed>>  PROVE Goal
  <2>1. \A e \in Dut : File(e)' = File(e)
    BY <1>5 DEF File
  <2>2. QED
    BY <1>0, <1>5, <2>1 DEF BufferIsRead
<1>6. ASSUME NEW d \in Dut,
             \/ \E c \in Chunk : Put(d, c)
             \/ Get(d) \/ FormatLine(d) \/ FormatPart(d) \/ Acquire(d)
             \/ Write(d) \/ Release(d) \/ Kill(d)
             \/ \E p \in Patterns : ExpectCall(d, p)
             \/ ExpectTimeout(d)
      PROVE  Goal
  <2>1. UNCHANGED <<log, old, offset, buf, consumed>>
    BY <1>6 DEF Put, Get, FormatLine, FormatPart, Acquire, Write, Release, Kill,
                ExpectCall, ExpectTimeout, readVars
  <2>2. QED
    BY <1>5, <2>1
<1>7. ASSUME CloseDaemons \/ UNCHANGED vars  PROVE Goal
  <2>1. UNCHANGED <<log, old, offset, buf, consumed>>
    BY <1>7 DEF CloseDaemons, vars, readVars
  <2>2. QED
    BY <1>5, <2>1
<1>8. Goal
  BY <1>1, <1>2, <1>3, <1>4, <1>6, <1>7 DEF Next, Listen, Expect, SessionOver
<1>9. QED
  BY <1>8

\* No file has been read at the start.
LEMMA InitReads == Init => ReaderInv
<1> SUFFICES ASSUME Init PROVE ReaderInv
  OBVIOUS
<1>1. PipelineInv
  BY InitEstablishes
<1>2. \A d \in Dut : /\ sent[d] = <<>> /\ log[d] = <<>> /\ old[d] = <<>> /\ offset[d] = 0
                      /\ consumed[d] = <<>> /\ buf[d] = <<>>
  BY DEF Init, Each
<1>3. <<>> \in Seq(Chunk) /\ <<>> \o <<>> = <<>> /\ FlattenSeq(<<>>) = <<>>
      /\ SubSeq(<<>>, 1, 0) = <<>> /\ Len(<<>>) = 0
  BY FlattenEmpty, SubSeqEmpty
<1>4. LogIsSent /\ BufferIsRead
  BY <1>2, <1>3 DEF LogIsSent, BufferIsRead, File
<1>5. offset \in [Dut -> Nat] /\ buf \in [Dut -> Seq(Char)] /\ consumed \in [Dut -> Seq(Char)]
  BY DEF Init, Each
<1>6. \A d \in Dut : offset[d] <= Len(File(d))
  <2>1. \A d \in Dut : File(d) = <<>>
    BY <1>2, <1>3 DEF File
  <2>2. QED
    BY <1>2, <1>3, <2>1
<1>7. QED
  BY <1>1, <1>4, <1>5, <1>6 DEF ReaderInv

LEMMA ReaderInvariant == Spec => []ReaderInv
<1>1. ReaderInv /\ [Next]_vars => ReaderInv'
  <2>1. ReaderInv => PipelineInv /\ LogIsSent
    BY DEF ReaderInv
  <2>2. PipelineInv /\ [Next]_vars => PipelineInv'
    BY StepKeepsChunkType, StepKeepsInHand, StepKeepsStream, StepKeepsLock DEF PipelineInv
  <2>3. SUFFICES ASSUME ReaderInv, [Next]_vars PROVE ReaderInv'
    OBVIOUS
  <2>4. LogIsSent'
    BY <2>1, <2>3, StepKeepsLogSent
  <2>5. QED
    BY <2>1, <2>2, <2>3, <2>4, StepKeepsReader DEF ReaderInv
<1>2. QED
  BY InitReads, <1>1, PTL DEF Spec

\* With names of their own, test cases find no logfile of the one before.
NothingOld == \A d \in Dut : old[d] = <<>>

LEMMA NothingOldInvariant ==
    ASSUME ~SharedName
    PROVE  Spec => []NothingOld
<1>1. Init => NothingOld
  BY DEF Init, Each, NothingOld
<1>2. NothingOld /\ [Next]_vars => NothingOld'
  <2>1. SUFFICES ASSUME NothingOld, [Next]_vars PROVE NothingOld'
    OBVIOUS
  <2>2. ASSUME NextTest PROVE NothingOld'
    BY <2>2 DEF NextTest, NothingOld
  <2>3. ASSUME UNCHANGED old PROVE NothingOld'
    BY <2>1, <2>3 DEF NothingOld
  <2>4. NextTest \/ UNCHANGED old
    BY <2>1 DEF Next, Listen, Expect, Put, Get, AppendToLog, FormatLine, FormatPart, Acquire,
       Write, Release, ExpectCall, ExpectRead, ExpectMatch, ExpectTimeout, CloseDaemons, Kill,
       SessionOver, vars
  <2>5. QED
    BY <2>2, <2>3, <2>4
<1>3. QED
  BY <1>1, <1>2, PTL DEF Spec

\* What was read of the file is the beginning of what was sent.
LEMMA ReadIsSent == ReaderInv /\ NothingOld => ExpectSeesSentInOrder
<1> SUFFICES ASSUME ReaderInv, NothingOld, NEW d \in Dut
             PROVE  IsPrefix(consumed[d] \o buf[d], FlattenSeq(sent[d]))
  BY DEF ExpectSeesSentInOrder
<1>1. PICK f \in Seq(Chunk), o \in Nat : f = log[d] /\ o = offset[d]
  BY DEF ReaderInv, PipelineInv, ChunkTypeOK
<1>2. <<>> \o f = f
  OBVIOUS
<1>3. File(d) = f
  BY <1>1, <1>2 DEF File, NothingOld
<1>4. o <= Len(f) /\ consumed[d] \o buf[d] = FlattenSeq(SubSeq(f, 1, o))
  BY <1>1, <1>3 DEF ReaderInv, BufferIsRead
<1>5. PICK r \in Seq(Chunk) : sent[d] = f \o r
  BY <1>1 DEF ReaderInv, LogIsSent
<1>6. PICK a \in Seq(Chunk), b \in Seq(Chunk) : a = SubSeq(f, 1, o) /\ f = a \o b
  <2>1. o \in 0..Len(f)
    BY <1>4
  <2>2. /\ SubSeq(f, 1, o) \in Seq(Chunk) /\ SubSeq(f, o + 1, Len(f)) \in Seq(Chunk)
        /\ f = SubSeq(f, 1, o) \o SubSeq(f, o + 1, Len(f))
    BY <2>1, SplitAt
  <2>3. QED
    BY <2>2
<1>7. (a \o b) \o r = a \o (b \o r) /\ b \o r \in Seq(Chunk)
  OBVIOUS
<1>8. PICK e \in Seq(Chunk) : e = b \o r
  BY <1>7
<1>9. FlattenSeq(a \o e) = FlattenSeq(a) \o FlattenSeq(e)
  BY ChunksAreText, FlattenConcat
<1>10. PICK x \in Seq(Char), y \in Seq(Char) : x = FlattenSeq(a) /\ y = FlattenSeq(e)
  BY ChunksAreText, FlattenType
<1>11. IsPrefix(x, x \o y)
  BY PrefixOfConcat
<1>12. QED
  BY <1>4, <1>5, <1>6, <1>7, <1>8, <1>9, <1>10, <1>11

\* If no two consecutive test cases have the same name, all that `Dut.expect` has
\* looked at is the beginning of what its DUT put in this test case: whatever is
\* read, matched or timed out, nothing is skipped, repeated or inherited.
THEOREM ReaderSeesItsOutput ==
    ASSUME ~SharedName
    PROVE  Spec => []ExpectSeesSentInOrder
<1>1. Spec => []NothingOld
  BY NothingOldInvariant
<1>2. QED
  BY ReaderInvariant, ReadIsSent, <1>1, PTL

-----------------------------------------------------------------------------
(* The text operations of `_listen`, as replacements of single characters. *)

\* What is on a terminal, and in the text that goes there.
Printed == Char \cup {Prefix, NL}

Record == [by : (1..MaxTests) \X Dut, ch : Printed]

\* What becomes of a character in each of them, and of a chunk and of a record.
Keep == [x \in Char |-> IF x = Bad THEN <<>> ELSE <<x>>]
Break == [x \in Printed |-> IF x = NL THEN <<NL, Prefix>> ELSE <<x>>]
Strip == [x \in Printed |-> IF x = Prefix THEN <<>> ELSE <<x>>]
Clean == [c \in Chunk |-> JoinCRLF(Decoded(c))]
Own(w) == [r \in Record |-> IF r.by = w /\ r.ch # Prefix THEN <<r.ch>> ELSE <<>>]

\* They are functions to sequences.
LEMMA KeepType == Keep \in [Char -> Seq(Char)]
<1>1. \A x \in Char : (IF x = Bad THEN <<>> ELSE <<x>>) \in Seq(Char)
  OBVIOUS
<1>2. QED
  BY <1>1 DEF Keep

LEMMA BreakType == Break \in [Printed -> Seq(Printed)]
<1>1. \A x \in Printed : <<x>> \in Seq(Printed)
  OBVIOUS
<1>2. NL \in Printed /\ Prefix \in Printed
  BY DEF Printed
<1>3. <<NL, Prefix>> \in Seq(Printed)
  BY <1>2
<1>4. QED
  BY <1>1, <1>3 DEF Break

LEMMA StripType == Strip \in [Printed -> Seq(Printed)]
<1>1. \A x \in Printed : (IF x = Prefix THEN <<>> ELSE <<x>>) \in Seq(Printed)
  OBVIOUS
<1>2. QED
  BY <1>1 DEF Strip

LEMMA OwnType == \A w : Own(w) \in [Record -> Seq(Printed)]
<1> TAKE w
<1>1. \A r \in Record : r.ch \in Printed
  BY DEF Record
<1>2. \A r \in Record : <<r.ch>> \in Seq(Printed)
  BY <1>1
<1>3. <<>> \in Seq(Printed)
  OBVIOUS
<1>4. QED
  BY <1>2, <1>3 DEF Own

\* The operators of the model are replacements.
LEMMA DecodedIs ==
    ASSUME NEW c \in Seq(Char)
    PROVE  Decoded(c) = Mapped(c, Keep)
<1>1. \A i \in DOMAIN c : c[i] \in Char
  OBVIOUS
<1>2. [i \in DOMAIN c |-> IF c[i] = Bad THEN <<>> ELSE <<c[i]>>] = [i \in DOMAIN c |-> Keep[c[i]]]
  BY <1>1 DEF Keep
<1>3. QED
  BY <1>2, Zenon DEF Decoded, Mapped

LEMMA PrefixLinesIs ==
    ASSUME NEW s \in Seq(Printed)
    PROVE  PrefixLines(s) = Mapped(s, Break)
<1>1. \A i \in DOMAIN s : s[i] \in Printed
  OBVIOUS
<1>2. [i \in DOMAIN s |-> IF s[i] = NL THEN <<NL, Prefix>> ELSE <<s[i]>>]
        = [i \in DOMAIN s |-> Break[s[i]]]
  BY <1>1 DEF Break
<1>3. QED
  BY <1>2, Zenon DEF PrefixLines, Mapped

LEMMA PlainIs ==
    ASSUME NEW s \in Seq(Printed)
    PROVE  Plain(s) = Mapped(s, Strip)
<1>1. \A i \in DOMAIN s : s[i] \in Printed
  OBVIOUS
<1>2. [i \in DOMAIN s |-> IF s[i] = Prefix THEN <<>> ELSE <<s[i]>>]
        = [i \in DOMAIN s |-> Strip[s[i]]]
  BY <1>1 DEF Strip
<1>3. QED
  BY <1>2, Zenon DEF Plain, Mapped

LEMMA PlainLogIs ==
    ASSUME NEW s \in Seq(Chunk)
    PROVE  PlainLog(s) = Mapped(s, Clean)
<1>1. \A i \in DOMAIN s : s[i] \in Chunk
  OBVIOUS
<1>2. [i \in DOMAIN s |-> JoinCRLF(Decoded(s[i]))] = [i \in DOMAIN s |-> Clean[s[i]]]
  BY <1>1 DEF Clean
<1>3. QED
  BY <1>2, Zenon DEF PlainLog, Mapped

-----------------------------------------------------------------------------
(* JoinCRLF: the only replacement that looks at the next character. *)

\* What becomes of the i-th character of s.
Joined(s) ==
    [i \in DOMAIN s |->
        IF s[i] = CR /\ i < Len(s) /\ s[i + 1] = NL THEN <<>> ELSE <<s[i]>>]

\* JoinCRLF puts these pieces together.
LEMMA JoinIs == \A s : JoinCRLF(s) = FlattenSeq(Joined(s))
  BY Zenon DEF JoinCRLF, Joined

\* The pieces are sequences.
LEMMA JoinedType ==
    ASSUME NEW T, NEW s \in Seq(T)
    PROVE  /\ Joined(s) \in Seq(Seq(T)) /\ Len(Joined(s)) = Len(s)
           /\ \A i \in 1..Len(s) :
                Joined(s)[i] = IF s[i] = CR /\ i < Len(s) /\ s[i + 1] = NL
                               THEN <<>> ELSE <<s[i]>>
<1>1. DOMAIN s = 1..Len(s) /\ Len(s) \in Nat /\ \A i \in 1..Len(s) : s[i] \in T
  OBVIOUS
<1>2. \A i \in 1..Len(s) : <<>> \in Seq(T) /\ <<s[i]>> \in Seq(T)
  BY <1>1
<1>3. \A i \in 1..Len(s) :
        Joined(s)[i] = IF s[i] = CR /\ i < Len(s) /\ s[i + 1] = NL THEN <<>> ELSE <<s[i]>>
  BY <1>1 DEF Joined
<1>4. Joined(s) \in [1..Len(s) -> Seq(T)]
  BY <1>1, <1>2 DEF Joined
<1>5. QED
  BY <1>1, <1>3, <1>4

\* So is what they make.
LEMMA JoinType ==
    ASSUME NEW T, NEW s \in Seq(T)
    PROVE  JoinCRLF(s) \in Seq(T)
<1>1. Joined(s) \in Seq(Seq(T))
  BY JoinedType
<1>2. FlattenSeq(Joined(s)) \in Seq(T)
  BY <1>1, FlattenType
<1>3. QED
  BY <1>2, JoinIs

\* Nothing comes of nothing.
LEMMA JoinEmpty == JoinCRLF(<<>>) = <<>>
<1>1. Joined(<<>>) = <<>>
  BY DEF Joined
<1>2. QED
  BY <1>1, JoinIs, FlattenEmpty

\* The last character stays.
LEMMA JoinLast ==
    ASSUME NEW T, NEW s \in Seq(T), s # <<>>
    PROVE  \E p \in Seq(T) : JoinCRLF(s) = Append(p, s[Len(s)])
<1>1. PICK m : m = Joined(s)
  OBVIOUS
<1>2. /\ m \in Seq(Seq(T)) /\ Len(m) = Len(s)
      /\ \A i \in 1..Len(s) : m[i] = IF s[i] = CR /\ i < Len(s) /\ s[i + 1] = NL
                                     THEN <<>> ELSE <<s[i]>>
  BY <1>1, JoinedType
<1>3. PICK n \in Nat : n = Len(s)
  OBVIOUS
<1>4. n # 0 /\ n \in 1..n /\ ~(n < n) /\ s[n] \in T
  BY <1>3
<1>5. m # <<>> /\ m[n] = <<s[n]>>
  BY <1>2, <1>3, <1>4
<1>6. PICK p \in Seq(Seq(T)) : m = Append(p, <<s[n]>>)
  <2>1. SubSeq(m, 1, Len(m) - 1) \in Seq(Seq(T)) /\ m = Append(SubSeq(m, 1, Len(m) - 1), m[Len(m)])
    BY <1>2, <1>5, Shorter
  <2>2. QED
    BY <1>2, <1>3, <1>5, <2>1
<1>7. PICK y \in Seq(T) : y = <<s[n]>>
  <2>1. <<s[n]>> \in Seq(T)
    BY <1>4
  <2>2. QED
    BY <2>1, Zenon
<1>8. FlattenSeq(Append(p, y)) = FlattenSeq(p) \o y
  BY FlattenAppend
<1>9. PICK v \in Seq(T) : v = FlattenSeq(p)
  BY FlattenType
<1>10. v \o <<s[n]>> = Append(v, s[n])
  BY <1>4
<1>11. QED
  BY <1>1, <1>3, <1>6, <1>7, <1>8, <1>9, <1>10, JoinIs

\* A first character that is no '\r' stays as well.
LEMMA JoinFirst ==
    ASSUME NEW T, NEW s \in Seq(T), NEW x \in T, x # CR
    PROVE  JoinCRLF(<<x>> \o s) = <<x>> \o JoinCRLF(s)
<1>1. PICK u \in Seq(T) : u = <<x>> \o s
  <2>1. <<x>> \o s \in Seq(T)
    OBVIOUS
  <2>2. QED
    BY <2>1, Zenon
<1>2. /\ Len(u) = Len(s) + 1 /\ Len(s) \in Nat /\ u[1] = x
      /\ \A i \in 1..Len(s) : u[i + 1] = s[i]
  BY <1>1
<1>3. PICK m : m = Joined(s)
  OBVIOUS
<1>4. PICK k : k = Joined(u)
  OBVIOUS
<1>5. /\ m \in Seq(Seq(T)) /\ Len(m) = Len(s)
      /\ \A i \in 1..Len(s) : m[i] = IF s[i] = CR /\ i < Len(s) /\ s[i + 1] = NL
                                     THEN <<>> ELSE <<s[i]>>
  BY <1>3, JoinedType
<1>6. /\ k \in Seq(Seq(T)) /\ Len(k) = Len(u)
      /\ \A i \in 1..Len(u) : k[i] = IF u[i] = CR /\ i < Len(u) /\ u[i + 1] = NL
                                     THEN <<>> ELSE <<u[i]>>
  BY <1>4, JoinedType
<1>7. PICK a \in Seq(Seq(T)) : a = << <<x>> >>
  <2>1. PICK b \in Seq(T) : b = <<x>>
    <3>1. <<x>> \in Seq(T)
      OBVIOUS
    <3>2. QED
      BY <3>1, Zenon
  <2>2. <<b>> \in Seq(Seq(T))
    OBVIOUS
  <2>3. QED
    BY <2>1, <2>2, Zenon
<1>8. a \o m \in Seq(Seq(T)) /\ Len(a \o m) = Len(s) + 1 /\ (a \o m)[1] = <<x>>
      /\ \A i \in 1..Len(s) : (a \o m)[i + 1] = m[i]
  BY <1>5, <1>7
<1>9. k[1] = <<x>>
  <2>1. 1 \in 1..Len(u)
    BY <1>2
  <2>2. QED
    BY <2>1, <1>2, <1>6
<1>10. \A i \in 1..Len(s) : k[i + 1] = m[i]
  <2>1. ASSUME NEW i \in 1..Len(s)
        PROVE  k[i + 1] = m[i]
    <3>1. i + 1 \in 1..Len(u) /\ u[i + 1] = s[i] /\ (i + 1 < Len(u) <=> i < Len(s))
      BY <1>2
    <3>2. i < Len(s) => u[(i + 1) + 1] = s[i + 1]
      <4>1. i < Len(s) => i + 1 \in 1..Len(s)
        BY <1>2
      <4>2. QED
        BY <4>1, <1>2
    <3>3. QED
      BY <3>1, <3>2, <1>5, <1>6
  <2>2. QED
    BY <2>1
<1>11. \A j \in 1..Len(k) : k[j] = (a \o m)[j]
  <2>1. ASSUME NEW j \in 1..Len(k)
        PROVE  k[j] = (a \o m)[j]
    <3>1. CASE j = 1
      BY <3>1, <1>8, <1>9
    <3>2. CASE j # 1
      <4>1. j - 1 \in 1..Len(s) /\ (j - 1) + 1 = j
        BY <3>2, <1>2, <1>6
      <4>2. QED
        BY <4>1, <1>8, <1>10
    <3>3. QED
      BY <3>1, <3>2
  <2>2. QED
    BY <2>1
<1>12. k = a \o m
  <2>1. PICK b \in Seq(Seq(T)) : b = a \o m
    BY <1>8
  <2>2. Len(k) = Len(b) /\ \A j \in 1..Len(k) : k[j] = b[j]
    BY <1>2, <1>6, <1>8, <1>11, <2>1
  <2>3. k = b
    BY <1>6, <2>2, SeqEqual
  <2>4. QED
    BY <2>1, <2>3
<1>13. FlattenSeq(a \o m) = FlattenSeq(a) \o FlattenSeq(m)
  BY <1>5, FlattenConcat
<1>14. FlattenSeq(a) = <<x>>
  BY <1>7, FlattenOne
<1>15. QED
  BY <1>1, <1>3, <1>4, <1>12, <1>13, <1>14, JoinIs

-----------------------------------------------------------------------------
(* The prefixes come in and can be taken out again. *)

\* The prefix is none of the characters a device sends.
LEMMA PrefixIsNoCharacter ==
    /\ Prefix \notin Char /\ Prefix # NL /\ Prefix # CR
    /\ Char \subseteq Printed /\ NL \in Printed /\ Prefix \in Printed
  BY PrefixAssumption DEF Char, Printed

\* Text of a device can be printed.
LEMMA CharsArePrinted == \A u \in Seq(Char) : u \in Seq(Printed)
  BY PrefixIsNoCharacter, SeqMonotonic

\* PrefixLines and Plain work on a text piece by piece.
LEMMA PrefixLinesType ==
    ASSUME NEW s \in Seq(Printed)
    PROVE  PrefixLines(s) \in Seq(Printed)
<1>1. Mapped(s, Break) \in Seq(Printed)
  BY BreakType, MapType
<1>2. QED
  BY <1>1, PrefixLinesIs

LEMMA PrefixLinesConcat ==
    ASSUME NEW s \in Seq(Printed), NEW r \in Seq(Printed)
    PROVE  PrefixLines(s \o r) = PrefixLines(s) \o PrefixLines(r)
<1>1. Mapped(s \o r, Break) = Mapped(s, Break) \o Mapped(r, Break)
  BY BreakType, MapConcat
<1>2. s \o r \in Seq(Printed)
  OBVIOUS
<1>3. QED
  BY <1>1, <1>2, PrefixLinesIs

LEMMA PlainType ==
    ASSUME NEW s \in Seq(Printed)
    PROVE  Plain(s) \in Seq(Printed)
<1>1. Mapped(s, Strip) \in Seq(Printed)
  BY StripType, MapType
<1>2. QED
  BY <1>1, PlainIs

LEMMA PlainConcat ==
    ASSUME NEW s \in Seq(Printed), NEW r \in Seq(Printed)
    PROVE  Plain(s \o r) = Plain(s) \o Plain(r)
<1>1. Mapped(s \o r, Strip) = Mapped(s, Strip) \o Mapped(r, Strip)
  BY StripType, MapConcat
<1>2. s \o r \in Seq(Printed)
  OBVIOUS
<1>3. QED
  BY <1>1, <1>2, PlainIs

\* Plain drops prefixes and nothing else.
LEMMA PlainOne ==
    ASSUME NEW x \in Printed
    PROVE  Plain(<<x>>) = IF x = Prefix THEN <<>> ELSE <<x>>
<1>1. Mapped(<<x>>, Strip) = Strip[x]
  BY StripType, MapOne
<1>2. <<x>> \in Seq(Printed)
  OBVIOUS
<1>3. Strip[x] = IF x = Prefix THEN <<>> ELSE <<x>>
  BY DEF Strip
<1>4. QED
  BY <1>1, <1>2, <1>3, PlainIs

LEMMA PlainOfChars ==
    ASSUME NEW u \in Seq(Char)
    PROVE  Plain(u) = u
<1>1. \A x \in Char : Strip[x] = <<x>>
  BY PrefixIsNoCharacter DEF Strip
<1>2. Mapped(u, Strip) = u
  BY <1>1, StripType, PrefixIsNoCharacter, MapIdentity
<1>3. u \in Seq(Printed)
  BY CharsArePrinted
<1>4. QED
  BY <1>2, <1>3, PlainIs

\* Whatever PrefixLines adds, Plain takes out.
LEMMA PlainOfPrefixed ==
    ASSUME NEW s \in Seq(Printed)
    PROVE  Plain(PrefixLines(s)) = Plain(s)
<1>1. ASSUME NEW x \in Printed
      PROVE  Strip[x] = Mapped(Break[x], Strip)
  <2>1. CASE x = NL
    <3>1. PICK a \in Seq(Printed) : a = <<NL>>
      <4>1. <<NL>> \in Seq(Printed)
        BY PrefixIsNoCharacter
      <4>2. QED
        BY <4>1, Zenon
    <3>2. PICK b \in Printed : b = Prefix
      BY PrefixIsNoCharacter
    <3>3. Append(a, b) = <<NL, Prefix>>
      <4>1. PICK z \in Seq(Printed) : z = Append(a, b)
        BY AppendProperties
      <4>2. Len(z) = 2 /\ z[1] = NL /\ z[2] = Prefix
        BY <3>1, <3>2, <4>1
      <4>3. PICK y \in Seq(Printed) : y = <<NL, Prefix>>
        <5>1. <<NL, Prefix>> \in Seq(Printed)
          BY PrefixIsNoCharacter
        <5>2. QED
          BY <5>1, Zenon
      <4>4. Len(y) = 2 /\ y[1] = NL /\ y[2] = Prefix
        BY <4>3
      <4>5. \A i \in 1..Len(z) : z[i] = y[i]
        BY <4>2, <4>4
      <4>6. z = y
        BY <4>2, <4>4, <4>5, SeqEqual
      <4>7. QED
        BY <4>1, <4>3, <4>6
    <3>4. Mapped(Append(a, b), Strip) = Mapped(a, Strip) \o Strip[b]
      BY StripType, MapAppend
    <3>5. Mapped(<<x>>, Strip) = Strip[x]
      BY StripType, MapOne
    <3>6. Strip[b] = <<>> /\ Strip[x] = <<NL>> /\ Break[x] = <<NL, Prefix>>
      BY <2>1, <3>2, PrefixIsNoCharacter DEF Strip, Break
    <3>7. <<NL>> \o <<>> = <<NL>>
      BY <3>1
    <3>8. QED
      BY <2>1, <3>1, <3>3, <3>4, <3>5, <3>6, <3>7
  <2>2. CASE x # NL
    <3>1. Break[x] = <<x>>
      BY <2>2 DEF Break
    <3>2. Mapped(<<x>>, Strip) = Strip[x]
      BY StripType, MapOne
    <3>3. QED
      BY <3>1, <3>2
  <2>3. QED
    BY <2>1, <2>2
<1>0. \A a, b \in Seq(Printed) : Mapped(a \o b, Strip) = Mapped(a, Strip) \o Mapped(b, Strip)
  BY StripType, MapConcat
<1>2. ASSUME NEW u \in Seq(Printed), NEW x \in Printed,
             Mapped(Mapped(u, Break), Strip) = Mapped(u, Strip)
      PROVE  Mapped(Mapped(Append(u, x), Break), Strip) = Mapped(Append(u, x), Strip)
  <2>1. Mapped(Append(u, x), Break) = Mapped(u, Break) \o Break[x]
    BY BreakType, MapAppend
  <2>2. Mapped(Append(u, x), Strip) = Mapped(u, Strip) \o Strip[x]
    BY StripType, MapAppend
  <2>3. PICK v \in Seq(Printed) : v = Mapped(u, Break)
    BY BreakType, MapType
  <2>4. PICK w \in Seq(Printed) : w = Break[x]
    BY BreakType
  <2>5. Mapped(v \o w, Strip) = Mapped(v, Strip) \o Mapped(w, Strip)
    BY <1>0, Zenon
  <2>6. Strip[x] = Mapped(Break[x], Strip)
    BY <1>1
  <2>7. QED
    BY <1>2, <2>1, <2>2, <2>3, <2>4, <2>5, <2>6
<1> DEFINE U == {u \in Seq(Printed) : Mapped(Mapped(u, Break), Strip) = Mapped(u, Strip)}
<1>3. <<>> \in U
  <2>1. /\ Mapped(<<>>, Break) = <<>> /\ Mapped(<<>>, Strip) = <<>>
        /\ <<>> \in Seq(Printed)
    BY MapEmpty
  <2>2. QED
    BY <2>1
<1>4. \A u \in U : \A x \in Printed : Append(u, x) \in U
  <2>1. \A u \in Seq(Printed) : \A x \in Printed : Append(u, x) \in Seq(Printed)
    OBVIOUS
  <2>2. QED
    BY <1>2, <2>1
<1>5. U \in SUBSET Seq(Printed)
  OBVIOUS
<1> HIDE DEF U
<1>6. s \in U
  BY <1>3, <1>4, <1>5, SequencesAreBuilt
<1>7. Mapped(Mapped(s, Break), Strip) = Mapped(s, Strip)
  BY <1>6 DEF U
<1>8. Mapped(s, Break) \in Seq(Printed)
  BY BreakType, MapType
<1>9. QED
  BY <1>7, <1>8, PrefixLinesIs, PlainIs

\* What is formatted after t is what is shown of t, and the text.
LEMMA PlainFormatted ==
    ASSUME NEW t \in Seq(Printed), NEW u \in Seq(Char)
    PROVE  Plain(t \o PrefixLines(u)) = Plain(t) \o u
<1>1. PICK v \in Seq(Printed) : v = u
  BY CharsArePrinted
<1>2. PICK w \in Seq(Printed) : w = PrefixLines(v)
  BY PrefixLinesType
<1>3. Plain(t \o w) = Plain(t) \o Plain(w)
  BY PlainConcat
<1>4. Plain(w) = u
  BY <1>1, <1>2, PlainOfPrefixed, PlainOfChars
<1>5. QED
  BY <1>1, <1>2, <1>3, <1>4

-----------------------------------------------------------------------------
(* Lines that begin with the prefix and have no other. *)

PrefixedText(t) == \A i \in DOMAIN t : t[i] = Prefix <=> (i = 1 \/ t[i - 1] = NL)

\* A line that has begun and goes on.
OpenText(t) == t \in Seq(Printed) /\ t # <<>> /\ PrefixedText(t) /\ t[Len(t)] # NL

\* A prefix opens a line.
LEMMA OpenPrefix == OpenText(<<Prefix>>)
  BY PrefixIsNoCharacter DEF OpenText, PrefixedText

\* What an open line is, member by member.
LEMMA OpenFacts ==
    ASSUME NEW t, OpenText(t)
    PROVE  /\ t \in Seq(Printed) /\ Len(t) \in Nat \ {0} /\ DOMAIN t = 1..Len(t) /\ t[Len(t)] # NL
           /\ \A i \in 1..Len(t) : t[i] = Prefix <=> (i = 1 \/ t[i - 1] = NL)
<1>1. t \in Seq(Printed) /\ t # <<>> /\ t[Len(t)] # NL
  BY DEF OpenText
<1>2. Len(t) \in Nat \ {0} /\ DOMAIN t = 1..Len(t)
  BY <1>1
<1>3. \A i \in DOMAIN t : t[i] = Prefix <=> (i = 1 \/ t[i - 1] = NL)
  BY Zenon DEF OpenText, PrefixedText
<1>4. QED
  BY <1>1, <1>2, <1>3

\* An open line stays one with another character, a newline included: the prefix
\* that follows opens the next line.
LEMMA OpenGrows ==
    ASSUME NEW t, OpenText(t), NEW x \in Char
    PROVE  OpenText(t \o Break[x])
<1>1. /\ t \in Seq(Printed) /\ Len(t) \in Nat \ {0} /\ DOMAIN t = 1..Len(t) /\ t[Len(t)] # NL
      /\ \A i \in 1..Len(t) : t[i] = Prefix <=> (i = 1 \/ t[i - 1] = NL)
  BY OpenFacts
<1>2. PICK n \in Nat : n = Len(t)
  BY <1>1
<1>3. x # Prefix /\ x \in Printed
  BY PrefixIsNoCharacter
<1>4. CASE x = NL
  <2>1. PICK r : r = t \o <<NL, Prefix>>
    OBVIOUS
  <2>2. Break[x] = <<NL, Prefix>>
    BY <1>3, <1>4 DEF Break
  <2>3. /\ r \in Seq(Printed) /\ Len(r) = n + 2 /\ DOMAIN r = 1..(n + 2)
        /\ r[n + 1] = NL /\ r[n + 2] = Prefix
        /\ \A i \in 1..n : r[i] = t[i]
    BY <1>1, <1>2, <2>1, PrefixIsNoCharacter
  <2>4. ASSUME NEW i \in 1..(n + 2)
        PROVE  r[i] = Prefix <=> (i = 1 \/ r[i - 1] = NL)
    <3>1. CASE i \in 1..n
      <4>1. i # 1 => i - 1 \in 1..n
        BY <3>1
      <4>2. QED
        BY <3>1, <4>1, <1>1, <1>2, <2>3
    <3>2. CASE i = n + 1
      <4>1. i # 1 /\ i - 1 = n /\ n \in 1..n /\ r[n] # NL
        BY <3>2, <1>1, <1>2, <2>3
      <4>2. QED
        BY <3>2, <4>1, <2>3, PrefixIsNoCharacter
    <3>3. CASE i = n + 2
      <4>1. i - 1 = n + 1
        BY <3>3
      <4>2. QED
        BY <3>3, <4>1, <2>3
    <3>4. QED
      BY <3>1, <3>2, <3>3
  <2>5. r # <<>> /\ r[Len(r)] # NL
    BY <2>3, PrefixIsNoCharacter
  <2>6. PrefixedText(r)
    BY <2>3, <2>4 DEF PrefixedText
  <2>7. QED
    BY <2>1, <2>2, <2>3, <2>5, <2>6 DEF OpenText
<1>5. CASE x # NL
  <2>1. PICK r : r = t \o <<x>>
    OBVIOUS
  <2>2. Break[x] = <<x>>
    BY <1>3, <1>5 DEF Break
  <2>3. /\ r \in Seq(Printed) /\ Len(r) = n + 1 /\ DOMAIN r = 1..(n + 1) /\ r[n + 1] = x
        /\ \A i \in 1..n : r[i] = t[i]
    BY <1>1, <1>2, <1>3, <2>1
  <2>4. ASSUME NEW i \in 1..(n + 1)
        PROVE  r[i] = Prefix <=> (i = 1 \/ r[i - 1] = NL)
    <3>1. CASE i \in 1..n
      <4>1. i # 1 => i - 1 \in 1..n
        BY <3>1
      <4>2. QED
        BY <3>1, <4>1, <1>1, <1>2, <2>3
    <3>2. CASE i = n + 1
      <4>1. i # 1 /\ i - 1 = n /\ n \in 1..n /\ r[n] # NL
        BY <3>2, <1>1, <1>2, <2>3
      <4>2. QED
        BY <3>2, <4>1, <1>3, <2>3
    <3>3. QED
      BY <3>1, <3>2
  <2>5. r # <<>> /\ r[Len(r)] # NL
    BY <2>3, <1>5
  <2>6. PrefixedText(r)
    BY <2>3, <2>4 DEF PrefixedText
  <2>7. QED
    BY <2>1, <2>2, <2>3, <2>5, <2>6 DEF OpenText
<1>6. QED
  BY <1>4, <1>5

\* So it does with a whole text.
LEMMA OpenLines ==
    ASSUME NEW t, OpenText(t), NEW u \in Seq(Char)
    PROVE  OpenText(t \o PrefixLines(u))
<1>1. t \in Seq(Printed)
  BY DEF OpenText
<1>0. \A a, b, c \in Seq(Printed) : (a \o b) \o c = a \o (b \o c)
  BY ConcatAssociative
<1>2. ASSUME NEW r \in Seq(Char), NEW x \in Char, OpenText(t \o Mapped(r, Break))
      PROVE  OpenText(t \o Mapped(Append(r, x), Break))
  <2>1. r \in Seq(Printed) /\ x \in Printed
    BY CharsArePrinted, PrefixIsNoCharacter
  <2>2. Mapped(Append(r, x), Break) = Mapped(r, Break) \o Break[x]
    BY <2>1, BreakType, MapAppend
  <2>3. PICK v \in Seq(Printed) : v = Mapped(r, Break)
    BY <2>1, BreakType, MapType
  <2>4. PICK y \in Seq(Printed) : y = Break[x]
    BY <2>1, BreakType
  <2>5. (t \o v) \o y = t \o (v \o y)
    BY <1>0, <1>1, Zenon
  <2>6. OpenText((t \o v) \o y)
    BY <1>2, <2>3, <2>4, OpenGrows
  <2>7. QED
    BY <2>2, <2>3, <2>4, <2>5, <2>6
<1> DEFINE U == {r \in Seq(Char) : OpenText(t \o Mapped(r, Break))}
<1>3. <<>> \in U
  <2>1. t \o <<>> = t /\ Mapped(<<>>, Break) = <<>> /\ <<>> \in Seq(Char)
    BY <1>1, MapEmpty
  <2>2. OpenText(t \o Mapped(<<>>, Break))
    BY <2>1
  <2>3. QED
    BY <2>1, <2>2
<1>4. \A r \in U : \A x \in Char : Append(r, x) \in U
  <2>1. \A r \in Seq(Char) : \A x \in Char : Append(r, x) \in Seq(Char)
    OBVIOUS
  <2>2. QED
    BY <1>2, <2>1
<1>5. U \in SUBSET Seq(Char)
  OBVIOUS
<1> HIDE DEF U
<1>6. u \in U
  BY <1>3, <1>4, <1>5, SequencesAreBuilt
<1>7. OpenText(t \o Mapped(u, Break))
  BY <1>6 DEF U
<1>8. u \in Seq(Printed)
  BY CharsArePrinted
<1>9. QED
  BY <1>7, <1>8, PrefixLinesIs

\* A line that ends.
LEMMA LineEnds ==
    ASSUME NEW t, OpenText(t)
    PROVE  /\ Append(t, NL) \in Seq(Printed) /\ PrefixedText(Append(t, NL)) /\ Append(t, NL) # <<>>
           /\ Append(t, NL)[Len(Append(t, NL))] = NL
<1>1. /\ t \in Seq(Printed) /\ Len(t) \in Nat \ {0} /\ DOMAIN t = 1..Len(t) /\ t[Len(t)] # NL
      /\ \A i \in 1..Len(t) : t[i] = Prefix <=> (i = 1 \/ t[i - 1] = NL)
  BY OpenFacts
<1>2. PICK n \in Nat : n = Len(t)
  BY <1>1
<1>3. PICK r : r = Append(t, NL)
  OBVIOUS
<1>4. /\ r \in Seq(Printed) /\ Len(r) = n + 1 /\ DOMAIN r = 1..(n + 1) /\ r[n + 1] = NL
      /\ \A i \in 1..n : r[i] = t[i]
  BY <1>1, <1>2, <1>3, PrefixIsNoCharacter
<1>5. ASSUME NEW i \in 1..(n + 1)
      PROVE  r[i] = Prefix <=> (i = 1 \/ r[i - 1] = NL)
  <2>1. CASE i \in 1..n
    <3>1. i # 1 => i - 1 \in 1..n
      BY <2>1
    <3>2. QED
      BY <2>1, <3>1, <1>1, <1>2, <1>4
  <2>2. CASE i = n + 1
    <3>1. i # 1 /\ i - 1 = n /\ n \in 1..n /\ r[n] # NL
      BY <2>2, <1>1, <1>2, <1>4
    <3>2. QED
      BY <2>2, <3>1, <1>4, PrefixIsNoCharacter
  <2>3. QED
    BY <2>1, <2>2
<1>6. r # <<>> /\ r[Len(r)] = NL
  BY <1>4
<1>7. PrefixedText(r)
  BY <1>4, <1>5 DEF PrefixedText
<1>8. QED
  BY <1>3, <1>4, <1>6, <1>7

-----------------------------------------------------------------------------
(* What becomes of a chunk. *)

\* Concatenation of texts is associative.
LEMMA PrintedAssociative == \A a, b, c \in Seq(Printed) : (a \o b) \o c = a \o (b \o c)
  BY ConcatAssociative

\* A last character can be added to the whole or to the last part.
LEMMA OneMore ==
    ASSUME NEW a \in Seq(Printed), NEW v \in Seq(Printed), NEW y \in Printed
    PROVE  (a \o v) \o <<y>> = a \o Append(v, y)
<1>1. PICK l \in Seq(Printed) : l = <<y>>
  <2>1. <<y>> \in Seq(Printed)
    OBVIOUS
  <2>2. QED
    BY <2>1, Zenon
<1>2. (a \o v) \o l = a \o (v \o l)
  BY PrintedAssociative, Zenon
<1>3. v \o <<y>> = Append(v, y)
  OBVIOUS
<1>4. QED
  BY <1>1, <1>2, <1>3

\* What is decoded is text.
LEMMA DecodedType ==
    ASSUME NEW c \in Chunk
    PROVE  Decoded(c) \in Seq(Char)
<1>1. c \in Seq(Char)
  BY ChunkIsText
<1>2. Mapped(c, Keep) \in Seq(Char)
  BY <1>1, KeepType, MapType
<1>3. QED
  BY <1>1, <1>2, DecodedIs

\* What Text puts before a chunk.
Start(b) == IF b THEN <<Prefix>> ELSE <<>>

\* It shows nothing, and has no newline.
LEMMA StartType ==
    ASSUME NEW b \in BOOLEAN
    PROVE  Start(b) \in Seq(Printed) /\ Plain(Start(b)) = <<>> /\ PrefixLines(Start(b)) = Start(b)
<1>1. CASE b
  <2>1. Start(b) = <<Prefix>> /\ Prefix \in Printed /\ Prefix # NL
    BY <1>1, PrefixIsNoCharacter DEF Start
  <2>2. <<Prefix>> \in Seq(Printed)
    BY <2>1
  <2>3. Plain(<<Prefix>>) = <<>>
    BY <2>1, PlainOne
  <2>4. Mapped(<<Prefix>>, Break) = Break[Prefix]
    BY <2>1, BreakType, MapOne
  <2>5. Break[Prefix] = <<Prefix>>
    BY <2>1 DEF Break
  <2>6. PrefixLines(<<Prefix>>) = <<Prefix>>
    BY <2>2, <2>4, <2>5, PrefixLinesIs
  <2>7. QED
    BY <2>1, <2>2, <2>3, <2>6
<1>2. CASE ~b
  <2>1. Start(b) = <<>> /\ <<>> \in Seq(Printed)
    BY <1>2 DEF Start
  <2>2. Mapped(<<>>, Strip) = <<>> /\ Mapped(<<>>, Break) = <<>>
    BY MapEmpty
  <2>3. Plain(<<>>) = <<>> /\ PrefixLines(<<>>) = <<>>
    BY <2>1, <2>2, PlainIs, PrefixLinesIs
  <2>4. QED
    BY <2>1, <2>3
<1>3. QED
  BY <1>1, <1>2

\* The text of a chunk is its prefix, if it gets one, and what the logfile shows of it.
LEMMA TextIs ==
    ASSUME NEW c \in Chunk, NEW b \in BOOLEAN
    PROVE  Text(c, b) = Start(b) \o JoinCRLF(Decoded(c))
<1>1. PICK v \in Seq(Printed) : v = Decoded(c)
  BY DecodedType, CharsArePrinted
<1>2. CASE b
  <2>1. PICK x \in Printed : x = Prefix
    BY PrefixIsNoCharacter
  <2>2. x # CR
    BY <2>1, PrefixIsNoCharacter
  <2>3. JoinCRLF(<<x>> \o v) = <<x>> \o JoinCRLF(v)
    BY <2>2, JoinFirst
  <2>4. Text(c, b) = JoinCRLF(<<Prefix>> \o Decoded(c)) /\ Start(b) = <<Prefix>>
    BY <1>2, Zenon DEF Text, Texts, Start
  <2>5. QED
    BY <1>1, <2>1, <2>3, <2>4
<1>3. CASE ~b
  <2>1. Text(c, b) = JoinCRLF(<<>> \o Decoded(c)) /\ Start(b) = <<>>
    BY <1>3, Zenon DEF Text, Texts, Start
  <2>2. PICK j \in Seq(Printed) : j = JoinCRLF(v)
    BY JoinType
  <2>3. <<>> \o v = v /\ <<>> \o j = j
    OBVIOUS
  <2>4. QED
    BY <1>1, <2>1, <2>2, <2>3
<1>4. QED
  BY <1>2, <1>3

\* What FormatLine and FormatPart make of a chunk: it has a last character y, and it
\* ends a line if y is a newline.
LEMMA FormatFacts ==
    ASSUME NEW c \in Chunk, Decoded(c) # <<>>, NEW b \in BOOLEAN
    PROVE  \E u \in Seq(Char), y \in Char :
              /\ JoinCRLF(Decoded(c)) = Append(u, y)
              /\ EndsLine(Text(c, b)) <=> y = NL
              /\ PrefixLines(Front(Text(c, b))) = Start(b) \o PrefixLines(u)
              /\ PrefixLines(Text(c, b)) = Start(b) \o PrefixLines(Append(u, y))
<1>1. PICK v \in Seq(Char) : v = Decoded(c)
  BY DecodedType
<1>2. PICK u \in Seq(Char) : JoinCRLF(v) = Append(u, v[Len(v)])
  <2>1. v # <<>>
    BY <1>1
  <2>2. QED
    BY <2>1, JoinLast
<1>3. PICK y \in Char : y = v[Len(v)]
  <2>1. v # <<>>
    BY <1>1
  <2>2. QED
    BY <2>1
<1>4. PICK s \in Seq(Printed) : s = Start(b) /\ PrefixLines(s) = s
  BY StartType
<1>5. PICK p \in Seq(Printed), z \in Printed : p = u /\ z = y
  BY CharsArePrinted, PrefixIsNoCharacter
<1>6. Text(c, b) = s \o Append(p, z)
  BY <1>1, <1>2, <1>3, <1>4, <1>5, TextIs
<1>7. PICK t \in Seq(Printed) : t = s \o p
  BY ConcatProperties
<1>8. s \o Append(p, z) = Append(t, z)
  BY <1>7
<1>9. /\ Append(t, z) \in Seq(Printed) /\ Append(t, z)[Len(Append(t, z))] = z
      /\ SubSeq(Append(t, z), 1, Len(Append(t, z)) - 1) = t
  <2>1. Len(Append(t, z)) = Len(t) + 1 /\ Len(t) \in Nat /\ Append(t, z) \in Seq(Printed)
        /\ Append(t, z)[Len(t) + 1] = z
    BY AppendProperties
  <2>2. PICK n \in Nat : n = Len(t)
    BY <2>1
  <2>3. SubSeq(Append(t, z), 1, n) = t
    BY <2>2
  <2>4. QED
    BY <2>1, <2>2, <2>3
<1>10. EndsLine(Text(c, b)) <=> y = NL
  BY <1>5, <1>6, <1>8, <1>9 DEF EndsLine, Last
<1>11. Front(Text(c, b)) = t
  BY <1>6, <1>8, <1>9 DEF Front
<1>12. PrefixLines(s \o p) = PrefixLines(s) \o PrefixLines(p)
  BY PrefixLinesConcat
<1>13. PICK a \in Seq(Printed) : a = Append(p, z)
  BY AppendProperties
<1>14. PrefixLines(s \o a) = PrefixLines(s) \o PrefixLines(a)
  BY PrefixLinesConcat
<1>15. /\ PrefixLines(Front(Text(c, b))) = Start(b) \o PrefixLines(u)
       /\ PrefixLines(Text(c, b)) = Start(b) \o PrefixLines(Append(u, y))
  BY <1>4, <1>5, <1>6, <1>7, <1>11, <1>12, <1>13, <1>14
<1>16. QED
  BY <1>1, <1>2, <1>3, <1>10, <1>15

\* What may stand in `_pending` when the next chunk gets a prefix, or none.
Opens(p, b) == IF b THEN p = <<>> ELSE OpenText(p)

\* Then a line is open when the text of the chunk begins.
LEMMA StartOpens ==
    ASSUME NEW b \in BOOLEAN, NEW p \in Seq(Printed), Opens(p, b)
    PROVE  OpenText(p \o Start(b))
<1>1. CASE b
  <2>1. p \o Start(b) = <<Prefix>>
    BY <1>1 DEF Opens, Start
  <2>2. QED
    BY <2>1, OpenPrefix
<1>2. CASE ~b
  <2>1. p \o Start(b) = p
    BY <1>2 DEF Start
  <2>2. QED
    BY <1>2, <2>1 DEF Opens
<1>3. QED
  BY <1>1, <1>2

\* One whole line, or several.
Line(t) == t \in Seq(Printed) /\ t # <<>> /\ PrefixedText(t) /\ t[Len(t)] = NL

\* A chunk that ends a line makes whole lines of what was pending.
LEMMA LineFormatted ==
    ASSUME NEW c \in Chunk, Decoded(c) # <<>>, NEW b \in BOOLEAN,
           NEW p \in Seq(Printed), Opens(p, b), EndsLine(Text(c, b))
    PROVE  /\ Line(p \o PrefixLines(Front(Text(c, b))) \o <<NL>>)
           /\ Plain(p \o PrefixLines(Front(Text(c, b))) \o <<NL>>)
                = Plain(p) \o JoinCRLF(Decoded(c))
<1>1. PICK u \in Seq(Char), y \in Char :
              /\ JoinCRLF(Decoded(c)) = Append(u, y)
              /\ EndsLine(Text(c, b)) <=> y = NL
              /\ PrefixLines(Front(Text(c, b))) = Start(b) \o PrefixLines(u)
  BY FormatFacts
<1>2. PICK s \in Seq(Printed) : s = Start(b) /\ Plain(s) = <<>>
  BY StartType
<1>3. PICK w \in Seq(Printed) : w = PrefixLines(u)
  BY CharsArePrinted, PrefixLinesType
<1>4. PICK o \in Seq(Printed) : o = p \o s
  BY ConcatProperties
<1>5. o \o w = p \o (s \o w)
  BY <1>4, PrintedAssociative, Zenon
<1>6. OpenText(o)
  BY <1>2, <1>4, StartOpens
<1>7. PICK t \in Seq(Printed) : t = o \o w
  BY ConcatProperties
<1>8. OpenText(t)
  BY <1>3, <1>6, <1>7, OpenLines
<1>9. t \o <<NL>> = Append(t, NL)
  BY PrefixIsNoCharacter
<1>10. p \o PrefixLines(Front(Text(c, b))) \o <<NL>> = Append(t, NL)
  BY <1>1, <1>2, <1>3, <1>5, <1>7, <1>9
<1>11. Line(Append(t, NL))
  BY <1>8, LineEnds DEF Line
<1>12. Plain(t \o <<NL>>) = Plain(t) \o <<NL>>
  <2>1. PICK l \in Seq(Printed) : l = <<NL>>
    <3>1. <<NL>> \in Seq(Printed)
      BY PrefixIsNoCharacter
    <3>2. QED
      BY <3>1, Zenon
  <2>2. Plain(t \o l) = Plain(t) \o Plain(l)
    BY PlainConcat
  <2>3. Plain(<<NL>>) = <<NL>>
    BY PlainOne, PrefixIsNoCharacter
  <2>4. QED
    BY <2>1, <2>2, <2>3
<1>13. Plain(t) = Plain(o) \o u
  BY <1>3, <1>7, PlainFormatted
<1>14. Plain(o) = Plain(p) \o <<>>
  <2>1. Plain(p \o s) = Plain(p) \o Plain(s)
    BY PlainConcat
  <2>2. QED
    BY <1>2, <1>4, <2>1
<1>15. PICK a \in Seq(Printed) : a = Plain(p)
  BY PlainType
<1>16. a \o <<>> = a
  OBVIOUS
<1>17. PICK v \in Seq(Printed) : v = u
  BY CharsArePrinted
<1>18. (a \o v) \o <<NL>> = a \o Append(v, NL)
  BY PrefixIsNoCharacter, OneMore
<1>19. QED
  BY <1>1, <1>9, <1>10, <1>11, <1>12, <1>13, <1>14, <1>15, <1>16, <1>17, <1>18

\* A chunk that does not leaves an open line.
LEMMA PartFormatted ==
    ASSUME NEW c \in Chunk, Decoded(c) # <<>>, NEW b \in BOOLEAN,
           NEW p \in Seq(Printed), Opens(p, b)
    PROVE  /\ OpenText(p \o PrefixLines(Text(c, b)))
           /\ Plain(p \o PrefixLines(Text(c, b))) = Plain(p) \o JoinCRLF(Decoded(c))
<1>1. PICK e \in Seq(Char) :
              /\ JoinCRLF(Decoded(c)) = e
              /\ PrefixLines(Text(c, b)) = Start(b) \o PrefixLines(e)
  <2>1. PICK u \in Seq(Char), y \in Char :
              /\ JoinCRLF(Decoded(c)) = Append(u, y)
              /\ PrefixLines(Text(c, b)) = Start(b) \o PrefixLines(Append(u, y))
    BY FormatFacts
  <2>2. QED
    BY <2>1, AppendProperties
<1>2. PICK s \in Seq(Printed) : s = Start(b) /\ Plain(s) = <<>>
  BY StartType
<1>3. PICK w \in Seq(Printed) : w = PrefixLines(e)
  BY CharsArePrinted, PrefixLinesType
<1>4. PICK o \in Seq(Printed) : o = p \o s
  BY ConcatProperties
<1>5. o \o w = p \o (s \o w)
  BY <1>4, PrintedAssociative, Zenon
<1>6. OpenText(o)
  BY <1>2, <1>4, StartOpens
<1>7. OpenText(o \o PrefixLines(e))
  BY <1>6, OpenLines
<1>8. Plain(o \o PrefixLines(e)) = Plain(o) \o e
  BY PlainFormatted
<1>9. Plain(o) = Plain(p) \o <<>>
  <2>1. Plain(p \o s) = Plain(p) \o Plain(s)
    BY PlainConcat
  <2>2. QED
    BY <1>2, <1>4, <2>1
<1>10. PICK a \in Seq(Printed) : a = Plain(p)
  BY PlainType
<1>11. a \o <<>> = a
  OBVIOUS
<1>12. QED
  BY <1>1, <1>2, <1>3, <1>5, <1>7, <1>8, <1>9, <1>10, <1>11

-----------------------------------------------------------------------------
(* What is on the terminal. *)

\* Text with the listener that prints it.
Marked(w, t) == [i \in 1..Len(t) |-> [by |-> w, ch |-> t[i]]]

\* Marked text is a sequence of records.
LEMMA MarkedType ==
    ASSUME NEW w \in (1..MaxTests) \X Dut, NEW t \in Seq(Printed)
    PROVE  /\ Marked(w, t) \in Seq(Record) /\ Len(Marked(w, t)) = Len(t)
           /\ \A i \in 1..Len(t) : Marked(w, t)[i] = [by |-> w, ch |-> t[i]]
<1>1. Len(t) \in Nat /\ \A i \in 1..Len(t) : t[i] \in Printed
  OBVIOUS
<1>2. \A i \in 1..Len(t) : [by |-> w, ch |-> t[i]] \in Record
  BY <1>1 DEF Record
<1>3. Marked(w, t) \in [1..Len(t) -> Record]
  BY <1>2 DEF Marked
<1>4. \A i \in 1..Len(t) : Marked(w, t)[i] = [by |-> w, ch |-> t[i]]
  BY DEF Marked
<1>5. QED
  BY <1>1, <1>3, <1>4

\* What is printed after s follows it.
LEMMA RecordsConcat ==
    \A a, b \in Seq(Record) :
      /\ a \o b \in Seq(Record) /\ Len(a \o b) = Len(a) + Len(b)
      /\ \A i \in 1..Len(a) : (a \o b)[i] = a[i]
      /\ \A i \in 1..Len(b) : (a \o b)[Len(a) + i] = b[i]
<1> TAKE a, b \in Seq(Record)
<1> QED
  OBVIOUS

\* Text can be printed in pieces.
LEMMA MarkedConcat ==
    ASSUME NEW w \in (1..MaxTests) \X Dut, NEW s \in Seq(Printed), NEW t \in Seq(Printed)
    PROVE  Marked(w, s \o t) = Marked(w, s) \o Marked(w, t)
<1>1. PICK u \in Seq(Printed) : u = s \o t
  BY ConcatProperties
<1>2. PICK m \in Nat, n \in Nat : m = Len(s) /\ n = Len(t)
  BY LenProperties
<1>3. /\ Len(u) = m + n
      /\ \A i \in 1..m : u[i] = s[i]
      /\ \A i \in 1..n : u[m + i] = t[i]
  BY <1>1, <1>2
<1>4. PICK a \in Seq(Record) :
         a = Marked(w, s) /\ Len(a) = m /\ \A i \in 1..m : a[i] = [by |-> w, ch |-> s[i]]
  BY <1>2, MarkedType
<1>5. PICK b \in Seq(Record) :
         b = Marked(w, t) /\ Len(b) = n /\ \A i \in 1..n : b[i] = [by |-> w, ch |-> t[i]]
  BY <1>2, MarkedType
<1>6. PICK c \in Seq(Record) :
         c = Marked(w, u) /\ Len(c) = m + n /\ \A i \in 1..(m + n) : c[i] = [by |-> w, ch |-> u[i]]
  BY <1>3, MarkedType
<1>7. PICK e \in Seq(Record) :
         /\ e = a \o b /\ Len(e) = m + n
         /\ \A i \in 1..m : e[i] = a[i]
         /\ \A i \in 1..n : e[m + i] = b[i]
  <2>1. m = Len(a) /\ n = Len(b)
    BY <1>4, <1>5
  <2>2. /\ a \o b \in Seq(Record) /\ Len(a \o b) = m + n
        /\ \A i \in 1..m : (a \o b)[i] = a[i]
        /\ \A i \in 1..n : (a \o b)[m + i] = b[i]
    <3>1. /\ a \o b \in Seq(Record) /\ Len(a \o b) = Len(a) + Len(b)
          /\ \A i \in 1..Len(a) : (a \o b)[i] = a[i]
          /\ \A i \in 1..Len(b) : (a \o b)[Len(a) + i] = b[i]
      BY RecordsConcat, Zenon
    <3>2. QED
      BY <2>1, <3>1, Zenon
  <2>3. QED
    BY <2>2, Zenon
<1>8. ASSUME NEW i \in 1..(m + n) PROVE c[i] = e[i]
  <2>1. CASE i \in 1..m
    <3>1. c[i] = [by |-> w, ch |-> u[i]]
      BY <1>6
    <3>2. u[i] = s[i] /\ e[i] = a[i] /\ a[i] = [by |-> w, ch |-> s[i]]
      BY <2>1, <1>3, <1>4, <1>7
    <3>3. QED
      BY <3>1, <3>2
  <2>2. CASE i \notin 1..m
    <3>1. PICK j \in 1..n : i = m + j
      <4>1. i - m \in 1..n /\ i = m + (i - m)
        BY <2>2
      <4>2. QED
        BY <4>1
    <3>2. c[i] = [by |-> w, ch |-> u[i]]
      BY <1>6
    <3>3. u[i] = t[j]
      BY <3>1, <1>3
    <3>4. e[i] = b[j]
      BY <3>1, <1>7
    <3>5. b[j] = [by |-> w, ch |-> t[j]]
      BY <1>5
    <3>6. QED
      BY <3>2, <3>3, <3>4, <3>5
  <2>3. QED
    BY <2>1, <2>2
<1>9. c = e
  BY <1>6, <1>7, <1>8, SeqEqual
<1>10. QED
  BY <1>1, <1>4, <1>5, <1>6, <1>7, <1>9

\* What LinesAreWhole says of a terminal that shows s.
Begins(s, i) == i = 1 \/ s[i - 1].ch = NL

Whole(s) ==
    \A i \in 1..Len(s) :
      /\ s[i].ch = Prefix <=> Begins(s, i)
      /\ Begins(s, i) \/ s[i].by = s[i - 1].by

\* The next character begins a line.
AtLineStart(s) == s = <<>> \/ s[Len(s)].ch = NL

\* A terminal with whole lines had whole lines before.
LEMMA WholePrefix ==
    ASSUME NEW s \in Seq(Record), NEW r \in Seq(Record), Whole(s \o r)
    PROVE  Whole(s)
<1>1. PICK u \in Seq(Record) : u = s \o r
  BY ConcatProperties
<1>2. PICK m \in Nat : m = Len(s)
  BY LenProperties
<1>3. m <= Len(u) /\ Len(u) \in Nat /\ \A i \in 1..m : u[i] = s[i]
  BY <1>1, <1>2, ConcatProperties, LenProperties
<1>4. ASSUME NEW i \in 1..m
      PROVE  /\ s[i].ch = Prefix <=> Begins(s, i)
             /\ Begins(s, i) \/ s[i].by = s[i - 1].by
  <2>1. i \in 1..Len(u) /\ (i # 1 => i - 1 \in 1..m)
    BY <1>3
  <2>2. /\ u[i].ch = Prefix <=> Begins(u, i)
        /\ Begins(u, i) \/ u[i].by = u[i - 1].by
    BY <1>1, <2>1 DEF Whole
  <2>3. u[i] = s[i] /\ (i # 1 => u[i - 1] = s[i - 1])
    BY <1>3, <2>1
  <2>4. QED
    BY <2>2, <2>3 DEF Begins
<1>5. QED
  BY <1>2, <1>4 DEF Whole

\* A line is added where a line begins.
LEMMA WholeLine ==
    ASSUME NEW s \in Seq(Record), Whole(s), AtLineStart(s),
           NEW w \in (1..MaxTests) \X Dut, NEW t, Line(t)
    PROVE  Whole(s \o Marked(w, t)) /\ AtLineStart(s \o Marked(w, t))
<1>1. t \in Seq(Printed) /\ t # <<>> /\ t[Len(t)] = NL
  BY DEF Line
<1>2. PICK m \in Nat, n \in Nat : m = Len(s) /\ n = Len(t)
  BY <1>1, LenProperties
<1>3. n # 0 /\ DOMAIN t = 1..n
  BY <1>1, <1>2
<1>4. PICK a \in Seq(Record) :
         a = Marked(w, t) /\ Len(a) = n /\ \A i \in 1..n : a[i] = [by |-> w, ch |-> t[i]]
  BY <1>1, <1>2, MarkedType
<1>5. PICK u \in Seq(Record) :
         /\ u = s \o a /\ Len(u) = m + n
         /\ \A i \in 1..m : u[i] = s[i]
         /\ \A i \in 1..n : u[m + i] = a[i]
  <2>1. n = Len(a)
    BY <1>4
  <2>2. /\ s \o a \in Seq(Record) /\ Len(s \o a) = m + n
        /\ \A i \in 1..m : (s \o a)[i] = s[i]
        /\ \A i \in 1..n : (s \o a)[m + i] = a[i]
    <3>1. /\ s \o a \in Seq(Record) /\ Len(s \o a) = Len(s) + Len(a)
          /\ \A i \in 1..Len(s) : (s \o a)[i] = s[i]
          /\ \A i \in 1..Len(a) : (s \o a)[Len(s) + i] = a[i]
      BY RecordsConcat, Zenon
    <3>2. QED
      BY <1>2, <2>1, <3>1, Zenon
  <2>3. QED
    BY <2>2, Zenon
<1>6. \A i \in 1..n : t[i] = Prefix <=> (i = 1 \/ t[i - 1] = NL)
  BY <1>3, Zenon DEF Line, PrefixedText
<1>7. \A i \in 1..n : u[m + i].by = w /\ u[m + i].ch = t[i]
  <2>1. ASSUME NEW i \in 1..n
        PROVE  u[m + i].by = w /\ u[m + i].ch = t[i]
    <3>1. u[m + i] = a[i]
      BY <1>5
    <3>2. a[i] = [by |-> w, ch |-> t[i]]
      BY <1>4
    <3>3. QED
      BY <3>1, <3>2
  <2>2. QED
    BY <2>1
<1>8. ASSUME NEW i \in 1..(m + n)
      PROVE  /\ u[i].ch = Prefix <=> Begins(u, i)
             /\ Begins(u, i) \/ u[i].by = u[i - 1].by
  <2>1. CASE i \in 1..m
    <3>1. /\ s[i].ch = Prefix <=> Begins(s, i)
          /\ Begins(s, i) \/ s[i].by = s[i - 1].by
      BY <1>2, <2>1 DEF Whole
    <3>2. i # 1 => i - 1 \in 1..m
      BY <2>1
    <3>3. u[i] = s[i] /\ (i # 1 => u[i - 1] = s[i - 1])
      BY <1>5, <2>1, <3>2
    <3>4. QED
      BY <3>1, <3>3 DEF Begins
  <2>2. CASE i = m + 1
    <3>1. 1 \in 1..n
      BY <1>3
    <3>2. u[i].ch = Prefix
      BY <1>6, <1>7, <2>2, <3>1
    <3>3. Begins(u, i)
      <4>1. CASE m = 0
        BY <2>2, <4>1 DEF Begins
      <4>2. CASE m # 0
        <5>1. s # <<>> /\ m \in 1..m
          BY <1>2, <4>2
        <5>2. s[m].ch = NL
          BY <1>2, <5>1 DEF AtLineStart
        <5>3. u[i - 1] = s[m]
          <6>1. i - 1 = m
            BY <2>2
          <6>2. QED
            BY <1>5, <5>1, <6>1
        <5>4. QED
          BY <5>2, <5>3 DEF Begins
      <4>3. QED
        BY <4>1, <4>2
    <3>4. QED
      BY <3>2, <3>3
  <2>3. CASE i > m + 1
    <3>1. PICK j \in 1..n : i = m + j /\ j # 1 /\ j - 1 \in 1..n /\ i - 1 = m + (j - 1) /\ i # 1
      <4>1. /\ i - m \in 1..n /\ i = m + (i - m) /\ i - m # 1 /\ (i - m) - 1 \in 1..n
            /\ i - 1 = m + ((i - m) - 1) /\ i # 1
        BY <2>3
      <4>2. QED
        BY <4>1
    <3>2. u[i].by = w /\ u[i].ch = t[j]
      BY <1>7, <3>1
    <3>3. u[i - 1].by = w /\ u[i - 1].ch = t[j - 1]
      BY <1>7, <3>1
    <3>4. t[j] = Prefix <=> t[j - 1] = NL
      BY <1>6, <3>1
    <3>5. QED
      BY <3>1, <3>2, <3>3, <3>4 DEF Begins
  <2>4. QED
    BY <2>1, <2>2, <2>3
<1>9. Whole(u)
  BY <1>5, <1>8 DEF Whole
<1>10. AtLineStart(u)
  <2>1. n \in 1..n
    BY <1>3
  <2>2. u[m + n].ch = NL
    BY <1>1, <1>2, <1>7, <2>1
  <2>3. QED
    BY <1>5, <2>2 DEF AtLineStart
<1>11. QED
  BY <1>4, <1>5, <1>9, <1>10

-----------------------------------------------------------------------------
(* Formatting: the types of the texts, and what is pending. *)

\* The types of the texts.
TextType ==
    /\ pending \in [Dut -> Seq(Printed)]
    /\ toWrite \in [Dut -> Seq(Printed)]
    /\ stdout \in Seq(Record)

\* The chunk that is being formatted is the last of the log, and is not empty.
HandIsLogged ==
    \A d \in Dut : pc[d] = "format" =>
      /\ msg[d] \in Chunk /\ Decoded(msg[d]) # <<>>
      /\ log[d] # <<>> /\ log[d][Len(log[d])] = msg[d]

\* `_pending` is empty, with a prefix due, or a line that is open.
PendingIsOpen ==
    \A d \in Dut :
      /\ pc[d] \in {"get", "append", "format"} => Opens(pending[d], shallAddPrefix[d])
      /\ pc[d] \in {"acquire", "write"} => shallAddPrefix[d]
      /\ pc[d] = "acquire" => Line(toWrite[d])

\* Seen from the writer's end: the terminal with what is still to write.
Finished(d) == stdout \o Marked(<<test, d>>, toWrite[d])

\* The lines on the terminal are whole, and so they will be when the writer is done;
\* while nobody holds the lock, the next character begins a line.
LineInv ==
    /\ Whole(stdout)
    /\ lock = Free => AtLineStart(stdout)
    /\ \A d \in Dut : pc[d] = "write" => Whole(Finished(d)) /\ AtLineStart(Finished(d))

\* The invariant of formatting.
FormatInv == PipelineInv /\ TextType /\ HandIsLogged /\ PendingIsOpen

\* AppendToLog logs what is then formatted.
LEMMA StepKeepsHand ==
    ASSUME PipelineInv, HandIsLogged, [Next]_vars
    PROVE  HandIsLogged'
<1> USE DEF HandIsLogged
<1>1. ASSUME NEW d \in Dut, AppendToLog(d)  PROVE HandIsLogged'
  <2>1. SUFFICES ASSUME NEW e \in Dut, pc'[e] = "format"
                 PROVE  /\ msg[e] \in Chunk /\ Decoded(msg[e]) # <<>>
                        /\ log'[e] # <<>> /\ log'[e][Len(log'[e])] = msg[e]
    BY <1>1 DEF AppendToLog
  <2>2. CASE e # d
    BY <1>1, <2>1, <2>2 DEF AppendToLog, PipelineInv, ChunkTypeOK
  <2>3. CASE e = d
    <3>1. msg[d] \in Chunk /\ log[d] \in Seq(Chunk)
      BY <1>1 DEF AppendToLog, PipelineInv, ChunkTypeOK, InHandIsChunk
    <3>2. log'[d] = Append(log[d], msg[d])
      BY <1>1 DEF AppendToLog, PipelineInv, ChunkTypeOK
    <3>3. Decoded(msg[d]) # <<>>
      BY <1>1, <2>1, <2>3 DEF AppendToLog, PipelineInv, ChunkTypeOK
    <3>4. Append(log[d], msg[d]) # <<>>
          /\ Append(log[d], msg[d])[Len(Append(log[d], msg[d]))] = msg[d]
      BY <3>1
    <3>5. QED
      BY <2>3, <3>1, <3>2, <3>3, <3>4
  <2>4. QED
    BY <2>2, <2>3
<1>2. ASSUME NEW d \in Dut, Get(d) \/ FormatLine(d) \/ FormatPart(d) \/ Acquire(d)
                            \/ Write(d) \/ Release(d) \/ Kill(d)
      PROVE  HandIsLogged'
  BY <1>2 DEF Get, FormatLine, FormatPart, Acquire, Write, Release, Kill, PipelineInv, ChunkTypeOK
<1>3. ASSUME NEW d \in Dut, Expect(d) \/ \E c \in Chunk : Put(d, c)
      PROVE  HandIsLogged'
  BY <1>3 DEF Expect, ExpectCall, ExpectRead, ExpectMatch, ExpectTimeout, Put, listenVars
<1>4. ASSUME CloseDaemons \/ NextTest \/ UNCHANGED vars  PROVE HandIsLogged'
  BY <1>4 DEF CloseDaemons, NextTest, FreshListeners, Each, vars, listenVars
<1>5. QED
  BY <1>1, <1>2, <1>3, <1>4 DEF Next, Listen, SessionOver

\* The two formats: what comes of them, and what they show.
LEMMA FormatLineFacts ==
    ASSUME FormatInv, NEW d \in Dut, FormatLine(d)
    PROVE  \E t \in Seq(Printed) :
             /\ Line(t) /\ toWrite' = [toWrite EXCEPT ![d] = t]
             /\ Plain(t) = Plain(pending[d]) \o JoinCRLF(Decoded(msg[d]))
<1>1. PICK c \in Chunk, b \in BOOLEAN, p \in Seq(Printed) :
        /\ c = msg[d] /\ b = shallAddPrefix[d] /\ p = pending[d]
        /\ Decoded(c) # <<>> /\ Opens(p, b)
  BY DEF FormatInv, FormatLine, HandIsLogged, PendingIsOpen, TextType, PipelineInv, ChunkTypeOK
<1>2. /\ EndsLine(Text(c, b))
      /\ toWrite' = [toWrite EXCEPT ![d] = p \o PrefixLines(Front(Text(c, b))) \o <<NL>>]
  BY <1>1 DEF FormatLine
<1>3. /\ Line(p \o PrefixLines(Front(Text(c, b))) \o <<NL>>)
      /\ Plain(p \o PrefixLines(Front(Text(c, b))) \o <<NL>>) = Plain(p) \o JoinCRLF(Decoded(c))
  BY <1>1, <1>2, LineFormatted
<1>4. QED
  BY <1>1, <1>2, <1>3 DEF Line

\* And a part of a line stays pending.
LEMMA FormatPartFacts ==
    ASSUME FormatInv, NEW d \in Dut, FormatPart(d)
    PROVE  \E t \in Seq(Printed) :
             /\ OpenText(t) /\ pending' = [pending EXCEPT ![d] = t]
             /\ Plain(t) = Plain(pending[d]) \o JoinCRLF(Decoded(msg[d]))
<1>1. PICK c \in Chunk, b \in BOOLEAN, p \in Seq(Printed) :
        /\ c = msg[d] /\ b = shallAddPrefix[d] /\ p = pending[d]
        /\ Decoded(c) # <<>> /\ Opens(p, b)
  BY DEF FormatInv, FormatPart, HandIsLogged, PendingIsOpen, TextType, PipelineInv, ChunkTypeOK
<1>2. pending' = [pending EXCEPT ![d] = p \o PrefixLines(Text(c, b))]
  BY <1>1 DEF FormatPart, FormatInv, TextType
<1>3. /\ OpenText(p \o PrefixLines(Text(c, b)))
      /\ Plain(p \o PrefixLines(Text(c, b))) = Plain(p) \o JoinCRLF(Decoded(c))
  BY <1>1, PartFormatted
<1>4. QED
  BY <1>1, <1>2, <1>3 DEF OpenText

\* The pieces Write makes of what it writes.
LEMMA WriteFacts ==
    ASSUME FormatInv, NEW d \in Dut, Write(d)
    PROVE  \E h \in Seq(Printed), r \in Seq(Printed) :
             /\ toWrite[d] = h \o r
             /\ toWrite' = [toWrite EXCEPT ![d] = r]
             /\ stdout' = stdout \o Marked(<<test, d>>, h)
<1>1. PICK n \in 1..Len(toWrite[d]) :
         /\ stdout' = stdout \o [i \in 1..n |-> [by |-> <<test, d>>, ch |-> toWrite[d][i]]]
         /\ toWrite' = [toWrite EXCEPT ![d] = SubSeq(@, n + 1, Len(@))]
  BY DEF Write
<1>2. PICK t \in Seq(Printed) : t = toWrite[d]
  BY DEF FormatInv, TextType
<1>3. n \in 0..Len(t)
  BY <1>1, <1>2
<1>4. /\ SubSeq(t, 1, n) \in Seq(Printed) /\ SubSeq(t, n + 1, Len(t)) \in Seq(Printed)
      /\ t = SubSeq(t, 1, n) \o SubSeq(t, n + 1, Len(t)) /\ Len(SubSeq(t, 1, n)) = n
  BY <1>3, SplitAt
<1>5. PICK h \in Seq(Printed), r \in Seq(Printed) :
        h = SubSeq(t, 1, n) /\ r = SubSeq(t, n + 1, Len(t)) /\ t = h \o r /\ Len(h) = n
  BY <1>4
<1>6. \A i \in 1..n : h[i] = t[i]
  BY <1>5
<1>7. [i \in 1..n |-> [by |-> <<test, d>>, ch |-> t[i]]] = Marked(<<test, d>>, h)
  BY <1>5, <1>6 DEF Marked
<1>8. stdout' = stdout \o Marked(<<test, d>>, h)
  BY <1>1, <1>2, <1>7
<1>9. toWrite' = [toWrite EXCEPT ![d] = r]
  BY <1>1, <1>2, <1>5 DEF FormatInv, TextType
<1>10. QED
  BY <1>2, <1>5, <1>8, <1>9

\* A listener is a pair of test case and DUT.
LEMMA WriterType ==
    ASSUME PipelineInv, NEW d \in Dut
    PROVE  <<test, d>> \in (1..MaxTests) \X Dut
  BY DEF PipelineInv, ChunkTypeOK

\* FormatLine and FormatPart keep the pending text open, Release empties it.
LEMMA StepKeepsFormat ==
    ASSUME FormatInv, [Next]_vars
    PROVE  TextType' /\ PendingIsOpen'
<1> DEFINE Goal == TextType' /\ PendingIsOpen'
<1>0. TextType /\ PendingIsOpen /\ ChunkTypeOK
  BY DEF FormatInv, PipelineInv
<1>1. ASSUME NEW d \in Dut, FormatLine(d)  PROVE Goal
  <2>1. PICK t \in Seq(Printed) : Line(t) /\ toWrite' = [toWrite EXCEPT ![d] = t]
    BY <1>1, FormatLineFacts
  <2>2. TextType'
    BY <1>0, <1>1, <2>1 DEF TextType, FormatLine
  <2>3. PendingIsOpen'
    BY <1>0, <1>1, <2>1 DEF TextType, PendingIsOpen, FormatLine, ChunkTypeOK
  <2>4. QED
    BY <2>2, <2>3
<1>2. ASSUME NEW d \in Dut, FormatPart(d)  PROVE Goal
  <2>1. PICK t \in Seq(Printed) : OpenText(t) /\ pending' = [pending EXCEPT ![d] = t]
    BY <1>2, FormatPartFacts
  <2>2. TextType'
    BY <1>0, <1>2, <2>1 DEF TextType, FormatPart
  <2>3. PendingIsOpen'
    BY <1>0, <1>2, <2>1 DEF TextType, PendingIsOpen, FormatPart, ChunkTypeOK, Opens
  <2>4. QED
    BY <2>2, <2>3
<1>3. ASSUME NEW d \in Dut, Write(d)  PROVE Goal
  <2>1. PICK h \in Seq(Printed), r \in Seq(Printed) :
             /\ toWrite' = [toWrite EXCEPT ![d] = r]
             /\ stdout' = stdout \o Marked(<<test, d>>, h)
    BY <1>3, WriteFacts
  <2>2. PICK s \in Seq(Record), m \in Seq(Record) : s = stdout /\ m = Marked(<<test, d>>, h)
    BY <1>0, WriterType, MarkedType DEF TextType, FormatInv
  <2>3. s \o m \in Seq(Record)
    BY ConcatProperties
  <2>4. TextType'
    BY <1>0, <1>3, <2>1, <2>2, <2>3 DEF TextType, Write
  <2>5. PendingIsOpen'
    BY <1>0, <1>3, <2>1 DEF TextType, PendingIsOpen, Write, ChunkTypeOK
  <2>6. QED
    BY <2>4, <2>5
<1>4. ASSUME NEW d \in Dut, Release(d)  PROVE Goal
  <2>1. <<>> \in Seq(Printed)
    OBVIOUS
  <2>2. TextType'
    BY <1>0, <1>4, <2>1 DEF TextType, Release
  <2>3. PendingIsOpen'
    BY <1>0, <1>4 DEF TextType, PendingIsOpen, Release, ChunkTypeOK, Opens
  <2>4. QED
    BY <2>2, <2>3
<1>5. ASSUME NEW d \in Dut, Get(d) \/ AppendToLog(d) \/ Acquire(d) \/ Kill(d)  PROVE Goal
  <2>1. UNCHANGED <<pending, toWrite, stdout, shallAddPrefix>>
    BY <1>5 DEF Get, AppendToLog, Acquire, Kill
  <2>2. PendingIsOpen'
    BY <1>0, <1>5, <2>1 DEF Get, AppendToLog, Acquire, Kill, PendingIsOpen, ChunkTypeOK
  <2>3. QED
    BY <1>0, <2>1, <2>2 DEF TextType
<1>6. ASSUME NEW d \in Dut, Expect(d) \/ \E c \in Chunk : Put(d, c)  PROVE Goal
  <2>1. UNCHANGED <<pc, pending, toWrite, stdout, shallAddPrefix>>
    BY <1>6 DEF Expect, ExpectCall, ExpectRead, ExpectMatch, ExpectTimeout, Put, listenVars
  <2>2. QED
    BY <1>0, <2>1 DEF TextType, PendingIsOpen
<1>7. ASSUME CloseDaemons \/ UNCHANGED vars  PROVE Goal
  <2>1. UNCHANGED <<pc, pending, toWrite, stdout, shallAddPrefix>>
    BY <1>7 DEF CloseDaemons, vars, listenVars
  <2>2. QED
    BY <1>0, <2>1 DEF TextType, PendingIsOpen
<1>8. ASSUME NextTest  PROVE Goal
  <2>1. <<>> \in Seq(Printed)
    OBVIOUS
  <2>2. TextType'
    BY <1>0, <1>8, <2>1 DEF TextType, NextTest, FreshListeners, Each
  <2>3. PendingIsOpen'
    BY <1>8 DEF PendingIsOpen, NextTest, FreshListeners, Each, Opens
  <2>4. QED
    BY <2>2, <2>3
<1>9. Goal
  BY <1>1, <1>2, <1>3, <1>4, <1>5, <1>6, <1>7, <1>8 DEF Next, Listen, SessionOver
<1>10. QED
  BY <1>9

-----------------------------------------------------------------------------
(* The lines on the terminal. *)

\* A piece written changes nothing of what the terminal will be.
LEMMA WriteFinishes ==
    ASSUME FormatInv, NEW d \in Dut, Write(d)
    PROVE  /\ \E m \in Seq(Record) : stdout' = stdout \o m
           /\ \E x \in Seq(Record) : Finished(d) = stdout' \o x
           /\ Finished(d)' = Finished(d)
<1>1. PICK h \in Seq(Printed), r \in Seq(Printed) :
             /\ toWrite[d] = h \o r
             /\ toWrite' = [toWrite EXCEPT ![d] = r]
             /\ stdout' = stdout \o Marked(<<test, d>>, h)
  BY WriteFacts
<1>2. PICK w \in (1..MaxTests) \X Dut : w = <<test, d>>
  BY WriterType DEF FormatInv
<1>3. PICK s \in Seq(Record) : s = stdout
  BY DEF FormatInv, TextType
<1>4. PICK m \in Seq(Record) : m = Marked(w, h)
  BY MarkedType
<1>5. PICK x \in Seq(Record) : x = Marked(w, r)
  BY MarkedType
<1>6. Marked(w, h \o r) = m \o x
  BY <1>4, <1>5, MarkedConcat
<1>7. (s \o m) \o x = s \o (m \o x)
  BY ConcatAssociative
<1>8. test' = test /\ toWrite'[d] = r
  BY <1>1 DEF Write, FormatInv, TextType
<1>9. Finished(d) = s \o (m \o x)
  BY <1>1, <1>2, <1>3, <1>6 DEF Finished
<1>10. Finished(d)' = (s \o m) \o x
  BY <1>1, <1>2, <1>3, <1>4, <1>5, <1>8 DEF Finished
<1>11. QED
  BY <1>1, <1>2, <1>3, <1>4, <1>5, <1>7, <1>9, <1>10

\* Acquire promises whole lines, Write keeps the promise, Release has fulfilled it.
LEMMA StepKeepsLines ==
    ASSUME FormatInv, LineInv, [Next]_vars
    PROVE  LineInv'
<1>0. /\ Whole(stdout) /\ (lock = Free => AtLineStart(stdout))
      /\ \A d \in Dut : pc[d] = "write" => Whole(Finished(d)) /\ AtLineStart(Finished(d))
      /\ ChunkTypeOK /\ WriterHoldsLock /\ TextType
  BY DEF FormatInv, PipelineInv, LineInv
<1>1. ASSUME NEW d \in Dut, Write(d)  PROVE LineInv'
  <2>1. PICK m \in Seq(Record) : stdout' = stdout \o m
    BY <1>1, WriteFinishes
  <2>2. PICK x \in Seq(Record) : Finished(d) = stdout' \o x
    BY <1>1, WriteFinishes
  <2>3. Finished(d)' = Finished(d)
    BY <1>1, WriteFinishes
  <2>4. pc[d] = "write" /\ lock = <<test, d>> /\ lock' = lock /\ test' = test /\ pc' = pc
    BY <1>0, <1>1 DEF Write, WriterHoldsLock
  <2>5. Whole(Finished(d)) /\ AtLineStart(Finished(d))
    BY <1>0, <2>4
  <2>6. PICK s \in Seq(Record) : s = stdout'
    BY <1>0, <2>1, ConcatProperties DEF TextType
  <2>7. Whole(s)
    BY <2>2, <2>5, <2>6, WholePrefix
  <2>8. lock # Free
    BY <2>4, WriterType, FreeAssumption DEF FormatInv
  <2>9. \A e \in Dut : pc'[e] = "write" => e = d
    BY <1>0, <2>4 DEF WriterHoldsLock
  <2>10. QED
    BY <2>3, <2>4, <2>5, <2>6, <2>7, <2>8, <2>9 DEF LineInv
<1>2. ASSUME NEW d \in Dut, Acquire(d)  PROVE LineInv'
  <2>1. /\ lock = Free /\ stdout' = stdout /\ toWrite' = toWrite /\ test' = test
        /\ lock' = <<test, d>> /\ pc[d] = "acquire"
    BY <1>2 DEF Acquire
  <2>2. lock' # Free
    BY <2>1, WriterType, FreeAssumption DEF FormatInv
  <2>3. \A e \in Dut : pc'[e] = "write" => e = d
    <3>1. \A e \in Dut : pc[e] # "write"
      BY <1>0, <2>1, FreeAssumption, WriterType DEF WriterHoldsLock, FormatInv
    <3>2. QED
      BY <1>2, <3>1 DEF Acquire
  <2>4. Line(toWrite[d])
    BY <2>1 DEF FormatInv, PendingIsOpen
  <2>5. PICK w \in (1..MaxTests) \X Dut, s \in Seq(Record), t \in Seq(Printed) :
          w = <<test, d>> /\ s = stdout /\ t = toWrite[d]
    BY <1>0, WriterType DEF FormatInv, TextType
  <2>6. Whole(s \o Marked(w, t)) /\ AtLineStart(s \o Marked(w, t))
    BY <1>0, <2>1, <2>4, <2>5, WholeLine
  <2>7. Finished(d)' = s \o Marked(w, t)
    BY <2>1, <2>5 DEF Finished
  <2>8. QED
    BY <1>0, <2>1, <2>2, <2>3, <2>6, <2>7 DEF LineInv
<1>3. ASSUME NEW d \in Dut, Release(d)  PROVE LineInv'
  <2>1. /\ pc[d] = "write" /\ toWrite[d] = <<>> /\ stdout' = stdout /\ test' = test
    BY <1>3 DEF Release
  <2>2. \A e \in Dut : pc'[e] # "write"
    <3>1. \A e \in Dut : pc[e] = "write" => e = d
      BY <1>0, <2>1 DEF WriterHoldsLock
    <3>2. QED
      BY <1>0, <1>3, <3>1 DEF Release, ChunkTypeOK
  <2>3. Marked(<<test, d>>, <<>>) = <<>>
    BY DEF Marked
  <2>4. Finished(d) = stdout
    <3>1. PICK s \in Seq(Record) : s = stdout
      BY <1>0 DEF TextType
    <3>2. s \o <<>> = s
      OBVIOUS
    <3>3. QED
      BY <2>1, <2>3, <3>1, <3>2 DEF Finished
  <2>5. AtLineStart(stdout)
    BY <1>0, <2>1, <2>4
  <2>6. QED
    BY <1>0, <2>1, <2>2, <2>5 DEF LineInv
<1>4. ASSUME NEW d \in Dut, Get(d) \/ AppendToLog(d) \/ FormatLine(d) \/ FormatPart(d) \/ Kill(d)
      PROVE  LineInv'
  <2>1. UNCHANGED <<stdout, lock, test>>
    BY <1>4 DEF Get, AppendToLog, FormatLine, FormatPart, Kill
  <2>2. ASSUME NEW e \in Dut, pc'[e] = "write"
        PROVE  pc[e] = "write" /\ toWrite'[e] = toWrite[e]
    BY <1>0, <1>4, <2>2 DEF Get, AppendToLog, FormatLine, FormatPart, Kill, ChunkTypeOK, TextType
  <2>3. \A e \in Dut : pc'[e] = "write" => Finished(e)' = Finished(e) /\ pc[e] = "write"
    BY <2>1, <2>2 DEF Finished
  <2>4. QED
    BY <1>0, <2>1, <2>3 DEF LineInv
<1>5. ASSUME UNCHANGED <<stdout, lock, test, pc, toWrite>>  PROVE LineInv'
  <2>1. \A e \in Dut : Finished(e)' = Finished(e)
    BY <1>5 DEF Finished
  <2>2. QED
    BY <1>0, <1>5, <2>1 DEF LineInv
<1>6. ASSUME NEW d \in Dut, Expect(d) \/ \E c \in Chunk : Put(d, c)  PROVE LineInv'
  <2>1. UNCHANGED <<stdout, lock, test, pc, toWrite>>
    BY <1>6 DEF Expect, ExpectCall, ExpectRead, ExpectMatch, ExpectTimeout, Put, listenVars
  <2>2. QED
    BY <1>5, <2>1
<1>7. ASSUME CloseDaemons \/ UNCHANGED vars  PROVE LineInv'
  <2>1. UNCHANGED <<stdout, lock, test, pc, toWrite>>
    BY <1>7 DEF CloseDaemons, vars, listenVars
  <2>2. QED
    BY <1>5, <2>1
<1>8. ASSUME NextTest  PROVE LineInv'
  <2>1. UNCHANGED <<stdout, lock>> /\ \A e \in Dut : pc'[e] = "get"
    BY <1>8 DEF NextTest, FreshListeners, Each
  <2>2. QED
    BY <1>0, <2>1 DEF LineInv
<1>9. QED
  BY <1>1, <1>2, <1>3, <1>4, <1>6, <1>7, <1>8 DEF Next, Listen, SessionOver

\* This is the property of the runs.
LEMMA WholeIsWhole ==
    ASSUME TextType, LineInv
    PROVE  LinesAreWhole
<1>1. Whole(stdout)
  BY DEF LineInv
<1>2. DOMAIN stdout = 1..Len(stdout)
  BY DEF TextType
<1>3. \A i \in 1..Len(stdout) : LineStart(i) <=> Begins(stdout, i)
  BY Zenon DEF LineStart, Begins
<1>4. \A i \in 1..Len(stdout) :
        /\ stdout[i].ch = Prefix <=> Begins(stdout, i)
        /\ Begins(stdout, i) \/ stdout[i].by = stdout[i - 1].by
  BY <1>1, Zenon DEF Whole
<1>5. QED
  BY <1>2, <1>3, <1>4 DEF LinesAreWhole

-----------------------------------------------------------------------------
(* What the terminal shows of a listener. *)

\* What a DUT's own terminal shows of marked text.
LEMMA OwnOfMarked ==
    ASSUME NEW w \in (1..MaxTests) \X Dut, NEW t \in Seq(Printed)
    PROVE  Mapped(Marked(w, t), Own(w)) = Plain(t)
<1> DEFINE m == Marked(w, t)
<1>1. /\ m \in Seq(Record) /\ Len(m) = Len(t)
      /\ \A i \in 1..Len(t) : m[i] = [by |-> w, ch |-> t[i]]
  BY MarkedType
<1>2. DOMAIN m = DOMAIN t /\ DOMAIN t = 1..Len(t)
  BY <1>1
<1>3. \A i \in DOMAIN t : Own(w)[m[i]] = Strip[t[i]]
  <2>1. ASSUME NEW i \in DOMAIN t PROVE Own(w)[m[i]] = Strip[t[i]]
    <3>1. PICK r \in Record : r = m[i]
      BY <1>1, <1>2
    <3>2. r.by = w /\ r.ch = t[i] /\ t[i] \in Printed
      BY <1>1, <1>2, <3>1
    <3>3. QED
      BY <3>1, <3>2 DEF Own, Strip
  <2>2. QED
    BY <2>1
<1>4. [i \in DOMAIN m |-> Own(w)[m[i]]] = [i \in DOMAIN t |-> Strip[t[i]]]
  BY <1>2, <1>3
<1>5. QED
  BY <1>4, PlainIs, Zenon DEF Mapped

\* Another terminal shows nothing of it.
LEMMA OthersOfMarked ==
    ASSUME NEW w \in (1..MaxTests) \X Dut, NEW v, v # w, NEW t \in Seq(Printed)
    PROVE  Mapped(Marked(w, t), Own(v)) = <<>>
<1> DEFINE T == {r \in Record : r.by = w}
<1>1. /\ Marked(w, t) \in Seq(Record) /\ Len(Marked(w, t)) = Len(t)
      /\ \A i \in 1..Len(t) : Marked(w, t)[i] = [by |-> w, ch |-> t[i]]
  BY MarkedType
<1>2. Marked(w, t) \in Seq(T)
  <2>1. PICK m \in Seq(Record) : m = Marked(w, t)
    BY <1>1
  <2>2. \A i \in 1..Len(m) : m[i] \in T
    <3>1. ASSUME NEW i \in 1..Len(m) PROVE m[i] \in T
      <4>1. m[i] = [by |-> w, ch |-> t[i]]
        BY <1>1, <2>1
      <4>2. m[i] \in Record
        OBVIOUS
      <4>3. QED
        BY <4>1, <4>2
    <3>2. QED
      BY <3>1
  <2> HIDE DEF T
  <2>3. m \in Seq(T)
    BY <2>2
  <2>4. QED
    BY <2>1, <2>3
<1>3. \A r \in T : Own(v)[r] = <<>>
  BY DEF Own
<1>4. T \subseteq Record
  OBVIOUS
<1> HIDE DEF T
<1>5. Own(v) \in [Record -> Seq(Printed)]
  BY OwnType
<1>6. PICK g \in [Record -> Seq(Printed)] : g = Own(v)
  BY <1>5
<1>7. \A r \in T : g[r] = <<>>
  BY <1>3, <1>6
<1>8. PICK m \in Seq(T) : m = Marked(w, t)
  BY <1>2
<1>9. Mapped(m, g) = <<>>
  BY <1>4, <1>7, MapToNothing
<1>10. QED
  BY <1>6, <1>8, <1>9

\* What the terminal s shows of listener w.
Shown(s, w) ==
    FlattenSeq([i \in DOMAIN s |->
                  IF s[i].by = w /\ s[i].ch # Prefix THEN <<s[i].ch>> ELSE <<>>])

\* It is what Terminal is, in this state and the next.
LEMMA TerminalIsShown == \A d : Terminal(d) = Shown(stdout, <<test, d>>)
  BY Zenon DEF Terminal, Shown

LEMMA NextTerminalIsShown == \A d : Terminal(d)' = Shown(stdout', <<test', d>>)
  BY Zenon DEF Terminal, Shown

\* It is a replacement.
LEMMA ShownIs ==
    ASSUME NEW s \in Seq(Record), NEW w
    PROVE  Shown(s, w) = Mapped(s, Own(w)) /\ Shown(s, w) \in Seq(Printed)
<1>1. \A i \in DOMAIN s : s[i] \in Record
  OBVIOUS
<1>2. [i \in DOMAIN s |-> IF s[i].by = w /\ s[i].ch # Prefix THEN <<s[i].ch>> ELSE <<>>]
        = [i \in DOMAIN s |-> Own(w)[s[i]]]
  BY <1>1 DEF Own
<1>3. Shown(s, w) = Mapped(s, Own(w))
  BY <1>2, Zenon DEF Shown, Mapped
<1>4. Mapped(s, Own(w)) \in Seq(Printed)
  BY OwnType, MapType
<1>5. QED
  BY <1>3, <1>4

\* What is printed is shown after what was there.
LEMMA ShownGrows ==
    ASSUME NEW s \in Seq(Record), NEW m \in Seq(Record), NEW w
    PROVE  Shown(s \o m, w) = Shown(s, w) \o Shown(m, w)
<1>1. Own(w) \in [Record -> Seq(Printed)]
  BY OwnType
<1>2. Mapped(s \o m, Own(w)) = Mapped(s, Own(w)) \o Mapped(m, Own(w))
  BY <1>1, MapConcat
<1>3. s \o m \in Seq(Record)
  BY ConcatProperties
<1>4. Shown(s \o m, w) = Mapped(s \o m, Own(w))
  BY <1>3, ShownIs
<1>5. Shown(s, w) = Mapped(s, Own(w)) /\ Shown(m, w) = Mapped(m, Own(w))
  BY ShownIs
<1>6. QED
  BY <1>2, <1>4, <1>5

\* Text is shown on the terminal of the listener that prints it, and on no other.
LEMMA ShownOfMarked ==
    ASSUME NEW w \in (1..MaxTests) \X Dut, NEW t \in Seq(Printed), NEW v
    PROVE  Shown(Marked(w, t), v) = IF v = w THEN Plain(t) ELSE <<>>
<1>1. PICK m \in Seq(Record) : m = Marked(w, t)
  BY MarkedType
<1>2. Shown(m, v) = Mapped(m, Own(v))
  BY ShownIs
<1>3. CASE v = w
  BY <1>1, <1>2, <1>3, OwnOfMarked
<1>4. CASE v # w
  BY <1>1, <1>2, <1>4, OthersOfMarked
<1>5. QED
  BY <1>3, <1>4

\* A listener of a later test case has shown nothing yet.
LEMMA NothingShown ==
    ASSUME NEW s \in Seq(Record), NEW w, \A i \in 1..Len(s) : s[i].by # w
    PROVE  Shown(s, w) = <<>>
<1> DEFINE T == {r \in Record : r.by # w}
<1>1. PICK m \in Seq(T) : m = s
  <2>1. \A i \in 1..Len(s) : s[i] \in T
    OBVIOUS
  <2> HIDE DEF T
  <2>2. s \in Seq(T)
    BY <2>1
  <2>3. QED
    BY <2>2
<1>2. \A r \in T : Own(w)[r] = <<>>
  BY DEF Own
<1>3. T \subseteq Record
  OBVIOUS
<1> HIDE DEF T
<1>4. PICK g \in [Record -> Seq(Printed)] : g = Own(w)
  BY OwnType
<1>5. \A r \in T : g[r] = <<>>
  BY <1>2, <1>4
<1>6. Mapped(m, g) = <<>>
  BY <1>3, <1>5, MapToNothing
<1>7. QED
  BY <1>1, <1>4, <1>6, ShownIs

\* A chunk is shown as text.
LEMMA CleanType == Clean \in [Chunk -> Seq(Char)]
<1>1. \A c \in Chunk : JoinCRLF(Decoded(c)) \in Seq(Char)
  <2>1. ASSUME NEW c \in Chunk PROVE JoinCRLF(Decoded(c)) \in Seq(Char)
    <3>1. PICK v \in Seq(Char) : v = Decoded(c)
      BY DecodedType
    <3>2. JoinCRLF(v) \in Seq(Char)
      BY JoinType
    <3>3. QED
      BY <3>1, <3>2
  <2>2. QED
    BY <2>1
<1>2. QED
  BY <1>1 DEF Clean

\* A chunk more in the log is its text more to show.
LEMMA PlainLogGrows ==
    ASSUME NEW s \in Seq(Chunk), NEW c \in Chunk
    PROVE  /\ PlainLog(Append(s, c)) = PlainLog(s) \o JoinCRLF(Decoded(c))
           /\ PlainLog(s) \in Seq(Char) /\ JoinCRLF(Decoded(c)) \in Seq(Char)
<1>1. Mapped(Append(s, c), Clean) = Mapped(s, Clean) \o Clean[c]
  BY CleanType, MapAppend
<1>2. Append(s, c) \in Seq(Chunk)
  BY AppendProperties
<1>3. PlainLog(Append(s, c)) = Mapped(Append(s, c), Clean) /\ PlainLog(s) = Mapped(s, Clean)
  BY <1>2, PlainLogIs
<1>4. Clean[c] = JoinCRLF(Decoded(c))
  BY DEF Clean
<1>5. Mapped(s, Clean) \in Seq(Char) /\ Clean[c] \in Seq(Char)
  BY CleanType, MapType
<1>6. QED
  BY <1>1, <1>3, <1>4, <1>5

\* An empty log and an empty text show nothing.
LEMMA PlainLogOfNothing == PlainLog(<<>>) = <<>>
<1>1. Mapped(<<>>, Clean) = <<>> /\ <<>> \in Seq(Chunk)
  BY MapEmpty
<1>2. QED
  BY <1>1, PlainLogIs

LEMMA PlainOfNothing == Plain(<<>>) = <<>>
<1>1. Mapped(<<>>, Strip) = <<>> /\ <<>> \in Seq(Printed)
  BY MapEmpty
<1>2. QED
  BY <1>1, PlainIs

-----------------------------------------------------------------------------
(* What is printed is what is logged. *)

\* Nobody has printed for a test case that is to come.
NoLaterTest == \A i \in 1..Len(stdout) : stdout[i].by[1] <= test

\* The inductive invariant of the terminal.
TextInv == FormatInv /\ LineInv /\ NoLaterTest /\ PrintedIsLogged

\* Write prints for the running test case; NextTest only counts on.
LEMMA StepKeepsTests ==
    ASSUME FormatInv, NoLaterTest, [Next]_vars
    PROVE  NoLaterTest'
<1>0. stdout \in Seq(Record) /\ test \in Nat
  BY DEF FormatInv, TextType, PipelineInv, ChunkTypeOK
<1>1. ASSUME NEW d \in Dut, Write(d)  PROVE NoLaterTest'
  <2>1. PICK h \in Seq(Printed) : stdout' = stdout \o Marked(<<test, d>>, h)
    BY <1>1, WriteFacts
  <2>2. test' = test
    BY <1>1 DEF Write
  <2>3. PICK w \in (1..MaxTests) \X Dut : w = <<test, d>>
    BY WriterType DEF FormatInv
  <2>4. PICK m \in Seq(Record) :
          m = Marked(w, h) /\ \A i \in 1..Len(m) : m[i].by = w
    <3>1. /\ Marked(w, h) \in Seq(Record) /\ Len(Marked(w, h)) = Len(h)
          /\ \A i \in 1..Len(h) : Marked(w, h)[i] = [by |-> w, ch |-> h[i]]
      BY MarkedType
    <3>2. PICK m \in Seq(Record) : m = Marked(w, h)
      BY <3>1
    <3>3. \A i \in 1..Len(m) : m[i].by = w
      <4>1. ASSUME NEW i \in 1..Len(m) PROVE m[i].by = w
        <5>1. i \in 1..Len(h) /\ m[i] = [by |-> w, ch |-> h[i]]
          BY <3>1, <3>2
        <5>2. QED
          BY <5>1
      <4>2. QED
        BY <4>1
    <3>4. QED
      BY <3>2, <3>3
  <2>5. PICK s \in Seq(Record) : s = stdout
    BY <1>0
  <2>6. /\ Len(s \o m) = Len(s) + Len(m)
        /\ \A i \in 1..Len(s) : (s \o m)[i] = s[i]
        /\ \A i \in 1..Len(m) : (s \o m)[Len(s) + i] = m[i]
    BY RecordsConcat, Zenon
  <2>7. ASSUME NEW i \in 1..Len(s \o m)
        PROVE  (s \o m)[i].by[1] <= test
    <3>1. CASE i \in 1..Len(s)
      BY <2>5, <2>6, <3>1 DEF NoLaterTest
    <3>2. CASE i \notin 1..Len(s)
      <4>1. PICK j \in 1..Len(m) : i = Len(s) + j
        <5>1. PICK k \in Nat, n \in Nat : k = Len(s) /\ n = Len(m)
          BY LenProperties
        <5>2. i - k \in 1..n /\ i = k + (i - k)
          BY <2>6, <3>2, <5>1
        <5>3. QED
          BY <5>1, <5>2
      <4>2. (s \o m)[i].by = <<test, d>>
        BY <2>3, <2>4, <2>6, <4>1
      <4>3. QED
        BY <1>0, <4>2
    <3>3. QED
      BY <3>1, <3>2
  <2>8. QED
    BY <2>1, <2>2, <2>3, <2>4, <2>5, <2>7 DEF NoLaterTest
<1>2. ASSUME NextTest  PROVE NoLaterTest'
  <2>1. stdout' = stdout /\ test' = test + 1
    BY <1>2 DEF NextTest
  <2>2. \A i \in 1..Len(stdout) : stdout[i].by[1] \in Int
    <3>1. ASSUME NEW i \in 1..Len(stdout) PROVE stdout[i].by[1] \in Int
      <4>1. stdout[i] \in Record
        BY <1>0
      <4>2. stdout[i].by \in (1..MaxTests) \X Dut
        BY <4>1 DEF Record
      <4>3. QED
        BY <4>2
    <3>2. QED
      BY <3>1
  <2>3. QED
    BY <1>0, <2>1, <2>2 DEF NoLaterTest
<1>3. ASSUME UNCHANGED <<stdout, test>>  PROVE NoLaterTest'
  BY <1>3 DEF NoLaterTest
<1>4. (\E d \in Dut : Write(d)) \/ NextTest \/ UNCHANGED <<stdout, test>>
  BY DEF Next, Listen, Expect, Put, Get, AppendToLog, FormatLine, FormatPart, Acquire, Release,
         ExpectCall, ExpectRead, ExpectMatch, ExpectTimeout, CloseDaemons, Kill, SessionOver, vars
<1>5. QED
  BY <1>1, <1>2, <1>3, <1>4

\* What the terminal should show, or keep back, of the log.
Done(d) == IF pc[d] = "format" THEN Front(log[d]) ELSE log[d]

\* PrintedIsLogged, with this name, in this state and the next.
LEMMA PrintedIs ==
    PrintedIsLogged <=>
      \A d \in Dut : Alive(d) => Terminal(d) \o Plain(Held(d)) = PlainLog(Done(d))
  BY DEF PrintedIsLogged, Done

LEMMA NextPrintedIs ==
    (\A d \in Dut : Alive(d)' => Terminal(d)' \o Plain(Held(d)') = PlainLog(Done(d)'))
      => PrintedIsLogged'
  BY DEF PrintedIsLogged, Done, Plain, PlainLog

\* A chunk that has been formatted shows what the logfile has of it.
LEMMA FormattedShows ==
    ASSUME FormatInv, PrintedIsLogged, NEW d \in Dut, pc[d] = "format",
           NEW t \in Seq(Printed), Plain(t) = Plain(pending[d]) \o JoinCRLF(Decoded(msg[d]))
    PROVE  Terminal(d) \o Plain(t) = PlainLog(log[d])
<1>1. PICK c \in Chunk, p \in Seq(Printed), l \in Seq(Chunk) :
        /\ c = msg[d] /\ p = pending[d] /\ l = log[d] /\ l # <<>> /\ l[Len(l)] = c
  BY DEF FormatInv, HandIsLogged, TextType, PipelineInv, ChunkTypeOK
<1>2. PICK f \in Seq(Chunk) : f = Front(l) /\ l = Append(f, c)
  <2>1. SubSeq(l, 1, Len(l) - 1) \in Seq(Chunk) /\ l = Append(SubSeq(l, 1, Len(l) - 1), l[Len(l)])
    BY <1>1, Shorter
  <2>2. QED
    BY <1>1, <2>1 DEF Front
<1>3. Terminal(d) \o Plain(p) = PlainLog(f)
  <2>1. Alive(d) /\ Held(d) = p /\ Done(d) = f
    BY <1>1, <1>2 DEF Alive, Held, Done
  <2>2. Terminal(d) \o Plain(Held(d)) = PlainLog(Done(d))
    BY <2>1, PrintedIs
  <2>3. QED
    BY <2>1, <2>2
<1>4. PlainLog(l) = PlainLog(f) \o JoinCRLF(Decoded(c)) /\ JoinCRLF(Decoded(c)) \in Seq(Char)
  BY <1>2, PlainLogGrows
<1>5. PICK j \in Seq(Printed) : j = JoinCRLF(Decoded(c))
  BY <1>4, CharsArePrinted
<1>6. PICK x \in Seq(Printed) : x = Plain(p)
  BY PlainType
<1>7. PICK z \in Seq(Printed) : z = Terminal(d)
  BY TerminalIsShown, ShownIs DEF FormatInv, TextType
<1>8. (z \o x) \o j = z \o (x \o j)
  BY PrintedAssociative, Zenon
<1>9. QED
  BY <1>1, <1>3, <1>4, <1>5, <1>6, <1>7, <1>8

\* Formatting moves text from the log to what is held, Write from there to the
\* terminal; no other step moves any.
LEMMA StepKeepsPrinted ==
    ASSUME TextInv, [Next]_vars
    PROVE  PrintedIsLogged'
<1>0. /\ FormatInv /\ PipelineInv /\ ChunkTypeOK /\ TextType /\ NoLaterTest /\ PrintedIsLogged
      /\ \A d \in Dut : Alive(d) => Terminal(d) \o Plain(Held(d)) = PlainLog(Done(d))
  BY PrintedIs DEF TextInv, FormatInv, PipelineInv
<1>1. ASSUME NEW d \in Dut, Write(d)  PROVE PrintedIsLogged'
  <2>1. PICK h \in Seq(Printed), r \in Seq(Printed) :
             /\ toWrite[d] = h \o r
             /\ toWrite' = [toWrite EXCEPT ![d] = r]
             /\ stdout' = stdout \o Marked(<<test, d>>, h)
    BY <1>0, <1>1, WriteFacts
  <2>2. PICK w \in (1..MaxTests) \X Dut : w = <<test, d>>
    BY <1>0, WriterType
  <2>3. PICK s \in Seq(Record) : s = stdout
    BY <1>0 DEF TextType
  <2>4. PICK m \in Seq(Record) : m = Marked(w, h)
    BY MarkedType
  <2>5. /\ test' = test /\ pc' = pc /\ pending' = pending /\ log' = log /\ pc[d] = "write"
        /\ toWrite'[d] = r /\ \A e \in Dut : e # d => toWrite'[e] = toWrite[e]
    BY <1>0, <1>1, <2>1 DEF Write, TextType
  <2>6. ASSUME NEW e \in Dut, Alive(e)'
        PROVE  Terminal(e)' \o Plain(Held(e)') = PlainLog(Done(e)')
    <3>1. Alive(e) /\ Done(e)' = Done(e)
      BY <2>5, <2>6 DEF Alive, Done
    <3>2. Terminal(e) \o Plain(Held(e)) = PlainLog(Done(e))
      BY <1>0, <3>1
    <3>3. PICK v : v = <<test, e>>
      OBVIOUS
    <3>4. Terminal(e) = Shown(s, v) /\ Terminal(e)' = Shown(s \o m, v)
      BY <2>1, <2>2, <2>3, <2>4, <2>5, <3>3, TerminalIsShown, NextTerminalIsShown
    <3>5. Shown(s \o m, v) = Shown(s, v) \o Shown(m, v)
      BY ShownGrows
    <3>6. PICK z \in Seq(Printed) : z = Shown(s, v)
      BY ShownIs
    <3>7. Shown(m, v) = IF v = w THEN Plain(h) ELSE <<>>
      BY <2>4, ShownOfMarked
    <3>8. CASE e # d
      <4>1. v # w /\ Held(e)' = Held(e)
        BY <2>2, <2>5, <3>3, <3>8 DEF Held
      <4>2. z \o <<>> = z
        OBVIOUS
      <4>3. QED
        BY <3>1, <3>2, <3>4, <3>5, <3>6, <3>7, <4>1, <4>2
    <3>9. CASE e = d
      <4>1. v = w /\ Held(d) = h \o r /\ Held(d)' = r
        BY <2>1, <2>2, <2>5, <3>3, <3>9 DEF Held
      <4>2. Plain(h \o r) = Plain(h) \o Plain(r)
        BY PlainConcat
      <4>3. PICK x \in Seq(Printed), y \in Seq(Printed) : x = Plain(h) /\ y = Plain(r)
        BY PlainType
      <4>4. (z \o x) \o y = z \o (x \o y)
        BY PrintedAssociative, Zenon
      <4>5. Terminal(d)' = z \o x
        BY <3>4, <3>5, <3>6, <3>7, <3>9, <4>1, <4>3
      <4>6. z \o (x \o y) = PlainLog(Done(d))
        BY <3>2, <3>4, <3>6, <3>9, <4>1, <4>2, <4>3
      <4>7. QED
        BY <3>1, <3>9, <4>1, <4>3, <4>4, <4>5, <4>6
    <3>10. QED
      BY <3>8, <3>9
  <2>7. QED
    BY <2>6, NextPrintedIs
<1>2. ASSUME NEW d \in Dut, AppendToLog(d)  PROVE PrintedIsLogged'
  <2>1. /\ UNCHANGED <<stdout, test, pending, toWrite>> /\ pc[d] = "append"
        /\ \A e \in Dut : e # d => pc'[e] = pc[e] /\ log'[e] = log[e]
    BY <1>0, <1>2 DEF AppendToLog, ChunkTypeOK
  <2>2. \A e \in Dut : Terminal(e)' = Terminal(e)
    BY <2>1, TerminalIsShown, NextTerminalIsShown
  <2>3. PICK c \in Chunk, l \in Seq(Chunk) : c = msg[d] /\ l = log[d]
    BY <1>0, <2>1 DEF PipelineInv, InHandIsChunk, ChunkTypeOK
  <2>4. log'[d] = Append(l, c) /\ pc'[d] = IF Decoded(c) = <<>> THEN "get" ELSE "format"
    BY <1>0, <1>2, <2>3 DEF AppendToLog, ChunkTypeOK
  <2>5. PlainLog(Done(d)') = PlainLog(l) /\ Held(d)' = pending[d]
    <3>1. CASE Decoded(c) = <<>>
      <4>1. pc'[d] = "get" /\ Done(d)' = Append(l, c)
        BY <2>4, <3>1 DEF Done
      <4>2. /\ PlainLog(Append(l, c)) = PlainLog(l) \o JoinCRLF(Decoded(c))
            /\ PlainLog(l) \in Seq(Char)
        BY PlainLogGrows
      <4>3. JoinCRLF(Decoded(c)) = <<>>
        BY <3>1, JoinEmpty
      <4>4. PICK x \in Seq(Char) : x = PlainLog(l)
        BY <4>2
      <4>5. x \o <<>> = x
        OBVIOUS
      <4>6. Held(d)' = pending[d]
        BY <2>1, <4>1 DEF Held
      <4>7. QED
        BY <4>1, <4>2, <4>3, <4>4, <4>5, <4>6
    <3>2. CASE Decoded(c) # <<>>
      <4>1. pc'[d] = "format"
        BY <2>4, <3>2
      <4>2. Front(Append(l, c)) = l
        BY DEF Front
      <4>3. QED
        BY <2>1, <2>4, <4>1, <4>2 DEF Done, Held
    <3>3. QED
      BY <3>1, <3>2
  <2>6. ASSUME NEW e \in Dut, Alive(e)'
        PROVE  Terminal(e)' \o Plain(Held(e)') = PlainLog(Done(e)')
    <3>1. CASE e # d
      BY <1>0, <2>1, <2>2, <2>6, <3>1 DEF Alive, Held, Done
    <3>2. CASE e = d
      <4>1. Alive(d) /\ Held(d) = pending[d] /\ Done(d) = l
        BY <2>1, <2>3 DEF Alive, Held, Done
      <4>2. QED
        BY <1>0, <2>2, <2>5, <3>2, <4>1
    <3>3. QED
      BY <3>1, <3>2
  <2>7. QED
    BY <2>6, NextPrintedIs
<1>3. ASSUME NEW d \in Dut, FormatLine(d)  PROVE PrintedIsLogged'
  <2>1. PICK t \in Seq(Printed) :
             /\ toWrite' = [toWrite EXCEPT ![d] = t]
             /\ Plain(t) = Plain(pending[d]) \o JoinCRLF(Decoded(msg[d]))
    BY <1>0, <1>3, FormatLineFacts
  <2>2. /\ UNCHANGED <<stdout, test, pending, log>> /\ pc[d] = "format"
        /\ \A e \in Dut : e # d => pc'[e] = pc[e] /\ toWrite'[e] = toWrite[e]
        /\ pc'[d] = "acquire" /\ toWrite'[d] = t
    BY <1>0, <1>3, <2>1 DEF FormatLine, ChunkTypeOK, TextType
  <2>3. \A e \in Dut : Terminal(e)' = Terminal(e)
    BY <2>2, TerminalIsShown, NextTerminalIsShown
  <2>4. Terminal(d) \o Plain(t) = PlainLog(log[d])
    BY <1>0, <2>1, <2>2, FormattedShows
  <2>5. ASSUME NEW e \in Dut, Alive(e)'
        PROVE  Terminal(e)' \o Plain(Held(e)') = PlainLog(Done(e)')
    <3>1. CASE e # d
      BY <1>0, <2>2, <2>3, <2>5, <3>1 DEF Alive, Held, Done
    <3>2. CASE e = d
      <4>1. Held(d)' = t /\ Done(d)' = log[d]
        BY <2>2 DEF Held, Done
      <4>2. QED
        BY <2>3, <2>4, <3>2, <4>1
    <3>3. QED
      BY <3>1, <3>2
  <2>6. QED
    BY <2>5, NextPrintedIs
<1>4. ASSUME NEW d \in Dut, FormatPart(d)  PROVE PrintedIsLogged'
  <2>1. PICK t \in Seq(Printed) :
             /\ pending' = [pending EXCEPT ![d] = t]
             /\ Plain(t) = Plain(pending[d]) \o JoinCRLF(Decoded(msg[d]))
    BY <1>0, <1>4, FormatPartFacts
  <2>2. /\ UNCHANGED <<stdout, test, toWrite, log>> /\ pc[d] = "format"
        /\ \A e \in Dut : e # d => pc'[e] = pc[e] /\ pending'[e] = pending[e]
        /\ pc'[d] = "get" /\ pending'[d] = t
    BY <1>0, <1>4, <2>1 DEF FormatPart, ChunkTypeOK, TextType
  <2>3. \A e \in Dut : Terminal(e)' = Terminal(e)
    BY <2>2, TerminalIsShown, NextTerminalIsShown
  <2>4. Terminal(d) \o Plain(t) = PlainLog(log[d])
    BY <1>0, <2>1, <2>2, FormattedShows
  <2>5. ASSUME NEW e \in Dut, Alive(e)'
        PROVE  Terminal(e)' \o Plain(Held(e)') = PlainLog(Done(e)')
    <3>1. CASE e # d
      BY <1>0, <2>2, <2>3, <2>5, <3>1 DEF Alive, Held, Done
    <3>2. CASE e = d
      <4>1. Held(d)' = t /\ Done(d)' = log[d]
        BY <2>2 DEF Held, Done
      <4>2. QED
        BY <2>3, <2>4, <3>2, <4>1
    <3>3. QED
      BY <3>1, <3>2
  <2>6. QED
    BY <2>5, NextPrintedIs
<1>5. ASSUME UNCHANGED <<stdout, test, log>>,
             \A e \in Dut : Alive(e)' => /\ Alive(e) /\ Held(e)' = Held(e)
                                         /\ (pc'[e] = "format" <=> pc[e] = "format")
      PROVE  PrintedIsLogged'
  <2>1. \A e \in Dut : Terminal(e)' = Terminal(e)
    BY <1>5, TerminalIsShown, NextTerminalIsShown
  <2>2. \A e \in Dut : Alive(e)' => Done(e)' = Done(e)
    BY <1>5 DEF Done
  <2>3. \A e \in Dut : Alive(e)' => Terminal(e)' \o Plain(Held(e)') = PlainLog(Done(e)')
    BY <1>0, <1>5, <2>1, <2>2
  <2>4. QED
    BY <2>3, NextPrintedIs
<1>6. ASSUME NEW d \in Dut, Get(d) \/ Acquire(d) \/ Kill(d)  PROVE PrintedIsLogged'
  <2>1. UNCHANGED <<stdout, test, log, pending, toWrite>>
    BY <1>6 DEF Get, Acquire, Kill
  <2>2. \A e \in Dut : Alive(e)' => /\ Alive(e) /\ Held(e)' = Held(e)
                                    /\ (pc'[e] = "format" <=> pc[e] = "format")
    BY <1>0, <1>6, <2>1 DEF Get, Acquire, Kill, Alive, Held, ChunkTypeOK
  <2>3. QED
    BY <1>5, <2>1, <2>2
<1>7. ASSUME NEW d \in Dut, Release(d)  PROVE PrintedIsLogged'
  <2>1. UNCHANGED <<stdout, test, log, toWrite>>
    BY <1>7 DEF Release
  <2>2. \A e \in Dut : Alive(e)' => /\ Alive(e) /\ Held(e)' = Held(e)
                                    /\ (pc'[e] = "format" <=> pc[e] = "format")
    BY <1>0, <1>7, <2>1 DEF Release, Alive, Held, ChunkTypeOK, TextType
  <2>3. QED
    BY <1>5, <2>1, <2>2
<1>8. ASSUME NEW d \in Dut, Expect(d) \/ \E c \in Chunk : Put(d, c)  PROVE PrintedIsLogged'
  <2>1. UNCHANGED <<stdout, test, log, pending, toWrite, pc>>
    BY <1>8 DEF Expect, ExpectCall, ExpectRead, ExpectMatch, ExpectTimeout, Put, listenVars
  <2>2. QED
    BY <1>5, <2>1 DEF Alive, Held
<1>9. ASSUME CloseDaemons \/ UNCHANGED vars  PROVE PrintedIsLogged'
  <2>1. UNCHANGED <<stdout, test, log, pending, toWrite, pc>>
    BY <1>9 DEF CloseDaemons, vars, listenVars
  <2>2. QED
    BY <1>5, <2>1 DEF Alive, Held
<1>10. ASSUME NextTest  PROVE PrintedIsLogged'
  <2>1. ASSUME NEW e \in Dut, Alive(e)'
        PROVE  Terminal(e)' \o Plain(Held(e)') = PlainLog(Done(e)')
    <3>1. /\ stdout' = stdout /\ test' = test + 1 /\ pc'[e] = "get" /\ pending'[e] = <<>>
          /\ log'[e] = <<>>
      BY <1>10 DEF NextTest, FreshListeners, Each
    <3>2. PICK s \in Seq(Record) : s = stdout
      BY <1>0 DEF TextType
    <3>3. \A i \in 1..Len(s) : s[i].by # <<test + 1, e>>
      <4>1. ASSUME NEW i \in 1..Len(s), s[i].by = <<test + 1, e>> PROVE FALSE
        <5>1. s[i].by[1] = test + 1
          BY <4>1
        <5>2. s[i].by[1] <= test /\ test \in Nat
          BY <1>0, <3>2 DEF NoLaterTest, ChunkTypeOK
        <5>3. QED
          BY <5>1, <5>2
      <4>2. QED
        BY <4>1
    <3>4. Shown(s, <<test + 1, e>>) = <<>>
      BY <3>3, NothingShown
    <3>5. Terminal(e)' = <<>>
      BY <3>1, <3>2, <3>4, NextTerminalIsShown
    <3>6. Held(e)' = <<>> /\ Done(e)' = <<>>
      BY <3>1 DEF Held, Done
    <3>7. <<>> \o <<>> = <<>>
      OBVIOUS
    <3>8. QED
      BY <3>5, <3>6, <3>7, PlainOfNothing, PlainLogOfNothing
  <2>2. QED
    BY <2>1, NextPrintedIs
<1>11. QED
  BY <1>1, <1>2, <1>3, <1>4, <1>6, <1>7, <1>8, <1>9, <1>10 DEF Next, Listen, SessionOver

\* Nothing has been printed at the start.
LEMMA InitPrints == Init => TextInv
<1> SUFFICES ASSUME Init PROVE TextInv
  OBVIOUS
<1>1. PipelineInv
  BY InitEstablishes
<1>2. /\ stdout = <<>> /\ lock = Free
      /\ \A d \in Dut : /\ pc[d] = "get" /\ pending[d] = <<>> /\ log[d] = <<>>
                         /\ shallAddPrefix[d] = TRUE
  BY DEF Init, Each
<1>3. <<>> \in Seq(Printed) /\ <<>> \in Seq(Record) /\ <<>> \o <<>> = <<>> /\ Len(<<>>) = 0
  OBVIOUS
<1>4. TextType
  BY <1>3 DEF Init, Each, TextType
<1>5. HandIsLogged /\ PendingIsOpen
  BY <1>2 DEF HandIsLogged, PendingIsOpen, Opens
<1>6. LineInv /\ NoLaterTest
  BY <1>2, <1>3 DEF LineInv, NoLaterTest, Whole, AtLineStart
<1>7. PrintedIsLogged
  <2>1. ASSUME NEW d \in Dut
        PROVE  Terminal(d) \o Plain(Held(d)) = PlainLog(Done(d))
    <3>1. Shown(<<>>, <<test, d>>) = <<>>
      <4>1. PICK s \in Seq(Record) : s = <<>>
        BY <1>3
      <4>2. \A i \in 1..Len(s) : s[i].by # <<test, d>>
        BY <1>3, <4>1
      <4>3. QED
        BY <4>1, <4>2, NothingShown
    <3>2. Terminal(d) = <<>>
      BY <1>2, <3>1, TerminalIsShown
    <3>3. Held(d) = <<>> /\ Done(d) = <<>>
      BY <1>2 DEF Held, Done
    <3>4. QED
      BY <1>3, <3>2, <3>3, PlainOfNothing, PlainLogOfNothing
  <2>2. QED
    BY <2>1, PrintedIs
<1>8. QED
  BY <1>1, <1>4, <1>5, <1>6, <1>7 DEF TextInv, FormatInv

LEMMA TextInvariant == Spec => []TextInv
<1>1. TextInv /\ [Next]_vars => TextInv'
  <2>1. SUFFICES ASSUME TextInv, [Next]_vars PROVE TextInv'
    OBVIOUS
  <2>2. PipelineInv /\ FormatInv /\ HandIsLogged /\ LineInv /\ NoLaterTest
    BY <2>1 DEF TextInv, FormatInv
  <2>3. PipelineInv'
    BY <2>1, <2>2, StepKeepsChunkType, StepKeepsInHand, StepKeepsStream, StepKeepsLock
    DEF PipelineInv
  <2>4. HandIsLogged'
    BY <2>1, <2>2, StepKeepsHand
  <2>5. TextType' /\ PendingIsOpen'
    BY <2>1, <2>2, StepKeepsFormat
  <2>6. LineInv'
    BY <2>1, <2>2, StepKeepsLines
  <2>7. NoLaterTest'
    BY <2>1, <2>2, StepKeepsTests
  <2>8. PrintedIsLogged'
    BY <2>1, StepKeepsPrinted
  <2>9. QED
    BY <2>3, <2>4, <2>5, <2>6, <2>7, <2>8 DEF TextInv, FormatInv
<1>2. QED
  BY InitPrints, <1>1, PTL DEF Spec

-----------------------------------------------------------------------------
(* The theorems about text. *)

\* Every variable keeps its type: what is formatted and printed is text, and a
\* reader is never past the end of its file.
THEOREM TypeCorrect == Spec => []TypeOK
<1>1. TextInv /\ ReaderInv => TypeOK
  <2>1. SUFFICES ASSUME TextInv, ReaderInv PROVE TypeOK
    OBVIOUS
  <2>2. ChunkTypeOK /\ TextType
    BY <2>1 DEF TextInv, FormatInv, PipelineInv
  <2>3. \A d \in Dut : offset[d] \in 0..(Len(old[d]) + Len(log[d]))
    <3>1. ASSUME NEW d \in Dut PROVE offset[d] \in 0..(Len(old[d]) + Len(log[d]))
      <4>1. Len(File(d)) \in Nat /\ Len(File(d)) = Len(old[d]) + Len(log[d])
        BY <2>2, FileType
      <4>2. offset[d] \in Nat /\ offset[d] <= Len(File(d))
        BY <2>1 DEF ReaderInv
      <4>3. PICK o \in Nat, n \in Nat : o = offset[d] /\ n = Len(File(d))
        BY <4>1, <4>2
      <4>4. o \in 0..n
        BY <4>2, <4>3
      <4>5. QED
        BY <4>1, <4>3, <4>4
    <3>2. QED
      BY <3>1
  <2>4. QED
    BY <2>1, <2>2, <2>3 DEF TypeOK, TextTypeOK, TextType, ReaderInv, Printed, Record
<1>2. QED
  BY TextInvariant, ReaderInvariant, <1>1, PTL

\* A line on the terminal comes from one listener, begins with its prefix and has no
\* other, in whatever pieces the lines are written and whenever listeners are killed.
THEOREM LinesStayWhole == Spec => []LinesAreWhole
<1>1. TextInv => LinesAreWhole
  BY WholeIsWhole DEF TextInv, FormatInv
<1>2. QED
  BY TextInvariant, <1>1, PTL

\* While a listener lives, what it has printed and what it holds back are the text it
\* has logged: nothing is dropped, repeated or reordered, however the output is cut.
THEOREM TerminalShowsTheLog == Spec => []PrintedIsLogged
<1>1. TextInv => PrintedIsLogged
  BY DEF TextInv
<1>2. QED
  BY TextInvariant, <1>1, PTL

=============================================================================
